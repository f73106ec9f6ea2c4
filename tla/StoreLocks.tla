----------------------------- MODULE StoreLocks ------------------------------
(***************************************************************************)
(* The files of the local ledger and the processes that open them.         *)
(*                                                                         *)
(* Two advisory locks, neither of which is waited for, keep the processes  *)
(* apart.  Whoever has the ledger open shares the quiescence lock; a       *)
(* writer holds the writer lock besides; a diagnostic (doctor, verify,     *)
(* anchor), which reads the main database file as immutable, and the       *)
(* maintenance checkpoint hold the quiescence lock alone.  Transactions    *)
(* are committed to the write-ahead log and move to the main file by       *)
(* checkpoints, so a log that is left behind hides committed transactions  *)
(* from a diagnostic.                                                      *)
(*                                                                         *)
(* Release RC.9 could purge a ledger: under the exclusive quiescence lock  *)
(* it left a marker, deleted the database and removed the marker.  The     *)
(* code here only refuses to touch a ledger so marked.                     *)
(*                                                                         *)
(* An open that fails leaves nothing behind and is no step.  Once a        *)
(* process has the quiescence lock, marker and log are settled, so looking *)
(* at them is one step with taking the lock.  The locks of a process that  *)
(* dies are released by the operating system.                              *)
(***************************************************************************)
EXTENDS Naturals, FiniteSets

CONSTANTS
    Processes,  \* processes of qlog, of this release and of RC.9
    MaxCommits, \* bound on transactions
    MaxCrashes  \* bound on crashes

ASSUME StoreLocksAssumption == MaxCommits \in Nat /\ MaxCrashes \in Nat

VARIABLES
    \* the files
    home,      \* the data directory exists
    database,  \* the database exists
    marker,    \* a purge is pending
    committed, \* transactions committed
    main,      \* transactions in the main database file
    wal,       \* the write-ahead log is not empty
    lockFiles, \* the lock files that exist
    \* the locks
    shared,    \* stores that share the quiescence lock
    guards,    \* initializations that share it through their guard
    exclusive, \* holders of the exclusive quiescence lock
    writer,    \* holders of the exclusive writer lock
    \* the processes
    pc,
    statement, \* snapshot readers in the middle of a statement
    busy,      \* a checkpoint met such a reader
    crashes

ledger == <<database, committed, main, wal>>
files == <<home, marker, lockFiles, ledger>>
locks == <<shared, guards, exclusive, writer>>
vars == <<files, locks, pc, statement, busy, crashes>>

States == {"idle", "found", "absent", "configured", "opening", "locking", "writing",
           "closing", "diagnosing", "snapshot", "maintaining", "purging"}

Goto(p, state) == pc' = [pc EXCEPT ![p] = state]

-----------------------------------------------------------------------------
(* The locks, flock with LOCK_NB: as if each handle were a process.        *)

\* Mutant: a guard does not count.
CanHoldAloneBesideGuards == shared = {} /\ exclusive = {}

CanShare == exclusive = {}

CanHoldAlone == shared = {} /\ guards = {} /\ exclusive = {}

Release(p) ==
    /\ shared' = shared \ {p}
    /\ guards' = guards \ {p}
    /\ exclusive' = exclusive \ {p}
    /\ writer' = writer \ {p}

\* The process closes its store or is gone.
Exit(p) ==
    /\ Release(p)
    /\ Goto(p, "idle")
    /\ statement' = statement \ {p}

-----------------------------------------------------------------------------
(* Initializing.                                                           *)

\* AcquireInitializationGuard: a home that is absent is not guarded.
FindHome(p) ==
    /\ pc[p] = "idle"
    /\ home
    /\ CanShare
    /\ ~ marker
    /\ guards' = guards \union {p}
    /\ lockFiles' = lockFiles \union {"quiescence"}
    /\ Goto(p, "found")
    /\ UNCHANGED <<home, marker, ledger, shared, exclusive, writer, statement, busy,
                   crashes>>

MissHome(p) ==
    /\ pc[p] = "idle"
    /\ ~ home
    /\ Goto(p, "absent")
    /\ UNCHANGED <<files, locks, statement, busy, crashes>>

EnsureConfig(p) ==
    /\ pc[p] \in {"found", "absent"}
    /\ home' = TRUE
    /\ Goto(p, "configured")
    /\ UNCHANGED <<marker, lockFiles, ledger, locks, statement, busy, crashes>>

-----------------------------------------------------------------------------
(* Opening for writing, and closing.                                       *)

\* app.Open: the database must exist.
FindDatabase(p) ==
    /\ pc[p] = "idle"
    /\ database
    /\ Goto(p, "opening")
    /\ UNCHANGED <<files, locks, statement, busy, crashes>>

ShareQuiescence(p) ==
    /\ pc[p] \in {"configured", "opening"}
    /\ CanShare
    /\ ~ marker
    /\ shared' = shared \union {p}
    /\ lockFiles' = lockFiles \union {"quiescence"}
    /\ Goto(p, "locking")
    /\ UNCHANGED <<home, marker, ledger, guards, exclusive, writer, statement, busy,
                   crashes>>

\* The configuration cannot be written, or the open meets a lock or a marker:
\* the process lets go of what it holds.
GiveUp(p) ==
    /\ \/ pc[p] \in {"found", "absent"}
       \/ pc[p] \in {"configured", "opening"} /\ (~ CanShare \/ marker)
       \/ pc[p] = "locking" /\ writer # {}
    /\ Exit(p)
    /\ UNCHANGED <<files, busy, crashes>>

\* Mutant: the writer lock is shared.
OpenBesideWriter(p) ==
    /\ pc[p] = "locking"
    /\ writer' = writer \union {p}
    /\ lockFiles' = lockFiles \union {"writer"}
    /\ database' = TRUE
    /\ guards' = guards \ {p}
    /\ Goto(p, "writing")
    /\ UNCHANGED <<home, marker, committed, main, wal, shared, exclusive, statement,
                   busy, crashes>>

\* The database is created if it does not exist.  Initialize lets go of its
\* guard once the store has its own lock.
OpenForWriting(p) ==
    /\ pc[p] = "locking"
    /\ writer = {}
    /\ writer' = {p}
    /\ lockFiles' = lockFiles \union {"writer"}
    /\ database' = TRUE
    /\ guards' = guards \ {p}
    /\ Goto(p, "writing")
    /\ UNCHANGED <<home, marker, committed, main, wal, shared, exclusive, statement,
                   busy, crashes>>

\* SQLite may checkpoint some of the log by itself.
Commit(p) ==
    /\ pc[p] = "writing"
    /\ committed < MaxCommits
    /\ committed' = committed + 1
    /\ wal' = TRUE
    /\ main' \in main..committed'
    /\ UNCHANGED <<home, marker, lockFiles, database, locks, pc, statement, busy, crashes>>

\* wal_checkpoint(TRUNCATE): done, or stopped at what a reader still needs.
CheckpointWAL ==
    \/ /\ statement = {}
       /\ main' = committed
       /\ wal' = FALSE
       /\ UNCHANGED <<database, committed, busy>>
    \/ /\ statement # {}
       /\ main' \in main..committed
       /\ busy' = TRUE
       /\ UNCHANGED <<database, committed, wal>>

CloseWriter(p) ==
    /\ pc[p] = "writing"
    /\ CheckpointWAL
    /\ Goto(p, "closing")
    /\ UNCHANGED <<home, marker, lockFiles, locks, statement, crashes>>

\* Whatever the checkpoint said, the locks are released.
CloseLocks(p) ==
    /\ pc[p] \in {"closing", "diagnosing", "snapshot"}
    /\ p \notin statement
    /\ Exit(p)
    /\ UNCHANGED <<files, busy, crashes>>

-----------------------------------------------------------------------------
(* Reading.                                                                *)

HaveLockFiles == lockFiles = {"quiescence", "writer"}

\* Mutant: the log is not looked at.
OpenReadOnlyAnyway(p) ==
    /\ pc[p] = "idle"
    /\ database
    /\ HaveLockFiles
    /\ CanHoldAlone
    /\ ~ marker
    /\ exclusive' = exclusive \union {p}
    /\ Goto(p, "diagnosing")
    /\ UNCHANGED <<files, shared, guards, writer, statement, busy, crashes>>

OpenReadOnly(p) ==
    /\ pc[p] = "idle"
    /\ database
    /\ HaveLockFiles
    /\ CanHoldAlone
    /\ ~ marker
    /\ ~ wal
    /\ exclusive' = exclusive \union {p}
    /\ Goto(p, "diagnosing")
    /\ UNCHANGED <<files, shared, guards, writer, statement, busy, crashes>>

OpenSnapshotReadOnly(p) ==
    /\ pc[p] = "idle"
    /\ database
    /\ HaveLockFiles
    /\ CanShare
    /\ ~ marker
    /\ shared' = shared \union {p}
    /\ Goto(p, "snapshot")
    /\ UNCHANGED <<files, guards, exclusive, writer, statement, busy, crashes>>

\* A report is several statements, each of a snapshot of its own.
Query(p) ==
    /\ pc[p] = "snapshot"
    /\ statement' = IF p \in statement THEN statement \ {p} ELSE statement \union {p}
    /\ UNCHANGED <<files, locks, pc, busy, crashes>>

-----------------------------------------------------------------------------
(* Maintenance, purges and crashes.                                        *)

BeginCheckpoint(p) ==
    /\ pc[p] = "idle"
    /\ database
    /\ HaveLockFiles
    /\ CanHoldAlone
    /\ ~ marker
    /\ writer = {}
    /\ exclusive' = exclusive \union {p}
    /\ writer' = writer \union {p}
    /\ Goto(p, "maintaining")
    /\ UNCHANGED <<files, shared, guards, statement, busy, crashes>>

\* A ledger that does not verify is left as it is.
Checkpoint(p) ==
    /\ pc[p] = "maintaining"
    /\ CheckpointWAL \/ UNCHANGED <<ledger, busy>>
    /\ Exit(p)
    /\ UNCHANGED <<home, marker, lockFiles, crashes>>

BeginPurge(p) ==
    /\ pc[p] = "idle"
    /\ database
    /\ "quiescence" \in lockFiles
    /\ CanHoldAlone
    /\ exclusive' = exclusive \union {p}
    /\ marker' = TRUE
    /\ Goto(p, "purging")
    /\ UNCHANGED <<home, lockFiles, ledger, shared, guards, writer, statement, busy, crashes>>

Purge(p) ==
    /\ pc[p] = "purging"
    /\ marker' = FALSE
    /\ database' = FALSE
    /\ committed' = 0
    /\ main' = 0
    /\ wal' = FALSE
    /\ Exit(p)
    /\ UNCHANGED <<home, lockFiles, busy, crashes>>

Crash(p) ==
    /\ pc[p] # "idle"
    /\ crashes < MaxCrashes
    /\ crashes' = crashes + 1
    /\ Exit(p)
    /\ UNCHANGED <<files, busy>>

-----------------------------------------------------------------------------
Init ==
    /\ home = FALSE
    /\ database = FALSE
    /\ marker = FALSE
    /\ committed = 0
    /\ main = 0
    /\ wal = FALSE
    /\ lockFiles = {}
    /\ shared = {}
    /\ guards = {}
    /\ exclusive = {}
    /\ writer = {}
    /\ pc = [p \in Processes |-> "idle"]
    /\ statement = {}
    /\ busy = FALSE
    /\ crashes = 0

Next ==
    \E p \in Processes :
        \/ FindHome(p)
        \/ MissHome(p)
        \/ EnsureConfig(p)
        \/ FindDatabase(p)
        \/ ShareQuiescence(p)
        \/ GiveUp(p)
        \/ OpenForWriting(p)
        \/ Commit(p)
        \/ CloseWriter(p)
        \/ CloseLocks(p)
        \/ OpenReadOnly(p)
        \/ OpenSnapshotReadOnly(p)
        \/ Query(p)
        \/ BeginCheckpoint(p)
        \/ Checkpoint(p)
        \/ BeginPurge(p)
        \/ Purge(p)
        \/ Crash(p)

Spec == Init /\ [][Next]_vars

=============================================================================
