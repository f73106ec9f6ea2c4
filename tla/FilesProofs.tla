----------------------------- MODULE FilesProofs -----------------------------
(***************************************************************************)
(* What qlog does to the files of the user's machine, for any number of    *)
(* processes, transactions, homes, commands, edits and crashes: the locks  *)
(* and the log of the ledger, and the settings of the agents.              *)
(***************************************************************************)
EXTENDS StoreLocksProperties, AdaptersProperties, SequenceTheorems, TLAPS

(***************************************************************************)
(* The ledger's files.                                                     *)
(*                                                                         *)
(* Two facts carry the proofs.  Whoever holds the quiescence lock alone is *)
(* the only one to hold it, through a store or a guard (Alone); and an     *)
(* empty log, the only one diagnostics are run on, hides nothing.          *)
(* TypeOK says which lock goes with which state, so a process that could   *)
(* disturb another would have to hold a lock that the other excludes.      *)
(***************************************************************************)

Alone ==
    \A p \in exclusive : shared = {} /\ guards = {} /\ exclusive = {p}

EmptyLogHidesNothing ==
    /\ ~ wal => main = committed
    /\ wal => In({"diagnosing"}) = {}

Inv ==
    /\ TypeOK
    /\ OneWriter
    /\ Alone
    /\ EmptyLogHidesNothing
    /\ PendingPurgeIsRespected
    /\ LeftoverLogIsExplained

\* The invariant holds of a machine without a ledger.
LEMMA InitInv == Init => Inv
<1>. SUFFICES ASSUME Init PROVE Inv
  OBVIOUS
<1>. USE DEF Init
<1>1. \A states \in SUBSET (States \ {"idle"}) : In(states) = {}
  BY DEF In, States
<1>2. TypeOK
  <2>1. FlagsOK  BY DEF FlagsOK
  <2>. QED  BY <2>1, <1>1, StoreLocksAssumption DEF TypeOK, States
<1>3. OneWriter
  BY <1>1 DEF OneWriter, States
<1>4. Alone /\ EmptyLogHidesNothing /\ PendingPurgeIsRespected /\ LeftoverLogIsExplained
  BY DEF Alone, EmptyLogHidesNothing, PendingPurgeIsRespected, LeftoverLogIsExplained
<1>. QED
  BY <1>2, <1>3, <1>4 DEF Inv

\* Initializing takes a guard before it looks for a marker, or none.
LEMMA InitializationKeepsInv ==
    ASSUME Inv, NEW p \in Processes,
           FindHome(p) \/ MissHome(p) \/ EnsureConfig(p)
    PROVE  Inv'
<1>. USE DEF Inv, In, States, Goto
<1>1. CASE FindHome(p)
  <2>. USE <1>1 DEF FindHome, CanShare, ledger
  <2>1. TypeOK'
    <3>1. FlagsOK'  BY DEF TypeOK, FlagsOK
    <3>. QED  BY <3>1, StoreLocksAssumption DEF TypeOK
  <2>2. OneWriter'  BY DEF OneWriter, TypeOK
  <2>3. Alone'  BY DEF Alone, TypeOK
  <2>4. EmptyLogHidesNothing'  BY DEF EmptyLogHidesNothing, Alone, TypeOK
  <2>5. PendingPurgeIsRespected'  BY DEF PendingPurgeIsRespected, Alone, TypeOK
  <2>6. LeftoverLogIsExplained'  BY DEF LeftoverLogIsExplained, TypeOK
  <2>. QED  BY <2>1, <2>2, <2>3, <2>4, <2>5, <2>6
<1>2. CASE MissHome(p)
  <2>. USE <1>2 DEF MissHome, files, locks, ledger
  <2>1. TypeOK'
    <3>1. FlagsOK'  BY DEF TypeOK, FlagsOK
    <3>. QED  BY <3>1, StoreLocksAssumption DEF TypeOK
  <2>2. OneWriter'  BY DEF OneWriter, TypeOK
  <2>3. Alone'  BY DEF Alone, TypeOK
  <2>4. EmptyLogHidesNothing'  BY DEF EmptyLogHidesNothing, Alone, TypeOK
  <2>5. PendingPurgeIsRespected'  BY DEF PendingPurgeIsRespected, Alone, TypeOK
  <2>6. LeftoverLogIsExplained'  BY DEF LeftoverLogIsExplained, TypeOK
  <2>. QED  BY <2>1, <2>2, <2>3, <2>4, <2>5, <2>6
<1>3. CASE EnsureConfig(p)
  <2>. USE <1>3 DEF EnsureConfig, locks, ledger
  <2>1. TypeOK'
    <3>1. FlagsOK'  BY DEF TypeOK, FlagsOK
    <3>. QED  BY <3>1, StoreLocksAssumption DEF TypeOK
  <2>2. OneWriter'  BY DEF OneWriter, TypeOK
  <2>3. Alone'  BY DEF Alone, TypeOK
  <2>4. EmptyLogHidesNothing'  BY DEF EmptyLogHidesNothing, Alone, TypeOK
  <2>5. PendingPurgeIsRespected'  BY DEF PendingPurgeIsRespected, Alone, TypeOK
  <2>6. LeftoverLogIsExplained'  BY DEF LeftoverLogIsExplained, TypeOK
  <2>. QED  BY <2>1, <2>2, <2>3, <2>4, <2>5, <2>6
<1>. QED  BY <1>1, <1>2, <1>3

\* A store that opens shares the quiescence lock before it takes the writer
\* lock, and initialization lets go of its guard only after both.
LEMMA OpeningKeepsInv ==
    ASSUME Inv, NEW p \in Processes,
           FindDatabase(p) \/ ShareQuiescence(p) \/ GiveUp(p) \/ OpenForWriting(p)
    PROVE  Inv'
<1>. USE DEF Inv, In, States, Goto
<1>1. CASE FindDatabase(p)
  <2>. USE <1>1 DEF FindDatabase, files, locks, ledger
  <2>1. TypeOK'
    <3>1. FlagsOK'  BY DEF TypeOK, FlagsOK
    <3>. QED  BY <3>1, StoreLocksAssumption DEF TypeOK
  <2>2. OneWriter'  BY DEF OneWriter, TypeOK
  <2>3. Alone'  BY DEF Alone, TypeOK
  <2>4. EmptyLogHidesNothing'  BY DEF EmptyLogHidesNothing, Alone, TypeOK
  <2>5. PendingPurgeIsRespected'  BY DEF PendingPurgeIsRespected, Alone, TypeOK
  <2>6. LeftoverLogIsExplained'  BY DEF LeftoverLogIsExplained, TypeOK
  <2>. QED  BY <2>1, <2>2, <2>3, <2>4, <2>5, <2>6
<1>2. CASE ShareQuiescence(p)
  <2>. USE <1>2 DEF ShareQuiescence, CanShare, ledger
  <2>1. TypeOK'
    <3>1. FlagsOK'  BY DEF TypeOK, FlagsOK
    <3>. QED  BY <3>1, StoreLocksAssumption DEF TypeOK
  <2>2. OneWriter'  BY DEF OneWriter, TypeOK
  <2>3. Alone'  BY DEF Alone, TypeOK
  <2>4. EmptyLogHidesNothing'  BY DEF EmptyLogHidesNothing, Alone, TypeOK
  <2>5. PendingPurgeIsRespected'  BY DEF PendingPurgeIsRespected, Alone, TypeOK
  <2>6. LeftoverLogIsExplained'  BY DEF LeftoverLogIsExplained, TypeOK
  <2>. QED  BY <2>1, <2>2, <2>3, <2>4, <2>5, <2>6
<1>3. CASE GiveUp(p)
  <2>. USE <1>3 DEF GiveUp, Exit, Release, files, ledger
  <2>1. TypeOK'
    <3>1. FlagsOK'  BY DEF TypeOK, FlagsOK
    <3>. QED  BY <3>1, StoreLocksAssumption DEF TypeOK
  <2>2. OneWriter'  BY DEF OneWriter, TypeOK
  <2>3. Alone'  BY DEF Alone, TypeOK
  <2>4. EmptyLogHidesNothing'  BY DEF EmptyLogHidesNothing, Alone, TypeOK
  <2>5. PendingPurgeIsRespected'  BY DEF PendingPurgeIsRespected, Alone, TypeOK
  <2>6. LeftoverLogIsExplained'  BY DEF LeftoverLogIsExplained, TypeOK
  <2>. QED  BY <2>1, <2>2, <2>3, <2>4, <2>5, <2>6
<1>4. CASE OpenForWriting(p)
  <2>. USE <1>4 DEF OpenForWriting
  <2>1. TypeOK'
    <3>1. FlagsOK'  BY DEF TypeOK, FlagsOK
    <3>. QED  BY <3>1, StoreLocksAssumption DEF TypeOK
  <2>2. OneWriter'  BY DEF OneWriter, TypeOK
  <2>3. Alone'  BY DEF Alone, TypeOK
  <2>4. EmptyLogHidesNothing'  BY DEF EmptyLogHidesNothing, Alone, TypeOK
  <2>5. PendingPurgeIsRespected'  BY DEF PendingPurgeIsRespected, Alone, TypeOK
  <2>6. LeftoverLogIsExplained'  BY DEF LeftoverLogIsExplained, TypeOK
  <2>. QED  BY <2>1, <2>2, <2>3, <2>4, <2>5, <2>6
<1>. QED  BY <1>1, <1>2, <1>3, <1>4

\* A writer leaves an empty log or one whose checkpoint met a reader.
LEMMA WritingKeepsInv ==
    ASSUME Inv, NEW p \in Processes,
           Commit(p) \/ CloseWriter(p) \/ CloseLocks(p)
    PROVE  Inv'
<1>. USE DEF Inv, In, States, Goto
<1>1. CASE Commit(p)
  <2>. USE <1>1 DEF Commit, locks
  <2>1. TypeOK'
    <3>1. FlagsOK'  BY DEF TypeOK, FlagsOK
    <3>. QED  BY <3>1, StoreLocksAssumption DEF TypeOK
  <2>2. OneWriter'  BY DEF OneWriter, TypeOK
  <2>3. Alone'  BY DEF Alone, TypeOK
  <2>4. EmptyLogHidesNothing'  BY DEF EmptyLogHidesNothing, Alone, TypeOK
  <2>5. PendingPurgeIsRespected'  BY DEF PendingPurgeIsRespected, Alone, TypeOK
  <2>6. LeftoverLogIsExplained'  BY DEF LeftoverLogIsExplained, TypeOK
  <2>. QED  BY <2>1, <2>2, <2>3, <2>4, <2>5, <2>6
<1>2. CASE CloseWriter(p)
  <2>. USE <1>2 DEF CloseWriter, CheckpointWAL, locks
  <2>1. TypeOK'
    <3>1. FlagsOK'  BY DEF TypeOK, FlagsOK
    <3>. QED  BY <3>1, StoreLocksAssumption DEF TypeOK
  <2>2. OneWriter'  BY DEF OneWriter, TypeOK
  <2>3. Alone'  BY DEF Alone, TypeOK
  <2>4. EmptyLogHidesNothing'  BY DEF EmptyLogHidesNothing, Alone, TypeOK
  <2>5. PendingPurgeIsRespected'  BY DEF PendingPurgeIsRespected, Alone, TypeOK
  <2>6. LeftoverLogIsExplained'  BY DEF LeftoverLogIsExplained, TypeOK
  <2>. QED  BY <2>1, <2>2, <2>3, <2>4, <2>5, <2>6
<1>3. CASE CloseLocks(p)
  <2>. USE <1>3 DEF CloseLocks, Exit, Release, files, ledger
  <2>1. TypeOK'
    <3>1. FlagsOK'  BY DEF TypeOK, FlagsOK
    <3>. QED  BY <3>1, StoreLocksAssumption DEF TypeOK
  <2>2. OneWriter'  BY DEF OneWriter, TypeOK
  <2>3. Alone'  BY DEF Alone, TypeOK
  <2>4. EmptyLogHidesNothing'  BY DEF EmptyLogHidesNothing, Alone, TypeOK
  <2>5. PendingPurgeIsRespected'  BY DEF PendingPurgeIsRespected, Alone, TypeOK
  <2>6. LeftoverLogIsExplained'  BY DEF LeftoverLogIsExplained, TypeOK
  <2>. QED  BY <2>1, <2>2, <2>3, <2>4, <2>5, <2>6
<1>. QED  BY <1>1, <1>2, <1>3

\* A diagnostic starts with nobody else there and an empty log.
LEMMA ReadingKeepsInv ==
    ASSUME Inv, NEW p \in Processes,
           OpenReadOnly(p) \/ OpenSnapshotReadOnly(p) \/ Query(p)
    PROVE  Inv'
<1>. USE DEF Inv, In, States, Goto
<1>1. CASE OpenReadOnly(p)
  <2>. USE <1>1 DEF OpenReadOnly, CanHoldAlone, files, ledger
  <2>1. TypeOK'
    <3>1. FlagsOK'  BY DEF TypeOK, FlagsOK
    <3>. QED  BY <3>1, StoreLocksAssumption DEF TypeOK
  <2>2. OneWriter'  BY DEF OneWriter, TypeOK
  <2>3. Alone'  BY DEF Alone, TypeOK
  <2>4. EmptyLogHidesNothing'  BY DEF EmptyLogHidesNothing, Alone, TypeOK
  <2>5. PendingPurgeIsRespected'  BY DEF PendingPurgeIsRespected, Alone, TypeOK
  <2>6. LeftoverLogIsExplained'  BY DEF LeftoverLogIsExplained, TypeOK
  <2>. QED  BY <2>1, <2>2, <2>3, <2>4, <2>5, <2>6
<1>2. CASE OpenSnapshotReadOnly(p)
  <2>. USE <1>2 DEF OpenSnapshotReadOnly, CanShare, files, ledger
  <2>1. TypeOK'
    <3>1. FlagsOK'  BY DEF TypeOK, FlagsOK
    <3>. QED  BY <3>1, StoreLocksAssumption DEF TypeOK
  <2>2. OneWriter'  BY DEF OneWriter, TypeOK
  <2>3. Alone'  BY DEF Alone, TypeOK
  <2>4. EmptyLogHidesNothing'  BY DEF EmptyLogHidesNothing, Alone, TypeOK
  <2>5. PendingPurgeIsRespected'  BY DEF PendingPurgeIsRespected, Alone, TypeOK
  <2>6. LeftoverLogIsExplained'  BY DEF LeftoverLogIsExplained, TypeOK
  <2>. QED  BY <2>1, <2>2, <2>3, <2>4, <2>5, <2>6
<1>3. CASE Query(p)
  <2>. USE <1>3 DEF Query, files, locks, ledger
  <2>1. TypeOK'
    <3>1. FlagsOK'  BY DEF TypeOK, FlagsOK
    <3>. QED  BY <3>1, StoreLocksAssumption DEF TypeOK
  <2>2. OneWriter'  BY DEF OneWriter, TypeOK
  <2>3. Alone'  BY DEF Alone, TypeOK
  <2>4. EmptyLogHidesNothing'  BY DEF EmptyLogHidesNothing, Alone, TypeOK
  <2>5. PendingPurgeIsRespected'  BY DEF PendingPurgeIsRespected, Alone, TypeOK
  <2>6. LeftoverLogIsExplained'  BY DEF LeftoverLogIsExplained, TypeOK
  <2>. QED  BY <2>1, <2>2, <2>3, <2>4, <2>5, <2>6
<1>. QED  BY <1>1, <1>2, <1>3

\* Maintenance and purges are alone; a crash releases what was held.
LEMMA MaintenanceKeepsInv ==
    ASSUME Inv, NEW p \in Processes,
           BeginCheckpoint(p) \/ Checkpoint(p) \/ BeginPurge(p) \/ Purge(p) \/ Crash(p)
    PROVE  Inv'
<1>. USE DEF Inv, In, States, Goto
<1>1. CASE BeginCheckpoint(p)
  <2>. USE <1>1 DEF BeginCheckpoint, CanHoldAlone, files, ledger
  <2>1. TypeOK'
    <3>1. FlagsOK'  BY DEF TypeOK, FlagsOK
    <3>. QED  BY <3>1, StoreLocksAssumption DEF TypeOK
  <2>2. OneWriter'  BY DEF OneWriter, TypeOK
  <2>3. Alone'  BY DEF Alone, TypeOK
  <2>4. EmptyLogHidesNothing'  BY DEF EmptyLogHidesNothing, Alone, TypeOK
  <2>5. PendingPurgeIsRespected'  BY DEF PendingPurgeIsRespected, Alone, TypeOK
  <2>6. LeftoverLogIsExplained'  BY DEF LeftoverLogIsExplained, TypeOK
  <2>. QED  BY <2>1, <2>2, <2>3, <2>4, <2>5, <2>6
<1>2. CASE Checkpoint(p)
  <2>. USE <1>2 DEF Checkpoint, CheckpointWAL, Exit, Release, ledger
  <2>1. TypeOK'
    <3>1. FlagsOK'  BY DEF TypeOK, FlagsOK
    <3>. QED  BY <3>1, StoreLocksAssumption DEF TypeOK
  <2>2. OneWriter'  BY DEF OneWriter, TypeOK
  <2>3. Alone'  BY DEF Alone, TypeOK
  <2>4. EmptyLogHidesNothing'  BY DEF EmptyLogHidesNothing, Alone, TypeOK
  <2>5. PendingPurgeIsRespected'  BY DEF PendingPurgeIsRespected, Alone, TypeOK
  <2>6. LeftoverLogIsExplained'  BY DEF LeftoverLogIsExplained, TypeOK
  <2>. QED  BY <2>1, <2>2, <2>3, <2>4, <2>5, <2>6
<1>3. CASE BeginPurge(p)
  <2>. USE <1>3 DEF BeginPurge, CanHoldAlone, ledger
  <2>1. TypeOK'
    <3>1. FlagsOK'  BY DEF TypeOK, FlagsOK
    <3>. QED  BY <3>1, StoreLocksAssumption DEF TypeOK
  <2>2. OneWriter'  BY DEF OneWriter, TypeOK
  <2>3. Alone'  BY DEF Alone, TypeOK
  <2>4. EmptyLogHidesNothing'  BY DEF EmptyLogHidesNothing, Alone, TypeOK
  <2>5. PendingPurgeIsRespected'  BY DEF PendingPurgeIsRespected, Alone, TypeOK
  <2>6. LeftoverLogIsExplained'  BY DEF LeftoverLogIsExplained, TypeOK
  <2>. QED  BY <2>1, <2>2, <2>3, <2>4, <2>5, <2>6
<1>4. CASE Purge(p)
  <2>. USE <1>4 DEF Purge, Exit, Release
  <2>1. TypeOK'
    <3>1. FlagsOK'  BY DEF TypeOK, FlagsOK
    <3>. QED  BY <3>1, StoreLocksAssumption DEF TypeOK
  <2>2. OneWriter'  BY DEF OneWriter, TypeOK
  <2>3. Alone'  BY DEF Alone, TypeOK
  <2>4. EmptyLogHidesNothing'  BY DEF EmptyLogHidesNothing, Alone, TypeOK
  <2>5. PendingPurgeIsRespected'  BY DEF PendingPurgeIsRespected, Alone, TypeOK
  <2>6. LeftoverLogIsExplained'  BY DEF LeftoverLogIsExplained, TypeOK
  <2>. QED  BY <2>1, <2>2, <2>3, <2>4, <2>5, <2>6
<1>5. CASE Crash(p)
  <2>. USE <1>5 DEF Crash, Exit, Release, files, ledger
  <2>1. TypeOK'
    <3>1. FlagsOK'  BY DEF TypeOK, FlagsOK
    <3>. QED  BY <3>1, StoreLocksAssumption DEF TypeOK
  <2>2. OneWriter'  BY DEF OneWriter, TypeOK
  <2>3. Alone'  BY DEF Alone, TypeOK
  <2>4. EmptyLogHidesNothing'  BY DEF EmptyLogHidesNothing, Alone, TypeOK
  <2>5. PendingPurgeIsRespected'  BY DEF PendingPurgeIsRespected, Alone, TypeOK
  <2>6. LeftoverLogIsExplained'  BY DEF LeftoverLogIsExplained, TypeOK
  <2>. QED  BY <2>1, <2>2, <2>3, <2>4, <2>5, <2>6
<1>. QED  BY <1>1, <1>2, <1>3, <1>4, <1>5

\* The invariant is inductive.
LEMMA NextKeepsInv == Inv /\ [Next]_vars => Inv'
<1>. SUFFICES ASSUME Inv, [Next]_vars PROVE Inv'
  OBVIOUS
<1>1. CASE UNCHANGED vars
  BY <1>1 DEF vars, files, ledger, locks, Inv, TypeOK, FlagsOK, OneWriter, Alone,
       EmptyLogHidesNothing, PendingPurgeIsRespected, LeftoverLogIsExplained, In
<1>2. CASE Next
  <2>. PICK p \in Processes :
          \/ FindHome(p) \/ MissHome(p) \/ EnsureConfig(p)
          \/ FindDatabase(p) \/ ShareQuiescence(p) \/ GiveUp(p) \/ OpenForWriting(p)
          \/ Commit(p) \/ CloseWriter(p) \/ CloseLocks(p)
          \/ OpenReadOnly(p) \/ OpenSnapshotReadOnly(p) \/ Query(p)
          \/ BeginCheckpoint(p) \/ Checkpoint(p) \/ BeginPurge(p) \/ Purge(p) \/ Crash(p)
    BY <1>2, Zenon DEF Next
  <2>. QED
    BY InitializationKeepsInv, OpeningKeepsInv, WritingKeepsInv, ReadingKeepsInv,
       MaintenanceKeepsInv
<1>. QED
  BY <1>1, <1>2

LEMMA Invariance == Spec => []Inv
BY InitInv, NextKeepsInv, PTL DEF Spec

-----------------------------------------------------------------------------
\* A process holds the locks that belong to what it does and no others, however
\* its opens, closes and crashes fall among those of the others.
THEOREM TypeCorrect == Spec => []TypeOK
BY Invariance, PTL DEF Inv

\* Two processes never write or checkpoint the ledger at once (Open, Checkpoint).
THEOREM AtMostOneWriter == Spec => []OneWriter
BY Invariance, PTL DEF Inv

\* While a purge is pending nobody has the ledger open or initializes over it
\* (rejectPurgeMarker under the quiescence lock).
THEOREM PurgesAreRespected == Spec => []PendingPurgeIsRespected
BY Invariance, PTL DEF Inv

\* Diagnostics are only refused because of a crash or of a report that was
\* running while a writer closed (Close).
THEOREM LeftoverLogsAreExplained == Spec => []LeftoverLogIsExplained
BY Invariance, PTL DEF Inv

\* A diagnostic reads all that was committed (OpenReadOnly).
THEOREM DiagnosticsReadEverything == Spec => []DiagnosticsAreComplete
<1>1. Inv => DiagnosticsAreComplete
  <2>. SUFFICES ASSUME Inv, NEW p \in In({"diagnosing"})
                PROVE  /\ main = committed
                       /\ \A q \in Processes \ {p} :
                             /\ pc[q] \in {"idle", "absent", "configured", "opening"}
                             /\ q \notin guards
    BY DEF DiagnosticsAreComplete
  <2>1. p \in exclusive
    BY DEF Inv, TypeOK, In
  <2>2. shared = {} /\ guards = {} /\ exclusive = {p}
    BY <2>1 DEF Inv, Alone
  <2>3. main = committed
    BY DEF Inv, EmptyLogHidesNothing
  <2>. QED
    BY <2>2, <2>3 DEF Inv, TypeOK, In, States
<1>. QED
  BY <1>1, Invariance, PTL

\* The file a diagnostic has opened as immutable is not changed under it.
THEOREM DiagnosticsReadOneFile == Spec => DiagnosticsAreUndisturbed
<1> DEFINE Undisturbed ==
        \A p \in Processes :
            pc[p] = "diagnosing" /\ pc'[p] = "diagnosing" => UNCHANGED ledger
<1>1. Inv /\ [Next]_vars => [Undisturbed]_vars
  <2>. SUFFICES ASSUME Inv, NEW p \in Processes, Next,
                       pc[p] = "diagnosing", pc'[p] = "diagnosing"
                PROVE  UNCHANGED ledger
    BY DEF vars
  <2>1. shared = {} /\ exclusive = {p} /\ pc[p] \in States
    BY DEF Inv, TypeOK, Alone, In
  <2>2. PICK q \in Processes :
           \/ FindHome(q) \/ MissHome(q) \/ EnsureConfig(q)
           \/ FindDatabase(q) \/ ShareQuiescence(q) \/ GiveUp(q) \/ OpenForWriting(q)
           \/ Commit(q) \/ CloseWriter(q) \/ CloseLocks(q)
           \/ OpenReadOnly(q) \/ OpenSnapshotReadOnly(q) \/ Query(q)
           \/ BeginCheckpoint(q) \/ Checkpoint(q) \/ BeginPurge(q) \/ Purge(q) \/ Crash(q)
    BY Zenon DEF Next
  <2>3. pc[q] \notin {"locking", "writing", "maintaining", "purging"}
    BY <2>1 DEF Inv, TypeOK, In
  <2>4. ~ OpenForWriting(q) /\ ~ Commit(q) /\ ~ CloseWriter(q) /\ ~ Checkpoint(q) /\ ~ Purge(q)
    BY <2>3 DEF OpenForWriting, Commit, CloseWriter, Checkpoint, Purge
  <2>. QED
    BY <2>2, <2>4 DEF FindHome, MissHome, EnsureConfig, FindDatabase, ShareQuiescence,
         GiveUp, CloseLocks, OpenReadOnly, OpenSnapshotReadOnly, Query, BeginCheckpoint,
         BeginPurge, Crash, files, ledger
<1>. QED
  BY <1>1, Invariance, PTL DEF Spec, DiagnosticsAreUndisturbed

-----------------------------------------------------------------------------
(***************************************************************************)
(* The files of an agent.                                                  *)
(*                                                                         *)
(* A command is the list of the disks its writes lead through, made when   *)
(* it begins, so the invariant is about that list: every disk in it is a   *)
(* good one (Good), each write spares what is the user's (Spares), and the *)
(* last one is what the command is for (Outcome).  Good is what makes the  *)
(* next command right wherever this one is cut off: what a setting held    *)
(* before qlog is on record (Kept), a record and a missing file fit the    *)
(* rest of the disk (Shaped), and no place holds text of qlog that no      *)
(* record names (Unnamed), but for what an unfinished install has left.    *)
(*                                                                         *)
(* The plans are put together write by write: StartIs, WriteIs and StopIs  *)
(* say what each part of a plan owes, the lemmas of an adapter that its    *)
(* writes deliver it, and the lemmas of the actions that the plan's        *)
(* promise moves from the run to the disk.                                 *)
(***************************************************************************)

\* Disks, with values of every kind in every place.
Values == {"absent", "mine", "off"} \cup Homes
Records == [present : BOOLEAN,
            original : [Keys -> Values \cup {"untracked"}],
            wrote : [Keys -> Values \cup {"untracked"}]]
Disks == [file : BOOLEAN, settings : [Keys -> Values],
          blocks : [Places -> Homes \cup UserText \cup {"none"}],
          listed : SUBSET Places, record : Records]

\* The texts that a place may hold, and the places that a list may name.
TextsOf(q) ==
    IF q = "owned"
      THEN IF kind \in {"codex", "vscode"} THEN {"none"} ELSE Homes \cup {"none"}
    ELSE IF kind = "vscode" /\ q \in Homes THEN UserText \cup {"none", q}
    ELSE IF kind = "posix" /\ q \in {"p1", "p2"} THEN UserText \cup Homes \cup {"none"}
    ELSE IF kind = "powershell" /\ q \in {"p1", "p2"} THEN Homes \cup {"none", "edited"}
    ELSE {"none"}
MayList ==
    CASE kind = "vscode" -> Homes
      [] kind \in {"posix", "powershell"} -> {"p1", "p2"}
      [] OTHER -> {}

\* A record names what qlog writes, and Claude Code's and VS Code's leave no
\* setting out.  There is nothing left of a record that is gone.
RecordFits(d) ==
    /\ \A k \in Keys :
          d.record.original[k] \in Theirs(k) \cup Managed(k) \cup {"untracked"}
    /\ ~ d.record.present => d.record = NoRecord
    /\ d.record.present => \A k \in Keys :
          /\ d.record.wrote[k] \in Managed(k)
          /\ kind # "codex" => d.record.original[k] # "untracked"

\* With the settings file the user has deleted what stood in it.
FileFits(d) ==
    (~ d.file /\ kind \in {"codex", "claude", "vscode"}) =>
        /\ \A k \in Keys : d.settings[k] = "absent" /\ "absent" \in chosen[k]
        /\ d.blocks["owned"] = "none"
        /\ kind = "vscode" => ~ d.record.present

\* Each value is one that the user or qlog may have put where it is.
Shaped(d) ==
    /\ d \in Disks
    /\ \A k \in Keys : d.settings[k] \in Theirs(k) \cup Managed(k)
    /\ \A q \in Places : d.blocks[q] \in TextsOf(q)
    /\ d.listed \subseteq MayList
    /\ RecordFits(d)
    /\ FileFits(d)

\* The conclusion of OriginalsOnRecord; InOrder is its hypothesis.
Kept(d) ==
    \A k \in Keys :
        /\ d.record.original[k] \in Theirs(k) \cup {"untracked"}
        /\ d.settings[k] \notin Theirs(k) =>
               d.record.present /\ d.record.original[k] # "untracked"

InOrder == kind = "codex" => loose = {}

\* A disk on which a command that is cut off may leave the machine.  An
\* install may have text on it that is not on record yet.
Good(name, d) ==
    /\ Shaped(d)
    /\ InOrder => Kept(d)
    /\ (loose = {} /\ name # "install") => Unnamed(d) = {}

\* A write from d to e takes nothing from the user.
Spares(name, d, e) ==
    /\ \A q \in Places : d.blocks[q] \in UserText => e.blocks[q] = d.blocks[q]
    /\ \A k \in Keys :
          (name = "uninstall" /\ e.settings[k] # d.settings[k])
              => d.settings[k] \in Managed(k)

\* What an uninstall is for.
Removed(d) ==
    /\ \A k \in Keys : d.settings[k] \in Theirs(k)
    /\ Ours(d) = {}
    /\ d.listed = {}
    /\ ~ Installed(d, <<"p1">>)

\* The disk before a write of a command, and the one it ends with.
Before(d, steps, i) == IF i = 1 THEN d ELSE steps[i - 1]
End(d, steps) == IF steps = <<>> THEN d ELSE steps[Len(steps)]

\* What a command that reports success has done, while nothing followed.
Outcome(name, h, at, d) ==
    /\ name = "install" => /\ InOrder => Installed(d, at)
                           /\ SetUpFor(d, h, at)
    /\ name = "uninstall" /\ loose = {} /\ kind # "opencode" => Removed(d)

\* The rest of a command keeps what it should and leads to its outcome.
RunInv ==
    /\ run.steps \in Seq(Disks)
    /\ run.ok \in BOOLEAN
    /\ run.name \in {"idle", "install", "uninstall"}
    /\ run.name = "idle" => run.steps = <<>>
    /\ \A i \in 1..Len(run.steps) :
          /\ Good(run.name, run.steps[i])
          /\ Spares(run.name, Before(disk, run.steps, i), run.steps[i])
    /\ run.ok => Outcome(run.name, run.home, run.at, End(disk, run.steps))

ChosenFits ==
    /\ chosen \in [Keys -> SUBSET Values]
    /\ \A k \in Keys : chosen[k] \subseteq UserValues(k)

AdapterInv ==
    /\ kind \in Kinds
    /\ ChosenFits
    /\ Good(run.name, disk)
    /\ RunInv
    /\ Outcome(last, run.home, run.at, disk)
    /\ last # "none" => run.name = "idle"

-----------------------------------------------------------------------------
(* Plans.                                                                  *)

\* A plan that starts from a disk leads through good ones and spares what is
\* the user's at each of its writes.
PlanFrom(name, d, p) ==
    /\ p \in [disk : Disks, steps : Seq(Disks), ok : BOOLEAN]
    /\ p.disk = End(d, p.steps)
    /\ Good(name, p.disk)
    /\ \A i \in 1..Len(p.steps) :
          Good(name, p.steps[i]) /\ Spares(name, Before(d, p.steps, i), p.steps[i])

LEMMA StartIs ==
    ASSUME NEW name, NEW d, Good(name, d)
    PROVE  /\ PlanFrom(name, d, Start(d))
           /\ Start(d).disk = d
           /\ Start(d).ok
<1>1. Start(d).steps = <<>> /\ Start(d).disk = d /\ Start(d).ok = TRUE
    BY DEF Start
<1>2. <<>> \in Seq(Disks) /\ Len(<<>>) = 0 /\ d \in Disks
    BY DEF Good, Shaped
<1> QED
    BY <1>1, <1>2 DEF PlanFrom, Start, End

\* One more write that is good and spares what it should keeps a plan such.
LEMMA WriteIs ==
    ASSUME NEW name, NEW d, NEW p, PlanFrom(name, d, p), NEW e,
           p.ok => Good(name, e) /\ Spares(name, p.disk, e)
    PROVE  /\ PlanFrom(name, d, Write(p, e))
           /\ Write(p, e).ok = p.ok
           /\ Write(p, e).disk = IF p.ok THEN e ELSE p.disk
<1>1. CASE ~ (p.ok /\ e # p.disk)
    BY <1>1 DEF Write, PlanFrom
<1>2. CASE p.ok /\ e # p.disk
    <2> DEFINE n == Len(p.steps)
               new == Append(p.steps, e)
    <2>2. e \in Disks
        BY <1>2 DEF Good, Shaped
    <2>3. /\ n \in Nat
          /\ new \in Seq(Disks)
          /\ Len(new) = n + 1
          /\ new[n + 1] = e
          /\ \A i \in 1..n : new[i] = p.steps[i]
        BY <2>2 DEF PlanFrom
    <2>1. /\ Write(p, e).disk = e
          /\ Write(p, e).steps = new
          /\ Write(p, e).ok = p.ok
          /\ Write(p, e) \in [disk : Disks, steps : Seq(Disks), ok : BOOLEAN]
        BY <1>2, <2>2, <2>3 DEF Write, PlanFrom
    <2>4. \A i \in 1..n : Before(d, new, i) = Before(d, p.steps, i)
        <3> TAKE i \in 1..n
        <3>1. CASE i = 1
            BY <3>1 DEF Before
        <3>2. CASE i # 1
            <4>1. i - 1 \in 1..n
                BY <2>3, <3>2
            <4> QED
                BY <2>3, <3>2, <4>1 DEF Before
        <3> QED
            BY <3>1, <3>2
    <2>5. Before(d, new, n + 1) = p.disk
        <3>1. CASE n = 0
            <4>1. p.steps = <<>>
                BY <3>1, EmptySeq DEF PlanFrom
            <4> QED
                BY <3>1, <4>1 DEF Before, PlanFrom, End
        <3>2. CASE n # 0
            <4>1. p.steps # <<>> /\ n \in 1..n /\ n + 1 # 1 /\ n + 1 - 1 = n
                BY <2>3, <3>2
            <4> QED
                BY <2>3, <4>1 DEF Before, PlanFrom, End
        <3> QED
            BY <3>1, <3>2
    <2>6. End(d, new) = e
        <3>1. new # <<>>
            BY <2>3
        <3> HIDE DEF new
        <3> QED
            BY <2>3, <3>1 DEF End
    <2>7. \A i \in 1..(n + 1) : i = n + 1 \/ i \in 1..n
        BY <2>3
    <2>8. ASSUME NEW i \in 1..(n + 1)
          PROVE  Good(name, new[i]) /\ Spares(name, Before(d, new, i), new[i])
        <3>1. CASE i = n + 1
            <4> HIDE DEF new, n
            <4> QED
                BY <1>2, <2>3, <2>5, <3>1
        <3>2. CASE i \in 1..n
            <4>1. Good(name, p.steps[i]) /\ Spares(name, Before(d, p.steps, i), p.steps[i])
                BY <3>2 DEF PlanFrom
            <4> HIDE DEF new, n
            <4> QED
                BY <2>3, <2>4, <3>2, <4>1
        <3> QED
            BY <2>7, <3>1, <3>2
    <2> HIDE DEF new, n
    <2>9. p.ok \in BOOLEAN
        BY DEF PlanFrom
    <2> QED
        BY <1>2, <2>1, <2>3, <2>6, <2>8, <2>9 DEF PlanFrom
<1> QED
    BY <1>1, <1>2

\* A plan that stops writes no more.
LEMMA StopIs ==
    ASSUME NEW name, NEW d, NEW p, PlanFrom(name, d, p)
    PROVE  /\ PlanFrom(name, d, Stop(p))
           /\ ~ Stop(p).ok
           /\ Stop(p).disk = p.disk
<1>1. /\ Stop(p) \in [disk : Disks, steps : Seq(Disks), ok : BOOLEAN]
      /\ Stop(p).disk = p.disk
      /\ Stop(p).steps = p.steps
      /\ ~ Stop(p).ok
    BY DEF Stop, PlanFrom
<1> QED
    BY <1>1 DEF PlanFrom

\* A plan that has succeeded has done what its command is for.
Fits(name, d, h, at, p) ==
    PlanFrom(name, d, p) /\ (p.ok => Outcome(name, h, at, p.disk))

\* What holds between commands holds when one begins.
LEMMA GoodToBegin ==
    ASSUME NEW d, Good("idle", d), NEW name
    PROVE  Good(name, d)
BY DEF Good

\* A disk with other places, the hooks of the settings file left alone.
LEMMA Replaced ==
    ASSUME NEW d, Shaped(d), NEW e \in Disks,
           e.file = d.file, e.settings = d.settings, e.record = d.record,
           \A q \in Places : e.blocks[q] \in TextsOf(q),
           \/ kind \in {"posix", "powershell", "opencode"}
           \/ e.blocks["owned"] = d.blocks["owned"],
           e.listed \subseteq MayList
    PROVE  Shaped(e) /\ (Kept(d) => Kept(e))
<1>1. RecordFits(e) /\ FileFits(e)
    BY DEF Shaped, RecordFits, FileFits
<1> QED
    BY <1>1 DEF Shaped, Kept

LEMMA KeysAre ==
    /\ kind = "codex" => Keys = {"target", "switch"}
    /\ kind \in {"claude", "vscode", "powershell"} => Keys = {"switch"}
    /\ kind \in {"posix", "opencode"} => Keys = {}
BY DEF Keys, KeysOf

LEMMA NoRecordIs ==
    /\ NoRecord \in Records
    /\ ~ NoRecord.present
    /\ \A k \in Keys : NoRecord.original[k] = "untracked"
    /\ \A k \in Keys : NoRecord.wrote[k] = "untracked"
<1>1. Untracked \in [Keys -> Values \cup {"untracked"}]
    BY DEF Untracked
<1>2. NoRecord.original = Untracked /\ NoRecord.wrote = Untracked /\ ~ NoRecord.present
    BY DEF NoRecord
<1>3. NoRecord \in Records
    BY <1>1 DEF NoRecord, Records
<1> QED
    BY <1>2, <1>3 DEF Untracked

\* A setting that is given back is one that qlog wrote.
LEMMA RestoreIs ==
    ASSUME NEW d, Shaped(d)
    PROVE  /\ Restore(d) \in [Keys -> Values]
           /\ \A k \in Keys :
                 /\ Restore(d)[k] \in Theirs(k) \cup Managed(k)
                 /\ Restore(d)[k] # d.settings[k] =>
                       d.record.present /\ d.settings[k] \in Managed(k)
<1>1. /\ d.settings \in [Keys -> Values]
      /\ d.record.original \in [Keys -> Values \cup {"untracked"}]
    BY DEF Shaped, Disks, Records
<1>2. ASSUME NEW k \in Keys
      PROVE  /\ Restore(d)[k] \in Values
             /\ Restore(d)[k] \in Theirs(k) \cup Managed(k)
             /\ Restore(d)[k] # d.settings[k] =>
                   d.record.present /\ d.settings[k] \in Managed(k)
    <2>1. Restore(d)[k] = IF /\ d.record.original[k] # "untracked"
                             /\ d.settings[k] = d.record.wrote[k]
                            THEN d.record.original[k] ELSE d.settings[k]
        BY DEF Restore
    <2>2. /\ d.settings[k] \in Theirs(k) \cup Managed(k)
          /\ d.record.original[k] \in Theirs(k) \cup Managed(k) \cup {"untracked"}
          /\ d.record.present => d.record.wrote[k] \in Managed(k)
          /\ ~ d.record.present => d.record.original[k] = "untracked"
        BY NoRecordIs DEF Shaped, RecordFits
    <2> QED
        BY <1>1, <2>1, <2>2
<1>3. Restore(d) = [k \in Keys |-> Restore(d)[k]]
    BY DEF Restore
<1> QED
    BY <1>2, <1>3

\* With every original on record and, for Codex, the home that was written
\* too, the user gets back what is the user's.
LEMMA RestoreGivesBack ==
    ASSUME kind \in Kinds, NEW d, Shaped(d), Kept(d), kind = "codex" => Unnamed(d) = {}
    PROVE  \A k \in Keys : Restore(d)[k] \in Theirs(k)
<1> TAKE k \in Keys
<1>1. Restore(d)[k] = IF /\ d.record.original[k] # "untracked"
                         /\ d.settings[k] = d.record.wrote[k]
                        THEN d.record.original[k] ELSE d.settings[k]
    BY DEF Restore
<1>2. CASE d.settings[k] \in Theirs(k)
    BY <1>1, <1>2 DEF Kept
<1>3. CASE d.settings[k] \notin Theirs(k)
    <2>1. d.record.present /\ d.settings[k] \in Managed(k) /\ d.record.wrote[k] \in Managed(k)
        BY <1>3 DEF Kept, Shaped, RecordFits
    <2>2. CASE k = "switch"
        <3>1. Managed(k) = {"off"}
            BY <2>2 DEF Managed
        <3> QED
            BY <1>1, <1>3, <2>1, <3>1 DEF Kept
    <2>3. CASE k # "switch"
        <3>1. kind = "codex" /\ k = "target"
            BY <2>3, KeysAre, AdapterAssumption
        <3>2. d.settings[k] = d.record.wrote[k]
            BY <2>1, <3>1 DEF Unnamed, Managed
        <3> QED
            BY <1>1, <1>3, <3>2 DEF Kept
    <2> QED
        BY <2>2, <2>3
<1> QED
    BY <1>2, <1>3

-----------------------------------------------------------------------------
(* Codex.                                                                  *)

\* A home is never a value of the user's.
LEMMA TargetIsTheirs ==
    ASSUME kind = "codex", ChosenFits, NEW d,
           \A k \in Keys : d.settings[k] \in Theirs(k)
    PROVE  Unnamed(d) = {}
<1>1. "target" \in Keys
    BY KeysAre
<1>2. d.settings["target"] \in {"absent", "mine"}
    BY <1>1 DEF ChosenFits, UserValues, Theirs
<1>3. d.settings["target"] \notin Homes
    BY <1>2, AdapterAssumption
<1> QED
    BY <1>3 DEF Unnamed

\* What an install writes is of the types, and what it records of a setting
\* is a value of the user's.
LEMMA CodexRecord ==
    ASSUME kind = "codex", ChosenFits, NEW d, Good("idle", d), NEW h \in Homes
    PROVE  LET desired == codexOTelSettings(h)
               r == updateCodexOTel(d, desired)
           IN  /\ desired \in [Keys -> Values]
               /\ \A k \in Keys : desired[k] \in Managed(k)
               /\ r \in Records
               /\ r.present /\ r.wrote = desired
               /\ \A k \in Keys :
                     r.original[k] \in Theirs(k) \cup Managed(k) \cup {"untracked"}
               /\ InOrder => \A k \in Keys :
                     /\ r.original[k] \in Theirs(k) \cup {"untracked"}
                     /\ r.original[k] = "untracked" =>
                           d.settings[k] = desired[k] /\ d.settings[k] \in Theirs(k)
<1> DEFINE desired == codexOTelSettings(h)
           r == updateCodexOTel(d, desired)
           original == [k \in Keys |->
                IF d.record.original[k] # "untracked" THEN d.record.original[k]
                ELSE IF exporterMatches(d, k, desired) THEN "untracked"
                ELSE d.settings[k]]
<1>1. desired = [k \in Keys |-> IF k = "target" THEN h ELSE "off"]
    BY KeysAre DEF codexOTelSettings
<1>2. /\ desired \in [Keys -> Values]
      /\ \A k \in Keys : desired[k] \in Managed(k)
    <2> HIDE DEF desired
    <2> QED
        BY <1>1, KeysAre DEF Values, Managed
<1>3. /\ d.record.original \in [Keys -> Values \cup {"untracked"}]
      /\ d.settings \in [Keys -> Values]
    BY DEF Good, Shaped, Disks, Records
<1>4. original \in [Keys -> Values \cup {"untracked"}]
    <2> HIDE DEF desired
    <2> QED
        BY <1>3
<1>5. r = [present |-> TRUE, wrote |-> desired, original |-> original]
    BY DEF updateCodexOTel
<1>6. r \in Records /\ r.present /\ r.wrote = desired /\ r.original = original
    <2> HIDE DEF original, desired, r
    <2>1. r.present = TRUE /\ r.wrote = desired /\ r.original = original
        BY <1>5
    <2>2. [present |-> TRUE, wrote |-> desired, original |-> original] \in Records
        BY <1>2, <1>4 DEF Records
    <2> QED
        BY <1>5, <2>1, <2>2
<1>9. \A k \in Keys : original[k] \in Theirs(k) \cup Managed(k) \cup {"untracked"}
    BY DEF Good, Shaped, RecordFits
<1>7. ASSUME InOrder, NEW k \in Keys
      PROVE  /\ original[k] \in Theirs(k) \cup {"untracked"}
             /\ original[k] = "untracked" =>
                   d.settings[k] = desired[k] /\ d.settings[k] \in Theirs(k)
    <2>1. Kept(d)
        BY <1>7 DEF Good
    <2>2. "untracked" \notin Values
        BY AdapterAssumption DEF Values
    <2>3. d.settings[k] # "untracked"
        BY <1>3, <2>2
    <2> HIDE DEF desired
    <2> QED
        BY <1>7, <2>1, <2>3 DEF Kept, exporterMatches
<1> HIDE DEF desired, r, original
<1>8. /\ desired \in [Keys -> Values]
      /\ \A k \in Keys : desired[k] \in Managed(k)
      /\ r \in Records
      /\ r.present /\ r.wrote = desired
      /\ \A k \in Keys :
            r.original[k] \in Theirs(k) \cup Managed(k) \cup {"untracked"}
      /\ InOrder => \A k \in Keys :
            /\ r.original[k] \in Theirs(k) \cup {"untracked"}
            /\ r.original[k] = "untracked" =>
                  d.settings[k] = desired[k] /\ d.settings[k] \in Theirs(k)
    BY <1>2, <1>6, <1>7, <1>9
<1> QED
    BY <1>8 DEF desired, r

LEMMA CodexInstalls ==
    ASSUME kind = "codex", ChosenFits, NEW d, Good("idle", d), NEW h \in Homes, NEW at
    PROVE  Fits("install", d, h, at, Install(d, h, at))
<1> DEFINE p == Start(d)
           desired == codexOTelSettings(h)
           r == updateCodexOTel(d, desired)
           recorded == [d EXCEPT !.record = r]
           rendered == renderOTelRegion(recorded, desired)
<1>1. /\ desired \in [Keys -> Values]
      /\ \A k \in Keys : desired[k] \in Managed(k)
      /\ r \in Records
      /\ r.present /\ r.wrote = desired
      /\ \A k \in Keys :
            r.original[k] \in Theirs(k) \cup Managed(k) \cup {"untracked"}
      /\ InOrder => \A k \in Keys :
            /\ r.original[k] \in Theirs(k) \cup {"untracked"}
            /\ r.original[k] = "untracked" =>
                  d.settings[k] = desired[k] /\ d.settings[k] \in Theirs(k)
    BY CodexRecord
<1> HIDE DEF desired, r
<1>2. d \in Disks /\ Shaped(d)
    BY DEF Good, Shaped
<1>3. /\ recorded \in Disks
      /\ recorded.file = d.file /\ recorded.settings = d.settings
      /\ recorded.blocks = d.blocks /\ recorded.listed = d.listed
      /\ recorded.record = r
    BY <1>1, <1>2 DEF Disks
<1> HIDE DEF recorded
<1>4. /\ rendered \in Disks
      /\ rendered.file /\ rendered.settings = desired
      /\ rendered.blocks = d.blocks /\ rendered.listed = d.listed
      /\ rendered.record = r
    BY <1>1, <1>3 DEF Disks, renderOTelRegion
<1> HIDE DEF rendered
<1>5. Good("install", recorded)
    <2>1. RecordFits(recorded)
        BY <1>1, <1>3 DEF RecordFits
    <2>2. Shaped(recorded)
        BY <1>2, <1>3, <2>1 DEF Shaped, FileFits
    <2>3. ASSUME InOrder PROVE Kept(recorded)
        BY <1>1, <1>3, <2>3 DEF Kept
    <2> QED
        BY <2>2, <2>3 DEF Good
<1>6. Good("install", rendered)
    <2>1. RecordFits(rendered)
        BY <1>1, <1>4 DEF RecordFits
    <2>2. Shaped(rendered)
        BY <1>1, <1>2, <1>4, <2>1 DEF Shaped, FileFits
    <2>3. ASSUME InOrder PROVE Kept(rendered)
        BY <1>1, <1>4, <2>3 DEF Kept
    <2> QED
        BY <2>2, <2>3 DEF Good
<1>7. Spares("install", d, recorded) /\ Spares("install", recorded, rendered)
    BY <1>3, <1>4 DEF Spares
<1>8. PlanFrom("install", d, p) /\ p.disk = d /\ p.ok
    BY StartIs, GoodToBegin
<1> HIDE DEF p
<1>9. Install(d, h, at) = applyCodexOTelConfig(p, desired)
    BY DEF Install, p, desired
<1>10. CASE \A k \in Keys : exporterMatches(d, k, desired)
    <2>1. Install(d, h, at) = p
        BY <1>8, <1>9, <1>10 DEF applyCodexOTelConfig
    <2>2. ASSUME InOrder PROVE Installed(d, at)
        <3>1. d.settings = desired
            BY <1>1, <1>2, <1>10 DEF exporterMatches, Shaped, Disks
        <3>2. "target" \in Keys /\ d.settings["target"] = h
            BY <3>1, KeysAre DEF codexOTelSettings, desired
        <3>3. loose = {} /\ Kept(d) /\ Unnamed(d) = {}
            BY <2>2 DEF InOrder, Good
        <3>4. h \notin Theirs("target")
            BY <3>2, AdapterAssumption DEF ChosenFits, UserValues, Theirs
        <3>5. d.record.present
            BY <3>2, <3>3, <3>4 DEF Kept
        <3>6. d.record.wrote["target"] = h
            BY <3>2, <3>3 DEF Unnamed
        <3>7. d.record.wrote["switch"] = "off"
            BY <1>2, <3>5, KeysAre DEF Shaped, RecordFits, Managed
        <3>8. d.record.wrote \in [Keys -> Values \cup {"untracked"}]
            BY <1>2 DEF Disks, Records
        <3>9. desired["target"] = h /\ desired["switch"] = "off"
            BY DEF desired, codexOTelSettings
        <3>10. d.record.wrote = desired
            BY <1>1, <3>6, <3>7, <3>8, <3>9, KeysAre
        <3> QED
            BY <3>1, <3>5, <3>10 DEF Installed, codexOTelConfigured
    <2>3. SetUpFor(d, h, at)
        <3>1. d.settings = desired
            BY <1>1, <1>2, <1>10 DEF exporterMatches, Shaped, Disks
        <3> QED
            BY <3>1 DEF SetUpFor, desired
    <2> QED
        BY <1>8, <2>1, <2>2, <2>3 DEF Fits, Outcome
<1>11. CASE ~ \A k \in Keys : exporterMatches(d, k, desired)
    <2> DEFINE q == Write(p, recorded)
    <2>1. Install(d, h, at) = Write(q, rendered)
        BY <1>8, <1>9, <1>11 DEF applyCodexOTelConfig, recorded, rendered, r
    <2>2. PlanFrom("install", d, q) /\ q.ok /\ q.disk = recorded
        BY <1>5, <1>7, <1>8, WriteIs
    <2> HIDE DEF q
    <2>3. /\ PlanFrom("install", d, Write(q, rendered))
          /\ Write(q, rendered).disk = rendered
        BY <1>6, <1>7, <2>2, WriteIs
    <2>4. Installed(rendered, at) /\ SetUpFor(rendered, h, at)
        BY <1>1, <1>4 DEF Installed, codexOTelConfigured, SetUpFor, desired
    <2> QED
        BY <2>1, <2>3, <2>4 DEF Fits, Outcome
<1> QED
    BY <1>10, <1>11

\* Nothing else of qlog is on a disk of Codex.
LEMMA CodexIsRemoved ==
    ASSUME kind = "codex", NEW d, Shaped(d), ~ d.record.present,
           \A k \in Keys : d.settings[k] \in Theirs(k)
    PROVE  Removed(d)
<1>1. \A q \in Places : d.blocks[q] = "none"
    BY DEF Shaped, TextsOf
<1>2. Ours(d) = {}
    BY <1>1, AdapterAssumption DEF Ours
<1>3. d.listed = {}
    BY DEF Shaped, MayList
<1>4. ~ Installed(d, <<"p1">>)
    BY DEF Installed, codexOTelConfigured
<1> QED
    BY <1>2, <1>3, <1>4 DEF Removed

LEMMA CodexUninstalls ==
    ASSUME kind \in Kinds, kind = "codex", ChosenFits, NEW d, Good("idle", d)
    PROVE  Fits("uninstall", d, "none", <<>>, Uninstall(d))
<1> DEFINE p == Start(d)
           restored == restoreCodexOTel(d)
           cleared == [restored EXCEPT !.record = NoRecord]
<1>1. d \in Disks /\ Shaped(d)
    BY DEF Good, Shaped
<1>2. /\ Restore(d) \in [Keys -> Values]
      /\ \A k \in Keys :
            /\ Restore(d)[k] \in Theirs(k) \cup Managed(k)
            /\ Restore(d)[k] # d.settings[k] =>
                  d.record.present /\ d.settings[k] \in Managed(k)
    BY <1>1, RestoreIs
<1>3. ASSUME loose = {} PROVE Kept(d) /\ \A k \in Keys : Restore(d)[k] \in Theirs(k)
    BY <1>1, <1>3, RestoreGivesBack DEF Good, InOrder
<1>4. /\ restored \in Disks
      /\ restored.file = d.file /\ restored.settings = Restore(d)
      /\ restored.blocks = d.blocks /\ restored.listed = d.listed
      /\ restored.record = d.record
    BY <1>1, <1>2 DEF Disks, restoreCodexOTel
<1> HIDE DEF restored
<1>5. /\ cleared \in Disks
      /\ cleared.file = d.file /\ cleared.settings = Restore(d)
      /\ cleared.blocks = d.blocks /\ cleared.listed = d.listed
      /\ cleared.record = NoRecord
    BY <1>4, NoRecordIs DEF Disks
<1> HIDE DEF cleared
<1>6. ASSUME d.file PROVE Good("uninstall", restored)
    <2>1. Shaped(restored)
        BY <1>1, <1>2, <1>4, <1>6 DEF Shaped, FileFits, RecordFits
    <2>2. ASSUME InOrder PROVE Kept(restored)
        BY <1>3, <1>4, <2>2 DEF Kept, InOrder
    <2>3. ASSUME loose = {} PROVE Unnamed(restored) = {}
        BY <1>3, <1>4, <2>3, TargetIsTheirs
    <2> QED
        BY <2>1, <2>2, <2>3 DEF Good
<1>7. ASSUME d.file PROVE Good("uninstall", cleared)
    <2>1. RecordFits(cleared)
        BY <1>5, NoRecordIs DEF RecordFits
    <2>2. Shaped(cleared)
        BY <1>1, <1>2, <1>5, <1>7, <2>1 DEF Shaped, FileFits
    <2>3. ASSUME InOrder PROVE Kept(cleared)
        BY <1>3, <1>5, <2>3, NoRecordIs DEF Kept, InOrder
    <2>4. ASSUME loose = {} PROVE Unnamed(cleared) = {}
        BY <1>3, <1>5, <2>4, TargetIsTheirs
    <2> QED
        BY <2>2, <2>3, <2>4 DEF Good
<1>8. Spares("uninstall", d, restored) /\ Spares("uninstall", restored, cleared)
    BY <1>2, <1>4, <1>5 DEF Spares
<1>9. PlanFrom("uninstall", d, p) /\ p.disk = d /\ p.ok
    BY StartIs, GoodToBegin
<1> HIDE DEF p
<1>10. Uninstall(d) = removeCodexOTelConfig(p)
    BY DEF Uninstall, p
<1>11. CASE ~ d.record.present
    <2>1. Uninstall(d) = p
        BY <1>9, <1>10, <1>11 DEF removeCodexOTelConfig
    <2>2. ASSUME loose = {} PROVE Removed(d)
        BY <1>1, <1>3, <1>11, <2>2, CodexIsRemoved DEF Kept
    <2> QED
        BY <1>9, <2>1, <2>2 DEF Fits, Outcome
<1>12. CASE d.record.present /\ ~ d.file
    <2>1. Uninstall(d) = Stop(p)
        BY <1>9, <1>10, <1>12 DEF removeCodexOTelConfig
    <2> QED
        BY <1>9, <2>1, StopIs DEF Fits
<1>13. CASE d.record.present /\ d.file
    <2> DEFINE q == Write(p, restored)
    <2>1. Uninstall(d) = Write(q, cleared)
        BY <1>9, <1>10, <1>13 DEF removeCodexOTelConfig, restored, cleared
    <2>2. PlanFrom("uninstall", d, q) /\ q.ok /\ q.disk = restored
        BY <1>6, <1>8, <1>9, <1>13, WriteIs
    <2> HIDE DEF q
    <2>3. /\ PlanFrom("uninstall", d, Write(q, cleared))
          /\ Write(q, cleared).disk = cleared
        BY <1>7, <1>8, <1>13, <2>2, WriteIs
    <2>4. ASSUME loose = {} PROVE Removed(cleared)
        <3>1. Shaped(cleared) /\ ~ cleared.record.present
            BY <1>5, <1>7, <1>13, NoRecordIs DEF Good
        <3> QED
            BY <1>3, <1>5, <2>4, <3>1, CodexIsRemoved
    <2> QED
        BY <2>1, <2>3, <2>4 DEF Fits, Outcome
<1> QED
    BY <1>11, <1>12, <1>13

-----------------------------------------------------------------------------
(* Claude Code.                                                            *)

\* What an install records is a value of the user's: the one on record, or
\* the one it finds while there is no record.
LEMMA TrackedIs ==
    ASSUME kind \in {"claude", "vscode"}, NEW d, Shaped(d), Kept(d),
           NEW desired, desired = [switch |-> "off"]
    PROVE  LET r == trackPrevious(d, desired)
           IN  /\ desired \in [Keys -> Values]
               /\ \A k \in Keys : desired[k] \in Managed(k)
               /\ r \in Records
               /\ r.present /\ r.wrote = desired
               /\ \A k \in Keys : r.original[k] \in Theirs(k) /\ r.original[k] # "untracked"
<1> DEFINE original == IF d.record.present THEN d.record.original ELSE d.settings
           r == trackPrevious(d, desired)
<1>1. /\ desired \in [Keys -> Values]
      /\ \A k \in Keys : desired[k] \in Managed(k)
    BY KeysAre DEF Values, Managed
<1>2. original \in [Keys -> Values \cup {"untracked"}]
    BY DEF Shaped, Disks, Records
<1>3. \A k \in Keys : original[k] \in Theirs(k) /\ original[k] # "untracked"
    <2> TAKE k \in Keys
    <2>1. CASE d.record.present
        <3>1. d.record.original[k] # "untracked"
            BY <2>1 DEF Shaped, RecordFits
        <3> QED
            BY <2>1, <3>1 DEF Kept
    <2>2. CASE ~ d.record.present
        <3>1. d.settings[k] \in Theirs(k)
            BY <2>2 DEF Kept
        <3>2. d.settings[k] \in Values /\ "untracked" \notin Values
            BY AdapterAssumption DEF Shaped, Disks, Values
        <3> QED
            BY <2>2, <3>1, <3>2
    <2> QED
        BY <2>1, <2>2
<1>4. r = [present |-> TRUE, wrote |-> desired, original |-> original]
    BY DEF trackPrevious
<1> HIDE DEF original, r
<1>5. [present |-> TRUE, wrote |-> desired, original |-> original] \in Records
    BY <1>1, <1>2 DEF Records
<1>6. r \in Records /\ r.present /\ r.wrote = desired /\ r.original = original
    BY <1>4, <1>5
<1>7. /\ r \in Records
      /\ r.present /\ r.wrote = desired
      /\ \A k \in Keys : r.original[k] \in Theirs(k) /\ r.original[k] # "untracked"
    BY <1>3, <1>6
<1> QED
    BY <1>1, <1>7 DEF r

LEMMA ClaudeInstalls ==
    ASSUME kind = "claude", NEW d, Good("idle", d), NEW h \in Homes, NEW at
    PROVE  Fits("install", d, h, at, Install(d, h, at))
<1> DEFINE p == Start(d)
           r == trackPrevious(d, claudeCodeOTELEnvironment)
           recorded == [d EXCEPT !.record = r]
           hooked == claudeSettingsWithQlogHooks(recorded, h)
<1>1. d \in Disks /\ Shaped(d) /\ Kept(d)
    BY DEF Good, Shaped, InOrder
<1>2. /\ claudeCodeOTELEnvironment \in [Keys -> Values]
      /\ \A k \in Keys : claudeCodeOTELEnvironment[k] \in Managed(k)
      /\ r \in Records
      /\ r.present /\ r.wrote = claudeCodeOTELEnvironment
      /\ \A k \in Keys : r.original[k] \in Theirs(k) /\ r.original[k] # "untracked"
    BY <1>1, TrackedIs DEF claudeCodeOTELEnvironment
<1> HIDE DEF r
<1>3. /\ recorded \in Disks
      /\ recorded.file = d.file /\ recorded.settings = d.settings
      /\ recorded.blocks = d.blocks /\ recorded.listed = d.listed
      /\ recorded.record = r
    BY <1>1, <1>2 DEF Disks
<1> HIDE DEF recorded
<1>4. "owned" \in Places
    BY DEF Places
<1>5. /\ hooked \in Disks
      /\ hooked.file /\ hooked.settings = claudeCodeOTELEnvironment
      /\ hooked.blocks = [d.blocks EXCEPT !["owned"] = h] /\ hooked.listed = d.listed
      /\ hooked.record = r
    BY <1>2, <1>3, <1>4 DEF Disks, claudeSettingsWithQlogHooks
<1>6. /\ claudeSettingsWithQlogHooks(d, h).blocks["owned"] = h
      /\ claudeSettingsWithQlogHooks(d, h).settings = claudeCodeOTELEnvironment
    BY <1>1, <1>4 DEF Disks, claudeSettingsWithQlogHooks
<1> HIDE DEF hooked
<1>7. RecordFits(recorded) /\ RecordFits(hooked)
    BY <1>2, <1>3, <1>5 DEF RecordFits
<1>8. Good("install", recorded)
    <2>1. Shaped(recorded)
        BY <1>1, <1>3, <1>7 DEF Shaped, FileFits
    <2>2. Kept(recorded)
        BY <1>2, <1>3 DEF Kept
    <2> QED
        BY <2>1, <2>2 DEF Good
<1>9. Good("install", hooked)
    <2>1. \A q \in Places : hooked.blocks[q] \in TextsOf(q)
        BY <1>1, <1>5 DEF Shaped, TextsOf, Disks
    <2>2. Shaped(hooked)
        BY <1>1, <1>2, <1>5, <1>7, <2>1 DEF Shaped, FileFits
    <2>3. Kept(hooked)
        BY <1>2, <1>5 DEF Kept
    <2> QED
        BY <2>2, <2>3 DEF Good
<1>10. Spares("install", d, recorded) /\ Spares("install", recorded, hooked)
    <2>1. d.blocks["owned"] \notin UserText
        BY <1>1, <1>4, AdapterAssumption DEF Shaped, TextsOf, UserText
    <2> QED
        BY <1>1, <1>3, <1>5, <2>1 DEF Spares, Disks
<1>11. PlanFrom("install", d, p) /\ p.disk = d /\ p.ok
    BY StartIs, GoodToBegin
<1> HIDE DEF p
<1>12. Install(d, h, at) = applySettings(p, h)
    BY DEF Install, p
<1>13. CASE d.record.present /\ ~ d.file
    <2>1. Install(d, h, at) = Stop(p)
        BY <1>11, <1>12, <1>13 DEF applySettings
    <2> QED
        BY <1>11, <2>1, StopIs DEF Fits
<1>14. CASE ~ (d.record.present /\ ~ d.file) /\ d = claudeSettingsWithQlogHooks(d, h)
    <2>1. Install(d, h, at) = p
        BY <1>11, <1>12, <1>14 DEF applySettings
    <2>2. Installed(d, at) /\ SetUpFor(d, h, at)
        BY <1>6, <1>14 DEF Installed, claudeSettingsHasQlog, SetUpFor
    <2> QED
        BY <1>11, <2>1, <2>2 DEF Fits, Outcome
<1>15. CASE ~ (d.record.present /\ ~ d.file) /\ d # claudeSettingsWithQlogHooks(d, h)
    <2> DEFINE q == Write(p, recorded)
    <2>1. Install(d, h, at) = Write(q, hooked)
        BY <1>11, <1>12, <1>15 DEF applySettings, recorded, hooked, r
    <2>2. PlanFrom("install", d, q) /\ q.ok /\ q.disk = recorded
        BY <1>8, <1>10, <1>11, WriteIs
    <2> HIDE DEF q
    <2>3. /\ PlanFrom("install", d, Write(q, hooked))
          /\ Write(q, hooked).disk = hooked
        BY <1>9, <1>10, <2>2, WriteIs
    <2>4. Installed(hooked, at) /\ SetUpFor(hooked, h, at)
        BY <1>1, <1>4, <1>5 DEF Installed, claudeSettingsHasQlog, SetUpFor, Disks
    <2> QED
        BY <2>1, <2>3, <2>4 DEF Fits, Outcome
<1> QED
    BY <1>13, <1>14, <1>15

LEMMA ClaudeIsRemoved ==
    ASSUME kind = "claude", NEW d, Shaped(d), d.blocks["owned"] = "none",
           \A k \in Keys : d.settings[k] \in Theirs(k)
    PROVE  Removed(d)
<1>1. \A q \in Places : d.blocks[q] = "none"
    BY DEF Shaped, TextsOf
<1>2. Ours(d) = {}
    BY <1>1, AdapterAssumption DEF Ours
<1>3. d.listed = {}
    BY DEF Shaped, MayList
<1>4. ~ Installed(d, <<"p1">>)
    BY AdapterAssumption DEF Installed, claudeSettingsHasQlog
<1> QED
    BY <1>2, <1>3, <1>4 DEF Removed

\* What stands in the settings without the hooks is the user's, whether it
\* was on record or taken for that of an older qlog.
LEMMA WithoutHooksIs ==
    ASSUME kind \in Kinds, kind = "claude", ChosenFits, NEW d, Good("idle", d)
    PROVE  LET next == claudeSettingsWithoutQlogHooks(d)
           IN  /\ next \in Disks
               /\ next.file = d.file
               /\ \A k \in Keys :
                     /\ next.settings[k] \in Theirs(k)
                     /\ next.settings[k] # d.settings[k] => d.settings[k] \in Managed(k)
               /\ next.blocks = [d.blocks EXCEPT !["owned"] = "none"]
               /\ next.blocks["owned"] = "none"
               /\ next.listed = d.listed
               /\ next.record = d.record
<1> DEFINE next == claudeSettingsWithoutQlogHooks(d)
           freed == [k \in Keys |-> IF d.settings[k] \in Managed(k)
                                      THEN "absent" ELSE d.settings[k]]
           values == IF d.record.present THEN Restore(d) ELSE freed
<1>1. d \in Disks /\ Shaped(d) /\ Kept(d)
    BY DEF Good, Shaped, InOrder
<1>2. freed \in [Keys -> Values]
    BY <1>1 DEF Disks, Values
<1>3. ASSUME ~ d.record.present, NEW k \in Keys PROVE freed[k] \in Theirs(k)
    <2>1. k = "switch" /\ d.settings[k] \in Theirs(k)
        BY <1>1, <1>3, KeysAre DEF Kept
    <2>2. CASE d.settings[k] = "off"
        <3>1. "off" \in chosen["switch"]
            BY <2>1, <2>2 DEF Theirs
        <3>2. "absent" \in Theirs(k)
            BY <2>1, <3>1 DEF Theirs
        <3> QED
            BY <2>1, <2>2, <3>2 DEF Managed
    <2>3. CASE d.settings[k] # "off"
        BY <2>1, <2>3 DEF Managed
    <2> QED
        BY <2>2, <2>3
<1>4. /\ values \in [Keys -> Values]
      /\ \A k \in Keys :
            /\ values[k] \in Theirs(k)
            /\ values[k] # d.settings[k] => d.settings[k] \in Managed(k)
    <2>1. CASE d.record.present
        BY <1>1, <2>1, RestoreIs, RestoreGivesBack
    <2>2. CASE ~ d.record.present
        BY <1>2, <1>3, <2>2
    <2> QED
        BY <2>1, <2>2
<1>5. "owned" \in Places
    BY DEF Places
<1>6. next = [d EXCEPT !.blocks["owned"] = "none", !.settings = values]
    BY Zenon DEF claudeSettingsWithoutQlogHooks
<1> HIDE DEF next, values
<1>7. /\ next \in Disks
      /\ next.file = d.file
      /\ next.settings = values
      /\ next.blocks = [d.blocks EXCEPT !["owned"] = "none"]
      /\ next.listed = d.listed
      /\ next.record = d.record
    BY <1>1, <1>4, <1>5, <1>6 DEF Disks
<1>8. next.blocks["owned"] = "none"
    BY <1>1, <1>5, <1>7 DEF Disks
<1> QED
    BY <1>4, <1>7, <1>8 DEF next

LEMMA ClaudeUninstalls ==
    ASSUME kind \in Kinds, kind = "claude", ChosenFits, NEW d, Good("idle", d)
    PROVE  Fits("uninstall", d, "none", <<>>, Uninstall(d))
<1> DEFINE p == Start(d)
           next == claudeSettingsWithoutQlogHooks(d)
           cleared == [next EXCEPT !.record = NoRecord]
<1>1. d \in Disks /\ Shaped(d) /\ Kept(d)
    BY DEF Good, Shaped, InOrder
<1>2. /\ next \in Disks
      /\ next.file = d.file
      /\ \A k \in Keys :
            /\ next.settings[k] \in Theirs(k)
            /\ next.settings[k] # d.settings[k] => d.settings[k] \in Managed(k)
      /\ next.blocks = [d.blocks EXCEPT !["owned"] = "none"]
      /\ next.blocks["owned"] = "none"
      /\ next.listed = d.listed
      /\ next.record = d.record
    BY WithoutHooksIs
<1> HIDE DEF next
<1>3. /\ cleared \in Disks
      /\ cleared.file = d.file /\ cleared.settings = next.settings
      /\ cleared.blocks = next.blocks /\ cleared.listed = d.listed
      /\ cleared.record = NoRecord
    BY <1>2, NoRecordIs DEF Disks
<1> HIDE DEF cleared
<1>4. \A q \in Places : next.blocks[q] \in TextsOf(q)
    BY <1>1, <1>2 DEF Shaped, TextsOf, Disks
<1>5. ASSUME d.file PROVE Good("uninstall", next)
    <2>1. Shaped(next)
        BY <1>1, <1>2, <1>4, <1>5 DEF Shaped, FileFits, RecordFits
    <2>2. Kept(next)
        BY <1>1, <1>2 DEF Kept
    <2> QED
        BY <2>1, <2>2 DEF Good, Unnamed
<1>6. ASSUME d.file PROVE Good("uninstall", cleared)
    <2>1. RecordFits(cleared)
        BY <1>3, NoRecordIs DEF RecordFits
    <2>2. Shaped(cleared)
        BY <1>1, <1>2, <1>3, <1>4, <1>6, <2>1 DEF Shaped, FileFits
    <2>3. Kept(cleared)
        BY <1>2, <1>3, NoRecordIs DEF Kept
    <2> QED
        BY <2>2, <2>3 DEF Good, Unnamed
<1>7. Spares("uninstall", d, next) /\ Spares("uninstall", next, cleared)
    <2>1. "owned" \in Places
        BY DEF Places
    <2>2. d.blocks["owned"] \notin UserText
        BY <1>1, <2>1, AdapterAssumption DEF Shaped, TextsOf, UserText
    <2> QED
        BY <1>1, <1>2, <1>3, <2>2 DEF Spares, Disks
<1>8. PlanFrom("uninstall", d, p) /\ p.disk = d /\ p.ok
    BY StartIs, GoodToBegin
<1> HIDE DEF p
<1>9. Uninstall(d) = removeSettings(p)
    BY DEF Uninstall, p
<1>10. CASE ~ d.file \/ next = d
    <2>1. Uninstall(d) = p
        BY <1>8, <1>9, <1>10 DEF removeSettings, next
    <2>2. Removed(d)
        <3>1. CASE next = d
            BY <1>1, <1>2, <3>1, ClaudeIsRemoved
        <3>2. CASE ~ d.file
            <4>1. \A k \in Keys : d.settings[k] \in Theirs(k)
                BY <1>1, <3>2 DEF Shaped, FileFits, Theirs
            <4>2. d.blocks["owned"] = "none"
                BY <1>1, <3>2 DEF Shaped, FileFits
            <4> QED
                BY <1>1, <4>1, <4>2, ClaudeIsRemoved
        <3> QED
            BY <1>10, <3>1, <3>2
    <2> QED
        BY <1>8, <2>1, <2>2 DEF Fits, Outcome
<1>11. CASE d.file /\ next # d
    <2> DEFINE q == Write(p, next)
    <2>1. Uninstall(d) = Write(q, cleared)
        BY <1>8, <1>9, <1>11 DEF removeSettings, next, cleared
    <2>2. PlanFrom("uninstall", d, q) /\ q.ok /\ q.disk = next
        BY <1>5, <1>7, <1>8, <1>11, WriteIs
    <2> HIDE DEF q
    <2>3. /\ PlanFrom("uninstall", d, Write(q, cleared))
          /\ Write(q, cleared).disk = cleared
        BY <1>6, <1>7, <1>11, <2>2, WriteIs
    <2>4. Removed(cleared)
        <3>1. Shaped(cleared)
            BY <1>6, <1>11 DEF Good
        <3> QED
            BY <1>2, <1>3, <3>1, ClaudeIsRemoved
    <2> QED
        BY <2>1, <2>3, <2>4 DEF Fits, Outcome
<1> QED
    BY <1>10, <1>11

-----------------------------------------------------------------------------
(* VS Code.                                                                *)

LEMMA VSCodeKept ==
    ASSUME kind = "vscode", NEW d, Good("idle", d)
    PROVE  /\ d \in Disks /\ Shaped(d) /\ Kept(d)
           /\ d.listed \subseteq Homes
           /\ \A h \in Homes : h \in Places /\ h # "owned"
           /\ MayList = Homes
BY AdapterAssumption DEF Good, Shaped, InOrder, MayList, Places

\* Launchers that nobody edited go, whatever home they are for.
LEMMA LaunchersGone ==
    ASSUME kind = "vscode", NEW name, NEW d, NEW p, PlanFrom(name, d, p), p.ok,
           NEW places, places \subseteq Homes,
           (loose = {} /\ name # "install") => Unnamed(p.disk) = {}
    PROVE  LET q == removeLaunchers(p, places)
           IN  /\ PlanFrom(name, d, q)
               /\ q.ok
               /\ q.disk.file = p.disk.file
               /\ q.disk.settings = p.disk.settings
               /\ q.disk.record = p.disk.record
               /\ q.disk.listed = p.disk.listed
               /\ \A h \in Places :
                     q.disk.blocks[h] = IF h \in places /\ p.disk.blocks[h] = h
                                          THEN "none" ELSE p.disk.blocks[h]
<1> DEFINE q == removeLaunchers(p, places)
           c == p.disk
           blocks == [h \in Places |-> IF h \in places /\ launcherHashMatches(c, h)
                                         THEN "none" ELSE c.blocks[h]]
           e == [c EXCEPT !.blocks = blocks]
<1>1. c \in Disks /\ Shaped(c) /\ Good(name, c)
    BY DEF PlanFrom, Good, Shaped
<1>2. q = Write(p, e)
    BY Zenon DEF removeLaunchers
<1>3. blocks \in [Places -> Homes \cup UserText \cup {"none"}]
    <2>1. \A h \in Places : c.blocks[h] \in Homes \cup UserText \cup {"none"}
        BY <1>1 DEF Disks
    <2> QED
        BY <2>1
<1>4. \A h \in Places : blocks[h] = IF h \in places /\ c.blocks[h] = h
                                      THEN "none" ELSE c.blocks[h]
    BY DEF launcherHashMatches
<1> HIDE DEF c, q, blocks
<1>5. /\ e \in Disks
      /\ e.file = c.file /\ e.settings = c.settings
      /\ e.blocks = blocks /\ e.listed = c.listed
      /\ e.record = c.record
    BY <1>1, <1>3 DEF Disks
<1> HIDE DEF e
<1>6. \A h \in Places : e.blocks[h] \in TextsOf(h)
    <2> TAKE h \in Places
    <2>1. c.blocks[h] \in TextsOf(h)
        BY <1>1 DEF Shaped
    <2>2. "none" \in TextsOf(h)
        BY DEF TextsOf
    <2> QED
        BY <1>4, <1>5, <2>1, <2>2
<1>7. "owned" \in Places /\ "owned" \notin places
    BY AdapterAssumption DEF Places
<1>8. Shaped(e) /\ (Kept(c) => Kept(e))
    <2>1. e.blocks["owned"] = c.blocks["owned"] /\ e.listed \subseteq MayList
        BY <1>1, <1>4, <1>5, <1>7 DEF Shaped
    <2> QED
        BY <1>1, <1>5, <1>6, <2>1, Replaced
<1>9. ASSUME loose = {}, name # "install" PROVE Unnamed(e) = {}
    <2>1. \A h \in Homes : c.blocks[h] = h => h \in c.listed
        BY <1>9 DEF Unnamed, launcherHashMatches, c
    <2>2. \A h \in Homes : h \in Places /\ h # "none"
        BY AdapterAssumption DEF Places
    <2>3. \A h \in Homes : e.blocks[h] = h => h \in e.listed
        BY <1>4, <1>5, <2>1, <2>2
    <2> QED
        BY <2>3 DEF Unnamed, launcherHashMatches
<1>10. Good(name, e)
    BY <1>1, <1>8, <1>9 DEF Good
<1>11. Spares(name, c, e)
    <2>1. \A h \in Places : c.blocks[h] \in UserText => h \notin places \/ c.blocks[h] # h
        BY AdapterAssumption DEF UserText
    <2> QED
        BY <1>4, <1>5, <2>1 DEF Spares
<1>12. PlanFrom(name, d, q) /\ q.ok /\ q.disk = e
    BY <1>2, <1>10, <1>11, WriteIs DEF c
<1> QED
    BY <1>4, <1>5, <1>12 DEF q, c

LEMMA VSCodeInstalls ==
    ASSUME kind = "vscode", NEW d, Good("idle", d), NEW h \in Homes, NEW at
    PROVE  Fits("install", d, h, at, Install(d, h, at))
<1> DEFINE p == Start(d)
           r == trackPrevious(d, copilotOTelSettings)
           a == [d EXCEPT !.settings = copilotOTelSettings, !.record = r, !.file = TRUE]
           b == [a EXCEPT !.blocks[h] = h]
           c == [b EXCEPT !.listed = {h}]
<1>1. /\ d \in Disks /\ Shaped(d) /\ Kept(d)
      /\ d.listed \subseteq Homes
      /\ h \in Places /\ h # "owned"
      /\ MayList = Homes
    BY VSCodeKept
<1>2. /\ copilotOTelSettings \in [Keys -> Values]
      /\ \A k \in Keys : copilotOTelSettings[k] \in Managed(k)
      /\ r \in Records
      /\ r.present /\ r.wrote = copilotOTelSettings
      /\ \A k \in Keys : r.original[k] \in Theirs(k) /\ r.original[k] # "untracked"
    BY <1>1, TrackedIs DEF copilotOTelSettings
<1> HIDE DEF r
<1>3. /\ a \in Disks
      /\ a.file /\ a.settings = copilotOTelSettings
      /\ a.blocks = d.blocks /\ a.listed = d.listed
      /\ a.record = r
    BY <1>1, <1>2 DEF Disks
<1> HIDE DEF a
<1>4. /\ b \in Disks
      /\ b.file = a.file /\ b.settings = a.settings
      /\ b.blocks = [d.blocks EXCEPT ![h] = h] /\ b.listed = d.listed
      /\ b.record = a.record
    BY <1>1, <1>3 DEF Disks
<1> HIDE DEF b
<1>5. /\ c \in Disks
      /\ c.file = a.file /\ c.settings = a.settings
      /\ c.blocks = [d.blocks EXCEPT ![h] = h] /\ c.listed = {h}
      /\ c.record = a.record
    BY <1>1, <1>4 DEF Disks
<1> HIDE DEF c
<1>6. Shaped(a) /\ Kept(a)
    <2>1. RecordFits(a)
        BY <1>2, <1>3 DEF RecordFits
    <2> QED
        BY <1>1, <1>2, <1>3, <2>1 DEF Shaped, FileFits, Kept
<1>7. \A q \in Places : [d.blocks EXCEPT ![h] = h][q] \in TextsOf(q)
    BY <1>1 DEF Shaped, TextsOf, Disks
<1>8. Shaped(b) /\ Kept(b) /\ Shaped(c) /\ Kept(c)
    <2>1. b.blocks["owned"] = a.blocks["owned"] /\ c.blocks["owned"] = a.blocks["owned"]
        BY <1>1, <1>3, <1>4, <1>5 DEF Disks, Places
    <2>2. d.listed \subseteq MayList /\ {h} \subseteq MayList
        BY <1>1
    <2>3. Shaped(b) /\ Kept(b)
        BY <1>3, <1>4, <1>6, <1>7, <2>1, <2>2, Replaced
    <2>4. Shaped(c) /\ Kept(c)
        BY <1>3, <1>5, <1>6, <1>7, <2>1, <2>2, Replaced
    <2> QED
        BY <2>3, <2>4
<1>9. Good("install", a) /\ Good("install", b) /\ Good("install", c)
    BY <1>6, <1>8 DEF Good
<1>10. PlanFrom("install", d, p) /\ p.disk = d /\ p.ok
    BY StartIs, GoodToBegin
<1> HIDE DEF p
<1>11. Install(d, h, at) = vscodeInstall(p, h)
    BY DEF Install, p
<1>12. CASE d.blocks[h] \in UserText
    <2>1. Install(d, h, at) = Stop(p)
        BY <1>10, <1>11, <1>12 DEF vscodeInstall
    <2> QED
        BY <1>10, <2>1, StopIs DEF Fits
<1>13. CASE d.blocks[h] \notin UserText
    <2> DEFINE wa == applyVSCodeSettings(p)
               wb == applyManagedFile(wa, h, h)
               wc == SetListed(wb, {h})
               q == removeLaunchers(wc, d.listed \ {h})
    <2>1. /\ Spares("install", d, a)
          /\ Spares("install", a, b)
          /\ Spares("install", b, c)
        BY <1>1, <1>3, <1>4, <1>5, <1>13 DEF Spares, Disks
    <2>2. wa = Write(p, a)
        BY <1>10 DEF applyVSCodeSettings, writeVSCodeSettings, a, r
    <2>3. PlanFrom("install", d, wa) /\ wa.ok /\ wa.disk = a
        BY <1>9, <1>10, <2>1, <2>2, WriteIs
    <2> HIDE DEF wa
    <2>4. wb = Write(wa, b)
        BY <2>3 DEF applyManagedFile, b
    <2>5. PlanFrom("install", d, wb) /\ wb.ok /\ wb.disk = b
        BY <1>9, <2>1, <2>3, <2>4, WriteIs
    <2> HIDE DEF wb
    <2>6. wc = Write(wb, c)
        BY <2>5 DEF SetListed, c
    <2>7. PlanFrom("install", d, wc) /\ wc.ok /\ wc.disk = c
        BY <1>9, <2>1, <2>5, <2>6, WriteIs
    <2> HIDE DEF wc
    <2>8. Install(d, h, at) = q
        <3>1. wa.disk.listed = d.listed
            BY <1>3, <2>3
        <3> QED
            BY <1>10, <1>11, <1>13, <3>1 DEF vscodeInstall, installLauncher, wa, wb, wc
    <2>9. /\ PlanFrom("install", d, q)
          /\ q.disk.settings = c.settings
          /\ q.disk.listed = c.listed
          /\ q.disk.blocks[h] = c.blocks[h]
        <3>1. d.listed \ {h} \subseteq Homes
            BY <1>1
        <3> HIDE DEF q
        <3> QED
            BY <1>1, <2>7, <3>1, LaunchersGone DEF q
    <2>10. c.blocks[h] = h
        BY <1>1, <1>5 DEF Disks
    <2>11. Installed(q.disk, at) /\ SetUpFor(q.disk, h, at)
        <3>1. q.disk.listed = {h} /\ q.disk.blocks[h] = h
            BY <1>5, <2>9, <2>10
        <3>2. q.disk.settings = copilotOTelSettings
            BY <1>3, <1>5, <2>9
        <3> HIDE DEF q
        <3> QED
            BY <3>1, <3>2
               DEF Installed, vscodeStatus, launcherInstalled, launcherHashMatches, SetUpFor
    <2> HIDE DEF q
    <2> QED
        BY <2>8, <2>9, <2>11 DEF Fits, Outcome
<1> QED
    BY <1>12, <1>13

\* The settings come first; the launchers stay as they are.
LEMMA VSCodeSettingsGivenBack ==
    ASSUME kind \in Kinds, kind = "vscode", NEW d, Good("idle", d)
    PROVE  LET p == removeVSCodeSettings(Start(d))
           IN  /\ PlanFrom("uninstall", d, p)
               /\ p.ok
               /\ \A k \in Keys : p.disk.settings[k] \in Theirs(k)
               /\ p.disk.blocks = d.blocks
               /\ p.disk.listed = d.listed
<1> DEFINE p == Start(d)
           e == [d EXCEPT !.settings = Restore(d), !.record = NoRecord, !.file = TRUE]
<1>1. d \in Disks /\ Shaped(d) /\ Kept(d) /\ MayList = Homes
    BY VSCodeKept
<1>2. PlanFrom("uninstall", d, p) /\ p.disk = d /\ p.ok
    BY StartIs, GoodToBegin
<1> HIDE DEF p
<1>3. CASE ~ d.file
    <2>1. removeVSCodeSettings(p) = p
        BY <1>2, <1>3 DEF removeVSCodeSettings
    <2>2. \A k \in Keys : d.settings[k] \in Theirs(k)
        BY <1>1, <1>3 DEF Shaped, FileFits, Theirs
    <2> QED
        BY <1>2, <2>1, <2>2 DEF p
<1>4. CASE d.file
    <2>1. /\ Restore(d) \in [Keys -> Values]
          /\ \A k \in Keys :
                /\ Restore(d)[k] \in Theirs(k)
                /\ Restore(d)[k] # d.settings[k] => d.settings[k] \in Managed(k)
        BY <1>1, RestoreIs, RestoreGivesBack
    <2>2. /\ e \in Disks
          /\ e.file /\ e.settings = Restore(d)
          /\ e.blocks = d.blocks /\ e.listed = d.listed
          /\ e.record = NoRecord
        BY <1>1, <2>1, NoRecordIs DEF Disks
    <2> HIDE DEF e
    <2>3. RecordFits(e)
        BY <2>2, NoRecordIs DEF RecordFits
    <2>4. Shaped(e) /\ Kept(e)
        BY <1>1, <2>1, <2>2, <2>3, NoRecordIs DEF Shaped, FileFits, Kept
    <2>5. Unnamed(d) = {} => Unnamed(e) = {}
        BY <2>2 DEF Unnamed, launcherHashMatches
    <2>6. Good("uninstall", e)
        BY <2>4, <2>5 DEF Good
    <2>7. Spares("uninstall", d, e)
        BY <2>1, <2>2 DEF Spares
    <2>8. removeVSCodeSettings(p) = Write(p, e)
        BY <1>2, <1>4 DEF removeVSCodeSettings, writeVSCodeSettings, e
    <2>9. /\ PlanFrom("uninstall", d, Write(p, e))
          /\ Write(p, e).ok /\ Write(p, e).disk = e
        BY <1>2, <2>6, <2>7, WriteIs
    <2> QED
        BY <2>1, <2>2, <2>8, <2>9 DEF p
<1> QED
    BY <1>3, <1>4

LEMMA VSCodeUninstalls ==
    ASSUME kind \in Kinds, kind = "vscode", NEW d, Good("idle", d)
    PROVE  Fits("uninstall", d, "none", <<>>, Uninstall(d))
<1> DEFINE p == removeVSCodeSettings(Start(d))
           q == removeLaunchers(p, p.disk.listed)
           e == [q.disk EXCEPT !.listed = {}]
           unlisted == SetListed(q, {})
<1>1. /\ PlanFrom("uninstall", d, p)
      /\ p.ok
      /\ \A k \in Keys : p.disk.settings[k] \in Theirs(k)
      /\ p.disk.blocks = d.blocks
      /\ p.disk.listed = d.listed
    BY VSCodeSettingsGivenBack
<1>2. Uninstall(d) = unlisted
    BY DEF Uninstall, vscodeUninstall, uninstallLauncher
<1> HIDE DEF p
<1>3. d.listed \subseteq Homes /\ MayList = Homes
    BY VSCodeKept
<1>4. loose = {} => Unnamed(p.disk) = {}
    BY <1>1 DEF PlanFrom, Good
<1>5. /\ PlanFrom("uninstall", d, q)
      /\ q.ok
      /\ q.disk.file = p.disk.file
      /\ q.disk.settings = p.disk.settings
      /\ q.disk.record = p.disk.record
      /\ q.disk.listed = p.disk.listed
      /\ \A h \in Places :
            q.disk.blocks[h] = IF h \in p.disk.listed /\ p.disk.blocks[h] = h
                                 THEN "none" ELSE p.disk.blocks[h]
    <2>1. p.disk.listed \subseteq Homes
        BY <1>1, <1>3
    <2> HIDE DEF q
    <2> QED
        BY <1>1, <1>4, <2>1, LaunchersGone DEF q
<1> HIDE DEF q
<1>6. q.disk \in Disks /\ Shaped(q.disk) /\ Good("uninstall", q.disk)
    BY <1>5 DEF PlanFrom, Good, Shaped
<1>7. /\ e \in Disks
      /\ e.file = q.disk.file /\ e.settings = q.disk.settings
      /\ e.blocks = q.disk.blocks /\ e.listed = {}
      /\ e.record = q.disk.record
    BY <1>6 DEF Disks
<1>8. unlisted = Write(q, e)
    BY DEF SetListed
<1> HIDE DEF e, unlisted
<1>9. Shaped(e) /\ (Kept(q.disk) => Kept(e))
    <2>1. \A h \in Places : e.blocks[h] \in TextsOf(h)
        BY <1>6, <1>7 DEF Shaped
    <2> QED
        BY <1>6, <1>7, <2>1, Replaced
<1>10. ASSUME loose = {} PROVE \A h \in Homes : e.blocks[h] # h
    <2> TAKE h \in Homes
    <2>1. h \in Places /\ h # "none"
        BY AdapterAssumption DEF Places
    <2>2. p.disk.blocks[h] = h => h \in p.disk.listed
        BY <1>4, <1>10 DEF Unnamed, launcherHashMatches
    <2> QED
        BY <1>5, <1>7, <2>1, <2>2
<1>11. Good("uninstall", e)
    <2>1. ASSUME loose = {} PROVE Unnamed(e) = {}
        BY <1>10, <2>1 DEF Unnamed, launcherHashMatches
    <2> QED
        BY <1>6, <1>9, <2>1 DEF Good
<1>12. Spares("uninstall", q.disk, e)
    BY <1>7 DEF Spares
<1>13. PlanFrom("uninstall", d, unlisted) /\ unlisted.disk = e
    BY <1>5, <1>8, <1>11, <1>12, WriteIs
<1>14. ASSUME loose = {} PROVE Removed(e)
    <2>1. \A h \in Places : e.blocks[h] \notin Homes
        <3> TAKE h \in Places
        <3>1. e.blocks[h] \in TextsOf(h)
            BY <1>9 DEF Shaped
        <3>2. TextsOf(h) \subseteq UserText \cup {"none", h}
            BY DEF TextsOf
        <3>3. e.blocks[h] \in Homes => e.blocks[h] = h
            BY <3>1, <3>2, AdapterAssumption DEF UserText
        <3> QED
            BY <1>10, <1>14, <3>3
    <2>2. Ours(e) = {}
        BY <2>1 DEF Ours
    <2>3. ~ Installed(e, <<"p1">>)
        BY <1>7 DEF Installed, vscodeStatus, launcherInstalled
    <2> QED
        BY <1>1, <1>5, <1>7, <2>2, <2>3 DEF Removed
<1> QED
    BY <1>2, <1>13, <1>14 DEF Fits, Outcome

-----------------------------------------------------------------------------
(* Going through the profiles.  A fold is the recursive function that some   *)
(* function satisfies; for two profiles that function can be written down.   *)

LEMMA PartsOfTwo ==
    /\ Max({1}) = 1 /\ Max({2}) = 2 /\ Max({1, 2}) = 2
    /\ \A s \in SUBSET {1, 2} : s = {} \/ s = {1} \/ s = {2} \/ s = {1, 2}
    /\ {1} # {} /\ {2} # {} /\ {1, 2} # {}
    /\ {1} # {2} /\ {1} # {1, 2} /\ {2} # {1, 2}
    /\ {1} \ {1} = {} /\ {2} \ {2} = {} /\ {1, 2} \ {2} = {1}
    /\ {} \in SUBSET {1, 2} /\ {1} \in SUBSET {1, 2}
    /\ {2} \in SUBSET {1, 2} /\ {1, 2} \in SUBSET {1, 2}
<1>1. Max({1}) = 1 /\ Max({2}) = 2 /\ Max({1, 2}) = 2
    BY DEF Max
<1>2. \A s \in SUBSET {1, 2} : s = {} \/ s = {1} \/ s = {2} \/ s = {1, 2}
    OBVIOUS
<1>3. /\ {1} # {} /\ {2} # {} /\ {1, 2} # {}
      /\ {1} # {2} /\ {1} # {1, 2} /\ {2} # {1, 2}
      /\ {1} \ {1} = {} /\ {2} \ {2} = {} /\ {1, 2} \ {2} = {1}
    OBVIOUS
<1>4. /\ {} \in SUBSET {1, 2} /\ {1} \in SUBSET {1, 2}
      /\ {2} \in SUBSET {1, 2} /\ {1, 2} \in SUBSET {1, 2}
    OBVIOUS
<1> QED
    BY <1>1, <1>2, <1>3, <1>4

\* The block of a profile that is to be cleaned.
CleanPosix(places, q, profile) ==
    IF profile \in places THEN withoutCopilotCLIPosixBlock(q, profile) ELSE q
CleanPowerShell(places, q, profile) ==
    IF profile \in places THEN withoutCopilotCLIProfileBlock(q, profile) ELSE q

\* The block of a profile, and the profile on the list.
ListedBlock(h, q, profile) ==
    LET written == withCopilotCLIProfileBlock(q, profile, h)
    IN  SetListed(written, written.disk.listed \cup {profile})

LEMMA PosixUninstallIs ==
    ASSUME NEW p
    PROVE  LET places == posixManagedProfiles(p.disk)
           IN  uninstallPosixProfile(p) =
                   SetListed(CleanPosix(places, CleanPosix(places, p, "p1"), "p2"), {})
<1> DEFINE places == posixManagedProfiles(p.disk)
           Step(q, profile) == CleanPosix(places, q, profile)
           Body(g) == [s \in SUBSET {1, 2} |->
               IF s = {} THEN p ELSE Step(g[s \ {Max(s)}], Profiles[Max(s)])]
           f == CHOOSE g : g = Body(g)
           one == Step(p, "p1")
           two == Step(p, "p2")
           both == Step(one, "p2")
           w == [s \in SUBSET {1, 2} |-> IF s = {} THEN p ELSE IF s = {1} THEN one
                                         ELSE IF s = {2} THEN two ELSE both]
<1>1. uninstallPosixProfile(p) = SetListed(f[{1, 2}], {})
    <2>1. DOMAIN Profiles = {1, 2}
        BY DEF Profiles
    <2> QED
        BY <2>1 DEF uninstallPosixProfile, CleanPosix, FoldLeft, MapThenFoldSet
<1>2. Profiles[1] = "p1" /\ Profiles[2] = "p2"
    BY DEF Profiles
<1>3. w[{}] = p /\ w[{1}] = one /\ w[{2}] = two /\ w[{1, 2}] = both
    <2> HIDE DEF one, two, both
    <2> QED
        BY PartsOfTwo
<1>4. \A g : /\ Body(g)[{}] = p
             /\ Body(g)[{1}] = Step(g[{}], "p1")
             /\ Body(g)[{2}] = Step(g[{}], "p2")
             /\ Body(g)[{1, 2}] = Step(g[{1}], "p2")
    <2> HIDE DEF Step
    <2> QED
        BY <1>2, PartsOfTwo
<1>5. w = Body(w)
    <2>1. /\ w[{}] = Body(w)[{}] /\ w[{1}] = Body(w)[{1}]
          /\ w[{2}] = Body(w)[{2}] /\ w[{1, 2}] = Body(w)[{1, 2}]
        <3> HIDE DEF w, Body, Step
        <3> QED
            BY <1>3, <1>4
    <2>2. \A s \in SUBSET {1, 2} : w[s] = Body(w)[s]
        <3> HIDE DEF w, Body
        <3> QED
            BY <2>1, PartsOfTwo
    <2>3. /\ w = [s \in SUBSET {1, 2} |-> w[s]]
          /\ Body(w) = [s \in SUBSET {1, 2} |-> Body(w)[s]]
        OBVIOUS
    <2> HIDE DEF w, Body
    <2> QED
        BY <2>2, <2>3
<1>6. f = Body(f)
    <2> HIDE DEF w, Body
    <2> QED
        BY <1>5
<1>7. f[{1, 2}] = both
    <2> HIDE DEF f, Body, Step
    <2> QED
        BY <1>4, <1>6
<1> HIDE DEF f
<1> QED
    BY <1>1, <1>7

LEMMA PowerShellUninstallIs ==
    ASSUME NEW p
    PROVE  LET places == p.disk.listed
           IN  uninstallWindowsPowerShellProfile(p) =
                   SetListed(CleanPowerShell(places, CleanPowerShell(places, p, "p1"), "p2"), {})
<1> DEFINE places == p.disk.listed
           Step(q, profile) == CleanPowerShell(places, q, profile)
           Body(g) == [s \in SUBSET {1, 2} |->
               IF s = {} THEN p ELSE Step(g[s \ {Max(s)}], Profiles[Max(s)])]
           f == CHOOSE g : g = Body(g)
           one == Step(p, "p1")
           two == Step(p, "p2")
           both == Step(one, "p2")
           w == [s \in SUBSET {1, 2} |-> IF s = {} THEN p ELSE IF s = {1} THEN one
                                         ELSE IF s = {2} THEN two ELSE both]
<1>1. uninstallWindowsPowerShellProfile(p) = SetListed(f[{1, 2}], {})
    <2>1. DOMAIN Profiles = {1, 2}
        BY DEF Profiles
    <2> QED
        BY <2>1 DEF uninstallWindowsPowerShellProfile, CleanPowerShell, FoldLeft, MapThenFoldSet
<1>2. Profiles[1] = "p1" /\ Profiles[2] = "p2"
    BY DEF Profiles
<1>3. w[{}] = p /\ w[{1}] = one /\ w[{2}] = two /\ w[{1, 2}] = both
    <2> HIDE DEF one, two, both
    <2> QED
        BY PartsOfTwo
<1>4. \A g : /\ Body(g)[{}] = p
             /\ Body(g)[{1}] = Step(g[{}], "p1")
             /\ Body(g)[{2}] = Step(g[{}], "p2")
             /\ Body(g)[{1, 2}] = Step(g[{1}], "p2")
    <2> HIDE DEF Step
    <2> QED
        BY <1>2, PartsOfTwo
<1>5. w = Body(w)
    <2>1. /\ w[{}] = Body(w)[{}] /\ w[{1}] = Body(w)[{1}]
          /\ w[{2}] = Body(w)[{2}] /\ w[{1, 2}] = Body(w)[{1, 2}]
        <3> HIDE DEF w, Body, Step
        <3> QED
            BY <1>3, <1>4
    <2>2. \A s \in SUBSET {1, 2} : w[s] = Body(w)[s]
        <3> HIDE DEF w, Body
        <3> QED
            BY <2>1, PartsOfTwo
    <2>3. /\ w = [s \in SUBSET {1, 2} |-> w[s]]
          /\ Body(w) = [s \in SUBSET {1, 2} |-> Body(w)[s]]
        OBVIOUS
    <2> HIDE DEF w, Body
    <2> QED
        BY <2>2, <2>3
<1>6. f = Body(f)
    <2> HIDE DEF w, Body
    <2> QED
        BY <1>5
<1>7. f[{1, 2}] = both
    <2> HIDE DEF f, Body, Step
    <2> QED
        BY <1>4, <1>6
<1> HIDE DEF f
<1> QED
    BY <1>1, <1>7

LEMMA PowerShellInstallsTwo ==
    ASSUME NEW p, NEW h
    PROVE  installWindowsPowerShellProfile(p, h, <<"p1", "p2">>) =
               ListedBlock(h, ListedBlock(h, p, "p1"), "p2")
<1> DEFINE Step(q, profile) == ListedBlock(h, q, profile)
           Body(g) == [s \in SUBSET {1, 2} |->
               IF s = {} THEN p ELSE Step(g[s \ {Max(s)}], <<"p1", "p2">>[Max(s)])]
           f == CHOOSE g : g = Body(g)
           one == Step(p, "p1")
           two == Step(p, "p2")
           both == Step(one, "p2")
           w == [s \in SUBSET {1, 2} |-> IF s = {} THEN p ELSE IF s = {1} THEN one
                                         ELSE IF s = {2} THEN two ELSE both]
<1>1. installWindowsPowerShellProfile(p, h, <<"p1", "p2">>) = f[{1, 2}]
    <2>1. DOMAIN <<"p1", "p2">> = {1, 2}
        BY DEF Profiles
    <2> QED
        BY <2>1 DEF installWindowsPowerShellProfile, ListedBlock, FoldLeft, MapThenFoldSet
<1>2. <<"p1", "p2">>[1] = "p1" /\ <<"p1", "p2">>[2] = "p2"
    BY DEF Profiles
<1>3. w[{}] = p /\ w[{1}] = one /\ w[{2}] = two /\ w[{1, 2}] = both
    <2> HIDE DEF one, two, both
    <2> QED
        BY PartsOfTwo
<1>4. \A g : /\ Body(g)[{}] = p
             /\ Body(g)[{1}] = Step(g[{}], "p1")
             /\ Body(g)[{2}] = Step(g[{}], "p2")
             /\ Body(g)[{1, 2}] = Step(g[{1}], "p2")
    <2> HIDE DEF Step
    <2> QED
        BY <1>2, PartsOfTwo
<1>5. w = Body(w)
    <2>1. /\ w[{}] = Body(w)[{}] /\ w[{1}] = Body(w)[{1}]
          /\ w[{2}] = Body(w)[{2}] /\ w[{1, 2}] = Body(w)[{1, 2}]
        <3> HIDE DEF w, Body, Step
        <3> QED
            BY <1>3, <1>4
    <2>2. \A s \in SUBSET {1, 2} : w[s] = Body(w)[s]
        <3> HIDE DEF w, Body
        <3> QED
            BY <2>1, PartsOfTwo
    <2>3. /\ w = [s \in SUBSET {1, 2} |-> w[s]]
          /\ Body(w) = [s \in SUBSET {1, 2} |-> Body(w)[s]]
        OBVIOUS
    <2> HIDE DEF w, Body
    <2> QED
        BY <2>2, <2>3
<1>6. f = Body(f)
    <2> HIDE DEF w, Body
    <2> QED
        BY <1>5
<1>7. f[{1, 2}] = both
    <2> HIDE DEF f, Body, Step
    <2> QED
        BY <1>4, <1>6
<1> HIDE DEF f
<1> QED
    BY <1>1, <1>7

LEMMA PowerShellInstallsOne ==
    ASSUME NEW p, NEW h
    PROVE  installWindowsPowerShellProfile(p, h, <<"p1">>) = ListedBlock(h, p, "p1")
<1> DEFINE Step(q, profile) == ListedBlock(h, q, profile)
           Body(g) == [s \in SUBSET {1} |->
               IF s = {} THEN p ELSE Step(g[s \ {Max(s)}], <<"p1">>[Max(s)])]
           f == CHOOSE g : g = Body(g)
           one == Step(p, "p1")
           w == [s \in SUBSET {1} |-> IF s = {} THEN p ELSE one]
<1>1. installWindowsPowerShellProfile(p, h, <<"p1">>) = f[{1}]
    <2>1. DOMAIN <<"p1">> = {1}
        OBVIOUS
    <2> QED
        BY <2>1 DEF installWindowsPowerShellProfile, ListedBlock, FoldLeft, MapThenFoldSet
<1>2. /\ \A s \in SUBSET {1} : s = {} \/ s = {1}
      /\ {} \in SUBSET {1} /\ {1} \in SUBSET {1}
    OBVIOUS
<1>3. w[{}] = p /\ w[{1}] = one
    <2> HIDE DEF one
    <2> QED
        BY <1>2, PartsOfTwo
<1>4. \A g : Body(g)[{}] = p /\ Body(g)[{1}] = Step(g[{}], "p1")
    <2> HIDE DEF Step
    <2> QED
        BY <1>2, PartsOfTwo
<1>5. w = Body(w)
    <2>1. w[{}] = Body(w)[{}] /\ w[{1}] = Body(w)[{1}]
        <3> HIDE DEF w, Body, Step
        <3> QED
            BY <1>3, <1>4
    <2>2. \A s \in SUBSET {1} : w[s] = Body(w)[s]
        <3> HIDE DEF w, Body
        <3> QED
            BY <1>2, <2>1
    <2>3. /\ w = [s \in SUBSET {1} |-> w[s]]
          /\ Body(w) = [s \in SUBSET {1} |-> Body(w)[s]]
        OBVIOUS
    <2> HIDE DEF w, Body
    <2> QED
        BY <2>2, <2>3
<1>6. f = Body(f)
    <2> HIDE DEF w, Body
    <2> QED
        BY <1>5
<1>7. f[{1}] = one
    <2> HIDE DEF f, Body, Step
    <2> QED
        BY <1>4, <1>6
<1> HIDE DEF f
<1> QED
    BY <1>1, <1>7

-----------------------------------------------------------------------------
(* Copilot CLI.                                                            *)

LEMMA CopilotKept ==
    ASSUME kind \in {"posix", "powershell"}, NEW name, NEW d, Good(name, d)
    PROVE  /\ d \in Disks /\ Shaped(d) /\ Kept(d)
           /\ MayList = {"p1", "p2"} /\ d.listed \subseteq {"p1", "p2"}
           /\ {"p1", "p2", "owned"} \subseteq Places
           /\ ToSet(Profiles) = {"p1", "p2"}
<1>1. ToSet(Profiles) = {"p1", "p2"}
    BY DEF ToSet, Profiles
<1>2. MayList = {"p1", "p2"}
    BY DEF MayList
<1> QED
    BY <1>1, <1>2 DEF Good, Shaped, InOrder, Places

\* A block is written where there is no text of the user's.
LEMMA BlockIsWritten ==
    ASSUME kind \in {"posix", "powershell"}, NEW name, NEW d, NEW p, PlanFrom(name, d, p),
           NEW place \in {"p1", "p2", "owned"}, NEW text \in Homes \cup {"none"},
           name = "install" \/ text = "none",
           p.ok => p.disk.blocks[place] \notin UserText
    PROVE  LET a == applyManagedFile(p, place, text)
           IN  /\ PlanFrom(name, d, a)
               /\ a.ok = p.ok
               /\ p.ok => /\ a.disk.record = p.disk.record
                          /\ a.disk.settings = p.disk.settings
                          /\ a.disk.listed = p.disk.listed
                          /\ \A x \in Places : a.disk.blocks[x] =
                                IF x = place THEN text ELSE p.disk.blocks[x]
<1> DEFINE c == p.disk
           e == [c EXCEPT !.blocks[place] = text]
<1>1. /\ c \in Disks /\ Shaped(c) /\ Kept(c) /\ Good(name, c)
      /\ place \in Places
      /\ ToSet(Profiles) = {"p1", "p2"}
    BY CopilotKept DEF PlanFrom
<1>2. applyManagedFile(p, place, text) = Write(p, e)
    BY DEF applyManagedFile
<1> HIDE DEF c
<1>3. /\ e \in Disks
      /\ e.file = c.file /\ e.settings = c.settings
      /\ e.listed = c.listed /\ e.record = c.record
      /\ e.blocks = [c.blocks EXCEPT ![place] = text]
    BY <1>1 DEF Disks
<1> HIDE DEF e
<1>4. \A x \in Places : e.blocks[x] = IF x = place THEN text ELSE c.blocks[x]
    BY <1>1, <1>3 DEF Disks
<1>5. \A x \in Places : e.blocks[x] \in TextsOf(x)
    <2>1. text \in TextsOf(place)
        BY AdapterAssumption DEF TextsOf
    <2> QED
        BY <1>1, <1>4, <2>1 DEF Shaped
<1>6. Shaped(e) /\ Kept(e)
    <2>1. e.listed \subseteq MayList
        BY <1>1, <1>3 DEF Shaped
    <2> QED
        BY <1>1, <1>3, <1>5, <2>1, Replaced
<1>7. ASSUME name # "install", Unnamed(c) = {} PROVE Unnamed(e) = {}
    <2>1. text = "none" /\ "none" \notin Homes
        BY <1>7, AdapterAssumption
    <2>2. \A x \in {"p1", "p2"} : e.blocks[x] \in Homes => c.blocks[x] \in Homes
        BY <1>1, <1>4, <2>1 DEF Places, ToSet, Profiles
    <2> QED
        BY <1>1, <1>3, <1>7, <2>2 DEF Unnamed
<1>8. Good(name, e)
    BY <1>1, <1>6, <1>7 DEF Good
<1>9. p.ok => Spares(name, c, e)
    BY <1>3, <1>4 DEF Spares, c
<1>10. /\ PlanFrom(name, d, Write(p, e))
       /\ Write(p, e).ok = p.ok
       /\ Write(p, e).disk = IF p.ok THEN e ELSE p.disk
    BY <1>8, <1>9, WriteIs DEF c
<1>11. /\ PlanFrom(name, d, Write(p, e))
       /\ Write(p, e).ok = p.ok
       /\ p.ok => /\ Write(p, e).disk.record = p.disk.record
                  /\ Write(p, e).disk.settings = p.disk.settings
                  /\ Write(p, e).disk.listed = p.disk.listed
                  /\ \A x \in Places : Write(p, e).disk.blocks[x] =
                        IF x = place THEN text ELSE p.disk.blocks[x]
    BY <1>3, <1>4, <1>10 DEF c
<1> QED
    BY <1>2, <1>11

\* What is on the list may change if no text of qlog is left unnamed.
LEMMA ListIsWritten ==
    ASSUME kind \in {"posix", "powershell"}, NEW name, NEW d, NEW p, PlanFrom(name, d, p),
           NEW places \in SUBSET {"p1", "p2"},
           \A x \in {"p1", "p2"} :
               name # "install" /\ p.ok /\ loose = {} => p.disk.blocks[x] \notin Homes
    PROVE  LET a == SetListed(p, places)
           IN  /\ PlanFrom(name, d, a)
               /\ a.ok = p.ok
               /\ p.ok => /\ a.disk.record = p.disk.record
                          /\ a.disk.settings = p.disk.settings
                          /\ a.disk.listed = places
                          /\ a.disk.blocks = p.disk.blocks
<1> DEFINE c == p.disk
           e == [c EXCEPT !.listed = places]
<1>1. /\ c \in Disks /\ Shaped(c) /\ Kept(c) /\ Good(name, c)
      /\ MayList = {"p1", "p2"}
      /\ {"p1", "p2", "owned"} \subseteq Places
      /\ ToSet(Profiles) = {"p1", "p2"}
    BY CopilotKept DEF PlanFrom
<1>2. SetListed(p, places) = Write(p, e)
    BY DEF SetListed
<1> HIDE DEF c
<1>3. /\ e \in Disks
      /\ e.file = c.file /\ e.settings = c.settings
      /\ e.listed = places /\ e.record = c.record
      /\ e.blocks = c.blocks
    BY <1>1 DEF Disks
<1> HIDE DEF e
<1>4. Shaped(e) /\ Kept(e)
    <2>1. \A x \in Places : e.blocks[x] \in TextsOf(x)
        BY <1>1, <1>3 DEF Shaped
    <2> QED
        BY <1>1, <1>3, <2>1, Replaced
<1>5. ASSUME p.ok, loose = {}, name # "install" PROVE Unnamed(e) = {}
    <2>1. \A x \in {"p1", "p2"} : e.blocks[x] \notin Homes
        BY <1>3, <1>5 DEF c
    <2> QED
        BY <1>1, <2>1 DEF Unnamed
<1>6. p.ok => Good(name, e)
    BY <1>4, <1>5 DEF Good
<1>7. Spares(name, c, e)
    BY <1>3 DEF Spares
<1> QED
    BY <1>2, <1>3, <1>6, <1>7, WriteIs DEF c

LEMMA ListIsExtended ==
    ASSUME kind = "powershell", NEW d, NEW p, PlanFrom("install", d, p),
           NEW places \in SUBSET {"p1", "p2"}
    PROVE  /\ PlanFrom("install", d, SetListed(p, places))
           /\ SetListed(p, places).ok = p.ok
           /\ p.ok => /\ SetListed(p, places).disk.blocks = p.disk.blocks
                      /\ SetListed(p, places).disk.listed = places
<1>1. kind \in {"posix", "powershell"}
    OBVIOUS
<1>2. \A x \in {"p1", "p2"} :
          "install" # "install" /\ p.ok /\ loose = {} => p.disk.blocks[x] \notin Homes
    OBVIOUS
<1>3. PlanFrom("install", d, SetListed(p, places))
    BY <1>1, <1>2, ListIsWritten
<1>4. SetListed(p, places).ok = p.ok
    BY <1>1, <1>2, ListIsWritten
<1> QED
    BY <1>1, <1>2, <1>3, <1>4, ListIsWritten

\* A profile is cleaned, or an incomplete block stops the command.
LEMMA ProfileIsCleaned ==
    ASSUME kind \in {"posix", "powershell"}, NEW d, NEW p, PlanFrom("uninstall", d, p),
           NEW places, NEW place \in {"p1", "p2"}, NEW a,
           a = CleanPosix(places, p, place) \/ a = CleanPowerShell(places, p, place)
    PROVE  /\ PlanFrom("uninstall", d, a)
           /\ a.ok => /\ p.ok
                      /\ a.disk.record = p.disk.record
                      /\ a.disk.settings = p.disk.settings
                      /\ a.disk.listed = p.disk.listed
                      /\ \A x \in Places : a.disk.blocks[x] =
                            IF x = place /\ x \in places /\ p.disk.blocks[x] \in Homes
                              THEN "none" ELSE p.disk.blocks[x]
<1>1. a = IF place \notin places THEN p
          ELSE IF p.disk.blocks[place] = "edited" THEN Stop(p)
          ELSE IF p.disk.blocks[place] \in Homes THEN applyManagedFile(p, place, "none")
          ELSE p
    BY DEF CleanPosix, CleanPowerShell, withoutCopilotCLIPosixBlock,
           withoutCopilotCLIProfileBlock, applyManagedFile, removeManagedFile
<1>2. CASE place \in places /\ p.disk.blocks[place] = "edited"
    BY <1>1, <1>2, StopIs
<1>3. CASE place \in places /\ p.disk.blocks[place] \in Homes
    <2>1. p.disk.blocks[place] # "edited" /\ p.disk.blocks[place] \notin UserText
        BY <1>3, AdapterAssumption DEF UserText
    <2>2. a = applyManagedFile(p, place, "none")
        BY <1>1, <1>3, <2>1
    <2> QED
        BY <1>3, <2>1, <2>2, BlockIsWritten
<1>4. CASE place \notin places \/ (/\ p.disk.blocks[place] # "edited"
                                   /\ p.disk.blocks[place] \notin Homes)
    BY <1>1, <1>4
<1> QED
    BY <1>2, <1>3, <1>4

\* The environment of an older qlog is the user's again.
LEMMA EnvironmentGivenBack ==
    ASSUME kind \in Kinds, kind = "powershell", NEW name, NEW d, NEW p, PlanFrom(name, d, p)
    PROVE  LET a == cleanupLegacyWindowsUserEnvironment(p)
           IN  /\ PlanFrom(name, d, a)
               /\ a.ok = p.ok
               /\ p.ok => /\ a.disk.blocks = p.disk.blocks
                          /\ a.disk.listed = p.disk.listed
                          /\ \A k \in Keys : a.disk.settings[k] \in Theirs(k)
<1> DEFINE c == p.disk
           cleared == [c EXCEPT !.settings = Restore(c)]
           e == [cleared EXCEPT !.record = NoRecord]
<1>1. c \in Disks /\ Shaped(c) /\ Kept(c) /\ Good(name, c)
    BY CopilotKept DEF PlanFrom
<1>2. cleanupLegacyWindowsUserEnvironment(p) =
          IF ~ c.record.present THEN p ELSE Write(Write(p, cleared), e)
    BY DEF cleanupLegacyWindowsUserEnvironment
<1> HIDE DEF c
<1>3. CASE ~ c.record.present
    <2>1. \A k \in Keys : c.settings[k] \in Theirs(k)
        BY <1>1, <1>3 DEF Kept
    <2> QED
        BY <1>2, <1>3, <2>1 DEF c
<1>4. CASE c.record.present
    <2>1. /\ Restore(c) \in [Keys -> Values]
          /\ \A k \in Keys :
                /\ Restore(c)[k] \in Theirs(k)
                /\ Restore(c)[k] # c.settings[k] => c.settings[k] \in Managed(k)
        BY <1>1, RestoreIs, RestoreGivesBack
    <2>2. /\ cleared \in Disks
          /\ cleared.file = c.file /\ cleared.settings = Restore(c)
          /\ cleared.blocks = c.blocks /\ cleared.listed = c.listed
          /\ cleared.record = c.record
        BY <1>1, <2>1 DEF Disks
    <2> HIDE DEF cleared
    <2>3. /\ e \in Disks
          /\ e.file = c.file /\ e.settings = Restore(c)
          /\ e.blocks = c.blocks /\ e.listed = c.listed
          /\ e.record = NoRecord
        BY <2>2, NoRecordIs DEF Disks
    <2> HIDE DEF e
    <2>4. RecordFits(cleared) /\ RecordFits(e)
        BY <1>1, <2>2, <2>3, NoRecordIs DEF Shaped, RecordFits
    <2>5. Shaped(cleared) /\ Kept(cleared) /\ Shaped(e) /\ Kept(e)
        BY <1>1, <2>1, <2>2, <2>3, <2>4, NoRecordIs DEF Shaped, FileFits, Kept
    <2>6. Unnamed(c) = {} => Unnamed(cleared) = {} /\ Unnamed(e) = {}
        BY <2>2, <2>3 DEF Unnamed
    <2>7. Good(name, cleared) /\ Good(name, e)
        BY <1>1, <2>5, <2>6 DEF Good
    <2>8. Spares(name, c, cleared) /\ Spares(name, cleared, e)
        BY <2>1, <2>2, <2>3 DEF Spares
    <2> DEFINE q == Write(p, cleared)
    <2>9. /\ PlanFrom(name, d, q) /\ q.ok = p.ok
          /\ q.disk = IF p.ok THEN cleared ELSE p.disk
        BY <2>7, <2>8, WriteIs DEF c
    <2> HIDE DEF q
    <2>10. /\ PlanFrom(name, d, Write(q, e)) /\ Write(q, e).ok = p.ok
           /\ p.ok => Write(q, e).disk = e
        BY <2>7, <2>8, <2>9, WriteIs
    <2>11. cleanupLegacyWindowsUserEnvironment(p) = Write(q, e)
        BY <1>2, <1>4 DEF q
    <2> QED
        BY <2>1, <2>3, <2>10, <2>11 DEF c
<1> QED
    BY <1>3, <1>4

LEMMA PosixInstalls ==
    ASSUME kind = "posix", NEW d, Good("idle", d), NEW h \in Homes, NEW at \in posixProfilePath
    PROVE  Fits("install", d, h, at, Install(d, h, at))
<1> DEFINE p == Start(d)
           profile == at[1]
           b == applyManagedFile(p, profile, h)
           l == SetListed(b, {profile})
           o == applyManagedFile(l, "owned", h)
<1>1. profile \in {"p1", "p2"}
    BY DEF posixProfilePath
<1>2. /\ d \in Disks /\ Shaped(d) /\ {"p1", "p2", "owned"} \subseteq Places
      /\ ToSet(Profiles) = {"p1", "p2"}
    BY CopilotKept
<1>3. PlanFrom("install", d, p) /\ p.disk = d /\ p.ok
    BY StartIs, GoodToBegin
<1> HIDE DEF p, profile
<1>4. Install(d, h, at) = copilotInstall(p, h, at)
    BY DEF Install, p
<1>5. copilotInstall(p, h, at) =
          applyManagedFile(installPosixProfile(p, h, profile), "owned", h)
    BY DEF copilotInstall, profile
<1>6. CASE d.blocks[profile] \in UserText
    <2> DEFINE stopped == Stop(p)
               u == SetListed(stopped, {profile})
               v == IF d.blocks[profile] = "theirs" THEN stopped ELSE u
    <2>1. PlanFrom("install", d, stopped) /\ ~ stopped.ok
        BY <1>3, StopIs
    <2>2. installPosixProfile(p, h, profile) = v
        BY <1>3, <1>6 DEF installPosixProfile, hasUnmanagedCopilotWrapper,
                          withCopilotCLIPosixBlock, UserText
    <2> HIDE DEF stopped
    <2>3. PlanFrom("install", d, u) /\ ~ u.ok
        BY <1>1, <2>1, ListIsWritten
    <2> HIDE DEF u
    <2>4. PlanFrom("install", d, v) /\ ~ v.ok
        BY <2>1, <2>3
    <2> HIDE DEF v
    <2>5. /\ PlanFrom("install", d, applyManagedFile(v, "owned", h))
          /\ ~ applyManagedFile(v, "owned", h).ok
        BY <2>4, BlockIsWritten
    <2> QED
        BY <1>4, <1>5, <2>2, <2>5 DEF Fits
<1>7. CASE d.blocks[profile] \notin UserText
    <2>1. installPosixProfile(p, h, profile) = l
        BY <1>3, <1>7 DEF installPosixProfile, hasUnmanagedCopilotWrapper,
                          withCopilotCLIPosixBlock, UserText
    <2>2. /\ PlanFrom("install", d, b) /\ b.ok
          /\ \A x \in Places : b.disk.blocks[x] = IF x = profile THEN h ELSE d.blocks[x]
        BY <1>1, <1>3, <1>7, BlockIsWritten
    <2> HIDE DEF b
    <2>3. /\ PlanFrom("install", d, l) /\ l.ok
          /\ l.disk.blocks = b.disk.blocks
          /\ l.disk.listed = {profile}
        BY <1>1, <2>2, ListIsWritten
    <2> HIDE DEF l
    <2>4. l.disk.blocks["owned"] \notin UserText
        <3>1. Shaped(l.disk)
            BY <2>3 DEF PlanFrom, Good
        <3> QED
            BY <1>2, <3>1, AdapterAssumption DEF Shaped, TextsOf, UserText
    <2>5. /\ PlanFrom("install", d, o) /\ o.ok
          /\ o.disk.listed = l.disk.listed
          /\ \A x \in Places : o.disk.blocks[x] = IF x = "owned" THEN h ELSE l.disk.blocks[x]
        BY <2>3, <2>4, BlockIsWritten
    <2> HIDE DEF o
    <2>6. o.disk.blocks["owned"] = h /\ o.disk.blocks[profile] = h
        BY <1>1, <1>2, <2>2, <2>3, <2>5
    <2>7. profile \in posixManagedProfiles(o.disk)
        BY <1>1, <1>2, <2>3, <2>5 DEF posixManagedProfiles
    <2>8. Installed(o.disk, at)
        BY <2>6, <2>7 DEF Installed, copilotStatus, posixProfileInstalled
    <2>9. Install(d, h, at) = o
        BY <1>4, <1>5, <2>1 DEF o
    <2>10. SetUpFor(o.disk, h, at)
        BY <2>3, <2>5, <2>6 DEF SetUpFor, profile
    <2> QED
        BY <2>5, <2>8, <2>9, <2>10 DEF Fits, Outcome
<1> QED
    BY <1>6, <1>7

\* A profile that got the block is on the list.
LEMMA BlockIsListed ==
    ASSUME kind = "powershell", NEW d, NEW p, PlanFrom("install", d, p), NEW h \in Homes,
           NEW place \in {"p1", "p2"}
    PROVE  LET l == ListedBlock(h, p, place)
           IN  /\ PlanFrom("install", d, l)
               /\ l.ok => /\ p.ok
                          /\ l.disk.listed = p.disk.listed \cup {place}
                          /\ \A x \in Places : l.disk.blocks[x] =
                                IF x = place THEN h ELSE p.disk.blocks[x]
<1> DEFINE b == withCopilotCLIProfileBlock(p, place, h)
           places == b.disk.listed \cup {place}
           l == ListedBlock(h, p, place)
<1>1. l = SetListed(b, places)
    BY DEF ListedBlock
<1>2. PlanFrom("install", d, b) /\
      (b.ok => /\ p.ok
               /\ b.disk.listed = p.disk.listed
               /\ \A x \in Places : b.disk.blocks[x] =
                     IF x = place THEN h ELSE p.disk.blocks[x])
    <2>1. CASE p.disk.blocks[place] = "edited"
        <3>1. b = Stop(p)
            BY <2>1 DEF withCopilotCLIProfileBlock
        <3> QED
            BY <3>1, StopIs
    <2>2. CASE p.disk.blocks[place] # "edited"
        <3>1. b = applyManagedFile(p, place, h)
            BY <2>2 DEF withCopilotCLIProfileBlock
        <3>2. p.disk.blocks[place] \notin UserText
            <4>1. Shaped(p.disk) /\ place \in Places /\ ToSet(Profiles) = {"p1", "p2"}
                BY CopilotKept DEF PlanFrom
            <4> QED
                BY <2>2, <4>1, AdapterAssumption DEF Shaped, TextsOf, UserText
        <3> HIDE DEF b
        <3> QED
            BY <3>1, <3>2, BlockIsWritten
    <2> QED
        BY <2>1, <2>2
<1>3. places \subseteq {"p1", "p2"}
    <2>1. b.disk.listed \subseteq {"p1", "p2"}
        BY <1>2, CopilotKept DEF PlanFrom
    <2> QED
        BY <2>1
<1>4. b.ok => places = p.disk.listed \cup {place}
    BY <1>2
<1> HIDE DEF b, places, l
<1>5. /\ PlanFrom("install", d, SetListed(b, places))
      /\ SetListed(b, places).ok = b.ok
      /\ b.ok => /\ SetListed(b, places).disk.blocks = b.disk.blocks
                 /\ SetListed(b, places).disk.listed = places
    <2>1. PlanFrom("install", d, b)
        BY <1>2
    <2> QED
        BY <1>3, <2>1, ListIsExtended
<1> QED
    BY <1>1, <1>2, <1>4, <1>5 DEF l

LEMMA PowerShellInstalls ==
    ASSUME kind \in Kinds, kind = "powershell", NEW d, Good("idle", d), NEW h \in Homes,
           NEW at \in copilotCLIPowerShellProfilePaths
    PROVE  Fits("install", d, h, at, Install(d, h, at))
<1> DEFINE p == Start(d)
           b == installWindowsPowerShellProfile(p, h, at)
           c == cleanupLegacyWindowsUserEnvironment(b)
           o == applyManagedFile(c, "owned", h)
<1>1. {"p1", "p2", "owned"} \subseteq Places
    BY CopilotKept
<1>2. PlanFrom("install", d, p)
    BY StartIs, GoodToBegin
<1>3. Install(d, h, at) = o
    BY DEF Install, copilotInstall
<1> HIDE DEF p
<1>4. /\ PlanFrom("install", d, b)
      /\ b.ok => /\ ToSet(at) \subseteq b.disk.listed
                 /\ \A x \in ToSet(at) : b.disk.blocks[x] = h
    <2> DEFINE first == ListedBlock(h, p, "p1")
               second == ListedBlock(h, first, "p2")
    <2>1. /\ PlanFrom("install", d, first)
          /\ first.ok => first.disk.blocks["p1"] = h /\ "p1" \in first.disk.listed
        BY <1>1, <1>2, BlockIsListed
    <2> HIDE DEF first
    <2>2. /\ PlanFrom("install", d, second)
          /\ second.ok => /\ second.disk.blocks["p1"] = h /\ second.disk.blocks["p2"] = h
                          /\ {"p1", "p2"} \subseteq second.disk.listed
        BY <1>1, <2>1, BlockIsListed
    <2> HIDE DEF second
    <2>3. CASE at = <<"p1">>
        <3>1. b = first
            BY <2>3, PowerShellInstallsOne DEF first
        <3>2. ToSet(at) = {"p1"}
            BY <2>3 DEF ToSet
        <3> HIDE DEF b
        <3> QED
            BY <2>1, <3>1, <3>2
    <2>4. CASE at = <<"p1", "p2">>
        <3>1. b = second
            BY <2>4, PowerShellInstallsTwo DEF first, second
        <3>2. ToSet(at) = {"p1", "p2"}
            BY <2>4 DEF ToSet
        <3> HIDE DEF b
        <3> QED
            BY <2>2, <3>1, <3>2
    <2> QED
        BY <2>3, <2>4 DEF copilotCLIPowerShellProfilePaths
<1> HIDE DEF b
<1>5. /\ PlanFrom("install", d, c) /\ c.ok = b.ok
      /\ b.ok => c.disk.blocks = b.disk.blocks /\ c.disk.listed = b.disk.listed
    BY <1>4, EnvironmentGivenBack
<1> HIDE DEF c
<1>6. c.disk.blocks["owned"] \notin UserText
    <2>1. Shaped(c.disk)
        BY <1>5 DEF PlanFrom, Good
    <2> QED
        BY <1>1, <2>1, AdapterAssumption DEF Shaped, TextsOf, UserText
<1>7. /\ PlanFrom("install", d, o) /\ o.ok = c.ok
      /\ c.ok => /\ o.disk.listed = c.disk.listed
                 /\ \A x \in Places : o.disk.blocks[x] =
                       IF x = "owned" THEN h ELSE c.disk.blocks[x]
    BY <1>5, <1>6, BlockIsWritten
<1> HIDE DEF o
<1>8. ToSet(at) \subseteq {"p1", "p2"}
    <2>1. ToSet(<<"p1">>) = {"p1"} /\ ToSet(<<"p1", "p2">>) = {"p1", "p2"}
        BY DEF ToSet
    <2> QED
        BY <2>1 DEF copilotCLIPowerShellProfilePaths
<1>9. ASSUME o.ok PROVE Installed(o.disk, at) /\ SetUpFor(o.disk, h, at)
    <2>1. o.disk.blocks["owned"] = h /\ \A x \in ToSet(at) : o.disk.blocks[x] = h
        BY <1>1, <1>4, <1>5, <1>7, <1>8, <1>9
    <2>2. ToSet(at) \subseteq o.disk.listed
        BY <1>4, <1>5, <1>7, <1>9
    <2> QED
        BY <2>1, <2>2 DEF Installed, copilotStatus, windowsPowerShellProfileInstalled, SetUpFor
<1> QED
    BY <1>3, <1>7, <1>9 DEF Fits, Outcome

\* The hooks, then the profiles: when an uninstall has cleaned those on its
\* list, no profile has a block, since none has one that is not listed.
LEMMA CopilotUninstalls ==
    ASSUME kind \in Kinds, kind \in {"posix", "powershell"}, NEW d, Good("idle", d)
    PROVE  Fits("uninstall", d, "none", <<>>, Uninstall(d))
<1> DEFINE p == Start(d)
           u == removeManagedFile(p, "owned")
           places == IF kind = "posix" THEN posixManagedProfiles(u.disk) ELSE u.disk.listed
           a == IF kind = "posix" THEN CleanPosix(places, u, "p1")
                ELSE CleanPowerShell(places, u, "p1")
           b == IF kind = "posix" THEN CleanPosix(places, a, "p2")
                ELSE CleanPowerShell(places, a, "p2")
           l == SetListed(b, {})
           c == IF kind = "posix" THEN l ELSE cleanupLegacyWindowsUserEnvironment(l)
<1>1. /\ d \in Disks /\ Shaped(d) /\ {"p1", "p2", "owned"} \subseteq Places
      /\ ToSet(Profiles) = {"p1", "p2"}
    BY CopilotKept
<1>2. PlanFrom("uninstall", d, p) /\ p.disk = d /\ p.ok
    BY StartIs, GoodToBegin
<1>3. Uninstall(d) = copilotUninstall(p)
    BY DEF Uninstall
<1> HIDE DEF p
<1>4. Uninstall(d) = c
    <2>1. CASE kind = "posix"
        <3>1. copilotUninstall(p) = uninstallPosixProfile(u)
            BY <2>1 DEF copilotUninstall
        <3> QED
            BY <1>3, <2>1, <3>1, PosixUninstallIs
    <2>2. CASE kind # "posix"
        <3>1. copilotUninstall(p) =
                  cleanupLegacyWindowsUserEnvironment(uninstallWindowsPowerShellProfile(u))
            BY <2>2 DEF copilotUninstall
        <3> QED
            BY <1>3, <2>2, <3>1, PowerShellUninstallIs
    <2> QED
        BY <2>1, <2>2
<1>5. /\ PlanFrom("uninstall", d, u) /\ u.ok
      /\ u.disk.listed = d.listed
      /\ \A x \in Places : u.disk.blocks[x] = IF x = "owned" THEN "none" ELSE d.blocks[x]
    <2>1. u = applyManagedFile(p, "owned", "none")
        BY DEF removeManagedFile, applyManagedFile
    <2>2. d.blocks["owned"] \notin UserText
        BY <1>1, AdapterAssumption DEF Shaped, TextsOf, UserText
    <2> HIDE DEF u
    <2> QED
        BY <1>2, <2>1, <2>2, BlockIsWritten
<1> HIDE DEF u
<1>6. /\ PlanFrom("uninstall", d, a)
      /\ a.ok => \A x \in Places : a.disk.blocks[x] =
            IF x = "p1" /\ x \in places /\ u.disk.blocks[x] \in Homes
              THEN "none" ELSE u.disk.blocks[x]
    <2>1. a = CleanPosix(places, u, "p1") \/ a = CleanPowerShell(places, u, "p1")
        OBVIOUS
    <2> HIDE DEF a, places
    <2> QED
        BY <1>5, <2>1, ProfileIsCleaned
<1>7. /\ PlanFrom("uninstall", d, b)
      /\ b.ok => /\ a.ok
                 /\ \A x \in Places : b.disk.blocks[x] =
                       IF x = "p2" /\ x \in places /\ a.disk.blocks[x] \in Homes
                         THEN "none" ELSE a.disk.blocks[x]
    <2>1. b = CleanPosix(places, a, "p2") \/ b = CleanPowerShell(places, a, "p2")
        OBVIOUS
    <2> HIDE DEF a, b, places
    <2> QED
        BY <1>6, <2>1, ProfileIsCleaned
<1>8. ASSUME loose = {}, NEW x \in {"p1", "p2"}, d.blocks[x] \in Homes
      PROVE  x \in places
    <2>1. Unnamed(d) = {}
        BY <1>8 DEF Good
    <2> QED
        BY <1>1, <1>5, <1>8, <2>1 DEF Unnamed, posixManagedProfiles
<1> HIDE DEF places, a, b
<1>9. ASSUME loose = {}, b.ok
      PROVE  \A x \in {"p1", "p2"} : b.disk.blocks[x] \notin Homes
    <2> TAKE x \in {"p1", "p2"}
    <2>1. x \in Places /\ x # "owned" /\ "none" \notin Homes
        BY <1>1, AdapterAssumption
    <2>2. u.disk.blocks[x] = d.blocks[x]
        BY <1>5, <2>1
    <2> QED
        BY <1>6, <1>7, <1>8, <1>9, <2>1, <2>2
<1>10. b.ok => b.disk.blocks["owned"] = "none"
    BY <1>1, <1>5, <1>6, <1>7
<1>11. /\ PlanFrom("uninstall", d, l) /\ l.ok = b.ok
       /\ b.ok => l.disk.listed = {} /\ l.disk.blocks = b.disk.blocks
    BY <1>7, <1>9, ListIsWritten
<1> HIDE DEF l
<1>12. /\ PlanFrom("uninstall", d, c) /\ c.ok = b.ok
       /\ b.ok => /\ c.disk.listed = {} /\ c.disk.blocks = b.disk.blocks
                  /\ \A k \in Keys : c.disk.settings[k] \in Theirs(k)
    <2>1. CASE kind = "posix"
        BY <1>11, <2>1, KeysAre
    <2>2. CASE kind # "posix"
        BY <1>11, <2>2, EnvironmentGivenBack
    <2> QED
        BY <2>1, <2>2
<1> HIDE DEF c
<1>13. ASSUME loose = {}, c.ok PROVE Removed(c.disk)
    <2>1. \A x \in Places : c.disk.blocks[x] \notin Homes
        <3> TAKE x \in Places
        <3>1. Shaped(c.disk)
            BY <1>12 DEF PlanFrom, Good
        <3>2. x \notin {"p1", "p2", "owned"} => c.disk.blocks[x] = "none"
            BY <1>1, <3>1 DEF Shaped, TextsOf
        <3> QED
            BY <1>9, <1>10, <1>12, <1>13, <3>2, AdapterAssumption
    <2>2. Ours(c.disk) = {}
        BY <2>1 DEF Ours
    <2>3. ~ Installed(c.disk, <<"p1">>)
        BY <1>1, <2>1 DEF Installed, copilotStatus
    <2> QED
        BY <1>12, <1>13, <2>2, <2>3 DEF Removed
<1> QED
    BY <1>4, <1>12, <1>13 DEF Fits, Outcome

-----------------------------------------------------------------------------
(* OpenCode.                                                               *)

LEMMA OpenCodeInstalls ==
    ASSUME kind = "opencode", NEW d, Good("idle", d), NEW h \in Homes, NEW at
    PROVE  Fits("install", d, h, at, Install(d, h, at))
<1> DEFINE p == Start(d)
           e == [d EXCEPT !.blocks["owned"] = h]
<1>1. d \in Disks /\ Shaped(d) /\ Kept(d) /\ "owned" \in Places
    BY DEF Good, Shaped, InOrder, Places
<1>2. PlanFrom("install", d, p) /\ p.disk = d /\ p.ok
    BY StartIs, GoodToBegin
<1> HIDE DEF p
<1>3. Install(d, h, at) = Write(p, e)
    BY <1>2 DEF Install, openCodeInstall, applyManagedFile, p
<1>4. /\ e \in Disks
      /\ e.file = d.file /\ e.settings = d.settings
      /\ e.listed = d.listed /\ e.record = d.record
      /\ e.blocks = [d.blocks EXCEPT !["owned"] = h]
    BY <1>1 DEF Disks
<1> HIDE DEF e
<1>5. Shaped(e) /\ Kept(e)
    <2>1. \A q \in Places : e.blocks[q] \in TextsOf(q)
        BY <1>1, <1>4 DEF Shaped, TextsOf, Disks
    <2>2. e.listed \subseteq MayList
        BY <1>1, <1>4 DEF Shaped
    <2> QED
        BY <1>1, <1>4, <2>1, <2>2, Replaced
<1>6. Good("install", e)
    BY <1>5 DEF Good
<1>7. Spares("install", d, e)
    <2>1. d.blocks["owned"] \notin UserText
        BY <1>1, AdapterAssumption DEF Shaped, TextsOf, UserText
    <2> QED
        BY <1>1, <1>4, <2>1 DEF Spares, Disks
<1>8. PlanFrom("install", d, Write(p, e)) /\ Write(p, e).disk = e
    BY <1>2, <1>6, <1>7, WriteIs
<1>9. Installed(e, at) /\ SetUpFor(e, h, at)
    BY <1>1, <1>4 DEF Installed, openCodeStatus, SetUpFor, Disks
<1> QED
    BY <1>3, <1>8, <1>9 DEF Fits, Outcome

LEMMA OpenCodeUninstalls ==
    ASSUME kind = "opencode", NEW d, Good("idle", d)
    PROVE  Fits("uninstall", d, "none", <<>>, Uninstall(d))
<1>1. Uninstall(d) = Start(d)
    BY DEF Uninstall, openCodeUninstall
<1>2. PlanFrom("uninstall", d, Start(d))
    BY StartIs, GoodToBegin
<1> QED
    BY <1>1, <1>2 DEF Fits, Outcome

-----------------------------------------------------------------------------
(* The steps.                                                              *)

\* Whatever the adapter, a command's plan does what it should.
LEMMA InstallFits ==
    ASSUME kind \in Kinds, ChosenFits, NEW d, Good("idle", d), NEW h \in Homes,
           NEW at \in ProfilesFound
    PROVE  Fits("install", d, h, at, Install(d, h, at))
<1>1. CASE kind = "codex"
    BY <1>1, CodexInstalls
<1>2. CASE kind = "claude"
    BY <1>2, ClaudeInstalls
<1>3. CASE kind = "vscode"
    BY <1>3, VSCodeInstalls
<1>4. CASE kind = "posix"
    BY <1>4, PosixInstalls DEF ProfilesFound
<1>5. CASE kind = "powershell"
    BY <1>5, PowerShellInstalls DEF ProfilesFound
<1>6. CASE kind = "opencode"
    BY <1>6, OpenCodeInstalls
<1> QED
    BY <1>1, <1>2, <1>3, <1>4, <1>5, <1>6, AdapterAssumption

LEMMA UninstallFits ==
    ASSUME kind \in Kinds, ChosenFits, NEW d, Good("idle", d)
    PROVE  Fits("uninstall", d, "none", <<>>, Uninstall(d))
<1>1. CASE kind = "codex"
    BY <1>1, CodexUninstalls
<1>2. CASE kind = "claude"
    BY <1>2, ClaudeUninstalls
<1>3. CASE kind = "vscode"
    BY <1>3, VSCodeUninstalls
<1>4. CASE kind \in {"posix", "powershell"}
    BY <1>4, CopilotUninstalls
<1>5. CASE kind = "opencode"
    BY <1>5, OpenCodeUninstalls
<1> QED
    BY <1>1, <1>2, <1>3, <1>4, <1>5, AdapterAssumption

\* What only depends on the adapter never changes.
LEMMA SameAdapter ==
    ASSUME kind' = kind
    PROVE  /\ Keys' = Keys
           /\ Disks' = Disks
           /\ NoRecord' = NoRecord
           /\ MayList' = MayList
           /\ \A q : TextsOf(q)' = TextsOf(q)
           /\ \A d : Unnamed(d)' = Unnamed(d)
           /\ \A d, at : Installed(d, at)' <=> Installed(d, at)
           /\ \A d, h, at : SetUpFor(d, h, at)' <=> SetUpFor(d, h, at)
           /\ \A name, d, e : Spares(name, d, e)' <=> Spares(name, d, e)
<1>1. Keys' = Keys
    BY DEF Keys
<1>2. Records' = Records
    BY <1>1 DEF Records
<1>3. Disks' = Disks
    BY <1>1, <1>2 DEF Disks
<1>4. Untracked' = Untracked
    BY <1>1 DEF Untracked
<1>5. NoRecord' = NoRecord
    BY <1>4 DEF NoRecord
<1>6. MayList' = MayList /\ \A q : TextsOf(q)' = TextsOf(q)
    BY DEF MayList, TextsOf
<1>7. \A d : Unnamed(d)' = Unnamed(d)
    BY DEF Unnamed
<1>8. \A d, at : Installed(d, at)' <=> Installed(d, at)
    BY DEF Installed, copilotStatus
<1>9. \A d, h, at : SetUpFor(d, h, at)' <=> SetUpFor(d, h, at)
    BY DEF SetUpFor
<1>10. \A name, d, e : Spares(name, d, e)' <=> Spares(name, d, e)
    BY <1>1 DEF Spares
<1> QED
    BY <1>1, <1>3, <1>5, <1>6, <1>7, <1>8, <1>9, <1>10

\* The more the user has chosen, the more is the user's.
LEMMA MoreChosen ==
    ASSUME kind' = kind, \A k \in Keys : chosen[k] \subseteq chosen'[k]
    PROVE  /\ \A k \in Keys : chosen'[k] \subseteq Theirs(k)'
           /\ \A k \in Keys : Theirs(k) \subseteq Theirs(k)'
           /\ \A d : RecordFits(d) => RecordFits(d)'
           /\ \A d : Shaped(d) => Shaped(d)'
           /\ \A d : Kept(d) => Kept(d)'
<1>1. \A k \in Keys : chosen'[k] \subseteq Theirs(k)' /\ Theirs(k) \subseteq Theirs(k)'
    BY DEF Theirs
<1>2. Keys' = Keys
    BY SameAdapter
<1>3. \A d : RecordFits(d) => RecordFits(d)'
    <2> TAKE d
    <2>1. NoRecord' = NoRecord
        BY SameAdapter
    <2> QED
        BY <1>1, <1>2, <2>1 DEF RecordFits
<1>4. \A d : FileFits(d) => FileFits(d)'
    BY <1>2 DEF FileFits
<1>5. \A d : Shaped(d) => Shaped(d)'
    <2> TAKE d
    <2>1. Disks' = Disks /\ MayList' = MayList /\ \A q : TextsOf(q)' = TextsOf(q)
        BY SameAdapter
    <2> QED
        BY <1>1, <1>2, <1>3, <1>4, <2>1 DEF Shaped
<1>6. \A d : Kept(d) => Kept(d)'
    BY <1>1, <1>2 DEF Kept
<1> QED
    BY <1>1, <1>3, <1>5, <1>6

\* While a command runs, what it is judged by stays.
LEMMA Steady ==
    ASSUME UNCHANGED <<kind, chosen>>
    PROVE  /\ loose' = loose => \A name, d : Good(name, d) => Good(name, d)'
           /\ loose' = loose =>
                 \A name, h, at, d : Outcome(name, h, at, d) => Outcome(name, h, at, d)'
           /\ ChosenFits => ChosenFits'
<1>1. Keys' = Keys
    BY SameAdapter
<1>2. ChosenFits => ChosenFits'
    BY <1>1 DEF ChosenFits
<1>3. \A k \in Keys : Theirs(k)' = Theirs(k)
    BY DEF Theirs
<1>4. ASSUME loose' = loose, NEW name, NEW d, Good(name, d)
      PROVE  Good(name, d)'
    <2>1. /\ Shaped(d) => Shaped(d)'
          /\ Kept(d) => Kept(d)'
        BY MoreChosen
    <2>2. Unnamed(d)' = Unnamed(d)
        BY SameAdapter
    <2> QED
        BY <1>4, <2>1, <2>2 DEF Good, InOrder
<1>5. \A d : Removed(d) => Removed(d)'
    <2> TAKE d
    <2>1. Ours(d)' = Ours(d)
        BY DEF Ours
    <2>2. Installed(d, <<"p1">>)' <=> Installed(d, <<"p1">>)
        BY SameAdapter
    <2> QED
        BY <1>1, <1>3, <2>1, <2>2 DEF Removed
<1>6. ASSUME loose' = loose, NEW name, NEW h, NEW at, NEW d, Outcome(name, h, at, d)
      PROVE  Outcome(name, h, at, d)'
    <2>1. /\ Installed(d, at)' <=> Installed(d, at)
          /\ SetUpFor(d, h, at)' <=> SetUpFor(d, h, at)
        BY SameAdapter
    <2> QED
        BY <1>5, <1>6, <2>1 DEF Outcome, InOrder
<1> QED
    BY <1>2, <1>4, <1>6

\* The invariant holds of files that qlog has not touched, or an older qlog.
LEMMA AdapterInitInv ==
    ASSUME AdapterInit
    PROVE  AdapterInv
<1>1. PICK s \in [Keys -> {"absent", "mine", "off"}], text \in [Places -> {"none", "theirs"}],
           legacy \in BOOLEAN :
         /\ \A k \in Keys : s[k] \in UserValues(k)
         /\ \A q \in Places :
              text[q] = "theirs" => \/ kind = "vscode" /\ q \in Homes
                                    \/ kind = "posix" /\ q \in ToSet(Profiles)
         /\ legacy => kind = "powershell" /\ s["switch"] = "off"
         /\ disk = [file |-> kind # "posix", settings |-> s, blocks |-> text,
                    listed |-> {},
                    record |-> IF legacy
                                 THEN [present |-> TRUE,
                                       original |-> [k \in Keys |-> "absent"],
                                       wrote |-> s]
                                 ELSE NoRecord]
         /\ chosen = [k \in Keys |-> IF legacy THEN {"absent"} ELSE {s[k]}]
    BY DEF AdapterInit
<1>2. /\ kind \in Kinds /\ run = NoRun /\ last = "none" /\ loose = {}
    BY DEF AdapterInit
<1>3. ToSet(Profiles) = {"p1", "p2"}
    BY DEF ToSet, Profiles
<1>4. /\ disk.file = (kind # "posix") /\ disk.settings = s /\ disk.blocks = text
      /\ disk.listed = {}
      /\ legacy => /\ disk.record.present
                   /\ disk.record.original = [k \in Keys |-> "absent"]
                   /\ disk.record.wrote = s
      /\ ~ legacy => disk.record = NoRecord
    BY <1>1
<1>5. disk \in Disks
    <2>1. s \in [Keys -> Values] /\ s \in [Keys -> Values \cup {"untracked"}]
        BY <1>1 DEF Values
    <2>2. text \in [Places -> Homes \cup UserText \cup {"none"}]
        BY <1>1 DEF UserText
    <2>3. [k \in Keys |-> "absent"] \in [Keys -> Values \cup {"untracked"}]
        BY DEF Values
    <2>4. CASE legacy
        <3>1. disk.record = [present |-> TRUE, original |-> [k \in Keys |-> "absent"],
                             wrote |-> s]
            BY <1>1, <2>4
        <3>2. disk.record \in Records
            BY <2>1, <2>3, <3>1 DEF Records
        <3> QED
            BY <1>1, <2>1, <2>2, <3>2 DEF Disks
    <2>5. CASE ~ legacy
        <3>1. disk.record = NoRecord
            BY <1>4, <2>5
        <3> QED
            BY <1>1, <2>1, <2>2, <3>1, NoRecordIs DEF Disks
    <2> QED
        BY <2>4, <2>5
<1>6. ChosenFits
    <2>1. \A k \in Keys : chosen[k] \subseteq UserValues(k)
        BY <1>1 DEF UserValues
    <2>2. chosen \in [Keys -> SUBSET Values]
        BY <1>1 DEF Values
    <2> QED
        BY <2>1, <2>2 DEF ChosenFits
<1>7. \A k \in Keys : chosen[k] \subseteq Theirs(k)
    BY DEF Theirs
<1>8. \A k \in Keys : chosen[k] = IF legacy THEN {"absent"} ELSE {s[k]}
    BY <1>1
<1>9. legacy => Keys = {"switch"} /\ s["switch"] = "off" /\ Managed("switch") = {"off"}
    BY <1>1, KeysAre DEF Managed
<1>10. RecordFits(disk)
    <2>1. CASE legacy
        BY <1>2, <1>4, <1>7, <1>8, <1>9, <2>1 DEF RecordFits
    <2>2. CASE ~ legacy
        BY <1>4, <2>2, NoRecordIs DEF RecordFits
    <2> QED
        BY <2>1, <2>2
<1>11. FileFits(disk)
    BY <1>4 DEF FileFits
<1>12. \A q \in Places : disk.blocks[q] \in TextsOf(q)
    <2> TAKE q \in Places
    <2>1. text[q] \in {"none", "theirs"}
        BY <1>1
    <2>2. q = "owned" => text[q] = "none"
        BY <1>1, <1>3, <2>1, AdapterAssumption
    <2> QED
        BY <1>1, <1>3, <1>4, <2>1, <2>2 DEF TextsOf, UserText
<1>13. \A k \in Keys : disk.settings[k] \in Theirs(k) \cup Managed(k)
    <2>1. CASE legacy
        BY <1>4, <1>9, <2>1
    <2>2. CASE ~ legacy
        BY <1>4, <1>7, <1>8, <2>2
    <2> QED
        BY <2>1, <2>2
<1>14. Kept(disk)
    <2>1. CASE legacy
        BY <1>4, <1>7, <1>8, <1>9, <2>1 DEF Kept
    <2>2. CASE ~ legacy
        BY <1>4, <1>7, <1>8, <2>2, NoRecordIs DEF Kept
    <2> QED
        BY <2>1, <2>2
<1>15. Unnamed(disk) = {}
    <2>1. \A q \in Places : disk.blocks[q] \notin Homes
        BY <1>1, <1>4, AdapterAssumption
    <2>2. kind = "codex" => disk.settings["target"] \notin Homes
        BY <1>1, <1>4, KeysAre, AdapterAssumption DEF UserValues
    <2>3. Homes \cup {"p1", "p2"} \subseteq Places
        BY <1>3 DEF Places
    <2> QED
        BY <1>3, <1>4, <2>1, <2>2, <2>3 DEF Unnamed, launcherHashMatches
<1>16. Shaped(disk)
    BY <1>4, <1>5, <1>10, <1>11, <1>12, <1>13 DEF Shaped
<1>17. RunInv
    <2>1. /\ run.name = "idle" /\ run.steps = <<>> /\ run.ok = TRUE
        BY <1>2 DEF NoRun
    <2>2. run.steps \in Seq(Disks) /\ 1..Len(run.steps) = {}
        BY <2>1
    <2>3. Outcome(run.name, run.home, run.at, End(disk, run.steps))
        BY <2>1 DEF Outcome
    <2> QED
        BY <2>1, <2>2, <2>3 DEF RunInv
<1> QED
    BY <1>2, <1>6, <1>14, <1>15, <1>16, <1>17 DEF AdapterInv, Good, Outcome

\* A command begins with its plan.
LEMMA BeginKeepsInv ==
    ASSUME AdapterInv, BeginInstall \/ BeginUninstall
    PROVE  AdapterInv'
<1>1. PICK name, h, at, plan :
          /\ Begin(name, h, at, plan) /\ Fits(name, disk, h, at, plan)
          /\ name \in {"install", "uninstall"}
    <2>1. CASE BeginInstall
        <3>1. PICK h \in Homes, at \in ProfilesFound :
                  Begin("install", h, at, Install(disk, h, at))
            BY <2>1 DEF BeginInstall
        <3>2. Fits("install", disk, h, at, Install(disk, h, at))
            BY <3>1, InstallFits DEF AdapterInv, Begin
        <3> QED
            BY <3>1, <3>2
    <2>2. CASE BeginUninstall
        <3>1. Begin("uninstall", "none", <<>>, Uninstall(disk))
            BY <2>2 DEF BeginUninstall
        <3>2. Fits("uninstall", disk, "none", <<>>, Uninstall(disk))
            BY <3>1, UninstallFits DEF AdapterInv, Begin
        <3> QED
            BY <3>1, <3>2
    <2> QED
        BY <2>1, <2>2
<1>2. /\ run.name = "idle" /\ last' = "none"
      /\ UNCHANGED <<kind, disk, chosen, loose>>
      /\ run'.name = name /\ run'.home = h /\ run'.at = at
      /\ run'.steps = plan.steps /\ run'.ok = plan.ok
      /\ name \in {"install", "uninstall"}
    BY <1>1 DEF Begin
<1>3. Good(name, disk)
    BY <1>2, GoodToBegin DEF AdapterInv
<1>4. PlanFrom(name, disk, plan) /\ (plan.ok => Outcome(name, h, at, plan.disk))
    BY <1>1 DEF Fits
<1>5. plan.steps \in Seq(Disks) /\ plan.ok \in BOOLEAN /\ plan.disk = End(disk, plan.steps)
    BY <1>4 DEF PlanFrom
<1>6. \A i \in 1..Len(plan.steps) :
          /\ Good(name, plan.steps[i])
          /\ Spares(name, Before(disk, plan.steps, i), plan.steps[i])
    BY <1>4 DEF PlanFrom
<1>7. RunInv'
    BY <1>2, <1>4, <1>5, <1>6, SameAdapter, Steady DEF RunInv, Before, End
<1>8. Good(run.name, disk)'
    BY <1>2, <1>3, Steady
<1>9. ChosenFits' /\ kind' \in Kinds
    BY <1>2, Steady DEF AdapterInv
<1>10. Outcome(last, run.home, run.at, disk)'
    BY <1>2 DEF Outcome
<1> QED
    BY <1>2, <1>7, <1>8, <1>9, <1>10 DEF AdapterInv

\* A write leads to the next disk of the plan, and its end stays its end.
LEMMA WriteNextKeepsInv ==
    ASSUME AdapterInv, WriteNext
    PROVE  AdapterInv' /\ Spares(run.name, disk, disk')
<1> DEFINE steps == run.steps
           rest == Tail(steps)
           n == Len(rest)
<1>1. /\ run.name # "idle" /\ steps # <<>> /\ last' = "none"
      /\ UNCHANGED <<kind, chosen, loose>>
      /\ disk' = Head(steps) /\ run' = [run EXCEPT !.steps = rest]
    BY DEF WriteNext
<1>2. /\ run'.name = run.name /\ run'.home = run.home /\ run'.at = run.at
      /\ run'.ok = run.ok /\ run'.steps = rest
    <2>1. run.steps = steps
        OBVIOUS
    <2> QED
        BY <1>1
<1>3. /\ steps \in Seq(Disks)
      /\ \A i \in 1..Len(steps) :
            /\ Good(run.name, steps[i])
            /\ Spares(run.name, Before(disk, steps, i), steps[i])
      /\ run.ok => Outcome(run.name, run.home, run.at, End(disk, steps))
      /\ run.ok \in BOOLEAN /\ run.name \in {"install", "uninstall"}
    BY <1>1 DEF AdapterInv, RunInv
<1> HIDE DEF steps
<1>4. /\ rest \in Seq(Disks) /\ n \in Nat /\ Len(steps) = n + 1
      /\ disk' = steps[1]
      /\ \A i \in 1..n : rest[i] = steps[i + 1]
      /\ rest = <<>> <=> n = 0
    <2>1. /\ rest \in Seq(Disks) /\ Len(rest) = Len(steps) - 1 /\ Len(steps) \in Nat \ {0}
          /\ \A i \in 1..n : rest[i] = steps[i + 1]
        BY <1>1, <1>3
    <2>2. rest = <<>> <=> n = 0
        BY <2>1, EmptySeq
    <2> QED
        BY <1>1, <1>3, <2>1, <2>2
<1> HIDE DEF rest, n
<1>5. Good(run.name, disk') /\ Spares(run.name, disk, disk')
    <2>1. 1 \in 1..Len(steps)
        BY <1>4
    <2>2. Before(disk, steps, 1) = disk
        BY DEF Before
    <2> QED
        BY <1>3, <1>4, <2>1, <2>2
<1>6. ASSUME NEW i \in 1..n
      PROVE  Good(run.name, rest[i]) /\ Spares(run.name, Before(disk', rest, i), rest[i])
    <2>1. i + 1 \in 1..Len(steps)
        BY <1>4
    <2>2. Before(disk, steps, i + 1) = steps[i]
        BY DEF Before
    <2>3. Before(disk', rest, i) = steps[i]
        <3>1. CASE i = 1
            BY <1>4, <3>1 DEF Before
        <3>2. CASE i # 1
            <4>1. i - 1 \in 1..n /\ i - 1 + 1 = i
                BY <1>4, <3>2
            <4> QED
                BY <1>4, <3>2, <4>1 DEF Before
        <3> QED
            BY <3>1, <3>2
    <2> QED
        BY <1>3, <1>4, <2>1, <2>2, <2>3
<1>7. End(disk', rest) = End(disk, steps)
    <2>1. CASE n = 0
        BY <1>1, <1>4, <2>1 DEF End
    <2>2. CASE n # 0
        <3>1. n \in 1..n
            BY <1>4, <2>2
        <3> QED
            BY <1>1, <1>4, <2>2, <3>1 DEF End, n
    <2> QED
        BY <2>1, <2>2
<1>8. RunInv'
    <2>1. \A i \in 1..Len(rest) :
              Good(run.name, rest[i]) /\ Spares(run.name, Before(disk', rest, i), rest[i])
        BY <1>6 DEF n
    <2>2. run.ok => Outcome(run.name, run.home, run.at, End(disk', rest))
        BY <1>3, <1>7
    <2> QED
        BY <1>1, <1>2, <1>3, <1>4, <2>1, <2>2, SameAdapter, Steady DEF RunInv, Before, End
<1>9. Good(run.name, disk)'
    BY <1>1, <1>2, <1>5, Steady
<1>10. Outcome(last, run.home, run.at, disk)'
    BY <1>1 DEF Outcome
<1>11. ChosenFits' /\ kind' \in Kinds
    BY <1>1, Steady DEF AdapterInv
<1> QED
    BY <1>1, <1>5, <1>8, <1>9, <1>10, <1>11 DEF AdapterInv

\* Without a command nothing is promised of one.
LEMMA NoRunInv ==
    ASSUME run'.name = "idle", run'.steps = <<>>, run'.ok = TRUE
    PROVE  RunInv'
<1>1. run'.steps \in Seq(Disks') /\ 1..Len(run'.steps) = {}
    OBVIOUS
<1>2. Outcome(run.name, run.home, run.at, End(disk, run.steps))'
    BY DEF Outcome
<1> QED
    BY <1>1, <1>2 DEF RunInv

\* What an install leaves without a record is counted when it ends; until
\* nothing is, no place holds text that no record names.
LEMMA LooseIsCounted ==
    ASSUME AdapterInv, UNCHANGED <<kind, disk, chosen>>,
           loose' = IF run.name = "install" THEN Loose(disk) ELSE loose
    PROVE  /\ InOrder' => InOrder
           /\ \A name : Good(name, disk)'
           /\ run.name = "uninstall" => loose' = loose
<1>1. Loose(disk) = Unnamed(disk) \cup (IF kind = "codex" THEN loose ELSE {})
    BY DEF Loose
<1>2. InOrder' => InOrder
    BY <1>1 DEF InOrder
<1>3. loose' = {} => Unnamed(disk) = {}
    BY <1>1 DEF AdapterInv, Good
<1>4. /\ Shaped(disk)' /\ (Kept(disk) => Kept(disk)')
      /\ Unnamed(disk)' = Unnamed(disk)
    <2>1. Shaped(disk)
        BY DEF AdapterInv, Good
    <2> QED
        BY <2>1, MoreChosen, SameAdapter
<1>5. InOrder => Kept(disk)
    BY DEF AdapterInv, Good
<1> QED
    BY <1>2, <1>3, <1>4, <1>5 DEF Good

\* A command that ends without an error has done what it is for.
LEMMA FinishKeepsInv ==
    ASSUME AdapterInv, Finish
    PROVE  AdapterInv'
<1>1. /\ run.name # "idle" /\ run.steps = <<>>
      /\ last' = IF run.ok THEN run.name ELSE "failed"
      /\ loose' = IF run.name = "install" THEN Loose(disk) ELSE loose
      /\ run' = [NoRun EXCEPT !.home = run.home, !.at = run.at]
      /\ UNCHANGED <<kind, disk, chosen>>
    BY DEF Finish
<1>2. /\ run'.name = "idle" /\ run'.home = run.home /\ run'.at = run.at
      /\ run'.steps = <<>> /\ run'.ok = TRUE
    BY <1>1 DEF NoRun
<1>3. Good(run.name, disk)'
    BY <1>1, LooseIsCounted
<1>4. RunInv'
    BY <1>2, NoRunInv
<1>5. run.ok => Outcome(run.name, run.home, run.at, disk)
    BY <1>1 DEF AdapterInv, RunInv, End
<1>6. Outcome(last, run.home, run.at, disk)'
    <2>1. CASE run.ok /\ run.name = "install"
        <3>1. /\ InOrder' => Installed(disk, run.at)
              /\ SetUpFor(disk, run.home, run.at)
            BY <1>1, <1>5, <2>1, LooseIsCounted DEF Outcome
        <3>2. /\ Installed(disk, run.at)' <=> Installed(disk', run'.at)
              /\ SetUpFor(disk, run.home, run.at)' <=> SetUpFor(disk', run'.home, run'.at)
            BY <1>1, SameAdapter
        <3> QED
            BY <1>1, <1>2, <2>1, <3>1, <3>2 DEF Outcome
    <2>2. CASE run.ok /\ run.name = "uninstall"
        <3>1. loose' = loose
            BY <1>1, <2>2
        <3> QED
            BY <1>1, <1>2, <1>5, <2>2, <3>1, Steady
    <2>3. CASE ~ run.ok
        BY <1>1, <2>3 DEF Outcome
    <2> QED
        BY <1>1, <2>1, <2>2, <2>3 DEF AdapterInv, RunInv
<1>7. ChosenFits' /\ kind' \in Kinds
    BY <1>1, Steady DEF AdapterInv
<1> QED
    BY <1>2, <1>3, <1>4, <1>6, <1>7 DEF AdapterInv

\* A command cut off promises nothing.
LEMMA CutOffKeepsInv ==
    ASSUME AdapterInv, CutOff
    PROVE  AdapterInv'
<1>1. /\ last' = "none" /\ run' = NoRun
      /\ loose' = IF run.name = "install" THEN Loose(disk) ELSE loose
      /\ UNCHANGED <<kind, disk, chosen>>
    BY DEF CutOff
<1>2. run'.name = "idle" /\ run'.steps = <<>> /\ run'.ok = TRUE
    BY <1>1 DEF NoRun
<1>3. Good(run.name, disk)'
    BY <1>1, LooseIsCounted
<1>4. RunInv'
    BY <1>2, NoRunInv
<1>5. Outcome(last, run.home, run.at, disk)'
    BY <1>1 DEF Outcome
<1>6. ChosenFits' /\ kind' \in Kinds
    BY <1>1, Steady DEF AdapterInv
<1> QED
    BY <1>2, <1>3, <1>4, <1>5, <1>6 DEF AdapterInv

\* The user edits between commands.
LEMMA EditKeepsInv ==
    ASSUME AdapterInv, run.name = "idle", last' = "none", UNCHANGED <<kind, run, loose>>,
           chosen' \in [Keys -> SUBSET Values],
           \A k \in Keys : chosen'[k] \subseteq UserValues(k),
           Shaped(disk)', Kept(disk) => Kept(disk)',
           Unnamed(disk) = {} => Unnamed(disk') = {}
    PROVE  AdapterInv'
<1>1. run'.name = "idle" /\ run'.steps = <<>>
    BY DEF AdapterInv, RunInv
<1>2. RunInv'
    <2>1. run'.steps \in Seq(Disks') /\ 1..Len(run'.steps) = {} /\ run'.ok \in BOOLEAN
        BY <1>1 DEF AdapterInv, RunInv
    <2>2. Outcome(run.name, run.home, run.at, End(disk, run.steps))'
        BY <1>1 DEF Outcome
    <2> QED
        BY <1>1, <2>1, <2>2 DEF RunInv
<1>3. Keys' = Keys /\ Unnamed(disk)' = Unnamed(disk')
    BY SameAdapter
<1>4. Good(run.name, disk)'
    <2>1. (InOrder => Kept(disk)) /\ (loose = {} => Unnamed(disk) = {})
        BY DEF AdapterInv, Good
    <2> QED
        BY <1>3, <2>1 DEF Good, InOrder
<1>5. ChosenFits'
    BY <1>3 DEF ChosenFits
<1>6. Outcome(last, run.home, run.at, disk)'
    BY DEF Outcome
<1> QED
    BY <1>2, <1>4, <1>5, <1>6 DEF AdapterInv

\* A value the user gives a setting is the user's.
LEMMA EditSettingKeepsInv ==
    ASSUME AdapterInv, EditSetting
    PROVE  AdapterInv'
<1>1. PICK k \in Keys : \E v \in UserValues(k) :
          /\ disk' = WithSetting(disk, k, v)
          /\ chosen' = [chosen EXCEPT ![k] = @ \cup {v}]
          /\ run.name = "idle" /\ last' = "none" /\ UNCHANGED <<kind, run, loose>>
    BY DEF EditSetting, Edit
<1>2. PICK v \in UserValues(k) :
          /\ disk' = WithSetting(disk, k, v)
          /\ chosen' = [chosen EXCEPT ![k] = @ \cup {v}]
          /\ run.name = "idle" /\ last' = "none" /\ UNCHANGED <<kind, run, loose>>
    BY <1>1
<1>3. disk \in Disks /\ Shaped(disk) /\ ChosenFits
    BY DEF AdapterInv, Good, Shaped
<1>4. v \in Values
    BY DEF UserValues, Values
<1>5. /\ disk' \in Disks /\ disk'.file = TRUE
      /\ disk'.settings = [disk.settings EXCEPT ![k] = v]
      /\ disk'.blocks = disk.blocks /\ disk'.listed = disk.listed
      /\ disk'.record = disk.record
    BY <1>2, <1>3, <1>4 DEF Disks, WithSetting
<1>6. /\ chosen' \in [Keys -> SUBSET Values]
      /\ \A x \in Keys : chosen'[x] = IF x = k THEN chosen[k] \cup {v} ELSE chosen[x]
    BY <1>2, <1>3, <1>4 DEF ChosenFits
<1>7. \A x \in Keys : chosen[x] \subseteq chosen'[x] /\ chosen'[x] \subseteq UserValues(x)
    BY <1>3, <1>6 DEF ChosenFits
<1>8. \A x \in Keys : disk'.settings[x] = IF x = k THEN v ELSE disk.settings[x]
    BY <1>3, <1>5 DEF Disks
<1>9. /\ v \in Theirs(k)'
      /\ \A x \in Keys : Theirs(x) \subseteq Theirs(x)'
      /\ RecordFits(disk') => RecordFits(disk)'
    BY <1>2, <1>6, <1>7, MoreChosen
<1>10. /\ Keys' = Keys /\ Disks' = Disks /\ MayList' = MayList
       /\ \A q : TextsOf(q)' = TextsOf(q)
    BY <1>2, SameAdapter
<1>11. Shaped(disk)'
    <2>1. \A x \in Keys : disk'.settings[x] \in Theirs(x)' \cup Managed(x)
        BY <1>3, <1>8, <1>9 DEF Shaped
    <2>2. RecordFits(disk)'
        BY <1>3, <1>5, <1>9 DEF Shaped, RecordFits
    <2>3. FileFits(disk)'
        BY <1>5 DEF FileFits
    <2> QED
        BY <1>3, <1>5, <1>10, <2>1, <2>2, <2>3 DEF Shaped
<1>12. Kept(disk) => Kept(disk)'
    BY <1>5, <1>8, <1>9, <1>10 DEF Kept
<1>13. Unnamed(disk) = {} => Unnamed(disk') = {}
    <2>1. CASE kind = "codex"
        <3>1. k = "target" => v \notin Homes
            BY AdapterAssumption DEF UserValues
        <3> QED
            BY <1>5, <1>8, <2>1, <3>1, KeysAre DEF Unnamed
    <2>2. CASE kind # "codex"
        BY <1>5, <2>2 DEF Unnamed, launcherHashMatches
    <2> QED
        BY <2>1, <2>2
<1> QED
    BY <1>2, <1>6, <1>7, <1>11, <1>12, <1>13, EditKeepsInv

\* A text that is changed or deleted names no home.
LEMMA EditTextKeepsInv ==
    ASSUME AdapterInv, EditText
    PROVE  AdapterInv'
<1>1. PICK q \in Places \ {"owned"}, text \in {"edited", "none"} :
          /\ disk.blocks[q] \in Homes \cup {"edited"}
          /\ disk' = [disk EXCEPT !.blocks[q] = text]
          /\ run.name = "idle" /\ last' = "none" /\ UNCHANGED <<kind, run, loose, chosen>>
    BY DEF EditText, Edit
<1>2. disk \in Disks /\ Shaped(disk) /\ ChosenFits
    BY DEF AdapterInv, Good, Shaped
<1>3. /\ disk' \in Disks /\ disk'.file = disk.file /\ disk'.settings = disk.settings
      /\ disk'.listed = disk.listed /\ disk'.record = disk.record
      /\ disk'.blocks = [disk.blocks EXCEPT ![q] = text]
    BY <1>1, <1>2 DEF Disks, UserText
<1>4. \A x \in Places : disk'.blocks[x] = IF x = q THEN text ELSE disk.blocks[x]
    BY <1>2, <1>3 DEF Disks
<1>5. \A x \in Places : disk'.blocks[x] \in TextsOf(x)
    <2>1. text \in TextsOf(q)
        BY <1>1, <1>2, AdapterAssumption DEF Shaped, TextsOf, UserText
    <2> QED
        BY <1>2, <1>4, <2>1 DEF Shaped
<1>6. Shaped(disk') /\ (Kept(disk) => Kept(disk'))
    <2>1. disk'.blocks["owned"] = disk.blocks["owned"]
        BY <1>4 DEF Places
    <2>2. disk'.listed \subseteq MayList
        BY <1>2, <1>3 DEF Shaped
    <2> QED
        BY <1>2, <1>3, <1>5, <2>1, <2>2, Replaced
<1>7. Shaped(disk)' /\ (Kept(disk') => Kept(disk)')
    BY <1>1, <1>6, MoreChosen
<1>8. Unnamed(disk) = {} => Unnamed(disk') = {}
    <2>1. text \notin Homes
        BY AdapterAssumption
    <2>2. Homes \cup ToSet(Profiles) \subseteq Places
        BY DEF Places
    <2>3. \A x \in Places : disk'.blocks[x] \in Homes => disk'.blocks[x] = disk.blocks[x]
        BY <1>4, <2>1
    <2> QED
        BY <1>3, <2>2, <2>3 DEF Unnamed, launcherHashMatches
<1> QED
    BY <1>1, <1>2, <1>6, <1>7, <1>8, EditKeepsInv DEF ChosenFits

\* A file that is gone has no setting of qlog's.
LEMMA DeleteFileKeepsInv ==
    ASSUME AdapterInv, DeleteFile
    PROVE  AdapterInv'
<1>1. /\ kind \in {"codex", "claude", "vscode"}
      /\ disk' = [disk EXCEPT !.file = FALSE,
                              !.settings = [k \in Keys |-> "absent"],
                              !.blocks["owned"] = "none",
                              !.record = IF kind = "vscode" THEN NoRecord ELSE @]
      /\ chosen' = [k \in Keys |-> chosen[k] \cup {"absent"}]
      /\ run.name = "idle" /\ last' = "none" /\ UNCHANGED <<kind, run, loose>>
    BY DEF DeleteFile, Edit
<1>2. disk \in Disks /\ Shaped(disk) /\ ChosenFits
    BY DEF AdapterInv, Good, Shaped
<1>3. /\ disk' \in Disks /\ disk'.file = FALSE
      /\ disk'.settings = [k \in Keys |-> "absent"]
      /\ disk'.blocks = [disk.blocks EXCEPT !["owned"] = "none"]
      /\ disk'.listed = disk.listed
      /\ disk'.record = IF kind = "vscode" THEN NoRecord ELSE disk.record
    <2>1. [k \in Keys |-> "absent"] \in [Keys -> Values]
        BY DEF Values
    <2> QED
        BY <1>1, <1>2, <2>1, NoRecordIs DEF Disks
<1>4. /\ chosen' \in [Keys -> SUBSET Values]
      /\ \A k \in Keys : chosen'[k] = chosen[k] \cup {"absent"}
    BY <1>1, <1>2 DEF ChosenFits, Values
<1>5. \A k \in Keys : chosen[k] \subseteq chosen'[k] /\ chosen'[k] \subseteq UserValues(k)
    BY <1>2, <1>4 DEF ChosenFits, UserValues
<1>6. /\ \A k \in Keys : disk'.settings[k] = "absent"
      /\ \A q \in Places : disk'.blocks[q] = IF q = "owned" THEN "none" ELSE disk.blocks[q]
      /\ "owned" \in Places
    BY <1>2, <1>3 DEF Disks, Places
<1>7. /\ \A k \in Keys : "absent" \in chosen'[k] /\ "absent" \in Theirs(k)'
      /\ \A k \in Keys : Theirs(k) \subseteq Theirs(k)'
      /\ RecordFits(disk') => RecordFits(disk)'
    BY <1>1, <1>4, <1>5, MoreChosen
<1>8. /\ Keys' = Keys /\ Disks' = Disks /\ MayList' = MayList
      /\ \A q : TextsOf(q)' = TextsOf(q)
    BY <1>1, SameAdapter
<1>9. Shaped(disk)'
    <2>1. RecordFits(disk')
        <3>1. CASE kind = "vscode"
            BY <1>3, <3>1, NoRecordIs DEF RecordFits
        <3>2. CASE kind # "vscode"
            BY <1>2, <1>3, <3>2 DEF Shaped, RecordFits
        <3> QED
            BY <3>1, <3>2
    <2>2. FileFits(disk)'
        BY <1>1, <1>3, <1>6, <1>7, <1>8, NoRecordIs DEF FileFits
    <2>3. \A q \in Places : disk'.blocks[q] \in TextsOf(q)
        <3>1. "none" \in TextsOf("owned")
            BY DEF TextsOf
        <3> QED
            BY <1>2, <1>6, <3>1 DEF Shaped
    <2>4. \A k \in Keys : disk'.settings[k] \in Theirs(k)'
        BY <1>6, <1>7
    <2> QED
        BY <1>2, <1>3, <1>7, <1>8, <2>1, <2>2, <2>3, <2>4 DEF Shaped
<1>10. Kept(disk) => Kept(disk)'
    <2>1. CASE kind = "vscode"
        BY <1>3, <1>6, <1>7, <1>8, <2>1, NoRecordIs DEF Kept
    <2>2. CASE kind # "vscode"
        BY <1>3, <1>6, <1>7, <1>8, <2>2 DEF Kept
    <2> QED
        BY <2>1, <2>2
<1>11. Unnamed(disk) = {} => Unnamed(disk') = {}
    <2>1. CASE kind = "codex"
        BY <1>6, <2>1, KeysAre, AdapterAssumption DEF Unnamed
    <2>2. CASE kind = "vscode"
        <3>1. \A h \in Homes : disk'.blocks[h] = disk.blocks[h]
            BY <1>6, AdapterAssumption DEF Places
        <3> QED
            BY <1>3, <2>2, <3>1 DEF Unnamed, launcherHashMatches
    <2>3. CASE kind = "claude"
        BY <2>3 DEF Unnamed
    <2> QED
        BY <1>1, <2>1, <2>2, <2>3
<1> QED
    BY <1>1, <1>4, <1>5, <1>9, <1>10, <1>11, EditKeepsInv

LEMMA AdapterNextKeepsInv ==
    ASSUME AdapterInv, [AdapterNext]_adapterVars
    PROVE  AdapterInv'
<1>1. CASE BeginInstall \/ BeginUninstall
    BY <1>1, BeginKeepsInv
<1>2. CASE WriteNext
    BY <1>2, WriteNextKeepsInv
<1>3. CASE Finish
    BY <1>3, FinishKeepsInv
<1>4. CASE CutOff
    BY <1>4, CutOffKeepsInv
<1>5. CASE EditSetting
    BY <1>5, EditSettingKeepsInv
<1>6. CASE EditText
    BY <1>6, EditTextKeepsInv
<1>7. CASE DeleteFile
    BY <1>7, DeleteFileKeepsInv
<1>8. CASE UNCHANGED adapterVars
    <2>1. UNCHANGED <<kind, disk, run, last, chosen, loose>>
        BY <1>8 DEF adapterVars
    <2>2. RunInv'
        BY <2>1, Steady, SameAdapter DEF AdapterInv, RunInv, Before, End
    <2> QED
        BY <2>1, <2>2, Steady DEF AdapterInv
<1> QED
    BY <1>1, <1>2, <1>3, <1>4, <1>5, <1>6, <1>7, <1>8 DEF AdapterNext

-----------------------------------------------------------------------------
(* The results.                                                            *)

\* Whatever the homes, and however often commands run, are cut off and the
\* user edits: every disk a command leads through is in order.
THEOREM AdapterFilesAreInOrder == AdapterSpec => []AdapterInv
<1>1. AdapterInit => AdapterInv
    BY AdapterInitInv
<1>2. AdapterInv /\ [AdapterNext]_adapterVars => AdapterInv'
    BY AdapterNextKeepsInv
<1> QED
    BY <1>1, <1>2, PTL DEF AdapterSpec

\* What the user had is on record at every moment at which qlog's stands in
\* its place, also between the writes of a command.
THEOREM OriginalsAreKept == AdapterSpec => []OriginalsOnRecord
<1>1. AdapterInv => OriginalsOnRecord
    BY DEF AdapterInv, Good, InOrder, Kept, OriginalsOnRecord
<1> QED
    BY <1>1, AdapterFilesAreInOrder, PTL

\* An uninstall that reports success has left nothing of qlog's.
THEOREM UninstallsAreComplete == AdapterSpec => []UninstallIsComplete
<1>1. AdapterInv => UninstallIsComplete
    BY DEF AdapterInv, Outcome, Removed, UninstallIsComplete
<1> QED
    BY <1>1, AdapterFilesAreInOrder, PTL

\* A disk that is set up for a home has text of no other, if each text of
\* qlog's is on record: but for a PowerShell profile that was not found again.
LEMMA OneHomeIsLeft ==
    ASSUME kind \in Kinds, NEW d, Shaped(d), Unnamed(d) = {},
           NEW h, NEW at, SetUpFor(d, h, at), NEW q \in Ours(d)
    PROVE  d.blocks[q] = h \/ (kind = "powershell" /\ q \notin ToSet(at))
<1>1. /\ q \in Places /\ d.blocks[q] \in Homes /\ d.blocks[q] \in TextsOf(q)
      /\ d.blocks[q] \notin UserText \cup {"none"}
    BY AdapterAssumption DEF Ours, Shaped, UserText
<1>2. CASE kind = "codex"
    BY <1>1, <1>2 DEF TextsOf
<1>3. CASE kind \in {"claude", "opencode"}
    BY <1>1, <1>3 DEF TextsOf, SetUpFor
<1>4. CASE kind = "vscode"
    <2>1. q \in Homes /\ d.blocks[q] = q
        BY <1>1, <1>4 DEF TextsOf
    <2>2. q \in d.listed
        BY <1>4, <2>1 DEF Unnamed, launcherHashMatches
    <2> QED
        BY <1>4, <2>1, <2>2 DEF SetUpFor
<1>5. CASE kind = "posix"
    <2>1. q = "owned" \/ q \in {"p1", "p2"}
        BY <1>1, <1>5 DEF TextsOf
    <2>2. ToSet(Profiles) = {"p1", "p2"}
        BY DEF ToSet, Profiles
    <2>3. q \in {"p1", "p2"} => q \in d.listed
        BY <1>1, <1>5, <2>2 DEF SetUpFor, Unnamed
    <2> QED
        BY <1>5, <2>1, <2>3 DEF SetUpFor
<1>6. CASE kind = "powershell"
    <2>1. q = "owned" \/ q \in {"p1", "p2"}
        BY <1>1, <1>6 DEF TextsOf
    <2> QED
        BY <1>6, <2>1 DEF SetUpFor
<1> QED
    BY <1>2, <1>3, <1>4, <1>5, <1>6, AdapterAssumption

\* After an install that reports success Status says so, and the agent is set
\* up for the home it was run for and for no other.
THEOREM InstallsAreVisible == AdapterSpec => []InstallIsVisible
<1>1. AdapterInv => InstallIsVisible
    <2> SUFFICES ASSUME AdapterInv, last = "install", loose = {}
                 PROVE  /\ Installed(disk, run.at)
                        /\ SetUpFor(disk, run.home, run.at)
                        /\ \A q \in Ours(disk) :
                              \/ disk.blocks[q] = run.home
                              \/ kind = "powershell" /\ q \notin ToSet(run.at)
        BY DEF InstallIsVisible
    <2>1. Installed(disk, run.at) /\ SetUpFor(disk, run.home, run.at)
        BY DEF AdapterInv, Outcome, InOrder
    <2>2. kind \in Kinds /\ Shaped(disk) /\ Unnamed(disk) = {}
        BY DEF AdapterInv, Good
    <2> QED
        BY <2>1, <2>2, OneHomeIsLeft
<1> QED
    BY <1>1, AdapterFilesAreInOrder, PTL

\* No command takes a text of the user's away, and no uninstall a setting.
THEOREM CommandsSpareTheUser == AdapterSpec => UserEditsSurvive
<1> DEFINE Sparing == run.name # "idle" => Spares(run.name, disk, disk')
<1>1. AdapterInv /\ [AdapterNext]_adapterVars => [Sparing]_adapterVars
    <2> SUFFICES ASSUME AdapterInv, AdapterNext, run.name # "idle"
                 PROVE  Spares(run.name, disk, disk')
        OBVIOUS
    <2>1. CASE WriteNext
        BY <2>1, WriteNextKeepsInv
    <2>2. CASE Finish \/ CutOff
        <3>1. disk' = disk
            BY <2>2 DEF Finish, CutOff
        <3> QED
            BY <3>1 DEF Spares
    <2>3. ~ BeginInstall /\ ~ BeginUninstall
        BY DEF BeginInstall, BeginUninstall, Begin
    <2>4. ~ EditSetting /\ ~ EditText
        BY DEF EditSetting, EditText, Edit
    <2>5. ~ DeleteFile
        BY DEF DeleteFile, Edit
    <2> QED
        BY <2>1, <2>2, <2>3, <2>4, <2>5 DEF AdapterNext
<1>2. [Sparing]_adapterVars =>
      [run.name # "idle" =>
          /\ \A q \in Places :
               disk.blocks[q] \in UserText => disk'.blocks[q] = disk.blocks[q]
          /\ \A k \in Keys :
               (run.name = "uninstall" /\ disk'.settings[k] # disk.settings[k])
                   => disk.settings[k] \in Managed(k)]_adapterVars
    BY DEF Spares
<1> QED
    BY <1>1, <1>2, AdapterFilesAreInOrder, PTL DEF AdapterSpec, UserEditsSurvive
=============================================================================
