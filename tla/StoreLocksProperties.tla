------------------------ MODULE StoreLocksProperties -------------------------
(***************************************************************************)
(* What the locks of the local ledger are for.                             *)
(***************************************************************************)
EXTENDS StoreLocks

In(states) == {p \in Processes : pc[p] \in states}

\* The flags are Boolean.
FlagsOK ==
    /\ home \in BOOLEAN /\ database \in BOOLEAN /\ marker \in BOOLEAN
    /\ wal \in BOOLEAN /\ busy \in BOOLEAN

\* Every variable has its type, and a process holds the locks that belong to
\* what it is doing and no others.
TypeOK ==
    /\ FlagsOK
    /\ committed \in 0..MaxCommits
    /\ main \in 0..committed
    /\ lockFiles \subseteq {"quiescence", "writer"}
    /\ pc \in [Processes -> States]
    /\ shared = In({"locking", "writing", "closing", "snapshot"})
    /\ exclusive = In({"diagnosing", "maintaining", "purging"})
    /\ writer = In({"writing", "closing", "maintaining"})
    /\ In({"found"}) \subseteq guards
    /\ guards \subseteq In({"found", "configured", "locking"})
    /\ statement \subseteq In({"snapshot"})
    /\ crashes \in 0..MaxCrashes

\* At most one process writes to the ledger or checkpoints it (Open, Checkpoint).
OneWriter ==
    \A p, q \in In({"writing", "closing", "maintaining"}) : p = q

\* A diagnostic reads the main file as immutable and knows nothing of the log:
\* what it reads must be all that was ever committed, and nobody else may have
\* the ledger open (OpenReadOnly).
DiagnosticsAreComplete ==
    \A p \in In({"diagnosing"}) :
        /\ main = committed
        /\ \A q \in Processes \ {p} :
              pc[q] \in {"idle", "absent", "configured", "opening"} /\ q \notin guards

\* While it reads, the file does not change.
DiagnosticsAreUndisturbed ==
    [][\A p \in Processes :
          pc[p] = "diagnosing" /\ pc'[p] = "diagnosing" => UNCHANGED ledger]_vars

\* While a purge is under way, or has died and left its marker, no process has
\* the ledger open, and none that found the data directory goes on to create
\* configuration (rejectPurgeMarker, AcquireInitializationGuard).
PendingPurgeIsRespected ==
    marker => \A p \in Processes :
        /\ pc[p] \in {"idle", "absent", "configured", "opening", "purging"}
        /\ p \notin guards

\* A log is only left behind, to be refused by diagnostics, by a process that
\* died or by a writer that closed while a report was reading (Close).
LeftoverLogIsExplained ==
    wal /\ In({"writing"}) = {} => busy \/ crashes > 0

=============================================================================
