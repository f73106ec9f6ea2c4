----------------------- MODULE CodexImportProperties ------------------------
(***************************************************************************)
(* What importing a session's usage must get right.                        *)
(***************************************************************************)
EXTENDS CodexImport

\* The total that a child inherits is in its log: its latest inherited
\* snapshot reports one.
InheritedTotalKnown ==
    created \in 1..Len(log) => log[created].usage[Total] # Missing

\* The tokens that are counted are never more than the session itself had
\* consumed at the latest snapshot that is counted: no interval is counted
\* twice, no inherited token at all, and a reset invents nothing, whatever
\* copies of the log are imported in whatever order (Import, persist).  An
\* inherited snapshot without a total is skipped and leaves an older one as
\* the baseline, hence the hypothesis.
NeverOvercounts == InheritedTotalKnown => usage <= UsedAt(Checkpoint)

\* A counter that was never reset, in snapshots that do not contradict
\* themselves.
Regular ==
    \A k \in 1..Len(log) :
        /\ log[k].usage[Total] \in {Missing, log[k].used}
        /\ \A pair \in PartOf : log[k].usage[pair[1]] = Missing

\* For a regular session without inherited history, the usage up to the latest
\* counted snapshot is counted to the token, though imports crashed and copies
\* lacked heads and tails (difference, persist).
ExactForRegular == kind = "root" /\ Regular => usage = UsedAt(Checkpoint)

\* Importing again what an import has read to its end records nothing new
\* (docs/SIMPLE.md: reimporting the same evidence is idempotent).
ReimportIsIdempotent ==
    [][covered = Len(log) /\ ~ PartialFiles => UNCHANGED ledgerVars]_vars

\* Importing a log as it grows never ends in an error (Import).
WholeLogImports == ~ PartialFiles => outcome # "failed"

\* A snapshot of the session's own, known to be, in which the agent's counter
\* rose since the snapshot before.
Rises(k) ==
    /\ dated
    /\ k > created
    /\ log[k].usage[Total] # Missing
    /\ k > 1 => /\ log[k - 1].usage[Total] # Missing
                /\ log[k].usage[Total] > log[k - 1].usage[Total]

\* If the user imports again after every crash, each interval in which the
\* counter rose is recorded eventually.
EventuallyRecorded ==
    \A k \in 1..MaxSnapshots :
        (k <= Len(log) /\ Rises(k)) ~> (k <= Checkpoint)

=============================================================================
