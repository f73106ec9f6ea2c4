---------------------------- MODULE CodexImport -----------------------------
(***************************************************************************)
(* Importing the usage of one Codex session from its log.                  *)
(*                                                                         *)
(* The agent appends cumulative token counters to the session's log while  *)
(* qlog import may be reading it.  An import reads the log, or a partial   *)
(* copy that starts after its head and stops before its tail, turns        *)
(* consecutive snapshots into intervals of usage and stores each as a raw  *)
(* event and a model call, in two transactions; it may crash or be         *)
(* cancelled between them.  The writer lock (module Ledger) lets one       *)
(* import run at a time.                                                   *)
(*                                                                         *)
(* A child session's log may begin with the history it inherited from its  *)
(* parent: a forked session goes on counting from the parent's total, a    *)
(* spawned one starts from zero.  Snapshots carry strictly increasing      *)
(* times; the time of a snapshot is its position in the log, and 0 is the  *)
(* zero time.  A raw event of a session is identified by time and          *)
(* counters, hence by that position.  Lines that are not snapshots, the    *)
(* resolution of projects and malformed JSON are left out: the first two   *)
(* change nothing here, the last ends the import like a cancellation.      *)
(***************************************************************************)
EXTENDS Naturals, Sequences, FiniteSets, FiniteSetsExt

CONSTANTS
    Counters,     \* the token counters a snapshot may report
    Total,        \* the counter of all tokens
    PartOf,       \* pairs <<part, whole>> of counters, as cached and input
    Shapes,       \* what a snapshot reports: [counters, last]
    Kinds,        \* kinds of session to consider: "root", "fork", "spawn"
    Steps,        \* tokens a turn may use
    Unseen,       \* parent tokens a forked log may not show
    PartialFiles, \* copies that lack the head or the tail of the log are imported too
    MaxInherited, \* bound on inherited snapshots
    MaxSnapshots, \* bound on the length of the log
    MaxCrashes,   \* bound on crashes
    Missing,      \* a counter that is not reported
    NoUsage       \* no counters at all: a nil baseline or last usage

ASSUME CodexAssumption ==
    /\ Total \in Counters
    /\ PartOf \subseteq (Counters \ {Total}) \X Counters
    /\ \A shape \in Shapes :
          shape.counters \subseteq Counters /\ shape.last \in BOOLEAN
    /\ Kinds \subseteq {"root", "fork", "spawn"}
    /\ Steps \subseteq Nat
    /\ Unseen \subseteq Nat
    /\ PartialFiles \in BOOLEAN
    /\ {MaxInherited, MaxSnapshots, MaxCrashes} \subseteq Nat
    /\ Missing \notin Nat
    /\ NoUsage \notin [Counters -> Nat \cup {Missing}]

VARIABLES
    \* the agent
    kind,         \* what kind of session this is
    created,      \* inherited snapshots at the head of the log
    dated,        \* the child's creation time is in its metadata
    meter,        \* the agent's counter of all tokens
    log,          \* snapshots written so far
    \* the ledger
    rows,         \* snapshots stored as raw events
    calls,        \* snapshots whose interval is stored as a model call
    usage,        \* tokens of all stored model calls
    \* the import
    pc,           \* "idle", "reading" or "recording"
    position,     \* snapshot that is read next
    previous,     \* counters the next interval starts from
    previousAt,   \* their time
    childStarted, \* a child's own first snapshot was seen
    delta,        \* tokens of the interval being recorded
    outcome,      \* how the last import ended
    covered,      \* lines in the log when an import last came to its end
    crashes

agentVars == <<kind, created, dated, meter, log>>
ledgerVars == <<rows, calls, usage>>
importVars == <<pc, position, previous, previousAt, childStarted, delta, outcome>>
vars == <<agentVars, ledgerVars, importVars, covered, crashes>>

-----------------------------------------------------------------------------
(* The agent.  used is what the session itself had consumed when it wrote  *)
(* the snapshot; no import can see it.                                     *)

Child == kind # "root"

\* A part that is reported runs ahead of its whole: the agent may report such
\* contradictions.
Amount(c, n) == IF \E pair \in PartOf : pair[1] = c THEN n + 1 ELSE n

Report(n, shape) ==
    [c \in Counters |-> IF c \in shape.counters THEN Amount(c, n) ELSE Missing]

UsedAt(k) == IF k = 0 THEN 0 ELSE log[k].used

\* One more turn.  The counter goes on from where it was, or starts again.
WriteSnapshot(tokens, shape, reset) ==
    LET own == Len(log) >= created
        fresh == reset \/ (kind = "spawn" /\ Len(log) = created)
        n == (IF fresh THEN 0 ELSE meter) + tokens
    IN  /\ Len(log) < MaxSnapshots
        /\ meter' = n
        /\ log' = Append(log, [usage |-> Report(n, shape),
                               last |-> IF shape.last THEN Report(tokens, shape)
                                        ELSE NoUsage,
                               used |-> UsedAt(Len(log)) + IF own THEN tokens ELSE 0])
        /\ UNCHANGED <<kind, created, dated, ledgerVars, importVars, covered, crashes>>

-----------------------------------------------------------------------------
(* What the importer computes.                                             *)

\* The counters of an interval: those reported at both of its ends, or at its
\* end when there is no baseline.
Measured(current, before) ==
    {c \in Counters : /\ current[c] # Missing
                      /\ before # NoUsage => before[c] # Missing}

IntervalOf(current, before, c) ==
    current[c] - (IF before = NoUsage THEN 0 ELSE before[c])

\* difference: the second result.  A counter that went back, a part larger
\* than its whole or an interval without change is of no use.
Usable(current, before) ==
    LET measured == Measured(current, before)
    IN  /\ measured # {}
        /\ before # NoUsage =>
              /\ \A c \in measured : current[c] >= before[c]
              /\ \E c \in measured : current[c] # before[c]
        /\ \A pair \in PartOf : {pair[1], pair[2]} \subseteq measured =>
              IntervalOf(current, before, pair[1]) <= IntervalOf(current, before, pair[2])

\* sameCounters: the last turn's usage is all there is.
SameCounters(snapshot) ==
    /\ snapshot.last # NoUsage
    /\ \A c \in Counters :
          snapshot.usage[c] # Missing => snapshot.last[c] = snapshot.usage[c]

\* ModelCallImportCheckpoint: the latest snapshot with a model call, 0 if none.
Checkpoint == IF calls = {} THEN 0 ELSE Max(calls)

Current == log[position]
HasTotal == Current.usage[Total] # Missing

\* Mutant: the snapshot at the creation time counts as the child's own.
InheritedBefore == Child /\ (~ dated \/ position < created)

\* Inherited history belongs to the parent; without a creation time all of a
\* child's history may be inherited.
Inherited == Child /\ (~ dated \/ position <= created)

FirstOfChild == Child /\ ~ Inherited /\ ~ childStarted

\* The inherited total, emitted once more.
RepeatsInherited ==
    /\ FirstOfChild
    /\ previous # NoUsage
    /\ Current.usage[Total] = previous[Total]

\* No baseline is known for a child's first snapshot of its own: the ledger
\* may have one.
NeedsCheckpoint ==
    /\ FirstOfChild
    /\ ~ SameCounters(Current)
    /\ previous = NoUsage

Baseline ==
    IF FirstOfChild /\ SameCounters(Current) THEN NoUsage
    ELSE IF NeedsCheckpoint THEN log[Checkpoint].usage
    ELSE previous

BaselineAt == IF NeedsCheckpoint THEN Checkpoint ELSE previousAt

\* A snapshot that gets as far as difference.
Measurable ==
    /\ HasTotal
    /\ ~ Inherited
    /\ ~ RepeatsInherited
    /\ NeedsCheckpoint => Checkpoint # 0 /\ position > Checkpoint

\* Mutant: the baseline of this file is taken, whatever is stored.
BaselineOfFile == Baseline

\* persist measures the interval again from the checkpoint when that is later
\* than the baseline.
StoredBaseline ==
    IF Checkpoint > BaselineAt THEN log[Checkpoint].usage ELSE Baseline

-----------------------------------------------------------------------------
(* Importing.                                                              *)

\* The file begins at the first line, a partial copy at any later one.
BeginImport(start) ==
    /\ pc = "idle"
    /\ start \in 1..Len(log)
    /\ start > 1 => PartialFiles
    /\ pc' = "reading"
    /\ position' = start
    /\ previous' = NoUsage
    /\ previousAt' = 0
    /\ childStarted' = FALSE
    /\ delta' = 0
    /\ outcome' = "none"
    /\ UNCHANGED <<agentVars, ledgerVars, covered, crashes>>

Reading == pc = "reading" /\ position <= Len(log)

\* On to the next line, with this snapshot as the baseline.
Rebase ==
    /\ position' = position + 1
    /\ previous' = Current.usage
    /\ previousAt' = position

End(result) ==
    /\ pc' = "idle"
    /\ position' = 0
    /\ previous' = NoUsage
    /\ previousAt' = 0
    /\ childStarted' = FALSE
    /\ delta' = 0
    /\ outcome' = result

SkipWithoutTotal ==
    /\ Reading
    /\ ~ HasTotal
    /\ position' = position + 1
    /\ UNCHANGED <<agentVars, ledgerVars, pc, previous, previousAt, childStarted,
                   delta, outcome, covered, crashes>>

SkipInherited ==
    /\ Reading
    /\ HasTotal
    /\ Inherited \/ RepeatsInherited
    /\ Rebase
    /\ UNCHANGED <<agentVars, ledgerVars, pc, childStarted, delta, outcome, covered,
                   crashes>>

\* Already imported, or no baseline anywhere: only the next interval can count.
SkipChildBaseline ==
    /\ Reading
    /\ HasTotal
    /\ NeedsCheckpoint
    /\ position \in calls \/ Checkpoint = 0
    /\ Rebase
    /\ childStarted' = TRUE
    /\ UNCHANGED <<agentVars, ledgerVars, pc, delta, outcome, covered, crashes>>

FailChildOverlap ==
    /\ Reading
    /\ HasTotal
    /\ NeedsCheckpoint
    /\ position \notin calls
    /\ Checkpoint # 0
    /\ position <= Checkpoint
    /\ End("failed")
    /\ UNCHANGED <<agentVars, ledgerVars, covered, crashes>>

SkipUnusable ==
    /\ Reading
    /\ Measurable
    /\ ~ Usable(Current.usage, Baseline)
    /\ Rebase
    /\ childStarted' = Child
    /\ UNCHANGED <<agentVars, ledgerVars, pc, delta, outcome, covered, crashes>>

\* Mutant: a stored raw event is taken for a finished import.
SkipStored ==
    /\ Reading
    /\ Measurable
    /\ Usable(Current.usage, Baseline)
    /\ position \in rows
    /\ Rebase
    /\ childStarted' = Child
    /\ UNCHANGED <<agentVars, ledgerVars, pc, delta, outcome, covered, crashes>>

SkipDuplicate ==
    /\ Reading
    /\ Measurable
    /\ Usable(Current.usage, Baseline)
    /\ position \in calls
    /\ Rebase
    /\ childStarted' = Child
    /\ UNCHANGED <<agentVars, ledgerVars, pc, delta, outcome, covered, crashes>>

\* Mutant: overlaps are looked for before duplicates.
FailOverlapFirst ==
    /\ Reading
    /\ Measurable
    /\ Usable(Current.usage, Baseline)
    /\ \/ position <= Checkpoint
       \/ ~ Usable(Current.usage, StoredBaseline)
    /\ End("failed")
    /\ UNCHANGED <<agentVars, ledgerVars, covered, crashes>>

FailOverlap ==
    /\ Reading
    /\ Measurable
    /\ Usable(Current.usage, Baseline)
    /\ position \notin calls
    /\ \/ position <= Checkpoint
       \/ ~ Usable(Current.usage, StoredBaseline)
    /\ End("failed")
    /\ UNCHANGED <<agentVars, ledgerVars, covered, crashes>>

\* Mutant: the checkpoint is not consulted.
AppendUnchecked ==
    /\ Reading
    /\ Measurable
    /\ Usable(Current.usage, Baseline)
    /\ rows' = rows \union {position}
    /\ delta' = IntervalOf(Current.usage, Baseline, Total)
    /\ Rebase
    /\ childStarted' = Child
    /\ pc' = "recording"
    /\ UNCHANGED <<agentVars, calls, usage, outcome, covered, crashes>>

\* The snapshot is new, or was stored by an import that died before it could
\* record the call.
AppendRawEvent ==
    /\ Reading
    /\ Measurable
    /\ Usable(Current.usage, Baseline)
    /\ position \notin calls
    /\ position > Checkpoint
    /\ Usable(Current.usage, StoredBaseline)
    /\ rows' = rows \union {position}
    /\ delta' = IntervalOf(Current.usage, StoredBaseline, Total)
    /\ Rebase
    /\ childStarted' = Child
    /\ pc' = "recording"
    /\ UNCHANGED <<agentVars, calls, usage, outcome, covered, crashes>>

RecordModelCall ==
    /\ pc = "recording"
    /\ calls' = calls \union {previousAt}
    /\ usage' = usage + delta
    /\ delta' = 0
    /\ pc' = "reading"
    /\ UNCHANGED <<agentVars, rows, position, previous, previousAt, childStarted,
                   outcome, covered, crashes>>

\* The end of what the agent has written out, perhaps in mid-line.
EndOfFile ==
    /\ pc = "reading"
    /\ position > Len(log)
    /\ End("complete")
    /\ covered' = Len(log)
    /\ UNCHANGED <<agentVars, ledgerVars, crashes>>

\* A copy lacks what follows.
EndOfCopy ==
    /\ Reading
    /\ PartialFiles
    /\ End("complete")
    /\ UNCHANGED <<agentVars, ledgerVars, covered, crashes>>

Crash ==
    /\ pc # "idle"
    /\ crashes < MaxCrashes
    /\ crashes' = crashes + 1
    /\ End("none")
    /\ UNCHANGED <<agentVars, ledgerVars, covered>>

-----------------------------------------------------------------------------
Init ==
    /\ kind \in Kinds
    /\ created \in (IF kind = "root" THEN {0} ELSE 0..MaxInherited)
    /\ dated \in (IF kind = "root" THEN {TRUE} ELSE BOOLEAN)
    /\ meter \in (IF kind = "fork" /\ created = 0 THEN Unseen ELSE {0})
    /\ log = <<>>
    /\ rows = {}
    /\ calls = {}
    /\ usage = 0
    /\ pc = "idle"
    /\ position = 0
    /\ previous = NoUsage
    /\ previousAt = 0
    /\ childStarted = FALSE
    /\ delta = 0
    /\ outcome = "none"
    /\ covered = 0
    /\ crashes = 0

Step ==
    \/ SkipWithoutTotal
    \/ SkipInherited
    \/ SkipChildBaseline
    \/ FailChildOverlap
    \/ SkipUnusable
    \/ SkipDuplicate
    \/ FailOverlap
    \/ AppendRawEvent
    \/ RecordModelCall
    \/ EndOfFile

Next ==
    \/ \E tokens \in Steps, shape \in Shapes, reset \in BOOLEAN :
          WriteSnapshot(tokens, shape, reset)
    \/ \E start \in 1..MaxSnapshots : BeginImport(start)
    \/ Step
    \/ EndOfCopy
    \/ Crash

Spec == Init /\ [][Next]_vars

\* A running import goes on to its end, and the user imports again and again.
FairSpec ==
    /\ Spec
    /\ WF_vars(Step)
    /\ WF_vars(BeginImport(1))

=============================================================================
