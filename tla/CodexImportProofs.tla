-------------------------- MODULE CodexImportProofs --------------------------
(***************************************************************************)
(* No import counts too much: for any counters and shapes of snapshots, a  *)
(* log of any length, any copies and any crashes.                          *)
(*                                                                         *)
(* Between two snapshots of the session's own, the agent's counter rises   *)
(* by at most what the session has used in between: a reset only makes it  *)
(* smaller (LogOK).  So an interval counts no more than was used since its *)
(* baseline.  What was counted before is at most what had been used at the *)
(* checkpoint; and AppendRawEvent measures from the later one of the two,  *)
(* so that no part of an interval was counted before (ImportOK).           *)
(*                                                                         *)
(* A regular session without inherited history is counted to the token: a  *)
(* snapshot with a total shows the whole meter, so the interval to the     *)
(* snapshot it records is all that was used (Exactly).                     *)
(*                                                                         *)
(* Which snapshots an import counts is decided by the log alone (Counts).  *)
(* Every import of the whole log finds the same ones, so that the second   *)
(* one has nothing to record (WholeInv).                                   *)
(***************************************************************************)
EXTENDS CodexImportProperties, SequenceTheorems, TLAPS

Readings == [Counters -> Nat \cup {Missing}]

Snapshot == [usage : Readings, last : Readings \cup {NoUsage}, used : Nat]

UsedIn(l, k) == IF k = 0 THEN 0 ELSE l[k].used

Reports(l, k) == l[k].usage[Total] # Missing

TotalIn(l, k) == l[k].usage[Total]

\* From snapshot i of its own on, or from the last it has inherited, the meter rises by no more
\* than the session uses.
LogOK(l, m, first) ==
    /\ l \in Seq(Snapshot) /\ m \in Nat /\ first \in Nat
    /\ \A i \in 1..Len(l) :
          first <= i /\ Reports(l, i) =>
              m + UsedIn(l, i) <= UsedIn(l, Len(l)) + TotalIn(l, i)
    /\ \A i, j \in 1..Len(l) :
          first <= i /\ i < j /\ Reports(l, i) /\ Reports(l, j) =>
              TotalIn(l, j) + UsedIn(l, i) <= UsedIn(l, j) + TotalIn(l, i)
    /\ \A i, j \in 1..Len(l) : i <= j => UsedIn(l, i) <= UsedIn(l, j)
    /\ \A j \in 1..Len(l) :
          first < j /\ l[j].last # NoUsage /\ l[j].last[Total] # Missing =>
              l[j].last[Total] + UsedIn(l, j - 1) <= UsedIn(l, j)

\* The meter of a session without a parent starts from nothing.
FromNothing(l, m) ==
    /\ m <= UsedIn(l, Len(l))
    /\ \A j \in 1..Len(l) : Reports(l, j) => TotalIn(l, j) <= UsedIn(l, j)

AgentOK ==
    /\ LogOK(log, meter, created)
    /\ kind = "root" => created = 0 /\ dated /\ FromNothing(log, meter)

\* A snapshot of the session's own that reports a total.
Countable(k) ==
    /\ k \in 1..Len(log) /\ Reports(log, k)
    /\ created < k /\ (Child => dated)

\* The baseline of a running import is the snapshot it has read last, if that reports a total.
BaselineOK ==
    /\ position \in Nat \ {0} /\ previousAt \in Nat /\ previousAt < position
    /\ previousAt = 0 => previous = NoUsage
    /\ previousAt # 0 => /\ previousAt \in 1..Len(log) /\ Reports(log, previousAt)
                         /\ previous = log[previousAt].usage
    /\ childStarted => previousAt # 0
    /\ InheritedTotalKnown /\ created < position /\ previousAt # 0 => created <= previousAt

ImportOK ==
    /\ \A k \in calls : Countable(k)
    /\ calls # {} => Checkpoint \in calls /\ \A k \in calls : k <= Checkpoint
    /\ usage \in Nat
    /\ pc \in {"idle", "reading", "recording"}
    /\ pc # "idle" => BaselineOK
    /\ pc = "recording" =>
          /\ Countable(previousAt) /\ Checkpoint < previousAt /\ delta \in Nat
          /\ InheritedTotalKnown => usage + delta <= UsedAt(previousAt)
    /\ InheritedTotalKnown => usage <= UsedAt(Checkpoint)

Inv == AgentOK /\ ImportOK

-----------------------------------------------------------------------------

\* The total is no part of another counter, so a report of n says n.
LEMMA ReportOfTotal ==
    ASSUME NEW n \in Nat, NEW shape
    PROVE  /\ Report(n, shape) \in Readings
           /\ Report(n, shape)[Total] \in {n, Missing}
           /\ Report(n, shape) # NoUsage
<1>1. Amount(Total, n) = n /\ Total \in Counters
  BY CodexAssumption DEF Amount
<1>2. \A c \in Counters : Amount(c, n) \in Nat
  BY DEF Amount
<1>3. Report(n, shape) \in Readings
  BY <1>2 DEF Report, Readings
<1> QED  BY <1>1, <1>3, CodexAssumption DEF Report, Readings

\* What a snapshot in the log says.
LEMMA InLog ==
    ASSUME NEW l \in Seq(Snapshot), NEW k \in 1..Len(l)
    PROVE  /\ l[k].used \in Nat
           /\ l[k].usage \in Readings /\ l[k].usage # NoUsage
           /\ Reports(l, k) => TotalIn(l, k) \in Nat
<1>1. l[k] \in Snapshot
  OBVIOUS
<1>2. l[k].used \in Nat /\ l[k].usage \in Readings
  BY <1>1 DEF Snapshot
<1> HIDE DEF Snapshot
<1>3. Total \in Counters /\ NoUsage \notin Readings
  BY CodexAssumption DEF Readings
<1>4. TotalIn(l, k) \in Nat \cup {Missing}
  BY <1>2, <1>3 DEF TotalIn, Readings
<1> QED  BY <1>2, <1>3, <1>4 DEF Reports, TotalIn

\* What a snapshot at the end of the log leaves alone, and what it adds.
Extends(l, s, new) ==
    /\ new \in Seq(Snapshot) /\ Len(l) \in Nat /\ Len(new) = Len(l) + 1
    /\ \A k \in 1..Len(l) : new[k] = l[k]
    /\ new[Len(l) + 1] = s
    /\ \A k \in 0..Len(l) : UsedIn(new, k) = UsedIn(l, k) /\ UsedIn(l, k) \in Nat
    /\ UsedIn(new, Len(l) + 1) = s.used
    /\ \A k \in 1..Len(l) : /\ Reports(new, k) <=> Reports(l, k)
                            /\ TotalIn(new, k) = TotalIn(l, k)

LEMMA Appended ==
    ASSUME NEW l \in Seq(Snapshot), NEW s \in Snapshot, NEW new, new = Append(l, s)
    PROVE  Extends(l, s, new)
<1>1. /\ new \in Seq(Snapshot) /\ Len(l) \in Nat /\ Len(new) = Len(l) + 1
      /\ \A k \in 1..Len(l) : new[k] = l[k]
      /\ new[Len(l) + 1] = s
  OBVIOUS
<1>2. \A k \in 1..Len(l) : l[k].used \in Nat
  BY InLog
<1>3. /\ \A k \in 0..Len(l) : UsedIn(new, k) = UsedIn(l, k) /\ UsedIn(l, k) \in Nat
      /\ UsedIn(new, Len(l) + 1) = s.used
  BY <1>1, <1>2 DEF UsedIn
<1>4. \A k \in 1..Len(l) : (Reports(new, k) <=> Reports(l, k)) /\ TotalIn(new, k) = TotalIn(l, k)
  BY <1>1 DEF Reports, TotalIn
<1> QED  BY <1>1, <1>3, <1>4 DEF Extends

\* One more turn: the meter goes on or starts again, and a turn of its own counts as used.
LEMMA TurnKeepsLog ==
    ASSUME NEW l, NEW m, NEW first, LogOK(l, m, first), NEW tokens \in Nat, NEW n \in Nat,
           n <= m + tokens, NEW s \in Snapshot,
           s.usage[Total] \in {n, Missing},
           s.last # NoUsage => s.last[Total] \in {tokens, Missing},
           s.used = UsedIn(l, Len(l)) + IF Len(l) >= first THEN tokens ELSE 0
    PROVE  LogOK(Append(l, s), n, first)
<1> DEFINE new == Append(l, s)
           k   == Len(l) + 1
<1>1. /\ new \in Seq(Snapshot) /\ Len(l) \in Nat /\ Len(new) = k
      /\ new[k] = s /\ \A i \in 1..Len(l) : new[i] = l[i]
      /\ \A i \in 0..Len(l) : UsedIn(new, i) = UsedIn(l, i) /\ UsedIn(l, i) \in Nat
      /\ UsedIn(new, k) = s.used
      /\ \A i \in 1..Len(l) : (Reports(new, i) <=> Reports(l, i)) /\ TotalIn(new, i) = TotalIn(l, i)
  BY Appended DEF LogOK, Extends
<1>2. /\ TotalIn(new, k) \in {n, Missing} /\ (Reports(new, k) => TotalIn(new, k) = n)
  BY <1>1 DEF TotalIn, Reports
<1>3. \A i \in 1..Len(l) : Reports(l, i) => TotalIn(l, i) \in Nat
  BY InLog DEF LogOK
<1>4. m \in Nat /\ first \in Nat
  BY DEF LogOK
<1> HIDE DEF new
<1>5. s.used >= UsedIn(l, Len(l)) /\ (first <= Len(l) => s.used = UsedIn(l, Len(l)) + tokens)
      /\ s.used \in Nat /\ UsedIn(l, Len(l)) \in Nat
  BY <1>1, <1>4
<1>6. \A i \in 1..Len(l) : first <= i /\ Reports(l, i) =>
          n + UsedIn(l, i) <= s.used + TotalIn(l, i)
  <2> TAKE i \in 1..Len(l)
  <2> HAVE first <= i /\ Reports(l, i)
  <2>1. m + UsedIn(l, i) <= UsedIn(l, Len(l)) + TotalIn(l, i)
    BY DEF LogOK
  <2>2. UsedIn(l, i) \in Nat /\ TotalIn(l, i) \in Nat /\ first <= Len(l)
    BY <1>1, <1>3, <1>4
  <2> QED  BY <1>4, <1>5, <2>1, <2>2
<1>7. \A i \in 1..Len(new) : first <= i /\ Reports(new, i) =>
          n + UsedIn(new, i) <= UsedIn(new, Len(new)) + TotalIn(new, i)
  <2> TAKE i \in 1..Len(new)
  <2> HAVE first <= i /\ Reports(new, i)
  <2>1. CASE i = k
    BY <1>1, <1>2, <1>5, <2>1
  <2>2. CASE i # k
    BY <1>1, <1>6, <2>2
  <2> QED  BY <2>1, <2>2
<1>8. \A i, j \in 1..Len(new) :
          first <= i /\ i < j /\ Reports(new, i) /\ Reports(new, j) =>
              TotalIn(new, j) + UsedIn(new, i) <= UsedIn(new, j) + TotalIn(new, i)
  <2> TAKE i, j \in 1..Len(new)
  <2> HAVE first <= i /\ i < j /\ Reports(new, i) /\ Reports(new, j)
  <2>1. CASE j = k
    <3>1. i \in 1..Len(l) /\ Reports(l, i) /\ TotalIn(new, j) = n
      BY <1>1, <1>2, <2>1
    <3> QED  BY <1>1, <1>6, <2>1, <3>1
  <2>2. CASE j # k
    <3>1. i \in 1..Len(l) /\ j \in 1..Len(l) /\ Reports(l, i) /\ Reports(l, j)
      BY <1>1, <2>2
    <3>2. TotalIn(l, j) + UsedIn(l, i) <= UsedIn(l, j) + TotalIn(l, i)
      BY <3>1 DEF LogOK
    <3> QED  BY <1>1, <3>1, <3>2
  <2> QED  BY <2>1, <2>2
<1>9. \A i, j \in 1..Len(new) : i <= j => UsedIn(new, i) <= UsedIn(new, j)
  <2> TAKE i, j \in 1..Len(new)
  <2> HAVE i <= j
  <2>1. CASE i = k
    BY <1>1, <1>5, <2>1
  <2>2. CASE i # k /\ j = k
    <3>1. i \in 1..Len(l) /\ Len(l) \in 1..Len(l)
      BY <1>1, <2>2
    <3>2. UsedIn(l, i) <= UsedIn(l, Len(l))
      BY <1>1, <3>1 DEF LogOK
    <3> QED  BY <1>1, <1>5, <2>2, <3>1, <3>2
  <2>3. CASE i # k /\ j # k
    <3>1. i \in 1..Len(l) /\ j \in 1..Len(l)
      BY <1>1, <2>3
    <3>2. UsedIn(l, i) <= UsedIn(l, j)
      BY <3>1 DEF LogOK
    <3> QED  BY <1>1, <3>1, <3>2
  <2> QED  BY <2>1, <2>2, <2>3
<1>10. \A j \in 1..Len(new) :
          first < j /\ new[j].last # NoUsage /\ new[j].last[Total] # Missing =>
              new[j].last[Total] + UsedIn(new, j - 1) <= UsedIn(new, j)
  <2> TAKE j \in 1..Len(new)
  <2> HAVE first < j /\ new[j].last # NoUsage /\ new[j].last[Total] # Missing
  <2>1. CASE j = k
    <3>1. s.last[Total] = tokens /\ first <= Len(l) /\ j - 1 = Len(l)
      BY <1>1, <1>4, <2>1
    <3> QED  BY <1>1, <1>5, <2>1, <3>1
  <2>2. CASE j # k
    <3>1. j \in 1..Len(l) /\ j - 1 \in 0..Len(l) /\ j \in 0..Len(l)
      BY <1>1, <2>2
    <3>2. l[j].last[Total] + UsedIn(l, j - 1) <= UsedIn(l, j)
      BY <1>1, <3>1 DEF LogOK
    <3> QED  BY <1>1, <3>1, <3>2
  <2> QED  BY <2>1, <2>2
<1>11. LogOK(new, n, first)
  BY <1>1, <1>4, <1>7, <1>8, <1>9, <1>10 DEF LogOK
<1> QED  BY <1>11 DEF new

-----------------------------------------------------------------------------

\* The agent goes on writing while an import reads: what is in the log stays as it is.
LEMMA WriteKeepsInv ==
    ASSUME Inv, NEW tokens \in Steps, NEW shape \in Shapes, NEW reset \in BOOLEAN,
           WriteSnapshot(tokens, shape, reset)
    PROVE  Inv'
<1> DEFINE own   == Len(log) >= created
           fresh == reset \/ (kind = "spawn" /\ Len(log) = created)
           n     == (IF fresh THEN 0 ELSE meter) + tokens
           s     == [usage |-> Report(n, shape),
                     last |-> IF shape.last THEN Report(tokens, shape) ELSE NoUsage,
                     used |-> UsedIn(log, Len(log)) + IF own THEN tokens ELSE 0]
<1>1. /\ meter' = n /\ log' = Append(log, s)
      /\ UNCHANGED <<kind, created, dated, ledgerVars, importVars>>
  BY DEF WriteSnapshot, UsedAt, UsedIn
<1>2. /\ log \in Seq(Snapshot) /\ meter \in Nat /\ created \in Nat /\ tokens \in Nat
      /\ Len(log) \in Nat
  BY CodexAssumption DEF Inv, AgentOK, LogOK
<1>3. n \in Nat /\ n <= meter + tokens
  BY <1>2
<1>4. /\ UsedIn(log, Len(log)) \in Nat
  BY <1>2, InLog DEF UsedIn
<1>5. /\ s.usage = Report(n, shape) /\ s.last \in {Report(tokens, shape), NoUsage}
      /\ s.used = UsedIn(log, Len(log)) + IF own THEN tokens ELSE 0
  OBVIOUS
<1>6. s \in Snapshot
  <2>1. Report(n, shape) \in Readings /\ Report(tokens, shape) \in Readings
    BY <1>2, <1>3, ReportOfTotal
  <2> HIDE DEF n
  <2> QED  BY <1>2, <1>4, <2>1 DEF Snapshot
<1>7. /\ s.usage[Total] \in {n, Missing}
      /\ s.last # NoUsage => s.last[Total] \in {tokens, Missing}
  <2> HIDE DEF s, n
  <2> QED  BY <1>2, <1>3, <1>5, ReportOfTotal
<1> HIDE DEF s, n
<1>8. LogOK(log', meter', created')
  BY <1>1, <1>2, <1>3, <1>5, <1>6, <1>7, TurnKeepsLog DEF Inv, AgentOK
<1>9. /\ Len(log') = Len(log) + 1
      /\ \A k \in 1..Len(log) : log'[k] = log[k]
      /\ log'[Len(log) + 1] = s
      /\ \A k \in 0..Len(log) : UsedIn(log', k) = UsedIn(log, k)
      /\ UsedIn(log', Len(log) + 1) = s.used
      /\ \A k \in 1..Len(log) : /\ Reports(log', k) <=> Reports(log, k)
                                /\ TotalIn(log', k) = TotalIn(log, k)
  <2>1. \A l \in Seq(Snapshot), r \in Snapshot : Extends(l, r, Append(l, r))
    BY Appended
  <2>2. Extends(log, s, log')
    BY <1>1, <1>2, <1>6, <2>1
  <2> QED  BY <2>2 DEF Extends
<1>10. kind' = "root" => created' = 0 /\ dated' /\ FromNothing(log', meter')
  <2> SUFFICES ASSUME kind = "root" PROVE created = 0 /\ dated /\ FromNothing(log', meter')
    BY <1>1
  <2>1. created = 0 /\ dated /\ FromNothing(log, meter)
    BY DEF Inv, AgentOK
  <2>2. s.used = UsedIn(log, Len(log)) + tokens
    BY <1>2, <1>5, <2>1
  <2>3. meter' <= UsedIn(log', Len(log'))
    BY <1>1, <1>2, <1>3, <1>4, <1>9, <2>1, <2>2 DEF FromNothing
  <2>4. \A j \in 1..Len(log') : Reports(log', j) => TotalIn(log', j) <= UsedIn(log', j)
    <3> TAKE j \in 1..Len(log')
    <3> HAVE Reports(log', j)
    <3>1. CASE j = Len(log) + 1
      <4>1. TotalIn(log', j) = n
        BY <1>7, <1>9, <3>1 DEF Reports, TotalIn
      <4> QED  BY <1>1, <1>9, <2>3, <3>1, <4>1
    <3>2. CASE j # Len(log) + 1
      BY <1>2, <1>9, <2>1, <3>2 DEF FromNothing
    <3> QED  BY <3>1, <3>2
  <2> QED  BY <2>1, <2>3, <2>4 DEF FromNothing
<1>11. InheritedTotalKnown' => InheritedTotalKnown
  BY <1>1, <1>2, <1>9 DEF InheritedTotalKnown
<1>12. \A k : Countable(k) => Countable(k)'
  BY <1>1, <1>2, <1>9 DEF Countable, Child
<1>13. \A k \in 0..Len(log) : UsedAt(k)' = UsedAt(k)
  BY <1>9 DEF UsedAt, UsedIn
<1>14. Checkpoint' = Checkpoint
  BY <1>1 DEF Checkpoint, ledgerVars
<1>15. Checkpoint \in 0..Len(log)
  BY <1>2 DEF Inv, ImportOK, Countable, Checkpoint
<1>16. BaselineOK => BaselineOK'
  BY <1>1, <1>2, <1>9, <1>11 DEF BaselineOK, importVars
<1>17. pc = "recording" => previousAt \in 0..Len(log)
  BY <1>2 DEF Inv, ImportOK, Countable
<1>18. ImportOK'
  <2>1. UNCHANGED <<calls, usage, pc, previousAt, delta>>
    BY <1>1 DEF ledgerVars, importVars
  <2> QED  BY <2>1, <1>11, <1>12, <1>13, <1>14, <1>15, <1>16, <1>17 DEF Inv, ImportOK
<1> QED  BY <1>8, <1>10, <1>18 DEF Inv, AgentOK

\* The length of the log is a number, and a running import's position is in it while it reads.
LEMMA Lengths ==
    ASSUME Inv
    PROVE  /\ log \in Seq(Snapshot) /\ Len(log) \in Nat /\ created \in Nat
           /\ Checkpoint \in 0..Len(log)
           /\ Checkpoint # 0 => Checkpoint \in calls
           /\ Reading => position \in 1..Len(log) /\ BaselineOK
<1>1. log \in Seq(Snapshot) /\ Len(log) \in Nat /\ created \in Nat
  BY DEF Inv, AgentOK, LogOK
<1>2. Checkpoint \in 0..Len(log) /\ (Checkpoint # 0 => Checkpoint \in calls)
  BY <1>1 DEF Inv, ImportOK, Countable, Checkpoint
<1>3. Reading => position \in 1..Len(log) /\ BaselineOK
  BY <1>1 DEF Inv, ImportOK, Reading, BaselineOK
<1> QED  BY <1>1, <1>2, <1>3

\* Without a new snapshot or a new call, only the baseline needs looking at.
LEMMA ReadingOn ==
    ASSUME Inv, UNCHANGED <<agentVars, ledgerVars>>,
           \/ pc' = "idle"
           \/ pc' = "reading" /\ BaselineOK'
    PROVE  Inv'
<1>1. UNCHANGED <<kind, created, dated, meter, log, calls, usage>>
  BY DEF agentVars, ledgerVars
<1>2. AgentOK'
  BY <1>1 DEF Inv, AgentOK
<1>3. /\ Checkpoint' = Checkpoint /\ (InheritedTotalKnown' <=> InheritedTotalKnown)
      /\ \A k : Countable(k)' <=> Countable(k)
      /\ \A k : UsedAt(k)' = UsedAt(k)
  BY <1>1 DEF Checkpoint, InheritedTotalKnown, Countable, Child, UsedAt
<1>4. ImportOK'
  BY <1>1, <1>3 DEF Inv, ImportOK
<1> QED  BY <1>2, <1>4 DEF Inv

\* The snapshot that was read becomes the baseline.
LEMMA Rebased ==
    ASSUME Inv, Reading, HasTotal, Rebase, UNCHANGED agentVars
    PROVE  BaselineOK'
<1>1. UNCHANGED <<created, log>>
  BY DEF agentVars
<1>2. position \in 1..Len(log) /\ Len(log) \in Nat /\ created \in Nat
  BY Lengths
<1>3. /\ position' = position + 1 /\ previousAt' = position
      /\ previous' = log[position].usage /\ Reports(log, position)
  BY DEF Rebase, HasTotal, Current, Reports
<1> QED  BY <1>1, <1>2, <1>3 DEF BaselineOK

\* The lines that store nothing.
LEMMA SkipsKeepInv ==
    ASSUME Inv,
           \/ \E start \in 1..MaxSnapshots : BeginImport(start)
           \/ SkipWithoutTotal \/ SkipInherited \/ SkipChildBaseline \/ FailChildOverlap
           \/ SkipUnusable \/ SkipDuplicate \/ FailOverlap
           \/ EndOfFile \/ EndOfCopy \/ Crash
    PROVE  Inv'
<1>1. UNCHANGED <<agentVars, ledgerVars>>
  BY DEF BeginImport, SkipWithoutTotal, SkipInherited, SkipChildBaseline, FailChildOverlap,
         SkipUnusable, SkipDuplicate, FailOverlap, EndOfFile, EndOfCopy, Crash, agentVars,
         ledgerVars
<1>2. CASE FailChildOverlap \/ FailOverlap \/ EndOfFile \/ EndOfCopy \/ Crash
  <2>1. pc' = "idle"
    BY <1>2 DEF FailChildOverlap, FailOverlap, EndOfFile, EndOfCopy, Crash, End
  <2> QED  BY <1>1, <2>1, ReadingOn
<1>3. CASE \E start \in 1..MaxSnapshots : BeginImport(start)
  <2>1. /\ pc' = "reading" /\ position' \in Nat \ {0} /\ previousAt' = 0
        /\ previous' = NoUsage /\ childStarted' = FALSE
    BY <1>3, CodexAssumption DEF BeginImport
  <2>2. BaselineOK'
    BY <2>1 DEF BaselineOK
  <2> QED  BY <1>1, <2>1, <2>2, ReadingOn
<1>4. CASE SkipInherited \/ SkipChildBaseline \/ SkipUnusable \/ SkipDuplicate
  <2>1. Reading /\ HasTotal /\ Rebase /\ pc' = "reading"
    BY <1>4 DEF SkipInherited, SkipChildBaseline, SkipUnusable, SkipDuplicate, Reading, Measurable
  <2> QED  BY <1>1, <2>1, Rebased, ReadingOn
<1>5. CASE SkipWithoutTotal
  <2>1. /\ Reading /\ pc' = "reading" /\ ~ Reports(log, position)
        /\ position' = position + 1
        /\ UNCHANGED <<created, log, previous, previousAt, childStarted>>
    BY <1>5 DEF SkipWithoutTotal, Reading, HasTotal, Current, Reports, agentVars
  <2>2. position \in 1..Len(log) /\ BaselineOK /\ Len(log) \in Nat /\ created \in Nat
    BY <2>1, Lengths
  <2>3. InheritedTotalKnown' <=> InheritedTotalKnown
    BY <2>1 DEF InheritedTotalKnown
  <2>4. InheritedTotalKnown => position # created
    BY <2>1, <2>2 DEF InheritedTotalKnown, Reports
  <2>5. BaselineOK'
    BY <2>1, <2>2, <2>3, <2>4 DEF BaselineOK
  <2> QED  BY <1>1, <2>1, <2>5, ReadingOn
<1> QED  BY <1>2, <1>3, <1>4, <1>5

-----------------------------------------------------------------------------

\* An interval between two snapshots that report a total counts no more than was used in it.
LEMMA IntervalIsUsed ==
    ASSUME Inv, NEW i \in 1..Len(log), NEW j \in 1..Len(log), i < j, created <= i,
           Reports(log, i), Reports(log, j)
    PROVE  TotalIn(log, j) + UsedIn(log, i) <= UsedIn(log, j) + TotalIn(log, i)
BY DEF Inv, AgentOK, LogOK

\* What is stored for a snapshot: its tokens are a number, and no more than what was used since
\* what has been counted before.
LEMMA StoredInterval ==
    ASSUME Inv, Reading, Measurable, Usable(Current.usage, StoredBaseline), position > Checkpoint
    PROVE  LET d == IntervalOf(Current.usage, StoredBaseline, Total)
           IN  /\ Countable(position)
               /\ d \in Nat
               /\ InheritedTotalKnown => usage + d <= UsedAt(position)
<1> DEFINE d  == IntervalOf(Current.usage, StoredBaseline, Total)
           cp == Checkpoint
           total == TotalIn(log, position)
<1>1. /\ log \in Seq(Snapshot) /\ Len(log) \in Nat /\ created \in Nat
      /\ cp \in 0..Len(log) /\ (cp # 0 => cp \in calls) /\ cp < position
      /\ position \in 1..Len(log) /\ BaselineOK
  BY Lengths
<1>2. Reports(log, position) /\ total \in Nat /\ Current.usage[Total] = total
  BY <1>1, InLog DEF Measurable, HasTotal, Current, Reports, TotalIn
<1>3. Countable(position)
  <2>1. kind = "root" => created = 0
    BY DEF Inv, AgentOK
  <2> QED  BY <1>1, <1>2, <2>1 DEF Measurable, Inherited, Countable, Child
<1>4. /\ \A k \in 1..Len(log) : /\ log[k].usage # NoUsage
                                /\ Reports(log, k) => TotalIn(log, k) \in Nat
      /\ \A k \in 0..Len(log) : UsedAt(k) = UsedIn(log, k) /\ UsedIn(log, k) \in Nat
  BY <1>1, InLog DEF UsedAt, UsedIn
<1>5. usage \in Nat /\ (InheritedTotalKnown => usage <= UsedIn(log, cp))
  BY <1>1, <1>4 DEF Inv, ImportOK
<1>6. ASSUME NEW k \in 1..Len(log), Reports(log, k), StoredBaseline = log[k].usage, k < position,
             InheritedTotalKnown => created <= k /\ cp <= k
      PROVE  d \in Nat /\ (InheritedTotalKnown => usage + d <= UsedIn(log, position))
  <2>1. /\ StoredBaseline # NoUsage /\ StoredBaseline[Total] = TotalIn(log, k)
        /\ TotalIn(log, k) \in Nat /\ TotalIn(log, k) # Missing /\ total # Missing
    BY <1>2, <1>4, <1>6 DEF TotalIn, Reports
  <2>2. Total \in Measured(Current.usage, StoredBaseline)
    BY <1>2, <2>1, CodexAssumption DEF Measured
  <2>3. total >= TotalIn(log, k) /\ d = total - TotalIn(log, k)
    BY <1>2, <2>1, <2>2 DEF Usable, IntervalOf
  <2>4. InheritedTotalKnown => total + UsedIn(log, k) <= UsedIn(log, position) + TotalIn(log, k)
    BY <1>1, <1>2, <1>6, IntervalIsUsed
  <2>5. InheritedTotalKnown => UsedIn(log, cp) <= UsedIn(log, k)
    <3>1. CASE cp = 0
      BY <1>4, <3>1 DEF UsedIn
    <3>2. CASE cp # 0
      BY <1>1, <1>6, <3>2 DEF Inv, AgentOK, LogOK
    <3> QED  BY <3>1, <3>2
  <2>6. /\ UsedIn(log, k) \in Nat /\ UsedIn(log, cp) \in Nat /\ UsedIn(log, position) \in Nat
    BY <1>1, <1>4
  <2> HIDE DEF d, total, cp
  <2> QED  BY <1>2, <1>5, <2>1, <2>3, <2>4, <2>5, <2>6
<1>7. cp # 0 => /\ cp \in 1..Len(log) /\ Reports(log, cp) /\ created <= cp
  <2> HAVE cp # 0
  <2>1. Countable(cp)
    BY <1>1 DEF Inv, ImportOK
  <2> QED  BY <1>1, <2>1 DEF Countable
<1>8. CASE cp # 0 /\ StoredBaseline = log[cp].usage
  BY <1>1, <1>3, <1>4, <1>6, <1>7, <1>8
<1>9. CASE ~(cp # 0 /\ StoredBaseline = log[cp].usage)
  <2>1. ~NeedsCheckpoint /\ cp <= previousAt /\ StoredBaseline = Baseline
    <3>1. ASSUME NeedsCheckpoint PROVE FALSE
      <4>1. cp # 0 /\ Baseline = log[cp].usage /\ StoredBaseline = log[cp].usage
        BY <3>1 DEF Measurable, StoredBaseline, Baseline, NeedsCheckpoint
      <4> QED  BY <1>9, <4>1
    <3>2. BaselineAt = previousAt /\ previousAt \in Nat
      BY <1>1, <3>1 DEF BaselineAt, BaselineOK
    <3>3. ~(cp > previousAt)
      BY <1>1, <1>9, <3>2 DEF StoredBaseline
    <3> QED  BY <1>1, <3>1, <3>2, <3>3 DEF StoredBaseline
  <2>2. CASE FirstOfChild /\ SameCounters(Current)
    <3>1. StoredBaseline = NoUsage
      BY <2>1, <2>2 DEF Baseline
    <3>2. d = total
      BY <1>2, <3>1 DEF IntervalOf
    <3>3. /\ log[position].last # NoUsage
          /\ log[position].last[Total] = total /\ total # Missing
      BY <1>2, <2>2, CodexAssumption DEF SameCounters, Current, Reports, TotalIn
    <3>4. total + UsedIn(log, position - 1) <= UsedIn(log, position)
      BY <1>1, <1>3, <3>3 DEF Inv, AgentOK, LogOK, Countable
    <3>5. UsedIn(log, cp) <= UsedIn(log, position - 1)
      <4>1. CASE cp = 0
        BY <1>1, <1>4, <4>1 DEF UsedIn
      <4>2. CASE cp # 0
        <5>1. cp \in 1..Len(log) /\ position - 1 \in 1..Len(log) /\ cp <= position - 1
          BY <1>1, <4>2
        <5> QED  BY <5>1 DEF Inv, AgentOK, LogOK
      <4> QED  BY <4>1, <4>2
    <3>6. /\ UsedIn(log, position - 1) \in Nat /\ UsedIn(log, cp) \in Nat
          /\ UsedIn(log, position) \in Nat /\ UsedAt(position) = UsedIn(log, position)
      BY <1>1, <1>4
    <3> HIDE DEF d, total, cp
    <3> QED  BY <1>2, <1>3, <1>5, <3>2, <3>4, <3>5, <3>6 DEF d
  <2>3. CASE ~(FirstOfChild /\ SameCounters(Current)) /\ previousAt # 0
    <3>1. StoredBaseline = log[previousAt].usage
      BY <1>1, <2>1, <2>3 DEF Baseline, BaselineOK
    <3>2. /\ previousAt \in 1..Len(log) /\ Reports(log, previousAt) /\ previousAt < position
          /\ InheritedTotalKnown => created <= previousAt
      BY <1>1, <1>3, <2>3 DEF BaselineOK, Countable
    <3> QED  BY <1>1, <1>3, <1>4, <1>6, <2>1, <3>1, <3>2
  <2>4. CASE ~(FirstOfChild /\ SameCounters(Current)) /\ previousAt = 0
    <3>1. StoredBaseline = NoUsage /\ previous = NoUsage /\ ~childStarted /\ cp = 0
      BY <1>1, <2>1, <2>4 DEF Baseline, BaselineOK
    <3>2. kind = "root"
      BY <2>1, <2>4, <3>1 DEF NeedsCheckpoint, FirstOfChild, Measurable, Child
    <3>3. d = total
      BY <1>2, <3>1 DEF IntervalOf
    <3>4. total <= UsedIn(log, position)
      BY <1>1, <1>2, <3>2 DEF Inv, AgentOK, FromNothing
    <3>5. InheritedTotalKnown => usage = 0
      BY <1>5, <3>1 DEF UsedIn
    <3>6. UsedAt(position) = UsedIn(log, position) /\ UsedIn(log, position) \in Nat
      BY <1>1, <1>4
    <3> HIDE DEF d, total
    <3> QED  BY <1>2, <1>3, <3>3, <3>4, <3>5, <3>6 DEF d
  <2> QED  BY <2>2, <2>3, <2>4
<1> QED  BY <1>8, <1>9

LEMMA AppendKeepsInv ==
    ASSUME Inv, AppendRawEvent
    PROVE  Inv'
<1>1. /\ Reading /\ HasTotal /\ Rebase /\ position > Checkpoint /\ pc' = "recording"
      /\ UNCHANGED <<agentVars, calls, usage>>
      /\ delta' = IntervalOf(Current.usage, StoredBaseline, Total)
      /\ previousAt' = position
  BY DEF AppendRawEvent, Measurable, Rebase
<1>2. /\ Countable(position) /\ delta' \in Nat
      /\ InheritedTotalKnown => usage + delta' <= UsedAt(position)
  BY <1>1, StoredInterval DEF AppendRawEvent
<1>3. BaselineOK'
  BY <1>1, Rebased
<1>4. UNCHANGED <<kind, created, dated, meter, log>>
  BY <1>1 DEF agentVars
<1>5. AgentOK'
  BY <1>4 DEF Inv, AgentOK
<1>6. /\ Checkpoint' = Checkpoint /\ (InheritedTotalKnown' <=> InheritedTotalKnown)
      /\ \A k : Countable(k)' <=> Countable(k)
      /\ \A k : UsedAt(k)' = UsedAt(k)
  BY <1>1, <1>4 DEF Checkpoint, InheritedTotalKnown, Countable, Child, UsedAt
<1>7. Countable(previousAt)' /\ (UsedAt(previousAt))' = UsedAt(position)
  BY <1>1, <1>2, <1>4 DEF Countable, Child, UsedAt
<1>8. ImportOK'
  BY <1>1, <1>2, <1>3, <1>6, <1>7 DEF Inv, ImportOK
<1> QED  BY <1>5, <1>8 DEF Inv

\* The new call is the new checkpoint.
LEMMA RecordedCheckpoint ==
    ASSUME Inv, RecordModelCall
    PROVE  Checkpoint' = previousAt
<1>1. /\ calls' = calls \cup {previousAt}
      /\ Countable(previousAt) /\ Checkpoint < previousAt
      /\ \A k \in calls : Countable(k) /\ k <= Checkpoint
  BY DEF RecordModelCall, Inv, ImportOK
<1>2. \A k \in calls' : k <= previousAt
  <2>1. Len(log) \in Nat /\ Checkpoint \in Nat /\ previousAt \in Nat
    BY <1>1, Lengths DEF Countable
  <2>2. \A k \in calls : k \in Nat
    BY <1>1, <2>1 DEF Countable
  <2> QED  BY <1>1, <2>1, <2>2
<1>3. calls' # {} /\ previousAt \in calls' /\ \A k \in calls' : k \in Nat
  BY <1>1, Lengths DEF Countable
<1>4. Max(calls') = previousAt
  BY <1>2, <1>3 DEF Max
<1> QED  BY <1>3, <1>4 DEF Checkpoint

\* Nothing else depends on it.
LEMMA RecordKeepsInv ==
    ASSUME Inv, RecordModelCall
    PROVE  Inv'
<1>1. /\ pc = "recording" /\ calls' = calls \cup {previousAt} /\ usage' = usage + delta
      /\ pc' = "reading"
      /\ UNCHANGED <<agentVars, position, previous, previousAt, childStarted>>
  BY DEF RecordModelCall
<1>2. UNCHANGED <<kind, created, dated, meter, log>>
  BY <1>1 DEF agentVars
<1>3. /\ Countable(previousAt) /\ Checkpoint < previousAt /\ delta \in Nat
      /\ InheritedTotalKnown => usage + delta <= UsedAt(previousAt)
      /\ \A k \in calls : Countable(k) /\ k <= Checkpoint
      /\ usage \in Nat /\ BaselineOK
  BY <1>1 DEF Inv, ImportOK
<1>4. \A k \in calls' : k <= previousAt
  <2>1. Len(log) \in Nat /\ Checkpoint \in Nat /\ previousAt \in Nat
    BY <1>3, Lengths DEF Countable
  <2>2. \A k \in calls : k \in Nat
    BY <1>3, <2>1 DEF Countable
  <2> QED  BY <1>1, <1>3, <2>1, <2>2
<1>5. Checkpoint' = previousAt
  BY RecordedCheckpoint
<1>6. /\ InheritedTotalKnown' <=> InheritedTotalKnown
      /\ \A k : Countable(k)' <=> Countable(k)
      /\ UsedAt(Checkpoint)' = UsedAt(previousAt)
  BY <1>2, <1>5 DEF InheritedTotalKnown, Countable, Child, UsedAt
<1>7. AgentOK'
  BY <1>2 DEF Inv, AgentOK
<1>8. BaselineOK'
  BY <1>1, <1>2, <1>3, <1>6 DEF BaselineOK
<1>9. ImportOK'
  BY <1>1, <1>3, <1>4, <1>5, <1>6, <1>8 DEF ImportOK
<1> QED  BY <1>7, <1>9 DEF Inv

LEMMA InitInv == Init => Inv
<1> SUFFICES ASSUME Init PROVE Inv
  OBVIOUS
<1>1. /\ log = << >> /\ meter \in Nat /\ created \in Nat /\ calls = {} /\ usage = 0 /\ pc = "idle"
      /\ kind = "root" => created = 0 /\ dated /\ meter = 0
  <2>1. MaxInherited \in Nat /\ Unseen \subseteq Nat
    BY CodexAssumption
  <2>2. log = << >> /\ calls = {} /\ usage = 0 /\ pc = "idle"
    BY DEF Init
  <2>3. created \in Nat
    BY <2>1 DEF Init
  <2>4. meter \in Nat /\ (kind = "root" => created = 0 /\ meter = 0)
    BY <2>1 DEF Init
  <2>5. kind = "root" => dated
    BY Zenon DEF Init
  <2> QED  BY <2>2, <2>3, <2>4, <2>5
<1>2. Len(log) = 0 /\ log \in Seq(Snapshot) /\ UsedIn(log, 0) = 0 /\ UsedAt(0) = 0 /\ Checkpoint = 0
  BY <1>1 DEF UsedIn, UsedAt, Checkpoint
<1>3. AgentOK
  BY <1>1, <1>2 DEF AgentOK, LogOK, FromNothing
<1>4. ImportOK
  BY <1>1, <1>2 DEF ImportOK
<1> QED  BY <1>3, <1>4 DEF Inv

LEMMA StepInv == Inv /\ [Next]_vars => Inv'
<1> SUFFICES ASSUME Inv, [Next]_vars PROVE Inv'
  OBVIOUS
<1>1. CASE \E tokens \in Steps, shape \in Shapes, reset \in BOOLEAN :
               WriteSnapshot(tokens, shape, reset)
  BY <1>1, WriteKeepsInv
<1>2. CASE \/ \E start \in 1..MaxSnapshots : BeginImport(start)
           \/ SkipWithoutTotal \/ SkipInherited \/ SkipChildBaseline \/ FailChildOverlap
           \/ SkipUnusable \/ SkipDuplicate \/ FailOverlap
           \/ EndOfFile \/ EndOfCopy \/ Crash
  BY <1>2, SkipsKeepInv
<1>3. CASE AppendRawEvent
  BY <1>3, AppendKeepsInv
<1>4. CASE RecordModelCall
  BY <1>4, RecordKeepsInv
<1>5. CASE UNCHANGED vars
  <2>1. UNCHANGED <<kind, created, dated, meter, log, calls, usage, pc, position, previous,
                    previousAt, childStarted, delta>>
    BY <1>5 DEF vars, agentVars, ledgerVars, importVars
  <2>2. /\ Checkpoint' = Checkpoint /\ (InheritedTotalKnown' <=> InheritedTotalKnown)
        /\ \A k : Countable(k)' <=> Countable(k)
        /\ \A k : UsedAt(k)' = UsedAt(k)
        /\ Countable(previousAt)' <=> Countable(previousAt)
        /\ UsedAt(previousAt)' = UsedAt(previousAt) /\ UsedAt(Checkpoint)' = UsedAt(Checkpoint)
        /\ AgentOK' = AgentOK
    BY <2>1 DEF Checkpoint, InheritedTotalKnown, Countable, Child, UsedAt, AgentOK
  <2>3. BaselineOK' <=> BaselineOK
    BY <2>1, <2>2 DEF BaselineOK
  <2> QED  BY <2>1, <2>2, <2>3 DEF Inv, ImportOK
<1> QED  BY <1>1, <1>2, <1>3, <1>4, <1>5 DEF Next, Step

\* The invariant of logs and imports.
THEOREM IntervalsAreUsed == Spec => []Inv
BY InitInv, StepInv, PTL DEF Spec

\* Imports never count more than the session has used, whatever the agent reports and resets,
\* whichever copies are imported in whatever order and wherever an import dies.
THEOREM NothingIsOvercounted == Spec => []NeverOvercounts
<1>1. Inv => NeverOvercounts
  BY DEF Inv, ImportOK, NeverOvercounts
<1> QED  BY <1>1, IntervalsAreUsed, PTL

-----------------------------------------------------------------------------
(* Nothing is left out of a regular session without inherited history.     *)

\* A snapshot with a total reports the meter in every counter that is no part of another.
MeterRead(s) ==
    s.usage[Total] # Missing =>
        \A c \in Counters : (\E pair \in PartOf : pair[1] = c) \/ s.usage[c] \in {Missing, s.usage[Total]}

\* What is counted is what was used, and snapshots read since the checkpoint show no more.
Exactly ==
    /\ usage = UsedAt(Checkpoint)
    /\ pc = "recording" => usage + delta = UsedAt(previousAt)
    /\ pc = "reading" /\ Checkpoint < previousAt => UsedAt(previousAt) = UsedAt(Checkpoint)

ExactInv ==
    /\ \A k \in 1..Len(log) : MeterRead(log[k])
    /\ kind = "root" /\ Regular => Exactly

LEMMA MeterIsRead ==
    ASSUME NEW n \in Nat, NEW shape, NEW s, s.usage = Report(n, shape)
    PROVE  MeterRead(s)
<1>1. \A c \in Counters : (\E pair \in PartOf : pair[1] = c) \/ Amount(c, n) = n
  BY DEF Amount
<1>2. Amount(Total, n) = n /\ Total \in Counters
  BY CodexAssumption DEF Amount
<1> QED  BY <1>1, <1>2 DEF MeterRead, Report

\* In a regular root session, an interval between two totals is of use exactly if it is not empty.
LEMMA RegularInterval ==
    ASSUME Inv, ExactInv, kind = "root", Regular,
           NEW j \in 1..Len(log), Reports(log, j),
           NEW i \in 0..(j - 1), i # 0 => Reports(log, i),
           NEW base, base = IF i = 0 THEN NoUsage ELSE log[i].usage
    PROVE  /\ IntervalOf(log[j].usage, base, Total) = UsedAt(j) - UsedAt(i)
           /\ UsedAt(j) \in Nat /\ UsedAt(i) \in Nat /\ UsedAt(i) <= UsedAt(j)
           /\ ~ Usable(log[j].usage, base) => UsedAt(j) = UsedAt(i)
<1> DEFINE now == log[j].usage
           measured == Measured(now, base)
<1>1. /\ log \in Seq(Snapshot) /\ Len(log) \in Nat
      /\ \A k \in 1..Len(log) : /\ log[k].usage \in Readings /\ log[k].usage # NoUsage
                                /\ UsedAt(k) = log[k].used /\ log[k].used \in Nat
  BY Lengths, InLog DEF UsedAt
<1>2. \A k \in 1..Len(log) : Reports(log, k) => log[k].usage[Total] = UsedAt(k)
  BY <1>1 DEF Regular, Reports
<1>3. UsedAt(0) = 0
  BY DEF UsedAt
<1>4. i # 0 => i \in 1..Len(log) /\ base = log[i].usage /\ base # NoUsage
               /\ base[Total] = UsedAt(i)
  BY <1>1, <1>2
<1>5. UsedAt(i) \in Nat /\ UsedAt(j) \in Nat /\ UsedAt(i) <= UsedAt(j)
  <2>1. CASE i = 0
    BY <1>1, <1>3, <2>1
  <2>2. CASE i # 0
    <3>1. UsedIn(log, i) <= UsedIn(log, j)
      BY <1>4, <2>2 DEF Inv, AgentOK, LogOK
    <3> QED  BY <1>1, <1>4, <2>2, <3>1 DEF UsedIn, UsedAt
  <2> QED  BY <2>1, <2>2
<1>6. now[Total] = UsedAt(j) /\ now[Total] # Missing /\ Total \in Counters
  BY <1>2, CodexAssumption DEF Reports
<1>7. IntervalOf(now, base, Total) = UsedAt(j) - UsedAt(i)
  BY <1>3, <1>4, <1>5, <1>6 DEF IntervalOf
<1>8. ASSUME ~ Usable(now, base) PROVE UsedAt(j) = UsedAt(i)
  <2>1. Total \in measured
    BY <1>1, <1>4, <1>6, CodexAssumption DEF Measured
  <2>2. \A pair \in PartOf : now[pair[1]] = Missing
    BY DEF Regular
  <2>3. \A pair \in PartOf : pair[1] \notin measured
    BY <2>2 DEF Measured
  <2>4. base # NoUsage
    BY <1>8, <2>1, <2>3 DEF Usable
  <2>5. i # 0
    BY <2>4
  <2>6. ASSUME NEW c \in measured PROVE now[c] = UsedAt(j) /\ base[c] = UsedAt(i)
    <3>1. c \in Counters /\ now[c] # Missing /\ base[c] # Missing
      BY <2>4, <2>6 DEF Measured
    <3>2. ~ \E pair \in PartOf : pair[1] = c
      BY <2>3, <2>6
    <3>3. now[c] \in {Missing, now[Total]} /\ base[c] \in {Missing, base[Total]}
      BY <1>1, <1>4, <1>6, <2>5, <3>1, <3>2 DEF ExactInv, MeterRead, Reports
    <3> QED  BY <1>4, <1>6, <2>5, <3>1, <3>3
  <2>7. ~ \E c \in measured : now[c] # base[c]
    <3>1. \A c \in measured : now[c] >= base[c]
      BY <1>5, <2>6
    <3> QED  BY <1>8, <2>1, <2>3, <3>1 DEF Usable
  <2> QED  BY <2>1, <2>6, <2>7
<1> QED  BY <1>5, <1>7, <1>8

\* What was read or written so far stays regular or not.
LEMMA RegularLog ==
    ASSUME Inv, ExactInv, [Next]_vars
    PROVE  /\ kind' = kind
           /\ \A k \in 1..Len(log') : MeterRead(log'[k])
           /\ Regular' => Regular
           /\ \A k \in 0..Len(log) : UsedAt(k)' = UsedAt(k)
<1>1. CASE UNCHANGED agentVars
  <2>1. UNCHANGED <<kind, log>>
    BY <1>1 DEF agentVars
  <2> QED  BY <2>1 DEF ExactInv, Regular, UsedAt
<1>2. ASSUME NEW tokens \in Steps, NEW shape \in Shapes, NEW reset \in BOOLEAN,
             WriteSnapshot(tokens, shape, reset)
      PROVE  /\ kind' = kind
             /\ \A k \in 1..Len(log') : MeterRead(log'[k])
             /\ Regular' => Regular
             /\ \A k \in 0..Len(log) : UsedAt(k)' = UsedAt(k)
  <2>1. log \in Seq(Snapshot) /\ Len(log) \in Nat /\ meter \in Nat /\ tokens \in Nat
    BY CodexAssumption DEF Inv, AgentOK, LogOK
  <2>2. kind' = kind /\ \E s : log' = Append(log, s) /\ \E n \in Nat : s.usage = Report(n, shape)
    <3> DEFINE n == (IF reset \/ (kind = "spawn" /\ Len(log) = created) THEN 0 ELSE meter) + tokens
               s == [usage |-> Report(n, shape),
                     last |-> IF shape.last THEN Report(tokens, shape) ELSE NoUsage,
                     used |-> UsedAt(Len(log)) + IF Len(log) >= created THEN tokens ELSE 0]
    <3>1. kind' = kind /\ log' = Append(log, s)
      BY <1>2 DEF WriteSnapshot
    <3>2. n \in Nat
      BY <2>1
    <3>3. s.usage = Report(n, shape)
      OBVIOUS
    <3> HIDE DEF n, s
    <3> QED  BY <3>1, <3>2, <3>3
  <2>3. PICK s : log' = Append(log, s) /\ \E n \in Nat : s.usage = Report(n, shape)
    BY <2>2
  <2>4. /\ Len(log') = Len(log) + 1 /\ log'[Len(log) + 1] = s
        /\ \A k \in 1..Len(log) : log'[k] = log[k]
    BY <2>1, <2>3
  <2>5. MeterRead(s)
    BY <2>3, MeterIsRead
  <2> QED  BY <2>1, <2>2, <2>4, <2>5 DEF ExactInv, Regular, UsedAt
<1> QED  BY <1>1, <1>2 DEF Next, Step, vars, BeginImport, SkipWithoutTotal, SkipInherited,
            SkipChildBaseline, FailChildOverlap, SkipUnusable, SkipDuplicate, FailOverlap,
            AppendRawEvent, RecordModelCall, EndOfFile, EndOfCopy, Crash

\* A root session has no inherited history, so that the baseline is the snapshot read last.
LEMMA RootBaseline ==
    ASSUME Inv, kind = "root"
    PROVE  /\ ~ FirstOfChild /\ ~ NeedsCheckpoint /\ ~ Inherited /\ ~ RepeatsInherited
           /\ Baseline = previous /\ BaselineAt = previousAt
BY DEF FirstOfChild, NeedsCheckpoint, Inherited, RepeatsInherited, Child, Baseline, BaselineAt

\* What the import reads next, and from where it measures.
LEMMA NextInterval ==
    ASSUME Inv, ExactInv, kind = "root", Regular, Reading, HasTotal,
           NEW i \in {previousAt, Checkpoint}, i < position,
           NEW base, base = IF i = 0 THEN NoUsage ELSE log[i].usage
    PROVE  /\ IntervalOf(Current.usage, base, Total) = UsedAt(position) - UsedAt(i)
           /\ UsedAt(position) \in Nat /\ UsedAt(i) \in Nat /\ UsedAt(i) <= UsedAt(position)
           /\ ~ Usable(Current.usage, base) => UsedAt(position) = UsedAt(i)
<1>1. /\ position \in 1..Len(log) /\ BaselineOK /\ Len(log) \in Nat
      /\ Checkpoint \in 0..Len(log) /\ (Checkpoint # 0 => Checkpoint \in calls)
  BY Lengths
<1>2. Reports(log, position) /\ Current = log[position]
  BY DEF HasTotal, Current, Reports
<1>3. i \in 0..(position - 1)
  BY <1>1 DEF BaselineOK
<1>4. Checkpoint # 0 => Reports(log, Checkpoint)
  BY <1>1 DEF Inv, ImportOK, Countable
<1>5. previousAt # 0 => Reports(log, previousAt)
  BY <1>1 DEF BaselineOK
<1> QED  BY <1>1, <1>2, <1>3, <1>4, <1>5, RegularInterval

LEMMA ExactStep ==
    ASSUME Inv, ExactInv, [Next]_vars
    PROVE  ExactInv'
<1> SUFFICES ASSUME kind = "root", Regular, Regular' PROVE Exactly'
  BY RegularLog DEF ExactInv
<1> USE RegularLog
<1>1. Exactly /\ usage \in Nat /\ Checkpoint \in 0..Len(log) /\ Len(log) \in Nat
  BY Lengths DEF ExactInv, Inv, ImportOK
<1>2. CASE \E tokens \in Steps, shape \in Shapes, reset \in BOOLEAN :
               WriteSnapshot(tokens, shape, reset)
  <2>1. UNCHANGED <<calls, usage, pc, previousAt, delta>> /\ Checkpoint' = Checkpoint
    BY <1>2 DEF WriteSnapshot, ledgerVars, importVars, Checkpoint
  <2>2. pc # "idle" => previousAt \in 0..Len(log)
    BY <1>1 DEF Inv, ImportOK, BaselineOK
  <2>3. pc \in {"idle", "reading", "recording"}
    BY DEF Inv, ImportOK
  <2> QED  BY <1>1, <2>1, <2>2, <2>3 DEF Exactly
<1>3. CASE FailChildOverlap \/ FailOverlap \/ EndOfFile \/ EndOfCopy \/ Crash
  <2>1. pc' = "idle" /\ UNCHANGED <<calls, usage, log>>
    BY <1>3 DEF FailChildOverlap, FailOverlap, EndOfFile, EndOfCopy, Crash, End, agentVars,
                ledgerVars
  <2> QED  BY <1>1, <2>1 DEF Exactly, Checkpoint, UsedAt
<1>4. CASE \E start \in 1..MaxSnapshots : BeginImport(start)
  <2>1. pc' = "reading" /\ previousAt' = 0 /\ UNCHANGED <<calls, usage, log>>
    BY <1>4 DEF BeginImport, agentVars, ledgerVars
  <2> QED  BY <1>1, <2>1 DEF Exactly, Checkpoint, UsedAt
<1>5. CASE SkipWithoutTotal
  <2>1. pc = "reading" /\ UNCHANGED <<pc, previousAt, calls, usage, log>>
    BY <1>5 DEF SkipWithoutTotal, Reading, agentVars, ledgerVars
  <2> QED  BY <1>1, <2>1 DEF Exactly, Checkpoint, UsedAt
<1>6. CASE SkipInherited \/ SkipChildBaseline
  BY <1>6, RootBaseline DEF SkipInherited, SkipChildBaseline
<1>7. CASE SkipDuplicate
  <2>1. /\ pc' = "reading" /\ previousAt' = position /\ position \in calls
        /\ UNCHANGED <<calls, usage, log>>
    BY <1>7 DEF SkipDuplicate, Reading, Rebase, agentVars, ledgerVars
  <2>2. position <= Checkpoint
    BY <2>1 DEF Inv, ImportOK
  <2>3. Checkpoint' = Checkpoint /\ UsedAt(Checkpoint)' = UsedAt(Checkpoint)
    BY <2>1 DEF Checkpoint, UsedAt
  <2>4. position \in Nat
    BY <1>7, Lengths DEF SkipDuplicate
  <2> QED  BY <1>1, <2>1, <2>2, <2>3, <2>4 DEF Exactly
<1>8. CASE SkipUnusable
  <2>1. /\ Reading /\ HasTotal /\ pc = "reading" /\ pc' = "reading" /\ previousAt' = position
        /\ ~ Usable(Current.usage, Baseline)
        /\ UNCHANGED <<calls, usage, log>>
    BY <1>8 DEF SkipUnusable, Reading, Measurable, Rebase, agentVars, ledgerVars
  <2>2. BaselineOK /\ position \in 1..Len(log)
    BY <2>1, Lengths
  <2>3. ~ Usable(Current.usage, IF previousAt = 0 THEN NoUsage ELSE log[previousAt].usage)
    BY <2>1, <2>2, RootBaseline DEF BaselineOK
  <2>4. UsedAt(position) = UsedAt(previousAt)
    BY <2>1, <2>2, <2>3, NextInterval DEF BaselineOK
  <2>5. Checkpoint' = Checkpoint /\ \A k : UsedAt(k)' = UsedAt(k)
    BY <2>1 DEF Checkpoint, UsedAt
  <2>6. ASSUME Checkpoint < position PROVE UsedAt(position) = UsedAt(Checkpoint)
    <3>1. CASE Checkpoint < previousAt
      BY <1>1, <2>1, <2>4, <3>1 DEF Exactly
    <3>2. CASE previousAt <= Checkpoint
      <4>1. UsedAt(Checkpoint) \in Nat /\ UsedAt(Checkpoint) <= UsedAt(position)
        BY <2>1, <2>6, NextInterval
      <4>2. UsedAt(previousAt) <= UsedAt(Checkpoint)
        <5>1. CASE previousAt = 0
          BY <4>1, <5>1 DEF UsedAt
        <5>2. CASE previousAt # 0
          <6>1. UsedIn(log, previousAt) <= UsedIn(log, Checkpoint)
            BY <1>1, <2>2, <3>2, <5>2 DEF Inv, AgentOK, LogOK, BaselineOK
          <6>2. Checkpoint # 0
            BY <1>1, <2>2, <3>2, <5>2 DEF BaselineOK
          <6> QED  BY <5>2, <6>1, <6>2 DEF UsedIn, UsedAt
        <5> QED  BY <5>1, <5>2
      <4>3. UsedAt(position) \in Nat
        BY <2>1, <2>6, NextInterval
      <4> QED  BY <2>4, <4>1, <4>2, <4>3
    <3> QED  BY <1>1, <2>2, <3>1, <3>2 DEF BaselineOK
  <2> QED  BY <1>1, <2>1, <2>5, <2>6 DEF Exactly
<1>9. CASE AppendRawEvent
  <2>1. /\ Reading /\ HasTotal /\ pc = "reading" /\ pc' = "recording" /\ previousAt' = position
        /\ position > Checkpoint
        /\ delta' = IntervalOf(Current.usage, StoredBaseline, Total)
        /\ UNCHANGED <<calls, usage, log>>
    BY <1>9 DEF AppendRawEvent, Reading, Measurable, Rebase, agentVars
  <2>2. BaselineOK /\ position \in 1..Len(log)
    BY <2>1, Lengths
  <2>3. Checkpoint' = Checkpoint /\ \A k : UsedAt(k)' = UsedAt(k)
    BY <2>1 DEF Checkpoint, UsedAt
  <2>4. delta' = UsedAt(position) - UsedAt(Checkpoint) /\ UsedAt(Checkpoint) \in Nat
        /\ UsedAt(position) \in Nat
    <3>1. CASE Checkpoint > previousAt
      <4>1. StoredBaseline = log[Checkpoint].usage /\ Checkpoint # 0
        BY <1>1, <2>2, <3>1, RootBaseline DEF StoredBaseline, BaselineOK
      <4>2. StoredBaseline = IF Checkpoint = 0 THEN NoUsage ELSE log[Checkpoint].usage
        BY <4>1
      <4> QED  BY <2>1, <2>2, <4>2, NextInterval
    <3>2. CASE Checkpoint <= previousAt
      <4>1. StoredBaseline = IF previousAt = 0 THEN NoUsage ELSE log[previousAt].usage
        BY <1>1, <2>2, <3>2, RootBaseline DEF StoredBaseline, BaselineOK
      <4>2. delta' = UsedAt(position) - UsedAt(previousAt) /\ UsedAt(previousAt) \in Nat
            /\ UsedAt(position) \in Nat
        BY <2>1, <2>2, <4>1, NextInterval DEF BaselineOK
      <4>3. UsedAt(previousAt) = UsedAt(Checkpoint)
        BY <1>1, <2>1, <2>2, <3>2 DEF Exactly, BaselineOK
      <4> QED  BY <4>2, <4>3
    <3> QED  BY <1>1, <2>2, <3>1, <3>2 DEF BaselineOK
  <2> QED  BY <1>1, <2>1, <2>3, <2>4 DEF Exactly
<1>10. CASE RecordModelCall
  <2>1. /\ pc = "recording" /\ pc' = "reading" /\ calls' = calls \union {previousAt}
        /\ usage' = usage + delta /\ UNCHANGED <<log, previousAt>>
    BY <1>10 DEF RecordModelCall, agentVars
  <2>2. Checkpoint' = previousAt
    BY <1>10, RecordedCheckpoint
  <2>3. UsedAt(Checkpoint)' = UsedAt(previousAt)
    BY <2>1, <2>2 DEF UsedAt
  <2>4. previousAt \in Nat
    BY <2>1 DEF Inv, ImportOK, BaselineOK
  <2> QED  BY <1>1, <2>1, <2>2, <2>3, <2>4 DEF Exactly
<1>11. CASE UNCHANGED vars
  <2>1. UNCHANGED <<log, calls, usage, pc, previousAt, delta>>
    BY <1>11 DEF vars, agentVars, ledgerVars, importVars
  <2> QED  BY <1>1, <2>1 DEF Exactly, Checkpoint, UsedAt
<1> QED  BY <1>2, <1>3, <1>4, <1>5, <1>6, <1>7, <1>8, <1>9, <1>10, <1>11 DEF Next, Step

\* For a regular session without inherited history, the usage up to the latest counted snapshot
\* is counted to the token, wherever imports died and whichever parts the copies lacked.
THEOREM RegularUsageIsExact == Spec => []ExactForRegular
<1>1. Init => ExactInv
  <2> SUFFICES ASSUME Init PROVE ExactInv
    OBVIOUS
  <2>1. log = << >> /\ calls = {} /\ usage = 0 /\ pc = "idle"
    BY DEF Init
  <2> QED  BY <2>1 DEF ExactInv, Exactly, Checkpoint, UsedAt
<1>2. Inv /\ ExactInv /\ [Next]_vars => ExactInv'
  BY ExactStep
<1>3. ExactInv => ExactForRegular
  BY DEF ExactInv, Exactly, ExactForRegular
<1> QED  BY <1>1, <1>2, <1>3, InitInv, StepInv, PTL DEF Spec

-----------------------------------------------------------------------------
(* Reading the whole log again.  What an import makes of a snapshot depends *)
(* on the log alone, not on what is in the ledger, except for a child's     *)
(* first snapshot without a baseline, which is never recorded.  Every       *)
(* import that starts at the first line finds the same snapshots to count   *)
(* (Counts), and has recorded all those it has passed (CountedTo).          *)

\* A snapshot that is not inherited.
Own(k) == Child => dated /\ created < k

\* The last snapshot before k with a total is j; there is none if j is 0.
Latest(j, k) ==
    /\ j # 0 => Reports(log, j)
    /\ \A i \in (j + 1)..(k - 1) : ~ Reports(log, i)

\* A child's own snapshot that does not repeat the one before.
Starts(k) ==
    /\ Child /\ Own(k) /\ Reports(log, k)
    /\ \A j \in 1..(k - 1) : Latest(j, k) => TotalIn(log, k) # TotalIn(log, j)

Started(k) == \E i \in 1..(k - 1) : Starts(i)

First(k) == Child /\ ~ Started(k)

\* The counters that snapshot k is measured from, if j is the latest before it.
From(j, k) ==
    IF j = 0 \/ (First(k) /\ SameCounters(log[k])) THEN NoUsage ELSE log[j].usage

Counts(k) ==
    /\ Own(k) /\ Reports(log, k)
    /\ \A j \in 0..(k - 1) : Latest(j, k) =>
          /\ First(k) => IF j = 0 THEN SameCounters(log[k])
                         ELSE TotalIn(log, k) # TotalIn(log, j)
          /\ Usable(log[k].usage, From(j, k))

CountedTo(n) == \A k \in 1..n : Counts(k) => k \in calls

\* The calls are the first of the snapshots to count; a running import has passed none of them
\* that is not a call, and neither has one that came to the end of the log.
WholeInv ==
    /\ \A k \in calls : Counts(k)
    /\ CountedTo(Checkpoint)
    /\ covered \in 0..Len(log) /\ CountedTo(covered)
    /\ pc # "idle" => /\ position <= Len(log) + 1 /\ Latest(previousAt, position)
                      /\ childStarted <=> Started(position)
    /\ pc = "reading" => CountedTo(position - 1)
    /\ pc = "recording" => /\ position = previousAt + 1
                           /\ Counts(previousAt) /\ CountedTo(previousAt - 1)

LEMMA OneLatest ==
    ASSUME NEW k \in Nat, NEW i \in 0..(k - 1), NEW j \in 0..(k - 1), Latest(i, k), Latest(j, k)
    PROVE  i = j
<1>1. CASE i < j
  <2>1. j \in (i + 1)..(k - 1) /\ j # 0
    BY <1>1
  <2> QED  BY <2>1 DEF Latest
<1>2. CASE j < i
  <2>1. i \in (j + 1)..(k - 1) /\ i # 0
    BY <1>2
  <2> QED  BY <2>1 DEF Latest
<1> QED  BY <1>1, <1>2

\* How the import sees the snapshot it reads next, in terms of the log.
LEMMA Seen ==
    ASSUME Inv, WholeInv, Reading
    PROVE  /\ position \in 1..Len(log) /\ previousAt \in 0..(position - 1)
           /\ Latest(previousAt, position)
           /\ HasTotal <=> Reports(log, position)
           /\ Inherited <=> ~ Own(position)
           /\ previous = NoUsage <=> previousAt = 0
           /\ previousAt # 0 => previous = log[previousAt].usage
           /\ Own(position) => (FirstOfChild <=> First(position))
<1>1. /\ log \in Seq(Snapshot) /\ position \in 1..Len(log) /\ BaselineOK /\ Len(log) \in Nat
      /\ created \in Nat
  BY Lengths
<1>2. previousAt \in 0..(position - 1)
  BY <1>1 DEF BaselineOK
<1>3. Latest(previousAt, position) /\ (childStarted <=> Started(position))
  BY DEF WholeInv, Reading
<1>4. HasTotal <=> Reports(log, position)
  BY DEF HasTotal, Current, Reports
<1>5. Inherited <=> ~ Own(position)
  BY <1>1 DEF Inherited, Own
<1>6. previousAt # 0 => log[previousAt].usage # NoUsage
  BY <1>1, InLog DEF BaselineOK
<1>7. (previous = NoUsage <=> previousAt = 0) /\ (previousAt # 0 => previous = log[previousAt].usage)
  BY <1>1, <1>6 DEF BaselineOK
<1>8. Own(position) => (FirstOfChild <=> First(position))
  BY <1>3, <1>5 DEF FirstOfChild, First
<1> QED  BY <1>1, <1>2, <1>3, <1>4, <1>5, <1>7, <1>8

\* When a snapshot is the child's first, and when it counts.
LEMMA SeenAs ==
    ASSUME Inv, WholeInv, Reading, HasTotal
    PROVE  /\ Inherited \/ RepeatsInherited => ~ Counts(position) /\ (~ childStarted => ~ Starts(position))
           /\ NeedsCheckpoint => ~ Counts(position) /\ previousAt = 0 /\ Starts(position)
           /\ ~ Inherited /\ ~ RepeatsInherited /\ ~ NeedsCheckpoint =>
                 /\ Counts(position) <=> Usable(Current.usage, Baseline)
                 /\ Child => childStarted \/ Starts(position)
<1> DEFINE p == position
           j == previousAt
<1>1. /\ p \in 1..Len(log) /\ j \in 0..(p - 1) /\ Latest(j, p) /\ Reports(log, p)
      /\ (Inherited <=> ~ Own(p)) /\ (previous = NoUsage <=> j = 0)
      /\ (j # 0 => previous = log[j].usage) /\ (Own(p) => (FirstOfChild <=> First(p)))
      /\ (childStarted <=> Started(p))
  BY Seen DEF WholeInv, Reading
<1>2. \A i \in 0..(p - 1) : Latest(i, p) => i = j
  <2>1. p \in Nat
    BY <1>1, Lengths
  <2> QED  BY <1>1, <2>1, OneLatest
<1>3. j # 0 => j \in 1..(p - 1)
  BY <1>1, Lengths
<1>4. Starts(p) <=> Child /\ Own(p) /\ (j # 0 => TotalIn(log, p) # TotalIn(log, j))
  BY <1>1, <1>2, <1>3, Lengths DEF Starts
<1>5. Counts(p) <=> /\ Own(p)
                    /\ First(p) => IF j = 0 THEN SameCounters(log[p])
                                   ELSE TotalIn(log, p) # TotalIn(log, j)
                    /\ Usable(log[p].usage, From(j, p))
  BY <1>1, <1>2 DEF Counts
<1>6. RepeatsInherited <=> FirstOfChild /\ j # 0 /\ TotalIn(log, p) = TotalIn(log, j)
  BY <1>1 DEF RepeatsInherited, Current, TotalIn
<1>7. NeedsCheckpoint <=> FirstOfChild /\ ~ SameCounters(log[p]) /\ j = 0
  BY <1>1 DEF NeedsCheckpoint, Current
<1>8. ~ NeedsCheckpoint /\ ~ Inherited => Baseline = From(j, p)
  BY <1>1 DEF Baseline, From, Current
<1>9. FirstOfChild <=> Child /\ ~ Inherited /\ ~ childStarted
  BY DEF FirstOfChild
<1>10. Current = log[p]
  BY DEF Current
<1> HIDE DEF p, j
<1>11. Inherited => ~ RepeatsInherited
  BY <1>6, <1>9
<1>12. Inherited \/ RepeatsInherited => ~ Counts(p) /\ (~ childStarted => ~ Starts(p))
  BY <1>1, <1>4, <1>5, <1>6
<1>13. NeedsCheckpoint => ~ Counts(p) /\ j = 0 /\ Starts(p)
  BY <1>1, <1>4, <1>5, <1>7, <1>9
<1>14. ~ Inherited /\ ~ RepeatsInherited /\ ~ NeedsCheckpoint =>
                 /\ Counts(p) <=> Usable(Current.usage, Baseline)
                 /\ Child => childStarted \/ Starts(p)
  BY <1>1, <1>4, <1>5, <1>6, <1>7, <1>8, <1>9, <1>10
<1> QED  BY <1>12, <1>13, <1>14 DEF p, j

\* A snapshot more leaves what is in the log as it is.
LEMMA CountsStays ==
    ASSUME Inv, UNCHANGED <<kind, created, dated>>,
           log' = log \/ \E s : log' = Append(log, s)
    PROVE  /\ \A k \in 1..Len(log) : Counts(k)' <=> Counts(k)
           /\ \A k \in 1..(Len(log) + 1) : Started(k)' <=> Started(k)
           /\ \A k \in 1..(Len(log) + 1), j \in 0..Len(log) : Latest(j, k)' <=> Latest(j, k)
           /\ Len(log) <= Len(log')
<1>1. log \in Seq(Snapshot) /\ Len(log) \in Nat
  BY Lengths
<1>2. Len(log) <= Len(log') /\ \A k \in 1..Len(log) : log'[k] = log[k]
  <2>1. CASE log' = log
    BY <1>1, <2>1
  <2>2. CASE \E s : log' = Append(log, s)
    BY <1>1, <2>2
  <2> QED  BY <2>1, <2>2
<1>3. /\ \A k \in 1..Len(log) : /\ Reports(log, k)' <=> Reports(log, k)
                                /\ TotalIn(log, k)' = TotalIn(log, k)
      /\ Child' <=> Child
      /\ \A k : Own(k)' <=> Own(k)
  BY <1>2 DEF Reports, TotalIn, Child, Own
<1>4. \A k \in 1..(Len(log) + 1), j \in 0..Len(log) : Latest(j, k)' <=> Latest(j, k)
  <2> TAKE k \in 1..(Len(log) + 1), j \in 0..Len(log)
  <2>1. \A i \in (j + 1)..(k - 1) : i \in 1..Len(log)
    BY <1>1
  <2>2. j # 0 => j \in 1..Len(log)
    BY <1>1
  <2> QED  BY <1>3, <2>1, <2>2 DEF Latest
<1>5. \A k \in 1..Len(log) : Starts(k)' <=> Starts(k)
  <2> TAKE k \in 1..Len(log)
  <2>1. \A j \in 1..(k - 1) : /\ Latest(j, k)' <=> Latest(j, k)
                              /\ TotalIn(log, j)' = TotalIn(log, j)
    BY <1>1, <1>3, <1>4
  <2> QED  BY <1>3, <2>1 DEF Starts
<1>6. \A k \in 1..(Len(log) + 1) : Started(k)' <=> Started(k)
  <2> TAKE k \in 1..(Len(log) + 1)
  <2>1. \A i \in 1..(k - 1) : i \in 1..Len(log)
    BY <1>1
  <2> QED  BY <1>5, <2>1 DEF Started
<1>7. \A k \in 1..Len(log) : Counts(k)' <=> Counts(k)
  <2> TAKE k \in 1..Len(log)
  <2>1. \A j \in 0..(k - 1) : /\ Latest(j, k)' <=> Latest(j, k)
                              /\ j # 0 => log'[j] = log[j] /\ TotalIn(log, j)' = TotalIn(log, j)
    BY <1>1, <1>2, <1>3, <1>4
  <2>2. First(k)' <=> First(k)
    BY <1>1, <1>3, <1>6 DEF First
  <2>3. log'[k] = log[k] /\ (Reports(log, k)' <=> Reports(log, k)) /\ (Own(k)' <=> Own(k))
        /\ TotalIn(log, k)' = TotalIn(log, k)
    BY <1>2, <1>3
  <2>4. SameCounters(log[k])' <=> SameCounters(log[k])
    BY <2>3 DEF SameCounters
  <2>5. \A j \in 0..(k - 1) : From(j, k)' = From(j, k)
    BY <2>1, <2>2, <2>4 DEF From
  <2>6. \A j \in 0..(k - 1) : Usable(log[k].usage, From(j, k))' <=> Usable(log[k].usage, From(j, k))
    BY <2>3, <2>5 DEF Usable, Measured, IntervalOf
  <2> QED  BY <2>1, <2>2, <2>3, <2>4, <2>6 DEF Counts
<1> QED  BY <1>2, <1>4, <1>6, <1>7

\* On to the next line, without a new call.
LEMMA OneLineMore ==
    ASSUME Inv, WholeInv, Reading, UNCHANGED <<agentVars, calls, covered>>,
           pc' \in {"reading", "recording"}, position' = position + 1,
           IF Reports(log, position) THEN previousAt' = position ELSE previousAt' = previousAt,
           childStarted' <=> childStarted \/ Starts(position),
           IF pc' = "recording" THEN Reports(log, position) /\ Counts(position)
           ELSE Counts(position) => position \in calls
    PROVE  WholeInv'
<1>1. UNCHANGED <<kind, created, dated, log, calls, covered>>
  BY DEF agentVars
<1>2. /\ position \in 1..Len(log) /\ previousAt \in 0..(position - 1) /\ Len(log) \in Nat
      /\ Latest(previousAt, position) /\ (childStarted <=> Started(position))
      /\ CountedTo(position - 1) /\ Checkpoint \in 0..Len(log)
  BY Seen, Lengths DEF WholeInv, Reading
<1>3. /\ \A k \in 1..Len(log) : Counts(k)' <=> Counts(k)
      /\ \A k \in 1..(Len(log) + 1) : Started(k)' <=> Started(k)
      /\ \A k \in 1..(Len(log) + 1), j \in 0..Len(log) : Latest(j, k)' <=> Latest(j, k)
  BY <1>1, CountsStays
<1>4. Latest(previousAt', position + 1)
  <2>1. CASE Reports(log, position)
    BY <1>2, <2>1 DEF Latest
  <2>2. CASE ~ Reports(log, position)
    <3>1. \A i \in (previousAt + 1)..position : i = position \/ i \in (previousAt + 1)..(position - 1)
      BY <1>2
    <3>2. (position + 1) - 1 = position
      BY <1>2
    <3> QED  BY <1>2, <2>2, <3>1, <3>2 DEF Latest
  <2> QED  BY <2>1, <2>2
<1>5. Latest(previousAt, position)'
  <2>1. position' \in 1..(Len(log) + 1) /\ previousAt' \in 0..Len(log)
    BY <1>2
  <2>2. \A k \in 1..(Len(log) + 1), j \in 0..Len(log) :
            Latest(j, k) => (j # 0 => Reports(log', j)) /\ \A i \in (j + 1)..(k - 1) : ~ Reports(log', i)
    BY <1>1 DEF Latest
  <2> QED  BY <1>4, <2>1, <2>2 DEF Latest
<1>6. Started(position + 1) <=> Started(position) \/ Starts(position)
  <2>1. \A i : i \in 1..((position + 1) - 1) <=> i \in 1..(position - 1) \/ i = position
    BY <1>2
  <2> QED  BY <2>1 DEF Started
<1>7. childStarted' <=> Started(position)'
  <2>1. \A k : Started(k) <=> \E i \in 1..(k - 1) : Starts(i)
    BY DEF Started
  <2>2. \A i : Starts(i)' <=> Starts(i)
    BY <1>1 DEF Starts, Child, Own, Reports, TotalIn, Latest
  <2>3. Started(position)' <=> Started(position + 1)
    BY <2>2 DEF Started
  <2> QED  BY <1>2, <1>6, <2>3
<1>8. /\ \A k \in calls' : Counts(k)'
      /\ CountedTo(Checkpoint)' /\ covered' \in 0..Len(log') /\ CountedTo(covered)'
  <2>1. \A k \in calls : k \in 1..Len(log)
    BY DEF Inv, ImportOK, Countable
  <2>2. Checkpoint' = Checkpoint
    BY <1>1 DEF Checkpoint
  <2> QED  BY <1>1, <1>2, <1>3, <2>1, <2>2 DEF WholeInv, CountedTo
<1>9. /\ pc' = "reading" => CountedTo(position - 1)'
      /\ pc' = "recording" => /\ position' = previousAt' + 1
                              /\ Counts(previousAt)' /\ CountedTo(previousAt - 1)'
  <2>1. CASE pc' = "reading"
    <3>1. \A k \in 1..(position' - 1) : k \in 1..(position - 1) \/ k = position
      BY <1>2
    <3>2. \A k \in 1..(position' - 1) : Counts(k)' => k \in calls
      <4> TAKE k \in 1..(position' - 1)
      <4>1. k \in 1..Len(log)
        BY <1>2
      <4> QED  BY <1>2, <1>3, <2>1, <3>1, <4>1 DEF CountedTo
    <3> QED  BY <1>1, <2>1, <3>2 DEF CountedTo
  <2>2. CASE pc' = "recording"
    <3>1. previousAt' = position /\ Counts(position)
      BY <2>2
    <3>2. /\ Counts(previousAt)' /\ position' = previousAt' + 1
          /\ position - 1 \in 0..Len(log) /\ previousAt' - 1 = position - 1
      BY <1>1, <1>2, <1>3, <3>1
    <3>3. \A k \in 1..(position - 1) : k \in 1..Len(log) /\ (Counts(k) => k \in calls)
      BY <1>2 DEF CountedTo
    <3>4. \A k \in 1..(previousAt' - 1) : Counts(k)' => k \in calls'
      BY <1>1, <1>3, <3>2, <3>3
    <3> QED  BY <2>2, <3>2, <3>4 DEF CountedTo
  <2> QED  BY <2>1, <2>2
<1> QED  BY <1>1, <1>2, <1>5, <1>7, <1>8, <1>9 DEF WholeInv

\* A child's first snapshot without a baseline is never measured: there is no call before it.
LEMMA MeasuredHasBaseline ==
    ASSUME Inv, WholeInv, Reading, Measurable
    PROVE  ~ NeedsCheckpoint
<1> SUFFICES ASSUME NeedsCheckpoint PROVE FALSE
  OBVIOUS
<1>1. HasTotal /\ Checkpoint # 0 /\ position > Checkpoint
  BY DEF Measurable
<1>2. previousAt = 0
  BY <1>1, SeenAs
<1>3. /\ Checkpoint \in calls /\ Checkpoint \in 0..Len(log) /\ Len(log) \in Nat
      /\ position \in 1..Len(log) /\ Latest(previousAt, position)
  BY <1>1, Lengths, Seen
<1>4. Reports(log, Checkpoint)
  BY <1>3 DEF Inv, ImportOK, Countable
<1>5. Checkpoint \in (previousAt + 1)..(position - 1)
  BY <1>1, <1>2, <1>3
<1> QED  BY <1>3, <1>4, <1>5 DEF Latest

\* The lines that store nothing.
LEMMA SkipsAreRead ==
    ASSUME Inv, WholeInv,
           SkipWithoutTotal \/ SkipInherited \/ SkipChildBaseline \/ SkipUnusable \/ SkipDuplicate
    PROVE  WholeInv'
<1>1. /\ Reading /\ pc' = "reading" /\ position' = position + 1
      /\ UNCHANGED <<agentVars, calls, covered>>
  BY DEF SkipWithoutTotal, SkipInherited, SkipChildBaseline, SkipUnusable, SkipDuplicate, Reading,
         Rebase, ledgerVars
<1>2. (HasTotal <=> Reports(log, position)) /\ position \in 1..Len(log)
  BY <1>1, Seen
<1>3. CASE SkipWithoutTotal
  <2>1. ~ HasTotal /\ previousAt' = previousAt /\ childStarted' = childStarted
    BY <1>3 DEF SkipWithoutTotal
  <2>2. ~ Starts(position) /\ ~ Counts(position)
    BY <1>2, <2>1 DEF Starts, Counts
  <2> QED  BY <1>1, <1>2, <2>1, <2>2, OneLineMore
<1>4. CASE SkipInherited
  <2>1. /\ HasTotal /\ (Inherited \/ RepeatsInherited)
        /\ previousAt' = position /\ childStarted' = childStarted
    BY <1>4 DEF SkipInherited, Rebase
  <2>2. ~ Counts(position) /\ (~ childStarted => ~ Starts(position))
    BY <1>1, <1>4, <2>1, SeenAs DEF SkipInherited
  <2> QED  BY <1>1, <1>2, <1>4, <2>1, <2>2, OneLineMore DEF SkipInherited
<1>5. CASE SkipChildBaseline
  <2>1. /\ HasTotal /\ NeedsCheckpoint /\ previousAt' = position /\ childStarted' = TRUE
    BY <1>5 DEF SkipChildBaseline, Rebase
  <2>2. ~ Counts(position) /\ Starts(position)
    BY <1>1, <2>1, SeenAs
  <2> QED  BY <1>1, <1>2, <2>1, <2>2, OneLineMore
<1>6. CASE SkipUnusable \/ SkipDuplicate
  <2>1. /\ Measurable /\ previousAt' = position /\ childStarted' = Child
        /\ ~ Usable(Current.usage, Baseline) \/ position \in calls
    BY <1>6 DEF SkipUnusable, SkipDuplicate, Rebase
  <2>2. /\ Child => childStarted \/ Starts(position)
        /\ Counts(position) <=> Usable(Current.usage, Baseline)
    BY <1>1, <2>1, MeasuredHasBaseline, SeenAs DEF Measurable
  <2>3. childStarted \/ Starts(position) => Child
    BY <1>1 DEF WholeInv, Reading, Starts, Started
  <2> QED  BY <1>1, <1>2, <2>1, <2>2, <2>3, OneLineMore DEF Measurable
<1> QED  BY <1>3, <1>4, <1>5, <1>6

\* A new call is the one of the snapshots to count that comes next.
LEMMA StoresAreRead ==
    ASSUME Inv, WholeInv, AppendRawEvent
    PROVE  WholeInv'
<1>1. /\ Reading /\ Measurable /\ pc' = "recording" /\ position' = position + 1
      /\ previousAt' = position /\ childStarted' = Child
      /\ Usable(Current.usage, Baseline)
      /\ UNCHANGED <<agentVars, calls, covered>>
  BY DEF AppendRawEvent, Rebase
<1>2. /\ Child => childStarted \/ Starts(position)
      /\ Counts(position)
  BY <1>1, MeasuredHasBaseline, SeenAs DEF Measurable
<1>3. childStarted \/ Starts(position) => Child
  BY <1>1 DEF WholeInv, Reading, Starts, Started
<1>4. Reports(log, position)
  BY <1>1, Seen DEF Measurable
<1> QED  BY <1>1, <1>2, <1>3, <1>4, OneLineMore

LEMMA CallsAreRead ==
    ASSUME Inv, WholeInv, RecordModelCall
    PROVE  WholeInv'
<1>1. /\ pc = "recording" /\ pc' = "reading" /\ calls' = calls \union {previousAt}
      /\ UNCHANGED <<agentVars, position, previousAt, childStarted, covered>>
  BY DEF RecordModelCall
<1>2. UNCHANGED <<kind, created, dated, log>>
  BY <1>1 DEF agentVars
<1>3. Checkpoint' = previousAt
  BY RecordedCheckpoint
<1>4. /\ \A k : Counts(k)' <=> Counts(k)
      /\ \A k : Started(k)' <=> Started(k)
      /\ \A j, k : Latest(j, k)' <=> Latest(j, k)
  BY <1>2 DEF Counts, Own, Child, Reports, TotalIn, Latest, First, Started, Starts, From,
              SameCounters, Usable, Measured, IntervalOf
<1>5. /\ position = previousAt + 1 /\ Counts(previousAt) /\ CountedTo(previousAt - 1)
      /\ \A k \in calls : Counts(k)
      /\ position <= Len(log) + 1 /\ Latest(previousAt, position)
      /\ childStarted <=> Started(position)
      /\ CountedTo(covered) /\ covered \in 0..Len(log)
  BY <1>1 DEF WholeInv
<1>6. previousAt \in Nat /\ position \in Nat
  BY <1>1 DEF Inv, ImportOK, BaselineOK
<1>7. \A k \in 1..previousAt : Counts(k) => k \in calls'
  <2>1. \A k \in 1..previousAt : k \in 1..(previousAt - 1) \/ k = previousAt
    BY <1>6
  <2> QED  BY <1>1, <1>5, <2>1 DEF CountedTo
<1>8. CountedTo(Checkpoint)' /\ CountedTo(position - 1)'
  <2>1. position' - 1 = previousAt
    BY <1>1, <1>5, <1>6
  <2> QED  BY <1>3, <1>4, <1>7, <2>1 DEF CountedTo
<1>9. CountedTo(covered)'
  BY <1>1, <1>4, <1>5 DEF CountedTo
<1> QED  BY <1>1, <1>2, <1>4, <1>5, <1>8, <1>9 DEF WholeInv

\* Nothing that matters to it is read or stored.
LEMMA OthersAreRead ==
    ASSUME ~ PartialFiles, Inv, WholeInv,
           \/ \E start \in 1..MaxSnapshots : BeginImport(start)
           \/ FailChildOverlap \/ FailOverlap \/ EndOfFile \/ EndOfCopy \/ Crash
           \/ UNCHANGED vars
    PROVE  WholeInv'
<1>1. UNCHANGED <<kind, created, dated, log, calls>>
  BY DEF BeginImport, FailChildOverlap, FailOverlap, EndOfFile, EndOfCopy, Crash, vars, agentVars,
         ledgerVars
<1>2. /\ \A k : Counts(k)' <=> Counts(k)
      /\ \A k : Started(k)' <=> Started(k)
      /\ \A j, k : Latest(j, k)' <=> Latest(j, k)
      /\ Checkpoint' = Checkpoint
  BY <1>1 DEF Counts, Own, Child, Reports, TotalIn, Latest, First, Started, Starts, From,
              SameCounters, Usable, Measured, IntervalOf, Checkpoint
<1>3. Len(log) \in Nat
  BY Lengths
<1>4. covered' \in 0..Len(log') /\ CountedTo(covered)'
  <2>1. CASE covered' = covered
    BY <1>1, <1>2, <2>1 DEF WholeInv, CountedTo
  <2>2. CASE EndOfFile
    <3>1. pc = "reading" /\ position > Len(log) /\ covered' = Len(log)
      BY <2>2 DEF EndOfFile
    <3>2. position - 1 = Len(log)
      BY <1>3, <3>1 DEF WholeInv, Inv, ImportOK, BaselineOK
    <3> QED  BY <1>1, <1>2, <1>3, <3>1, <3>2 DEF WholeInv, CountedTo
  <2> QED  BY <2>1, <2>2 DEF BeginImport, FailChildOverlap, FailOverlap, EndOfCopy, Crash, vars
<1>5. (\A k \in calls' : Counts(k)') /\ CountedTo(Checkpoint)'
  BY <1>1, <1>2 DEF WholeInv, CountedTo
<1>6. CASE pc' = "idle"
  BY <1>4, <1>5, <1>6 DEF WholeInv
<1>7. CASE \E start \in 1..MaxSnapshots : BeginImport(start)
  <2>1. pc' = "reading" /\ position' = 1 /\ previousAt' = 0 /\ childStarted' = FALSE
    BY <1>7, <1>3 DEF BeginImport
  <2>2. Latest(0, 1) /\ ~ Started(1) /\ \A k \in 1..(position' - 1) : FALSE
    BY <2>1 DEF Latest, Started
  <2> QED  BY <1>1, <1>2, <1>3, <1>4, <1>5, <2>1, <2>2 DEF WholeInv, CountedTo
<1>8. CASE UNCHANGED vars
  <2>1. UNCHANGED <<pc, position, previousAt, childStarted>>
    BY <1>8 DEF vars, importVars
  <2> QED  BY <1>1, <1>2, <1>4, <1>5, <2>1 DEF WholeInv, CountedTo
<1> QED  BY <1>6, <1>7, <1>8 DEF FailChildOverlap, FailOverlap, EndOfFile, EndOfCopy, Crash, End

LEMMA WritingIsRead ==
    ASSUME Inv, WholeInv, NEW tokens \in Steps, NEW shape \in Shapes, NEW reset \in BOOLEAN,
           WriteSnapshot(tokens, shape, reset)
    PROVE  WholeInv'
<1>1. /\ UNCHANGED <<kind, created, dated, calls, pc, position, previousAt, childStarted, covered>>
      /\ \E s : log' = Append(log, s)
  BY DEF WriteSnapshot, ledgerVars, importVars
<1>2. /\ \A k \in 1..Len(log) : Counts(k)' <=> Counts(k)
      /\ \A k \in 1..(Len(log) + 1) : Started(k)' <=> Started(k)
      /\ \A k \in 1..(Len(log) + 1), j \in 0..Len(log) : Latest(j, k)' <=> Latest(j, k)
      /\ Len(log) <= Len(log') /\ Checkpoint' = Checkpoint
  BY <1>1, CountsStays DEF Checkpoint
<1>3. /\ Len(log) \in Nat /\ Len(log') \in Nat /\ Checkpoint \in 0..Len(log)
      /\ \A k \in calls : k \in 1..Len(log)
  BY <1>1, <1>2, Lengths DEF Inv, ImportOK, Countable
<1>4. /\ \A k \in calls' : Counts(k)'
      /\ CountedTo(Checkpoint)' /\ covered' \in 0..Len(log') /\ CountedTo(covered)'
  BY <1>1, <1>2, <1>3 DEF WholeInv, CountedTo
<1>5. CASE pc = "idle"
  BY <1>1, <1>4, <1>5 DEF WholeInv
<1>6. CASE pc # "idle"
  <2>1. /\ position \in 1..(Len(log) + 1) /\ previousAt \in 0..Len(log)
        /\ pc = "recording" => previousAt \in 1..Len(log)
    BY <1>3, <1>6 DEF WholeInv, Inv, ImportOK, BaselineOK, Countable
  <2>2. Latest(previousAt, position)' /\ (childStarted' <=> Started(position)') /\ position' <= Len(log') + 1
    BY <1>1, <1>2, <1>3, <1>6, <2>1 DEF WholeInv
  <2>3. pc = "reading" => CountedTo(position - 1)'
    BY <1>1, <1>2, <1>3, <2>1 DEF WholeInv, CountedTo
  <2>4. pc = "recording" => /\ position' = previousAt' + 1
                            /\ Counts(previousAt)' /\ CountedTo(previousAt - 1)'
    BY <1>1, <1>2, <1>3, <2>1 DEF WholeInv, CountedTo
  <2> QED  BY <1>1, <1>4, <2>2, <2>3, <2>4 DEF WholeInv
<1> QED  BY <1>5, <1>6

WholeFiles == ~ PartialFiles => WholeInv

LEMMA WholeFilesAreRead == Spec => []WholeFiles
<1>1. Init => WholeFiles
  <2> SUFFICES ASSUME Init PROVE WholeInv
    BY DEF WholeFiles
  <2>1. log = << >> /\ calls = {} /\ pc = "idle" /\ covered = 0
    BY DEF Init
  <2> QED  BY <2>1 DEF WholeInv, CountedTo, Checkpoint
<1>2. Inv /\ WholeFiles /\ [Next]_vars => WholeFiles'
  <2> SUFFICES ASSUME Inv, ~ PartialFiles, WholeInv, [Next]_vars PROVE WholeInv'
    BY DEF WholeFiles
  <2>1. CASE \E tokens \in Steps, shape \in Shapes, reset \in BOOLEAN :
                 WriteSnapshot(tokens, shape, reset)
    BY <2>1, WritingIsRead
  <2>2. CASE SkipWithoutTotal \/ SkipInherited \/ SkipChildBaseline \/ SkipUnusable \/ SkipDuplicate
    BY <2>2, SkipsAreRead
  <2>3. CASE AppendRawEvent
    BY <2>3, StoresAreRead
  <2>4. CASE RecordModelCall
    BY <2>4, CallsAreRead
  <2>5. CASE \/ \E start \in 1..MaxSnapshots : BeginImport(start)
             \/ FailChildOverlap \/ FailOverlap \/ EndOfFile \/ EndOfCopy \/ Crash
             \/ UNCHANGED vars
    BY <2>5, OthersAreRead
  <2> QED  BY <2>1, <2>2, <2>3, <2>4, <2>5 DEF Next, Step
<1> QED  BY <1>1, <1>2, InitInv, StepInv, PTL DEF Spec

\* Importing again what an import has read to its end records nothing new, whatever the log holds:
\* children, resets, contradictions, snapshots without a total.
THEOREM ReimportsRecordNothing == Spec => ReimportIsIdempotent
<1>1. ASSUME Inv, WholeFiles, [Next]_vars, covered = Len(log), ~ PartialFiles
      PROVE  UNCHANGED ledgerVars
  <2>1. WholeInv /\ \A k \in 1..Len(log) : Counts(k) => k \in calls
    BY <1>1 DEF WholeFiles, WholeInv, CountedTo
  <2>2. ASSUME AppendRawEvent PROVE FALSE
    <3>1. Reading /\ Measurable /\ Usable(Current.usage, Baseline) /\ position \notin calls
      BY <2>2 DEF AppendRawEvent
    <3>2. Counts(position) /\ position \in 1..Len(log)
      BY <1>1, <2>1, <3>1, MeasuredHasBaseline, SeenAs, Seen DEF Measurable
    <3> QED  BY <2>1, <3>1, <3>2
  <2>3. ASSUME RecordModelCall PROVE FALSE
    <3>1. pc = "recording"
      BY <2>3 DEF RecordModelCall
    <3>2. Counts(previousAt) /\ Countable(previousAt) /\ Checkpoint < previousAt
      BY <1>1, <2>1, <3>1 DEF WholeInv, Inv, ImportOK
    <3>3. previousAt \in calls
      BY <2>1, <3>2 DEF Countable
    <3>4. previousAt <= Checkpoint /\ previousAt \in Nat /\ Checkpoint \in Nat
      BY <1>1, <3>2, <3>3, Lengths DEF Inv, ImportOK, Countable
    <3> QED  BY <3>2, <3>4
  <2> QED  BY <1>1, <2>2, <2>3 DEF Next, Step, vars, WriteSnapshot, BeginImport, SkipWithoutTotal,
              SkipInherited, SkipChildBaseline, FailChildOverlap, SkipUnusable, SkipDuplicate,
              FailOverlap, EndOfFile, EndOfCopy, Crash
<1>2. Inv /\ WholeFiles /\ [Next]_vars =>
          [covered = Len(log) /\ ~ PartialFiles => UNCHANGED ledgerVars]_vars
  BY <1>1
<1> QED  BY <1>2, IntervalsAreUsed, WholeFilesAreRead, PTL DEF Spec, ReimportIsIdempotent

\* The logs of the agent show every turn: a forked session without inherited history starts from
\* nothing, and each snapshot reports the total and the turn.
TurnsAreShown ==
    /\ Unseen \subseteq {0}
    /\ \A shape \in Shapes : Total \in shape.counters /\ shape.last

\* Then a first snapshot speaks of one turn only.
ShownInv ==
    /\ log = << >> => meter = 0
    /\ \A k \in 1..Len(log) : Reports(log, k)
    /\ Len(log) > 0 => SameCounters(log[1])
    /\ ~ PartialFiles => outcome # "failed"

LEMMA ShownWrites ==
    ASSUME TurnsAreShown, Inv, ShownInv,
           NEW tokens \in Steps, NEW shape \in Shapes, NEW reset \in BOOLEAN,
           WriteSnapshot(tokens, shape, reset)
    PROVE  ShownInv'
<1> DEFINE fresh == reset \/ (kind = "spawn" /\ Len(log) = created)
           n     == (IF fresh THEN 0 ELSE meter) + tokens
           s     == [usage |-> Report(n, shape),
                     last |-> IF shape.last THEN Report(tokens, shape) ELSE NoUsage,
                     used |-> UsedAt(Len(log)) + IF Len(log) >= created THEN tokens ELSE 0]
<1>1. log' = Append(log, s) /\ outcome' = outcome
  BY DEF WriteSnapshot, importVars
<1>2. log \in Seq(Snapshot) /\ meter \in Nat /\ tokens \in Nat /\ Len(log) \in Nat
  BY CodexAssumption DEF Inv, AgentOK, LogOK
<1>3. /\ Len(log') = Len(log) + 1 /\ log'[Len(log) + 1] = s /\ log' # << >>
      /\ \A k \in 1..Len(log) : log'[k] = log[k]
  BY <1>1, <1>2
<1>4. n \in Nat /\ (log = << >> => n = tokens)
  BY <1>2 DEF ShownInv
<1>5. s.usage = Report(n, shape) /\ s.last = Report(tokens, shape)
  BY DEF TurnsAreShown
<1> HIDE DEF s, n
<1>6. s.usage[Total] # Missing /\ s.last # NoUsage
  <2>1. Report(n, shape)[Total] = Amount(Total, n) /\ Amount(Total, n) = n
    BY CodexAssumption DEF Report, TurnsAreShown, Amount
  <2> QED  BY <1>2, <1>4, <1>5, <2>1, ReportOfTotal, CodexAssumption
<1>7. log = << >> => SameCounters(s)
  BY <1>4, <1>5, <1>6 DEF SameCounters
<1>8. SameCounters(log'[1])
  <2>1. CASE log = << >>
    BY <1>3, <1>7, <2>1
  <2>2. CASE log # << >>
    <3>1. Len(log) > 0
      BY <1>2, <2>2, EmptySeq
    <3> QED  BY <1>3, <1>2, <3>1 DEF ShownInv
  <2> QED  BY <2>1, <2>2
<1>9. \A k \in 1..Len(log') : Reports(log', k)
  BY <1>2, <1>3, <1>6 DEF ShownInv, Reports
<1> QED  BY <1>1, <1>3, <1>8, <1>9 DEF ShownInv

\* Importing a log as it grows never ends in an error, if the log shows every turn.
THEOREM WholeLogsImport ==
    ASSUME TurnsAreShown
    PROVE  Spec => []WholeLogImports
<1>1. Init => ShownInv
  <2> SUFFICES ASSUME Init PROVE ShownInv
    OBVIOUS
  <2>1. log = << >> /\ outcome = "none" /\ meter \in {0} \cup Unseen
    BY Zenon DEF Init
  <2> QED  BY <2>1 DEF ShownInv, TurnsAreShown
<1>2. Inv /\ WholeFiles /\ ShownInv /\ [Next]_vars => ShownInv'
  <2> SUFFICES ASSUME Inv, WholeFiles, ShownInv, [Next]_vars PROVE ShownInv'
    OBVIOUS
  <2>1. ASSUME UNCHANGED <<log, meter>>, ~ PartialFiles => outcome' # "failed" PROVE ShownInv'
    BY <2>1 DEF ShownInv, Reports, SameCounters
  <2>2. ASSUME FailChildOverlap, ~ PartialFiles PROVE FALSE
    <3>1. Reading /\ HasTotal /\ NeedsCheckpoint /\ WholeInv
      BY <2>2 DEF FailChildOverlap, WholeFiles
    <3>2. previousAt = 0 /\ position \in 1..Len(log) /\ Latest(previousAt, position)
      BY <3>1, SeenAs, Seen
    <3>3. position = 1
      <4>1. CASE position > 1
        <5>1. 1 \in (previousAt + 1)..(position - 1) /\ 1 \in 1..Len(log)
          BY <3>2, <4>1, Lengths
        <5> QED  BY <3>2, <5>1 DEF Latest, ShownInv
      <4> QED  BY <3>2, <4>1
    <3> QED  BY <3>1, <3>2, <3>3, Lengths DEF ShownInv, NeedsCheckpoint, Current
  <2>3. ASSUME FailOverlap, ~ PartialFiles PROVE FALSE
    <3>1. /\ Reading /\ Measurable /\ WholeInv /\ HasTotal
          /\ Usable(Current.usage, Baseline) /\ position \notin calls
          /\ position <= Checkpoint \/ ~ Usable(Current.usage, StoredBaseline)
      BY <2>3 DEF FailOverlap, WholeFiles, Measurable
    <3>2. Counts(position) /\ ~ NeedsCheckpoint
      BY <3>1, MeasuredHasBaseline, SeenAs DEF Measurable
    <3>3. /\ position \in 1..Len(log) /\ previousAt \in 0..(position - 1)
          /\ Latest(previousAt, position) /\ Checkpoint \in 0..Len(log)
          /\ Checkpoint # 0 => Checkpoint \in calls
      BY <3>1, Seen, Lengths
    <3>4. Checkpoint < position
      BY <3>1, <3>2, <3>3 DEF WholeInv, CountedTo
    <3>5. ~ (Checkpoint > previousAt)
      <4>1. ASSUME Checkpoint > previousAt PROVE FALSE
        <5>1. Checkpoint \in (previousAt + 1)..(position - 1) /\ Reports(log, Checkpoint)
          BY <3>3, <3>4, <4>1 DEF Inv, ImportOK, Countable
        <5> QED  BY <3>3, <5>1 DEF Latest
      <4> QED  BY <4>1
    <3>6. StoredBaseline = Baseline
      BY <3>2, <3>5 DEF StoredBaseline, BaselineAt
    <3> QED  BY <3>1, <3>3, <3>4, <3>6
  <2>4. CASE \E tokens \in Steps, shape \in Shapes, reset \in BOOLEAN :
                 WriteSnapshot(tokens, shape, reset)
    BY <2>4, ShownWrites
  <2>5. CASE FailChildOverlap \/ FailOverlap
    BY <2>1, <2>2, <2>3, <2>5 DEF FailChildOverlap, FailOverlap, agentVars
  <2>6. CASE \/ \E start \in 1..MaxSnapshots : BeginImport(start)
             \/ SkipWithoutTotal \/ SkipInherited \/ SkipChildBaseline \/ SkipUnusable
             \/ SkipDuplicate \/ AppendRawEvent \/ RecordModelCall
             \/ EndOfFile \/ EndOfCopy \/ Crash \/ UNCHANGED vars
    <3>1. UNCHANGED <<log, meter>> /\ outcome' \in {outcome, "none", "complete"}
      BY <2>6 DEF BeginImport, SkipWithoutTotal, SkipInherited, SkipChildBaseline, SkipUnusable,
             SkipDuplicate, AppendRawEvent, RecordModelCall, EndOfFile, EndOfCopy, Crash, End,
             vars, agentVars, importVars
    <3> QED  BY <2>1, <3>1 DEF ShownInv
  <2> QED  BY <2>4, <2>5, <2>6 DEF Next, Step
<1>3. ShownInv => WholeLogImports
  BY DEF ShownInv, WholeLogImports
<1> QED  BY <1>1, <1>2, <1>3, IntervalsAreUsed, WholeFilesAreRead, PTL DEF Spec

===============================================================================
