--------------------------- MODULE AcceptanceProofs ---------------------------
(***************************************************************************)
(* The acceptance gate, for any number of boundaries, outputs and runs,    *)
(* however they overlap, fail or die.                                      *)
(*                                                                         *)
(* A published boundary is spent.  The proof follows the reservations.  A  *)
(* run holds those it has made and neither released nor committed          *)
(* (HeldBy); no two runs hold the same one.  A boundary of a publication   *)
(* whose run is over is used, or it has been left behind: reserved, and    *)
(* held by nobody (LeftBehind).  Nobody removes a file that is left        *)
(* behind, so that a later run, which has seen no used file, cannot        *)
(* reserve the boundary either.                                            *)
(*                                                                         *)
(* Evidence follows its boundary: a boundary stands between the rows dated *)
(* up to its start and the rows appended after it (Divides), and rows that *)
(* back a claim stay (Backed).                                             *)
(*                                                                         *)
(* Packages are inspectable: what a run gathers has the derived statuses   *)
(* and one item for an agent and for a boundary (GatheredInv), which is    *)
(* what inspect asks of a package, and determines it.                      *)
(***************************************************************************)
EXTENDS AcceptanceProperties, TLAPS

Active == {"evaluating", "checking", "reserving", "publishing", "committing"}

HeldBy(x) ==
    IF x.stage \in {"reserving", "publishing"} THEN x.mine
    ELSE IF x.stage = "committing" THEN x.ids ELSE {}

LeftBehind(runs, files, b) == b \in files /\ \A r \in Runs : b \notin HeldBy(runs[r])

Ready == {b \in Boundaries : boundary[b].stage = "ready"}

RunShape(x) ==
    x = [stage |-> x.stage, all |-> x.all, ids |-> x.ids, evidence |-> x.evidence,
         advanced |-> x.advanced, texts |-> x.texts, ledger |-> x.ledger, cutoff |-> x.cutoff,
         mine |-> x.mine, out |-> x.out, settled |-> x.settled]

\* What a run that is under way knows of its boundaries, by how far it has got.
ActiveOK(x, ready, spent, over) ==
    /\ RunShape(x) /\ x.stage \in Active
    /\ x.ids \subseteq x.all /\ x.mine \subseteq x.all /\ x.all \subseteq Boundaries
    /\ x.stage = "evaluating" => x.all \ x.ids \subseteq ready
    /\ x.stage = "evaluating" => x.advanced \subseteq ready \X BOOLEAN
    /\ x.stage # "evaluating" => x.all \subseteq ready
    /\ x.settled \subseteq over
    /\ x.stage \in {"evaluating", "checking"} => x.mine = {}
    /\ x.stage = "reserving" => x.mine \cup x.ids = x.all
    /\ x.stage = "publishing" => x.mine = x.all /\ x.out \subseteq Outputs
    /\ x.stage = "committing" => x.all \ x.ids \subseteq spent

RunOK(x, ready, spent, over) ==
    x = Idle \/ x = [stage |-> "over"] \/ ActiveOK(x, ready, spent, over)

FilesOK ==
    /\ clock \in 1..MaxTime /\ broken \in BOOLEAN
    /\ used \cup reserved \subseteq Ready
    /\ taken \subseteq Outputs /\ settled \subseteq Boundaries
    /\ boundary = [b \in Boundaries |-> boundary[b]]

\* Before it has published, a run uses no boundary that was settled when it began, unless that
\* is left behind.
Respects(x, runs, files) ==
    x.stage \in {"reserving", "publishing"} =>
        \A b \in x.all \cap x.settled : LeftBehind(runs, files, b)

Inv ==
    /\ FilesOK
    /\ run = [r \in Runs |-> run[r]]
    /\ \A r \in Runs : RunOK(run[r], Ready, used, settled)
    /\ \A r \in Runs : HeldBy(run[r]) \subseteq reserved
    /\ \A r, s \in Runs : r # s => HeldBy(run[r]) \cap HeldBy(run[s]) = {}
    /\ \A b \in settled : b \in used \/ LeftBehind(run, reserved, b)
    /\ \A r \in Runs : Respects(run[r], run, reserved)
    /\ PublishedBoundaryIsSpent

-----------------------------------------------------------------------------

\* What a run knows stays true when files are added.
LEMMA RunStays ==
    ASSUME NEW x, NEW ready, NEW spent, NEW over, NEW ready2, NEW spent2, NEW over2,
           ready \subseteq ready2, spent \subseteq spent2, over \subseteq over2,
           RunOK(x, ready, spent, over)
    PROVE  RunOK(x, ready2, spent2, over2)
<1>1. ActiveOK(x, ready, spent, over) => ActiveOK(x, ready2, spent2, over2)
  BY DEF ActiveOK
<1> QED  BY <1>1 DEF RunOK

LEMMA UnderWay ==
    ASSUME Inv, NEW r \in Runs, run[r].stage \in Active
    PROVE  ActiveOK(run[r], Ready, used, settled)
BY DEF Inv, RunOK, Idle, Active

\* A step of run r that leaves alone what others hold and what is left behind.
LEMMA AnyRunStep ==
    ASSUME Inv, NEW r \in Runs, NEW new, run' = [run EXCEPT ![r] = new],
           boundary' = boundary, used \subseteq used', settled \subseteq settled', FilesOK',
           RunOK(new, Ready, used', settled'),
           HeldBy(new) \subseteq reserved',
           \A s \in Runs \ {r} : /\ HeldBy(run[s]) \subseteq reserved'
                                 /\ HeldBy(run[s]) \cap HeldBy(new) = {},
           \A b : LeftBehind(run, reserved, b) => b \in reserved' /\ b \notin HeldBy(new),
           \A b \in settled' \ settled : b \in used' \/ LeftBehind(run', reserved', b),
           Respects(new, run, reserved),
           PublishedBoundaryIsSpent'
    PROVE  Inv'
<1>1. /\ run' = [s \in Runs |-> run'[s]] /\ run'[r] = new
      /\ \A s \in Runs \ {r} : run'[s] = run[s]
  BY DEF Inv
<1>2. \A b : LeftBehind(run, reserved, b) => LeftBehind(run', reserved', b)
  BY <1>1 DEF LeftBehind
<1>3. Ready' = Ready
  BY DEF Ready
<1>4. \A s \in Runs : RunOK(run'[s], Ready', used', settled')
  <2>1. \A s \in Runs \ {r} : RunOK(run[s], Ready, used', settled')
    BY RunStays DEF Inv
  <2> QED  BY <1>1, <1>3, <2>1
<1>5. \A s \in Runs : HeldBy(run'[s]) \subseteq reserved'
  BY <1>1
<1>6. \A s, t \in Runs : s # t => HeldBy(run'[s]) \cap HeldBy(run'[t]) = {}
  <2> TAKE s, t \in Runs
  <2>1. CASE s # r /\ t # r
    BY <1>1, <2>1 DEF Inv
  <2>2. CASE s = r /\ t # r
    BY <1>1, <2>2
  <2>3. CASE s # r /\ t = r
    BY <1>1, <2>3
  <2> QED  BY <2>1, <2>2, <2>3
<1>7. \A b \in settled' : b \in used' \/ LeftBehind(run', reserved', b)
  BY <1>2 DEF Inv
<1>8. \A s \in Runs : Respects(run'[s], run', reserved')
  BY <1>1, <1>2 DEF Inv, Respects
<1> QED  BY <1>1, <1>4, <1>5, <1>6, <1>7, <1>8 DEF Inv

\* The steps that touch no file of a boundary.
LEMMA ReadingStep ==
    ASSUME Inv, NEW r \in Runs, NEW new, run' = [run EXCEPT ![r] = new],
           UNCHANGED <<clock, broken, boundary, used, reserved, taken, published, settled>>,
           RunOK(new, Ready, used, settled), HeldBy(new) = HeldBy(run[r]),
           Respects(new, run, reserved)
    PROVE  Inv'
<1>1. FilesOK' /\ PublishedBoundaryIsSpent'
  BY DEF Inv, FilesOK, PublishedBoundaryIsSpent, Ready
<1>2. /\ HeldBy(new) \subseteq reserved
      /\ \A s \in Runs \ {r} : /\ HeldBy(run[s]) \subseteq reserved
                               /\ HeldBy(run[s]) \cap HeldBy(new) = {}
  BY DEF Inv
<1>3. \A b : LeftBehind(run, reserved, b) => b \in reserved /\ b \notin HeldBy(new)
  BY DEF LeftBehind
<1> QED  BY <1>1, <1>2, <1>3, AnyRunStep

\* A run looks at the ledger, its boundaries and the output, and remembers what it has seen.
LEMMA LookingKeepsInv ==
    ASSUME Inv, NEW r \in Runs,
           \/ \E ids \in SUBSET Boundaries : Gather(r, ids)
           \/ \E b \in Boundaries : ReadPosition(r, b)
           \/ \E b \in Boundaries, advanced \in BOOLEAN : ReadEvidence(r, b, advanced)
           \/ Assemble(r) \/ CheckUsed(r)
           \/ \E o \in Outputs : CheckOutput(r, o)
    PROVE  Inv'
<1> DEFINE x == run[r]
<1>1. UNCHANGED <<clock, broken, boundary, used, reserved, taken, published, settled>>
  BY DEF Gather, ReadPosition, ReadEvidence, Assemble, CheckUsed, CheckOutput
<1>2. ASSUME NEW ids \in SUBSET Boundaries, Gather(r, ids)
      PROVE  Inv'
  <2> DEFINE texts  == acceptanceSafeReport
             status == IF broken THEN FAIL ELSE PASS
             new == [stage |-> "evaluating", all |-> ids, ids |-> ids, evidence |-> {},
                     advanced |-> {}, texts |-> texts, ledger |-> status, cutoff |-> clock,
                     mine |-> {}, out |-> {}, settled |-> settled]
  <2>1. run' = [run EXCEPT ![r] = new] /\ x.stage = "idle"
    BY <1>2 DEF Gather, SetRun
  <2> HIDE DEF texts, status
  <2>2. ActiveOK(new, Ready, used, settled)
    BY DEF ActiveOK, RunShape, Active
  <2>3. HeldBy(new) = {} /\ HeldBy(x) = {} /\ Respects(new, run, reserved)
    BY <2>1 DEF HeldBy, Respects
  <2> HIDE DEF new
  <2> QED  BY <1>1, <2>1, <2>2, <2>3, ReadingStep DEF RunOK
<1>3. ASSUME NEW b \in Boundaries, ReadPosition(r, b)
      PROVE  Inv'
  <2>1. x.stage = "evaluating" /\ ActiveOK(x, Ready, used, settled) /\ b \in Ready
    BY <1>3, UnderWay DEF ReadPosition, BoundaryIsUsable, Ready, Active
  <2> DEFINE advanced == {<<b, /\ Len(ledger) > boundary[b].events
                               /\ sourceModelCallCount(boundary[b].agent) > boundary[b].calls>>}
             new == [x EXCEPT !.advanced = advanced]
  <2>2. run' = [run EXCEPT ![r] = new]
    BY <1>3 DEF ReadPosition, SetRun
  <2>3. advanced \subseteq Ready \X BOOLEAN
    <3>1. \A v \in BOOLEAN : {<<b, v>>} \subseteq Ready \X BOOLEAN
      BY <2>1
    <3> QED  BY <3>1
  <2> HIDE DEF advanced
  <2>4. /\ RunShape(new) /\ new.stage = "evaluating" /\ new.advanced = advanced
        /\ new.all = x.all /\ new.ids = x.ids /\ new.mine = x.mine /\ new.settled = x.settled
    <3>1. RunShape(x) /\ x.stage = "evaluating"
      BY <2>1 DEF ActiveOK
    <3>2. new = [x EXCEPT !.advanced = advanced]
      OBVIOUS
    <3> HIDE DEF x, new
    <3> QED  BY <3>1, <3>2 DEF RunShape
  <2> HIDE DEF new
  <2>5. ActiveOK(new, Ready, used, settled)
    BY <2>1, <2>3, <2>4 DEF ActiveOK
  <2>6. HeldBy(new) = HeldBy(x) /\ Respects(new, run, reserved)
    BY <2>1, <2>4 DEF HeldBy, Respects
  <2> QED  BY <1>1, <2>2, <2>5, <2>6, ReadingStep DEF RunOK
<1>4. ASSUME NEW b \in Boundaries, NEW advanced \in BOOLEAN, ReadEvidence(r, b, advanced)
      PROVE  Inv'
  <2>1. /\ x.stage = "evaluating" /\ ActiveOK(x, Ready, used, settled)
        /\ <<b, advanced>> \in x.advanced
    BY <1>4, UnderWay DEF ReadEvidence, Active
  <2>2. b \in Ready
    BY <2>1 DEF ActiveOK
  <2>3. PICK item : run' = [run EXCEPT ![r] = [x EXCEPT !.evidence = @ \cup {item},
                                                       !.advanced = {}, !.ids = @ \ {b}]]
    BY <1>4, Zenon DEF ReadEvidence, SetRun
  <2> DEFINE new == [x EXCEPT !.evidence = @ \cup {item}, !.advanced = {}, !.ids = @ \ {b}]
  <2>4. /\ RunShape(new) /\ new.stage = "evaluating" /\ new.advanced = {}
        /\ new.all = x.all /\ new.ids = x.ids \ {b} /\ new.mine = x.mine
        /\ new.settled = x.settled
    <3>1. RunShape(x) /\ x.stage = "evaluating"
      BY <2>1 DEF ActiveOK
    <3>2. new = [x EXCEPT !.evidence = @ \cup {item}, !.advanced = {}, !.ids = @ \ {b}]
      OBVIOUS
    <3> HIDE DEF x, new
    <3> QED  BY <3>1, <3>2 DEF RunShape
  <2>5. run' = [run EXCEPT ![r] = new]
    BY <2>3
  <2> HIDE DEF new
  <2>6. ActiveOK(new, Ready, used, settled)
    BY <2>1, <2>2, <2>4 DEF ActiveOK
  <2>7. HeldBy(new) = HeldBy(x) /\ Respects(new, run, reserved)
    BY <2>1, <2>4 DEF HeldBy, Respects
  <2> QED  BY <1>1, <2>5, <2>6, <2>7, ReadingStep DEF RunOK
<1>5. ASSUME Assemble(r) PROVE Inv'
  <2>1. x.stage = "evaluating" /\ x.ids = {} /\ ActiveOK(x, Ready, used, settled)
    BY <1>5, UnderWay DEF Assemble, Active
  <2> DEFINE evidence == {Evaluated([e EXCEPT !.privacy = PASS]) : e \in x.evidence}
             new == [x EXCEPT !.stage = "checking", !.evidence = evidence]
  <2>2. run' = [run EXCEPT ![r] = new]
    BY <1>5, Zenon DEF Assemble, SetRun
  <2> HIDE DEF evidence
  <2>3. /\ RunShape(new) /\ new.stage = "checking" /\ new.mine = x.mine
        /\ new.all = x.all /\ new.ids = x.ids /\ new.settled = x.settled
    <3>1. RunShape(x) /\ x.stage = "evaluating"
      BY <2>1 DEF ActiveOK
    <3>2. new = [x EXCEPT !.stage = "checking", !.evidence = evidence]
      OBVIOUS
    <3> HIDE DEF x, new
    <3> QED  BY <3>1, <3>2 DEF RunShape
  <2> HIDE DEF new
  <2>4. ActiveOK(new, Ready, used, settled)
    BY <2>1, <2>3 DEF ActiveOK, Active
  <2>5. HeldBy(new) = HeldBy(x) /\ Respects(new, run, reserved)
    BY <2>1, <2>3 DEF HeldBy, Respects
  <2> QED  BY <1>1, <2>2, <2>4, <2>5, ReadingStep DEF RunOK
<1>6. ASSUME CheckUsed(r) PROVE Inv'
  <2>1. /\ x.stage = "checking" /\ x.all \cap used = {}
        /\ ActiveOK(x, Ready, used, settled)
    BY <1>6, UnderWay DEF CheckUsed, Active
  <2> DEFINE new == [x EXCEPT !.stage = "reserving", !.ids = x.all]
  <2>2. run' = [run EXCEPT ![r] = new]
    BY <1>6 DEF CheckUsed, SetRun
  <2>3. /\ RunShape(new) /\ new.stage = "reserving" /\ new.mine = x.mine
        /\ new.all = x.all /\ new.ids = x.all /\ new.settled = x.settled
    <3>1. RunShape(x) /\ x.stage = "checking"
      BY <2>1 DEF ActiveOK
    <3>2. new = [x EXCEPT !.stage = "reserving", !.ids = x.all]
      OBVIOUS
    <3> HIDE DEF x, new
    <3> QED  BY <3>1, <3>2 DEF RunShape
  <2> HIDE DEF new
  <2>4. ActiveOK(new, Ready, used, settled)
    BY <2>1, <2>3 DEF ActiveOK, Active
  <2>5. HeldBy(new) = HeldBy(x)
    BY <2>1, <2>3 DEF HeldBy, ActiveOK
  <2>6. Respects(new, run, reserved)
    BY <2>1, <2>3 DEF Respects, ActiveOK, Inv
  <2> QED  BY <1>1, <2>2, <2>4, <2>5, <2>6, ReadingStep DEF RunOK
<1>7. ASSUME NEW o \in Outputs, CheckOutput(r, o) PROVE Inv'
  <2>1. x.stage = "reserving" /\ x.ids = {} /\ ActiveOK(x, Ready, used, settled)
    BY <1>7, UnderWay DEF CheckOutput, Active
  <2> DEFINE new == [x EXCEPT !.stage = "publishing", !.out = {o}]
  <2>2. run' = [run EXCEPT ![r] = new]
    BY <1>7 DEF CheckOutput, SetRun
  <2>3. /\ RunShape(new) /\ new.stage = "publishing" /\ new.mine = x.mine /\ new.out = {o}
        /\ new.all = x.all /\ new.ids = x.ids /\ new.settled = x.settled
    <3>1. RunShape(x) /\ x.stage = "reserving"
      BY <2>1 DEF ActiveOK
    <3>2. new = [x EXCEPT !.stage = "publishing", !.out = {o}]
      OBVIOUS
    <3> HIDE DEF x, new
    <3> QED  BY <3>1, <3>2 DEF RunShape
  <2> HIDE DEF new
  <2>4. ActiveOK(new, Ready, used, settled)
    BY <2>1, <2>3 DEF ActiveOK, Active
  <2>5. HeldBy(new) = HeldBy(x)
    BY <2>1, <2>3 DEF HeldBy
  <2>6. Respects(new, run, reserved)
    BY <2>1, <2>3 DEF Respects, Inv
  <2> QED  BY <1>1, <2>2, <2>4, <2>5, <2>6, ReadingStep DEF RunOK
<1> QED  BY <1>2, <1>3, <1>4, <1>5, <1>6, <1>7

\* A reservation is made only where there is none.
LEMMA ReserveKeepsInv ==
    ASSUME Inv, NEW r \in Runs, NEW b \in Boundaries, Reserve(r, b)
    PROVE  Inv'
<1> DEFINE x   == run[r]
           new == [x EXCEPT !.ids = @ \ {b}, !.mine = @ \cup {b}]
<1>1. /\ x.stage = "reserving" /\ b \in x.ids /\ b \notin reserved
      /\ ActiveOK(x, Ready, used, settled)
  BY UnderWay DEF Reserve, Active
<1>2. /\ run' = [run EXCEPT ![r] = new] /\ reserved' = reserved \cup {b}
      /\ UNCHANGED <<clock, broken, boundary, used, taken, published, settled>>
  BY DEF Reserve, SetRun
<1>3. /\ RunShape(new) /\ new.stage = "reserving" /\ new.mine = x.mine \cup {b}
      /\ new.all = x.all /\ new.ids = x.ids \ {b} /\ new.settled = x.settled
  <2>1. RunShape(x) /\ x.stage = "reserving"
    BY <1>1 DEF ActiveOK
  <2>2. new = [x EXCEPT !.ids = @ \ {b}, !.mine = @ \cup {b}]
    OBVIOUS
  <2> HIDE DEF x, new
  <2> QED  BY <2>1, <2>2 DEF RunShape
<1> HIDE DEF new
<1>4. ActiveOK(new, Ready, used, settled)
  BY <1>1, <1>3 DEF ActiveOK
<1>5. HeldBy(new) = HeldBy(x) \cup {b}
  BY <1>1, <1>3 DEF HeldBy
<1>6. \A s \in Runs : HeldBy(run[s]) \subseteq reserved
  BY DEF Inv
<1>7. \A s \in Runs \ {r} : /\ HeldBy(run[s]) \subseteq reserved'
                            /\ HeldBy(run[s]) \cap HeldBy(new) = {}
  BY <1>1, <1>2, <1>5, <1>6 DEF Inv
<1>8. \A c : LeftBehind(run, reserved, c) => c \in reserved' /\ c \notin HeldBy(new)
  BY <1>1, <1>2, <1>5 DEF LeftBehind
<1>9. b \in Ready
  BY <1>1 DEF ActiveOK
<1>10. FilesOK' /\ PublishedBoundaryIsSpent'
  BY <1>2, <1>9 DEF Inv, FilesOK, PublishedBoundaryIsSpent, Ready
<1>11. Respects(new, run, reserved)
  BY <1>1, <1>3 DEF Respects, Inv
<1>12. HeldBy(new) \subseteq reserved'
  BY <1>2, <1>5, <1>6
<1> QED  BY <1>2, <1>4, <1>7, <1>8, <1>10, <1>11, <1>12, AnyRunStep DEF RunOK

\* A reservation of its own becomes a used file.
LEMMA CommitKeepsInv ==
    ASSUME Inv, NEW r \in Runs, NEW b \in Boundaries, Commit(r, b)
    PROVE  Inv'
<1> DEFINE x   == run[r]
           new == [x EXCEPT !.ids = @ \ {b}]
<1>1. /\ x.stage = "committing" /\ b \in x.ids /\ b \in reserved
      /\ ActiveOK(x, Ready, used, settled)
  BY UnderWay DEF Commit, Active
<1>2. /\ run' = [run EXCEPT ![r] = new]
      /\ reserved' = reserved \ {b} /\ used' = used \cup {b}
      /\ UNCHANGED <<clock, broken, boundary, taken, published, settled>>
  BY DEF Commit, SetRun
<1>3. /\ RunShape(new) /\ new.stage = "committing" /\ new.mine = x.mine
      /\ new.all = x.all /\ new.ids = x.ids \ {b} /\ new.settled = x.settled
  <2>1. RunShape(x) /\ x.stage = "committing"
    BY <1>1 DEF ActiveOK
  <2>2. new = [x EXCEPT !.ids = @ \ {b}]
    OBVIOUS
  <2> HIDE DEF x, new
  <2> QED  BY <2>1, <2>2 DEF RunShape
<1> HIDE DEF new
<1>4. ActiveOK(new, Ready, used', settled')
  BY <1>1, <1>2, <1>3 DEF ActiveOK
<1>5. HeldBy(new) = HeldBy(x) \ {b} /\ b \in HeldBy(x)
  BY <1>1, <1>3 DEF HeldBy
<1>6. HeldBy(new) \subseteq reserved'
  BY <1>2, <1>5 DEF Inv
<1>7. \A s \in Runs \ {r} : /\ HeldBy(run[s]) \subseteq reserved'
                            /\ HeldBy(run[s]) \cap HeldBy(new) = {}
  BY <1>2, <1>5 DEF Inv
<1>8. \A c : LeftBehind(run, reserved, c) => c \in reserved' /\ c \notin HeldBy(new)
  BY <1>2, <1>5 DEF LeftBehind
<1>9. FilesOK' /\ PublishedBoundaryIsSpent'
  BY <1>1, <1>2 DEF Inv, FilesOK, PublishedBoundaryIsSpent, Ready
<1>10. Respects(new, run, reserved)
  BY <1>3 DEF Respects
<1> QED  BY <1>2, <1>4, <1>6, <1>7, <1>8, <1>9, <1>10, AnyRunStep DEF RunOK

\* Whoever publishes holds all its boundaries, so none of them is left behind: none was settled
\* when the run began.
LEMMA PublishKeepsInv ==
    ASSUME Inv, NEW r \in Runs, NEW o \in Outputs, Publish(r, o)
    PROVE  Inv'
<1> DEFINE x   == run[r]
           new == [x EXCEPT !.stage = "committing", !.ids = x.all]
<1>1. x.stage = "publishing" /\ ActiveOK(x, Ready, used, settled)
  BY UnderWay DEF Publish, Active
<1>2. /\ run' = [run EXCEPT ![r] = new] /\ taken' = taken \cup {o}
      /\ UNCHANGED <<clock, broken, boundary, used, reserved, settled>>
  BY DEF Publish, SetRun
<1>3. /\ RunShape(new) /\ new.stage = "committing" /\ new.mine = x.mine
      /\ new.all = x.all /\ new.ids = x.all /\ new.settled = x.settled
  <2>1. RunShape(x) /\ x.stage = "publishing"
    BY <1>1 DEF ActiveOK
  <2>2. new = [x EXCEPT !.stage = "committing", !.ids = x.all]
    OBVIOUS
  <2> HIDE DEF x, new
  <2> QED  BY <2>1, <2>2 DEF RunShape
<1> HIDE DEF new
<1>4. ActiveOK(new, Ready, used', settled')
  BY <1>1, <1>2, <1>3 DEF ActiveOK, Active
<1>5. HeldBy(new) = x.all /\ HeldBy(x) = x.all
  BY <1>1, <1>3 DEF HeldBy, ActiveOK
<1>6. /\ HeldBy(new) \subseteq reserved'
      /\ \A s \in Runs \ {r} : /\ HeldBy(run[s]) \subseteq reserved'
                               /\ HeldBy(run[s]) \cap HeldBy(new) = {}
  BY <1>2, <1>5 DEF Inv
<1>7. \A b : LeftBehind(run, reserved, b) => b \in reserved' /\ b \notin HeldBy(new)
  BY <1>2, <1>5 DEF LeftBehind
<1>8. x.all \cap x.settled = {}
  BY <1>1, <1>5 DEF Inv, Respects, LeftBehind
<1>9. PublishedBoundaryIsSpent'
  <2> DEFINE package == Package(x.texts, x.ledger, x.evidence)
             p == [output |-> o, ids |-> x.all, settled |-> x.settled, package |-> package]
  <2>1. published' = published \cup {p}
    BY Zenon DEF Publish
  <2>2. p.ids = x.all /\ p.settled = x.settled
    OBVIOUS
  <2> HIDE DEF p
  <2> QED  BY <1>8, <2>1, <2>2 DEF Inv, PublishedBoundaryIsSpent
<1>10. FilesOK'
  BY <1>2 DEF Inv, FilesOK, Ready
<1>11. Respects(new, run, reserved)
  BY <1>3 DEF Respects
<1> QED  BY <1>2, <1>4, <1>6, <1>7, <1>9, <1>10, <1>11, AnyRunStep DEF RunOK

\* A run that ends releases what it holds, or leaves it behind: after it has published, always.
LEMMA EndKeepsInv ==
    ASSUME Inv, NEW r \in Runs, Finish(r) \/ Fail(r) \/ Crash(r)
    PROVE  Inv'
<1> DEFINE x   == run[r]
           new == [stage |-> "over"]
<1>1. /\ run' = [run EXCEPT ![r] = new]
      /\ settled' = settled \cup IF x.stage = "committing" THEN x.all ELSE {}
      /\ UNCHANGED <<clock, broken, boundary, used, taken, published>>
  BY DEF Finish, Fail, Crash, End, SetRun
<1>2. x.stage \notin {"idle", "over"}
  BY DEF Finish, Fail, Crash
<1>3. ActiveOK(x, Ready, used, settled)
  BY <1>2 DEF Inv, RunOK, Idle
<1>4. reserved' = reserved \/ (reserved' = reserved \ x.mine /\ x.stage # "committing")
  BY DEF Finish, Fail, Crash
<1>5. new.stage = "over" /\ HeldBy(new) = {}
  BY DEF HeldBy
<1>6. x.stage # "committing" => x.mine = HeldBy(x)
  BY <1>3 DEF ActiveOK, HeldBy, Active
<1> HIDE DEF x
<1>7. RunOK(new, Ready, used', settled')
  BY DEF RunOK
<1> HIDE DEF new
<1>8. \A s \in Runs \ {r} : /\ HeldBy(run[s]) \subseteq reserved'
                            /\ HeldBy(run[s]) \cap HeldBy(new) = {}
  BY <1>4, <1>5, <1>6 DEF Inv, x
<1>9. \A b : LeftBehind(run, reserved, b) => b \in reserved' /\ b \notin HeldBy(new)
  BY <1>4, <1>5, <1>6 DEF LeftBehind, x
<1>10. \A b \in settled' \ settled : b \in used' \/ LeftBehind(run', reserved', b)
  <2> SUFFICES ASSUME NEW b \in settled' \ settled, b \notin used
               PROVE  LeftBehind(run', reserved', b)
    BY <1>1
  <2>1. x.stage = "committing" /\ b \in x.all
    BY <1>1
  <2>2. b \in HeldBy(x)
    BY <1>3, <2>1 DEF ActiveOK, HeldBy
  <2>3. b \in reserved' /\ \A s \in Runs \ {r} : b \notin HeldBy(run[s])
    BY <1>4, <2>1, <2>2 DEF Inv, x
  <2>4. \A s \in Runs : run'[s] = IF s = r THEN new ELSE run[s]
    BY <1>1 DEF Inv
  <2> QED  BY <1>5, <2>3, <2>4 DEF LeftBehind
<1>11. FilesOK' /\ PublishedBoundaryIsSpent'
  BY <1>1, <1>3, <1>4 DEF Inv, FilesOK, PublishedBoundaryIsSpent, Ready, ActiveOK
<1>12. Respects(new, run, reserved)
  BY <1>5 DEF Respects
<1> QED  BY <1>1, <1>5, <1>7, <1>8, <1>9, <1>10, <1>11, <1>12, AnyRunStep

\* Time, sources and the beginning of boundaries.
LEMMA OutsideKeepsInv ==
    ASSUME Inv,
           \/ Tick
           \/ \E e, occurred : RecordEvidence(e, occurred)
           \/ \E i : RecordCall(i)
           \/ \E b \in Boundaries : \/ \E agent : BeginBoundary(b, agent)
                                    \/ WriteBoundaryFile(b) \/ CrashBegin(b)
           \/ UNCHANGED vars
    PROVE  Inv'
<1>1. UNCHANGED <<broken, used, reserved, taken, run, published, settled>>
  BY DEF Tick, RecordEvidence, RecordCall, BeginBoundary, WriteBoundaryFile, CrashBegin, vars
<1>2. clock' \in 1..MaxTime
  <2>1. CASE Tick
    BY <2>1, AgentsAssumption DEF Tick, Inv, FilesOK
  <2>2. CASE ~Tick
    BY <2>2 DEF RecordEvidence, RecordCall, BeginBoundary, WriteBoundaryFile, CrashBegin, vars,
                Inv, FilesOK
  <2> QED  BY <2>1, <2>2
<1>3. Ready \subseteq Ready' /\ boundary' = [b \in Boundaries |-> boundary'[b]]
  <2>1. ASSUME NEW b \in Boundaries, NEW agent,
               BeginBoundary(b, agent) \/ WriteBoundaryFile(b) \/ CrashBegin(b)
        PROVE  /\ boundary[b].stage # "ready"
               /\ boundary' = [boundary EXCEPT ![b] = boundary'[b]]
    BY <2>1 DEF BeginBoundary, WriteBoundaryFile, CrashBegin, Inv, FilesOK
  <2>2. CASE \E b \in Boundaries : /\ boundary[b].stage # "ready"
                                   /\ boundary' = [boundary EXCEPT ![b] = boundary'[b]]
    BY <2>2 DEF Inv, FilesOK, Ready
  <2>3. CASE UNCHANGED boundary
    BY <2>3 DEF Ready, Inv, FilesOK
  <2> QED  BY <2>1, <2>2, <2>3 DEF Tick, RecordEvidence, RecordCall, vars
<1>4. \A r \in Runs : RunOK(run[r], Ready', used, settled)
  BY <1>3, RunStays DEF Inv
<1>5. FilesOK' /\ PublishedBoundaryIsSpent'
  BY <1>1, <1>2, <1>3 DEF Inv, FilesOK, PublishedBoundaryIsSpent
<1> QED  BY <1>1, <1>4, <1>5 DEF Inv

-----------------------------------------------------------------------------

LEMMA InitInv == Init => Inv
<1> SUFFICES ASSUME Init PROVE Inv
  OBVIOUS
<1>1. /\ run = [r \in Runs |-> run[r]]
      /\ \A r \in Runs : run[r] = Idle /\ run[r].stage = "idle"
  BY DEF Init, Idle
<1>2. \A r \in Runs : /\ HeldBy(run[r]) = {} /\ Respects(run[r], run, reserved)
                      /\ RunOK(run[r], Ready, used, settled)
  BY <1>1 DEF HeldBy, Respects, RunOK
<1>3. FilesOK
  BY AgentsAssumption DEF Init, FilesOK
<1> QED  BY <1>1, <1>2, <1>3 DEF Init, Inv, PublishedBoundaryIsSpent

LEMMA StepInv == Inv /\ [Next]_vars => Inv'
<1> SUFFICES ASSUME Inv, [Next]_vars PROVE Inv'
  OBVIOUS
<1>1. ASSUME NEW r \in Runs, RunStep(r) PROVE Inv'
  <2>1. CASE \/ \E ids \in SUBSET Boundaries : Gather(r, ids)
             \/ \E b \in Boundaries : ReadPosition(r, b)
             \/ \E b \in Boundaries, advanced \in BOOLEAN : ReadEvidence(r, b, advanced)
             \/ Assemble(r) \/ CheckUsed(r)
             \/ \E o \in Outputs : CheckOutput(r, o)
    BY <2>1, LookingKeepsInv
  <2>2. CASE \E b \in Boundaries : Reserve(r, b)
    BY <2>2, ReserveKeepsInv
  <2>3. CASE \E b \in Boundaries : Commit(r, b)
    BY <2>3, CommitKeepsInv
  <2>4. CASE \E o \in Outputs : Publish(r, o)
    BY <2>4, PublishKeepsInv
  <2>5. CASE Finish(r) \/ Fail(r) \/ Crash(r)
    BY <2>5, EndKeepsInv
  <2> QED  BY <1>1, <2>1, <2>2, <2>3, <2>4, <2>5 DEF RunStep
<1>2. CASE ~ \E r \in Runs : RunStep(r)
  BY <1>2, OutsideKeepsInv DEF Next
<1> QED  BY <1>1, <1>2

\* Reservations are exclusive, and what a finished publication used stays used or left behind.
THEOREM ReservationsAreExclusive == Spec => []Inv
BY InitInv, StepInv, PTL DEF Spec

\* The files of boundaries belong to boundaries that were begun completely, and a run that
\* publishes holds the reservations of all it publishes.
THEOREM TypeCorrect == Spec => []TypeOK
<1>1. Inv => TypeOK
  <2> SUFFICES ASSUME Inv PROVE TypeOK
    OBVIOUS
  <2>1. ASSUME NEW r \in Runs
        PROVE  /\ run[r].stage \in RunStages
               /\ run[r].stage = "publishing" => run[r].mine = run[r].all
               /\ run[r].stage \in {"reserving", "publishing"} => run[r].mine \subseteq reserved
    <3>1. HeldBy(run[r]) \subseteq reserved /\ RunOK(run[r], Ready, used, settled)
      BY DEF Inv
    <3>2. CASE run[r] = Idle \/ run[r] = [stage |-> "over"]
      <4>1. run[r].stage \in {"idle", "over"}
        BY <3>2 DEF Idle
      <4> QED  BY <4>1 DEF RunStages
    <3>3. CASE ActiveOK(run[r], Ready, used, settled)
      BY <3>1, <3>3 DEF ActiveOK, HeldBy, Active, RunStages
    <3> QED  BY <3>1, <3>2, <3>3 DEF RunOK
  <2> QED  BY <2>1 DEF TypeOK, Inv, FilesOK, Ready
<1> QED  BY <1>1, ReservationsAreExclusive, PTL

\* No run publishes a boundary that a run before it has published, whatever became of that run,
\* and whatever others do at the same time.
THEOREM PublishedBoundariesAreSpent == Spec => []PublishedBoundaryIsSpent
<1>1. Inv => PublishedBoundaryIsSpent
  BY DEF Inv
<1> QED  BY <1>1, ReservationsAreExclusive, PTL

-----------------------------------------------------------------------------
(* Evidence follows its boundary.  No source dates its evidence later than  *)
(* now, so what is dated after a boundary was appended after it.            *)

RowSet == [kind : {"evidence", "marker"}, what : Evidence \cup Boundaries, occurred : Int,
           call : BOOLEAN]

BoundaryShape(x) ==
    x = [stage |-> x.stage, agent |-> x.agent, started |-> x.started, events |-> x.events,
         sequence |-> x.sequence, calls |-> x.calls]

ItemShape(e) ==
    e = [boundary |-> e.boundary, agent |-> e.agent, started |-> e.started, ended |-> e.ended,
         source |-> e.source, ledger |-> e.ledger, privacy |-> e.privacy, replay |-> e.replay,
         observed |-> e.observed, status |-> e.status]

\* A boundary stands between what was dated up to its start and what is appended.
Divides(rows, x) ==
    /\ BoundaryShape(x)
    /\ x.started \in Int /\ x.sequence \in Nat /\ x.sequence <= Len(rows)
    /\ \A i \in 1..Len(rows) : i <= x.sequence => rows[i].occurred <= x.started

\* What an item of evidence claims is in the ledger.
Backed(e) ==
    /\ ItemShape(e)
    /\ e.boundary \in Boundaries /\ boundary[e.boundary].stage # "none"
    /\ e.started = boundary[e.boundary].started
    /\ e.source => hasAdapterEvidence(e.agent, e.started, e.ended)

DatedInv ==
    /\ ledger \in Seq(RowSet)
    /\ \A i \in 1..Len(ledger) : ledger[i].occurred <= clock
    /\ \A b \in Boundaries : boundary[b].stage # "none" => Divides(ledger, boundary[b])

BackedInv ==
    /\ \A r \in Runs : run[r].stage \in Active => \A e \in run[r].evidence : Backed(e)
    /\ \A p \in published : \A e \in p.package.manifest.evidence : Backed(e)

\* Rows are never removed, and a call stays counted.
Persists(rows, new) ==
    /\ Len(rows) \in Nat /\ Len(new) \in Nat /\ Len(rows) <= Len(new)
    /\ DOMAIN rows = 1..Len(rows) /\ DOMAIN new = 1..Len(new)
    /\ \A i \in 1..Len(rows) :
          /\ new[i].kind = rows[i].kind /\ new[i].what = rows[i].what
          /\ new[i].occurred = rows[i].occurred /\ (rows[i].call => new[i].call)

LEMMA EvidenceStays ==
    ASSUME Persists(ledger, ledger'), NEW agent, NEW from, NEW to,
           hasAdapterEvidence(agent, from, to)
    PROVE  hasAdapterEvidence(agent, from, to)'
<1>1. ASSUME NEW part, NEW i \in RowsOf(agent, part)
      PROVE  /\ i \in RowsOf(agent, part)' /\ ledger'[i].what = ledger[i].what
             /\ InWindow(i, from, to) => InWindow(i, from, to)'
             /\ ledger[i].call => ledger'[i].call
  BY DEF RowsOf, InWindow, Persists
<1>2. HasRecentAdapterEvidence(agent, from, to)'
  BY <1>1 DEF hasAdapterEvidence, HasRecentAdapterEvidence
<1>3. HasCorrelatedAdapterEvidence(agent, from, to)
          => HasCorrelatedAdapterEvidence(agent, from, to)'
  BY <1>1 DEF HasCorrelatedAdapterEvidence
<1> QED  BY <1>2, <1>3 DEF hasAdapterEvidence

\* What is backed stays so while the ledger grows and boundaries begin.
LEMMA BackedStays ==
    ASSUME Persists(ledger, ledger'), NEW e, Backed(e),
           \A b \in Boundaries : boundary[b].stage # "none" =>
               boundary'[b].stage # "none" /\ boundary'[b].started = boundary[b].started
    PROVE  Backed(e)'
<1>1. e.source => hasAdapterEvidence(e.agent, e.started, e.ended)'
  BY EvidenceStays DEF Backed
<1> QED  BY <1>1 DEF Backed

LEMMA LedgerRows ==
    ASSUME DatedInv
    PROVE  /\ Len(ledger) \in Nat /\ DOMAIN ledger = 1..Len(ledger)
           /\ \A i \in 1..Len(ledger) : ledger[i] \in RowSet /\ ledger[i].occurred \in Int
<1>1. /\ Len(ledger) \in Nat /\ DOMAIN ledger = 1..Len(ledger)
      /\ \A i \in 1..Len(ledger) : ledger[i] \in RowSet
  BY DEF DatedInv
<1> QED  BY <1>1 DEF RowSet

LEMMA SamePersists ==
    ASSUME DatedInv, UNCHANGED ledger
    PROVE  Persists(ledger, ledger')
BY LedgerRows DEF Persists

\* A boundary divides as before when rows are appended or counted.
LEMMA DividesStill ==
    ASSUME NEW rows, NEW new, Persists(rows, new), NEW x, Divides(rows, x)
    PROVE  Divides(new, x)
BY DEF Persists, Divides

\* A step of a run, or of nothing that backs evidence.
LEMMA BackedStep ==
    ASSUME DatedInv, BackedInv, UNCHANGED <<clock, ledger, boundary>>,
           \A r \in Runs : \/ run'[r] = run[r] \/ run'[r].stage \notin Active
                           \/ \A e \in run'[r].evidence : Backed(e),
           \A p \in published' : p \in published \/
                                 \A e \in p.package.manifest.evidence : Backed(e)
    PROVE  DatedInv' /\ BackedInv'
<1>1. DatedInv'
  BY DEF DatedInv
<1>2. \A e : Backed(e) => Backed(e)'
  BY SamePersists, BackedStays
<1>3. \A r \in Runs : run'[r].stage \in Active => \A e \in run'[r].evidence : Backed(e)
  BY DEF BackedInv
<1>4. \A p \in published' : \A e \in p.package.manifest.evidence : Backed(e)
  BY DEF BackedInv
<1> QED  BY <1>1, <1>2, <1>3, <1>4 DEF BackedInv

\* Time passes, evidence comes in and is counted, boundaries are begun.
LEMMA OutsideKeepsBacked ==
    ASSUME Inv, DatedInv, BackedInv, ~FutureDated,
           \/ Tick
           \/ \E e \in Evidence, occurred \in (clock - 1)..(clock + 1) : RecordEvidence(e, occurred)
           \/ \E i \in DOMAIN ledger : RecordCall(i)
           \/ \E b \in Boundaries : \/ \E agent \in Agents : BeginBoundary(b, agent)
                                    \/ WriteBoundaryFile(b) \/ CrashBegin(b)
    PROVE  DatedInv' /\ BackedInv'
<1>1. clock \in Int /\ UNCHANGED <<run, published>>
  <2>1. clock \in Int
    BY DEF Inv, FilesOK
  <2> QED  BY <2>1 DEF Tick, RecordEvidence, RecordCall, BeginBoundary, WriteBoundaryFile,
                       CrashBegin
<1>2. /\ Persists(ledger, ledger') /\ ledger' \in Seq(RowSet) /\ clock <= clock'
      /\ \A i \in 1..Len(ledger') : ledger'[i].occurred <= clock'
  <2>1. CASE UNCHANGED ledger /\ clock <= clock' /\ clock' \in Int
    BY <1>1, <2>1, SamePersists, LedgerRows DEF DatedInv
  <2>2. ASSUME NEW row \in RowSet, row.occurred <= clock, ledger' = Append(ledger, row),
               UNCHANGED clock
        PROVE  <1>2!:
    <3>1. /\ ledger' \in Seq(RowSet) /\ Len(ledger') = Len(ledger) + 1 /\ Len(ledger) \in Nat
          /\ ledger'[Len(ledger) + 1] = row
          /\ \A i \in 1..Len(ledger) : ledger'[i] = ledger[i]
      BY <2>2 DEF DatedInv
    <3>2. DOMAIN ledger = 1..Len(ledger) /\ DOMAIN ledger' = 1..Len(ledger')
      BY <3>1 DEF DatedInv
    <3>3. Persists(ledger, ledger')
      BY <3>1, <3>2 DEF Persists
    <3> QED  BY <1>1, <2>2, <3>1, <3>3 DEF DatedInv
  <2>3. ASSUME NEW i \in DOMAIN ledger, RecordCall(i)
        PROVE  <1>2!:
    <3>1. /\ ledger' = [ledger EXCEPT ![i].call = TRUE] /\ UNCHANGED clock
          /\ ledger \in Seq(RowSet) /\ i \in 1..Len(ledger) /\ ledger[i] \in RowSet
      BY <2>3 DEF RecordCall, DatedInv
    <3>2. [ledger[i] EXCEPT !.call = TRUE] \in RowSet
      BY <3>1 DEF RowSet
    <3>3. /\ Len(ledger) \in Nat /\ DOMAIN ledger = 1..Len(ledger)
          /\ ledger' \in Seq(RowSet) /\ Len(ledger') = Len(ledger) /\ DOMAIN ledger' = DOMAIN ledger
          /\ ledger'[i] = [ledger[i] EXCEPT !.call = TRUE]
          /\ \A j \in 1..Len(ledger) : j # i => ledger'[j] = ledger[j]
      BY <3>1, <3>2
    <3>4. /\ ledger'[i].kind = ledger[i].kind /\ ledger'[i].what = ledger[i].what
          /\ ledger'[i].occurred = ledger[i].occurred /\ ledger'[i].call
      BY <3>1, <3>3 DEF RowSet
    <3>5. Persists(ledger, ledger')
      <4> HIDE DEF RowSet
      <4>1. Len(ledger') \in Nat /\ DOMAIN ledger' = 1..Len(ledger')
        BY <3>3
      <4>2. \A j \in 1..Len(ledger) : ledger[j].call => ledger'[j].call
        BY <3>3, <3>4, Zenon
      <4>3. \A j \in 1..Len(ledger) : /\ ledger'[j].kind = ledger[j].kind
                                       /\ ledger'[j].what = ledger[j].what
                                       /\ ledger'[j].occurred = ledger[j].occurred
        BY <3>3, <3>4
      <4> QED  BY <3>3, <4>1, <4>2, <4>3 DEF Persists
    <3> QED  BY <1>1, <3>1, <3>3, <3>4, <3>5 DEF DatedInv
  <2>4. CASE \E e \in Evidence, occurred \in (clock - 1)..(clock + 1) : RecordEvidence(e, occurred)
    <3>1. PICK e \in Evidence, occurred \in (clock - 1)..(clock + 1) : RecordEvidence(e, occurred)
      BY <2>4
    <3> DEFINE row == [kind |-> "evidence", what |-> e, occurred |-> occurred, call |-> FALSE]
    <3>2. row \in RowSet /\ row.occurred <= clock
      BY <1>1, <3>1 DEF RowSet, RecordEvidence
    <3>3. ledger' = Append(ledger, row) /\ UNCHANGED clock
      BY <3>1 DEF RecordEvidence
    <3> HIDE DEF row
    <3> QED  BY <2>2, <3>2, <3>3
  <2>5. CASE \E b \in Boundaries : \E agent \in Agents : BeginBoundary(b, agent)
    <3>1. PICK b \in Boundaries, agent \in Agents : BeginBoundary(b, agent)
      BY <2>5
    <3> DEFINE row == [kind |-> "marker", what |-> b, occurred |-> clock, call |-> FALSE]
    <3>2. row \in RowSet /\ row.occurred <= clock
      BY <1>1 DEF RowSet
    <3>3. ledger' = Append(ledger, row) /\ UNCHANGED clock
      BY <3>1 DEF BeginBoundary
    <3> HIDE DEF row
    <3> QED  BY <2>2, <3>2, <3>3
  <2>6. CASE Tick
    BY <1>1, <2>1, <2>6 DEF Tick
  <2>7. CASE \E b \in Boundaries : WriteBoundaryFile(b) \/ CrashBegin(b)
    BY <1>1, <2>1, <2>7 DEF WriteBoundaryFile, CrashBegin
  <2> QED  BY <2>3, <2>4, <2>5, <2>6, <2>7
<1> DEFINE Goes(b) ==
             /\ boundary[b].stage # "none" =>
                    boundary'[b].stage # "none" /\ boundary'[b].started = boundary[b].started
             /\ boundary'[b].stage # "none" => Divides(ledger', boundary'[b])
<1>3. ASSUME NEW b \in Boundaries PROVE Goes(b)
  <2>1. CASE boundary'[b] = boundary[b]
    BY <1>2, <2>1, DividesStill DEF DatedInv
  <2>2. ASSUME NEW agent \in Agents, BeginBoundary(b, agent)
        PROVE  Goes(b)
    <3> DEFINE calls == sourceModelCallCount(agent)
               new == [stage |-> "marked", agent |-> agent, started |-> clock,
                       events |-> Len(ledger), sequence |-> Len(ledger), calls |-> calls]
    <3>1. boundary'[b] = new /\ boundary[b].stage = "none"
      BY <2>2 DEF BeginBoundary, Inv, FilesOK
    <3> HIDE DEF calls
    <3>2. BoundaryShape(new) /\ new.started = clock /\ new.sequence = Len(ledger)
      BY DEF BoundaryShape
    <3> HIDE DEF new
    <3>3. Divides(ledger, new)
      BY <1>1, <1>2, <3>2 DEF Divides, DatedInv, Persists
    <3> QED  BY <1>2, <3>1, <3>3, DividesStill
  <2>3. ASSUME WriteBoundaryFile(b) \/ CrashBegin(b)
        PROVE  Goes(b)
    <3>1. PICK stage \in {"ready", "lost"} : boundary'[b] = [boundary[b] EXCEPT !.stage = stage]
      BY <2>3 DEF WriteBoundaryFile, CrashBegin, Inv, FilesOK
    <3>2. boundary[b].stage # "none"
      BY <2>3 DEF WriteBoundaryFile, CrashBegin
    <3>3. Divides(ledger', boundary[b])
      BY <1>2, <3>2, DividesStill DEF DatedInv
    <3>4. /\ BoundaryShape(boundary'[b]) /\ boundary'[b].stage = stage
          /\ boundary'[b].started = boundary[b].started
          /\ boundary'[b].sequence = boundary[b].sequence
      BY <3>1, <3>3 DEF Divides, BoundaryShape
    <3> QED  BY <3>3, <3>4 DEF Divides
  <2>4. \/ boundary'[b] = boundary[b]
        \/ \E agent \in Agents : BeginBoundary(b, agent)
        \/ WriteBoundaryFile(b) \/ CrashBegin(b)
    BY DEF Tick, RecordEvidence, RecordCall, BeginBoundary, WriteBoundaryFile, CrashBegin, Inv,
           FilesOK
  <2> QED  BY <2>1, <2>2, <2>3, <2>4
<1>4. DatedInv'
  BY <1>2, <1>3 DEF DatedInv
<1>5. \A e : Backed(e) => Backed(e)'
  BY <1>2, <1>3, BackedStays
<1>6. BackedInv'
  BY <1>1, <1>5 DEF BackedInv
<1> QED  BY <1>4, <1>6

\* A run keeps its evidence, and the package says what the run has found.
LEMMA RunsKeepBacked ==
    ASSUME Inv, DatedInv, BackedInv, NEW r \in Runs, RunStep(r)
    PROVE  DatedInv' /\ BackedInv'
<1> DEFINE x == run[r]
<1>1. UNCHANGED <<clock, ledger, boundary>>
  BY DEF RunStep, Gather, ReadPosition, ReadEvidence, Assemble, CheckUsed, Reserve, CheckOutput,
         Publish, Commit, Finish, Fail, Crash
<1>2. \A s \in Runs : s # r => run'[s] = run[s]
  <2>1. \E new : run' = [run EXCEPT ![r] = new]
    BY Zenon DEF RunStep, Gather, ReadPosition, ReadEvidence, Assemble, CheckUsed, Reserve,
                 CheckOutput, Publish, Commit, Finish, Fail, Crash, End, SetRun
  <2> QED  BY <2>1 DEF Inv
<1>3. ASSUME x.stage \in Active PROVE RunShape(x) /\ \A e \in x.evidence : Backed(e)
  BY <1>3, UnderWay DEF BackedInv, ActiveOK
<1>4. ASSUME NEW new, run' = [run EXCEPT ![r] = new], UNCHANGED published,
             new.stage \notin Active \/ \A e \in new.evidence : Backed(e)
      PROVE  DatedInv' /\ BackedInv'
  <2>1. run'[r] = new
    BY <1>4 DEF Inv
  <2> HIDE DEF x
  <2> QED  BY <1>1, <1>2, <1>4, <2>1, BackedStep
<1>5. CASE \E ids \in SUBSET Boundaries : Gather(r, ids)
  <2>1. PICK ids \in SUBSET Boundaries : Gather(r, ids)
    BY <1>5
  <2> DEFINE texts  == acceptanceSafeReport
             status == IF broken THEN FAIL ELSE PASS
             new == [stage |-> "evaluating", all |-> ids, ids |-> ids, evidence |-> {},
                     advanced |-> {}, texts |-> texts, ledger |-> status, cutoff |-> clock,
                     mine |-> {}, out |-> {}, settled |-> settled]
  <2>2. run' = [run EXCEPT ![r] = new] /\ UNCHANGED published
    BY <2>1 DEF Gather, SetRun
  <2> HIDE DEF texts, status
  <2>3. new.evidence = {}
    OBVIOUS
  <2> HIDE DEF new
  <2> QED  BY <1>4, <2>2, <2>3
<1>6. CASE \E b \in Boundaries, advanced \in BOOLEAN : ReadEvidence(r, b, advanced)
  <2>1. PICK b \in Boundaries, advanced \in BOOLEAN : ReadEvidence(r, b, advanced)
    BY <1>6
  <2>2. /\ x.stage = "evaluating" /\ ActiveOK(x, Ready, used, settled)
        /\ <<b, advanced>> \in x.advanced
    BY <2>1, UnderWay DEF ReadEvidence, Active
  <2>3. b \in Ready
    BY <2>2 DEF ActiveOK
  <2> DEFINE from  == boundary[b].started
             agent == boundary[b].agent
             found == /\ advanced
                      /\ \E i \in RawEventIDsAfterAcceptanceBoundary(b) : ledger[i].call
                      /\ hasAdapterEvidence(agent, from, x.cutoff)
             observed == HasRecentAdapterEvidence(agent, from, x.cutoff)
             given == [boundary |-> b, agent |-> agent, started |-> from, ended |-> x.cutoff,
                       source |-> found, ledger |-> x.ledger, privacy |-> PENDING,
                       replay |-> PENDING, observed |-> observed, status |-> PENDING]
             item == Evaluated(given)
             new  == [x EXCEPT !.evidence = @ \cup {item}, !.advanced = {}, !.ids = @ \ {b}]
  <2>4. run' = [run EXCEPT ![r] = new] /\ UNCHANGED published
    BY <2>1, Zenon DEF ReadEvidence, SetRun
  <2>5. Backed(item)
    <3>1. found => hasAdapterEvidence(agent, from, x.cutoff)
      BY Zenon
    <3> DEFINE status == EvaluatedStatus(given)
    <3> HIDE DEF found, observed, status
    <3>2. item = [given EXCEPT !.status = status]
      BY DEF Evaluated, status
    <3>3. /\ ItemShape(item) /\ item.boundary = b /\ item.started = from
          /\ item.agent = agent /\ item.ended = x.cutoff /\ item.source = found
      <4> HIDE DEF item, x, agent, from
      <4> QED  BY <3>2 DEF ItemShape
    <3> HIDE DEF item, given, x, agent
    <3>4. boundary[b].stage # "none"
      BY <2>3 DEF Ready
    <3> QED  BY <3>1, <3>3, <3>4, Zenon DEF Backed
  <2> HIDE DEF item
  <2>6. new.evidence = x.evidence \cup {item}
    BY <1>3, <2>2 DEF RunShape, Active
  <2>7. \A e \in new.evidence : Backed(e)
    BY <1>3, <2>2, <2>5, <2>6 DEF Active
  <2> HIDE DEF new
  <2> QED  BY <1>4, <2>4, <2>7
<1>7. CASE Assemble(r)
  <2> DEFINE changed(e) == [e EXCEPT !.privacy = PASS]
             evidence == {Evaluated(changed(e)) : e \in x.evidence}
             new == [x EXCEPT !.stage = "checking", !.evidence = evidence]
  <2>1. run' = [run EXCEPT ![r] = new] /\ UNCHANGED published /\ x.stage \in Active
    BY <1>7, Zenon DEF Assemble, SetRun, Active
  <2>2. \A e : Backed(e) => Backed(Evaluated(changed(e)))
    <3> TAKE e
    <3> HAVE Backed(e)
    <3> DEFINE status == EvaluatedStatus(changed(e))
               scanned == [e EXCEPT !.privacy = PASS]
               item == [scanned EXCEPT !.status = status]
    <3>1. Evaluated(changed(e)) = item
      BY DEF Evaluated
    <3> HIDE DEF status
    <3>2. /\ ItemShape(scanned) /\ scanned.boundary = e.boundary
          /\ scanned.started = e.started /\ scanned.agent = e.agent
          /\ scanned.ended = e.ended /\ scanned.source = e.source
      BY DEF Backed, ItemShape
    <3> HIDE DEF scanned
    <3>3. /\ ItemShape(item) /\ item.boundary = e.boundary /\ item.started = e.started
          /\ item.agent = e.agent /\ item.ended = e.ended /\ item.source = e.source
      BY <3>2 DEF ItemShape
    <3> HIDE DEF item
    <3>4. Backed(item)
      BY <3>3, Zenon DEF Backed
    <3> QED  BY <3>1, <3>4
  <2>3. \A e \in evidence : Backed(e)
    BY <1>3, <2>1, <2>2
  <2> HIDE DEF evidence
  <2>4. new.evidence = evidence
    BY <1>3, <2>1 DEF RunShape
  <2> HIDE DEF new
  <2> QED  BY <1>4, <2>1, <2>3, <2>4
<1>8. CASE \E o \in Outputs : Publish(r, o)
  <2>1. PICK o \in Outputs : Publish(r, o)
    BY <1>8
  <2> DEFINE package == Package(x.texts, x.ledger, x.evidence)
             p == [output |-> o, ids |-> x.all, settled |-> x.settled, package |-> package]
             new == [x EXCEPT !.stage = "committing", !.ids = x.all]
  <2>2. /\ published' = published \cup {p} /\ run' = [run EXCEPT ![r] = new]
        /\ x.stage \in Active
    BY <2>1, Zenon DEF Publish, SetRun, Active
  <2>3. package.manifest.evidence = x.evidence
    BY Zenon DEF Package
  <2> HIDE DEF package
  <2>4. p.package = package
    OBVIOUS
  <2> HIDE DEF p
  <2>5. new.evidence = x.evidence
    BY <1>3, <2>2 DEF RunShape
  <2> HIDE DEF new
  <2>6. run'[r] = new
    BY <2>2 DEF Inv
  <2> QED  BY <1>1, <1>2, <1>3, <2>2, <2>3, <2>4, <2>5, <2>6, BackedStep
<1>9. CASE \/ \E b \in Boundaries : ReadPosition(r, b) \/ Reserve(r, b) \/ Commit(r, b)
           \/ CheckUsed(r) \/ \E o \in Outputs : CheckOutput(r, o)
  <2>1. x.stage \in Active /\ UNCHANGED published
    BY <1>9, Zenon DEF ReadPosition, Reserve, Commit, CheckUsed, CheckOutput, Active
  <2>2. RunShape(x)
    BY <1>3, <2>1
  <2>3. run'[r].evidence = x.evidence
    <3> HIDE DEF x
    <3>1. \/ \E v : run' = [run EXCEPT ![r] = [x EXCEPT !.advanced = v]]
          \/ \E v, u : run' = [run EXCEPT ![r] = [x EXCEPT !.ids = v, !.mine = u]]
          \/ \E v : run' = [run EXCEPT ![r] = [x EXCEPT !.ids = v]]
          \/ \E v : run' = [run EXCEPT ![r] = [x EXCEPT !.stage = "reserving", !.ids = v]]
          \/ \E v : run' = [run EXCEPT ![r] = [x EXCEPT !.stage = "publishing", !.out = v]]
      BY <1>9, Zenon DEF ReadPosition, Reserve, Commit, CheckUsed, CheckOutput, SetRun, x
    <3>2. \A new : run' = [run EXCEPT ![r] = new] => run'[r] = new
      BY DEF Inv
    <3>3. CASE \E v : run' = [run EXCEPT ![r] = [x EXCEPT !.advanced = v]]
      <4>1. PICK v : run' = [run EXCEPT ![r] = [x EXCEPT !.advanced = v]]
        BY <3>3, Zenon
      <4> QED  BY <2>2, <3>2, <4>1 DEF RunShape
    <3>4. CASE \E v, u : run' = [run EXCEPT ![r] = [x EXCEPT !.ids = v, !.mine = u]]
      <4>1. PICK v, u : run' = [run EXCEPT ![r] = [x EXCEPT !.ids = v, !.mine = u]]
        BY <3>4, Zenon
      <4> QED  BY <2>2, <3>2, <4>1 DEF RunShape
    <3>5. CASE \E v : run' = [run EXCEPT ![r] = [x EXCEPT !.ids = v]]
      <4>1. PICK v : run' = [run EXCEPT ![r] = [x EXCEPT !.ids = v]]
        BY <3>5, Zenon
      <4> QED  BY <2>2, <3>2, <4>1 DEF RunShape
    <3>6. CASE \E v : run' = [run EXCEPT ![r] = [x EXCEPT !.stage = "reserving", !.ids = v]]
      <4>1. PICK v : run' = [run EXCEPT ![r] = [x EXCEPT !.stage = "reserving", !.ids = v]]
        BY <3>6, Zenon
      <4> QED  BY <2>2, <3>2, <4>1 DEF RunShape
    <3>7. CASE \E v : run' = [run EXCEPT ![r] = [x EXCEPT !.stage = "publishing", !.out = v]]
      <4>1. PICK v : run' = [run EXCEPT ![r] = [x EXCEPT !.stage = "publishing", !.out = v]]
        BY <3>7, Zenon
      <4> QED  BY <2>2, <3>2, <4>1 DEF RunShape
    <3> QED  BY <3>1, <3>3, <3>4, <3>5, <3>6, <3>7, Zenon
  <2> QED  BY <1>1, <1>2, <1>3, <2>1, <2>3, BackedStep
<1>10. CASE Finish(r) \/ Fail(r) \/ Crash(r)
  <2>1. run' = [run EXCEPT ![r] = [stage |-> "over"]] /\ UNCHANGED published
    BY <1>10, Zenon DEF Finish, Fail, Crash, End, SetRun
  <2>2. [stage |-> "over"].stage \notin Active
    BY DEF Active
  <2> QED  BY <1>4, <2>1, <2>2
<1> QED  BY <1>5, <1>6, <1>7, <1>8, <1>9, <1>10 DEF RunStep

\* Where no source dates its evidence later than now, what a package claims to
\* have found was appended after the boundary, however late it is dated.
THEOREM EvidenceIsNew ==
    ASSUME ~FutureDated
    PROVE  Spec => []EvidenceFollowsBoundary
<1>1. Init => DatedInv /\ BackedInv
  <2> SUFFICES ASSUME Init PROVE DatedInv /\ BackedInv
    OBVIOUS
  <2>1. \A r \in Runs : run[r].stage \notin Active
    BY DEF Init, Idle, Active
  <2>2. \A b \in Boundaries : boundary[b].stage = "none"
    BY DEF Init, NoBoundary
  <2> QED  BY <2>1, <2>2 DEF Init, DatedInv, BackedInv
<1>2. Inv /\ DatedInv /\ BackedInv /\ [Next]_vars => DatedInv' /\ BackedInv'
  <2> SUFFICES ASSUME Inv, DatedInv, BackedInv, [Next]_vars PROVE DatedInv' /\ BackedInv'
    OBVIOUS
  <2>1. CASE \E r \in Runs : RunStep(r)
    BY <2>1, RunsKeepBacked
  <2>2. CASE UNCHANGED vars
    BY <2>2, BackedStep DEF vars
  <2> QED  BY <2>1, <2>2, OutsideKeepsBacked DEF Next
<1>3. DatedInv /\ BackedInv => EvidenceFollowsBoundary
  <2> SUFFICES ASSUME DatedInv, BackedInv, NEW p \in published,
                      NEW e \in p.package.manifest.evidence, e.source
               PROVE  LET after(part) == {i \in RowsOf(e.agent, part) :
                                             /\ i > boundary[e.boundary].sequence
                                             /\ InWindow(i, e.started, e.ended)}
                      IN  \E i \in after("model") :
                              /\ ledger[i].call
                              /\ e.agent \in Correlated =>
                                     \E j \in after("lifecycle") :
                                         ledger[j].what.session = ledger[i].what.session
    BY DEF EvidenceFollowsBoundary
  <2>1. hasAdapterEvidence(e.agent, e.started, e.ended) /\ Backed(e)
    BY DEF BackedInv, Backed
  <2>2. Divides(ledger, boundary[e.boundary]) /\ e.started = boundary[e.boundary].started
    BY <2>1 DEF Backed, DatedInv
  <2>3. \A part : \A i \in RowsOf(e.agent, part) :
            InWindow(i, e.started, e.ended) => i > boundary[e.boundary].sequence
    BY <2>2, LedgerRows DEF RowsOf, InWindow, Divides
  <2>4. CASE e.agent \notin Correlated
    BY <2>1, <2>3, <2>4 DEF hasAdapterEvidence, HasRecentAdapterEvidence
  <2>5. CASE e.agent \in Correlated
    BY <2>1, <2>3, <2>5 DEF hasAdapterEvidence, HasCorrelatedAdapterEvidence
  <2> QED  BY <2>4, <2>5
<1> QED  BY <1>1, <1>2, <1>3, InitInv, StepInv, PTL DEF Spec

-----------------------------------------------------------------------------
(* Packages.  What a run gathers is derived as inspect derives it again.    *)

\* An item of evidence, as the run that has found it holds it.
ItemOK(e, x) ==
    /\ ItemShape(e) /\ e.agent \in Agents
    /\ e.ledger = x.ledger /\ e.replay = PENDING
    /\ e.started < e.ended /\ ClaimIsBacked(e) /\ e.status = EvaluatedStatus(e)
    /\ x.stage = "evaluating" => e.boundary \notin x.ids
    /\ x.stage # "evaluating" => e.privacy = PASS

\* One item for an agent and for a boundary.
OneEach(evidence) ==
    \A e, f \in evidence : e # f => e.boundary # f.boundary /\ e.agent # f.agent

\* A boundary whose position was read, and whose evidence comes next.
NextOK(b, x, bs) ==
    /\ b \in x.ids /\ bs[b].started < x.cutoff
    /\ \A e \in x.evidence : e.agent # bs[b].agent

GatheredOK(x, bs) ==
    /\ x.ledger \in {PASS, FAIL}
    /\ x.stage # "evaluating" => acceptancePackagePrivacyStatus(x.texts) = PASS
    /\ \A e \in x.evidence : ItemOK(e, x)
    /\ OneEach(x.evidence)
    /\ x.stage = "evaluating" => \A p \in x.advanced : NextOK(p[1], x, bs)

GatheredInv ==
    /\ \A b \in Boundaries : boundary[b].stage # "none" =>
           BoundaryShape(boundary[b]) /\ boundary[b].agent \in Agents
    /\ \A r \in Runs : run[r].stage \in Active => GatheredOK(run[r], boundary)

LEMMA StatusWords ==
    /\ PASS # FAIL /\ PASS # PENDING /\ FAIL # PENDING
    /\ \A e : e.replay = PENDING => EvaluatedStatus(e) # PASS
    /\ \A e : e.ledger = FAIL => EvaluatedStatus(e) = FAIL
<1>1. PASS # FAIL /\ PASS # PENDING /\ FAIL # PENDING
  BY DEF PASS, FAIL, PENDING
<1> QED  BY <1>1 DEF EvaluatedStatus

\* The status of every agent follows from evidence of it, if there is any.
LEMMA AgentStatuses ==
    ASSUME NEW evidence, NEW a \in Agents
    PROVE  \/ applyRealAgentEvidence(evidence)[a] = PENDING /\ ~\E e \in evidence : e.agent = a
           \/ \E e \in evidence : e.agent = a /\ applyRealAgentEvidence(evidence)[a] = e.status
<1>1. CASE \E e \in evidence : e.agent = a
  <2> DEFINE chosen == CHOOSE e \in evidence : e.agent = a
  <2>1. chosen \in evidence /\ chosen.agent = a
    BY <1>1
  <2>2. applyRealAgentEvidence(evidence)[a] = chosen.status
    BY <1>1 DEF applyRealAgentEvidence
  <2> QED  BY <2>1, <2>2
<1>2. CASE ~\E e \in evidence : e.agent = a
  BY <1>2 DEF applyRealAgentEvidence
<1> QED  BY <1>1, <1>2

\* What a run may put into a package.
Publishable(texts, status, evidence) ==
    /\ status \in {PASS, FAIL} /\ acceptancePackagePrivacyStatus(texts) = PASS
    /\ OneEach(evidence)
    /\ \A e \in evidence :
           /\ e.agent \in Agents /\ e.ledger = status /\ e.replay = PENDING
           /\ e.started < e.ended /\ ClaimIsBacked(e) /\ e.status = EvaluatedStatus(e)

EvidenceFile == "real-agent-evidence.json"

\* What is in a package.
Contents(p, texts, status, evidence) ==
    /\ p = [files |-> p.files, manifest |-> p.manifest, sums |-> p.sums]
    /\ p.sums = [files |-> p.files, manifest |-> p.manifest]
    /\ DOMAIN p.files = Always \cup IF evidence = {} THEN {} ELSE {EvidenceFile}
    /\ \A n \in DOMAIN p.files : p.files[n] # <<>>
    /\ \A n \in {"report.csv", "report.json", "report.txt"} : p.files[n] = <<texts>>
    /\ p.files["diagnostics.json"] = <<status>>
    /\ evidence # {} => p.files[EvidenceFile] = <<evidence>>
    /\ p.manifest = [files |-> p.files, evidence |-> evidence, reachable |-> Reachable,
                     statuses |-> applyRealAgentEvidence(evidence),
                     readiness |-> acceptanceAgentReadiness(Reachable),
                     aggregate |-> acceptanceReadiness(acceptanceAgentReadiness(Reachable)),
                     external |-> IF status = FAIL THEN FAIL
                         ELSE acceptanceExternalStatus(applyRealAgentEvidence(evidence))]

LEMMA PackageContents ==
    ASSUME NEW texts, NEW status, NEW evidence, NEW p, p = Package(texts, status, evidence)
    PROVE  Contents(p, texts, status, evidence)
<1> DEFINE names == Always \cup IF evidence = {} THEN {} ELSE {EvidenceFile}
           content(n) == CASE n \in {"report.csv", "report.json", "report.txt"} -> <<texts>>
                           [] n = "sessions.json" -> <<{}>>
                           [] n = "collector.json" -> <<Reachable>>
                           [] n = "diagnostics.json" -> <<status>>
                           [] OTHER -> <<evidence>>
           files == [n \in names |-> content(n)]
           statuses == applyRealAgentEvidence(evidence)
           readiness == acceptanceAgentReadiness(Reachable)
           external == IF status = FAIL THEN FAIL ELSE acceptanceExternalStatus(statuses)
           manifest == [files |-> files, evidence |-> evidence, reachable |-> Reachable,
                        statuses |-> statuses, readiness |-> readiness,
                        aggregate |-> acceptanceReadiness(readiness), external |-> external]
<1>1. p = [files |-> files, manifest |-> manifest,
           sums |-> [files |-> files, manifest |-> manifest]]
  BY Zenon DEF Package, EvidenceFile
<1>2. \A n \in {"report.csv", "report.json", "report.txt"} : content(n) = <<texts>> /\ n \in names
  BY DEF Always
<1>3. content("diagnostics.json") = <<status>> /\ "diagnostics.json" \in names
  BY DEF Always
<1>4. content(EvidenceFile) = <<evidence>> /\ (evidence # {} => EvidenceFile \in names)
  BY DEF EvidenceFile
<1>5. \A n : content(n) \in {<<texts>>, <<{}>>, <<Reachable>>, <<status>>, <<evidence>>}
  BY Zenon
<1>6. \A n : content(n) # <<>>
  BY <1>5
<1>7. /\ DOMAIN files = names /\ \A n \in names : files[n] = content(n)
  BY Zenon
<1> HIDE DEF content, files, names
<1>8. p.files = files /\ p.manifest = manifest /\ p.sums = [files |-> files, manifest |-> manifest]
  BY <1>1
<1> QED  BY <1>1, <1>2, <1>3, <1>4, <1>6, <1>7, <1>8 DEF names, Contents

\* A broken ledger fails every item, and no item passes: the overall status follows.
LEMMA ExternalStatus ==
    ASSUME NEW texts, NEW status, NEW evidence, Publishable(texts, status, evidence)
    PROVE  LET external == acceptanceExternalStatus(applyRealAgentEvidence(evidence))
           IN  external # PASS /\ (status = FAIL /\ evidence # {} => external = FAIL)
<1> DEFINE statuses == applyRealAgentEvidence(evidence)
<1>1. \A e \in evidence : e.status # PASS /\ (status = FAIL => e.status = FAIL)
  BY StatusWords, Zenon DEF Publishable
<1>2. \A a \in Agents : statuses[a] # PASS
  BY <1>1, AgentStatuses, StatusWords
<1>3. acceptanceExternalStatus(statuses) # PASS
  BY <1>2, AgentsAssumption, StatusWords, Zenon DEF acceptanceExternalStatus
<1>4. ASSUME status = FAIL, NEW e \in evidence
      PROVE  acceptanceExternalStatus(statuses) = FAIL
  <2>1. e.agent \in Agents
    BY Zenon DEF Publishable
  <2>2. statuses[e.agent] = FAIL
    BY <1>1, <1>4, <2>1, AgentStatuses, Zenon
  <2> QED  BY <2>1, <2>2, Zenon DEF acceptanceExternalStatus
<1> QED  BY <1>3, <1>4

LEMMA PackageIsAccepted ==
    ASSUME NEW texts, NEW status, NEW evidence, Publishable(texts, status, evidence),
           NEW p, p = Package(texts, status, evidence)
    PROVE  IsAccepted(p)
<1> DEFINE statuses == applyRealAgentEvidence(evidence)
           external == acceptanceExternalStatus(statuses)
           m == p.manifest
<1>0. Contents(p, texts, status, evidence)
  BY PackageContents
<1>1. /\ p.sums = [files |-> p.files, manifest |-> m]
      /\ DOMAIN p.files = Always \cup IF evidence = {} THEN {} ELSE {EvidenceFile}
      /\ \A n \in {"report.csv", "report.json", "report.txt"} : p.files[n] = <<texts>>
      /\ p.files["diagnostics.json"] = <<status>>
      /\ evidence # {} => p.files[EvidenceFile] = <<evidence>>
  BY <1>0, Zenon DEF Contents
<1>2. m = [files |-> p.files, evidence |-> evidence, reachable |-> Reachable,
           statuses |-> statuses, readiness |-> acceptanceAgentReadiness(Reachable),
           aggregate |-> acceptanceReadiness(acceptanceAgentReadiness(Reachable)),
           external |-> IF status = FAIL THEN FAIL ELSE external]
  BY <1>0, Zenon DEF Contents
<1> HIDE DEF m, external, statuses
<1>3. /\ m.files = p.files /\ m.evidence = evidence /\ m.reachable = Reachable
      /\ m.statuses = statuses /\ m.readiness = acceptanceAgentReadiness(Reachable)
      /\ m.aggregate = acceptanceReadiness(acceptanceAgentReadiness(Reachable))
      /\ m.external = IF status = FAIL THEN FAIL ELSE external
  BY <1>2
<1>4. SUFFICES ASSUME p.files["diagnostics.json"] = <<PASS>> \/ evidence # {}
               PROVE  inspectAcceptancePackage(p)
  BY <1>3, Zenon DEF IsAccepted, m
<1>5. status \in {PASS, FAIL} /\ acceptancePackagePrivacyStatus(texts) = PASS
  BY Zenon DEF Publishable
<1>6. status = FAIL => evidence # {}
  BY <1>1, <1>4, StatusWords
<1>7. (\A n \in DOMAIN p.files : validAcceptanceEntryName(n)) /\ Always \subseteq DOMAIN p.files
  BY <1>1, Zenon DEF validAcceptanceEntryName, EvidenceFile
<1>8. validateAcceptanceRenderedReports(p)
  BY <1>1, Zenon DEF validateAcceptanceRenderedReports
<1>9. verifyAcceptanceChecksums(p)
  BY <1>1, Zenon DEF verifyAcceptanceChecksums, m
<1>10. EvidenceIsReproducible(p)
  <2>1. evidence # {} => /\ "real-agent-evidence.json" \in DOMAIN p.files
                         /\ p.files["real-agent-evidence.json"] = <<evidence>>
    BY <1>1, Zenon DEF EvidenceFile
  <2>2. m.evidence = evidence
    BY <1>3
  <2>3. OneEach(evidence) /\ \A e \in evidence :
           e.replay = PENDING /\ e.started < e.ended /\ ClaimIsBacked(e)
           /\ e.status = EvaluatedStatus(e)
    BY Zenon DEF Publishable
  <2> QED  BY <2>1, <2>2, <2>3, Zenon DEF EvidenceIsReproducible, OneEach, m
<1>11. external = IF status = FAIL THEN FAIL ELSE external
  BY <1>6, ExternalStatus, Zenon DEF external, statuses
<1>12. \A e \in evidence : e.agent \in Agents
  BY Zenon DEF Publishable
<1>13. validateAcceptanceManifestStatuses(m)
  BY <1>3, <1>11, <1>12, Zenon DEF validateAcceptanceManifestStatuses, external, statuses
<1>14. m.external = external
  BY <1>3, <1>11, Zenon
<1>15. /\ p.files["diagnostics.json"] \in {<<PASS>>, <<FAIL>>}
       /\ p.files["diagnostics.json"] = <<FAIL>> => m.external = FAIL
  BY <1>1, <1>3, <1>5, StatusWords
<1>16. acceptancePackagePrivacyStatus(p.files["report.json"][1]) = PASS
  <2>1. p.files["report.json"] = <<texts>> /\ <<texts>>[1] = texts
    BY <1>1
  <2> QED  BY <1>5, <2>1, Zenon
<1> QED  BY <1>3, <1>7, <1>8, <1>9, <1>10, <1>13, <1>15, <1>16, Zenon
         DEF inspectAcceptancePackage, m

LEMMA PackageIsReproducible ==
    ASSUME NEW texts, NEW status, NEW evidence, Publishable(texts, status, evidence),
           NEW p, p = Package(texts, status, evidence)
    PROVE  IsReproducible(p)
<1> DEFINE statuses == applyRealAgentEvidence(evidence)
           m == p.manifest
<1>0. Contents(p, texts, status, evidence)
  BY PackageContents
<1>1. /\ p = [files |-> p.files, manifest |-> m, sums |-> p.sums]
      /\ p.sums = [files |-> p.files, manifest |-> m]
      /\ \A n \in DOMAIN p.files : p.files[n] # <<>>
  BY <1>0, Zenon DEF Contents
<1>2. PICK files, readiness, aggregate, external :
          m = [files |-> files, evidence |-> evidence, reachable |-> Reachable,
               statuses |-> statuses, readiness |-> readiness, aggregate |-> aggregate,
               external |-> external]
  BY <1>0, Zenon DEF Contents
<1> HIDE DEF m
<1>3. m.evidence = evidence /\ m.statuses = statuses
  BY <1>2
<1>4. inspectAcceptancePackage(p) => m.external # PASS
  <2>1. inspectAcceptancePackage(p) => m.external = acceptanceExternalStatus(statuses)
    BY <1>3, Zenon DEF inspectAcceptancePackage, validateAcceptanceManifestStatuses, m
  <2> QED  BY <2>1, ExternalStatus, Zenon
<1>5. ASSUME NEW n \in DOMAIN p.files
      PROVE  ~inspectAcceptancePackage([p EXCEPT !.files[n] = <<>>])
  <2> DEFINE q == [p EXCEPT !.files[n] = <<>>]
  <2>1. q.files[n] = <<>> /\ q.sums = p.sums
    <3> DEFINE pf == p.files
               ps == p.sums
    <3>1. p = [files |-> pf, manifest |-> m, sums |-> ps]
      BY <1>1, Zenon
    <3>2. n \in DOMAIN pf
      BY <1>5
    <3> HIDE DEF pf, ps
    <3> QED  BY <3>1, <3>2
  <2>2. q.sums.files # q.files
    BY <1>1, <1>5, <2>1
  <2> HIDE DEF q
  <2>3. ~verifyAcceptanceChecksums(q)
    BY <2>2 DEF verifyAcceptanceChecksums
  <2>4. ~inspectAcceptancePackage(q)
    BY <2>3, Zenon DEF inspectAcceptancePackage
  <2> QED  BY <2>4, Zenon DEF q
<1>6. \A manifest : Sealed(p, manifest).manifest = manifest
  <2> TAKE manifest
  <2> DEFINE pf == p.files
             ps == p.sums
  <2>1. p = [files |-> pf, manifest |-> m, sums |-> ps]
    BY <1>1, Zenon
  <2> HIDE DEF pf, ps
  <2> QED  BY <2>1 DEF Sealed
<1>7. \A manifest : ~validateAcceptanceManifestStatuses(manifest) =>
          ~inspectAcceptancePackage(Sealed(p, manifest))
  BY <1>6, Zenon DEF inspectAcceptancePackage
<1>8. ASSUME NEW s, s # acceptanceExternalStatus(m.statuses)
      PROVE  ~inspectAcceptancePackage(Sealed(p, [m EXCEPT !.external = s]))
  <2> DEFINE other == [m EXCEPT !.external = s]
  <2>1. other.external = s /\ other.statuses = statuses
    BY <1>2
  <2> HIDE DEF other
  <2>2. ~validateAcceptanceManifestStatuses(other)
    BY <1>3, <1>8, <2>1, Zenon DEF validateAcceptanceManifestStatuses
  <2>3. ~inspectAcceptancePackage(Sealed(p, other))
    BY <1>7, <2>2, Zenon
  <2> QED  BY <2>3, Zenon DEF other
<1>9. ASSUME NEW s, NEW a \in Agents, s # m.statuses[a]
      PROVE  ~inspectAcceptancePackage(Sealed(p, [m EXCEPT !.statuses[a] = s]))
  <2> DEFINE other == [m EXCEPT !.statuses[a] = s]
  <2>1. a \in DOMAIN statuses
    BY <1>9 DEF applyRealAgentEvidence
  <2> HIDE DEF statuses
  <2>2. other.statuses[a] = s /\ other.evidence = evidence
    BY <1>2, <2>1
  <2> HIDE DEF other
  <2>3. other.statuses # statuses
    BY <1>3, <1>9, <2>2
  <2>4. ~validateAcceptanceManifestStatuses(other)
    BY <2>2, <2>3, Zenon DEF validateAcceptanceManifestStatuses, statuses
  <2>5. ~inspectAcceptancePackage(Sealed(p, other))
    BY <1>7, <2>4, Zenon
  <2> QED  BY <2>5, Zenon DEF other
<1> QED  BY <1>4, <1>5, <1>8, <1>9, Zenon DEF IsReproducible, m

-----------------------------------------------------------------------------

\* An item that is evaluated differs in its status only, and the status is the derived one.
LEMMA EvaluatedItem ==
    ASSUME NEW e, ItemShape(e), NEW item, item = Evaluated(e)
    PROVE  /\ ItemShape(item) /\ item.status = EvaluatedStatus(item)
           /\ item.boundary = e.boundary /\ item.agent = e.agent /\ item.started = e.started
           /\ item.ended = e.ended /\ item.source = e.source /\ item.ledger = e.ledger
           /\ item.privacy = e.privacy /\ item.replay = e.replay /\ item.observed = e.observed
<1> DEFINE status == EvaluatedStatus(e)
<1>1. item = [e EXCEPT !.status = status]
  BY Zenon DEF Evaluated
<1> HIDE DEF status
<1>2. /\ ItemShape(item) /\ item.status = status
      /\ item.boundary = e.boundary /\ item.agent = e.agent /\ item.started = e.started
      /\ item.ended = e.ended /\ item.source = e.source /\ item.ledger = e.ledger
      /\ item.privacy = e.privacy /\ item.replay = e.replay /\ item.observed = e.observed
  BY <1>1 DEF ItemShape
<1>3. EvaluatedStatus(item) = EvaluatedStatus(e)
  BY <1>2, Zenon DEF EvaluatedStatus
<1> QED  BY <1>2, <1>3, Zenon DEF status

\* Once it has all its evidence, a run keeps it as it is.
LEMMA LateStep ==
    ASSUME NEW x, NEW new, NEW bs, GatheredOK(x, bs),
           x.stage # "evaluating", new.stage # "evaluating",
           new.evidence = x.evidence, new.texts = x.texts, new.ledger = x.ledger
    PROVE  GatheredOK(new, bs)
<1>1. \A e \in new.evidence : ItemOK(e, new)
  BY Zenon DEF GatheredOK, ItemOK
<1> QED  BY <1>1, Zenon DEF GatheredOK

\* A run that sets its value.
LEMMA GatheredStep ==
    ASSUME Inv, GatheredInv, NEW r \in Runs, NEW new, run' = [run EXCEPT ![r] = new],
           UNCHANGED boundary, new.stage \in Active => GatheredOK(new, boundary)
    PROVE  GatheredInv'
<1>1. run'[r] = new /\ \A s \in Runs : s # r => run'[s] = run[s]
  BY DEF Inv
<1>2. \A s \in Runs : run'[s].stage \in Active => GatheredOK(run'[s], boundary)
  BY <1>1, Zenon DEF GatheredInv
<1> QED  BY <1>2, Zenon DEF GatheredInv

\* What a run has gathered depends on no boundary but those whose file is complete.
LEMMA BoundariesStay ==
    ASSUME NEW x, NEW bs, NEW new, NEW ready, GatheredOK(x, bs),
           x.stage = "evaluating" => x.advanced \subseteq ready \X BOOLEAN,
           \A b \in ready : new[b] = bs[b]
    PROVE  GatheredOK(x, new)
<1>1. ASSUME x.stage = "evaluating", NEW p \in x.advanced
      PROVE  NextOK(p[1], x, new)
  <2>1. NextOK(p[1], x, bs)
    BY <1>1, Zenon DEF GatheredOK
  <2>2. p[1] \in ready
    BY <1>1
  <2> QED  BY <2>1, <2>2, Zenon DEF NextOK
<1> QED  BY <1>1, Zenon DEF GatheredOK

LEMMA OutsideKeepsGathered ==
    ASSUME Inv, GatheredInv, UNCHANGED run,
           \/ UNCHANGED boundary
           \/ \E b \in Boundaries : \/ \E agent \in Agents : BeginBoundary(b, agent)
                                    \/ WriteBoundaryFile(b) \/ CrashBegin(b)
    PROVE  GatheredInv'
<1>1. ASSUME NEW b \in Boundaries, NEW new, boundary' = [boundary EXCEPT ![b] = new],
             boundary[b].stage # "ready", BoundaryShape(new), new.agent \in Agents
      PROVE  GatheredInv'
  <2>1. \A c \in Boundaries : boundary'[c] = IF c = b THEN new ELSE boundary[c]
    BY <1>1 DEF Inv, FilesOK
  <2>2. \A c \in Ready : boundary'[c] = boundary[c]
    BY <1>1, <2>1 DEF Ready
  <2>3. \A c \in Boundaries : boundary'[c].stage # "none" =>
            BoundaryShape(boundary'[c]) /\ boundary'[c].agent \in Agents
    BY <1>1, <2>1, Zenon DEF GatheredInv
  <2>4. ASSUME NEW s \in Runs, run[s].stage \in Active
        PROVE  GatheredOK(run[s], boundary')
    <3>1. GatheredOK(run[s], boundary)
      BY <2>4, Zenon DEF GatheredInv
    <3>2. run[s].stage = "evaluating" => run[s].advanced \subseteq Ready \X BOOLEAN
      BY <2>4, UnderWay, Zenon DEF ActiveOK
    <3> QED  BY <2>2, <3>1, <3>2, BoundariesStay
  <2> QED  BY <2>3, <2>4, Zenon DEF GatheredInv
<1>2. CASE UNCHANGED boundary
  BY <1>2, Zenon DEF GatheredInv
<1>3. ASSUME NEW b \in Boundaries, NEW agent \in Agents, BeginBoundary(b, agent)
      PROVE  GatheredInv'
  <2> DEFINE calls == sourceModelCallCount(agent)
             new == [stage |-> "marked", agent |-> agent, started |-> clock,
                     events |-> Len(ledger), sequence |-> Len(ledger), calls |-> calls]
  <2>1. boundary' = [boundary EXCEPT ![b] = new] /\ boundary[b].stage # "ready"
    BY <1>3 DEF BeginBoundary
  <2> HIDE DEF calls
  <2>2. BoundaryShape(new) /\ new.agent \in Agents
    BY DEF BoundaryShape
  <2> HIDE DEF new
  <2> QED  BY <1>1, <2>1, <2>2
<1>4. ASSUME NEW b \in Boundaries, WriteBoundaryFile(b) \/ CrashBegin(b)
      PROVE  GatheredInv'
  <2>1. /\ boundary[b].stage = "marked"
        /\ \E stage : boundary' = [boundary EXCEPT ![b].stage = stage]
    BY <1>4, Zenon DEF WriteBoundaryFile, CrashBegin
  <2>2. PICK stage : boundary' = [boundary EXCEPT ![b].stage = stage]
    BY <2>1
  <2> DEFINE new == [boundary[b] EXCEPT !.stage = stage]
  <2>3. boundary' = [boundary EXCEPT ![b] = new]
    BY <2>2
  <2>4. BoundaryShape(boundary[b]) /\ boundary[b].agent \in Agents
    BY <2>1 DEF GatheredInv
  <2>5. BoundaryShape(new) /\ new.agent \in Agents
    BY <2>4 DEF BoundaryShape
  <2> HIDE DEF new
  <2>6. boundary[b].stage # "ready"
    BY <2>1
  <2> QED  BY <1>1, <2>3, <2>5, <2>6
<1> QED  BY <1>2, <1>3, <1>4

\* A run takes a boundary up when its position is read ...
LEMMA ReadPositionKeepsGathered ==
    ASSUME Inv, GatheredInv, NEW r \in Runs, NEW b \in Boundaries, ReadPosition(r, b)
    PROVE  GatheredInv'
<1> DEFINE x == run[r]
           grown == /\ Len(ledger) > boundary[b].events
                    /\ sourceModelCallCount(boundary[b].agent) > boundary[b].calls
           new == [x EXCEPT !.advanced = {<<b, grown>>}]
<1>1. /\ x.stage = "evaluating" /\ b \in x.ids /\ BoundaryIsUsable(r, b)
      /\ run' = [run EXCEPT ![r] = new] /\ UNCHANGED boundary
  BY Zenon DEF ReadPosition, SetRun
<1>2. RunShape(x) /\ GatheredOK(x, boundary)
  BY <1>1, UnderWay DEF Active, ActiveOK, GatheredInv
<1>3. NextOK(b, x, boundary)
  BY <1>1, Zenon DEF NextOK, BoundaryIsUsable
<1> HIDE DEF x, grown
<1>4. /\ new.stage = x.stage /\ new.evidence = x.evidence /\ new.texts = x.texts
      /\ new.ledger = x.ledger /\ new.ids = x.ids /\ new.cutoff = x.cutoff
      /\ new.advanced = {<<b, grown>>}
  BY <1>2 DEF RunShape
<1> HIDE DEF new
<1>5. \A p \in new.advanced : NextOK(p[1], new, boundary)
  <2>1. NextOK(b, new, boundary)
    BY <1>3, <1>4, Zenon DEF NextOK
  <2> QED  BY <1>4, <2>1
<1>6. \A e \in new.evidence : ItemOK(e, new)
  BY <1>2, <1>4, Zenon DEF GatheredOK, ItemOK
<1>7. GatheredOK(new, boundary)
  BY <1>2, <1>4, <1>5, <1>6, Zenon DEF GatheredOK
<1> QED  BY <1>1, <1>7, GatheredStep

\* ... and is done with it when its evidence is.
LEMMA ReadEvidenceKeepsGathered ==
    ASSUME Inv, GatheredInv, NEW r \in Runs, NEW b \in Boundaries, NEW advanced \in BOOLEAN,
           ReadEvidence(r, b, advanced)
    PROVE  GatheredInv'
<1> DEFINE x == run[r]
           from  == boundary[b].started
           agent == boundary[b].agent
           found == /\ advanced
                    /\ \E i \in RawEventIDsAfterAcceptanceBoundary(b) : ledger[i].call
                    /\ hasAdapterEvidence(agent, from, x.cutoff)
           observed == HasRecentAdapterEvidence(agent, from, x.cutoff)
           given == [boundary |-> b, agent |-> agent, started |-> from, ended |-> x.cutoff,
                     source |-> found, ledger |-> x.ledger, privacy |-> PENDING,
                     replay |-> PENDING, observed |-> observed, status |-> PENDING]
           item == Evaluated(given)
           new  == [x EXCEPT !.evidence = @ \cup {item}, !.advanced = {}, !.ids = @ \ {b}]
<1>1. /\ x.stage = "evaluating" /\ <<b, advanced>> \in x.advanced /\ ClaimIsBacked(item)
      /\ run' = [run EXCEPT ![r] = new] /\ UNCHANGED boundary
  BY Zenon DEF ReadEvidence, SetRun
<1>2. ActiveOK(x, Ready, used, settled) /\ GatheredOK(x, boundary)
  BY <1>1, UnderWay DEF Active, GatheredInv
<1>3. b \in Ready /\ RunShape(x)
  BY <1>1, <1>2 DEF ActiveOK
<1>4. agent \in Agents
  BY <1>3, Zenon DEF GatheredInv, Ready
<1>5. NextOK(b, x, boundary)
  <2>1. <<b, advanced>>[1] = b
    OBVIOUS
  <2> QED  BY <1>1, <1>2, <2>1, Zenon DEF GatheredOK
<1> HIDE DEF found, observed
<1>6. /\ ItemShape(given) /\ given.boundary = b /\ given.agent = agent /\ given.started = from
      /\ given.ended = x.cutoff /\ given.ledger = x.ledger /\ given.replay = PENDING
  <2> HIDE DEF x, from, agent
  <2> QED  BY DEF ItemShape
<1> HIDE DEF given
<1>7. /\ ItemShape(item) /\ item.status = EvaluatedStatus(item)
      /\ item.boundary = b /\ item.agent = agent /\ item.started = from
      /\ item.ended = x.cutoff /\ item.ledger = x.ledger /\ item.replay = PENDING
  BY <1>6, EvaluatedItem
<1> HIDE DEF item, x
<1>8. /\ new.stage = x.stage /\ new.evidence = x.evidence \cup {item} /\ new.advanced = {}
      /\ new.texts = x.texts /\ new.ledger = x.ledger /\ new.ids = x.ids \ {b}
  BY <1>3 DEF RunShape
<1> HIDE DEF new
<1>9. b \in x.ids /\ from < x.cutoff /\ \A e \in x.evidence : e.agent # agent
  BY <1>5 DEF NextOK
<1>10. \A e \in x.evidence : ItemOK(e, new)
  BY <1>2, <1>8 DEF GatheredOK, ItemOK
<1>11. ItemOK(item, new)
  BY <1>1, <1>4, <1>7, <1>8, <1>9 DEF ItemOK
<1>12. OneEach(new.evidence)
  <2>1. OneEach(x.evidence)
    BY <1>2, Zenon DEF GatheredOK
  <2>2. \A e \in x.evidence : e.boundary # b
    BY <1>1, <1>2, <1>9, Zenon DEF GatheredOK, ItemOK
  <2>3. \A e \in x.evidence : e.boundary # item.boundary /\ e.agent # item.agent
    BY <1>7, <1>9, <2>2, Zenon
  <2> QED  BY <1>8, <2>1, <2>3 DEF OneEach
<1>13. GatheredOK(new, boundary)
  <2>1. new.ledger \in {PASS, FAIL} /\ new.stage = "evaluating"
    BY <1>1, <1>2, <1>8, Zenon DEF GatheredOK
  <2> QED  BY <1>8, <1>10, <1>11, <1>12, <2>1 DEF GatheredOK
<1> QED  BY <1>1, <1>13, GatheredStep

\* The items are derived anew when the package has been scanned.
LEMMA AssembleKeepsGathered ==
    ASSUME Inv, GatheredInv, NEW r \in Runs, Assemble(r)
    PROVE  GatheredInv'
<1> DEFINE x == run[r]
           scanned(e) == [e EXCEPT !.privacy = PASS]
           evidence == {Evaluated(scanned(e)) : e \in x.evidence}
           new == [x EXCEPT !.stage = "checking", !.evidence = evidence]
<1>1. /\ x.stage = "evaluating" /\ acceptancePackagePrivacyStatus(x.texts) = PASS
      /\ run' = [run EXCEPT ![r] = new] /\ UNCHANGED boundary
  BY Zenon DEF Assemble, SetRun
<1>2. RunShape(x) /\ GatheredOK(x, boundary)
  BY <1>1, UnderWay DEF Active, ActiveOK, GatheredInv
<1>3. /\ new.stage = "checking" /\ new.evidence = evidence
      /\ new.texts = x.texts /\ new.ledger = x.ledger
  <2> HIDE DEF evidence, x
  <2> QED  BY <1>2 DEF RunShape
<1> HIDE DEF new
<1>4. ASSUME NEW e \in x.evidence
      PROVE  /\ ItemOK(Evaluated(scanned(e)), new)
             /\ Evaluated(scanned(e)).boundary = e.boundary
             /\ Evaluated(scanned(e)).agent = e.agent
  <2>1. ItemOK(e, x)
    BY <1>2, Zenon DEF GatheredOK
  <2> DEFINE given == scanned(e)
             item == Evaluated(given)
  <2>2. /\ ItemShape(given) /\ given.privacy = PASS
        /\ given.boundary = e.boundary /\ given.agent = e.agent /\ given.started = e.started
        /\ given.ended = e.ended /\ given.source = e.source /\ given.ledger = e.ledger
        /\ given.replay = e.replay /\ given.observed = e.observed
    BY <2>1 DEF ItemOK, ItemShape
  <2> HIDE DEF given
  <2>3. /\ ItemShape(item) /\ item.status = EvaluatedStatus(item) /\ item.privacy = PASS
        /\ item.boundary = e.boundary /\ item.agent = e.agent /\ item.started = e.started
        /\ item.ended = e.ended /\ item.source = e.source /\ item.ledger = e.ledger
        /\ item.replay = e.replay /\ item.observed = e.observed
    BY <2>2, EvaluatedItem
  <2> HIDE DEF item
  <2>4. ItemOK(item, new)
    <3>1. ClaimIsBacked(item)
      BY <2>1, <2>3, Zenon DEF ItemOK, ClaimIsBacked
    <3>2. item.agent \in Agents /\ item.replay = PENDING /\ item.ledger = new.ledger
      BY <1>3, <2>1, <2>3, Zenon DEF ItemOK
    <3>3. item.started < item.ended
      BY <2>1, <2>3 DEF ItemOK
    <3>4. new.stage # "evaluating"
      BY <1>3
    <3> QED  BY <2>3, <3>1, <3>2, <3>3, <3>4, Zenon DEF ItemOK
  <2>5. ItemOK(item, new) /\ item.boundary = e.boundary /\ item.agent = e.agent
    BY <2>3, <2>4
  <2> QED  BY <2>5, Zenon DEF item, given
<1> HIDE DEF scanned
<1>5. \A i \in evidence : ItemOK(i, new)
  BY <1>4, Zenon
<1>6. OneEach(evidence)
  <2>1. OneEach(x.evidence)
    BY <1>2, Zenon DEF GatheredOK
  <2>2. ASSUME NEW e \in x.evidence, NEW f \in x.evidence,
               Evaluated(scanned(e)) # Evaluated(scanned(f))
        PROVE  /\ Evaluated(scanned(e)).boundary # Evaluated(scanned(f)).boundary
               /\ Evaluated(scanned(e)).agent # Evaluated(scanned(f)).agent
    <3>1. e # f
      BY <2>2
    <3> QED  BY <1>4, <2>1, <3>1, Zenon DEF OneEach
  <2> QED  BY <2>2, Zenon DEF OneEach
<1>7. GatheredOK(new, boundary)
  <2>1. new.ledger \in {PASS, FAIL}
    BY <1>2, <1>3, Zenon DEF GatheredOK
  <2>2. new.stage # "evaluating"
    BY <1>3
  <2>3. acceptancePackagePrivacyStatus(new.texts) = PASS
    BY <1>1, <1>3
  <2> QED  BY <1>3, <1>5, <1>6, <2>1, <2>2, <2>3, Zenon DEF GatheredOK
<1> QED  BY <1>1, <1>7, GatheredStep

LEMMA RunsKeepGathered ==
    ASSUME Inv, GatheredInv, NEW r \in Runs, RunStep(r)
    PROVE  GatheredInv'
<1> DEFINE x == run[r]
<1>1. CASE \E ids \in SUBSET Boundaries : Gather(r, ids)
  <2>1. PICK ids \in SUBSET Boundaries : Gather(r, ids)
    BY <1>1
  <2> DEFINE texts  == acceptanceSafeReport
             status == IF broken THEN FAIL ELSE PASS
             new == [stage |-> "evaluating", all |-> ids, ids |-> ids, evidence |-> {},
                     advanced |-> {}, texts |-> texts, ledger |-> status, cutoff |-> clock,
                     mine |-> {}, out |-> {}, settled |-> settled]
  <2>2. run' = [run EXCEPT ![r] = new] /\ UNCHANGED boundary
    BY <2>1 DEF Gather, SetRun
  <2>3. status \in {PASS, FAIL}
    OBVIOUS
  <2> HIDE DEF texts, status
  <2>4. /\ new.stage = "evaluating" /\ new.evidence = {} /\ new.advanced = {}
        /\ new.ledger = status
    OBVIOUS
  <2> HIDE DEF new
  <2>5. GatheredOK(new, boundary)
    BY <2>3, <2>4 DEF GatheredOK, OneEach
  <2> QED  BY <2>2, <2>5, GatheredStep
<1>2. ASSUME NEW new, run' = [run EXCEPT ![r] = new], UNCHANGED boundary,
             x.stage \in Active, x.stage # "evaluating", new.stage # "evaluating",
             new.evidence = x.evidence, new.texts = x.texts, new.ledger = x.ledger
      PROVE  GatheredInv'
  <2>1. GatheredOK(x, boundary)
    BY <1>2 DEF GatheredInv
  <2> HIDE DEF x
  <2>2. GatheredOK(new, boundary)
    BY <1>2, <2>1, LateStep
  <2> QED  BY <1>2, <2>2, GatheredStep
<1>3. x.stage \in Active => RunShape(x)
  BY UnderWay DEF ActiveOK
<1>4. CASE \/ CheckUsed(r) \/ \E b \in Boundaries : Reserve(r, b) \/ Commit(r, b)
           \/ \E o \in Outputs : CheckOutput(r, o) \/ Publish(r, o)
  <2>1. x.stage \in Active /\ x.stage # "evaluating" /\ UNCHANGED boundary
    BY <1>4, Zenon DEF CheckUsed, Reserve, Commit, CheckOutput, Publish, Active
  <2>2. RunShape(x)
    BY <1>3, <2>1
  <2> HIDE DEF x
  <2>3. \/ \E v, u : run' = [run EXCEPT ![r] = [x EXCEPT !.ids = v, !.mine = u]]
        \/ \E v : run' = [run EXCEPT ![r] = [x EXCEPT !.ids = v]]
        \/ \E v : run' = [run EXCEPT ![r] = [x EXCEPT !.stage = "reserving", !.ids = v]]
        \/ \E v : run' = [run EXCEPT ![r] = [x EXCEPT !.stage = "publishing", !.out = v]]
        \/ \E v : run' = [run EXCEPT ![r] = [x EXCEPT !.stage = "committing", !.ids = v]]
    BY <1>4, Zenon DEF CheckUsed, Reserve, Commit, CheckOutput, Publish, SetRun, x
  <2> DEFINE late(new) == /\ new.stage # "evaluating" /\ new.evidence = x.evidence
                          /\ new.texts = x.texts /\ new.ledger = x.ledger
  <2>4. \A v, u : late([x EXCEPT !.ids = v, !.mine = u])
    BY <2>1, <2>2 DEF RunShape, x
  <2>5. \A v : late([x EXCEPT !.ids = v])
    BY <2>1, <2>2 DEF RunShape, x
  <2>6. \A v : late([x EXCEPT !.stage = "reserving", !.ids = v])
    BY <2>2 DEF RunShape
  <2>7. \A v : late([x EXCEPT !.stage = "publishing", !.out = v])
    BY <2>2 DEF RunShape
  <2>8. \A v : late([x EXCEPT !.stage = "committing", !.ids = v])
    BY <2>2 DEF RunShape
  <2>9. \E new : run' = [run EXCEPT ![r] = new] /\ late(new)
    <3> HIDE DEF late
    <3> QED  BY <2>3, <2>4, <2>5, <2>6, <2>7, <2>8, Zenon
  <2>10. PICK new : run' = [run EXCEPT ![r] = new] /\ late(new)
    BY <2>9, Zenon
  <2> QED  BY <1>2, <2>1, <2>10 DEF x
<1>5. CASE Finish(r) \/ Fail(r) \/ Crash(r)
  <2> DEFINE over == [stage |-> "over"]
  <2>1. run' = [run EXCEPT ![r] = over] /\ UNCHANGED boundary
    BY <1>5, Zenon DEF Finish, Fail, Crash, End, SetRun
  <2>2. over.stage \notin Active
    BY DEF Active
  <2> HIDE DEF over
  <2> QED  BY <2>1, <2>2, GatheredStep
<1>6. CASE \E b \in Boundaries : ReadPosition(r, b)
  BY <1>6, ReadPositionKeepsGathered
<1>7. CASE \E b \in Boundaries, advanced \in BOOLEAN : ReadEvidence(r, b, advanced)
  BY <1>7, ReadEvidenceKeepsGathered
<1>8. CASE Assemble(r)
  BY <1>8, AssembleKeepsGathered
<1> QED  BY <1>1, <1>4, <1>5, <1>6, <1>7, <1>8, Zenon DEF RunStep

LEMMA StepGathered == Inv /\ GatheredInv /\ [Next]_vars => GatheredInv'
<1> SUFFICES ASSUME Inv, GatheredInv, [Next]_vars PROVE GatheredInv'
  OBVIOUS
<1>1. CASE \E r \in Runs : RunStep(r)
  BY <1>1, RunsKeepGathered
<1>2. CASE UNCHANGED vars
  BY <1>2, OutsideKeepsGathered DEF vars
<1>3. CASE \/ Tick
           \/ \E e \in Evidence, occurred \in (clock - 1)..(clock + 1) : RecordEvidence(e, occurred)
           \/ \E i \in DOMAIN ledger : RecordCall(i)
  <2>1. UNCHANGED <<run, boundary>>
    BY <1>3, Zenon DEF Tick, RecordEvidence, RecordCall
  <2> QED  BY <2>1, OutsideKeepsGathered
<1>4. CASE \E b \in Boundaries : \/ \E agent \in Agents : BeginBoundary(b, agent)
                                 \/ WriteBoundaryFile(b) \/ CrashBegin(b)
  <2>1. UNCHANGED run
    BY <1>4, Zenon DEF BeginBoundary, WriteBoundaryFile, CrashBegin
  <2> QED  BY <1>4, <2>1, OutsideKeepsGathered
<1> QED  BY <1>1, <1>2, <1>3, <1>4, Zenon DEF Next

LEMMA InitGathered == Init => GatheredInv
<1> SUFFICES ASSUME Init PROVE GatheredInv
  OBVIOUS
<1>1. \A r \in Runs : run[r].stage \notin Active
  BY DEF Init, Idle, Active
<1>2. \A b \in Boundaries : boundary[b].stage = "none"
  BY DEF Init, NoBoundary
<1> QED  BY <1>1, <1>2, Zenon DEF GatheredInv

\* A run that has come to publish has gathered what can be published.
LEMMA PublishesGathered ==
    ASSUME GatheredInv, NEW r \in Runs, NEW o \in Outputs, Publish(r, o),
           NEW p \in published' \ published
    PROVE  IsAccepted(p.package) /\ IsReproducible(p.package)
<1> DEFINE x == run[r]
           package == Package(x.texts, x.ledger, x.evidence)
           out == [output |-> o, ids |-> x.all, settled |-> x.settled, package |-> package]
<1>1. x.stage = "publishing" /\ published' = published \cup {out}
  BY Zenon DEF Publish
<1>2. GatheredOK(x, boundary)
  BY <1>1 DEF GatheredInv, Active
<1> HIDE DEF x
<1>3. Publishable(x.texts, x.ledger, x.evidence)
  BY <1>1, <1>2, Zenon DEF GatheredOK, ItemOK, Publishable
<1> HIDE DEF package
<1>4. p = out /\ out.package = package
  BY <1>1
<1>5. IsAccepted(package) /\ IsReproducible(package)
  BY <1>3, PackageIsAccepted, PackageIsReproducible DEF package
<1> QED  BY <1>4, <1>5

\* Every package that is published is accepted by inspect, and only as it was derived: whatever
\* the ledger holds, however the runs overlap.
THEOREM PublishedPackagesAreInspectable == Spec => PackagesAreInspectable
<1> DEFINE Fine == \A p \in published' \ published :
                       IsAccepted(p.package) /\ IsReproducible(p.package)
<1>1. ASSUME Inv, GatheredInv, [Next]_vars PROVE Fine \/ UNCHANGED published
  <2>1. CASE \E r \in Runs, o \in Outputs : Publish(r, o)
    BY <1>1, <2>1, PublishesGathered
  <2>2. CASE ~\E r \in Runs, o \in Outputs : Publish(r, o)
    <3>1. CASE \E r \in Runs : RunStep(r)
      <4>1. PICK r \in Runs : RunStep(r) /\ \A o \in Outputs : ~Publish(r, o)
        BY <2>2, <3>1, Zenon
      <4>2. \A ids : Gather(r, ids) => UNCHANGED published
        BY DEF Gather
      <4>3. \A b, advanced : ReadEvidence(r, b, advanced) => UNCHANGED published
        BY Zenon DEF ReadEvidence
      <4>4. Assemble(r) \/ CheckUsed(r) \/ Finish(r) \/ Fail(r) \/ Crash(r) => UNCHANGED published
        BY Zenon DEF Assemble, CheckUsed, Finish, Fail, Crash
      <4>5. \A b : ReadPosition(r, b) \/ Reserve(r, b) \/ Commit(r, b) \/ CheckOutput(r, b)
                       => UNCHANGED published
        BY Zenon DEF ReadPosition, Reserve, Commit, CheckOutput
      <4> QED  BY <4>1, <4>2, <4>3, <4>4, <4>5, Zenon DEF RunStep
    <3>2. CASE UNCHANGED vars
      BY <3>2, Zenon DEF vars
    <3> QED  BY <1>1, <3>1, <3>2, Zenon DEF Next, Tick, RecordEvidence, RecordCall, BeginBoundary,
                                            WriteBoundaryFile, CrashBegin
  <2> QED  BY <2>1, <2>2
<1>2. Inv /\ GatheredInv /\ [Next]_vars => [Fine]_published
  BY <1>1
<1>3. Spec => [](Inv /\ GatheredInv)
  BY InitInv, StepInv, InitGathered, StepGathered, PTL DEF Spec
<1>4. Spec => [][Fine]_published
  <2> HIDE DEF Fine
  <2> QED  BY <1>2, <1>3, PTL DEF Spec
<1> QED  BY <1>4 DEF PackagesAreInspectable

=============================================================================
