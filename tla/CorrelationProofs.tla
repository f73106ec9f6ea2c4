------------------------- MODULE CorrelationProofs -------------------------
(***************************************************************************)
(* Correlation, for any set of events, any number of deliveries, of changes*)
(* of the mode and of ingestions that are cut short.                       *)
(*                                                                         *)
(* Links are right.  A link is made in one statement from what another has *)
(* looked up, so the proof follows what a worker holds: once a lookup is   *)
(* done, its link is NULL or names the session and the parent of its event *)
(* (RunOK).  Interactions, sessions and raw events only grow, so what was  *)
(* looked up stays true until it is used (Grows).  The operators take the  *)
(* tables they speak of as arguments, to speak of two states at once.      *)
(*                                                                         *)
(* Prompts are private: what is held of one between attaching and enforcing*)
(* fits a mode that was once in force (Enforced).  Nothing is counted      *)
(* twice: rows of an old version come first, and are taken over before a   *)
(* row is added (OnceInv).  None of the three needs the writer lock.       *)
(*                                                                         *)
(* Nobody stays alone does need it: between the lookup of a call and its   *)
(* row no other process may add the prompt (FoundInv).                     *)
(***************************************************************************)
EXTENDS CorrelationProperties, FiniteSetTheorems, SequenceTheorems, TLAPS

\* What appending a row to a table does to its rows and its length.  The rows
\* need no other type than that of being the table's.
LEMMA AppendRow ==
    ASSUME NEW rows, rows \in Seq({rows[k] : k \in 1..Len(rows)}), NEW row
    PROVE  LET new == Append(rows, row)
           IN  /\ new \in Seq({new[k] : k \in 1..Len(new)})
               /\ Len(new) = Len(rows) + 1
               /\ new[Len(rows) + 1] = row
               /\ \A k \in 1..Len(rows) : new[k] = rows[k]
<1> DEFINE new == Append(rows, row)
           S == {rows[k] : k \in 1..Len(rows)}
           T == {new[k] : k \in 1..Len(new)}
<1>1. /\ Len(rows) \in Nat
      /\ Len(new) = Len(rows) + 1
      /\ new[Len(rows) + 1] = row
      /\ \A k \in 1..Len(rows) : new[k] = rows[k]
    OBVIOUS
<1>2. new \in Seq(S \union {row})
    OBVIOUS
<1>3. \A k \in 1..Len(new) : new[k] \in T
    OBVIOUS
<1>4. new \in [1..Len(new) -> S \union {row}]
    BY <1>2, LenProperties
<1>5. new \in [1..Len(new) -> T]
    <2> HIDE DEF new, T, S
    <2> QED
        BY <1>3, <1>4
<1>6. new \in Seq(T)
    <2> HIDE DEF new, T
    <2> QED
        BY <1>1, <1>5
<1> QED
    BY <1>1, <1>6

\* Row i of interactions is that of an upstream identity in a session.
Names(is, i, session, upstream) ==
    /\ i \in 1..Len(is)
    /\ is[i].session = session
    /\ is[i].upstream = upstream

Known(ss, session) == session = "" \/ session \in ss

Stored(es, raw) == \E e \in es : raw = <<e.id>>

RowShape(row) ==
    row = [raw |-> row.raw, session |-> row.session, parent |-> row.parent,
           usage |-> row.usage, link |-> row.link]

\* What holds of a row of calls or tools.
RowOK(is, ss, es, row) ==
    /\ RowShape(row)
    /\ row.link = NULL \/ Names(is, row.link, row.session, row.parent)
    /\ row.raw = None => row.link = NULL /\ row.parent = None
    /\ row.raw # None => Stored(es, row.raw) /\ Known(ss, row.session)

IsTable(rows) == rows \in Seq({rows[k] : k \in 1..Len(rows)})

RowsOK(is, ss, es, rows) ==
    IsTable(rows) /\ \A k \in 1..Len(rows) : RowOK(is, ss, es, rows[k])

RunShape(r) ==
    r = [pc |-> r.pc, event |-> r.event, payload |-> r.payload, raw |-> r.raw,
         link |-> r.link]

\* What a worker that ingests an event holds, by how far it has got.
HoldsOK(is, ss, es, r) ==
    /\ RunShape(r)
    /\ r.link = NULL \/ r.link \in 1..Len(is)
    /\ r.pc \in {"attach", "enforce", "append", "call", "tool", "exact", "unique"} =>
          r.link = NULL
    /\ r.pc \in {"legacy", "record"} =>
          r.link = NULL \/ Names(is, r.link, r.event.session, r.event.parent)
    /\ r.pc \in {"adopt calls", "adopt tools"} =>
          Names(is, r.link, r.event.session, RootIdentity(r.event))
    /\ r.pc \in {"call", "legacy"} => r.event.kind # "tool"
    /\ r.pc \in {"exact", "unique", "legacy", "record"} => Known(ss, r.event.session)
    /\ r.pc \in {"call", "tool", "exact", "unique", "legacy", "record"} =>
          Stored(es, r.raw)

RunOK(is, ss, es, r) == r = Idle \/ HoldsOK(is, ss, es, r)

ModesOK == config \in Modes \cup {"torn"} /\ inForce \subseteq Modes

Inv ==
    /\ ModesOK
    /\ IsTable(interactions)
    /\ RowsOK(interactions, sessions, ledger, calls)
    /\ RowsOK(interactions, sessions, ledger, tools)
    /\ run = [w \in Workers |-> run[w]]
    /\ \A w \in Workers : RunOK(interactions, sessions, ledger, run[w])

\* No row of a table that a proof depends on is ever removed or changed.
Grows(is, ss, es, is2, ss2, es2) ==
    /\ Len(is) \in Nat /\ Len(is2) \in Nat /\ Len(is) <= Len(is2)
    /\ \A i \in 1..Len(is) : is2[i] = is[i]
    /\ ss \subseteq ss2
    /\ es \subseteq es2

GrowsNow == Grows(interactions, sessions, ledger, interactions', sessions', ledger')

-----------------------------------------------------------------------------

\* The length of a table is a number, and its domain goes up to it.
LEMMA TableLength ==
    ASSUME NEW rows, IsTable(rows)
    PROVE  Len(rows) \in Nat /\ DOMAIN rows = 1..Len(rows)
BY DEF IsTable

\* A function over the indices of a table is a table of the same length.
LEMMA MappedTable ==
    ASSUME NEW rows, IsTable(rows), NEW new, new = [k \in DOMAIN rows |-> new[k]]
    PROVE  IsTable(new) /\ Len(new) = Len(rows)
<1>1. Len(rows) \in Nat /\ DOMAIN rows = 1..Len(rows)
  BY TableLength
<1> DEFINE T == {new[k] : k \in 1..Len(rows)}
<1>2. new \in [1..Len(rows) -> T]
  BY <1>1
<1>3. new \in Seq(T)
  <2> HIDE DEF T
  <2> QED  BY <1>1, <1>2
<1>4. Len(new) = Len(rows)
  <2> HIDE DEF T
  <2> QED  BY <1>1, <1>2, <1>3
<1> QED  BY <1>3, <1>4 DEF IsTable

\* What is found in tables is found in tables that have grown from them.
LEMMA FoundStays ==
    ASSUME NEW is, NEW ss, NEW es, NEW is2, NEW ss2, NEW es2,
           Grows(is, ss, es, is2, ss2, es2)
    PROVE  /\ \A i, session, upstream :
                 Names(is, i, session, upstream) => Names(is2, i, session, upstream)
           /\ \A i : i \in 1..Len(is) => i \in 1..Len(is2)
           /\ \A session : Known(ss, session) => Known(ss2, session)
           /\ \A raw : Stored(es, raw) => Stored(es2, raw)
<1>1. \A i : i \in 1..Len(is) => i \in 1..Len(is2) /\ is2[i] = is[i]
  BY DEF Grows
<1>2. \A i, session, upstream :
          Names(is, i, session, upstream) => Names(is2, i, session, upstream)
  BY <1>1 DEF Names
<1>3. \A session : Known(ss, session) => Known(ss2, session)
  BY DEF Grows, Known
<1>4. \A raw : Stored(es, raw) => Stored(es2, raw)
  BY DEF Grows, Stored
<1> QED  BY <1>1, <1>2, <1>3, <1>4

\* What holds of a row holds of it in tables that have grown.
LEMMA RowStays ==
    ASSUME NEW is, NEW ss, NEW es, NEW is2, NEW ss2, NEW es2,
           Grows(is, ss, es, is2, ss2, es2), NEW row, RowOK(is, ss, es, row)
    PROVE  RowOK(is2, ss2, es2, row)
BY FoundStays DEF RowOK

LEMMA RowsStay ==
    ASSUME NEW is, NEW ss, NEW es, NEW is2, NEW ss2, NEW es2,
           Grows(is, ss, es, is2, ss2, es2), NEW rows, RowsOK(is, ss, es, rows)
    PROVE  RowsOK(is2, ss2, es2, rows)
BY RowStays DEF RowsOK

\* And so does what a worker holds.
LEMMA RunStays ==
    ASSUME NEW is, NEW ss, NEW es, NEW is2, NEW ss2, NEW es2,
           Grows(is, ss, es, is2, ss2, es2), NEW r, RunOK(is, ss, es, r)
    PROVE  RunOK(is2, ss2, es2, r)
<1>1. CASE r = Idle
  BY <1>1 DEF RunOK
<1>2. CASE HoldsOK(is, ss, es, r)
  <2>1. /\ Names(is, r.link, r.event.session, r.event.parent) =>
               Names(is2, r.link, r.event.session, r.event.parent)
        /\ Names(is, r.link, r.event.session, RootIdentity(r.event)) =>
               Names(is2, r.link, r.event.session, RootIdentity(r.event))
        /\ r.link \in 1..Len(is) => r.link \in 1..Len(is2)
    BY FoundStays
  <2>2. /\ Known(ss, r.event.session) => Known(ss2, r.event.session)
        /\ Stored(es, r.raw) => Stored(es2, r.raw)
    BY FoundStays
  <2>3. HoldsOK(is2, ss2, es2, r)
    BY <1>2, <2>1, <2>2, Zenon DEF HoldsOK
  <2> QED  BY <2>3 DEF RunOK
<1> QED  BY <1>1, <1>2 DEF RunOK

\* A row that is appended to a table.
LEMMA RowsAppend ==
    ASSUME NEW is, NEW ss, NEW es, NEW rows, RowsOK(is, ss, es, rows),
           NEW row, RowOK(is, ss, es, row)
    PROVE  RowsOK(is, ss, es, Append(rows, row))
<1> DEFINE new == Append(rows, row)
<1>1. /\ new \in Seq({new[k] : k \in 1..Len(new)})
      /\ Len(new) = Len(rows) + 1
      /\ new[Len(rows) + 1] = row
      /\ \A k \in 1..Len(rows) : new[k] = rows[k]
  BY AppendRow DEF RowsOK, IsTable
<1>2. Len(rows) \in Nat
  BY TableLength DEF RowsOK
<1> HIDE DEF new
<1>3. \A k \in 1..Len(new) : k = Len(rows) + 1 \/ k \in 1..Len(rows)
  BY <1>1, <1>2
<1>4. \A k \in 1..Len(new) : RowOK(is, ss, es, new[k])
  BY <1>1, <1>3 DEF RowsOK
<1>5. RowsOK(is, ss, es, new)
  BY <1>1, <1>4 DEF RowsOK, IsTable
<1> QED  BY <1>5 DEF new

\* An interaction that adopts rows names what they name.
LEMMA BackfillKeepsRows ==
    ASSUME NEW is, NEW ss, NEW es, NEW rows, RowsOK(is, ss, es, rows),
           NEW i, NEW session, NEW upstream, Names(is, i, session, upstream)
    PROVE  RowsOK(is, ss, es, backfill(rows, i, session, upstream))
<1> DEFINE new == backfill(rows, i, session, upstream)
<1>1. Len(rows) \in Nat /\ DOMAIN rows = 1..Len(rows) /\ IsTable(rows)
  BY TableLength DEF RowsOK
<1>2. new = [k \in DOMAIN rows |-> new[k]]
  BY DEF backfill
<1>3. IsTable(new) /\ Len(new) = Len(rows)
  <2> HIDE DEF new
  <2> QED  BY <1>1, <1>2, MappedTable
<1>4. ASSUME NEW k \in 1..Len(rows) PROVE RowOK(is, ss, es, new[k])
  <2>1. RowOK(is, ss, es, rows[k])
    BY DEF RowsOK
  <2>2. CASE new[k] = rows[k]
    BY <2>1, <2>2
  <2>3. CASE new[k] # rows[k]
    <3>1. /\ new[k] = [rows[k] EXCEPT !.link = i]
          /\ rows[k].link = NULL /\ rows[k].session = session
          /\ rows[k].parent = upstream /\ upstream # None
      BY <1>1, <2>3 DEF backfill
    <3> HIDE DEF new
    <3> QED  BY <2>1, <3>1 DEF RowOK, RowShape
  <2> QED  BY <2>2, <2>3
<1> QED  BY <1>3, <1>4 DEF RowsOK

-----------------------------------------------------------------------------

\* A worker that is not idle holds an event.
LEMMA Holding ==
    ASSUME Inv, NEW w \in Workers, run[w].pc # "idle"
    PROVE  HoldsOK(interactions, sessions, ledger, run[w])
BY DEF Inv, RunOK, Idle

LEMMA HoldingShape ==
    ASSUME Inv, NEW w \in Workers, run[w].pc # "idle"
    PROVE  RunShape(run[w]) /\ w \in DOMAIN run
<1>1. RunShape(run[w])
  BY Holding, Zenon DEF HoldsOK
<1> QED  BY <1>1 DEF Inv

\* A step of one worker leaves what the other holds.
LEMMA WorkerStep ==
    ASSUME Inv, NEW w \in Workers, NEW new, run' = [run EXCEPT ![w] = new],
           GrowsNow, ModesOK', IsTable(interactions'),
           RowsOK(interactions', sessions', ledger', calls'),
           RowsOK(interactions', sessions', ledger', tools'),
           RunOK(interactions', sessions', ledger', new)
    PROVE  Inv'
<1>1. \A v \in Workers : RunOK(interactions', sessions', ledger', run[v])
  BY RunStays DEF Inv, GrowsNow
<1>2. run' = [v \in Workers |-> run'[v]]
  BY DEF Inv
<1>3. \A v \in Workers : run'[v] = run[v] \/ run'[v] = new
  BY DEF Inv
<1> QED  BY <1>1, <1>2, <1>3 DEF Inv

\* A step that reads the tables, or adds a session, and writes no row.
LEMMA ReadingStep ==
    ASSUME Inv, NEW w \in Workers, NEW new, run' = [run EXCEPT ![w] = new],
           UNCHANGED <<ledger, interactions, calls, tools>>,
           sessions \subseteq sessions', ModesOK',
           RunOK(interactions, sessions', ledger, new)
    PROVE  Inv'
<1>1. GrowsNow
  BY TableLength DEF GrowsNow, Grows, Inv
<1>2. /\ RowsOK(interactions', sessions', ledger', calls')
      /\ RowsOK(interactions', sessions', ledger', tools')
  BY <1>1, RowsStay DEF GrowsNow, Inv
<1>3. IsTable(interactions')
  BY DEF Inv
<1> QED  BY <1>1, <1>2, <1>3, WorkerStep

\* A step that only goes on to the next statement.
LEMMA GoingOn ==
    ASSUME Inv, NEW w \in Workers, NEW new, run' = [run EXCEPT ![w] = new],
           UNCHANGED Store, ModesOK', RunOK(interactions, sessions, ledger, new)
    PROVE  Inv'
BY ReadingStep DEF Store

\* A request that is received, and a prompt of which something is left out.
LEMMA BeginningKeepsInv ==
    ASSUME Inv,
           \/ \E w \in Workers : (\E e \in Events : Receive(w, e)) \/ Attach(w) \/ Enforce(w)
           \/ \E m \in inbox : ReceiveForwarded(m)
    PROVE  Inv'
<1>1. \A e, payload : \A pc \in {"attach", "enforce"} :
          RunOK(interactions, sessions, ledger, Started(pc, e, payload))
  <2> TAKE e, payload
  <2> TAKE pc \in {"attach", "enforce"}
  <2> DEFINE r == Started(pc, e, payload)
  <2>1. RunShape(r) /\ r.pc \in {"attach", "enforce"} /\ r.link = NULL
    BY DEF RunShape, Started
  <2>2. HoldsOK(interactions, sessions, ledger, r)
    <3> HIDE DEF r
    <3> QED  BY <2>1 DEF HoldsOK
  <2> QED  BY <2>2 DEF RunOK
<1>2. ASSUME NEW w \in Workers, NEW e \in Events, Receive(w, e)
      PROVE  Inv'
  <2> DEFINE label == IF e.via = "otlp" /\ e.kind = "prompt" /\ e.agent THEN "hash" ELSE ""
             new == IF e.via \in {"hook", "plugin"}
                    THEN Started("attach", e, [holds |-> sanitizePluginPayload(e), label |-> ""])
                    ELSE Started("enforce", e, [holds |-> e.holds \ {"text"}, label |-> label])
  <2>1. run' = [run EXCEPT ![w] = new]
    BY <1>2, Zenon DEF Receive
  <2>2. UNCHANGED Store /\ ModesOK'
    BY <1>2 DEF Receive, Inv, ModesOK
  <2>3. RunOK(interactions, sessions, ledger, new)
    BY <1>1
  <2> HIDE DEF new
  <2> QED  BY <2>1, <2>2, <2>3, GoingOn DEF new
<1>3. ASSUME NEW m \in inbox, ReceiveForwarded(m)
      PROVE  Inv'
  <2> DEFINE new == run'["collector"]
  <2>1. /\ run' = [run EXCEPT !["collector"] = new]
        /\ RunOK(interactions, sessions, ledger, new)
    BY <1>1, <1>3 DEF ReceiveForwarded, Inv, Workers
  <2>2. UNCHANGED Store /\ ModesOK' /\ "collector" \in Workers
    BY <1>3 DEF ReceiveForwarded, Inv, ModesOK, Workers
  <2> HIDE DEF new
  <2> QED  BY <2>1, <2>2, GoingOn
<1>4. ASSUME NEW w \in Workers, Attach(w) \/ Enforce(w)
      PROVE  Inv'
  <2>1. HoldsOK(interactions, sessions, ledger, run[w])
    BY <1>4, Holding DEF Attach, Enforce, At
  <2> DEFINE new == run'[w]
  <2>2. run' = [run EXCEPT ![w] = new] /\ UNCHANGED Store /\ ModesOK'
    BY <1>4 DEF Attach, Enforce, Inv, ModesOK, Elsewhere
  <2>3. /\ RunShape(new) /\ new.pc \in {"enforce", "append"}
        /\ new.link = run[w].link /\ run[w].link = NULL
    <3>1. run[w].link = NULL /\ RunShape(run[w]) /\ w \in DOMAIN run
      BY <1>4, <2>1 DEF Attach, Enforce, At, HoldsOK, Inv
    <3>2. CASE Attach(w)
      <4> DEFINE attached == attachPromptCapture(run[w].event, run[w].payload.holds,
                                                 PromptCaptureMode)
                 payload == IF run[w].payload.label = "" THEN attached
                            ELSE [attached EXCEPT !.label = PromptCaptureMode]
      <4>1. run' = [run EXCEPT ![w].pc = "enforce", ![w].payload = payload]
        BY <3>2, Zenon DEF Attach
      <4> HIDE DEF payload
      <4> QED  BY <3>1, <4>1 DEF RunShape
    <3>3. CASE Enforce(w)
      <4> DEFINE payload == enforcePromptCapturePolicy(run[w].payload, PromptCaptureMode)
      <4>1. run' = [run EXCEPT ![w].pc = "append", ![w].payload = payload]
        BY <3>3 DEF Enforce
      <4> HIDE DEF payload
      <4> QED  BY <3>1, <4>1 DEF RunShape
    <3> QED  BY <1>4, <3>2, <3>3
  <2>4. RunOK(interactions, sessions, ledger, new)
    <3> HIDE DEF new
    <3> QED  BY <2>3 DEF RunOK, HoldsOK
  <2> HIDE DEF new
  <2> QED  BY <2>2, <2>4, GoingOn
<1> QED  BY <1>2, <1>3, <1>4

\* The raw event is in the ledger before anything refers to it.
LEMMA AppendKeepsInv ==
    ASSUME Inv, NEW w \in Workers, AppendRawEvent(w)
    PROVE  Inv'
<1> DEFINE e  == run[w].event
           id == CanonicalIngestionIdentity(e, run[w].payload)
           pc == IF e.kind = "model" THEN "call" ELSE AfterCall(e)
           new == [run[w] EXCEPT !.raw = <<id>>, !.pc = pc]
<1>1. HoldsOK(interactions, sessions, ledger, run[w]) /\ run[w].link = NULL
  BY Holding DEF AppendRawEvent, At, HoldsOK
<1>2. run' = [run EXCEPT ![w] = new]
  BY DEF AppendRawEvent, Inv
<1>3. /\ UNCHANGED <<sessions, interactions, calls, tools>>
      /\ ModesOK'
      /\ ledger \subseteq ledger'
  BY DEF AppendRawEvent, Inv, ModesOK, Elsewhere
<1>4. \E r \in ledger' : r.id = id
  <2>1. CASE \E r \in ledger : r.id = id
    BY <2>1, <1>3
  <2>2. CASE ~ \E r \in ledger : r.id = id
    <3>1. [id |-> id, holds |-> run[w].payload.holds] \in ledger'
      BY <2>2 DEF AppendRawEvent
    <3> HIDE DEF id
    <3> QED  BY <3>1
  <2> QED  BY <2>1, <2>2
<1>5. /\ RunShape(new) /\ new.pc = pc /\ new.link = NULL
      /\ new.event = e /\ new.raw = <<id>>
  <2>1. RunShape(run[w]) /\ run[w].link = NULL
    BY <1>1 DEF HoldsOK
  <2> DEFINE raw == <<id>>
  <2> HIDE DEF id, pc, raw
  <2>2. new = [run[w] EXCEPT !.raw = raw, !.pc = pc]
    BY DEF raw
  <2> HIDE DEF new
  <2>3. RunShape(new) /\ new.pc = pc /\ new.link = NULL /\ new.event = e /\ new.raw = raw
    BY <2>1, <2>2 DEF RunShape
  <2> QED  BY <2>3 DEF raw
<1>6. /\ pc \in {"call", "root", "tool", "done"}
      /\ pc = "call" => e.kind # "tool"
  BY DEF AfterCall
<1>7. Stored(ledger', <<id>>)
  <2> HIDE DEF id
  <2> QED  BY <1>4 DEF Stored
<1>8. RunOK(interactions', sessions', ledger', new)
  <2> HIDE DEF new, pc, id, e
  <2> QED  BY <1>5, <1>6, <1>7 DEF RunOK, HoldsOK
<1>9. GrowsNow
  BY <1>3, TableLength DEF GrowsNow, Grows, Inv
<1>10. /\ RowsOK(interactions', sessions', ledger', calls')
       /\ RowsOK(interactions', sessions', ledger', tools')
       /\ IsTable(interactions')
  BY <1>3, <1>9, RowsStay DEF GrowsNow, Inv
<1> HIDE DEF new
<1> QED  BY <1>2, <1>3, <1>8, <1>9, <1>10, WorkerStep

\* The only interaction of a session with an identity has that identity.
LEMMA UniqueNames ==
    ASSUME Inv, NEW session, NEW upstream
    PROVE  LET i == InteractionBySessionUpstream(session, upstream)
           IN  i = NULL \/ Names(interactions, i, session, upstream)
<1> DEFINE S == BySessionUpstream(session, upstream)
           i == InteractionBySessionUpstream(session, upstream)
<1>1. \A k \in S : Names(interactions, k, session, upstream)
  BY TableLength DEF Inv, BySessionUpstream, RowsWith, Names
<1>2. CASE i = NULL
  BY <1>2
<1>3. CASE i # NULL
  <2>1. Cardinality(S) = 1 /\ i = CHOOSE k \in S : TRUE
    BY <1>3 DEF InteractionBySessionUpstream
  <2>2. S # {}
    BY <2>1, FS_EmptySet
  <2> HIDE DEF S, i
  <2>3. i \in S
    BY <2>1, <2>2
  <2> QED  BY <1>1, <2>3 DEF i
<1> QED  BY <1>2, <1>3

\* A handler goes on to its next statement, with a link or the one it has.
MovesTo(w, pc, link) ==
    \E new : /\ run' = [run EXCEPT ![w] = new]
             /\ RunShape(new) /\ new.pc = pc /\ new.link = link
             /\ new.event = run[w].event /\ new.raw = run[w].raw
             /\ new.payload = run[w].payload

LEMMA GotoMoves ==
    ASSUME Inv, NEW w \in Workers, run[w].pc # "idle", NEW pc, Goto(w, pc)
    PROVE  MovesTo(w, pc, run[w].link)
<1> DEFINE new == [run[w] EXCEPT !.pc = pc]
<1>1. RunShape(run[w]) /\ w \in DOMAIN run
  BY Holding DEF HoldsOK, Inv
<1>2. run' = [run EXCEPT ![w] = new]
  BY <1>1 DEF Goto
<1>3. RunShape(new) /\ new.pc = pc /\ new.link = run[w].link
      /\ new.event = run[w].event /\ new.raw = run[w].raw
      /\ new.payload = run[w].payload
  BY <1>1 DEF RunShape
<1> HIDE DEF new
<1> QED  BY <1>2, <1>3 DEF MovesTo

LEMMA LinkMoves ==
    ASSUME Inv, NEW w \in Workers, run[w].pc # "idle", NEW pc, NEW link,
           run' = [run EXCEPT ![w].link = link, ![w].pc = pc]
    PROVE  MovesTo(w, pc, link)
<1> DEFINE new == run'[w]
<1>1. RunShape(run[w]) /\ w \in DOMAIN run
  BY Holding DEF HoldsOK, Inv
<1>2. run' = [run EXCEPT ![w] = new]
  BY DEF Inv
<1>3. RunShape(new) /\ new.pc = pc /\ new.link = link
      /\ new.event = run[w].event /\ new.raw = run[w].raw
      /\ new.payload = run[w].payload
  BY <1>1 DEF RunShape
<1> HIDE DEF new
<1> QED  BY <1>2, <1>3 DEF MovesTo

\* A lookup only reads, and takes on a row that names the parent, or none.
LEMMA LookupStep ==
    ASSUME Inv, NEW w \in Workers, run[w].pc # "idle", NEW pc, NEW link,
           MovesTo(w, pc, link),
           UNCHANGED <<ledger, interactions, calls, tools>>,
           sessions \subseteq sessions', ModesOK',
           Stored(ledger, run[w].raw),
           pc \in {"root", "tool", "done", "legacy", "exact", "record", "unique"},
           pc \notin {"legacy", "record"} => link = NULL,
           link = NULL \/ Names(interactions, link, run[w].event.session, run[w].event.parent),
           pc = "legacy" => run[w].event.kind # "tool",
           pc \in {"exact", "unique", "legacy", "record"} => Known(sessions', run[w].event.session)
    PROVE  Inv'
<1>1. PICK new : /\ run' = [run EXCEPT ![w] = new]
                 /\ RunShape(new) /\ new.pc = pc /\ new.link = link
                 /\ new.event = run[w].event /\ new.raw = run[w].raw
  BY DEF MovesTo
<1>2. link = NULL \/ link \in 1..Len(interactions)
  BY DEF Names
<1>3. HoldsOK(interactions, sessions', ledger, new)
  BY <1>1, <1>2 DEF HoldsOK
<1> QED  BY <1>1, <1>3, ReadingStep DEF RunOK

LEMMA LookupsKeepInv ==
    ASSUME Inv, NEW w \in Workers,
           CheckCall(w) \/ BeginTool(w) \/ FindExact(w) \/ FindUnique(w)
    PROVE  Inv'
<1> DEFINE e == run[w].event
<1>1. run[w].pc # "idle" /\ HoldsOK(interactions, sessions, ledger, run[w])
  BY Holding DEF CheckCall, BeginTool, FindExact, FindUnique, At
<1>2. run[w].link = NULL /\ Stored(ledger, run[w].raw)
  BY <1>1 DEF CheckCall, BeginTool, FindExact, FindUnique, At, HoldsOK
<1>3. /\ UNCHANGED <<ledger, interactions, calls, tools>>
      /\ ModesOK' /\ sessions \subseteq sessions'
  BY DEF CheckCall, BeginTool, FindExact, FindUnique, Inv, ModesOK, Elsewhere, EnsureSession, Store
<1>4. DOMAIN interactions = 1..Len(interactions)
  BY TableLength DEF Inv
<1>5. CASE CheckCall(w)
  <2>1. e.kind # "tool"
    BY <1>1, <1>5 DEF CheckCall, At, HoldsOK
  <2>2. AfterCall(e) \in {"root", "done"}
    BY <2>1 DEF AfterCall
  <2>3. \E pc : /\ Goto(w, pc) /\ pc \in {"root", "done", "legacy", "exact"}
                /\ pc \in {"legacy", "exact"} => Known(sessions', e.session)
    BY <1>5, <2>2 DEF CheckCall, EnsureSession, Known
  <2> QED  BY <1>1, <1>2, <1>3, <2>1, <2>3, GotoMoves, LookupStep
<1>6. CASE BeginTool(w)
  <2>1. \E pc : Goto(w, pc) /\ pc \in {"record", "exact"}
    BY <1>6 DEF BeginTool
  <2>2. Known(sessions', e.session)
    BY <1>6 DEF BeginTool, EnsureSession, Known
  <2> QED  BY <1>1, <1>2, <1>3, <2>1, <2>2, GotoMoves, LookupStep
<1>7. CASE FindExact(w)
  <2>1. Known(sessions', e.session)
    BY <1>1, <1>7, <1>3 DEF FindExact, At, HoldsOK, Known
  <2>2. CASE Goto(w, "unique")
    BY <1>1, <1>2, <1>3, <2>1, <2>2, GotoMoves, LookupStep
  <2>3. CASE ~Goto(w, "unique")
    <3>1. \E i \in InteractionByUpstream(e.source, e.session, e.parent) :
             run' = [run EXCEPT ![w].link = i, ![w].pc = AfterLookup(e)]
      BY <1>7, <2>3 DEF FindExact
    <3>2. PICK i : /\ Names(interactions, i, e.session, e.parent)
                   /\ run' = [run EXCEPT ![w].link = i, ![w].pc = AfterLookup(e)]
      BY <3>1, <1>4 DEF InteractionByUpstream, RowsWith, Names
    <3>3. AfterLookup(e) \in {"record", "legacy"}
          /\ (AfterLookup(e) = "legacy" => e.kind # "tool")
      BY DEF AfterLookup
    <3> QED  BY <1>1, <1>2, <1>3, <2>1, <3>2, <3>3, LinkMoves, LookupStep
  <2> QED  BY <2>2, <2>3
<1>8. CASE FindUnique(w)
  <2>1. Known(sessions', e.session)
    BY <1>1, <1>8, <1>3 DEF FindUnique, At, HoldsOK, Known
  <2> DEFINE i == InteractionBySessionUpstream(e.session, e.parent)
  <2>2. run' = [run EXCEPT ![w].link = i, ![w].pc = AfterLookup(e)]
    BY <1>8 DEF FindUnique
  <2>3. i = NULL \/ Names(interactions, i, e.session, e.parent)
    BY UniqueNames
  <2>4. AfterLookup(e) \in {"record", "legacy"}
        /\ (AfterLookup(e) = "legacy" => e.kind # "tool")
    BY DEF AfterLookup
  <2> HIDE DEF i
  <2> QED  BY <1>1, <1>2, <1>3, <2>1, <2>2, <2>3, <2>4, LinkMoves, LookupStep
<1> QED  BY <1>5, <1>6, <1>7, <1>8

\* A statement that writes rows, and what its worker goes on with.
LEMMA WriterStep ==
    ASSUME Inv, NEW w \in Workers, run[w].pc # "idle", NEW pc, NEW link,
           MovesTo(w, pc, link),
           UNCHANGED <<ledger, sessions>>, ModesOK', GrowsNow, IsTable(interactions'),
           RowsOK(interactions', sessions', ledger', calls'),
           RowsOK(interactions', sessions', ledger', tools'),
           pc \in {"root", "done", "record", "adopt calls", "adopt tools"},
           link = NULL \/ link \in 1..Len(interactions'),
           pc = "record" => /\ link = NULL \/ Names(interactions', link, run[w].event.session,
                                                    run[w].event.parent)
                            /\ Known(sessions, run[w].event.session)
                            /\ Stored(ledger, run[w].raw),
           pc \in {"adopt calls", "adopt tools"} =>
               Names(interactions', link, run[w].event.session, RootIdentity(run[w].event))
    PROVE  Inv'
<1>1. PICK new : /\ run' = [run EXCEPT ![w] = new]
                 /\ RunShape(new) /\ new.pc = pc /\ new.link = link
                 /\ new.event = run[w].event /\ new.raw = run[w].raw
  BY DEF MovesTo
<1>2. HoldsOK(interactions', sessions, ledger, new)
  BY <1>1 DEF HoldsOK
<1>3. RunOK(interactions', sessions', ledger', new)
  BY <1>2 DEF RunOK
<1> QED  BY <1>1, <1>3, WorkerStep

\* Without a new interaction, the tables have grown.
LEMMA SameTables ==
    ASSUME Inv, UNCHANGED <<ledger, sessions, interactions>>
    PROVE  GrowsNow /\ IsTable(interactions')
BY TableLength DEF GrowsNow, Grows, Inv

\* A call of an old version is given the raw event and the parent with its link.
LEMMA LegacyKeepsInv ==
    ASSUME Inv, NEW w \in Workers, LinkMatchingLegacyModelCall(w)
    PROVE  Inv'
<1> DEFINE r == run[w]
           e == run[w].event
<1>1. r.pc = "legacy" /\ r.pc # "idle" /\ HoldsOK(interactions, sessions, ledger, r)
  BY Holding DEF LinkMatchingLegacyModelCall, At
<1>2. /\ r.link = NULL \/ Names(interactions, r.link, e.session, e.parent)
      /\ Known(sessions, e.session) /\ Stored(ledger, r.raw) /\ e.kind # "tool"
      /\ r.link = NULL \/ r.link \in 1..Len(interactions)
  BY <1>1 DEF HoldsOK
<1>3. UNCHANGED <<ledger, sessions, interactions, tools>> /\ ModesOK'
  BY DEF LinkMatchingLegacyModelCall, Inv, ModesOK, Elsewhere
<1>4. GrowsNow /\ IsTable(interactions') /\ RowsOK(interactions', sessions', ledger', tools')
  BY <1>3, SameTables DEF Inv
<1>5. CASE Goto(w, "record") /\ UNCHANGED calls
  <2>1. RowsOK(interactions', sessions', ledger', calls')
    BY <1>3, <1>5 DEF Inv
  <2>2. MovesTo(w, "record", r.link)
    BY <1>1, <1>5, GotoMoves
  <2> QED  BY <1>1, <1>2, <1>3, <1>4, <2>1, <2>2, WriterStep
<1>6. CASE ~(Goto(w, "record") /\ UNCHANGED calls)
  <2>1. PICK i \in LegacyCandidates(e) :
            /\ calls' = [calls EXCEPT
                   ![i].raw    = r.raw,
                   ![i].link   = IF @ = NULL THEN r.link ELSE @,
                   ![i].parent = IF @ = None THEN r.event.parent ELSE @]
            /\ Goto(w, AfterCall(e))
    BY <1>6 DEF LinkMatchingLegacyModelCall
  <2>2. /\ Len(calls) \in Nat /\ DOMAIN calls = 1..Len(calls) /\ IsTable(calls)
        /\ i \in 1..Len(calls) /\ calls[i].raw = None /\ calls[i].session = e.session
    BY TableLength DEF Inv, RowsOK, LegacyCandidates, RowsWith
  <2>3. RowOK(interactions, sessions, ledger, calls[i])
    BY <2>2 DEF Inv, RowsOK
  <2>4. RowShape(calls[i]) /\ calls[i].link = NULL /\ calls[i].parent = None
    BY <2>2, <2>3 DEF RowOK
  <2> DEFINE new == calls'
             row == [calls[i] EXCEPT !.raw = r.raw, !.link = r.link,
                                     !.parent = e.parent]
  <2>5. /\ new = [k \in DOMAIN calls |-> new[k]]
        /\ \A k \in 1..Len(calls) : k # i => new[k] = calls[k]
    BY <2>1, <2>2
  <2>6. /\ new[i].raw = r.raw /\ new[i].link = r.link /\ new[i].parent = e.parent
        /\ new[i].session = e.session /\ RowShape(new[i])
    BY <2>1, <2>2, <2>4 DEF RowShape
  <2>7. RowOK(interactions, sessions, ledger, new[i])
    <3>1. r.raw # None
      BY <1>2 DEF Stored, None
    <3> HIDE DEF new, r, e
    <3> QED  BY <1>2, <2>6, <3>1 DEF RowOK
  <2>8. IsTable(new) /\ Len(new) = Len(calls)
    <3> HIDE DEF new
    <3> QED  BY <2>2, <2>5, MappedTable
  <2>9. \A k \in 1..Len(calls) : RowOK(interactions, sessions, ledger, new[k])
    <3> HIDE DEF new
    <3> QED  BY <2>5, <2>7 DEF Inv, RowsOK
  <2>10. RowsOK(interactions', sessions', ledger', calls')
    BY <1>3, <2>8, <2>9 DEF RowsOK
  <2>11. AfterCall(e) \in {"root", "done"}
    BY <1>2 DEF AfterCall
  <2>12. MovesTo(w, AfterCall(e), r.link)
    BY <1>1, <2>1, GotoMoves
  <2> QED  BY <1>1, <1>2, <1>3, <1>4, <2>10, <2>11, <2>12, WriterStep
<1> QED  BY <1>5, <1>6

\* The row of a call says what its worker holds.
LEMMA RowOfRun ==
    ASSUME NEW is, NEW ss, NEW es, NEW r, Stored(es, r.raw), Known(ss, r.event.session),
           r.link = NULL \/ Names(is, r.link, r.event.session, r.event.parent)
    PROVE  RowOK(is, ss, es, Row(r))
<1> DEFINE row == Row(r)
<1>1. /\ RowShape(row) /\ row.raw = r.raw /\ row.link = r.link
      /\ row.session = r.event.session /\ row.parent = r.event.parent
  BY DEF RowShape, Row
<1>2. r.raw # None
  BY DEF Stored, None
<1> HIDE DEF row
<1>3. RowOK(is, ss, es, row)
  BY <1>1, <1>2 DEF RowOK
<1> QED  BY <1>3 DEF row

LEMMA RecordsKeepInv ==
    ASSUME Inv, NEW w \in Workers, RecordModelCall(w) \/ RecordToolCall(w)
    PROVE  Inv'
<1> DEFINE r == run[w]
           e == run[w].event
<1>1. r.pc = "record" /\ r.pc # "idle" /\ HoldsOK(interactions, sessions, ledger, r)
  BY Holding DEF RecordModelCall, RecordToolCall, At
<1>2. /\ r.link = NULL \/ Names(interactions, r.link, e.session, e.parent)
      /\ Known(sessions, e.session) /\ Stored(ledger, r.raw)
      /\ r.link = NULL \/ r.link \in 1..Len(interactions)
  BY <1>1 DEF HoldsOK
<1>3. RowOK(interactions, sessions, ledger, Row(r))
  BY <1>2, RowOfRun
<1>4. UNCHANGED <<ledger, sessions, interactions>> /\ ModesOK'
  BY DEF RecordModelCall, RecordToolCall, Inv, ModesOK, Elsewhere
<1>5. GrowsNow /\ IsTable(interactions')
  BY <1>4, SameTables
<1>6. /\ calls' = calls \/ calls' = Append(calls, Row(r))
      /\ tools' = tools \/ tools' = Append(tools, Row(r))
  BY DEF RecordModelCall, RecordToolCall
<1>7. /\ RowsOK(interactions, sessions, ledger, calls')
      /\ RowsOK(interactions, sessions, ledger, tools')
  BY <1>3, <1>6, RowsAppend DEF Inv
<1>8. \E pc \in {"root", "done"} : Goto(w, pc)
  BY DEF RecordModelCall, RecordToolCall, AfterCall
<1>9. PICK pc \in {"root", "done"} : Goto(w, pc)
  BY <1>8
<1>10. MovesTo(w, pc, r.link)
  BY <1>1, <1>9, GotoMoves
<1> QED  BY <1>1, <1>2, <1>4, <1>5, <1>7, <1>10, WriterStep

\* A prompt has a row of its own, found or added, and adopts what names it.
LEMMA RecordInteractionKeepsInv ==
    ASSUME Inv, NEW w \in Workers, RecordInteraction(w)
    PROVE  Inv'
<1> DEFINE e == run[w].event
           p == run[w].payload
           root == RootIdentity(e)
           found == InteractionByUpstream(e.source, e.session, root)
           row == [source |-> e.source, session |-> e.session, upstream |-> root,
                   holds |-> p.holds, label |-> IF p.label = "" THEN "hash" ELSE p.label]
<1>1. run[w].pc # "idle"
  BY DEF RecordInteraction, At
<1>2. UNCHANGED <<ledger, sessions, calls, tools>> /\ ModesOK'
  BY DEF RecordInteraction, Inv, ModesOK, Elsewhere
<1>3. IsTable(interactions) /\ Len(interactions) \in Nat
      /\ DOMAIN interactions = 1..Len(interactions)
  BY TableLength DEF Inv
<1>4. /\ interactions' = IF found # {} THEN interactions ELSE Append(interactions, row)
      /\ \E i \in IF found # {} THEN found ELSE {Len(interactions) + 1} :
             run' = [run EXCEPT ![w].link = i, ![w].pc = "adopt calls"]
  BY DEF RecordInteraction
<1>5. /\ GrowsNow /\ IsTable(interactions')
      /\ \A i \in IF found # {} THEN found ELSE {Len(interactions) + 1} :
             Names(interactions', i, e.session, root)
  <2>1. CASE found # {}
    <3>1. interactions' = interactions
      BY <1>4, <2>1
    <3>2. \A i \in found : Names(interactions, i, e.session, root)
      BY <1>3 DEF InteractionByUpstream, RowsWith, Names
    <3> QED  BY <1>2, <2>1, <3>1, <3>2, SameTables DEF Names
  <2>2. CASE found = {}
    <3>1. interactions' = Append(interactions, row)
      BY <1>4, <2>2
    <3>2. row.session = e.session /\ row.upstream = root
      OBVIOUS
    <3> HIDE DEF row, found, root, e
    <3>3. /\ IsTable(interactions') /\ Len(interactions') = Len(interactions) + 1
          /\ interactions'[Len(interactions) + 1] = row
          /\ \A k \in 1..Len(interactions) : interactions'[k] = interactions[k]
      BY <1>3, <3>1, AppendRow DEF IsTable
    <3>4. Names(interactions', Len(interactions) + 1, e.session, root)
      BY <1>3, <3>2, <3>3 DEF Names
    <3>5. GrowsNow
      BY <1>2, <1>3, <3>3 DEF GrowsNow, Grows
    <3> QED  BY <2>2, <3>3, <3>4, <3>5
  <2> QED  BY <2>1, <2>2
<1>6. PICK i : /\ run' = [run EXCEPT ![w].link = i, ![w].pc = "adopt calls"]
               /\ Names(interactions', i, e.session, root)
  BY <1>4, <1>5
<1>7. MovesTo(w, "adopt calls", i)
  BY <1>1, <1>6, LinkMoves
<1>8. i \in 1..Len(interactions')
  BY <1>6 DEF Names
<1>9. /\ RowsOK(interactions', sessions', ledger', calls')
      /\ RowsOK(interactions', sessions', ledger', tools')
  BY <1>2, <1>5, RowsStay DEF GrowsNow, Inv
<1> HIDE DEF found, row
<1> QED  BY <1>1, <1>2, <1>5, <1>6, <1>7, <1>8, <1>9, WriterStep

LEMMA AdoptionKeepsInv ==
    ASSUME Inv, NEW w \in Workers, AdoptCalls(w) \/ AdoptTools(w)
    PROVE  Inv'
<1> DEFINE e == run[w].event
           i == run[w].link
           root == RootIdentity(e)
<1>1. /\ run[w].pc \in {"adopt calls", "adopt tools"} /\ run[w].pc # "idle"
      /\ HoldsOK(interactions, sessions, ledger, run[w])
  BY Holding DEF AdoptCalls, AdoptTools, At
<1>2. Names(interactions, i, e.session, root) /\ i \in 1..Len(interactions)
  BY <1>1 DEF HoldsOK, Names
<1>3. UNCHANGED <<ledger, sessions, interactions>> /\ ModesOK'
  BY DEF AdoptCalls, AdoptTools, Inv, ModesOK, Elsewhere
<1>4. GrowsNow /\ IsTable(interactions')
  BY <1>3, SameTables
<1>5. /\ calls' = calls \/ calls' = backfill(calls, i, e.session, root)
      /\ tools' = tools \/ tools' = backfill(tools, i, e.session, root)
  BY DEF AdoptCalls, AdoptTools
<1>6. /\ RowsOK(interactions, sessions, ledger, calls')
      /\ RowsOK(interactions, sessions, ledger, tools')
  BY <1>2, <1>5, BackfillKeepsRows DEF Inv
<1>7. PICK pc \in {"adopt tools", "done"} : Goto(w, pc)
  BY DEF AdoptCalls, AdoptTools
<1>8. MovesTo(w, pc, i)
  BY <1>1, <1>7, GotoMoves
<1> QED  BY <1>1, <1>2, <1>3, <1>4, <1>6, <1>8, WriterStep

\* An ingestion ends, or is cut short wherever it is.
LEMMA EndingKeepsInv ==
    ASSUME Inv, NEW w \in Workers, Done(w) \/ Abandon(w)
    PROVE  Inv'
<1>1. run' = [run EXCEPT ![w] = Idle] /\ UNCHANGED Store /\ ModesOK'
  BY DEF Done, Abandon, Inv, ModesOK
<1> QED  BY <1>1, GoingOn DEF RunOK

\* What happens around the store leaves it alone.
LEMMA OutsideKeepsInv ==
    ASSUME Inv,
           \/ SetPromptCaptureMode
           \/ \E mode \in Modes : WriteMode(mode)
           \/ \E e \in Events : Forward(e)
           \/ \E m \in inbox : Lose(m)
           \/ UNCHANGED vars
    PROVE  Inv'
<1>1. UNCHANGED <<run, Store>>
  BY DEF SetPromptCaptureMode, WriteMode, Forward, Lose, vars, Store
<1>2. ModesOK'
  BY DEF SetPromptCaptureMode, WriteMode, Forward, Lose, vars, Inv, ModesOK
<1> QED  BY <1>1, <1>2 DEF Inv, Store

LEMMA InitInv == Init => Inv
<1> SUFFICES ASSUME Init PROVE Inv
  OBVIOUS
<1>1. ModesOK
  BY DeliveriesAssumption DEF Init, ModesOK
<1>2. interactions = << >> /\ tools = << >>
  BY DEF Init
<1>3. IsTable(interactions) /\ RowsOK(interactions, sessions, ledger, tools)
  BY <1>2 DEF IsTable, RowsOK
<1>4. RowsOK(interactions, sessions, ledger, calls)
  <2> DEFINE n == Len(Legacy)
             T == {calls[k] : k \in 1..n}
  <2>1. n \in Nat /\ DOMAIN Legacy = 1..n
    BY DeliveriesAssumption
  <2>2. calls = [k \in 1..n |-> [raw |-> None, session |-> Legacy[k].session, parent |-> None,
                                 usage |-> Legacy[k].usage, link |-> NULL]]
    BY <2>1 DEF Init
  <2>3. calls \in [1..n -> T]
    BY <2>2
  <2>4. calls \in Seq(T) /\ Len(calls) = n
    <3> HIDE DEF T, n
    <3> QED  BY <2>1, <2>3
  <2>5. \A k \in 1..n : /\ RowShape(calls[k]) /\ calls[k].link = NULL
                        /\ calls[k].raw = None /\ calls[k].parent = None
    BY <2>2 DEF RowShape
  <2>6. \A k \in 1..n : RowOK(interactions, sessions, ledger, calls[k])
    BY <2>5 DEF RowOK
  <2> QED  BY <2>4, <2>6 DEF RowsOK, IsTable
<1>5. run = [w \in Workers |-> run[w]] /\ \A w \in Workers : run[w] = Idle
  BY DEF Init
<1> QED  BY <1>1, <1>3, <1>4, <1>5 DEF Inv, RunOK

LEMMA StepInv == Inv /\ [Next]_vars => Inv'
<1> SUFFICES ASSUME Inv, [Next]_vars PROVE Inv'
  OBVIOUS
<1>1. CASE \/ SetPromptCaptureMode
           \/ \E mode \in Modes : WriteMode(mode)
           \/ \E e \in Events : Forward(e)
           \/ \E m \in inbox : Lose(m)
           \/ UNCHANGED vars
  BY <1>1, OutsideKeepsInv
<1>2. CASE \/ \E w \in Workers : \E e \in Events : Receive(w, e)
           \/ \E m \in inbox : ReceiveForwarded(m)
  BY <1>2, BeginningKeepsInv
<1>3. ASSUME NEW w \in Workers, Ingest(w) PROVE Inv'
  <2>1. CASE Attach(w) \/ Enforce(w)
    BY <2>1, BeginningKeepsInv
  <2>2. CASE AppendRawEvent(w)
    BY <2>2, AppendKeepsInv
  <2>3. CASE CheckCall(w) \/ BeginTool(w) \/ FindExact(w) \/ FindUnique(w)
    BY <2>3, LookupsKeepInv
  <2>4. CASE LinkMatchingLegacyModelCall(w)
    BY <2>4, LegacyKeepsInv
  <2>5. CASE RecordModelCall(w) \/ RecordToolCall(w)
    BY <2>5, RecordsKeepInv
  <2>6. CASE RecordInteraction(w)
    BY <2>6, RecordInteractionKeepsInv
  <2>7. CASE AdoptCalls(w) \/ AdoptTools(w)
    BY <2>7, AdoptionKeepsInv
  <2>8. CASE Done(w) \/ Abandon(w)
    BY <2>8, EndingKeepsInv
  <2> QED  BY <1>3, <2>1, <2>2, <2>3, <2>4, <2>5, <2>6, <2>7, <2>8 DEF Ingest
<1> QED  BY <1>1, <1>2, <1>3 DEF Next

\* The invariant holds in every behaviour of the two writers.
THEOREM LookupsStayRight == Spec => []Inv
BY InitInv, StepInv, PTL DEF Spec

\* References never dangle: links name rows of interactions, rows name raw
\* events of the ledger and sessions that were stored.
THEOREM TypeCorrect == Spec => []TypeOK
<1>1. Inv => TypeOK
  <2> SUFFICES ASSUME Inv PROVE TypeOK
    OBVIOUS
  <2>1. DOMAIN interactions = 1..Len(interactions)
    BY TableLength DEF Inv
  <2>2. ASSUME NEW rows \in {calls, tools}, NEW k \in DOMAIN rows
        PROVE  /\ rows[k].link \in {NULL} \cup DOMAIN interactions
               /\ rows[k].raw = None \/ (\E e \in ledger : rows[k].raw = <<e.id>>)
               /\ rows[k].raw # None /\ rows[k].session # "" => rows[k].session \in sessions
    <3>1. RowsOK(interactions, sessions, ledger, rows)
      BY DEF Inv
    <3>2. RowOK(interactions, sessions, ledger, rows[k])
      BY <3>1, TableLength DEF RowsOK
    <3> QED  BY <2>1, <3>2 DEF RowOK, Names, Known, Stored
  <2>3. ASSUME NEW w \in Workers, run[w].pc # "idle"
        PROVE  run[w].link \in {NULL} \cup DOMAIN interactions
    BY <2>1, <2>3, Holding DEF HoldsOK
  <2> QED  BY <2>2, <2>3 DEF TypeOK, Inv, ModesOK
<1> QED  BY <1>1, LookupsStayRight, PTL

\* No statement, and no order of the statements of two writers, links a call to
\* another session or to an interaction that it does not name.
THEOREM LinksNameParents == Spec => []ParentsMatch
<1>1. Inv => ParentsMatch
  <2> SUFFICES ASSUME Inv, NEW rows \in {calls, tools}, NEW k \in DOMAIN rows,
                      rows[k].link # NULL
               PROVE  /\ rows[k].session = interactions[rows[k].link].session
                      /\ rows[k].parent  = interactions[rows[k].link].upstream
    BY DEF ParentsMatch
  <2>1. RowsOK(interactions, sessions, ledger, rows)
    BY DEF Inv
  <2>2. RowOK(interactions, sessions, ledger, rows[k])
    BY <2>1, TableLength DEF RowsOK
  <2> QED  BY <2>2 DEF RowOK, Names
<1> QED  BY <1>1, LookupsStayRight, PTL

-----------------------------------------------------------------------------
(* Prompts.  Once the import has applied the mode, a worker holds no more   *)
(* than its label allows, and the mode of the label was in force.           *)

\* The mode that is stored as the label of a payload.
LabelOf(label) == IF label = "" THEN "hash" ELSE label

\* What may be stored of a prompt, under modes that were in force.
HeldPrivately(modes, holds, label) ==
    /\ LabelOf(label) \in Modes
    /\ holds \subseteq Allowed(LabelOf(label))
    /\ "redacted" \in holds => "full" \in modes

RowIsPrivate(modes, row) ==
    /\ row.label \in Modes
    /\ row.holds \subseteq Allowed(row.label)
    /\ "redacted" \in row.holds => "full" \in modes

Early == {"idle", "attach", "enforce"}

Enforced(modes, r) ==
    r.pc \notin Early => HeldPrivately(modes, r.payload.holds, r.payload.label)

StoredPrivately ==
    /\ \A r \in ledger : r.holds \subseteq {"hash", "redacted"}
                         /\ ("redacted" \in r.holds => "full" \in inForce)
    /\ \A i \in 1..Len(interactions) : RowIsPrivate(inForce, interactions[i])

PrivacyInv ==
    /\ config # "torn" => config \in inForce
    /\ \A m \in inbox : m.payload.holds \subseteq {"hash"}
    /\ StoredPrivately
    /\ \A w \in Workers : Enforced(inForce, run[w])

\* What a mode allows is a hash or a redacted text, and the latter under "full" only.
LEMMA AllowedFields ==
    ASSUME NEW mode, mode \in Modes
    PROVE  /\ Allowed(mode) \subseteq {"hash", "redacted"}
           /\ "redacted" \in Allowed(mode) => mode = "full"
BY DEF Modes, Allowed

LEMMA PrivateFields ==
    ASSUME NEW modes, NEW holds, NEW label, HeldPrivately(modes, holds, label)
    PROVE  holds \subseteq {"hash", "redacted"} /\ ("redacted" \in holds => "full" \in modes)
BY AllowedFields DEF HeldPrivately

LEMMA LabelOfMode ==
    ASSUME NEW mode \in Modes
    PROVE  LabelOf(mode) = mode
<1>1. mode # ""
  BY Zenon DEF Modes
<1> QED  BY <1>1, Zenon DEF LabelOf

\* The import stores what the mode of the moment allows.
LEMMA EnforcingIsPrivate ==
    ASSUME ModesOK, config # "torn" => config \in inForce, NEW payload
    PROVE  LET kept == enforcePromptCapturePolicy(payload, PromptCaptureMode)
           IN  HeldPrivately(inForce, kept.holds, kept.label)
<1> DEFINE mode == PromptCaptureMode
           kept == enforcePromptCapturePolicy(payload, mode)
<1>1. mode \in Modes /\ (mode = "full" => "full" \in inForce)
    BY DEF PromptCaptureMode, ModesOK, Modes
<1>2. CASE payload.holds = {} /\ payload.label = ""
  <2>1. kept.holds = {} /\ LabelOf(kept.label) = "hash"
    BY <1>2, Zenon DEF enforcePromptCapturePolicy, LabelOf
  <2> HIDE DEF kept
  <2>2. HeldPrivately(inForce, kept.holds, kept.label)
    BY <2>1 DEF HeldPrivately, Modes
  <2> QED  BY <2>2 DEF kept
<1>3. CASE ~ (payload.holds = {} /\ payload.label = "")
  <2> DEFINE holds == payload.holds \cap Allowed(mode)
  <2>1. kept = [holds |-> holds, label |-> mode]
    BY <1>3, Zenon DEF enforcePromptCapturePolicy
  <2>2. LabelOf(mode) = mode
    BY <1>1, LabelOfMode
  <2> HIDE DEF kept, mode
  <2>3. HeldPrivately(inForce, kept.holds, kept.label)
    BY <1>1, <2>1, <2>2, AllowedFields DEF HeldPrivately
  <2> QED  BY <2>3 DEF kept, mode
<1> QED  BY <1>2, <1>3, Zenon

\* What a hook forwards is at most the hash of the prompt.
LEMMA ForwardingIsPrivate ==
    ASSUME NEW e, ModesOK
    PROVE  PrepareForwarding(e).holds \subseteq {"hash"}
BY DEF PrepareForwarding, attachPromptCapture, PromptCaptureMode, ModesOK, Modes

\* The statements between the append and the end of an ingestion.
Statement(w) ==
    \/ CheckCall(w) \/ BeginTool(w) \/ FindExact(w) \/ FindUnique(w)
    \/ LinkMatchingLegacyModelCall(w) \/ RecordModelCall(w) \/ RecordToolCall(w)
    \/ RecordInteraction(w) \/ AdoptCalls(w) \/ AdoptTools(w)

\* They keep the event and the payload, and touch nothing but rows.
LEMMA StatementsMove ==
    ASSUME Inv, NEW w \in Workers, Statement(w)
    PROVE  /\ run[w].pc \notin Early \cup {"append"}
           /\ \E pc, link : MovesTo(w, pc, link)
           /\ UNCHANGED <<config, inForce, inbox, counters, whole, ledger>>
           /\ RecordInteraction(w) \/ UNCHANGED interactions
<1> DEFINE Late == run[w].pc \notin Early \cup {"append"}
           Still == UNCHANGED <<config, inForce, inbox, counters, whole, ledger>>
           Rows == RecordInteraction(w) \/ UNCHANGED interactions
<1>1. CASE CheckCall(w) \/ BeginTool(w)
  <2>1. Late /\ Still /\ Rows
    BY <1>1 DEF CheckCall, BeginTool, At, Early, Elsewhere
  <2>2. \E pc : Goto(w, pc)
    BY <1>1, Zenon DEF CheckCall, BeginTool
  <2> QED  BY <2>1, <2>2, GotoMoves DEF Early
<1>2. CASE FindExact(w) \/ FindUnique(w)
  <2>1. Late /\ Still /\ Rows
    BY <1>2 DEF FindExact, FindUnique, At, Early, Elsewhere, Store
  <2>2. \/ \E pc : Goto(w, pc)
        \/ \E pc, link : run' = [run EXCEPT ![w].link = link, ![w].pc = pc]
    BY <1>2, Zenon DEF FindExact, FindUnique
  <2> QED  BY <2>1, <2>2, GotoMoves, LinkMoves DEF Early
<1>3. CASE LinkMatchingLegacyModelCall(w)
  <2>1. Late
    BY <1>3, Zenon DEF LinkMatchingLegacyModelCall, At, Early
  <2>2. Still /\ Rows
    BY <1>3, Zenon DEF LinkMatchingLegacyModelCall, Elsewhere
  <2>3. \E pc : Goto(w, pc)
    BY <1>3, Zenon DEF LinkMatchingLegacyModelCall
  <2> QED  BY <2>1, <2>2, <2>3, GotoMoves DEF Early
<1>4. CASE RecordModelCall(w) \/ RecordToolCall(w)
  <2>1. Late /\ Still /\ Rows
    BY <1>4 DEF RecordModelCall, RecordToolCall, At, Early, Elsewhere
  <2>2. \E pc : Goto(w, pc)
    BY <1>4, Zenon DEF RecordModelCall, RecordToolCall
  <2> QED  BY <2>1, <2>2, GotoMoves DEF Early
<1>5. CASE RecordInteraction(w)
  <2>1. Late /\ Still /\ Rows
    <3>1. run[w].pc = "root" /\ Still
      BY <1>5, Zenon DEF RecordInteraction, At, Elsewhere
    <3> QED  BY <1>5, <3>1 DEF Early
  <2>2. \E pc, link : run' = [run EXCEPT ![w].link = link, ![w].pc = pc]
    BY <1>5, Zenon DEF RecordInteraction
  <2> QED  BY <2>1, <2>2, LinkMoves DEF Early
<1>6. CASE AdoptCalls(w) \/ AdoptTools(w)
  <2>1. Late /\ Still /\ Rows
    <3>1. run[w].pc \in {"adopt calls", "adopt tools"} /\ Still /\ Rows
      BY <1>6, Zenon DEF AdoptCalls, AdoptTools, At, Elsewhere
    <3> QED  BY <3>1, Zenon DEF Early
  <2>2. \E pc : Goto(w, pc)
    BY <1>6, Zenon DEF AdoptCalls, AdoptTools
  <2> QED  BY <2>1, <2>2, GotoMoves DEF Early
<1> QED  BY <1>1, <1>2, <1>3, <1>4, <1>5, <1>6 DEF Statement

\* A step that changes neither what is stored nor what is forwarded.
LEMMA PrivateStep ==
    ASSUME PrivacyInv, inForce \subseteq inForce', config' # "torn" => config' \in inForce',
           UNCHANGED <<ledger, interactions>>,
           \A m \in inbox' : m \in inbox \/ m.payload.holds \subseteq {"hash"},
           \A w \in Workers : run'[w] = run[w] \/ Enforced(inForce', run'[w])
    PROVE  PrivacyInv'
<1>1. /\ \A holds, label :
            HeldPrivately(inForce, holds, label) => HeldPrivately(inForce', holds, label)
      /\ \A row : RowIsPrivate(inForce, row) => RowIsPrivate(inForce', row)
  BY DEF HeldPrivately, RowIsPrivate
<1>2. StoredPrivately'
  BY <1>1 DEF PrivacyInv, StoredPrivately
<1>3. \A w \in Workers : Enforced(inForce', run[w])
  BY <1>1 DEF PrivacyInv, Enforced
<1>4. \A m \in inbox' : m.payload.holds \subseteq {"hash"}
  BY DEF PrivacyInv
<1>5. \A w \in Workers : Enforced(inForce', run'[w])
  BY <1>3
<1> QED  BY <1>2, <1>4, <1>5 DEF PrivacyInv

\* A worker that is given something that is stored privately.
LEMMA PrivateWorkerStep ==
    ASSUME Inv, PrivacyInv, NEW w \in Workers, NEW new, run' = [run EXCEPT ![w] = new],
           UNCHANGED <<config, inForce, inbox>>, StoredPrivately', Enforced(inForce, new)
    PROVE  PrivacyInv'
<1>1. \A v \in Workers : run'[v] = run[v] \/ run'[v] = new
  BY DEF Inv
<1>2. \A v \in Workers : Enforced(inForce', run'[v])
  BY <1>1 DEF PrivacyInv
<1> QED  BY <1>2 DEF PrivacyInv

\* The raw event, and the row of a prompt, hold what the worker holds.
LEMMA AppendIsPrivate ==
    ASSUME Inv, PrivacyInv, NEW w \in Workers, AppendRawEvent(w)
    PROVE  PrivacyInv'
<1> DEFINE e  == run[w].event
           id == CanonicalIngestionIdentity(e, run[w].payload)
           pc == IF e.kind = "model" THEN "call" ELSE AfterCall(e)
           new == [run[w] EXCEPT !.raw = <<id>>, !.pc = pc]
           row == [id |-> id, holds |-> run[w].payload.holds]
<1>1. HeldPrivately(inForce, run[w].payload.holds, run[w].payload.label)
  BY DEF AppendRawEvent, At, PrivacyInv, Enforced, Early
<1>2. /\ run' = [run EXCEPT ![w] = new]
      /\ UNCHANGED <<config, inForce, inbox, interactions>>
      /\ ledger' = ledger \/ ledger' = ledger \cup {row}
  <2>1. run' = [run EXCEPT ![w].raw = <<id>>, ![w].pc = pc]
    BY Zenon DEF AppendRawEvent
  <2>2. ledger' = IF \E r \in ledger : r.id = id THEN ledger ELSE ledger \cup {row}
    BY Zenon DEF AppendRawEvent
  <2>3. UNCHANGED <<config, inForce, inbox, interactions>>
    BY DEF AppendRawEvent, Elsewhere
  <2> HIDE DEF id, pc, row
  <2> QED  BY <2>1, <2>2, <2>3 DEF Inv
<1>3. StoredPrivately'
  <2>1. row.holds = run[w].payload.holds
    OBVIOUS
  <2> HIDE DEF row
  <2> QED  BY <1>1, <1>2, <2>1, PrivateFields DEF PrivacyInv, StoredPrivately
<1>4. Enforced(inForce, new)
  <2>1. run[w].pc # "idle"
    BY DEF AppendRawEvent, At
  <2>2. RunShape(run[w])
    BY <2>1, HoldingShape
  <2> DEFINE raw == <<id>>
  <2> HIDE DEF id, pc, raw
  <2>3. new.payload = run[w].payload
    BY <2>2 DEF RunShape, raw
  <2> QED  BY <1>1, <2>3 DEF Enforced
<1> HIDE DEF new
<1> QED  BY <1>2, <1>3, <1>4, PrivateWorkerStep

LEMMA StatementsArePrivate ==
    ASSUME Inv, PrivacyInv, NEW w \in Workers, Statement(w)
    PROVE  PrivacyInv'
<1>1. /\ run[w].pc \notin Early
      /\ \E pc, link : MovesTo(w, pc, link)
      /\ UNCHANGED <<config, inForce, inbox, ledger>>
      /\ RecordInteraction(w) \/ UNCHANGED interactions
  BY StatementsMove
<1>2. PICK new : run' = [run EXCEPT ![w] = new] /\ new.payload = run[w].payload
  BY <1>1 DEF MovesTo
<1>3. HeldPrivately(inForce, run[w].payload.holds, run[w].payload.label)
  BY <1>1 DEF PrivacyInv, Enforced
<1>4. Enforced(inForce, new)
  BY <1>2, <1>3 DEF Enforced
<1>5. StoredPrivately'
  <2>1. CASE interactions' = interactions
    BY <1>1, <2>1 DEF PrivacyInv, StoredPrivately
  <2>2. CASE interactions' # interactions
    <3> DEFINE e == run[w].event
               p == run[w].payload
               label == IF p.label = "" THEN "hash" ELSE p.label
               row == [source |-> e.source, session |-> e.session, upstream |-> RootIdentity(e),
                       holds |-> p.holds, label |-> label]
    <3>1. RecordInteraction(w)
      BY <1>1, <2>2
    <3>2. interactions' = Append(interactions, row)
      BY <2>2, <3>1, Zenon DEF RecordInteraction
    <3>3. RowIsPrivate(inForce, row)
      <4>1. label = LabelOf(p.label)
        BY Zenon DEF LabelOf
      <4> HIDE DEF label, p
      <4>2. row.holds = p.holds /\ row.label = label
        BY Zenon
      <4> HIDE DEF row
      <4> QED  BY <1>3, <4>1, <4>2 DEF HeldPrivately, RowIsPrivate, p
    <3> HIDE DEF row
    <3>4. /\ Len(interactions') = Len(interactions) + 1 /\ Len(interactions) \in Nat
          /\ interactions'[Len(interactions) + 1] = row
          /\ \A k \in 1..Len(interactions) : interactions'[k] = interactions[k]
      BY <3>2, AppendRow, TableLength DEF Inv, IsTable
    <3>5. \A k \in 1..Len(interactions') : k = Len(interactions) + 1 \/ k \in 1..Len(interactions)
      BY <3>4
    <3> QED  BY <1>1, <3>3, <3>4, <3>5 DEF PrivacyInv, StoredPrivately
  <2> QED  BY <2>1, <2>2
<1> QED  BY <1>1, <1>2, <1>4, <1>5, PrivateWorkerStep

LEMMA PrivacyStep == Inv /\ PrivacyInv /\ [Next]_vars => PrivacyInv'
<1> SUFFICES ASSUME Inv, PrivacyInv, [Next]_vars PROVE PrivacyInv'
  OBVIOUS
<1>1. CASE SetPromptCaptureMode \/ (\E mode \in Modes : WriteMode(mode))
  BY <1>1, PrivateStep DEF SetPromptCaptureMode, WriteMode, Store, PrivacyInv
<1>2. ASSUME NEW e \in Events, Forward(e) PROVE PrivacyInv'
  <2> DEFINE m == [event |-> e, payload |-> PrepareForwarding(e)]
  <2>1. UNCHANGED <<config, inForce, ledger, interactions, run>> /\ inbox' = inbox \cup {m}
    BY <1>2 DEF Forward, Store
  <2>2. m.payload.holds \subseteq {"hash"}
    BY ForwardingIsPrivate, Zenon DEF Inv
  <2> HIDE DEF m
  <2> QED  BY <2>1, <2>2, PrivateStep DEF PrivacyInv
<1>3. ASSUME NEW w \in Workers, NEW e \in Events, Receive(w, e) PROVE PrivacyInv'
  <2> DEFINE label == IF e.via = "otlp" /\ e.kind = "prompt" /\ e.agent THEN "hash" ELSE ""
             new == IF e.via \in {"hook", "plugin"}
                    THEN Started("attach", e, [holds |-> sanitizePluginPayload(e), label |-> ""])
                    ELSE Started("enforce", e, [holds |-> e.holds \ {"text"}, label |-> label])
  <2>1. run' = [run EXCEPT ![w] = new] /\ UNCHANGED <<config, inForce, inbox, Store>>
    BY <1>3, Zenon DEF Receive
  <2>2. new.pc \in Early
    BY Zenon DEF Started, Early
  <2> HIDE DEF new
  <2> QED  BY <2>1, <2>2, PrivateWorkerStep DEF Enforced, PrivacyInv, StoredPrivately, Store
<1>4. ASSUME NEW m \in inbox, ReceiveForwarded(m) PROVE PrivacyInv'
  <2> DEFINE new == Started("attach", [m.event EXCEPT !.holds = m.payload.holds], m.payload)
  <2>1. /\ UNCHANGED <<config, inForce, Store>> /\ inbox' = inbox \ {m}
        /\ run' = [run EXCEPT !["collector"] = new]
    BY <1>4, Zenon DEF ReceiveForwarded
  <2>2. new.pc \in Early
    BY DEF Started, Early
  <2> HIDE DEF new
  <2>3. \A v \in Workers : run'[v] = run[v] \/ run'[v].pc \in Early
    BY <2>1, <2>2 DEF Inv, Workers
  <2> QED  BY <2>1, <2>3, PrivateStep DEF Enforced, PrivacyInv, Store
<1>5. ASSUME NEW m \in inbox, Lose(m) PROVE PrivacyInv'
  BY <1>5, PrivateStep DEF Lose, Store, PrivacyInv
<1>6. ASSUME NEW w \in Workers, Ingest(w) PROVE PrivacyInv'
  <2>1. CASE Attach(w) \/ Enforce(w)
    <3>1. UNCHANGED <<config, inForce, inbox, ledger, interactions>> /\ run[w].pc # "idle"
      BY <2>1, Zenon DEF Attach, Enforce, Elsewhere, Store, At
    <3>2. RunShape(run[w]) /\ w \in DOMAIN run
      BY <3>1, HoldingShape
    <3>3. \E new : run' = [run EXCEPT ![w] = new] /\ Enforced(inForce, new)
      <4>1. CASE Attach(w)
        <5> DEFINE attached == attachPromptCapture(run[w].event, run[w].payload.holds,
                                                   PromptCaptureMode)
                   payload == IF run[w].payload.label = "" THEN attached
                              ELSE [attached EXCEPT !.label = PromptCaptureMode]
                   new == [run[w] EXCEPT !.pc = "enforce", !.payload = payload]
        <5>1. run' = [run EXCEPT ![w].pc = "enforce", ![w].payload = payload]
          BY <4>1, Zenon DEF Attach
        <5> HIDE DEF payload
        <5>2. run' = [run EXCEPT ![w] = new] /\ new.pc = "enforce"
          BY <3>2, <5>1 DEF RunShape
        <5> QED  BY <5>2 DEF Enforced, Early
      <4>2. CASE Enforce(w)
        <5> DEFINE payload == enforcePromptCapturePolicy(run[w].payload, PromptCaptureMode)
                   new == [run[w] EXCEPT !.pc = "append", !.payload = payload]
        <5>1. run' = [run EXCEPT ![w].pc = "append", ![w].payload = payload]
          BY <4>2 DEF Enforce
        <5>2. HeldPrivately(inForce, payload.holds, payload.label)
          BY EnforcingIsPrivate DEF Inv, PrivacyInv
        <5> HIDE DEF payload
        <5>3. run' = [run EXCEPT ![w] = new] /\ new.payload = payload
          BY <3>2, <5>1 DEF RunShape
        <5> QED  BY <5>2, <5>3 DEF Enforced
      <4> QED  BY <2>1, <4>1, <4>2
    <3> QED  BY <3>1, <3>3, PrivateWorkerStep DEF PrivacyInv, StoredPrivately
  <2>2. CASE AppendRawEvent(w)
    BY <2>2, AppendIsPrivate
  <2>3. CASE Statement(w)
    BY <2>3, StatementsArePrivate
  <2>4. CASE Done(w) \/ Abandon(w)
    <3>1. UNCHANGED <<config, inForce, inbox, ledger, interactions>>
          /\ run' = [run EXCEPT ![w] = Idle]
      BY <2>4 DEF Done, Abandon, Store
    <3>2. Idle.pc \in Early
      BY DEF Idle, Early
    <3> QED  BY <3>1, <3>2, PrivateWorkerStep DEF Enforced, PrivacyInv, StoredPrivately
  <2> QED  BY <1>6, <2>1, <2>2, <2>3, <2>4 DEF Ingest, Statement
<1>7. CASE UNCHANGED vars
  BY <1>7, PrivateStep DEF vars, PrivacyInv
<1> QED  BY <1>1, <1>2, <1>3, <1>4, <1>5, <1>6, <1>7 DEF Next

\* Whatever is delivered by whom, while the mode is changed and its file half
\* written: no text leaves its process or is stored, a redacted text only under
\* a "full" that was once in force, and no more than its label allows.
THEOREM PromptsAreKeptPrivate == Spec => []PromptsStayPrivate
<1>1. Init => PrivacyInv
  <2> SUFFICES ASSUME Init PROVE PrivacyInv
    OBVIOUS
  <2>1. config \in inForce /\ inbox = {} /\ ledger = {} /\ interactions = << >>
    BY DEF Init
  <2>2. \A w \in Workers : run[w].pc \in Early
    BY DEF Init, Idle, Early
  <2> QED  BY <2>1, <2>2 DEF PrivacyInv, StoredPrivately, Enforced
<1>2. Inv /\ PrivacyInv => PromptsStayPrivate
  <2> SUFFICES ASSUME Inv, PrivacyInv PROVE PromptsStayPrivate
    OBVIOUS
  <2>1. \A i \in DOMAIN interactions : RowIsPrivate(inForce, interactions[i])
    BY TableLength DEF Inv, PrivacyInv, StoredPrivately
  <2>2. \A i \in DOMAIN interactions :
          /\ interactions[i].holds \subseteq Allowed(interactions[i].label)
          /\ "redacted" \in interactions[i].holds => "full" \in inForce
    BY <2>1 DEF RowIsPrivate
  <2> QED  BY <2>2 DEF PromptsStayPrivate, PrivacyInv, StoredPrivately
<1> QED  BY <1>1, <1>2, InitInv, StepInv, PrivacyStep, PTL DEF Spec

-----------------------------------------------------------------------------
(* Calls of an old version.  Their rows stay the first of the table, and a  *)
(* row is added for what one of them says only once it has been taken over. *)

\* Row l of the old table is the only one that says what it says.
OnlyOld(l) == \A k \in 1..Len(Legacy) : Legacy[k] = Legacy[l] => k = l

\* A call that says the same has been given a raw event.
TakenOver(rows, session, usage) ==
    \A l \in 1..Len(Legacy) :
        OnlyOld(l) /\ Legacy[l].session = session /\ Legacy[l].usage = usage =>
            rows[l].raw # None

CallStored(rows, raw) == raw # None /\ \E k \in 1..Len(rows) : rows[k].raw = raw

OldRowsFirst(rows) ==
    /\ Len(Legacy) <= Len(rows)
    /\ \A k \in 1..Len(Legacy) : /\ rows[k].session = Legacy[k].session
                                 /\ rows[k].usage = Legacy[k].usage
    /\ \A k \in 1..Len(rows) : k > Len(Legacy) =>
          rows[k].raw # None /\ TakenOver(rows, rows[k].session, rows[k].usage)

RawsDiffer(rows) ==
    \A i, j \in 1..Len(rows) : rows[i].raw = rows[j].raw /\ rows[i].raw # None => i = j

\* A worker that is about to add a call has found it stored, or nothing to take over.
OnceRun(rows, r) ==
    /\ r.pc = "tool" => r.event.kind = "tool"
    /\ r.pc = "record" /\ r.event.kind = "model" =>
          CallStored(rows, r.raw) \/ TakenOver(rows, r.event.session, r.event.usage)

OnceInv ==
    /\ OldRowsFirst(calls)
    /\ RawsDiffer(calls)
    /\ \A w \in Workers : OnceRun(calls, run[w])

\* Rows are never removed, say what they said, and a raw event is given once.
Evolves(rows, new) ==
    /\ Len(rows) \in Nat /\ Len(new) \in Nat /\ Len(rows) <= Len(new)
    /\ \A k \in 1..Len(rows) :
          /\ new[k].session = rows[k].session /\ new[k].usage = rows[k].usage
          /\ new[k].raw = rows[k].raw \/ (rows[k].raw = None /\ new[k].raw # None)

LEMMA OldLength == Len(Legacy) \in Nat /\ DOMAIN Legacy = 1..Len(Legacy)
BY DeliveriesAssumption

\* What is taken over or stored stays so.
LEMMA TakenStays ==
    ASSUME NEW rows, NEW new, Evolves(rows, new), Len(Legacy) <= Len(rows)
    PROVE  /\ \A session, usage :
                 TakenOver(rows, session, usage) => TakenOver(new, session, usage)
           /\ \A raw : CallStored(rows, raw) => CallStored(new, raw)
           /\ \A r : OnceRun(rows, r) => OnceRun(new, r)
<1>1. \A l \in 1..Len(Legacy) : l \in 1..Len(rows)
  BY OldLength DEF Evolves
<1>2. \A session, usage : TakenOver(rows, session, usage) => TakenOver(new, session, usage)
  BY <1>1 DEF TakenOver, Evolves
<1>3. \A raw : CallStored(rows, raw) => CallStored(new, raw)
  <2> TAKE raw
  <2> HAVE CallStored(rows, raw)
  <2>1. PICK k \in 1..Len(rows) : rows[k].raw = raw
    BY DEF CallStored
  <2>2. k \in 1..Len(new) /\ new[k].raw = raw
    BY <2>1 DEF Evolves, CallStored
  <2> QED  BY <2>2 DEF CallStored
<1> QED  BY <1>2, <1>3 DEF OnceRun

\* The old rows stay the first while rows evolve, and those that are added are
\* of calls that are taken over.
LEMMA OldRowsStay ==
    ASSUME NEW rows, NEW new, Evolves(rows, new), OldRowsFirst(rows),
           \A k \in 1..Len(new) : k \in 1..Len(rows) \/
               (new[k].raw # None /\ TakenOver(new, new[k].session, new[k].usage))
    PROVE  OldRowsFirst(new)
<1>1. Len(Legacy) <= Len(rows)
  BY DEF OldRowsFirst
<1>2. \A k \in 1..Len(Legacy) : k \in 1..Len(rows)
  BY <1>1, OldLength DEF Evolves
<1>3. \A k \in 1..Len(Legacy) : /\ new[k].session = Legacy[k].session
                                /\ new[k].usage = Legacy[k].usage
  BY <1>2 DEF OldRowsFirst, Evolves
<1>4. Len(Legacy) <= Len(new)
  BY <1>1, OldLength DEF Evolves
<1>5. ASSUME NEW k \in 1..Len(new), k > Len(Legacy)
      PROVE  new[k].raw # None /\ TakenOver(new, new[k].session, new[k].usage)
  <2>1. CASE k \in 1..Len(rows)
    <3>1. rows[k].raw # None /\ TakenOver(rows, rows[k].session, rows[k].usage)
      BY <1>5, <2>1 DEF OldRowsFirst
    <3>2. new[k].raw # None /\ new[k].session = rows[k].session /\ new[k].usage = rows[k].usage
      BY <2>1, <3>1 DEF Evolves
    <3> QED  BY <1>1, <3>1, <3>2, TakenStays
  <2>2. CASE k \notin 1..Len(rows)
    BY <2>2
  <2> QED  BY <2>1, <2>2
<1> QED  BY <1>3, <1>4, <1>5 DEF OldRowsFirst

\* Two tables that differ in links only.
LEMMA SameRaws ==
    ASSUME NEW rows, NEW new, Len(rows) \in Nat, Len(new) = Len(rows),
           \A k \in 1..Len(rows) : /\ new[k].session = rows[k].session
                                   /\ new[k].usage = rows[k].usage
                                   /\ new[k].raw = rows[k].raw,
           OldRowsFirst(rows), RawsDiffer(rows)
    PROVE  Evolves(rows, new) /\ OldRowsFirst(new) /\ RawsDiffer(new)
<1>1. Evolves(rows, new)
  BY DEF Evolves
<1>2. RawsDiffer(new)
  BY DEF RawsDiffer
<1> QED  BY <1>1, <1>2, OldRowsStay

\* A worker's step: its rows have evolved, and it has found what it has to.
LEMMA OnceStep ==
    ASSUME Inv, OnceInv, NEW w \in Workers, NEW new, run' = [run EXCEPT ![w] = new],
           Evolves(calls, calls'), OldRowsFirst(calls'), RawsDiffer(calls'),
           OnceRun(calls', new)
    PROVE  OnceInv'
<1>1. \A v \in Workers : OnceRun(calls', run[v])
  BY TakenStays DEF OnceInv, OldRowsFirst
<1>2. \A v \in Workers : run'[v] = run[v] \/ run'[v] = new
  BY DEF Inv
<1>3. \A v \in Workers : OnceRun(calls', run'[v])
  BY <1>1, <1>2
<1> QED  BY <1>3 DEF OnceInv

\* A step that leaves the calls alone.
LEMMA OnceGoingOn ==
    ASSUME Inv, OnceInv, NEW w \in Workers, NEW new, run' = [run EXCEPT ![w] = new],
           UNCHANGED calls, OnceRun(calls, new)
    PROVE  OnceInv'
<1>1. Len(calls) \in Nat
  BY TableLength DEF Inv, RowsOK
<1>2. Evolves(calls, calls') /\ OldRowsFirst(calls') /\ RawsDiffer(calls')
  BY <1>1, SameRaws DEF OnceInv
<1> QED  BY <1>2, OnceStep

\* An old row that says what the only old call of its kind says is its row.
LEMMA OldRowSays ==
    ASSUME OldRowsFirst(calls), NEW l \in 1..Len(Legacy), OnlyOld(l),
           NEW k \in 1..Len(Legacy),
           calls[k].session = Legacy[l].session, calls[k].usage = Legacy[l].usage
    PROVE  k = l
<1> DEFINE S == [session : STRING, usage : Nat]
<1>1. Legacy \in Seq(S)
  BY Zenon, DeliveriesAssumption
<1>2. \A j \in 1..Len(Legacy) : Legacy[j] \in S
  <2> HIDE DEF S
  <2> QED  BY <1>1
<1>3. Legacy[k].session = Legacy[l].session /\ Legacy[k].usage = Legacy[l].usage
  BY DEF OldRowsFirst
<1>4. Legacy[k] = Legacy[l]
  BY <1>2, <1>3
<1> QED  BY <1>4 DEF OnlyOld

\* The only call of an old version that says what an event says is the only candidate.
LEMMA OnlyCandidate ==
    ASSUME Inv, OnceInv, NEW e, NEW l \in 1..Len(Legacy), OnlyOld(l),
           Legacy[l].session = e.session, Legacy[l].usage = e.usage, calls[l].raw = None
    PROVE  Cardinality(LegacyCandidates(e)) = 1
<1>1. Len(calls) \in Nat /\ DOMAIN calls = 1..Len(calls)
  BY TableLength DEF Inv, RowsOK
<1>2. OldRowsFirst(calls) /\ l \in 1..Len(calls)
  BY <1>1, OldLength DEF OnceInv, OldRowsFirst
<1>3. ASSUME NEW k \in 1..Len(calls), calls[k].raw = None,
             calls[k].session = e.session, calls[k].usage = e.usage
      PROVE  k = l
  <2>1. k \in 1..Len(Legacy)
    BY <1>1, <1>2, <1>3, OldLength DEF OldRowsFirst
  <2> QED  BY <1>2, <1>3, <2>1, OldRowSays
<1>4. LegacyCandidates(e) = {l}
  <2>1. calls[l].session = e.session /\ calls[l].usage = e.usage
    BY <1>2 DEF OldRowsFirst
  <2> QED  BY <1>1, <1>2, <1>3, <2>1 DEF LegacyCandidates, RowsWith
<1> QED  BY <1>4, FS_Singleton

\* A statement goes on, and has found what it has to.
LEMMA OnceMoves ==
    ASSUME Inv, OnceInv, NEW w \in Workers, NEW pc, NEW link, MovesTo(w, pc, link),
           \/ UNCHANGED calls
           \/ Evolves(calls, calls') /\ OldRowsFirst(calls') /\ RawsDiffer(calls'),
           pc = "tool" => run[w].event.kind = "tool",
           pc = "record" /\ run[w].event.kind = "model" =>
               \/ CallStored(calls', run[w].raw)
               \/ TakenOver(calls', run[w].event.session, run[w].event.usage)
    PROVE  OnceInv'
<1>1. PICK new : /\ run' = [run EXCEPT ![w] = new] /\ new.pc = pc
                 /\ new.event = run[w].event /\ new.raw = run[w].raw
  BY DEF MovesTo
<1>2. OnceRun(calls', new)
  BY <1>1 DEF OnceRun
<1>3. CASE UNCHANGED calls
  BY <1>1, <1>2, <1>3, OnceGoingOn
<1>4. CASE Evolves(calls, calls') /\ OldRowsFirst(calls') /\ RawsDiffer(calls')
  BY <1>1, <1>2, <1>4, OnceStep
<1> QED  BY <1>3, <1>4

\* A row that has no raw event yet takes one that no row has.
LEMMA TakingOver ==
    ASSUME NEW rows, NEW new, NEW i, NEW raw, raw # None,
           Len(rows) \in Nat, Len(new) = Len(rows), i \in 1..Len(rows), rows[i].raw = None,
           OldRowsFirst(rows), RawsDiffer(rows), \A k \in 1..Len(rows) : rows[k].raw # raw,
           new[i].raw = raw, new[i].session = rows[i].session, new[i].usage = rows[i].usage,
           \A k \in 1..Len(rows) : k # i => new[k] = rows[k]
    PROVE  Evolves(rows, new) /\ OldRowsFirst(new) /\ RawsDiffer(new)
<1>1. Evolves(rows, new)
  BY DEF Evolves
<1>2. OldRowsFirst(new)
  BY <1>1, OldRowsStay
<1>3. RawsDiffer(new)
  BY DEF RawsDiffer
<1> QED  BY <1>1, <1>2, <1>3

\* A row is added for a raw event that no row has, and that nothing old could take over.
LEMMA Adding ==
    ASSUME NEW rows, NEW new, NEW row, row.raw # None, Len(rows) \in Nat,
           Len(new) = Len(rows) + 1, new[Len(rows) + 1] = row,
           \A k \in 1..Len(rows) : new[k] = rows[k],
           OldRowsFirst(rows), RawsDiffer(rows), \A k \in 1..Len(rows) : rows[k].raw # row.raw,
           TakenOver(rows, row.session, row.usage)
    PROVE  Evolves(rows, new) /\ OldRowsFirst(new) /\ RawsDiffer(new)
<1>1. Evolves(rows, new)
  BY DEF Evolves
<1>2. Len(Legacy) <= Len(rows)
  BY DEF OldRowsFirst
<1>3. TakenOver(new, row.session, row.usage)
  BY <1>1, <1>2, TakenStays
<1>4. \A k \in 1..Len(new) : k \in 1..Len(rows) \/ k = Len(rows) + 1
  BY DEF Evolves
<1>5. OldRowsFirst(new)
  BY <1>1, <1>3, <1>4, OldRowsStay
<1>6. RawsDiffer(new)
  BY <1>4 DEF RawsDiffer
<1> QED  BY <1>1, <1>5, <1>6

\* No row has a raw event, or some row has.
LEMMA NoCallOf ==
    ASSUME Inv, NEW raw
    PROVE  /\ CallOf(raw) = {} => \A k \in 1..Len(calls) : calls[k].raw # raw
           /\ CallOf(raw) # {} => \E k \in 1..Len(calls) : calls[k].raw = raw
<1>1. DOMAIN calls = 1..Len(calls)
  BY TableLength DEF Inv, RowsOK
<1> QED  BY <1>1 DEF CallOf, RowsWith

\* The only candidate takes the event over; without one, nothing old has to.
LEMMA LegacyOnce ==
    ASSUME Inv, OnceInv, NEW w \in Workers, LinkMatchingLegacyModelCall(w)
    PROVE  OnceInv'
<1> DEFINE r == run[w]
           e == run[w].event
<1>1. r.pc = "legacy" /\ r.pc # "idle" /\ HoldsOK(interactions, sessions, ledger, r)
  <2>1. r.pc = "legacy"
    BY Zenon DEF LinkMatchingLegacyModelCall, At
  <2> QED  BY <2>1, Holding
<1>2. Stored(ledger, r.raw) /\ e.kind # "tool"
  BY <1>1 DEF HoldsOK
<1>3. r.raw # None
  BY <1>2 DEF Stored, None
<1>4. Len(calls) \in Nat /\ DOMAIN calls = 1..Len(calls) /\ IsTable(calls)
  BY TableLength DEF Inv, RowsOK
<1>5. CASE CallOf(r.raw) = {} /\ Cardinality(LegacyCandidates(e)) = 1
  <2>1. PICK i \in LegacyCandidates(e) :
            /\ calls' = [calls EXCEPT
                   ![i].raw    = r.raw,
                   ![i].link   = IF @ = NULL THEN r.link ELSE @,
                   ![i].parent = IF @ = None THEN r.event.parent ELSE @]
            /\ Goto(w, AfterCall(e))
    BY <1>5, Zenon DEF LinkMatchingLegacyModelCall
  <2>2. i \in 1..Len(calls) /\ calls[i].raw = None
    BY <1>4 DEF LegacyCandidates, RowsWith
  <2>3. RowShape(calls[i])
    BY <2>2 DEF Inv, RowsOK, RowOK
  <2> DEFINE new == calls'
  <2>4. /\ new = [k \in DOMAIN calls |-> new[k]]
        /\ \A k \in 1..Len(calls) : k # i => new[k] = calls[k]
    BY <1>4, <2>1, <2>2
  <2>5. new[i].raw = r.raw /\ new[i].session = calls[i].session /\ new[i].usage = calls[i].usage
    BY <1>4, <2>1, <2>2, <2>3 DEF RowShape
  <2>6. Len(new) = Len(calls)
    <3> HIDE DEF new
    <3> QED  BY <1>4, <2>4, MappedTable
  <2>7. \A k \in 1..Len(calls) : calls[k].raw # r.raw
    BY <1>5, NoCallOf
  <2>8. Evolves(calls, calls') /\ OldRowsFirst(calls') /\ RawsDiffer(calls')
    BY <1>3, <1>4, <2>2, <2>4, <2>5, <2>6, <2>7, TakingOver DEF OnceInv
  <2>9. MovesTo(w, AfterCall(e), r.link)
    BY <1>1, <2>1, GotoMoves
  <2>10. AfterCall(e) # "record" /\ (AfterCall(e) = "tool" => e.kind = "tool")
    BY DEF AfterCall
  <2> QED  BY <2>8, <2>9, <2>10, OnceMoves
<1>6. CASE ~(CallOf(r.raw) = {} /\ Cardinality(LegacyCandidates(e)) = 1)
  <2>1. Goto(w, "record") /\ UNCHANGED calls
    BY <1>6, Zenon DEF LinkMatchingLegacyModelCall
  <2>2. MovesTo(w, "record", r.link)
    BY <1>1, <2>1, GotoMoves
  <2>3. CASE CallOf(r.raw) # {}
    <3>1. CallStored(calls, r.raw)
      BY <1>3, <2>3, NoCallOf DEF CallStored
    <3> QED  BY <2>1, <2>2, <3>1, OnceMoves
  <2>4. CASE Cardinality(LegacyCandidates(e)) # 1
    <3>1. TakenOver(calls, e.session, e.usage)
      BY <2>4, OnlyCandidate DEF TakenOver
    <3> QED  BY <2>1, <2>2, <3>1, OnceMoves
  <2> QED  BY <1>6, <2>3, <2>4
<1> QED  BY <1>5, <1>6

LEMMA RecordOnce ==
    ASSUME Inv, OnceInv, NEW w \in Workers, RecordModelCall(w)
    PROVE  OnceInv'
<1> DEFINE r == run[w]
           e == run[w].event
<1>1. r.pc = "record" /\ e.kind = "model" /\ r.pc # "idle"
      /\ HoldsOK(interactions, sessions, ledger, r)
  BY Holding DEF RecordModelCall, At
<1>2. r.raw # None
  <2>1. Stored(ledger, r.raw)
    BY <1>1 DEF HoldsOK
  <2> QED  BY <2>1 DEF Stored, None
<1>3. Len(calls) \in Nat /\ IsTable(calls)
  BY TableLength DEF Inv, RowsOK
<1>4. CallStored(calls, r.raw) \/ TakenOver(calls, e.session, e.usage)
  BY <1>1 DEF OnceInv, OnceRun
<1>5. Goto(w, AfterCall(e))
      /\ calls' = IF CallOf(r.raw) = {} THEN Append(calls, Row(r)) ELSE calls
  BY Zenon DEF RecordModelCall
<1>6. MovesTo(w, AfterCall(e), r.link)
  BY <1>1, <1>5, GotoMoves
<1>7. AfterCall(e) # "record" /\ (AfterCall(e) = "tool" => e.kind = "tool")
  BY DEF AfterCall
<1>8. CASE CallOf(r.raw) # {}
  BY <1>5, <1>6, <1>7, <1>8, OnceMoves
<1>9. CASE CallOf(r.raw) = {}
  <2> DEFINE row == Row(r)
  <2>1. calls' = Append(calls, row)
    BY <1>5, <1>9
  <2>2. row.raw = r.raw /\ row.session = e.session /\ row.usage = e.usage
    BY DEF Row
  <2>3. \A k \in 1..Len(calls) : calls[k].raw # r.raw
    BY <1>9, NoCallOf
  <2>4. TakenOver(calls, e.session, e.usage)
    BY <1>4, <2>3 DEF CallStored
  <2> HIDE DEF row
  <2>5. /\ Len(calls') = Len(calls) + 1 /\ calls'[Len(calls) + 1] = row
        /\ \A k \in 1..Len(calls) : calls'[k] = calls[k]
    BY <1>3, <2>1, AppendRow DEF IsTable
  <2> HIDE DEF r, e
  <2>6. Evolves(calls, calls') /\ OldRowsFirst(calls') /\ RawsDiffer(calls')
    BY <1>2, <1>3, <2>2, <2>3, <2>4, <2>5, Adding DEF OnceInv
  <2> USE DEF r, e
  <2> QED  BY <1>6, <1>7, <2>6, OnceMoves
<1> QED  BY <1>8, <1>9

\* The other statements add no call.
LEMMA StatementsOnce ==
    ASSUME Inv, OnceInv, NEW w \in Workers, Statement(w)
    PROVE  OnceInv'
<1> DEFINE e == run[w].event
<1>1. run[w].pc # "idle" /\ HoldsOK(interactions, sessions, ledger, run[w])
  BY StatementsMove, Holding DEF Early
<1>2. AfterCall(e) # "record" /\ (AfterCall(e) = "tool" => e.kind = "tool")
      /\ AfterLookup(e) # "tool" /\ (AfterLookup(e) = "record" => e.kind = "tool")
  BY DEF AfterCall, AfterLookup
<1>3. CASE CheckCall(w)
  <2>1. UNCHANGED calls /\ \E pc \in {AfterCall(e), "legacy", "exact"} : Goto(w, pc)
    BY <1>3 DEF CheckCall
  <2>2. PICK pc \in {AfterCall(e), "legacy", "exact"} : MovesTo(w, pc, run[w].link)
    BY <1>1, <2>1, GotoMoves
  <2> HIDE DEF e
  <2>3. pc # "record" /\ (pc = "tool" => e.kind = "tool")
    BY <1>2
  <2> USE DEF e
  <2> QED  BY <2>1, <2>2, <2>3, OnceMoves
<1>4. CASE BeginTool(w)
  <2>1. UNCHANGED calls /\ run[w].pc = "tool" /\ \E pc \in {"record", "exact"} : Goto(w, pc)
    BY <1>4 DEF BeginTool, At
  <2>2. PICK pc \in {"record", "exact"} : MovesTo(w, pc, run[w].link)
    BY <1>1, <2>1, GotoMoves
  <2>3. e.kind = "tool"
    BY <2>1 DEF OnceInv, OnceRun
  <2> QED  BY <2>1, <2>2, <2>3, OnceMoves
<1>5. CASE FindExact(w) \/ FindUnique(w)
  <2>1. UNCHANGED calls
    BY <1>5 DEF FindExact, FindUnique, Store
  <2>2. \/ Goto(w, "unique")
        \/ \E link : run' = [run EXCEPT ![w].link = link, ![w].pc = AfterLookup(e)]
    BY <1>5, Zenon DEF FindExact, FindUnique
  <2>3. \E pc \in {"unique", AfterLookup(e)} : \E link : MovesTo(w, pc, link)
    <3>1. \A pc : Goto(w, pc) => MovesTo(w, pc, run[w].link)
      BY <1>1, GotoMoves
    <3>2. \A pc, link : run' = [run EXCEPT ![w].link = link, ![w].pc = pc] => MovesTo(w, pc, link)
      BY <1>1, LinkMoves
    <3> QED  BY <2>2, <3>1, <3>2, Zenon
  <2>4. PICK pc \in {"unique", AfterLookup(e)} : \E link : MovesTo(w, pc, link)
    BY <2>3
  <2> HIDE DEF e
  <2>5. pc # "tool" /\ (pc = "record" => e.kind = "tool")
    BY <1>2
  <2> USE DEF e
  <2> QED  BY <2>1, <2>4, <2>5, OnceMoves
<1>6. CASE LinkMatchingLegacyModelCall(w)
  BY <1>6, LegacyOnce
<1>7. CASE RecordModelCall(w)
  BY <1>7, RecordOnce
<1>8. CASE RecordToolCall(w) \/ AdoptTools(w)
  <2>1. UNCHANGED calls /\ Goto(w, "done")
    BY <1>8, Zenon DEF RecordToolCall, AdoptTools
  <2>2. MovesTo(w, "done", run[w].link)
    BY <1>1, <2>1, GotoMoves
  <2> QED  BY <2>1, <2>2, OnceMoves
<1>9. CASE RecordInteraction(w)
  <2>1. UNCHANGED calls
    BY <1>9, Zenon DEF RecordInteraction
  <2> DEFINE pc == "adopt calls"
  <2>2. /\ \E link : run' = [run EXCEPT ![w].link = link, ![w].pc = pc]
        /\ pc # "tool" /\ pc # "record"
    BY <1>9, Zenon DEF RecordInteraction
  <2> HIDE DEF pc
  <2>3. PICK link : MovesTo(w, pc, link)
    BY <1>1, <2>2, LinkMoves
  <2> QED  BY <2>1, <2>2, <2>3, OnceMoves
<1>10. CASE AdoptCalls(w)
  <2> DEFINE new == backfill(calls, run[w].link, e.session, RootIdentity(e))
             pc == "adopt tools"
  <2>1. calls' = new /\ Goto(w, pc)
    BY <1>10, Zenon DEF AdoptCalls
  <2>2. Len(calls) \in Nat /\ DOMAIN calls = 1..Len(calls) /\ IsTable(calls)
    BY TableLength DEF Inv, RowsOK
  <2>3. \A k \in 1..Len(calls) : RowShape(calls[k])
    BY DEF Inv, RowsOK, RowOK
  <2>4. new = [k \in DOMAIN calls |-> new[k]]
    BY DEF backfill
  <2>5. \A k \in 1..Len(calls) : /\ new[k].session = calls[k].session
                                 /\ new[k].usage = calls[k].usage
                                 /\ new[k].raw = calls[k].raw
    BY <2>2, <2>3 DEF backfill, RowShape
  <2> HIDE DEF new
  <2>6. Len(new) = Len(calls)
    BY <2>2, <2>4, MappedTable
  <2>7. Evolves(calls, new) /\ OldRowsFirst(new) /\ RawsDiffer(new)
    BY <2>2, <2>5, <2>6, SameRaws DEF OnceInv
  <2>8. pc # "tool" /\ pc # "record"
    BY Zenon
  <2> HIDE DEF pc
  <2>9. MovesTo(w, pc, run[w].link)
    BY <1>1, <2>1, GotoMoves
  <2> QED  BY <2>1, <2>7, <2>8, <2>9, OnceMoves
<1> QED  BY <1>3, <1>4, <1>5, <1>6, <1>7, <1>8, <1>9, <1>10 DEF Statement

\* The beginning of an ingestion and its end, and what happens around them.
LEMMA OnceAround ==
    ASSUME Inv, OnceInv, UNCHANGED calls,
           \A w \in Workers : run'[w] = run[w] \/ run'[w].pc \notin {"tool", "record"}
    PROVE  OnceInv'
<1>1. \A w \in Workers : OnceRun(calls', run'[w])
  BY DEF OnceInv, OnceRun
<1> QED  BY <1>1 DEF OnceInv

LEMMA AppendOnce ==
    ASSUME Inv, OnceInv, NEW w \in Workers, AppendRawEvent(w)
    PROVE  OnceInv'
<1> DEFINE e  == run[w].event
           id == CanonicalIngestionIdentity(e, run[w].payload)
           pc == IF e.kind = "model" THEN "call" ELSE AfterCall(e)
           new == [run[w] EXCEPT !.raw = <<id>>, !.pc = pc]
<1>1. run[w].pc # "idle" /\ UNCHANGED calls
  BY DEF AppendRawEvent, At
<1>2. RunShape(run[w]) /\ w \in DOMAIN run
  BY <1>1, HoldingShape
<1>3. run' = [run EXCEPT ![w].raw = <<id>>, ![w].pc = pc]
  BY Zenon DEF AppendRawEvent
<1>4. pc # "record" /\ (pc = "tool" => e.kind = "tool")
  BY DEF AfterCall
<1> DEFINE raw == <<id>>
<1> HIDE DEF id, pc, raw
<1>5. run' = [run EXCEPT ![w] = new]
  BY <1>2, <1>3 DEF raw
<1>6. new.pc = pc /\ new.event = e
  BY <1>2 DEF RunShape, raw
<1>7. OnceRun(calls, new)
  BY <1>4, <1>6 DEF OnceRun
<1> HIDE DEF new
<1> QED  BY <1>1, <1>5, <1>7, OnceGoingOn

LEMMA OnceNext == Inv /\ OnceInv /\ [Next]_vars => OnceInv'
<1> SUFFICES ASSUME Inv, OnceInv, [Next]_vars PROVE OnceInv'
  OBVIOUS
<1>1. CASE \/ SetPromptCaptureMode
           \/ \E mode \in Modes : WriteMode(mode)
           \/ \E e \in Events : Forward(e)
           \/ \E m \in inbox : Lose(m)
           \/ UNCHANGED vars
  <2>1. UNCHANGED <<run, calls>>
    BY <1>1 DEF SetPromptCaptureMode, WriteMode, Forward, Lose, vars, Store
  <2> QED  BY <2>1, OnceAround
<1>2. ASSUME NEW w \in Workers, NEW e \in Events, Receive(w, e) PROVE OnceInv'
  <2> DEFINE label == IF e.via = "otlp" /\ e.kind = "prompt" /\ e.agent THEN "hash" ELSE ""
             new == IF e.via \in {"hook", "plugin"}
                    THEN Started("attach", e, [holds |-> sanitizePluginPayload(e), label |-> ""])
                    ELSE Started("enforce", e, [holds |-> e.holds \ {"text"}, label |-> label])
  <2>1. run' = [run EXCEPT ![w] = new] /\ UNCHANGED calls
    BY <1>2, Zenon DEF Receive, Store
  <2>2. new.pc \notin {"tool", "record"}
    BY Zenon DEF Started
  <2> HIDE DEF new
  <2>3. \A v \in Workers : run'[v] = run[v] \/ run'[v] = new
    BY <2>1 DEF Inv
  <2> QED  BY <2>1, <2>2, <2>3, OnceAround
<1>3. ASSUME NEW m \in inbox, ReceiveForwarded(m) PROVE OnceInv'
  <2> DEFINE new == Started("attach", [m.event EXCEPT !.holds = m.payload.holds], m.payload)
  <2>1. run' = [run EXCEPT !["collector"] = new] /\ UNCHANGED calls
    BY <1>3, Zenon DEF ReceiveForwarded, Store
  <2>2. new.pc \notin {"tool", "record"}
    BY DEF Started
  <2> HIDE DEF new
  <2>3. \A v \in Workers : run'[v] = run[v] \/ run'[v] = new
    BY <2>1 DEF Inv
  <2> QED  BY <2>1, <2>2, <2>3, OnceAround
<1>4. ASSUME NEW w \in Workers, Ingest(w) PROVE OnceInv'
  <2>1. CASE Attach(w) \/ Enforce(w)
    <3>1. UNCHANGED calls /\ run[w].pc # "idle"
      BY <2>1, Zenon DEF Attach, Enforce, Store, At
    <3>2. RunShape(run[w]) /\ w \in DOMAIN run
      BY <3>1, HoldingShape
    <3>3. \E pc \in {"enforce", "append"} : \E payload :
              run' = [run EXCEPT ![w].pc = pc, ![w].payload = payload]
      <4>1. \/ \E payload : run' = [run EXCEPT ![w].pc = "enforce", ![w].payload = payload]
            \/ \E payload : run' = [run EXCEPT ![w].pc = "append", ![w].payload = payload]
        BY <2>1, Zenon DEF Attach, Enforce
      <4> QED  BY <4>1, Zenon
    <3>4. PICK pc \in {"enforce", "append"} :
              \E payload : run' = [run EXCEPT ![w].pc = pc, ![w].payload = payload]
      BY <3>3
    <3>5. PICK payload : run' = [run EXCEPT ![w].pc = pc, ![w].payload = payload]
      BY <3>4
    <3>6. run'[w].pc = pc /\ \A v \in Workers : v # w => run'[v] = run[v]
      BY <3>2, <3>5 DEF RunShape, Inv
    <3> QED  BY <3>1, <3>6, OnceAround
  <2>2. CASE AppendRawEvent(w)
    BY <2>2, AppendOnce
  <2>3. CASE Statement(w)
    BY <2>3, StatementsOnce
  <2>4. CASE Done(w) \/ Abandon(w)
    <3>1. UNCHANGED calls /\ run' = [run EXCEPT ![w] = Idle]
      BY <2>4 DEF Done, Abandon, Store
    <3>2. \A v \in Workers : run'[v] = run[v] \/ run'[v] = Idle
      BY <3>1 DEF Inv
    <3> QED  BY <3>1, <3>2, OnceAround DEF Idle
  <2> QED  BY <1>4, <2>1, <2>2, <2>3, <2>4 DEF Ingest, Statement
<1> QED  BY <1>1, <1>2, <1>3, <1>4 DEF Next

LEMMA OnceInit == Init => OnceInv
<1> SUFFICES ASSUME Init PROVE OnceInv
  OBVIOUS
<1> DEFINE n == Len(Legacy)
<1>1. calls = [k \in 1..n |-> [raw |-> None, session |-> Legacy[k].session, parent |-> None,
                               usage |-> Legacy[k].usage, link |-> NULL]]
  BY OldLength DEF Init
<1>2. Len(calls) = n
  <2>1. n \in Nat /\ DOMAIN calls = 1..n
    BY <1>1, OldLength
  <2> QED  BY <1>1, <2>1
<1>3. \A k \in 1..n : /\ calls[k].raw = None /\ calls[k].session = Legacy[k].session
                      /\ calls[k].usage = Legacy[k].usage
  BY <1>1
<1>4. OldRowsFirst(calls) /\ RawsDiffer(calls)
  BY <1>2, <1>3, OldLength DEF OldRowsFirst, RawsDiffer
<1>5. \A w \in Workers : run[w] = Idle
  BY DEF Init
<1> QED  BY <1>4, <1>5 DEF OnceInv, OnceRun, Idle

\* Whatever is redelivered, and whoever delivers it, no event has two calls, and
\* once the only call of an old version that says what an event says stands
\* beside a call with a raw event, it has taken one over itself.
THEOREM NothingIsCountedTwice == Spec => []LegacyIsNotCountedTwice
<1>1. Inv /\ OnceInv => LegacyIsNotCountedTwice
  <2> SUFFICES ASSUME Inv, OnceInv PROVE LegacyIsNotCountedTwice
    OBVIOUS
  <2>1. Len(calls) \in Nat /\ DOMAIN calls = 1..Len(calls)
    BY TableLength DEF Inv, RowsOK
  <2>2. \A i, j \in DOMAIN calls : calls[i].raw = calls[j].raw /\ calls[i].raw # None => i = j
    BY <2>1 DEF OnceInv, RawsDiffer
  <2>3. ASSUME NEW l \in DOMAIN Legacy,
               Cardinality({k \in DOMAIN Legacy : Legacy[k] = Legacy[l]}) = 1,
               NEW i \in DOMAIN calls, NEW j \in DOMAIN calls,
               calls[i].session = Legacy[l].session, calls[i].usage = Legacy[l].usage,
               calls[j].session = Legacy[l].session, calls[j].usage = Legacy[l].usage,
               calls[i].raw # None, calls[j].raw = None
        PROVE  FALSE
    <3>1. l \in 1..Len(Legacy) /\ OnlyOld(l)
      <4> DEFINE old == {k \in DOMAIN Legacy : Legacy[k] = Legacy[l]}
      <4>1. PICK k : old = {k}
        <5>1. IsFiniteSet(1..Len(Legacy))
          BY OldLength, FS_Interval
        <5>2. old \subseteq 1..Len(Legacy)
          BY OldLength
        <5>3. IsFiniteSet(old)
          BY <5>1, <5>2, FS_Subset
        <5> HIDE DEF old
        <5> QED  BY <2>3, <5>3, FS_Singleton DEF old
      <4>2. l \in old
        OBVIOUS
      <4> QED  BY <4>1, <4>2, OldLength DEF OnlyOld
    <3>2. OldRowsFirst(calls) /\ j \in 1..Len(Legacy)
      BY <2>1, <2>3, OldLength DEF OnceInv, OldRowsFirst
    <3>3. j = l
      BY <2>1, <2>3, <3>1, <3>2, OldRowSays
    <3>4. i \notin 1..Len(Legacy)
      BY <2>1, <2>3, <3>1, <3>2, <3>3, OldRowSays
    <3>5. TakenOver(calls, Legacy[l].session, Legacy[l].usage)
      BY <2>1, <2>3, <3>2, <3>4, OldLength DEF OldRowsFirst
    <3> QED  BY <2>3, <3>1, <3>3, <3>5 DEF TakenOver
  <2> QED  BY <2>2, <2>3 DEF LegacyIsNotCountedTwice
<1> QED  BY <1>1, OnceInit, OnceNext, InitInv, StepInv, PTL DEF Spec

-----------------------------------------------------------------------------
(* Prompts and calls find each other.  One writer at a time: what it found, *)
(* or did not find, is still so when it adds its row.                       *)

Named(session, upstream) == session # "" /\ upstream # None

Only(is, session, upstream) ==
    \E i \in 1..Len(is) : \A j \in 1..Len(is) : Names(is, j, session, upstream) <=> j = i

AllLinked(rows, session, upstream) ==
    Named(session, upstream) =>
        \A k \in 1..Len(rows) :
            rows[k].session = session /\ rows[k].parent = upstream => rows[k].link # NULL

\* A prompt that was ingested has an interaction, and has adopted what names only that.
Found(is, cs, ts, p) ==
    /\ \E i : Names(is, i, p.session, RootIdentity(p))
    /\ Only(is, p.session, RootIdentity(p)) =>
          AllLinked(cs, p.session, RootIdentity(p)) /\ AllLinked(ts, p.session, RootIdentity(p))

\* A call without a link names nothing, or not just one interaction.
Settled(is, link, session, parent) ==
    link = NULL /\ Named(session, parent) => ~Only(is, session, parent)

HasAdoptedCalls(pc) == pc = "adopt tools"

FoundRun(is, cs, ts, r) ==
    /\ r.pc \in {"legacy", "record"} => Settled(is, r.link, r.event.session, r.event.parent)
    /\ HasAdoptedCalls(r.pc) => AllLinked(cs, r.event.session, RootIdentity(r.event))
    /\ r.pc = "done" /\ IsRoot(r.event) => Found(is, cs, ts, r.event)

OneWriter == \A v, w \in Workers : run[v].pc # "idle" /\ run[w].pc # "idle" => v = w

FoundInv ==
    /\ OneWriter
    /\ \A p \in whole : IsRoot(p) => Found(interactions, calls, tools, p)
    /\ \A w \in Workers : FoundRun(interactions, calls, tools, run[w])

Widens(is, new) == \A i, session, upstream :
    Names(is, i, session, upstream) => Names(new, i, session, upstream)

\* A link is never lost, and a row is added or changed with the link that it is to have.
Settles(is, rows, new) ==
    \A k \in 1..Len(new) :
        \/ Settled(is, new[k].link, new[k].session, new[k].parent)
        \/ /\ k \in 1..Len(rows)
           /\ new[k].session = rows[k].session /\ new[k].parent = rows[k].parent
           /\ new[k].link = NULL => rows[k].link = NULL

LEMMA OnlyIs ==
    ASSUME Inv, NEW session, NEW upstream
    PROVE  Cardinality(BySessionUpstream(session, upstream)) = 1
               <=> Only(interactions, session, upstream)
<1> DEFINE rows == BySessionUpstream(session, upstream)
<1>1. Len(interactions) \in Nat /\ DOMAIN interactions = 1..Len(interactions)
  BY TableLength DEF Inv
<1>2. \A i : i \in rows <=> Names(interactions, i, session, upstream)
  BY <1>1 DEF BySessionUpstream, RowsWith, Names
<1>3. IsFiniteSet(1..Len(interactions)) /\ rows \subseteq 1..Len(interactions)
  BY <1>1, <1>2, FS_Interval DEF Names
<1> HIDE DEF rows
<1>4. IsFiniteSet(rows)
  BY <1>3, FS_Subset
<1>5. Cardinality(rows) = 1 <=> \E i : rows = {i}
  BY <1>4, FS_Singleton
<1>6. (\E i : rows = {i}) => Only(interactions, session, upstream)
  BY <1>2, <1>3 DEF Only
<1>7. Only(interactions, session, upstream) => \E i : rows = {i}
  <2> HAVE Only(interactions, session, upstream)
  <2>1. PICK i \in 1..Len(interactions) :
            \A j \in 1..Len(interactions) : Names(interactions, j, session, upstream) <=> j = i
    BY DEF Only
  <2>2. rows = {i}
    BY <1>2, <1>3, <2>1
  <2> QED  BY <2>2
<1> QED  BY <1>5, <1>6, <1>7 DEF rows

\* What a prompt has found stays found.
LEMMA FoundKept ==
    ASSUME NEW is, NEW cs, NEW ts, NEW is2, NEW cs2, NEW ts2, NEW p, Found(is, cs, ts, p),
           Widens(is, is2), Settles(is, cs, cs2), Settles(is, ts, ts2)
    PROVE  Found(is2, cs2, ts2, p)
<1> DEFINE s == p.session
           u == RootIdentity(p)
<1>1. PICK i : Names(is, i, s, u)
  BY DEF Found
<1>2. Names(is2, i, s, u)
  BY <1>1 DEF Widens
<1>3. ASSUME Only(is2, s, u) PROVE Only(is, s, u)
  <2>1. PICK m \in 1..Len(is2) : \A j \in 1..Len(is2) : Names(is2, j, s, u) <=> j = m
    BY <1>3 DEF Only
  <2>2. \A j : Names(is2, j, s, u) => j = m
    BY <2>1 DEF Names
  <2>3. \A j : Names(is, j, s, u) => j = i
    BY <1>2, <2>2 DEF Widens
  <2> HIDE DEF s, u
  <2>4. i \in 1..Len(is)
    BY <1>1 DEF Names
  <2> QED  BY <1>1, <2>3, <2>4 DEF Only
<1>4. ASSUME NEW rows, NEW new, Settles(is, rows, new), Only(is, s, u), AllLinked(rows, s, u)
      PROVE  AllLinked(new, s, u)
  <2> HIDE DEF s, u
  <2> SUFFICES ASSUME Named(s, u), NEW k \in 1..Len(new), new[k].session = s, new[k].parent = u,
                      new[k].link = NULL
               PROVE  FALSE
    BY DEF AllLinked
  <2> QED  BY <1>4 DEF Settles, Settled, AllLinked
<1> QED  BY <1>2, <1>3, <1>4 DEF Found

LEMMA SettlesAsIs ==
    ASSUME NEW is, NEW rows
    PROVE  Settles(is, rows, rows) /\ Widens(is, is)
BY DEF Settles, Widens

\* A step of the only writer.
LEMMA FoundStep ==
    ASSUME Inv, FoundInv, NEW w \in Workers, run[w].pc # "idle" \/ WriterLockFree,
           NEW new, run' = [run EXCEPT ![w] = new],
           Widens(interactions, interactions'), Settles(interactions, calls, calls'),
           Settles(interactions, tools, tools'),
           \A p \in whole' : p \in whole \/ (IsRoot(p) => Found(interactions, calls, tools, p)),
           FoundRun(interactions', calls', tools', new)
    PROVE  FoundInv'
<1>1. \A v \in Workers : v # w => run'[v] = run[v] /\ run[v].pc = "idle"
  BY DEF Inv, FoundInv, OneWriter, WriterLockFree
<1>2. run'[w] = new
  BY DEF Inv
<1>3. OneWriter'
  BY <1>1 DEF OneWriter
<1>4. \A p \in whole' : IsRoot(p) => Found(interactions, calls, tools, p)
  BY DEF FoundInv
<1>5. \A p \in whole' : IsRoot(p) => Found(interactions', calls', tools', p)
  BY <1>4, FoundKept
<1>6. ASSUME NEW v \in Workers PROVE FoundRun(interactions', calls', tools', run'[v])
  <2>1. CASE v = w
    BY <1>2, <2>1
  <2>2. CASE v # w
    <3>1. run'[v].pc = "idle"
      BY <1>1, <2>2
    <3>2. ~HasAdoptedCalls(run'[v].pc)
      BY <3>1, Zenon DEF HasAdoptedCalls
    <3> QED  BY <3>1, <3>2 DEF FoundRun
  <2> QED  BY <2>1, <2>2
<1> QED  BY <1>3, <1>5, <1>6 DEF FoundInv

\* A statement that goes on to the next.
LEMMA FoundMoves ==
    ASSUME Inv, FoundInv, NEW w \in Workers, run[w].pc # "idle", UNCHANGED whole,
           NEW pc, NEW link, MovesTo(w, pc, link),
           UNCHANGED interactions \/ Widens(interactions, interactions'),
           UNCHANGED calls \/ Settles(interactions, calls, calls'),
           UNCHANGED tools \/ Settles(interactions, tools, tools'),
           pc \in {"legacy", "record"} =>
               Settled(interactions', link, run[w].event.session, run[w].event.parent),
           HasAdoptedCalls(pc) =>
               AllLinked(calls', run[w].event.session, RootIdentity(run[w].event)),
           pc = "done" /\ IsRoot(run[w].event) =>
               Found(interactions', calls', tools', run[w].event)
    PROVE  FoundInv'
<1>1. PICK new : /\ run' = [run EXCEPT ![w] = new] /\ new.pc = pc /\ new.link = link
                 /\ new.event = run[w].event
  BY DEF MovesTo
<1>2. FoundRun(interactions', calls', tools', new)
  BY <1>1 DEF FoundRun
<1>3. /\ Widens(interactions, interactions') /\ Settles(interactions, calls, calls')
      /\ Settles(interactions, tools, tools')
  BY SettlesAsIs
<1> QED  BY <1>1, <1>2, <1>3, FoundStep

\* After its calls an event that is no prompt is done with.
LEMMA AfterCallIs ==
    ASSUME NEW e
    PROVE  /\ AfterCall(e) \notin {"legacy", "record"} /\ ~HasAdoptedCalls(AfterCall(e))
           /\ AfterCall(e) = "done" => ~IsRoot(e)
           /\ AfterLookup(e) # "done" /\ ~HasAdoptedCalls(AfterLookup(e))
<1>1. AfterCall(e) \notin {"legacy", "record"} /\ AfterLookup(e) # "done"
  BY DEF AfterCall, AfterLookup
<1>2. AfterCall(e) = "done" => ~IsRoot(e)
  BY DEF AfterCall
<1>3. ~HasAdoptedCalls(AfterCall(e)) /\ ~HasAdoptedCalls(AfterLookup(e))
  BY Zenon DEF HasAdoptedCalls, AfterCall, AfterLookup
<1> QED  BY <1>1, <1>2, <1>3

LEMMA NoParent == \A session : ~Named(session, None)
BY Zenon DEF Named

\* What is looked up is what there is: nobody else adds an interaction meanwhile.
LEMMA LookupsFind ==
    ASSUME Inv, FoundInv, NEW w \in Workers,
           CheckCall(w) \/ BeginTool(w) \/ FindExact(w) \/ FindUnique(w)
    PROVE  FoundInv'
<1> DEFINE e == run[w].event
<1>1. run[w].pc # "idle" /\ UNCHANGED <<interactions, calls, tools, whole>>
  <2>1. UNCHANGED <<interactions, calls, tools, whole>>
    BY Zenon DEF CheckCall, BeginTool, FindExact, FindUnique, Elsewhere, Store
  <2>2. run[w].pc \in {"call", "tool", "exact", "unique"}
    BY Zenon DEF CheckCall, BeginTool, FindExact, FindUnique, At
  <2> QED  BY <2>1, <2>2
<1>2. \A pc : Goto(w, pc) => MovesTo(w, pc, run[w].link)
  BY <1>1, GotoMoves
<1>3. \A pc, link : run' = [run EXCEPT ![w].link = link, ![w].pc = pc] => MovesTo(w, pc, link)
  BY <1>1, LinkMoves
<1>4. \A pc \in {"legacy", "exact", "record", "unique"} : pc # "done" /\ ~HasAdoptedCalls(pc)
  BY Zenon DEF HasAdoptedCalls
<1>5. CASE CheckCall(w)
  <2>1. \E pc \in {AfterCall(e), "legacy", "exact"} :
            Goto(w, pc) /\ (pc = "legacy" => e.parent = None)
    <3>1. Goto(w, AfterCall(e)) \/ Goto(w, IF e.parent = None THEN "legacy" ELSE "exact")
      BY <1>5, Zenon DEF CheckCall
    <3>2. AfterCall(e) # "legacy"
      BY AfterCallIs
    <3> QED  BY <3>1, <3>2
  <2>2. PICK pc \in {AfterCall(e), "legacy", "exact"} :
            MovesTo(w, pc, run[w].link) /\ (pc = "legacy" => e.parent = None)
    BY <1>2, <2>1
  <2>3. pc \in {"legacy", "record"} =>
            Settled(interactions', run[w].link, run[w].event.session, run[w].event.parent)
    BY <2>2, AfterCallIs, NoParent DEF Settled
  <2>4. ~HasAdoptedCalls(pc) /\ (pc = "done" => ~IsRoot(e))
    BY <1>4, <2>2, AfterCallIs
  <2> QED  BY <1>1, <2>2, <2>3, <2>4, FoundMoves
<1>6. CASE BeginTool(w)
  <2>1. \E pc \in {"record", "exact"} : Goto(w, pc) /\ (pc = "record" => e.parent = None)
    BY <1>6 DEF BeginTool
  <2>2. PICK pc \in {"record", "exact"} :
            MovesTo(w, pc, run[w].link) /\ (pc = "record" => e.parent = None)
    BY <1>2, <2>1
  <2>3. pc \in {"legacy", "record"} =>
            Settled(interactions', run[w].link, run[w].event.session, run[w].event.parent)
    BY <2>2, NoParent DEF Settled
  <2> QED  BY <1>1, <1>4, <2>2, <2>3, FoundMoves
<1>7. CASE FindExact(w)
  <2> DEFINE found == InteractionByUpstream(e.source, e.session, e.parent)
  <2>1. \/ Goto(w, "unique")
        \/ \E i \in found : run' = [run EXCEPT ![w].link = i, ![w].pc = AfterLookup(e)]
    BY <1>7, Zenon DEF FindExact
  <2>2. CASE Goto(w, "unique")
    BY <1>1, <1>2, <1>4, <2>2, FoundMoves
  <2>3. CASE \E i \in found : run' = [run EXCEPT ![w].link = i, ![w].pc = AfterLookup(e)]
    <3>1. PICK i \in found : MovesTo(w, AfterLookup(e), i)
      BY <1>3, <2>3
    <3>2. i # NULL
      <4>1. DOMAIN interactions = 1..Len(interactions)
        BY TableLength DEF Inv
      <4> QED  BY <4>1 DEF InteractionByUpstream, RowsWith, NULL
    <3>3. Settled(interactions', i, run[w].event.session, run[w].event.parent)
      BY <3>2 DEF Settled
    <3> QED  BY <1>1, <3>1, <3>3, AfterCallIs, FoundMoves
  <2> QED  BY <2>1, <2>2, <2>3
<1>8. CASE FindUnique(w)
  <2> DEFINE link == InteractionBySessionUpstream(e.session, e.parent)
  <2>1. run' = [run EXCEPT ![w].link = link, ![w].pc = AfterLookup(e)]
    BY <1>8, Zenon DEF FindUnique
  <2>2. Settled(interactions, link, e.session, e.parent)
    <3> DEFINE rows == BySessionUpstream(e.session, e.parent)
    <3> SUFFICES ASSUME Named(e.session, e.parent), Only(interactions, e.session, e.parent)
                 PROVE  link # NULL
      BY DEF Settled
    <3>1. Cardinality(rows) = 1
      BY OnlyIs
    <3>2. e.session # ""
      BY Zenon DEF Named
    <3>3. link = CHOOSE i \in rows : TRUE
      BY <3>1, <3>2, Zenon DEF InteractionBySessionUpstream
    <3>4. DOMAIN interactions = 1..Len(interactions)
      BY TableLength DEF Inv
    <3>5. rows # {}
      BY <3>1, FS_EmptySet
    <3>6. link \in rows
      <4> HIDE DEF rows, link
      <4> QED  BY <3>3, <3>5
    <3> QED  BY <3>4, <3>6 DEF BySessionUpstream, RowsWith, NULL
  <2>3. MovesTo(w, AfterLookup(e), link)
    BY <1>3, <2>1
  <2> HIDE DEF link
  <2> QED  BY <1>1, <2>2, <2>3, AfterCallIs, FoundMoves
<1> QED  BY <1>5, <1>6, <1>7, <1>8

\* What changes in a table when a prompt adopts rows of it.
LEMMA BackfillLinks ==
    ASSUME NEW rows, IsTable(rows), \A k \in 1..Len(rows) : RowShape(rows[k]),
           NEW i, i # NULL, NEW session, NEW upstream, NEW is
    PROVE  /\ Settles(is, rows, backfill(rows, i, session, upstream))
           /\ AllLinked(backfill(rows, i, session, upstream), session, upstream)
<1> DEFINE new == backfill(rows, i, session, upstream)
           Adopted(k) == /\ rows[k].link = NULL /\ Named(session, upstream)
                         /\ rows[k].session = session /\ rows[k].parent = upstream
<1>1. Len(rows) \in Nat /\ DOMAIN rows = 1..Len(rows)
  BY TableLength
<1>2. new = [k \in DOMAIN rows |-> new[k]]
  BY DEF backfill
<1>3. Len(new) = Len(rows)
  <2> HIDE DEF new
  <2> QED  BY <1>1, <1>2, MappedTable
<1>4. \A k \in DOMAIN rows :
          new[k] = IF Adopted(k) THEN [rows[k] EXCEPT !.link = i] ELSE rows[k]
  BY Zenon DEF backfill, Named
<1> HIDE DEF new
<1>5. \A k \in 1..Len(rows) : /\ new[k].session = rows[k].session
                              /\ new[k].parent = rows[k].parent
                              /\ new[k].link = IF Adopted(k) THEN i ELSE rows[k].link
  BY <1>1, <1>4 DEF RowShape
<1>6. Settles(is, rows, new)
  BY <1>3, <1>5 DEF Settles
<1>7. AllLinked(new, session, upstream)
  BY <1>3, <1>5 DEF AllLinked
<1> QED  BY <1>6, <1>7 DEF new

\* A row that is added.
LEMMA AppendSettles ==
    ASSUME NEW is, NEW rows, IsTable(rows), NEW row, NEW link, NEW session, NEW parent,
           row.link = link, row.session = session, row.parent = parent,
           Settled(is, link, session, parent)
    PROVE  Settles(is, rows, Append(rows, row))
<1> DEFINE new == Append(rows, row)
<1>1. /\ Len(rows) \in Nat /\ Len(new) = Len(rows) + 1 /\ new[Len(rows) + 1] = row
      /\ \A k \in 1..Len(rows) : new[k] = rows[k]
  BY AppendRow, TableLength DEF IsTable
<1>2. \A k \in 1..Len(new) : k \in 1..Len(rows) \/ k = Len(rows) + 1
  BY <1>1
<1> HIDE DEF new
<1>3. Settles(is, rows, new)
  BY <1>1, <1>2 DEF Settles
<1> QED  BY <1>3 DEF new

LEMMA LegacyFinds ==
    ASSUME Inv, FoundInv, NEW w \in Workers, LinkMatchingLegacyModelCall(w)
    PROVE  FoundInv'
<1> DEFINE r == run[w]
           e == run[w].event
<1>1. r.pc = "legacy" /\ UNCHANGED <<interactions, tools, whole>>
  BY Zenon DEF LinkMatchingLegacyModelCall, At, Elsewhere
<1>2. Settled(interactions, r.link, e.session, e.parent)
  BY <1>1 DEF FoundInv, FoundRun
<1>3. Len(calls) \in Nat /\ DOMAIN calls = 1..Len(calls) /\ IsTable(calls)
  BY TableLength DEF Inv, RowsOK
<1>4. CASE Goto(w, "record") /\ UNCHANGED calls
  <2>1. MovesTo(w, "record", r.link)
    BY <1>1, <1>4, GotoMoves
  <2>2. ~HasAdoptedCalls("record")
    BY Zenon DEF HasAdoptedCalls
  <2> QED  BY <1>1, <1>2, <1>4, <2>1, <2>2, FoundMoves
<1>5. CASE ~(Goto(w, "record") /\ UNCHANGED calls)
  <2>1. PICK i \in LegacyCandidates(e) :
            /\ calls' = [calls EXCEPT
                   ![i].raw    = r.raw,
                   ![i].link   = IF @ = NULL THEN r.link ELSE @,
                   ![i].parent = IF @ = None THEN r.event.parent ELSE @]
            /\ Goto(w, AfterCall(e))
    BY <1>5, Zenon DEF LinkMatchingLegacyModelCall
  <2>2. i \in 1..Len(calls) /\ calls[i].raw = None /\ calls[i].session = e.session
    BY <1>3 DEF LegacyCandidates, RowsWith
  <2>3. RowShape(calls[i]) /\ calls[i].link = NULL /\ calls[i].parent = None
    BY <2>2 DEF Inv, RowsOK, RowOK
  <2> DEFINE new == calls'
  <2>4. /\ new = [k \in DOMAIN calls |-> new[k]]
        /\ \A k \in 1..Len(calls) : k # i => new[k] = calls[k]
    BY <1>3, <2>1, <2>2
  <2>5. new[i].link = r.link /\ new[i].session = e.session /\ new[i].parent = e.parent
    BY <1>3, <2>1, <2>2, <2>3 DEF RowShape
  <2>6. Len(new) = Len(calls)
    <3> HIDE DEF new
    <3> QED  BY <1>3, <2>4, MappedTable
  <2>7. Settles(interactions, calls, calls')
    BY <1>2, <2>4, <2>5, <2>6 DEF Settles
  <2>8. MovesTo(w, AfterCall(e), r.link)
    BY <1>1, <2>1, GotoMoves
  <2> QED  BY <1>1, <2>7, <2>8, AfterCallIs, FoundMoves
<1> QED  BY <1>4, <1>5

LEMMA RecordsFind ==
    ASSUME Inv, FoundInv, NEW w \in Workers, RecordModelCall(w) \/ RecordToolCall(w)
    PROVE  FoundInv'
<1> DEFINE r == run[w]
           e == run[w].event
           row == Row(r)
<1>1. r.pc = "record" /\ UNCHANGED <<interactions, whole>>
  BY Zenon DEF RecordModelCall, RecordToolCall, At, Elsewhere
<1>2. Settled(interactions, r.link, e.session, e.parent)
  BY <1>1 DEF FoundInv, FoundRun
<1>3. row.link = r.link /\ row.session = e.session /\ row.parent = e.parent
  BY DEF Row
<1>4. IsTable(calls) /\ IsTable(tools)
  BY DEF Inv, RowsOK
<1>5. \A rows : IsTable(rows) => Settles(interactions, rows, Append(rows, row))
  <2> HIDE DEF row
  <2> QED  BY <1>2, <1>3, AppendSettles
<1>6. /\ calls' = calls \/ calls' = Append(calls, row)
      /\ tools' = tools \/ tools' = Append(tools, row)
      /\ Goto(w, AfterCall(e)) \/ (Goto(w, "done") /\ e.kind = "tool")
  BY Zenon DEF RecordModelCall, RecordToolCall
<1>7. e.kind = "tool" => ~IsRoot(e)
  BY DEF IsRoot, isCodexResponseRoot, isAgentTraceInteraction
<1>8. \A pc : Goto(w, pc) => MovesTo(w, pc, r.link)
  BY <1>1, GotoMoves
<1>9. ~HasAdoptedCalls("done")
  BY Zenon DEF HasAdoptedCalls
<1>10. PICK pc : /\ MovesTo(w, pc, r.link) /\ pc \notin {"legacy", "record"}
                 /\ ~HasAdoptedCalls(pc) /\ (pc = "done" => ~IsRoot(e))
  BY <1>6, <1>7, <1>8, <1>9, AfterCallIs
<1>11. /\ UNCHANGED calls \/ Settles(interactions, calls, calls')
       /\ UNCHANGED tools \/ Settles(interactions, tools, tools')
  BY <1>4, <1>5, <1>6
<1> HIDE DEF row
<1> QED  BY <1>1, <1>10, <1>11, FoundMoves

\* A prompt has an interaction, adopts all calls that name it, and the tools
\* while it is the only one.
LEMMA PromptsFind ==
    ASSUME Inv, FoundInv, NEW w \in Workers,
           RecordInteraction(w) \/ AdoptCalls(w) \/ AdoptTools(w)
    PROVE  FoundInv'
<1> DEFINE e == run[w].event
           s == run[w].event.session
           u == RootIdentity(run[w].event)
           i == run[w].link
<1>1. run[w].pc # "idle" /\ UNCHANGED whole
  <2>1. Statement(w) /\ UNCHANGED whole
    BY Zenon DEF Statement, RecordInteraction, AdoptCalls, AdoptTools, Elsewhere
  <2> QED  BY <2>1, StatementsMove DEF Early
<1>2. \A pc : Goto(w, pc) => MovesTo(w, pc, i)
  BY <1>1, GotoMoves
<1>3. CASE RecordInteraction(w)
  <2> DEFINE p == run[w].payload
             row == [source |-> e.source, session |-> s, upstream |-> u, holds |-> p.holds,
                     label |-> IF p.label = "" THEN "hash" ELSE p.label]
             pc == "adopt calls"
  <2>1. /\ UNCHANGED <<calls, tools>>
        /\ interactions' = interactions \/ interactions' = Append(interactions, row)
        /\ \E link : run' = [run EXCEPT ![w].link = link, ![w].pc = pc]
    BY <1>3, Zenon DEF RecordInteraction
  <2>2. pc \notin {"legacy", "record", "done"} /\ ~HasAdoptedCalls(pc)
    BY Zenon DEF HasAdoptedCalls
  <2> HIDE DEF pc, row
  <2>3. PICK link : MovesTo(w, pc, link)
    BY <1>1, <2>1, LinkMoves
  <2>4. Widens(interactions, interactions')
    <3>1. /\ Len(interactions) \in Nat /\ IsTable(interactions)
          /\ \A k \in 1..Len(interactions) : Append(interactions, row)[k] = interactions[k]
          /\ Len(Append(interactions, row)) = Len(interactions) + 1
      BY AppendRow, TableLength DEF IsTable, Inv
    <3> QED  BY <2>1, <3>1 DEF Widens, Names
  <2> QED  BY <1>1, <2>1, <2>2, <2>3, <2>4, FoundMoves
<1>4. CASE AdoptCalls(w) \/ AdoptTools(w)
  <2>1. Names(interactions, i, s, u)
    <3>1. run[w].pc \in {"adopt calls", "adopt tools"}
      BY <1>4, Zenon DEF AdoptCalls, AdoptTools, At
    <3> QED  BY <1>1, <3>1, Holding, Zenon DEF HoldsOK
  <2>2. i # NULL
    BY <2>1 DEF Names, NULL
  <2>3. \A rows \in {calls, tools} :
            /\ Settles(interactions, rows, backfill(rows, i, s, u))
            /\ AllLinked(backfill(rows, i, s, u), s, u)
    <3>1. \A rows \in {calls, tools} :
              IsTable(rows) /\ \A k \in 1..Len(rows) : RowShape(rows[k])
      BY DEF Inv, RowsOK, RowOK
    <3> HIDE DEF i, s, u
    <3> QED  BY <2>2, <3>1, BackfillLinks
  <2>4. CASE AdoptCalls(w)
    <3> DEFINE pc == "adopt tools"
    <3>1. /\ UNCHANGED <<interactions, tools>> /\ calls' = backfill(calls, i, s, u)
          /\ Goto(w, pc)
      BY <2>4, Zenon DEF AdoptCalls
    <3>2. pc \notin {"legacy", "record", "done"}
      BY Zenon
    <3> HIDE DEF pc
    <3> QED  BY <1>1, <1>2, <2>3, <3>1, <3>2, FoundMoves
  <2>5. CASE AdoptTools(w)
    <3>1. /\ UNCHANGED <<interactions, calls>> /\ Goto(w, "done")
          /\ tools' = IF Cardinality(BySessionUpstream(s, u)) = 1
                      THEN backfill(tools, i, s, u) ELSE tools
      BY <2>5, Zenon DEF AdoptTools
    <3>2. AllLinked(calls, s, u)
      <4>1. HasAdoptedCalls(run[w].pc)
        BY <2>5, Zenon DEF AdoptTools, At, HasAdoptedCalls
      <4> QED  BY <4>1 DEF FoundInv, FoundRun
    <3>3. Found(interactions', calls', tools', e)
      <4>1. Only(interactions, s, u) => AllLinked(tools', s, u)
        BY <2>3, <3>1, OnlyIs
      <4> QED  BY <2>1, <3>1, <3>2, <4>1 DEF Found
    <3>4. UNCHANGED tools \/ Settles(interactions, tools, tools')
      BY <2>3, <3>1
    <3>5. ~HasAdoptedCalls("done")
      BY Zenon DEF HasAdoptedCalls
    <3>6. MovesTo(w, "done", i)
      BY <1>2, <3>1
    <3> QED  BY <1>1, <3>1, <3>3, <3>4, <3>5, <3>6, FoundMoves
  <2> QED  BY <1>4, <2>4, <2>5
<1> QED  BY <1>3, <1>4

\* A request is received while nobody writes, read, and appended.
LEMMA BeginningFinds ==
    ASSUME Inv, FoundInv, NEW w \in Workers, run[w].pc # "idle" \/ WriterLockFree,
           UNCHANGED <<interactions, calls, tools, whole>>,
           NEW new, run' = [run EXCEPT ![w] = new], new.pc \notin {"legacy", "record"},
           ~HasAdoptedCalls(new.pc), new.pc = "done" => ~IsRoot(new.event)
    PROVE  FoundInv'
<1>1. FoundRun(interactions', calls', tools', new)
  BY DEF FoundRun
<1>2. /\ Widens(interactions, interactions') /\ Settles(interactions, calls, calls')
      /\ Settles(interactions, tools, tools')
  BY SettlesAsIs
<1> QED  BY <1>1, <1>2, FoundStep

LEMMA ReceivingFinds ==
    ASSUME Inv, FoundInv,
           \/ \E w \in Workers, e \in Events : Receive(w, e)
           \/ \E m \in inbox : ReceiveForwarded(m)
    PROVE  FoundInv'
<1>1. \E w \in Workers, pc \in {"attach", "enforce"} : \E e, payload :
          run' = [run EXCEPT ![w] = Started(pc, e, payload)]
  <2>1. CASE \E w \in Workers, e \in Events : Receive(w, e)
    <3>1. PICK w \in Workers, e \in Events : Receive(w, e)
      BY <2>1
    <3> DEFINE new == IF e.via \in {"hook", "plugin"}
                      THEN Started("attach", e, [holds |-> sanitizePluginPayload(e), label |-> ""])
                      ELSE Started("enforce", e, [holds |-> e.holds \ {"text"},
                               label |-> IF e.via = "otlp" /\ e.kind = "prompt" /\ e.agent
                                         THEN "hash" ELSE ""])
    <3>2. run' = [run EXCEPT ![w] = new]
      BY <3>1, Zenon DEF Receive
    <3>3. \E pc \in {"attach", "enforce"} : \E payload : new = Started(pc, e, payload)
      BY Zenon
    <3> HIDE DEF new
    <3> QED  BY <3>2, <3>3
  <2>2. CASE \E m \in inbox : ReceiveForwarded(m)
    <3>1. PICK m \in inbox : ReceiveForwarded(m)
      BY <2>2
    <3> DEFINE e == [m.event EXCEPT !.holds = m.payload.holds]
               w == "collector"
    <3>2. run' = [run EXCEPT ![w] = Started("attach", e, m.payload)]
      BY <3>1, Zenon DEF ReceiveForwarded
    <3>3. w \in Workers
      BY DEF Workers
    <3> HIDE DEF e, w
    <3> QED  BY <3>2, <3>3
  <2> QED  BY <2>1, <2>2
<1>2. PICK w \in Workers, pc \in {"attach", "enforce"} :
          \E e, payload : run' = [run EXCEPT ![w] = Started(pc, e, payload)]
  BY <1>1
<1>3. PICK e, payload : run' = [run EXCEPT ![w] = Started(pc, e, payload)]
  BY <1>2
<1>4. WriterLockFree /\ UNCHANGED <<interactions, calls, tools, whole>>
  BY Zenon DEF Receive, ReceiveForwarded, Store
<1> DEFINE new == Started(pc, e, payload)
<1>5. new.pc = pc
  BY DEF Started
<1>6. ~HasAdoptedCalls(pc)
  BY Zenon DEF HasAdoptedCalls
<1> HIDE DEF new
<1>7. run' = [run EXCEPT ![w] = new]
  BY <1>3 DEF new
<1> QED  BY <1>4, <1>5, <1>6, <1>7, BeginningFinds

LEMMA ReadingFinds ==
    ASSUME Inv, FoundInv, NEW w \in Workers, Attach(w) \/ Enforce(w) \/ AppendRawEvent(w)
    PROVE  FoundInv'
<1> DEFINE e == run[w].event
           id == CanonicalIngestionIdentity(e, run[w].payload)
           next == IF e.kind = "model" THEN "call" ELSE AfterCall(e)
           raw == <<id>>
<1>1. run[w].pc # "idle" /\ UNCHANGED <<interactions, calls, tools, whole>>
  <2>1. run[w].pc \in {"attach", "enforce", "append"}
    BY Zenon DEF Attach, Enforce, AppendRawEvent, At
  <2>2. UNCHANGED <<interactions, calls, tools, whole>>
    BY Zenon DEF Attach, Enforce, AppendRawEvent, Elsewhere, Store
  <2> QED  BY <2>1, <2>2
<1>2. RunShape(run[w]) /\ w \in DOMAIN run
  BY <1>1, HoldingShape
<1>3. /\ "call" \notin {"legacy", "record", "done"}
      /\ \A pc \in {"call", "enforce", "append"} :
             pc \notin {"legacy", "record", "done"} /\ ~HasAdoptedCalls(pc)
  BY Zenon DEF HasAdoptedCalls
<1>4. CASE AppendRawEvent(w)
  <2>1. run' = [run EXCEPT ![w].raw = raw, ![w].pc = next]
    BY <1>4, Zenon DEF AppendRawEvent
  <2>2. /\ next \notin {"legacy", "record"} /\ ~HasAdoptedCalls(next)
        /\ next = "done" => ~IsRoot(e)
    BY <1>3, AfterCallIs
  <2> HIDE DEF raw, next
  <2> DEFINE new == [run[w] EXCEPT !.raw = raw, !.pc = next]
  <2>3. run' = [run EXCEPT ![w] = new]
    BY <1>2, <2>1
  <2>4. new.pc = next /\ new.event = e
    BY <1>2 DEF RunShape
  <2> HIDE DEF new
  <2> QED  BY <1>1, <2>2, <2>3, <2>4, BeginningFinds
<1>5. CASE Attach(w) \/ Enforce(w)
  <2>1. \E pc \in {"enforce", "append"} : \E payload :
            run' = [run EXCEPT ![w].pc = pc, ![w].payload = payload]
    <3>1. \/ \E payload : run' = [run EXCEPT ![w].pc = "enforce", ![w].payload = payload]
          \/ \E payload : run' = [run EXCEPT ![w].pc = "append", ![w].payload = payload]
      BY <1>5, Zenon DEF Attach, Enforce
    <3> QED  BY <3>1, Zenon
  <2>2. PICK pc \in {"enforce", "append"} :
            \E payload : run' = [run EXCEPT ![w].pc = pc, ![w].payload = payload]
    BY <2>1
  <2>3. PICK payload : run' = [run EXCEPT ![w].pc = pc, ![w].payload = payload]
    BY <2>2
  <2> DEFINE new == [run[w] EXCEPT !.pc = pc, !.payload = payload]
  <2>4. run' = [run EXCEPT ![w] = new]
    BY <1>2, <2>3
  <2>5. new.pc = pc
    BY <1>2 DEF RunShape
  <2> HIDE DEF new
  <2>6. new.pc \notin {"legacy", "record", "done"} /\ ~HasAdoptedCalls(new.pc)
    BY <1>3, <2>5
  <2> QED  BY <1>1, <2>4, <2>6, BeginningFinds
<1> QED  BY <1>4, <1>5

LEMMA EndingFinds ==
    ASSUME Inv, FoundInv, NEW w \in Workers, Done(w) \/ Abandon(w)
    PROVE  FoundInv'
<1>1. run[w].pc # "idle" /\ run' = [run EXCEPT ![w] = Idle]
      /\ UNCHANGED <<interactions, calls, tools>>
  BY DEF Done, Abandon, At, Store
<1>2. \A p \in whole' : p \in whole \/ (IsRoot(p) => Found(interactions, calls, tools, p))
  BY DEF Done, Abandon, At, FoundInv, FoundRun
<1>3. FoundRun(interactions', calls', tools', Idle)
  <2>1. Idle.pc = "idle"
    BY DEF Idle
  <2>2. ~HasAdoptedCalls(Idle.pc)
    BY <2>1, Zenon DEF HasAdoptedCalls
  <2> QED  BY <2>1, <2>2 DEF FoundRun
<1> QED  BY <1>1, <1>2, <1>3, SettlesAsIs, FoundStep

LEMMA FoundNext == Inv /\ FoundInv /\ [Next]_vars => FoundInv'
<1> SUFFICES ASSUME Inv, FoundInv, [Next]_vars PROVE FoundInv'
  OBVIOUS
<1>1. CASE \/ SetPromptCaptureMode
           \/ \E mode \in Modes : WriteMode(mode)
           \/ \E e \in Events : Forward(e)
           \/ \E m \in inbox : Lose(m)
           \/ UNCHANGED vars
  <2>1. UNCHANGED <<run, interactions, calls, tools, whole>>
    BY <1>1 DEF SetPromptCaptureMode, WriteMode, Forward, Lose, vars, Store
  <2> QED  BY <2>1 DEF FoundInv, OneWriter
<1>2. CASE \/ \E w \in Workers, e \in Events : Receive(w, e)
           \/ \E m \in inbox : ReceiveForwarded(m)
  BY <1>2, ReceivingFinds
<1>3. ASSUME NEW w \in Workers, Ingest(w) PROVE FoundInv'
  BY <1>3, ReadingFinds, LookupsFind, LegacyFinds, RecordsFind, PromptsFind, EndingFinds
     DEF Ingest
<1> QED  BY <1>1, <1>2, <1>3 DEF Next

LEMMA FoundInit == Init => FoundInv
<1> SUFFICES ASSUME Init PROVE FoundInv
  OBVIOUS
<1>1. \A w \in Workers : run[w].pc = "idle"
  BY DEF Init, Idle
<1>2. \A w \in Workers : ~HasAdoptedCalls(run[w].pc)
  BY <1>1, Zenon DEF HasAdoptedCalls
<1>3. whole = {}
  BY DEF Init
<1> QED  BY <1>1, <1>2, <1>3 DEF FoundInv, OneWriter, FoundRun

\* In either order of arrival, across sources, redeliveries and requests cut
\* short: what names the only interaction of its session is linked, once some
\* ingestion of the prompt has run to its end.
THEOREM NobodyStaysAlone == Spec => []ChildrenFindParents
<1>1. Inv /\ FoundInv => ChildrenFindParents
  <2> SUFFICES ASSUME Inv, FoundInv, NEW rows \in {calls, tools}, NEW r \in DOMAIN rows,
                      rows[r].link = NULL, Named(rows[r].session, rows[r].parent),
                      Cardinality(BySessionUpstream(rows[r].session, rows[r].parent)) = 1,
                      Rooted(rows[r])
               PROVE  FALSE
    BY Zenon DEF ChildrenFindParents, Named
  <2>1. PICK p \in whole :
            IsRoot(p) /\ p.session = rows[r].session /\ RootIdentity(p) = rows[r].parent
    BY DEF Rooted
  <2>2. Only(interactions, p.session, RootIdentity(p))
    BY <2>1, OnlyIs
  <2>3. AllLinked(rows, p.session, RootIdentity(p))
    BY <2>1, <2>2 DEF FoundInv, Found
  <2>4. r \in 1..Len(rows)
    BY TableLength DEF Inv, RowsOK
  <2> QED  BY <2>1, <2>3, <2>4 DEF AllLinked
<1> QED  BY <1>1, FoundInit, FoundNext, InitInv, StepInv, PTL DEF Spec

=============================================================================
