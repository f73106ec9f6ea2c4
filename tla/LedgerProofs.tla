---------------------------- MODULE LedgerProofs ----------------------------
(***************************************************************************)
(* Proofs about Ledger for every number of writers, events and chains.     *)
(*                                                                         *)
(* Inv: at most one writer is in the store, an identity is reserved exactly*)
(* when its event is stored, a call is counted once, and a boundary names  *)
(* the row below its own.  ChainInv adds what verification walks over.     *)
(* Damage is seen because hashes are injective: the first row that differs *)
(* has another hash than the one its successor, or its own column, holds.  *)
(* The aggregate is a sum over the calls; that one more call adds its own  *)
(* tokens is proved by the least number at which it would not.             *)
(***************************************************************************)
EXTENDS LedgerProperties, SequenceTheorems, FiniteSetTheorems, TLAPS

\* What appending a row to a table does to its rows and its length.  The rows
\* need no other type than that of being the table's.
LEMMA AppendRow ==
    ASSUME NEW rows, rows \in Seq({rows[k] : k \in 1..Len(rows)}), NEW row
    PROVE  LET new == Append(rows, row)
           IN  /\ new \in Seq({new[k] : k \in 1..Len(new)})
               /\ Len(new) = Len(rows) + 1
               /\ new[Len(rows) + 1] = row
               /\ \A k \in 1..Len(rows) : new[k] = rows[k]
<1> DEFINE new == Append(rows, row)
           S == {rows[k] : k \in 1..Len(rows)}
           T == {new[k] : k \in 1..Len(new)}
<1>1. /\ Len(rows) \in Nat
      /\ Len(new) = Len(rows) + 1
      /\ new[Len(rows) + 1] = row
      /\ \A k \in 1..Len(rows) : new[k] = rows[k]
    OBVIOUS
<1>2. new \in Seq(S \union {row})
    OBVIOUS
<1>3. \A k \in 1..Len(new) : new[k] \in T
    OBVIOUS
<1>4. new \in [1..Len(new) -> S \union {row}]
    BY <1>2, LenProperties
<1>5. new \in [1..Len(new) -> T]
    <2> HIDE DEF new, T, S
    <2> QED
        BY <1>3, <1>4
<1>6. new \in Seq(T)
    <2> HIDE DEF new, T
    <2> QED
        BY <1>1, <1>5
<1> QED
    BY <1>1, <1>6

-----------------------------------------------------------------------------
(* Type correctness.                                                       *)

\* Inserting an event extends the typed table by one typed row.
LEMMA InsertedRow ==
    ASSUME RowsTyped, dedup \in [Keys -> 0..Len(events)],
           NEW key \in Keys, NEW chain \in Chains, NEW boundary \in Nat,
           InsertRawEvent(key, chain, boundary)
    PROVE  /\ RowsTyped'
           /\ Len(events) \in Nat
           /\ Len(events') = Len(events) + 1
           /\ \A k \in 1..Len(events) : events'[k] = events[k]
           /\ dedup' \in [Keys -> 0..Len(events')]
           /\ dedup' = [dedup EXCEPT ![key] = Len(events) + 1]
           /\ \E created \in ClockReadings, prev \in PreviousHashes(chain) :
                 events'[Len(events) + 1] = NewRow(key, chain, boundary, created, prev)
<1>1. PICK created \in ClockReadings, prev \in PreviousHashes(chain) :
         events' = Append(events, NewRow(key, chain, boundary, created, prev))
    BY DEF InsertRawEvent
<1> DEFINE row == NewRow(key, chain, boundary, created, prev)
<1>2. events \in Seq({events[k] : k \in 1..Len(events)})
    BY DEF RowsTyped, RowNumbers
<1>3. Len(events) \in Nat
    BY <1>2, LenProperties
<1>4. /\ events' \in Seq({events'[k] : k \in 1..Len(events')})
      /\ Len(events') = Len(events) + 1
      /\ events'[Len(events) + 1] = row
      /\ \A k \in 1..Len(events) : events'[k] = events[k]
    <2> HIDE DEF row
    <2> QED
        BY <1>1, <1>2, AppendRow DEF row
<1>5. created \in Nat
    BY <1>3 DEF ClockReadings
<1>6. /\ row.chain = chain
      /\ row.key = key
      /\ row.boundary = boundary
      /\ row.created = created
    BY DEF NewRow
<1>7. RowsTyped'
    <2> HIDE DEF row
    <2>1. \A k \in 1..Len(events') :
             /\ events'[k].chain \in Chains
             /\ events'[k].key \in Keys
             /\ events'[k].boundary \in Nat
             /\ events'[k].created \in Nat
        <3> TAKE k \in 1..Len(events')
        <3>1. CASE k = Len(events) + 1
            BY <3>1, <1>4, <1>5, <1>6
        <3>2. CASE k \in 1..Len(events)
            BY <3>2, <1>4 DEF RowsTyped, RowNumbers
        <3> QED
            BY <3>1, <3>2, <1>3, <1>4
    <2> QED
        BY <2>1, <1>4 DEF RowsTyped, RowNumbers
<1>8. dedup' = [dedup EXCEPT ![key] = Len(events) + 1]
    BY DEF InsertRawEvent, NextSequence
<1>9. dedup' \in [Keys -> 0..Len(events')]
    BY <1>3, <1>4, <1>8
<1> QED
    BY <1>3, <1>4, <1>7, <1>8, <1>9

\* A step that inserts one event, under an identity that is not reserved.
Inserts ==
    \E key \in Keys, chain \in Chains, boundary \in Nat :
        /\ InsertRawEvent(key, chain, boundary)
        /\ chain = (IF key \in Identities THEN ChainOf[key] ELSE BoundaryChain)
        /\ dedup[key] = 0
        /\ key \in Boundaries => boundary = Len(events)
        /\ calls' = calls

\* Every step either inserts one event or leaves the event tables alone.
LEMMA InsertOrNot ==
    ASSUME RowsTyped, [Next]_vars
    PROVE  Inserts \/ UNCHANGED <<events, dedup>>
<1>1. ASSUME NEW w \in Writers, NEW i \in Identities, AppendRawEvent(w, i)
      PROVE  Inserts
    <2>1. i \in Keys /\ i \notin Boundaries /\ ChainOf[i] \in Chains /\ 0 \in Nat
        BY LedgerAssumption DEF Keys
    <2> QED
        BY <1>1, <2>1 DEF AppendRawEvent, Inserts
<1>2. ASSUME NEW w \in Writers, NEW b \in Boundaries,
             AppendAcceptanceBoundaryMarker(w, b)
      PROVE  Inserts
    <2>1. Len(events) \in Nat
        BY LenProperties DEF RowsTyped
    <2>2. /\ b \in Keys
          /\ b \notin Identities
          /\ BoundaryChain \in Chains
          /\ NextSequence - 1 = Len(events)
        BY <2>1, LedgerAssumption DEF Keys, NextSequence
    <2> QED
        BY <1>2, <2>1, <2>2 DEF AppendAcceptanceBoundaryMarker, Inserts
<1>3. ASSUME NEW w \in Writers, Handle(w)
      PROVE  Inserts \/ UNCHANGED <<events, dedup>>
    BY <1>1, <1>2, <1>3
    DEF Handle, SuppressDuplicate, SkipNormalization, RecordModelCall,
        RejectModelCall, RejectOverflow, Respond, Close, ledgerVars
<1>4. ASSUME NEW w \in Writers, NEW delivery, Open(w, delivery)
      PROVE  UNCHANGED <<events, dedup>>
    BY <1>4 DEF Open, ledgerVars
<1>5. ASSUME NEW w \in Writers, BeginAcceptanceBoundary(w) \/ Crash(w)
      PROVE  UNCHANGED <<events, dedup>>
    BY <1>5 DEF BeginAcceptanceBoundary, Crash, ledgerVars
<1>6. CASE UNCHANGED vars
    BY <1>6 DEF vars
<1>7. CASE Next
    BY <1>3, <1>4, <1>5, <1>7 DEF Next
<1> QED
    BY <1>6, <1>7

\* A process that goes away leaves typed local state.
LEMMA ExitTyped ==
    ASSUME TypeOK, NEW w \in Writers, Exit(w), UNCHANGED <<ledgerVars, acked>>,
           crashes' \in 0..MaxCrashes
    PROVE  TypeOK'
<1>1. Len(events) \in Nat
    BY LenProperties DEF TypeOK, RowsTyped
<1>2. RowsTyped'
    BY DEF TypeOK, RowsTyped, RowNumbers, ledgerVars
<1>3. TablesTyped'
    BY DEF TypeOK, TablesTyped, RowNumbers, CallNumbers, ledgerVars
<1>4. WritersTyped'
    BY <1>1 DEF TypeOK, WritersTyped, Exit, States, ledgerVars
<1> QED
    BY <1>2, <1>3, <1>4 DEF TypeOK

\* A step that leaves the tables alone only has to keep the writers typed.
LEMMA TablesStayTyped ==
    ASSUME TypeOK, UNCHANGED ledgerVars, WritersTyped'
    PROVE  TypeOK'
<1>1. RowsTyped'
    BY DEF TypeOK, RowsTyped, RowNumbers, ledgerVars
<1>2. TablesTyped'
    BY DEF TypeOK, TablesTyped, RowNumbers, CallNumbers, ledgerVars
<1> QED
    BY <1>1, <1>2 DEF TypeOK

\* The empty ledger is typed, and every handler is idle.
LEMMA InitTyped == ASSUME Init PROVE TypeOK
<1>1. events = <<>> /\ Len(events) = 0 /\ events \in Seq({events[k] : k \in RowNumbers})
    BY DEF Init, RowNumbers
<1>2. RowsTyped /\ TablesTyped
    BY <1>1 DEF Init, RowsTyped, TablesTyped, RowNumbers, CallNumbers
<1>3. WritersTyped
    BY <1>1, LedgerAssumption DEF Init, WritersTyped, States
<1> QED
    BY <1>2, <1>3 DEF TypeOK

\* Every step of a handler, of the source or of the clock keeps the types.
LEMMA NextTyped == ASSUME TypeOK, [Next]_vars PROVE TypeOK'
<1>1. Len(events) \in Nat
    BY LenProperties DEF TypeOK, RowsTyped
<1>2. ASSUME NEW w \in Writers, NEW delivery \in (SUBSET Identities) \ {{}},
             Open(w, delivery)
      PROVE  TypeOK'
    <2>1. WritersTyped'
        BY <1>2 DEF TypeOK, WritersTyped, Open, States, ledgerVars
    <2> QED
        BY <1>2, <2>1, TablesStayTyped DEF Open
<1>3. ASSUME NEW w \in Writers, Close(w) PROVE TypeOK'
    <2>1. crashes' \in 0..MaxCrashes
        BY <1>3 DEF Close, TypeOK, WritersTyped
    <2> QED
        BY <1>3, <2>1, ExitTyped DEF Close
<1>4. ASSUME NEW w \in Writers, Crash(w) PROVE TypeOK'
    <2>1. crashes' \in 0..MaxCrashes
        BY <1>4, LedgerAssumption DEF Crash, TypeOK, WritersTyped
    <2> QED
        BY <1>4, <2>1, ExitTyped DEF Crash
<1>5. ASSUME NEW w \in Writers, NEW i \in Identities, AppendRawEvent(w, i)
      PROVE  TypeOK'
    <2>1. i \in Keys /\ ChainOf[i] \in Chains /\ 0 \in Nat
        BY LedgerAssumption DEF Keys
    <2>2. /\ RowsTyped'
          /\ Len(events') = Len(events) + 1
          /\ dedup' \in [Keys -> 0..Len(events')]
        BY <1>5, <2>1, InsertedRow DEF AppendRawEvent, TypeOK, TablesTyped
    <2>3. TablesTyped'
        BY <1>1, <1>5, <2>2 DEF TypeOK, TablesTyped, RowNumbers, CallNumbers, AppendRawEvent
    <2>4. WritersTyped'
        BY <1>1, <1>5, <2>2
        DEF TypeOK, WritersTyped, AppendRawEvent, NextSequence, States
    <2> QED
        BY <2>2, <2>3, <2>4 DEF TypeOK
<1>6. ASSUME NEW w \in Writers, NEW i \in Identities, SuppressDuplicate(w, i)
      PROVE  TypeOK'
    <2>1. dedup[i] \in 0..Len(events)
        BY DEF TypeOK, TablesTyped, Keys
    <2>2. WritersTyped'
        BY <1>6, <2>1 DEF TypeOK, WritersTyped, SuppressDuplicate, States, ledgerVars
    <2> QED
        BY <1>6, <2>2, TablesStayTyped DEF SuppressDuplicate
<1>7. ASSUME NEW w \in Writers,
             SkipNormalization(w) \/ RejectModelCall(w) \/ Respond(w)
      PROVE  TypeOK'
    <2>1. WritersTyped'
        BY <1>7 DEF TypeOK, WritersTyped, SkipNormalization, RejectModelCall,
                    Respond, States, ledgerVars
    <2> QED
        BY <1>7, <2>1, TablesStayTyped DEF SkipNormalization, RejectModelCall, Respond
<1>8. ASSUME NEW w \in Writers, NEW tokens \in TokenCounts, RecordModelCall(w, tokens)
      PROVE  TypeOK'
    <2>1. RowsTyped'
        BY <1>8 DEF TypeOK, RowsTyped, RowNumbers, RecordModelCall
    <2> DEFINE call == [raw |-> raw[w], tokens |-> tokens]
    <2>2. call \in [raw : Nat, tokens : Nat] /\ call.raw \in RowNumbers
        BY <1>1, <1>8, LedgerAssumption
        DEF TypeOK, WritersTyped, RowNumbers, RecordModelCall, PendingCall
    <2>3. TablesTyped'
        <3>1. calls \in Seq([raw : Nat, tokens : Nat])
            BY DEF TypeOK, TablesTyped
        <3>2. calls' = Append(calls, call) /\ events' = events /\ dedup' = dedup
            BY <1>8 DEF RecordModelCall
        <3> HIDE DEF call
        <3>3. calls' \in Seq([raw : Nat, tokens : Nat])
            BY <2>2, <3>1, <3>2
        <3>4. /\ Len(calls) \in Nat
              /\ Len(calls') = Len(calls) + 1
              /\ calls'[Len(calls) + 1] = call
              /\ \A c \in 1..Len(calls) : calls'[c] = calls[c]
            BY <3>1, <3>2, <2>2
        <3>5. \A c \in 1..Len(calls') : c = Len(calls) + 1 \/ c \in 1..Len(calls)
            BY <3>4
        <3> QED
            BY <2>2, <3>2, <3>3, <3>4, <3>5
            DEF TypeOK, TablesTyped, RowNumbers, CallNumbers
    <2>4. WritersTyped'
        BY <1>8 DEF TypeOK, WritersTyped, RecordModelCall, States
    <2> QED
        BY <2>1, <2>3, <2>4 DEF TypeOK
<1>9. ASSUME NEW w \in Writers, NEW tokens \in TokenCounts, RejectOverflow(w, tokens)
      PROVE  TypeOK'
    <2>1. WritersTyped'
        BY <1>9 DEF TypeOK, WritersTyped, RejectOverflow, States, ledgerVars
    <2> QED
        BY <1>9, <2>1, TablesStayTyped DEF RejectOverflow
<1>10. ASSUME NEW w \in Writers, BeginAcceptanceBoundary(w) PROVE TypeOK'
    <2>1. WritersTyped'
        BY <1>1, <1>10 DEF TypeOK, WritersTyped, BeginAcceptanceBoundary,
                           CurrentRawEventSequence, States, ledgerVars
    <2> QED
        BY <1>10, <2>1, TablesStayTyped DEF BeginAcceptanceBoundary
<1>11. ASSUME NEW w \in Writers, NEW b \in Boundaries,
              AppendAcceptanceBoundaryMarker(w, b)
       PROVE  TypeOK'
    <2>1. b \in Keys /\ BoundaryChain \in Chains /\ NextSequence - 1 \in Nat
        BY <1>1, LedgerAssumption DEF Keys, NextSequence
    <2>2. /\ RowsTyped'
          /\ Len(events') = Len(events) + 1
          /\ dedup' \in [Keys -> 0..Len(events')]
        BY <1>11, <2>1, InsertedRow
        DEF AppendAcceptanceBoundaryMarker, TypeOK, TablesTyped
    <2>3. TablesTyped'
        BY <1>1, <1>11, <2>2
        DEF TypeOK, TablesTyped, RowNumbers, CallNumbers,
            AppendAcceptanceBoundaryMarker
    <2>4. WritersTyped'
        BY <1>1, <1>11, <2>2
        DEF TypeOK, WritersTyped, AppendAcceptanceBoundaryMarker, States
    <2> QED
        BY <2>2, <2>3, <2>4 DEF TypeOK
<1>12. CASE UNCHANGED vars
    <2>1. WritersTyped'
        BY <1>12 DEF TypeOK, WritersTyped, vars
    <2> QED
        BY <1>12, <2>1, TablesStayTyped DEF vars, ledgerVars
<1> QED
    BY <1>2, <1>3, <1>4, <1>5, <1>6, <1>7, <1>8, <1>9, <1>10, <1>11, <1>12
    DEF Next, Handle

\* Every variable keeps its type, for any number of writers, events, chains
\* and crashes; a handler that normalises always holds a stored row.
THEOREM TypeCorrect == Spec => []TypeOK
<1>1. Init => TypeOK
    BY InitTyped
<1>2. TypeOK /\ [Next]_vars => TypeOK'
    BY NextTyped
<1> QED
    BY <1>1, <1>2, PTL DEF Spec

-----------------------------------------------------------------------------
(* Writers exclude each other, identities are stored once.                 *)

\* At most one process is past Open: the writer lock is held until it exits.
OneWriter ==
    \A v \in Writers, w \in Writers :
        pc[v] # "closed" /\ pc[w] # "closed" => v = w

\* A marker knows the position below its own row, rows are numbered in order,
\* and a process that has read the position still knows the end of the ledger.
BoundaryPositions ==
    /\ \A k \in RowNumbers :
          /\ events[k].seq = k
          /\ events[k].key \in Boundaries => events[k].boundary = k - 1
    /\ \A w \in Writers : pc[w] = "boundary" => position[w] = Len(events)

\* A step that closes w or moves it on while it is open.
LEMMA OneWriterKept ==
    ASSUME TypeOK, OneWriter, NEW w \in Writers, NEW state \in States,
           pc' = [pc EXCEPT ![w] = state],
           state = "closed" \/ pc[w] # "closed" \/ WriterLockFree
    PROVE  OneWriter'
BY DEF TypeOK, WritersTyped, OneWriter, WriterLockFree

\* Only a handler that finds the lock free gets it, and it gives it back in the
\* step that makes it idle.
LEMMA OneWriterStep == ASSUME TypeOK, OneWriter, [Next]_vars PROVE OneWriter'
<1>1. ASSUME NEW w \in Writers, NEW delivery, Open(w, delivery) PROVE OneWriter'
    BY <1>1, OneWriterKept DEF Open, States
<1>2. ASSUME NEW w \in Writers, BeginAcceptanceBoundary(w) PROVE OneWriter'
    BY <1>2, OneWriterKept DEF BeginAcceptanceBoundary, States
<1>3. ASSUME NEW w \in Writers, Close(w) \/ Crash(w) PROVE OneWriter'
    BY <1>3, OneWriterKept DEF Close, Crash, Exit, States
<1>4. ASSUME NEW w \in Writers, NEW i \in Identities,
             AppendRawEvent(w, i) \/ SuppressDuplicate(w, i)
      PROVE  OneWriter'
    BY <1>4, OneWriterKept DEF AppendRawEvent, SuppressDuplicate, States
<1>5. ASSUME NEW w \in Writers,
             SkipNormalization(w) \/ RejectModelCall(w) \/ Respond(w)
      PROVE  OneWriter'
    BY <1>5, OneWriterKept
    DEF SkipNormalization, RejectModelCall, Respond, PendingCall, States
<1>6. ASSUME NEW w \in Writers, NEW tokens,
             RecordModelCall(w, tokens) \/ RejectOverflow(w, tokens)
      PROVE  OneWriter'
    BY <1>6, OneWriterKept DEF RecordModelCall, RejectOverflow, PendingCall, States
<1>7. ASSUME NEW w \in Writers, NEW b, AppendAcceptanceBoundaryMarker(w, b)
      PROVE  OneWriter'
    BY <1>7, OneWriterKept DEF AppendAcceptanceBoundaryMarker, States
<1>8. CASE UNCHANGED vars
    BY <1>8 DEF vars, OneWriter
<1> QED
    BY <1>1, <1>2, <1>3, <1>4, <1>5, <1>6, <1>7, <1>8 DEF Next, Handle

\* What one inserted event changes: it takes the next row, every other row
\* stays, and its identity now points to it.
LEMMA OneRowMore ==
    ASSUME TypeOK, Inserts
    PROVE  \E key \in Keys :
              /\ Len(events) \in Nat
              /\ Len(events') = Len(events) + 1
              /\ \A k \in 1..Len(events) : events'[k] = events[k]
              /\ events'[Len(events) + 1].key = key
              /\ events'[Len(events) + 1].seq = Len(events) + 1
              /\ key \in Boundaries =>
                    events'[Len(events) + 1].boundary = Len(events)
              /\ dedup[key] = 0
              /\ dedup' = [dedup EXCEPT ![key] = Len(events) + 1]
              /\ calls' = calls
<1>1. PICK key \in Keys, chain \in Chains, boundary \in Nat :
         /\ InsertRawEvent(key, chain, boundary)
         /\ dedup[key] = 0
         /\ key \in Boundaries => boundary = Len(events)
         /\ calls' = calls
    BY DEF Inserts
<1>2. /\ Len(events) \in Nat
      /\ Len(events') = Len(events) + 1
      /\ \A k \in 1..Len(events) : events'[k] = events[k]
      /\ dedup' = [dedup EXCEPT ![key] = Len(events) + 1]
      /\ \E created \in ClockReadings, prev \in PreviousHashes(chain) :
            events'[Len(events) + 1] = NewRow(key, chain, boundary, created, prev)
    BY <1>1, InsertedRow DEF TypeOK, TablesTyped
<1>3. /\ events'[Len(events) + 1].key = key
      /\ events'[Len(events) + 1].boundary = boundary
      /\ events'[Len(events) + 1].seq = Len(events) + 1
    BY <1>2 DEF NewRow, NextSequence
<1> QED
    BY <1>1, <1>2, <1>3

\* A row is inserted only when no row of its session has its identity.
LEMMA DedupStep ==
    ASSUME TypeOK, DedupMatchesLedger, [Next]_vars
    PROVE  DedupMatchesLedger'
<1>1. CASE UNCHANGED <<events, dedup>>
    BY <1>1 DEF DedupMatchesLedger, RowNumbers
<1>2. CASE Inserts
    <2>1. PICK key \in Keys :
             /\ Len(events) \in Nat
             /\ Len(events') = Len(events) + 1
             /\ \A k \in 1..Len(events) : events'[k] = events[k]
             /\ events'[Len(events) + 1].key = key
             /\ dedup[key] = 0
             /\ dedup' = [dedup EXCEPT ![key] = Len(events) + 1]
        BY <1>2, OneRowMore
    <2>2. ASSUME NEW k \in 1..Len(events') PROVE dedup'[events'[k].key] = k
        <3>1. CASE k = Len(events) + 1
            BY <3>1, <2>1 DEF TypeOK, TablesTyped
        <3>2. CASE k \in 1..Len(events)
            <4>1. dedup[events[k].key] = k /\ events[k].key \in Keys
                BY <3>2 DEF DedupMatchesLedger, TypeOK, RowsTyped, RowNumbers
            <4>2. events[k].key # key
                BY <4>1, <3>2, <2>1
            <4> QED
                BY <4>1, <4>2, <3>2, <2>1 DEF TypeOK, TablesTyped
        <3> QED
            BY <3>1, <3>2, <2>1
    <2>3. ASSUME NEW other \in Keys, dedup'[other] # 0
          PROVE  events'[dedup'[other]].key = other
        <3>1. CASE other = key
            BY <3>1, <2>1 DEF TypeOK, TablesTyped
        <3>2. CASE other # key
            <4>1. dedup'[other] = dedup[other] /\ dedup[other] \in 1..Len(events)
                BY <3>2, <2>3, <2>1 DEF TypeOK, TablesTyped
            <4> QED
                BY <4>1, <2>1 DEF DedupMatchesLedger
        <3> QED
            BY <3>1, <3>2
    <2> QED
        BY <2>2, <2>3 DEF DedupMatchesLedger, RowNumbers
<1> QED
    BY <1>1, <1>2, InsertOrNot DEF TypeOK

-----------------------------------------------------------------------------
(* Usage is counted once.                                                  *)

\* A step that adds no call keeps CountedOnce: the rows that the calls refer
\* to are still there.
LEMMA SameCallsCountedOnce ==
    ASSUME TypeOK, CountedOnce, [Next]_vars, calls' = calls
    PROVE  CountedOnce'
<1>1. \A k \in 1..Len(events) : events'[k] = events[k]
    BY InsertOrNot, OneRowMore DEF TypeOK
<1>2. \A c \in CallNumbers : calls[c].raw \in 1..Len(events)
    BY DEF TypeOK, TablesTyped, RowNumbers
<1> QED
    BY <1>1, <1>2 DEF CountedOnce, CallNumbers

\* A recorded call goes to the end of the table, the others stay.
LEMMA CallRecorded ==
    ASSUME TypeOK, NEW w \in Writers, NEW tokens \in TokenCounts,
           RecordModelCall(w, tokens)
    PROVE  /\ Len(calls) \in Nat
           /\ Len(calls') = Len(calls) + 1
           /\ calls'[Len(calls) + 1].raw = raw[w]
           /\ \A c \in 1..Len(calls) : calls'[c] = calls[c]
<1> DEFINE call == [raw |-> raw[w], tokens |-> tokens]
<1>1. calls' = Append(calls, call)
    BY DEF RecordModelCall
<1>2. calls \in Seq([raw : Nat, tokens : Nat]) /\ call.raw = raw[w]
    BY DEF TypeOK, TablesTyped
<1> HIDE DEF call
<1> QED
    BY <1>1, <1>2

\* No other step touches the model calls.
LEMMA OnlyRecordModelCallCounts ==
    ASSUME [Next]_vars
    PROVE  \/ calls' = calls
           \/ \E w \in Writers, tokens \in TokenCounts : RecordModelCall(w, tokens)
<1>1. SUFFICES ASSUME ~ \E w \in Writers, tokens \in TokenCounts :
                           RecordModelCall(w, tokens)
               PROVE  calls' = calls
    OBVIOUS
<1>2. ASSUME NEW w \in Writers, Handle(w) PROVE calls' = calls
    BY <1>1, <1>2
    DEF Handle, AppendRawEvent, SuppressDuplicate, SkipNormalization,
        RejectModelCall, RejectOverflow, Respond, Close, ledgerVars,
        AppendAcceptanceBoundaryMarker
<1>3. ASSUME NEW w \in Writers, NEW delivery, Open(w, delivery)
      PROVE  calls' = calls
    BY <1>3 DEF Open, ledgerVars
<1>4. ASSUME NEW w \in Writers, BeginAcceptanceBoundary(w) \/ Crash(w)
      PROVE  calls' = calls
    BY <1>4 DEF BeginAcceptanceBoundary, Crash, ledgerVars
<1> QED
    BY <1>2, <1>3, <1>4 DEF Next, vars

\* A call is recorded for the raw event a handler holds, and only if there is
\* none; no other handler runs meanwhile.
LEMMA CountedOnceStep ==
    ASSUME TypeOK, CountedOnce, [Next]_vars
    PROVE  CountedOnce'
<1>1. ASSUME NEW w \in Writers, NEW tokens \in TokenCounts, RecordModelCall(w, tokens)
      PROVE  CountedOnce'
    <2>1. /\ events' = events
          /\ \A c \in 1..Len(calls) : calls[c].raw # raw[w]
          /\ events[raw[w]].key \in ModelCalls \ Malformed
        BY <1>1 DEF RecordModelCall, PendingCall, HasModelCallForRawEvent
    <2>2. /\ Len(calls) \in Nat
          /\ Len(calls') = Len(calls) + 1
          /\ calls'[Len(calls) + 1].raw = raw[w]
          /\ \A c \in 1..Len(calls) : calls'[c] = calls[c]
        BY <1>1, CallRecorded
    <2>3. \A c \in 1..Len(calls') : c = Len(calls) + 1 \/ c \in 1..Len(calls)
        BY <2>2
    <2>4. ASSUME NEW c \in 1..Len(calls'), NEW d \in 1..Len(calls'),
                 calls'[c].raw = calls'[d].raw
          PROVE  c = d
        BY <2>1, <2>2, <2>3, <2>4 DEF CountedOnce, CallNumbers
    <2>5. ASSUME NEW c \in 1..Len(calls')
          PROVE  events'[calls'[c].raw].key \in ModelCalls \ Malformed
        BY <2>1, <2>2, <2>3 DEF CountedOnce, CallNumbers
    <2> QED
        BY <2>4, <2>5 DEF CountedOnce, CallNumbers
<1>2. CASE calls' = calls
    BY <1>2, SameCallsCountedOnce
<1> QED
    BY <1>1, <1>2, OnlyRecordModelCallCounts

-----------------------------------------------------------------------------
(* Acceptance boundaries.                                                  *)

\* The row inserted for a boundary stores the position just below its own.
LEMMA MarkerPositions ==
    ASSUME TypeOK, BoundaryPositions, [Next]_vars
    PROVE  \A k \in 1..Len(events') :
              /\ events'[k].seq = k
              /\ events'[k].key \in Boundaries => events'[k].boundary = k - 1
<1>1. CASE UNCHANGED <<events, dedup>>
    BY <1>1 DEF BoundaryPositions, RowNumbers
<1>2. CASE Inserts
    <2>1. /\ Len(events) \in Nat
          /\ Len(events') = Len(events) + 1
          /\ \A k \in 1..Len(events) : events'[k] = events[k]
          /\ events'[Len(events) + 1].seq = Len(events) + 1
          /\ events'[Len(events) + 1].key \in Boundaries =>
                events'[Len(events) + 1].boundary = Len(events)
        BY <1>2, OneRowMore
    <2> QED
        BY <2>1 DEF BoundaryPositions, RowNumbers
<1> QED
    BY <1>1, <1>2, InsertOrNot DEF TypeOK

\* While a process holds a position nobody else can append, and it moves on as
\* soon as it appends its own marker.
LEMMA PositionHeld ==
    ASSUME TypeOK, OneWriter, BoundaryPositions, [Next]_vars,
           NEW v \in Writers, pc'[v] = "boundary"
    PROVE  position'[v] = Len(events')
<1>1. ASSUME NEW w \in Writers, BeginAcceptanceBoundary(w)
      PROVE  position'[v] = Len(events')
    <2>1. pc[v] = "closed" /\ events' = events
        BY <1>1 DEF BeginAcceptanceBoundary, WriterLockFree, ledgerVars
    <2>2. v = w
        BY <1>1, <2>1 DEF BeginAcceptanceBoundary, TypeOK, WritersTyped
    <2> QED
        BY <1>1, <2>1, <2>2
        DEF BeginAcceptanceBoundary, CurrentRawEventSequence, TypeOK, WritersTyped
<1>2. ASSUME NEW w \in Writers, Close(w) \/ Crash(w)
      PROVE  position'[v] = Len(events')
    <2>1. v # w /\ pc'[v] = pc[v] /\ position'[v] = position[v] /\ events' = events
        BY <1>2 DEF Close, Crash, Exit, ledgerVars, TypeOK, WritersTyped
    <2> QED
        BY <2>1 DEF BoundaryPositions
<1>3. ASSUME NEW w \in Writers, NEW i, AppendRawEvent(w, i) PROVE FALSE
    <2>1. pc[v] = "boundary" /\ pc[w] = "open"
        BY <1>3 DEF AppendRawEvent, TypeOK, WritersTyped
    <2> QED
        BY <2>1 DEF OneWriter
<1>4. ASSUME NEW w \in Writers, NEW b, AppendAcceptanceBoundaryMarker(w, b)
      PROVE  FALSE
    <2>1. pc[w] = "boundary" /\ v # w /\ pc[v] = "boundary"
        BY <1>4 DEF AppendAcceptanceBoundaryMarker, TypeOK, WritersTyped
    <2> QED
        BY <2>1 DEF OneWriter
<1>5. ASSUME NEW w \in Writers, Handle(w) PROVE position'[v] = Len(events')
    <2>1. CASE Close(w)
        BY <1>2, <2>1
    <2>2. CASE ~ Close(w)
        <3>1. events' = events /\ position' = position /\ pc[v] = "boundary"
            BY <1>3, <1>4, <1>5, <2>2
            DEF Handle, SuppressDuplicate, SkipNormalization, RecordModelCall,
                RejectModelCall, RejectOverflow, Respond, ledgerVars, TypeOK,
                WritersTyped
        <3> QED
            BY <3>1 DEF BoundaryPositions
    <2> QED
        BY <2>1, <2>2
<1>6. ASSUME NEW w \in Writers, NEW delivery, Open(w, delivery)
      PROVE  position'[v] = Len(events')
    <2>1. events' = events /\ position' = position /\ pc[v] = "boundary"
        BY <1>6 DEF Open, ledgerVars, TypeOK, WritersTyped
    <2> QED
        BY <2>1 DEF BoundaryPositions
<1>7. CASE UNCHANGED vars
    BY <1>7 DEF vars, BoundaryPositions
<1> QED
    BY <1>1, <1>2, <1>5, <1>6, <1>7 DEF Next

\* A marker is appended at the position that was read under the same lock.
LEMMA BoundaryStep ==
    ASSUME TypeOK, OneWriter, BoundaryPositions, [Next]_vars
    PROVE  BoundaryPositions'
BY MarkerPositions, PositionHeld DEF BoundaryPositions, RowNumbers

\* Event numbers grow, so what is numbered after the position of a marker is
\* what was appended after it.
LEMMA PositionsGiveBoundaries ==
    ASSUME TypeOK, BoundaryPositions
    PROVE  BoundaryIsExact
<1>1. Len(events) \in Nat
    BY LenProperties DEF TypeOK, RowsTyped
<1>2. ASSUME NEW k \in RowNumbers, events[k].key \in Boundaries
      PROVE  RawEventIDsAfterAcceptanceBoundary(k) =
                {j \in (k + 1)..Len(events) : events[j].key \in Identities}
    <2>1. events[k].boundary = k - 1 /\ \A j \in RowNumbers : events[j].seq = j
        BY <1>2 DEF BoundaryPositions
    <2>2. \A j \in RowNumbers :
             events[j].key \notin Boundaries <=> events[j].key \in Identities
        BY LedgerAssumption DEF TypeOK, RowsTyped, Keys
    <2>3. \A j \in RowNumbers : j > k - 1 /\ j # k <=> j \in (k + 1)..Len(events)
        BY <1>1 DEF RowNumbers
    <2>4. \A j \in (k + 1)..Len(events) : j \in RowNumbers
        BY <1>1 DEF RowNumbers
    <2> QED
        BY <1>2, <2>1, <2>2, <2>3, <2>4
        DEF RawEventIDsAfterAcceptanceBoundary, RowNumbers
<1> QED
    BY <1>2 DEF BoundaryIsExact, BoundaryPositions

-----------------------------------------------------------------------------
(* The inductive invariant and what it gives.                              *)

Inv ==
    /\ TypeOK
    /\ OneWriter
    /\ DedupMatchesLedger
    /\ CountedOnce
    /\ BoundaryPositions

\* The empty ledger satisfies the inductive invariant.
LEMMA InitInv == ASSUME Init PROVE Inv
<1>1. TypeOK
    BY InitTyped
<1>2. Len(events) = 0 /\ RowNumbers = {}
    BY DEF Init, RowNumbers
<1> QED
    BY <1>1, <1>2
    DEF Inv, Init, OneWriter, DedupMatchesLedger, CountedOnce, CallNumbers,
        BoundaryPositions

\* Every step preserves the inductive invariant.
LEMMA NextInv == ASSUME Inv, [Next]_vars PROVE Inv'
BY NextTyped, OneWriterStep, DedupStep, CountedOnceStep, BoundaryStep DEF Inv

\* The inductive invariant holds in every reachable state.
LEMMA InvAlways == Spec => []Inv
<1>1. Init => Inv
    BY InitInv
<1>2. Inv /\ [Next]_vars => Inv'
    BY NextInv
<1> QED
    BY <1>1, <1>2, PTL DEF Spec

\* However often an event is delivered and wherever its writers crash, it is
\* stored at most once and never suppressed without being stored.
THEOREM StoredOnce == Spec => []DedupMatchesLedger
<1>1. Inv => DedupMatchesLedger
    BY DEF Inv
<1> QED
    BY <1>1, InvAlways, PTL

\* No raw event is ever counted twice, and none that failed validation.
THEOREM UsageCountedOnce == Spec => []CountedOnce
<1>1. Inv => CountedOnce
    BY DEF Inv
<1> QED
    BY <1>1, InvAlways, PTL

\* The events after an acceptance boundary are exactly those appended after it
\* was taken.
THEOREM BoundariesAreExact == Spec => []BoundaryIsExact
<1>1. Inv => BoundaryIsExact
    BY PositionsGiveBoundaries DEF Inv
<1> QED
    BY <1>1, InvAlways, PTL

\* No step changes or removes a raw event or a model call.
THEOREM NothingIsRewritten == Spec => AppendOnly
<1>1. ASSUME TypeOK, [Next]_vars
      PROVE  /\ Len(events) <= Len(events')
             /\ \A k \in RowNumbers : events'[k] = events[k]
    <2>1. Len(events) \in Nat
        BY <1>1, LenProperties DEF TypeOK, RowsTyped
    <2> QED
        BY <1>1, <2>1, InsertOrNot, OneRowMore DEF TypeOK, RowNumbers
<1>2. ASSUME TypeOK, [Next]_vars
      PROVE  Len(calls) <= Len(calls') /\ \A c \in CallNumbers : calls'[c] = calls[c]
    <2>1. Len(calls) \in Nat
        BY <1>2, LenProperties DEF TypeOK, TablesTyped
    <2>2. ASSUME NEW w \in Writers, NEW tokens \in TokenCounts, RecordModelCall(w, tokens)
          PROVE  /\ Len(calls) <= Len(calls')
                 /\ \A c \in CallNumbers : calls'[c] = calls[c]
        BY <1>2, <2>1, <2>2, CallRecorded DEF CallNumbers
    <2>3. CASE calls' = calls
        BY <2>1, <2>3
    <2> QED
        BY <1>2, <2>2, <2>3, OnlyRecordModelCallCounts
<1>3. TypeOK /\ [Next]_vars =>
         [/\ Len(events) <= Len(events')
          /\ \A k \in RowNumbers : events'[k] = events[k]
          /\ Len(calls) <= Len(calls')
          /\ \A c \in CallNumbers : calls'[c] = calls[c]]_vars
    BY <1>1, <1>2
<1> QED
    BY <1>3, TypeCorrect, PTL DEF Spec, AppendOnly

-----------------------------------------------------------------------------
(* The hash chain.                                                         *)

\* Every row continues the sequence and its chain, the creation times follow
\* the sequence, and a chain with rows has a head.
ChainInv ==
    /\ \A k \in RowNumbers :
          /\ events[k].seq = k
          /\ events[k].created = k
          /\ HashMatches(events, k)
          /\ PreviousHashMatches(events, k)
    /\ \A chain \in Chains : RowsOf(events, chain) # {} => Heads(events, chain) # {}

\* Rows that stay keep what is said of them and of the rows before them.
LEMMA EarlierRowsStay ==
    ASSUME NEW rows, NEW new, NEW k \in Nat, \A j \in 1..k : new[j] = rows[j],
           k >= 1
    PROVE  /\ HashMatches(new, k) <=> HashMatches(rows, k)
           /\ PreviousHashMatches(new, k) <=> PreviousHashMatches(rows, k)
<1>1. Predecessors(new, k) = Predecessors(rows, k)
    BY DEF Predecessors
<1>2. \A j \in Predecessors(rows, k) : j \in 1..k
    BY DEF Predecessors
<1>3. k \in 1..k
    OBVIOUS
<1>4. HashMatches(new, k) <=> HashMatches(rows, k)
    BY <1>3 DEF HashMatches
<1>5. PreviousHashMatches(new, k) <=> PreviousHashMatches(rows, k)
    BY <1>1, <1>2, <1>3 DEF PreviousHashMatches
<1> QED
    BY <1>4, <1>5

\* The row an insertion adds is linked to the head of its chain.
LEMMA NewRowChains ==
    ASSUME TypeOK, ChainInv, ClockAdvances, Padded = {},
           NEW key \in Keys, NEW chain \in Chains, NEW boundary \in Nat,
           InsertRawEvent(key, chain, boundary)
    PROVE  LET n == Len(events) + 1
           IN  /\ events'[n].chain = chain
               /\ events'[n].seq = n
               /\ events'[n].created = n
               /\ HashMatches(events', n)
               /\ PreviousHashMatches(events', n)
<1> DEFINE n == Len(events) + 1
<1>1. /\ Len(events) \in Nat
      /\ \A k \in 1..Len(events) : events'[k] = events[k]
      /\ \E created \in ClockReadings, prev \in PreviousHashes(chain) :
            events'[n] = NewRow(key, chain, boundary, created, prev)
    BY InsertedRow DEF TypeOK, TablesTyped
<1>2. PICK created \in ClockReadings, prev \in PreviousHashes(chain) :
         events'[n] = NewRow(key, chain, boundary, created, prev)
    BY <1>1
<1>3. created = n
    BY DEF ClockReadings
<1>4. SourceVersion(key) = "trimmed"
    BY DEF SourceVersion
<1>5. /\ events'[n].chain = chain
      /\ events'[n].seq = n
      /\ events'[n].created = n
      /\ events'[n].prev = prev
    BY <1>2, <1>3 DEF NewRow, NextSequence
<1>6. HashMatches(events', n)
    BY <1>2, <1>4 DEF NewRow, NextSequence, HashMatches, TrimSpace
<1>7. Predecessors(events', n) = RowsOf(events, chain)
    <2>1. 1..(n - 1) = 1..Len(events)
        BY <1>1
    <2> QED
        BY <2>1, <1>1, <1>5 DEF Predecessors, RowsOf
<1>8. PreviousHashMatches(events', n)
    <2>1. CASE Heads(events, chain) = {}
        BY <2>1, <1>5, <1>7 DEF ChainInv, PreviousHashes, PreviousHashMatches
    <2>2. CASE Heads(events, chain) # {}
        <3>1. PICK j \in Heads(events, chain) : prev = events[j].hash
            BY <2>2 DEF PreviousHashes
        <3>2. /\ j \in RowsOf(events, chain)
              /\ \A i \in RowsOf(events, chain) : i <= j
            BY <3>1 DEF Heads, RowsOf, ChainInv, RowNumbers
        <3>3. j \in 1..Len(events)
            BY <3>2 DEF RowsOf
        <3> QED
            BY <3>1, <3>2, <3>3, <1>1, <1>5, <1>7 DEF PreviousHashMatches
    <2> QED
        BY <2>1, <2>2
<1> QED
    BY <1>5, <1>6, <1>8

\* Inserting keeps a head for every chain: the new row is the head of its own
\* chain, the heads of the others do not change.
LEMMA HeadsStay ==
    ASSUME TypeOK, ChainInv, NEW n, n = Len(events) + 1, Len(events) \in Nat,
           Len(events') = n, \A k \in 1..Len(events) : events'[k] = events[k],
           events'[n].created = n, NEW chain \in Chains,
           RowsOf(events', chain) # {}
    PROVE  Heads(events', chain) # {}
<1>1. CASE events'[n].chain = chain
    <2>1. \A j \in RowsOf(events', chain) : events'[j].created <= n
        BY DEF RowsOf, ChainInv, RowNumbers
    <2>2. n \in RowsOf(events', chain)
        BY <1>1 DEF RowsOf
    <2> QED
        BY <2>1, <2>2 DEF Heads
<1>2. CASE events'[n].chain # chain
    <2>1. RowsOf(events', chain) = RowsOf(events, chain)
        BY <1>2 DEF RowsOf
    <2>2. PICK k \in Heads(events, chain) : TRUE
        BY <2>1 DEF ChainInv
    <2>3. k \in Heads(events', chain)
        BY <2>1, <2>2 DEF Heads, RowsOf
    <2> QED
        BY <2>3
<1> QED
    BY <1>1, <1>2

\* With a clock that advances the row with the latest time is the last one of
\* its chain, so a new row is chained to the right one.
LEMMA ChainStep ==
    ASSUME TypeOK, ChainInv, ClockAdvances, Padded = {}, [Next]_vars
    PROVE  ChainInv'
<1>1. CASE UNCHANGED <<events, dedup>>
    BY <1>1 DEF ChainInv, RowNumbers, HashMatches, PreviousHashMatches,
                Predecessors, Heads, RowsOf
<1>2. CASE Inserts
    <2>1. PICK key \in Keys, chain \in Chains, boundary \in Nat :
             InsertRawEvent(key, chain, boundary)
        BY <1>2 DEF Inserts
    <2> DEFINE n == Len(events) + 1
    <2>2. /\ Len(events) \in Nat
          /\ Len(events') = n
          /\ \A k \in 1..Len(events) : events'[k] = events[k]
        BY <2>1, InsertedRow DEF TypeOK, TablesTyped
    <2>3. /\ events'[n].seq = n
          /\ events'[n].created = n
          /\ HashMatches(events', n)
          /\ PreviousHashMatches(events', n)
        BY <2>1, NewRowChains
    <2>4. ASSUME NEW k \in 1..Len(events)
          PROVE  /\ events'[k].seq = k
                 /\ events'[k].created = k
                 /\ HashMatches(events', k)
                 /\ PreviousHashMatches(events', k)
        <3>1. k \in Nat /\ k >= 1 /\ \A j \in 1..k : events'[j] = events[j]
            BY <2>2
        <3>2. /\ HashMatches(events', k) <=> HashMatches(events, k)
              /\ PreviousHashMatches(events', k) <=> PreviousHashMatches(events, k)
            BY <3>1, EarlierRowsStay
        <3> QED
            BY <3>2, <2>2 DEF ChainInv, RowNumbers
    <2>5. \A k \in 1..Len(events') : k = n \/ k \in 1..Len(events)
        BY <2>2
    <2>6. \A c \in Chains : RowsOf(events', c) # {} => Heads(events', c) # {}
        BY <2>2, <2>3, HeadsStay
    <2> HIDE DEF n
    <2>7. \A k \in 1..Len(events') :
             /\ events'[k].seq = k
             /\ events'[k].created = k
             /\ HashMatches(events', k)
             /\ PreviousHashMatches(events', k)
        BY <2>3, <2>4, <2>5
    <2> QED
        BY <2>6, <2>7 DEF ChainInv, RowNumbers, Heads, RowsOf, HashMatches,
                          PreviousHashMatches, Predecessors
<1> QED
    BY <1>1, <1>2, InsertOrNot DEF TypeOK

\* As long as every transaction reads a later clock than the one before it and
\* no source version is delivered with outer blanks, qlog verify accepts the
\* ledger after any history of writers, crashes and redeliveries.
THEOREM WrittenLedgerVerifies ==
    ASSUME ClockAdvances, Padded = {}
    PROVE  Spec => []LedgerVerifies
<1>1. Init => TypeOK /\ ChainInv
    <2>1. ASSUME Init PROVE RowNumbers = {} /\ \A chain : RowsOf(events, chain) = {}
        BY <2>1 DEF Init, RowNumbers, RowsOf
    <2> QED
        BY <2>1, InitTyped DEF ChainInv
<1>2. (TypeOK /\ ChainInv) /\ [Next]_vars => (TypeOK /\ ChainInv)'
    BY NextTyped, ChainStep
<1>3. TypeOK /\ ChainInv => LedgerVerifies
    <2>1. ASSUME TypeOK, ChainInv, NEW k \in 1..Len(events)
          PROVE  SequenceContinues(events, k)
        <3>1. Len(events) \in Nat
            BY <2>1, LenProperties DEF TypeOK, RowsTyped
        <3>2. events[k].seq = k
            BY <2>1 DEF ChainInv, RowNumbers
        <3>3. k # 1 => events[k - 1].seq = k - 1
            BY <2>1, <3>1 DEF ChainInv, RowNumbers
        <3> QED
            BY <3>1, <3>2, <3>3 DEF SequenceContinues
    <2> QED
        BY <2>1 DEF LedgerVerifies, VerifyLedger, ChainInv, RowNumbers
<1> QED
    BY <1>1, <1>2, <1>3, PTL DEF Spec

-----------------------------------------------------------------------------
(* Damage.  Whatever a row says is in its hash, and its number is its place. *)

RowShape(row) ==
    row = [chain |-> row.chain, key |-> row.key, version |-> row.version,
           boundary |-> row.boundary, seq |-> row.seq, created |-> row.created,
           prev |-> row.prev, hash |-> row.hash]

\* The hash of a row is one of its identity, its number and the position it marks.
Stamped(row) ==
    /\ RowShape(row)
    /\ \E version : row.hash = Digest(row.chain, row.key, version, row.boundary, row.seq,
                                      row.prev)

StampInv == \A k \in RowNumbers : Stamped(events[k]) /\ events[k].seq = k

LEMMA NewRowIsStamped ==
    ASSUME NEW key, NEW chain, NEW boundary, NEW created, NEW prev
    PROVE  LET row == NewRow(key, chain, boundary, created, prev)
           IN  Stamped(row) /\ row.seq = NextSequence
<1> DEFINE version == SourceVersion(key)
           trimmed == TrimSpace(version)
           next == NextSequence
           hash == Digest(chain, key, version, boundary, next, prev)
           row == [chain |-> chain, key |-> key, version |-> trimmed, boundary |-> boundary,
                   seq |-> next, created |-> created, prev |-> prev, hash |-> hash]
<1>1. NewRow(key, chain, boundary, created, prev) = row
    BY DEF NewRow
<1> HIDE DEF version, trimmed, next, hash
<1>2. /\ row.chain = chain /\ row.key = key /\ row.boundary = boundary /\ row.seq = next
      /\ row.prev = prev /\ row.hash = hash /\ RowShape(row)
    BY DEF RowShape
<1> HIDE DEF row
<1>3. Stamped(row)
    BY <1>2 DEF Stamped, hash
<1> QED
    BY <1>1, <1>2, <1>3 DEF next

LEMMA StampStep ==
    ASSUME TypeOK, StampInv, [Next]_vars
    PROVE  StampInv'
<1>1. CASE UNCHANGED <<events, dedup>>
    BY <1>1, Zenon DEF StampInv, RowNumbers
<1>2. CASE Inserts
    <2>1. PICK key \in Keys, chain \in Chains, boundary \in Nat :
             InsertRawEvent(key, chain, boundary)
        BY <1>2 DEF Inserts
    <2>2. /\ Len(events) \in Nat
          /\ Len(events') = Len(events) + 1
          /\ \A k \in 1..Len(events) : events'[k] = events[k]
          /\ \E created \in ClockReadings, prev \in PreviousHashes(chain) :
                events'[Len(events) + 1] = NewRow(key, chain, boundary, created, prev)
        BY <2>1, InsertedRow DEF TypeOK, TablesTyped
    <2>3. Stamped(events'[Len(events) + 1]) /\ events'[Len(events) + 1].seq = Len(events) + 1
        <3>1. PICK created, prev :
                 events'[Len(events) + 1] = NewRow(key, chain, boundary, created, prev)
            BY <2>2, Zenon
        <3> QED
            BY <3>1, NewRowIsStamped DEF NextSequence
    <2>4. \A k \in 1..Len(events') : k = Len(events) + 1 \/ k \in 1..Len(events)
        BY <2>2
    <2> QED
        BY <2>2, <2>3, <2>4, Zenon DEF StampInv, RowNumbers
<1> QED
    BY <1>1, <1>2, InsertOrNot DEF TypeOK

\* A change of what a stamped row says is a change of the row, and breaks its hash.
LEMMA ChangeBreaksHash ==
    ASSUME NEW rows, NEW row, Stamped(row), NEW k,
           \/ \E key : rows[k] = [row EXCEPT !.key = key] /\ rows[k] # row
           \/ row.boundary \in Nat /\ rows[k] = [row EXCEPT !.boundary = @ + 1]
           \/ \E seq : rows[k] = [row EXCEPT !.seq = seq] /\ seq # row.seq
    PROVE  ~ HashMatches(rows, k)
<1>1. PICK version : row.hash = Digest(row.chain, row.key, version, row.boundary, row.seq,
                                       row.prev)
    BY DEF Stamped
<1>2. RowShape(row)
    BY DEF Stamped
<1>3. ASSUME NEW key, rows[k] = [row EXCEPT !.key = key], rows[k] # row
      PROVE  ~ HashMatches(rows, k)
    <2>1. key # row.key
        BY <1>2, <1>3 DEF RowShape
    <2>2. rows[k].key = key /\ rows[k].hash = row.hash
        BY <1>2, <1>3 DEF RowShape
    <2> QED
        BY <1>1, <2>1, <2>2 DEF HashMatches, Digest
<1>4. ASSUME row.boundary \in Nat, rows[k] = [row EXCEPT !.boundary = @ + 1]
      PROVE  ~ HashMatches(rows, k)
    <2>1. rows[k].boundary = row.boundary + 1 /\ rows[k].hash = row.hash
        BY <1>2, <1>4 DEF RowShape
    <2>2. rows[k].boundary # row.boundary
        BY <1>4, <2>1
    <2> QED
        BY <1>1, <2>1, <2>2 DEF HashMatches, Digest
<1>5. ASSUME NEW seq, rows[k] = [row EXCEPT !.seq = seq], seq # row.seq
      PROVE  ~ HashMatches(rows, k)
    <2>1. rows[k].seq = seq /\ rows[k].hash = row.hash
        BY <1>2, <1>5 DEF RowShape
    <2> QED
        BY <1>1, <1>5, <2>1 DEF HashMatches, Digest
<1> QED
    BY <1>3, <1>4, <1>5

LEMMA StampsShowDamage == ASSUME TypeOK, StampInv PROVE DamageIsDetected
<1>1. /\ Len(events) \in Nat /\ events = [j \in 1..Len(events) |-> events[j]]
      /\ \A k \in RowNumbers : events[k].boundary \in Nat
    BY LenProperties DEF TypeOK, RowsTyped
<1> SUFFICES ASSUME NEW rows \in Damaged, rows # events PROVE ~ VerifyLedger(rows)
    BY DEF DamageIsDetected
<1>2. ASSUME NEW k \in RowNumbers, Len(rows) = Len(events), ~ HashMatches(rows, k)
      PROVE  ~ VerifyLedger(rows)
    BY <1>2 DEF VerifyLedger, RowNumbers
<1>3. ASSUME NEW k \in RowNumbers, NEW row, rows = [events EXCEPT ![k] = row]
      PROVE  Len(rows) = Len(events) /\ rows[k] = row /\ rows[k] # events[k]
    <2>1. rows = [j \in 1..Len(events) |-> IF j = k THEN row ELSE events[j]]
        BY <1>1, <1>3 DEF RowNumbers
    <2>2. Len(rows) = Len(events) /\ rows[k] = row
        BY <1>1, <2>1 DEF RowNumbers
    <2>3. ASSUME row = events[k] PROVE rows = events
        BY <1>1, <2>1, <2>3
    <2> QED
        BY <2>2, <2>3
<1>4. ASSUME NEW k \in RowNumbers, NEW key \in Keys, rows = [events EXCEPT ![k].key = key]
      PROVE  ~ VerifyLedger(rows)
    <2> DEFINE row == [events[k] EXCEPT !.key = key]
    <2>1. rows = [events EXCEPT ![k] = row]
        BY <1>4
    <2> HIDE DEF row
    <2>2. Len(rows) = Len(events) /\ rows[k] = row /\ rows[k] # events[k]
        BY <1>3, <2>1
    <2>3. Stamped(events[k])
        BY DEF StampInv
    <2>4. ~ HashMatches(rows, k)
        BY <2>2, <2>3, ChangeBreaksHash DEF row
    <2> QED
        BY <1>2, <2>2, <2>4
<1>5. ASSUME NEW k \in RowNumbers, rows = [events EXCEPT ![k].boundary = @ + 1]
      PROVE  ~ VerifyLedger(rows)
    <2> DEFINE row == [events[k] EXCEPT !.boundary = @ + 1]
    <2>1. rows = [events EXCEPT ![k] = row]
        BY <1>5
    <2> HIDE DEF row
    <2>2. Len(rows) = Len(events) /\ rows[k] = row
        BY <1>3, <2>1
    <2>3. Stamped(events[k]) /\ events[k].boundary \in Nat
        BY <1>1 DEF StampInv
    <2>4. ~ HashMatches(rows, k)
        BY <2>2, <2>3, ChangeBreaksHash DEF row
    <2> QED
        BY <1>2, <2>2, <2>4
<1>6. ASSUME NEW k \in 1..(Len(events) - 1),
             rows = [j \in 1..(Len(events) - 1) |-> events[IF j < k THEN j ELSE j + 1]]
      PROVE  ~ VerifyLedger(rows)
    <2> DEFINE n == Len(events) - 1
               at(j) == IF j < k THEN j ELSE j + 1
    <2>0. n \in Nat /\ k \in 1..n /\ at(k) = k + 1
          /\ (k # 1 => k - 1 \in 1..n /\ at(k - 1) = k - 1)
        BY <1>1
    <2>1. /\ Len(rows) = Len(events) - 1 /\ rows[k] = events[k + 1]
          /\ k # 1 => rows[k - 1] = events[k - 1]
        <3>1. rows = [j \in 1..n |-> events[at(j)]]
            BY <1>6
        <3>2. rows[k] = events[at(k)] /\ (k # 1 => rows[k - 1] = events[at(k - 1)])
            <4> HIDE DEF at, n
            <4> QED
                BY <2>0, <3>1
        <3>3. Len(rows) = n
            <4> HIDE DEF at, n
            <4> QED
                BY <2>0, <3>1
        <3> QED
            BY <2>0, <3>2, <3>3, Zenon
    <2> HIDE DEF at, n
    <2>2. k \in RowNumbers /\ k + 1 \in RowNumbers /\ (k # 1 => k - 1 \in RowNumbers) /\ k \in Nat
        BY <1>1 DEF RowNumbers
    <2>3. rows[k].seq = k + 1 /\ (k # 1 => rows[k - 1].seq = k - 1)
        BY <2>1, <2>2 DEF StampInv
    <2>4. ~ SequenceContinues(rows, k)
        BY <2>2, <2>3 DEF SequenceContinues
    <2> QED
        BY <1>1, <2>1, <2>4 DEF VerifyLedger
<1>7. ASSUME NEW k \in 1..(Len(events) - 1),
             rows = [events EXCEPT ![k] = [events[k + 1] EXCEPT !.seq = k],
                                   ![k + 1] = [events[k] EXCEPT !.seq = k + 1]]
      PROVE  ~ VerifyLedger(rows)
    <2> DEFINE upper == [events[k + 1] EXCEPT !.seq = k]
               lower == [events[k] EXCEPT !.seq = k + 1]
    <2>1. k \in RowNumbers /\ k + 1 \in RowNumbers /\ k \in Nat /\ k # k + 1
        BY <1>1 DEF RowNumbers
    <2>2. Len(rows) = Len(events) /\ rows[k] = upper
        <3> HIDE DEF upper, lower
        <3>1. rows = [events EXCEPT ![k] = upper, ![k + 1] = lower]
            BY <1>7 DEF upper, lower
        <3>2. rows = [j \in 1..Len(events) |-> IF j = k + 1 THEN lower
                                               ELSE IF j = k THEN upper ELSE events[j]]
            BY <1>1, <2>1, <3>1 DEF RowNumbers
        <3> QED
            BY <1>1, <2>1, <3>2 DEF RowNumbers
    <2>3. Stamped(events[k + 1]) /\ events[k + 1].seq = k + 1
        BY <2>1 DEF StampInv
    <2>4. ~ HashMatches(rows, k)
        BY <2>1, <2>2, <2>3, ChangeBreaksHash
    <2> QED
        BY <1>2, <2>1, <2>2, <2>4
<1>8. CASE rows \in Renamed
    BY <1>4, <1>8 DEF Renamed
<1>9. CASE rows \in Moved
    BY <1>5, <1>9, Zenon DEF Moved
<1>10. CASE rows \in Deleted
    BY <1>6, <1>10, Zenon DEF Deleted
<1>11. CASE rows \in Exchanged
    BY <1>7, <1>11, Zenon DEF Exchanged
<1> QED
    BY <1>8, <1>9, <1>10, <1>11 DEF Damaged

\* No changed field, deleted row or exchange of two rows goes unnoticed, whatever has been
\* written: the clock need not even advance.
THEOREM DamageIsSeen == Spec => []DamageIsDetected
<1>1. Init => StampInv
    BY DEF Init, StampInv, RowNumbers
<1>2. Init => TypeOK
    BY InitTyped
<1>3. TypeOK /\ [Next]_vars => TypeOK'
    BY NextTyped
<1>4. TypeOK /\ StampInv /\ [Next]_vars => StampInv'
    BY StampStep
<1>5. TypeOK /\ StampInv => DamageIsDetected
    BY StampsShowDamage
<1> QED
    BY <1>1, <1>2, <1>3, <1>4, <1>5, PTL DEF Spec

-----------------------------------------------------------------------------
(* Truncation.                                                             *)

\* A set of numbers has a least one.
LEMMA LeastNumber ==
    ASSUME NEW T, T \subseteq Nat, T # {}
    PROVE  \E x \in T : \A y \in T : x <= y
<1> DEFINE S == {0..x : x \in T}
           R == StrictSubsetOrdering(Nat)
<1>1. S \subseteq FiniteSubsetsOf(Nat) /\ S # {}
    <2>1. \A x \in T : 0..x \in FiniteSubsetsOf(Nat)
        BY FS_Interval DEF FiniteSubsetsOf
    <2> HIDE DEF R
    <2> QED
        BY <2>1, Zenon
<1>2. IsWellFoundedOn(R, FiniteSubsetsOf(Nat))
    BY FS_StrictSubsetOrderingWellFounded
<1>3. \E s \in S : \A t \in S : ~ (<<t, s>> \in R)
    <2> HIDE DEF S, R
    <2> QED
        BY <1>1, <1>2, WFMin
<1>4. PICK x \in T : \A y \in T : ~ (<<0..y, 0..x>> \in R)
    BY <1>3
<1>5. ASSUME NEW y \in T, y < x PROVE FALSE
    <2> DEFINE lower == 0..y
               upper == 0..x
    <2>1. lower \subseteq upper /\ lower # upper /\ upper \in SUBSET Nat
        <3>1. x \in upper /\ x \notin lower
            BY <1>5
        <3>2. lower \subseteq upper /\ upper \in SUBSET Nat
            BY <1>5
        <3> QED
            BY <3>1, <3>2
    <2> HIDE DEF lower, upper
    <2>2. <<lower, upper>> \in R
        BY <2>1 DEF StrictSubsetOrdering
    <2> QED
        BY <1>4, <2>2 DEF lower, upper
<1> QED
    BY <1>5

\* A set of numbers with a bound has a greatest one.
LEMMA GreatestNumber ==
    ASSUME NEW T, NEW n \in Nat, T \subseteq 0..n, T # {}
    PROVE  \E x \in T : \A y \in T : y <= x
<1> DEFINE D == {n - x : x \in T}
<1>1. \A x \in T : n - x \in Nat
    OBVIOUS
<1>2. D \subseteq Nat /\ D # {}
    BY <1>1, Zenon
<1>3. \E d \in D : \A e \in D : d <= e
    <2> HIDE DEF D
    <2> QED
        BY <1>2, LeastNumber
<1>4. PICK x \in T : \A e \in D : n - x <= e
    BY <1>3
<1>5. \A y \in T : n - y \in D
    BY Zenon
<1>6. \A y \in T : n - x <= n - y
    BY <1>4, <1>5
<1> QED
    BY <1>6

\* With a clock that advances, time is the order of the rows.
TimedInv == \A k \in RowNumbers : events[k].created = k

LEMMA TimedStep ==
    ASSUME TypeOK, TimedInv, ClockAdvances, [Next]_vars
    PROVE  TimedInv'
<1>1. CASE UNCHANGED <<events, dedup>>
    BY <1>1, Zenon DEF TimedInv, RowNumbers
<1>2. CASE Inserts
    <2>1. PICK key \in Keys, chain \in Chains, boundary \in Nat :
             InsertRawEvent(key, chain, boundary)
        BY <1>2 DEF Inserts
    <2>2. /\ Len(events) \in Nat
          /\ Len(events') = Len(events) + 1
          /\ \A k \in 1..Len(events) : events'[k] = events[k]
          /\ \E created \in ClockReadings, prev \in PreviousHashes(chain) :
                events'[Len(events) + 1] = NewRow(key, chain, boundary, created, prev)
        BY <2>1, InsertedRow DEF TypeOK, TablesTyped
    <2>3. events'[Len(events) + 1].created = Len(events) + 1
        BY <2>2 DEF NewRow, ClockReadings
    <2> QED
        BY <2>2, <2>3 DEF TimedInv, RowNumbers
<1> QED
    BY <1>1, <1>2, InsertOrNot DEF TypeOK

\* The head of a chain is its last row.
LEMMA HeadIsLast ==
    ASSUME NEW rows, Len(rows) \in Nat, \A k \in 1..Len(rows) : rows[k].created = k,
           NEW chain
    PROVE  /\ \A j, k \in Heads(rows, chain) : j = k
           /\ RowsOf(rows, chain) # {} => Heads(rows, chain) # {}
<1>1. RowsOf(rows, chain) \subseteq 0..Len(rows)
    BY DEF RowsOf
<1>2. \A j, k \in Heads(rows, chain) : j = k
    BY DEF Heads, RowsOf
<1>3. ASSUME RowsOf(rows, chain) # {} PROVE Heads(rows, chain) # {}
    <2> DEFINE T == RowsOf(rows, chain)
    <2>1. \E x \in T : \A y \in T : y <= x
        <3> HIDE DEF T
        <3> QED
            BY <1>1, <1>3, GreatestNumber DEF T
    <2>2. PICK x \in T : \A y \in T : y <= x
        BY <2>1
    <2>3. x \in Heads(rows, chain)
        BY <2>2 DEF Heads, RowsOf
    <2> QED
        BY <2>3
<1> QED
    BY <1>2, <1>3

\* When an anchor is contradicted, and when none is.
LEMMA Contradicted ==
    ASSUME NEW rows, NEW expected, NEW e \in expected,
           \/ \A a \in LedgerAnchors(rows) : a.chain # e.chain
           \/ \E a \in LedgerAnchors(rows) :
                 a.chain = e.chain /\ a.head # e.head /\ a.events < e.events
    PROVE  \E mismatch \in VerifyAnchors(rows, expected) : mismatch.truncated
<1> DEFINE current == LedgerAnchors(rows)
           Of(chain) == {a \in current : a.chain = chain}
           gone == {[chain |-> f.chain, truncated |-> TRUE] :
                       f \in {f \in expected : Of(f.chain) = {}}}
           other == {[chain |-> f.chain,
                      truncated |-> \E a \in Of(f.chain) : a.events < f.events] :
                        f \in {f \in expected : \E a \in Of(f.chain) : a.head # f.head}}
<1>1. VerifyAnchors(rows, expected) = gone \union other
    BY Zenon DEF VerifyAnchors
<1>2. CASE \A a \in current : a.chain # e.chain
    <2>1. Of(e.chain) = {}
        BY <1>2
    <2> DEFINE m == [chain |-> e.chain, truncated |-> TRUE]
    <2>2. m \in gone
        BY <2>1, Zenon
    <2>3. m.truncated
        OBVIOUS
    <2> QED
        BY <1>1, <2>2, <2>3, Zenon
<1>3. CASE \E a \in current : a.chain = e.chain /\ a.head # e.head /\ a.events < e.events
    <2>1. PICK a \in current : a.chain = e.chain /\ a.head # e.head /\ a.events < e.events
        BY <1>3, Zenon
    <2>2. a \in Of(e.chain)
        BY <2>1, Zenon
    <2> DEFINE fewer == \E b \in Of(e.chain) : b.events < e.events
               m == [chain |-> e.chain, truncated |-> fewer]
    <2>3. m \in other
        BY <2>1, <2>2, Zenon
    <2>4. fewer
        BY <2>1, <2>2, Zenon
    <2>5. m.truncated = fewer
        <3> HIDE DEF fewer
        <3> QED
            OBVIOUS
    <2> QED
        BY <1>1, <2>3, <2>4, <2>5, Zenon
<1> QED
    BY <1>2, <1>3

LEMMA NothingContradicted ==
    ASSUME NEW rows, NEW expected,
           \A e \in expected :
              /\ \E a \in LedgerAnchors(rows) : a.chain = e.chain
              /\ \A a \in LedgerAnchors(rows) : a.chain = e.chain => a.head = e.head
    PROVE  VerifyAnchors(rows, expected) = {}
<1> DEFINE current == LedgerAnchors(rows)
           Of(chain) == {a \in current : a.chain = chain}
<1>1. \A e \in expected : Of(e.chain) # {}
    OBVIOUS
<1>2. \A e \in expected : ~ \E a \in Of(e.chain) : a.head # e.head
    OBVIOUS
<1>3. \A m : m \notin VerifyAnchors(rows, expected)
    BY <1>1, <1>2, Zenon DEF VerifyAnchors
<1> QED
    BY <1>3, Zenon

\* The anchors of the ledger as it is, and what they say of any part of it.
LEMMA AnchorsShowTruncation ==
    ASSUME TypeOK, StampInv, TimedInv
    PROVE  TruncationIsDetected
<1>1. Len(events) \in Nat /\ events \in Seq({events[k] : k \in RowNumbers})
    BY LenProperties DEF TypeOK, RowsTyped
<1> DEFINE anchor(rows, k) ==
              [chain |-> rows[k].chain, head |-> rows[k].hash,
               events |-> Cardinality(RowsOf(rows, rows[k].chain))]
<1>2. \A rows : LedgerAnchors(rows) =
          {anchor(rows, k) : k \in {k \in 1..Len(rows) : k \in Heads(rows, rows[k].chain)}}
    BY Zenon DEF LedgerAnchors
<1>3. \A rows, k : /\ anchor(rows, k).chain = rows[k].chain /\ anchor(rows, k).head = rows[k].hash
                   /\ anchor(rows, k).events = Cardinality(RowsOf(rows, rows[k].chain))
    <2> TAKE rows, k
    <2> DEFINE number == Cardinality(RowsOf(rows, rows[k].chain))
    <2> HIDE DEF number
    <2> QED
        OBVIOUS
<1> HIDE DEF anchor
<1>4. \A rows, chain, k : k \in Heads(rows, chain) =>
          k \in 1..Len(rows) /\ rows[k].chain = chain /\ anchor(rows, k) \in LedgerAnchors(rows)
    <2>1. \A rows, chain, k : k \in Heads(rows, chain) => k \in 1..Len(rows) /\ rows[k].chain = chain
        BY DEF Heads, RowsOf
    <2> QED
        BY <1>2, <2>1, Zenon
<1>5. \A rows : \A a \in LedgerAnchors(rows) :
          \E k \in Heads(rows, a.chain) : a = anchor(rows, k)
    BY <1>2, <1>3, Zenon
<1>6. \A k \in 1..Len(events) : events[k].created = k
    BY DEF TimedInv, RowNumbers
<1>7. VerifyAnchors(events, LedgerAnchors(events)) = {}
    <2>1. ASSUME NEW e \in LedgerAnchors(events), NEW a \in LedgerAnchors(events),
                 a.chain = e.chain
          PROVE  a.head = e.head
        <3>1. PICK j \in Heads(events, a.chain) : a = anchor(events, j)
            BY <1>5, Zenon
        <3>2. PICK k \in Heads(events, a.chain) : e = anchor(events, k)
            BY <1>5, <2>1, Zenon
        <3>3. j = k
            BY <1>1, <1>6, HeadIsLast
        <3> QED
            BY <3>1, <3>2, <3>3, Zenon
    <2> QED
        BY <2>1, NothingContradicted
<1>8. ASSUME NEW n \in 0..(Len(events) - 1)
      PROVE  \E mismatch \in VerifyAnchors(SubSeq(events, 1, n), LedgerAnchors(events)) :
                mismatch.truncated
    <2> DEFINE rows == SubSeq(events, 1, n)
               last == Len(events)
               chain == events[last].chain
    <2>1. Len(rows) = n /\ n \in Nat /\ n < last /\ \A k \in 1..n : rows[k] = events[k]
        BY <1>1, SubSeqProperties
    <2> HIDE DEF rows
    <2>2. last \in Heads(events, chain)
        BY <1>1, <1>6, <2>1 DEF Heads, RowsOf
    <2>3. anchor(events, last) \in LedgerAnchors(events)
        BY <1>4, <2>2, Zenon
    <2>4. CASE RowsOf(rows, chain) = {}
        <3>1. \A a \in LedgerAnchors(rows) : a.chain # chain
            BY <1>5, <2>4, Zenon DEF Heads
        <3>2. anchor(events, last).chain = chain
            BY <1>3, Zenon
        <3> QED
            BY <2>3, <3>1, <3>2, Contradicted DEF rows
    <2>5. CASE RowsOf(rows, chain) # {}
        <3>1. PICK k \in Heads(rows, chain) : TRUE
            <4>1. \A k \in 1..Len(rows) : rows[k].created = k
                BY <1>6, <2>1
            <4> QED
                BY <2>1, <2>5, <4>1, HeadIsLast
        <3>2. k \in 1..n /\ rows[k].chain = chain /\ anchor(rows, k) \in LedgerAnchors(rows)
            <4>1. k \in 1..Len(rows) /\ rows[k].chain = chain /\ anchor(rows, k) \in LedgerAnchors(rows)
                BY <1>4, <3>1, Zenon
            <4> QED
                BY <2>1, <4>1
        <3>3. rows[k].hash # events[last].hash
            <4>1. /\ Stamped(events[k]) /\ events[k].seq = k
                  /\ Stamped(events[last]) /\ events[last].seq = last
                <5> HIDE DEF last
                <5>0. last \in Nat /\ n \in Nat /\ n < last /\ k \in 1..n
                    BY <1>1, <2>1, <3>2 DEF last
                <5>1. k \in 1..last /\ last \in 1..last
                    BY <5>0
                <5>2. k \in RowNumbers /\ last \in RowNumbers
                    BY <5>1 DEF RowNumbers, last
                <5> QED
                    BY <5>2 DEF StampInv, last
            <4>2. \A row : Stamped(row) => row.hash[5] = row.seq
                BY DEF Stamped, Digest
            <4>3. rows[k] = events[k] /\ k # last
                BY <2>1, <3>2
            <4> QED
                BY <4>1, <4>2, <4>3, Zenon
        <3>4. Cardinality(RowsOf(rows, chain)) < Cardinality(RowsOf(events, chain))
            <4> DEFINE S == RowsOf(events, chain)
                       T == RowsOf(rows, chain)
            <4>1. S \subseteq 1..last /\ last \in S /\ T \subseteq S /\ last \notin T
                BY <1>1, <2>1 DEF RowsOf
            <4>2. IsFiniteSet(S)
                <5>1. IsFiniteSet(1..last)
                    BY <1>1, FS_Interval
                <5> HIDE DEF S
                <5> QED
                    BY <4>1, <5>1, FS_Subset
            <4> HIDE DEF S, T
            <4>3. /\ Cardinality(T) \in Nat /\ Cardinality(S) \in Nat
                  /\ Cardinality(T) <= Cardinality(S) /\ Cardinality(T) # Cardinality(S)
                BY <4>1, <4>2, FS_Subset, FS_CardinalityType
            <4>4. Cardinality(T) < Cardinality(S)
                BY <4>3
            <4> QED
                BY <4>4 DEF S, T
        <3>5. /\ anchor(rows, k).chain = anchor(events, last).chain
              /\ anchor(rows, k).head # anchor(events, last).head
              /\ anchor(rows, k).events < anchor(events, last).events
            BY <1>3, <3>2, <3>3, <3>4
        <3> QED
            BY <2>3, <3>2, <3>5, Contradicted DEF rows
    <2> QED
        BY <2>4, <2>5
<1> QED
    BY <1>7, <1>8 DEF TruncationIsDetected

\* As long as every transaction reads a later clock than the one before it, the anchors of the
\* ledger agree with it, and with no shorter ledger.
THEOREM TruncationIsSeen ==
    ASSUME ClockAdvances
    PROVE  Spec => []TruncationIsDetected
<1>1. Init => TypeOK /\ StampInv /\ TimedInv
    BY InitTyped DEF Init, StampInv, TimedInv, RowNumbers
<1>2. TypeOK /\ StampInv /\ TimedInv /\ [Next]_vars => (TypeOK /\ StampInv /\ TimedInv)'
    BY NextTyped, StampStep, TimedStep
<1>3. TypeOK /\ StampInv /\ TimedInv => TruncationIsDetected
    BY AnchorsShowTruncation
<1> QED
    BY <1>1, <1>2, <1>3, PTL DEF Spec

-----------------------------------------------------------------------------
(* Sums.  The fold that computes a sum is a function on the subsets of a    *)
(* finite set, which are well founded: what could fail fails for a least    *)
(* one.                                                                     *)

\* The sum of a function over a set is a fold over the subsets of the set.
SumOf(v, S) == MapThenSumSet(LAMBDA x : v[x], S)

Picked(s) == CHOOSE x \in s : TRUE

IsSum(f, v, S) ==
    f = [s \in SUBSET S |-> IF s = {} THEN 0 ELSE v[Picked(s)] + f[s \ {Picked(s)}]]

LEMMA SumIsChosen ==
    ASSUME NEW v, NEW S
    PROVE  SumOf(v, S) = (CHOOSE f : IsSum(f, v, S))[S]
BY DEF SumOf, MapThenSumSet, MapThenFoldSet, IsSum, Picked

LEMMA SumParts ==
    ASSUME NEW f, NEW v, NEW S, IsSum(f, v, S)
    PROVE  /\ f[{}] = 0
           /\ \A s \in SUBSET S : s # {} =>
                 /\ Picked(s) \in s /\ s \ {Picked(s)} \in SUBSET S
                 /\ f[s] = v[Picked(s)] + f[s \ {Picked(s)}]
<1>1. \A s \in SUBSET S : f[s] = IF s = {} THEN 0 ELSE v[Picked(s)] + f[s \ {Picked(s)}]
    BY Zenon DEF IsSum
<1>2. \A s : s # {} => Picked(s) \in s
    BY Zenon DEF Picked
<1> HIDE DEF Picked
<1>3. f[{}] = 0
    BY <1>1
<1> QED
    BY <1>1, <1>2, <1>3

\* Finite sets are well founded: a property that fails for one fails for a least one.
IsLeast(s, bad) == s \in bad /\ \A t \in bad : ~ (t \subseteq s /\ t # s)

LEMMA LeastSet ==
    ASSUME NEW S, NEW bad, bad \subseteq FiniteSubsetsOf(S), bad # {}
    PROVE  \E s : IsLeast(s, bad)
<1>1. \E s \in bad : \A t \in bad : ~ (<<t, s>> \in StrictSubsetOrdering(S))
    BY FS_StrictSubsetOrderingWellFounded, WFMin
<1>2. PICK s \in bad : \A t \in bad : ~ (<<t, s>> \in StrictSubsetOrdering(S))
    BY <1>1
<1>3. \A t \in bad : t \in SUBSET S /\ IsFiniteSet(t)
    BY DEF FiniteSubsetsOf
<1>4. ASSUME NEW t \in bad, t \subseteq s, t # s PROVE FALSE
    <2>1. <<t, s>> \in StrictSubsetOrdering(S)
        BY <1>3, <1>4 DEF StrictSubsetOrdering
    <2> QED
        BY <1>2, <2>1
<1> QED
    BY <1>4, Zenon DEF IsLeast

\* Two folds agree where both are defined.
LEMMA SumsAgree ==
    ASSUME NEW v, NEW S, NEW T, NEW f, NEW g, IsSum(f, v, S), IsSum(g, v, T),
           NEW s, s \subseteq S, s \subseteq T, IsFiniteSet(s)
    PROVE  f[s] = g[s]
<1> SUFFICES ASSUME f[s] # g[s] PROVE FALSE
    OBVIOUS
<1> DEFINE bad == {t \in FiniteSubsetsOf(s) : f[t] # g[t]}
<1>1. bad \subseteq FiniteSubsetsOf(s) /\ bad # {}
    BY DEF FiniteSubsetsOf
<1>2. PICK t : IsLeast(t, bad)
    <2> HIDE DEF bad
    <2> QED
        BY <1>1, LeastSet
<1>3. t \in bad /\ t \subseteq s /\ \A u \in bad : ~ (u \subseteq t /\ u # t)
    BY <1>1, <1>2 DEF IsLeast, FiniteSubsetsOf
<1>4. t # {} /\ IsFiniteSet(t) /\ f[t] # g[t]
    BY <1>3, SumParts DEF FiniteSubsetsOf
<1> DEFINE u == t \ {Picked(t)}
<1>5. /\ Picked(t) \in t /\ f[t] = v[Picked(t)] + f[u] /\ g[t] = v[Picked(t)] + g[u]
    <2>1. t \in SUBSET S /\ t \in SUBSET T
        BY <1>3
    <2> HIDE DEF bad
    <2> QED
        BY <1>4, <2>1, SumParts
<1>6. u \subseteq t /\ u # t /\ IsFiniteSet(u) /\ f[u] # g[u]
    BY <1>4, <1>5, FS_RemoveElement
<1>7. u \in bad
    BY <1>3, <1>6 DEF FiniteSubsetsOf
<1> QED
    BY <1>3, <1>6, <1>7

\* A finite set has a fold: put together from those of its proper subsets.
LEMMA SumExists ==
    ASSUME NEW v, NEW S, IsFiniteSet(S)
    PROVE  \E f : IsSum(f, v, S)
<1> SUFFICES ASSUME ~ \E f : IsSum(f, v, S) PROVE FALSE
    OBVIOUS
<1> DEFINE bad == {T \in FiniteSubsetsOf(S) : ~ \E f : IsSum(f, v, T)}
<1>1. bad \subseteq FiniteSubsetsOf(S) /\ bad # {}
    BY DEF FiniteSubsetsOf
<1>2. PICK T : IsLeast(T, bad)
    <2> HIDE DEF bad
    <2> QED
        BY <1>1, LeastSet
<1>3. /\ T \in bad /\ IsFiniteSet(T) /\ T \subseteq S
      /\ \A u \in bad : ~ (u \subseteq T /\ u # T)
    BY <1>1, <1>2 DEF IsLeast, FiniteSubsetsOf
<1> DEFINE h(u) == CHOOSE f : IsSum(f, v, u)
           p(u) == u \ {Picked(u)}
           F == [s \in SUBSET T |-> IF s = T THEN IF T = {} THEN 0 ELSE v[Picked(T)] + h(p(T))[p(T)]
                                    ELSE h(s)[s]]
<1>4. \A u \in SUBSET T : IsFiniteSet(u)
    BY <1>3, FS_Subset
<1>5. ASSUME NEW u \in SUBSET T, u # T
      PROVE  IsSum(h(u), v, u)
    <2>1. u \in FiniteSubsetsOf(S) /\ u \notin bad
        BY <1>3, <1>4, <1>5 DEF FiniteSubsetsOf
    <2>2. \E f : IsSum(f, v, u)
        BY <2>1
    <2> QED
        BY <2>2, Zenon
<1>6. \A u : u # {} => Picked(u) \in u
    BY Zenon DEF Picked
<1> HIDE DEF h
<1>7. ASSUME NEW s \in SUBSET T
      PROVE  F[s] = IF s = {} THEN 0 ELSE v[Picked(s)] + F[p(s)]
    <2>1. CASE s = T
        <3>1. s # {} => p(T) \in SUBSET T /\ p(T) # T
            BY <1>6, <2>1
        <3> QED
            BY <2>1, <3>1
    <2>2. CASE s # T /\ s = {}
        <3>1. IsSum(h(s), v, s)
            BY <1>5, <2>2
        <3> QED
            BY <2>2, <3>1, SumParts
    <2>3. CASE s # T /\ s # {}
        <3>1. Picked(s) \in s /\ p(s) \in SUBSET T /\ p(s) # T /\ p(s) \in SUBSET s
            BY <1>6, <2>3
        <3>2. IsSum(h(s), v, s) /\ IsSum(h(p(s)), v, p(s))
            BY <1>5, <2>3, <3>1
        <3>3. h(s)[s] = v[Picked(s)] + h(s)[p(s)]
            BY <2>3, <3>2, SumParts
        <3>4. h(s)[p(s)] = h(p(s))[p(s)]
            <4> DEFINE u == p(s)
            <4>1. u \subseteq s /\ u \subseteq u /\ IsFiniteSet(u)
                BY <1>4, <3>1
            <4> HIDE DEF u
            <4>2. h(s)[u] = h(u)[u]
                BY <3>2, <4>1, SumsAgree DEF u
            <4> QED
                BY <4>2 DEF u
        <3> QED
            BY <2>3, <3>1, <3>3, <3>4
    <2> QED
        BY <2>1, <2>2, <2>3
<1>8. IsSum(F, v, T)
    <2>1. F = [s \in SUBSET T |-> F[s]]
        OBVIOUS
    <2> HIDE DEF F
    <2> QED
        BY <1>7, <2>1 DEF IsSum
<1>9. T \notin bad
    BY <1>8
<1> QED
    BY <1>3, <1>9

\* The sum is what any fold computes.
LEMMA SumIs ==
    ASSUME NEW v, NEW S, NEW s \in SUBSET S, IsFiniteSet(S), NEW f, IsSum(f, v, S)
    PROVE  SumOf(v, s) = f[s]
<1> DEFINE g == CHOOSE h : IsSum(h, v, s)
<1>1. IsFiniteSet(s)
    BY FS_Subset
<1>2. IsSum(g, v, s)
    BY <1>1, SumExists, Zenon
<1>3. SumOf(v, s) = g[s]
    BY SumIsChosen
<1> HIDE DEF g
<1>4. g[s] = f[s]
    BY <1>1, <1>2, SumsAgree
<1> QED
    BY <1>3, <1>4

\* The sum of nothing is zero, and a sum is one of its numbers and the sum of the others.
LEMMA SumSteps ==
    ASSUME NEW v, NEW S, IsFiniteSet(S)
    PROVE  /\ SumOf(v, {}) = 0
           /\ S # {} => /\ Picked(S) \in S
                        /\ SumOf(v, S) = v[Picked(S)] + SumOf(v, S \ {Picked(S)})
<1>1. PICK f : IsSum(f, v, S)
    BY SumExists
<1>2. \A s \in SUBSET S : SumOf(v, s) = f[s]
    BY <1>1, SumIs
<1>3. f[{}] = 0
    BY <1>1, SumParts
<1>4. S # {} => Picked(S) \in S /\ f[S] = v[Picked(S)] + f[S \ {Picked(S)}]
    BY <1>1, SumParts
<1>5. {} \in SUBSET S /\ S \in SUBSET S /\ S \ {Picked(S)} \in SUBSET S
    OBVIOUS
<1> QED
    BY <1>2, <1>3, <1>4, <1>5, Zenon

\* Functions that agree on a set have the same sum over it.
LEMMA SumOfSame ==
    ASSUME NEW S, IsFiniteSet(S), NEW v, NEW u, \A x \in S : v[x] = u[x]
    PROVE  SumOf(v, S) = SumOf(u, S)
<1>1. PICK f : IsSum(f, v, S)
    BY SumExists
<1>2. \A s \in SUBSET S : s # {} => v[Picked(s)] = u[Picked(s)]
    BY <1>1, SumParts
<1>3. IsSum(f, u, S)
    <2> HIDE DEF Picked
    <2> QED
        BY <1>1, <1>2 DEF IsSum
<1> QED
    BY <1>1, <1>3, SumIs

\* Sums of integers are integers.
LEMMA SumType ==
    ASSUME NEW S, IsFiniteSet(S), NEW v, \A x \in S : v[x] \in Int
    PROVE  SumOf(v, S) \in Int
<1> SUFFICES ASSUME SumOf(v, S) \notin Int PROVE FALSE
    OBVIOUS
<1> DEFINE bad == {T \in FiniteSubsetsOf(S) : SumOf(v, T) \notin Int}
<1>1. bad \subseteq FiniteSubsetsOf(S) /\ bad # {}
    BY DEF FiniteSubsetsOf
<1>2. PICK T : IsLeast(T, bad)
    <2> HIDE DEF bad
    <2> QED
        BY <1>1, LeastSet
<1>3. /\ T \in bad /\ IsFiniteSet(T) /\ T \subseteq S /\ SumOf(v, T) \notin Int
      /\ \A u \in bad : ~ (u \subseteq T /\ u # T)
    BY <1>1, <1>2 DEF IsLeast, FiniteSubsetsOf
<1> DEFINE u == T \ {Picked(T)}
<1>4. T # {}
    <2>1. SumOf(v, {}) = 0
        BY <1>3, SumSteps
    <2>2. 0 \in Int
        OBVIOUS
    <2> QED
        BY <1>3, <2>1, <2>2, Zenon
<1>5. Picked(T) \in T /\ SumOf(v, T) = v[Picked(T)] + SumOf(v, u)
    BY <1>3, <1>4, SumSteps
<1>6. u \subseteq T /\ u # T /\ IsFiniteSet(u)
    BY <1>3, <1>5, FS_RemoveElement
<1>7. SumOf(v, u) \in Int
    BY <1>3, <1>6 DEF FiniteSubsetsOf
<1> QED
    BY <1>3, <1>5, <1>7

\* It does not matter which number is taken out.
LEMMA SumWithout ==
    ASSUME NEW S, IsFiniteSet(S), NEW v, \A x \in S : v[x] \in Int, NEW x \in S
    PROVE  SumOf(v, S) = v[x] + SumOf(v, S \ {x})
<1> DEFINE fine(T) == \A y \in T : SumOf(v, T) = v[y] + SumOf(v, T \ {y})
           bad == {T \in FiniteSubsetsOf(S) : ~ fine(T)}
<1> SUFFICES ASSUME ~ fine(S) PROVE FALSE
    OBVIOUS
<1>1. bad \subseteq FiniteSubsetsOf(S) /\ bad # {}
    BY DEF FiniteSubsetsOf
<1>2. PICK T : IsLeast(T, bad)
    <2> HIDE DEF bad
    <2> QED
        BY <1>1, LeastSet
<1>3. /\ T \in bad /\ IsFiniteSet(T) /\ T \subseteq S /\ ~ fine(T)
      /\ \A u \in bad : ~ (u \subseteq T /\ u # T)
    BY <1>1, <1>2 DEF IsLeast, FiniteSubsetsOf
<1>4. \A u \in SUBSET T : IsFiniteSet(u)
    BY <1>3, FS_Subset
<1>5. \A u \in SUBSET T : u # T => fine(u)
    <2> HIDE DEF fine
    <2> QED
        BY <1>3, <1>4 DEF FiniteSubsetsOf
<1>6. PICK y \in T : SumOf(v, T) # v[y] + SumOf(v, T \ {y})
    BY <1>3
<1> DEFINE p == Picked(T)
<1>7. p \in T /\ SumOf(v, T) = v[p] + SumOf(v, T \ {p}) /\ p # y
    BY <1>3, <1>6, SumSteps
<1> HIDE DEF p
<1>8. SumOf(v, T \ {p}) = v[y] + SumOf(v, (T \ {p}) \ {y})
    <2>1. T \ {p} # T /\ T \ {p} \in SUBSET T /\ y \in T \ {p}
        BY <1>7
    <2> QED
        BY <1>5, <2>1
<1>9. SumOf(v, T \ {y}) = v[p] + SumOf(v, (T \ {y}) \ {p})
    <2>1. T \ {y} # T /\ T \ {y} \in SUBSET T /\ p \in T \ {y}
        BY <1>7
    <2> QED
        BY <1>5, <2>1
<1>10. (T \ {p}) \ {y} = (T \ {y}) \ {p}
    OBVIOUS
<1>11. /\ v[p] \in Int /\ v[y] \in Int
       /\ SumOf(v, (T \ {y}) \ {p}) \in Int
    <2> DEFINE u == (T \ {y}) \ {p}
    <2>1. u \in SUBSET T
        OBVIOUS
    <2>2. IsFiniteSet(u) /\ \A z \in u : v[z] \in Int
        BY <1>3, <1>4, <2>1
    <2> HIDE DEF u
    <2>3. SumOf(v, u) \in Int
        BY <2>2, SumType
    <2> QED
        BY <1>3, <1>7, <2>3 DEF u
<1> DEFINE whole == SumOf(v, T)
           noP == SumOf(v, T \ {p})
           noY == SumOf(v, T \ {y})
           rest == SumOf(v, (T \ {y}) \ {p})
<1>12. /\ whole = v[p] + noP /\ noP = v[y] + rest /\ noY = v[p] + rest
       /\ whole # v[y] + noY /\ v[p] \in Int /\ v[y] \in Int /\ rest \in Int
    BY <1>6, <1>7, <1>8, <1>9, <1>10, <1>11, Zenon
<1> HIDE DEF whole, noP, noY, rest
<1> QED
    BY <1>12

-----------------------------------------------------------------------------
(* The aggregate.                                                           *)

TotalOf(cs) == MapThenSumSet(LAMBDA c : cs[c].tokens, 1..Len(cs))

TokensOf(cs) == [c \in 1..Len(cs) |-> cs[c].tokens]

LEMMA TotalIsSum ==
    ASSUME NEW cs, Len(cs) \in Nat
    PROVE  TotalOf(cs) = SumOf(TokensOf(cs), 1..Len(cs))
<1> DEFINE S == 1..Len(cs)
           v == TokensOf(cs)
           Folds(f) == f = [s \in SUBSET S |-> IF s = {} THEN 0
                              ELSE cs[Picked(s)].tokens + f[s \ {Picked(s)}]]
           g == CHOOSE f : Folds(f)
<1>1. TotalOf(cs) = g[S]
    BY DEF TotalOf, MapThenSumSet, MapThenFoldSet, Picked
<1>2. PICK f : IsSum(f, v, S)
    <2>1. IsFiniteSet(S)
        BY FS_Interval
    <2> QED
        BY <2>1, SumExists
<1>3. \A s \in SUBSET S : s # {} => v[Picked(s)] = cs[Picked(s)].tokens
    <2>1. \A s \in SUBSET S : s # {} => Picked(s) \in S
        BY <1>2, SumParts
    <2> QED
        BY <2>1 DEF TokensOf
<1> HIDE DEF v, S
<1>4. \A h : Folds(h) <=> IsSum(h, v, S)
    <2> HIDE DEF Picked
    <2> QED
        BY <1>3 DEF IsSum
<1>5. IsSum(g, v, S)
    BY <1>2, <1>4, Zenon
<1>6. g[S] = SumOf(v, S)
    <2> HIDE DEF g
    <2>1. IsFiniteSet(S) /\ S \in SUBSET S
        BY FS_Interval DEF S
    <2> QED
        BY <1>5, <2>1, SumIs
<1> QED
    BY <1>1, <1>6 DEF v, S

LEMMA IntervalGrows ==
    ASSUME NEW n \in Nat
    PROVE  /\ n + 1 \in 1..(n + 1)
           /\ 1..n = (1..(n + 1)) \ {n + 1}
           /\ IsFiniteSet(1..n)
           /\ IsFiniteSet(1..(n + 1))
<1>1. n + 1 \in 1..(n + 1)
    OBVIOUS
<1>2. 1..n = (1..(n + 1)) \ {n + 1}
    OBVIOUS
<1>3. n \in Int /\ n + 1 \in Int /\ 1 \in Int
    OBVIOUS
<1>4. IsFiniteSet(1..n) /\ IsFiniteSet(1..(n + 1))
    BY <1>3, FS_Interval
<1> QED
    BY <1>1, <1>2, <1>4

LEMMA SumGrows ==
    ASSUME NEW n \in Nat, NEW v, NEW u,
           \A c \in 1..n : v[c] = u[c],
           \A c \in 1..(n + 1) : u[c] \in Int
    PROVE  /\ SumOf(v, 1..n) \in Int
           /\ SumOf(u, 1..(n + 1)) = SumOf(v, 1..n) + u[n + 1]
<1> DEFINE S == 1..n
           T == 1..(n + 1)
           m == n + 1
<1>1. m \in T /\ S = T \ {m} /\ IsFiniteSet(S) /\ IsFiniteSet(T)
    BY IntervalGrows
<1>2. /\ \A c \in S : v[c] = u[c]
      /\ \A c \in T : u[c] \in Int
    OBVIOUS
<1> HIDE DEF S, T, m
<1>3. \A c \in S : v[c] \in Int
    BY <1>1, <1>2
<1>4. SumOf(v, S) = SumOf(u, S)
    BY <1>1, <1>2, SumOfSame
<1>5. SumOf(v, S) \in Int
    BY <1>1, <1>3, SumType
<1>6. SumOf(u, T) = u[m] + SumOf(u, T \ {m})
    BY <1>1, <1>2, SumWithout
<1>7. u[m] \in Int
    BY <1>1, <1>2
<1>8. SumOf(u, T) = SumOf(v, S) + u[m]
    BY <1>1, <1>4, <1>5, <1>6, <1>7
<1> QED
    BY <1>5, <1>8 DEF S, T, m

\* A call more adds its tokens to the total.
LEMMA TotalGrows ==
    ASSUME NEW cs, cs \in Seq([raw : Nat, tokens : Nat]), NEW new,
           new \in Seq([raw : Nat, tokens : Nat]), Len(new) = Len(cs) + 1,
           \A c \in 1..Len(cs) : new[c] = cs[c]
    PROVE  /\ TotalOf(cs) \in Int
           /\ TotalOf(new) = TotalOf(cs) + new[Len(new)].tokens
<1>1. PICK n \in Nat : n = Len(cs) /\ Len(new) = n + 1
    BY LenProperties
<1>2. /\ \A c \in 1..n : cs[c] \in [raw : Nat, tokens : Nat] /\ new[c] = cs[c]
      /\ \A c \in 1..(n + 1) : new[c] \in [raw : Nat, tokens : Nat]
    BY <1>1, ElementOfSeq
<1>3. /\ \A c \in 1..n : cs[c].tokens \in Int
      /\ \A c \in 1..(n + 1) : new[c].tokens \in Int
    BY <1>2
<1> DEFINE v == TokensOf(cs)
           u == TokensOf(new)
<1>4. \A c \in 1..n : v[c] = cs[c].tokens
    BY <1>1 DEF TokensOf
<1>5. \A c \in 1..(n + 1) : u[c] = new[c].tokens
    BY <1>1 DEF TokensOf
<1>6. TotalOf(cs) = SumOf(v, 1..n) /\ TotalOf(new) = SumOf(u, 1..(n + 1))
    BY <1>1, TotalIsSum
<1> HIDE DEF v, u
<1>7. 1..n \subseteq 1..(n + 1) /\ n + 1 \in 1..(n + 1)
    BY ONLY n \in Nat
<1>8. \A c \in 1..n : v[c] = u[c]
    BY <1>2, <1>4, <1>5, <1>7
<1>9. \A c \in 1..(n + 1) : u[c] \in Int
    BY <1>3, <1>5
<1>10. /\ SumOf(v, 1..n) \in Int
       /\ SumOf(u, 1..(n + 1)) = SumOf(v, 1..n) + u[n + 1]
    BY <1>8, <1>9, SumGrows
<1>11. u[n + 1] = new[Len(new)].tokens
    BY <1>1, <1>5, <1>7
<1> QED
    BY <1>6, <1>10, <1>11

\* A writer's cache is empty or holds the total of the database, and the cache
\* of a process that is gone is empty.
CacheInv ==
    /\ UsageTotal \in Int
    /\ UsageTotal <= MaxTotal
    /\ \A w \in Writers :
          /\ recordedTokens[w] = Unknown \/ recordedTokens[w] = UsageTotal
          /\ pc[w] = "closed" => recordedTokens[w] = Unknown

LEMMA TotalsPrimed ==
    /\ UsageTotal = TotalOf(calls)
    /\ UsageTotal' = TotalOf(calls')
BY DEF UsageTotal, TotalOf, MapThenSumSet, MapThenFoldSet

\* A step that counts nothing may only fill one cache with the total, or empty it.
LEMMA CacheMoves ==
    ASSUME CacheInv, calls' = calls, NEW w \in Writers,
           \A v \in Writers \ {w} : pc'[v] = pc[v] /\ recordedTokens'[v] = recordedTokens[v],
           recordedTokens'[w] = Unknown \/ recordedTokens'[w] = UsageTotal,
           pc'[w] = "closed" => recordedTokens'[w] = Unknown
    PROVE  CacheInv'
<1>1. UsageTotal' = UsageTotal
    BY TotalsPrimed
<1> QED
    BY <1>1 DEF CacheInv

LEMMA KnownTotalIsTotal ==
    ASSUME CacheInv, NEW w \in Writers
    PROVE  KnownTotal(w) = UsageTotal
BY DEF CacheInv, KnownTotal

\* A recorded call adds its tokens to the total.
LEMMA TotalCounts ==
    ASSUME TypeOK, NEW w \in Writers, NEW tokens \in TokenCounts,
           RecordModelCall(w, tokens)
    PROVE  UsageTotal' = UsageTotal + tokens
<1> DEFINE call == [raw |-> raw[w], tokens |-> tokens]
<1>1. tokens \in Nat /\ raw[w] \in Nat
    <2>1. Len(events) \in Nat
        BY LenProperties DEF TypeOK, RowsTyped
    <2> QED
        BY <2>1, LedgerAssumption DEF TypeOK, WritersTyped
<1>2. call \in [raw : Nat, tokens : Nat] /\ call.tokens = tokens
    BY <1>1
<1>3. calls' = Append(calls, call)
    BY DEF RecordModelCall
<1>4. calls \in Seq([raw : Nat, tokens : Nat])
    BY DEF TypeOK, TablesTyped
<1> HIDE DEF call
<1>5. /\ calls' \in Seq([raw : Nat, tokens : Nat])
      /\ Len(calls') = Len(calls) + 1
      /\ calls'[Len(calls')] = call
      /\ \A c \in 1..Len(calls) : calls'[c] = calls[c]
    BY <1>2, <1>3, <1>4
<1>6. TotalOf(calls') = TotalOf(calls) + tokens
    BY <1>2, <1>4, <1>5, TotalGrows
<1> QED
    BY <1>6, TotalsPrimed

\* The call that is counted adds its tokens to the table and to the cache of the
\* only process that is running.
LEMMA CacheCounts ==
    ASSUME TypeOK, OneWriter, CacheInv,
           NEW w \in Writers, NEW tokens \in TokenCounts, RecordModelCall(w, tokens)
    PROVE  CacheInv'
<1>1. tokens \in Nat /\ MaxTotal \in Nat
    BY LedgerAssumption
<1>3. /\ KnownTotal(w) + tokens <= MaxTotal
      /\ recordedTokens' = [recordedTokens EXCEPT ![w] = KnownTotal(w) + tokens]
      /\ pc' = [pc EXCEPT ![w] = "open"]
      /\ pc[w] = "normalize"
    BY DEF RecordModelCall, PendingCall
<1>7. UsageTotal' = UsageTotal + tokens
    BY TotalCounts
<1>8. KnownTotal(w) = UsageTotal
    BY KnownTotalIsTotal
<1>9. ASSUME NEW v \in Writers
      PROVE  /\ recordedTokens'[v] = Unknown \/ recordedTokens'[v] = UsageTotal'
             /\ pc'[v] = "closed" => recordedTokens'[v] = Unknown
    <2>1. CASE v = w
        BY <2>1, <1>3, <1>7, <1>8 DEF TypeOK, WritersTyped
    <2>2. CASE v # w
        <3>1. pc[v] = "closed"
            BY <2>2, <1>3 DEF OneWriter
        <3>2. recordedTokens[v] = Unknown
            BY <3>1 DEF CacheInv
        <3>3. recordedTokens'[v] = recordedTokens[v]
            BY <2>2, <1>3 DEF TypeOK, WritersTyped
        <3> QED
            BY <3>2, <3>3
    <2> QED
        BY <2>1, <2>2
<1>10. UsageTotal' \in Int /\ UsageTotal' <= MaxTotal
    <2>1. UsageTotal \in Int
        BY DEF CacheInv
    <2> QED
        BY <2>1, <1>1, <1>3, <1>7, <1>8
<1> QED
    BY <1>9, <1>10 DEF CacheInv

LEMMA CacheStep ==
    ASSUME TypeOK, OneWriter, CacheInv, [Next]_vars
    PROVE  CacheInv'
<1> USE DEF TypeOK, WritersTyped
<1>1. ASSUME NEW w \in Writers, NEW tokens \in TokenCounts, RecordModelCall(w, tokens)
      PROVE  CacheInv'
    BY <1>1, CacheCounts
<1>2. ASSUME NEW w \in Writers, NEW delivery, Open(w, delivery) PROVE CacheInv'
    BY <1>2, CacheMoves DEF Open, CacheInv, ledgerVars
<1>3. ASSUME NEW w \in Writers, BeginAcceptanceBoundary(w) PROVE CacheInv'
    BY <1>3, CacheMoves DEF BeginAcceptanceBoundary, CacheInv, ledgerVars
<1>4. ASSUME NEW w \in Writers, Close(w) \/ Crash(w) PROVE CacheInv'
    BY <1>4, CacheMoves DEF Close, Crash, Exit, CacheInv, ledgerVars
<1>5. ASSUME NEW w \in Writers, NEW i \in Identities,
             AppendRawEvent(w, i) \/ SuppressDuplicate(w, i)
      PROVE  CacheInv'
    BY <1>5, CacheMoves DEF AppendRawEvent, SuppressDuplicate, CacheInv, ledgerVars
<1>6. ASSUME NEW w \in Writers, SkipNormalization(w) \/ Respond(w)
      PROVE  CacheInv'
    BY <1>6, CacheMoves DEF SkipNormalization, Respond, CacheInv, ledgerVars
<1>7. ASSUME NEW w \in Writers, RejectModelCall(w) PROVE CacheInv'
    <2>1. KnownTotal(w) = UsageTotal
        BY KnownTotalIsTotal
    <2> QED
        BY <1>7, <2>1, CacheMoves DEF RejectModelCall, CacheInv, ledgerVars
<1>8. ASSUME NEW w \in Writers, NEW tokens, RejectOverflow(w, tokens) PROVE CacheInv'
    <2>1. KnownTotal(w) = UsageTotal
        BY KnownTotalIsTotal
    <2> QED
        BY <1>8, <2>1, CacheMoves DEF RejectOverflow, CacheInv, ledgerVars
<1>9. ASSUME NEW w \in Writers, NEW b, AppendAcceptanceBoundaryMarker(w, b)
      PROVE  CacheInv'
    BY <1>9, CacheMoves DEF AppendAcceptanceBoundaryMarker, CacheInv, ledgerVars
<1>10. CASE UNCHANGED vars
    <2>1. UsageTotal' = UsageTotal
        BY <1>10, TotalsPrimed DEF vars
    <2> QED
        BY <2>1, <1>10 DEF CacheInv, vars
<1> QED
    BY <1>1, <1>2, <1>3, <1>4, <1>5, <1>6, <1>7, <1>8, <1>9, <1>10 DEF Next, Handle

LEMMA InitTotal == ASSUME Init PROVE UsageTotal = 0
<1>1. calls = <<>> /\ Len(calls) = 0
    BY DEF Init
<1>2. UsageTotal = SumOf(TokensOf(calls), 1..Len(calls))
    BY <1>1, TotalsPrimed, TotalIsSum
<1>3. 1..Len(calls) = {}
    BY <1>1
<1>4. SumOf(TokensOf(calls), {}) = 0
    BY FS_EmptySet, SumSteps
<1> QED
    BY <1>2, <1>3, <1>4, Zenon

LEMMA InitCache == ASSUME Init PROVE CacheInv
BY InitTotal, LedgerAssumption DEF Init, CacheInv

\* Whatever crashed, failed or was delivered twice, the total a writer works with
\* is the one in the database, and it fits the integer range (nextUsageTotal).
THEOREM AggregateIsExact == Spec => []CachedTotalIsExact
<1>1. Init => CacheInv
    BY InitCache
<1>2. TypeOK /\ OneWriter /\ CacheInv /\ [Next]_vars => CacheInv'
    BY CacheStep
<1>3. Inv => TypeOK /\ OneWriter
    BY DEF Inv
<1>4. CacheInv => CachedTotalIsExact
    BY DEF CacheInv, CachedTotalIsExact
<1> QED
    BY <1>1, <1>2, <1>3, <1>4, InvAlways, PTL DEF Spec

-----------------------------------------------------------------------------
(* Refinement of the abstract usage log.                                   *)

\* What the ledger says of an identity, under the refinement mapping.
Stored == {i \in Identities : dedup[i] # 0}

CountOf == [i \in Identities |->
              IF CallsOf(i) = {} THEN Unknown
              ELSE calls[CHOOSE c \in CallsOf(i) : TRUE].tokens]

CountedIds == {i \in Identities : CountOf[i] # Unknown}

LEMMA LogTotalIsSum ==
    /\ Log!CountedTotal = SumOf(CountOf, CountedIds)
    /\ Log!CountedTotal' = SumOf(CountOf', CountedIds')
<1>1. Log!CountedTotal = SumOf(CountOf, CountedIds)
    BY DEF Log!CountedTotal, Log!Counted, SumOf, CountOf, CountedIds,
      MapThenSumSet, MapThenFoldSet, Log!MapThenSumSet, Log!MapThenFoldSet
<1>2. Log!CountedTotal' = SumOf(CountOf', CountedIds')
    BY DEF Log!CountedTotal, Log!Counted, SumOf, CountOf, CountedIds,
      MapThenSumSet, MapThenFoldSet, Log!MapThenSumSet, Log!MapThenFoldSet
<1> QED
    BY <1>1, <1>2

\* The calls of a row, and what a row counts for.
CallsFor(cs, row) == {c \in 1..Len(cs) : cs[c].raw = row}

CountFor(cs, row) ==
    IF CallsFor(cs, row) = {} THEN Unknown
    ELSE cs[CHOOSE c \in CallsFor(cs, row) : TRUE].tokens

LEMMA CountOfRows ==
    /\ CountOf = [i \in Identities |-> CountFor(calls, dedup[i])]
    /\ CountOf' = [i \in Identities |-> CountFor(calls', dedup'[i])]
BY DEF CountOf, CallsOf, CallNumbers, CountFor, CallsFor

LEMMA NotCounted ==
    ASSUME NEW cs, NEW row, \A c \in 1..Len(cs) : cs[c].raw # row
    PROVE  CountFor(cs, row) = Unknown
BY DEF CountFor, CallsFor

LEMMA CountedAs ==
    ASSUME NEW cs, NEW row, NEW c \in 1..Len(cs), cs[c].raw = row,
           \A d \in 1..Len(cs) : cs[d].raw = row => d = c
    PROVE  CountFor(cs, row) = cs[c].tokens
<1>1. CallsFor(cs, row) = {c}
    BY DEF CallsFor
<1>2. (CHOOSE d \in {c} : TRUE) = c
    OBVIOUS
<1> QED
    BY <1>1, <1>2, Zenon DEF CountFor

LEMMA CountStays ==
    ASSUME NEW cs, NEW new, Len(cs) \in Nat, Len(new) = Len(cs) + 1,
           \A c \in 1..Len(cs) : new[c] = cs[c],
           NEW row, new[Len(cs) + 1].raw # row
    PROVE  CountFor(new, row) = CountFor(cs, row)
<1>1. CallsFor(new, row) = CallsFor(cs, row)
    BY DEF CallsFor
<1>2. CASE CallsFor(cs, row) = {}
    BY <1>1, <1>2 DEF CountFor
<1>3. CASE CallsFor(cs, row) # {}
    <2> DEFINE c == CHOOSE d \in CallsFor(cs, row) : TRUE
    <2>1. c \in CallsFor(cs, row)
        BY <1>3
    <2>2. c \in 1..Len(cs)
        BY <2>1 DEF CallsFor
    <2>3. CountFor(new, row) = new[c].tokens /\ CountFor(cs, row) = cs[c].tokens
        BY <1>1, <1>3, Zenon DEF CountFor
    <2> HIDE DEF c
    <2>4. new[c] = cs[c]
        BY <2>2
    <2> QED
        BY <2>3, <2>4, Zenon
<1> QED
    BY <1>2, <1>3

\* What is counted adds up to the total of the table of calls.
TotalInv ==
    /\ IsFiniteSet(CountedIds)
    /\ \A i \in CountedIds : CountOf[i] \in Nat
    /\ SumOf(CountOf, CountedIds) = UsageTotal

\* An event more is not counted yet: its row is new, so no call refers to it.
LEMMA InsertCountsNothing ==
    ASSUME TypeOK, Inserts
    PROVE  CountOf' = CountOf
<1>1. PICK key \in Keys :
         /\ dedup[key] = 0
         /\ dedup' = [dedup EXCEPT ![key] = Len(events) + 1]
         /\ calls' = calls
    <2>1. PICK key \in Keys, chain \in Chains, boundary \in Nat :
             InsertRawEvent(key, chain, boundary) /\ dedup[key] = 0 /\ calls' = calls
        BY Zenon DEF Inserts
    <2> QED
        BY <2>1 DEF InsertRawEvent, NextSequence
<1>2. Len(events) \in Nat
    BY LenProperties DEF TypeOK, RowsTyped
<1>3. \A c \in 1..Len(calls) : calls[c].raw \in 1..Len(events)
    BY DEF TypeOK, TablesTyped, RowNumbers, CallNumbers
<1>4. ASSUME NEW i \in Identities
      PROVE  CountFor(calls', dedup'[i]) = CountFor(calls, dedup[i])
    <2>1. CASE i = key
        <3>1. dedup[i] = 0 /\ dedup'[i] = Len(events) + 1
            BY <1>1, <2>1 DEF TypeOK, TablesTyped
        <3>2. \A c \in 1..Len(calls) : calls[c].raw # 0 /\ calls[c].raw # Len(events) + 1
            BY <1>2, <1>3
        <3> QED
            BY <1>1, <3>1, <3>2, NotCounted
    <2>2. CASE i # key
        <3>1. dedup'[i] = dedup[i]
            BY <1>1, <2>2 DEF TypeOK, TablesTyped, Keys
        <3> QED
            BY <1>1, <3>1
    <2> QED
        BY <2>1, <2>2
<1> QED
    BY <1>4, CountOfRows, Zenon

\* The call that is recorded counts the identity of the event it was made from,
\* and that identity was not counted.
LEMMA RecordCountsOne ==
    ASSUME TypeOK, DedupMatchesLedger, NEW w \in Writers, NEW tokens \in TokenCounts,
           RecordModelCall(w, tokens),
           NEW i, i = events[raw[w]].key
    PROVE  /\ i \in ModelCalls /\ i \in Identities
           /\ dedup[i] = raw[w] /\ raw[w] # 0
           /\ CountOf[i] = Unknown
           /\ CountOf'[i] = tokens
           /\ \A j \in Identities \ {i} : CountOf'[j] = CountOf[j]
<1>1. /\ i \in ModelCalls
      /\ pc[w] = "normalize"
      /\ \A c \in 1..Len(calls) : calls[c].raw # raw[w]
      /\ dedup' = dedup
      /\ calls' = Append(calls, [raw |-> raw[w], tokens |-> tokens])
    BY DEF RecordModelCall, PendingCall, HasModelCallForRawEvent
<1>2. i \in Identities /\ i \in Keys
    BY <1>1, LedgerAssumption DEF Keys
<1>3. raw[w] \in RowNumbers /\ raw[w] # 0
    <2>1. Len(events) \in Nat
        BY LenProperties DEF TypeOK, RowsTyped
    <2> QED
        BY <1>1, <2>1 DEF TypeOK, WritersTyped, RowNumbers
<1>4. dedup[i] = raw[w]
    BY <1>3 DEF DedupMatchesLedger
<1>5. \A j \in Identities \ {i} : dedup[j] # raw[w]
    <2> SUFFICES ASSUME NEW j \in Identities, j # i, dedup[j] = raw[w] PROVE FALSE
        OBVIOUS
    <2>1. j \in Keys
        BY DEF Keys
    <2> QED
        BY <1>3, <2>1 DEF DedupMatchesLedger
<1>6. /\ Len(calls) \in Nat
      /\ Len(calls') = Len(calls) + 1
      /\ calls'[Len(calls) + 1].raw = raw[w]
      /\ \A c \in 1..Len(calls) : calls'[c] = calls[c]
    BY CallRecorded
<1>7. calls'[Len(calls) + 1].tokens = tokens
    <2> DEFINE call == [raw |-> raw[w], tokens |-> tokens]
    <2>1. call.tokens = tokens /\ calls' = Append(calls, call)
        BY <1>1
    <2>2. calls \in Seq([raw : Nat, tokens : Nat])
        BY DEF TypeOK, TablesTyped
    <2> HIDE DEF call
    <2>3. calls'[Len(calls) + 1] = call
        BY <2>1, <2>2
    <2> QED
        BY <2>1, <2>3
<1>8. CountFor(calls, raw[w]) = Unknown
    BY <1>1, NotCounted
<1>9. CountFor(calls', raw[w]) = tokens
    <2>1. Len(calls) + 1 \in 1..Len(calls')
        BY <1>6
    <2>2. \A d \in 1..Len(calls') : calls'[d].raw = raw[w] => d = Len(calls) + 1
        BY <1>1, <1>6
    <2> QED
        BY <1>6, <1>7, <2>1, <2>2, CountedAs
<1>10. \A j \in Identities \ {i} : CountFor(calls', dedup[j]) = CountFor(calls, dedup[j])
    BY <1>5, <1>6, CountStays
<1>11. /\ CountOf[i] = CountFor(calls, dedup[i])
       /\ CountOf'[i] = CountFor(calls', dedup[i])
       /\ \A j \in Identities : /\ CountOf[j] = CountFor(calls, dedup[j])
                                /\ CountOf'[j] = CountFor(calls', dedup[j])
    BY <1>1, <1>2, CountOfRows
<1> QED
    BY <1>1, <1>2, <1>3, <1>4, <1>8, <1>9, <1>10, <1>11

\* One count more, of an identity that had none, adds to the sum of the counts.
LEMMA CountsGrow ==
    ASSUME TotalInv, NEW i \in Identities, NEW tokens \in Nat,
           CountOf[i] = Unknown, CountOf'[i] = tokens,
           \A j \in Identities \ {i} : CountOf'[j] = CountOf[j]
    PROVE  /\ IsFiniteSet(CountedIds')
           /\ \A j \in CountedIds' : CountOf'[j] \in Nat
           /\ UsageTotal \in Int
           /\ SumOf(CountOf', CountedIds') = UsageTotal + tokens
<1> DEFINE S == CountedIds
           T == CountedIds'
           v == CountOf
           u == CountOf'
<1>1. Unknown \notin Nat
    BY LedgerAssumption
<1>2. T = S \union {i} /\ i \notin S
    BY <1>1 DEF CountedIds
<1>3. \A j \in S : u[j] = v[j]
    BY <1>2 DEF CountedIds
<1>4. /\ IsFiniteSet(S)
      /\ \A j \in S : v[j] \in Nat
      /\ SumOf(v, S) = UsageTotal
    BY DEF TotalInv
<1>5. u[i] = tokens
    OBVIOUS
<1> HIDE DEF S, T, u, v
<1>6. IsFiniteSet(T)
    BY <1>2, <1>4, FS_AddElement
<1>7. \A j \in T : u[j] \in Nat
    BY <1>2, <1>3, <1>4, <1>5
<1>8. SumOf(v, S) \in Int
    BY <1>4, SumType
<1>9. \A j \in S : v[j] = u[j]
    BY <1>3
<1>10. SumOf(v, S) = SumOf(u, S)
    BY <1>4, <1>9, SumOfSame
<1>11. i \in T /\ T \ {i} = S
    BY <1>2
<1>12. \A j \in T : u[j] \in Int
    BY <1>7
<1>13. SumOf(u, T) = u[i] + SumOf(u, T \ {i})
    BY <1>6, <1>11, <1>12, SumWithout
<1>14. SumOf(u, T \ {i}) = SumOf(v, S)
    BY <1>10, <1>11, Zenon
<1>15. SumOf(u, T) = tokens + SumOf(v, S)
    BY <1>5, <1>13, <1>14, Zenon
<1>16. SumOf(v, S) = UsageTotal
    BY <1>4
<1> DEFINE total == UsageTotal
<1>17. total \in Int /\ SumOf(u, T) = tokens + total
    BY <1>8, <1>15, <1>16, Zenon
<1> HIDE DEF total
<1>18. tokens + total = total + tokens
    BY <1>17
<1> QED
    BY <1>6, <1>7, <1>17, <1>18, Zenon DEF T, u, total

LEMMA TotalStep ==
    ASSUME TypeOK, OneWriter, DedupMatchesLedger, CacheInv, TotalInv, [Next]_vars
    PROVE  TotalInv'
<1>1. ASSUME NEW w \in Writers, NEW tokens \in TokenCounts, RecordModelCall(w, tokens)
      PROVE  TotalInv'
    <2> DEFINE i == events[raw[w]].key
    <2>1. /\ i \in Identities /\ CountOf[i] = Unknown /\ CountOf'[i] = tokens
          /\ \A j \in Identities \ {i} : CountOf'[j] = CountOf[j]
        BY <1>1, RecordCountsOne
    <2>2. tokens \in Nat
        BY LedgerAssumption
    <2> HIDE DEF i
    <2>3. /\ IsFiniteSet(CountedIds')
          /\ \A j \in CountedIds' : CountOf'[j] \in Nat
          /\ SumOf(CountOf', CountedIds') = UsageTotal + tokens
        BY <2>1, <2>2, CountsGrow
    <2>4. UsageTotal' = UsageTotal + tokens
        BY <1>1, TotalCounts
    <2> QED
        BY <2>3, <2>4 DEF TotalInv
<1>2. CASE calls' = calls
    <2>1. CountOf' = CountOf
        <3>1. CASE Inserts
            BY <3>1, InsertCountsNothing
        <3>2. CASE UNCHANGED <<events, dedup>>
            BY <3>2, <1>2 DEF CountOf, CallsOf, CallNumbers
        <3> QED
            BY <3>1, <3>2, InsertOrNot DEF TypeOK
    <2>2. CountedIds' = CountedIds
        BY <2>1, Zenon DEF CountedIds
    <2>3. UsageTotal' = UsageTotal
        BY <1>2, TotalsPrimed
    <2> QED
        BY <2>1, <2>2, <2>3 DEF TotalInv
<1> QED
    BY <1>1, <1>2, OnlyRecordModelCallCounts

-----------------------------------------------------------------------------
(* What a handler has worked through is stored and counted.                *)

HasCall(cs, row) == \E c \in 1..Len(cs) : cs[c].raw = row

IngestedBy(w) ==
    pc[w] \in {"open", "normalize"} =>
        \A i \in batch[w] \ todo[w] :
            /\ dedup[i] # 0
            /\ i \in ModelCalls =>
                  \/ HasCall(calls, dedup[i])
                  \/ pc[w] = "normalize" /\ raw[w] = dedup[i]

IngestedInv == \A w \in Writers : IngestedBy(w)

\* A reserved identity stays reserved for its row, a counted row counted.
LEMMA StoredStays ==
    ASSUME TypeOK, [Next]_vars
    PROVE  /\ \A i \in Keys : dedup[i] # 0 => dedup'[i] = dedup[i]
           /\ \A row : HasCall(calls, row) =>
                  HasCall(calls', row)
<1>1. ASSUME NEW i \in Keys, dedup[i] # 0 PROVE dedup'[i] = dedup[i]
    <2>1. CASE UNCHANGED <<events, dedup>>
        BY <2>1
    <2>2. CASE Inserts
        <3>1. PICK key \in Keys : /\ dedup[key] = 0
                                  /\ dedup' = [dedup EXCEPT ![key] = Len(events) + 1]
            BY <2>2, OneRowMore
        <3> QED
            BY <3>1, <1>1 DEF TypeOK, TablesTyped
    <2> QED
        BY <2>1, <2>2, InsertOrNot DEF TypeOK
<1>2. ASSUME NEW row, NEW c \in 1..Len(calls), calls[c].raw = row
      PROVE  c \in 1..Len(calls') /\ calls'[c].raw = row
    <2>1. CASE calls' = calls
        BY <2>1, <1>2
    <2>2. ASSUME NEW w \in Writers, NEW tokens \in TokenCounts, RecordModelCall(w, tokens)
          PROVE  c \in 1..Len(calls') /\ calls'[c].raw = row
        BY <2>2, <1>2, CallRecorded
    <2> QED
        BY <2>1, <2>2, OnlyRecordModelCallCounts
<1> QED
    BY <1>1, <1>2 DEF HasCall

\* A handler that is not at work on a line keeps what it has worked through.
LEMMA IngestedKept ==
    ASSUME TypeOK, [Next]_vars, NEW w \in Writers, IngestedBy(w),
           batch'[w] = batch[w], todo'[w] = todo[w],
           \/ pc'[w] \notin {"open", "normalize"}
           \/ pc'[w] = pc[w] /\ raw'[w] = raw[w]
    PROVE  IngestedBy(w)'
<1>1. batch[w] \subseteq Keys
    BY DEF TypeOK, WritersTyped, Keys
<1> QED
    BY <1>1, StoredStays DEF IngestedBy

\* A handler takes a line off its batch when the row of that line is at hand.
LEMMA LineTaken ==
    ASSUME TypeOK, [Next]_vars, NEW w \in Writers, IngestedBy(w),
           NEW i \in Identities, pc[w] = "open",
           AppendRawEvent(w, i) \/ SuppressDuplicate(w, i)
    PROVE  IngestedBy(w)'
<1>1. Len(events) \in Nat
    BY LenProperties DEF TypeOK, RowsTyped
<1>2. /\ batch'[w] = batch[w] /\ todo'[w] = todo[w] \ {i}
      /\ pc'[w] = "normalize"
      /\ raw'[w] = dedup'[i]
      /\ dedup'[i] # 0
    <2>1. CASE AppendRawEvent(w, i)
        <3>1. raw'[w] = Len(events) + 1
            BY <2>1 DEF AppendRawEvent, NextSequence, TypeOK, WritersTyped
        <3>2. dedup'[i] = Len(events) + 1
            BY <2>1
            DEF AppendRawEvent, InsertRawEvent, NextSequence, TypeOK, TablesTyped, Keys
        <3>3. batch'[w] = batch[w] /\ todo'[w] = todo[w] \ {i} /\ pc'[w] = "normalize"
            BY <2>1 DEF AppendRawEvent, TypeOK, WritersTyped
        <3> QED
            BY <1>1, <3>1, <3>2, <3>3
    <2>2. CASE SuppressDuplicate(w, i)
        BY <2>2 DEF SuppressDuplicate, ledgerVars, TypeOK, WritersTyped
    <2> QED
        BY <2>1, <2>2
<1>3. batch[w] \subseteq Keys
    BY DEF TypeOK, WritersTyped, Keys
<1>4. ASSUME NEW j \in batch'[w] \ todo'[w]
      PROVE  /\ dedup'[j] # 0
             /\ j \in ModelCalls =>
                   HasCall(calls', dedup'[j]) \/ raw'[w] = dedup'[j]
    <2>1. CASE j = i
        BY <2>1, <1>2
    <2>2. CASE j # i
        <3>1. j \in batch[w] \ todo[w]
            BY <2>2, <1>2, <1>4
        <3>2. /\ dedup[j] # 0
              /\ j \in ModelCalls => HasCall(calls, dedup[j])
            BY <3>1 DEF IngestedBy
        <3> QED
            BY <3>1, <3>2, <1>3, StoredStays
    <2> QED
        BY <2>1, <2>2
<1> QED
    BY <1>2, <1>4 DEF IngestedBy

\* A handler leaves a line when its call is recorded, or when there is none to
\* record.
LEMMA LineDone ==
    ASSUME TypeOK, DedupMatchesLedger, [Next]_vars, NEW w \in Writers, IngestedBy(w),
           \/ SkipNormalization(w)
           \/ \E tokens \in TokenCounts : RecordModelCall(w, tokens)
    PROVE  IngestedBy(w)'
<1>1. /\ batch'[w] = batch[w] /\ todo'[w] = todo[w] /\ pc[w] = "normalize"
      /\ dedup' = dedup
    BY DEF SkipNormalization, RecordModelCall, PendingCall, ledgerVars
<1>2. events[raw[w]].key \in ModelCalls => HasCall(calls', raw[w])
    <2>1. CASE SkipNormalization(w)
        BY <2>1 DEF SkipNormalization, ledgerVars, HasModelCallForRawEvent, HasCall
    <2>2. ASSUME NEW tokens \in TokenCounts, RecordModelCall(w, tokens)
          PROVE  HasCall(calls', raw[w])
        <3>1. /\ Len(calls) \in Nat
              /\ Len(calls') = Len(calls) + 1
              /\ calls'[Len(calls) + 1].raw = raw[w]
              /\ raw'[w] = raw[w]
            BY <2>2, CallRecorded DEF RecordModelCall
        <3>2. Len(calls) + 1 \in 1..Len(calls')
            BY <3>1
        <3> QED
            BY <3>1, <3>2 DEF HasCall
    <2> QED
        BY <2>1, <2>2
<1>3. raw'[w] = raw[w]
    BY DEF SkipNormalization, RecordModelCall
<1>4. batch[w] \subseteq Keys
    BY DEF TypeOK, WritersTyped, Keys
<1>5. ASSUME NEW j \in batch[w] \ todo[w]
      PROVE  /\ dedup'[j] # 0
             /\ j \in ModelCalls => HasCall(calls', dedup'[j])
    <2>1. /\ dedup[j] # 0
          /\ j \in ModelCalls => HasCall(calls, dedup[j]) \/ raw[w] = dedup[j]
        BY <1>1, <1>5 DEF IngestedBy
    <2>2. j \in Keys /\ events[dedup[j]].key = j
        BY <1>4, <1>5, <2>1 DEF DedupMatchesLedger
    <2>3. j \in ModelCalls => HasCall(calls', dedup[j])
        <3>1. CASE raw[w] = dedup[j]
            BY <3>1, <1>2, <1>3, <2>2, <1>1
        <3>2. CASE j \in ModelCalls /\ HasCall(calls, dedup[j])
            BY <3>2, <1>1, StoredStays
        <3> QED
            BY <2>1, <3>1, <3>2
    <2> QED
        BY <2>1, <2>3, <1>1
<1> QED
    BY <1>1, <1>5 DEF IngestedBy

LEMMA IngestedStep ==
    ASSUME TypeOK, DedupMatchesLedger, IngestedInv, [Next]_vars
    PROVE  IngestedInv'
<1> SUFFICES ASSUME NEW v \in Writers PROVE IngestedBy(v)'
    BY DEF IngestedInv
<1> USE DEF TypeOK, WritersTyped
<1>a. IngestedBy(v)
    BY DEF IngestedInv
<1>1. ASSUME NEW w \in Writers, NEW delivery, Open(w, delivery)
      PROVE  IngestedBy(v)'
    <2>1. CASE v = w
        <3>1. batch'[v] = delivery /\ todo'[v] = delivery
            BY <1>1, <2>1 DEF Open
        <3> QED
            BY <3>1 DEF IngestedBy
    <2>2. CASE v # w
        BY <1>a, <1>1, <2>2, IngestedKept DEF Open
    <2> QED
        BY <2>1, <2>2
<1>2. ASSUME NEW w \in Writers, BeginAcceptanceBoundary(w) PROVE IngestedBy(v)'
    BY <1>a, <1>2, IngestedKept DEF BeginAcceptanceBoundary
<1>3. ASSUME NEW w \in Writers, Close(w) \/ Crash(w) PROVE IngestedBy(v)'
    <2>1. CASE v = w
        <3>1. pc'[v] = "closed"
            BY <1>3, <2>1 DEF Close, Crash, Exit
        <3> QED
            BY <3>1 DEF IngestedBy
    <2>2. CASE v # w
        BY <1>a, <1>3, <2>2, IngestedKept DEF Close, Crash, Exit
    <2> QED
        BY <2>1, <2>2
<1>4. ASSUME NEW w \in Writers, NEW i \in Identities,
             AppendRawEvent(w, i) \/ SuppressDuplicate(w, i)
      PROVE  IngestedBy(v)'
    <2>1. CASE v = w
        <3>1. pc[v] = "open"
            BY <1>4, <2>1 DEF AppendRawEvent, SuppressDuplicate
        <3> QED
            BY <1>a, <1>4, <2>1, <3>1, LineTaken
    <2>2. CASE v # w
        BY <1>a, <1>4, <2>2, IngestedKept DEF AppendRawEvent, SuppressDuplicate
    <2> QED
        BY <2>1, <2>2
<1>5. ASSUME NEW w \in Writers, SkipNormalization(w)
      PROVE  IngestedBy(v)'
    <2>1. CASE v = w
        BY <1>a, <1>5, <2>1, LineDone
    <2>2. CASE v # w
        BY <1>a, <1>5, <2>2, IngestedKept DEF SkipNormalization
    <2> QED
        BY <2>1, <2>2
<1>6. ASSUME NEW w \in Writers, NEW tokens \in TokenCounts, RecordModelCall(w, tokens)
      PROVE  IngestedBy(v)'
    <2>1. CASE v = w
        BY <1>a, <1>6, <2>1, LineDone
    <2>2. CASE v # w
        BY <1>a, <1>6, <2>2, IngestedKept DEF RecordModelCall
    <2> QED
        BY <2>1, <2>2
<1>7. ASSUME NEW w \in Writers, NEW tokens, NEW b,
             \/ RejectModelCall(w)
             \/ RejectOverflow(w, tokens)
             \/ Respond(w)
             \/ AppendAcceptanceBoundaryMarker(w, b)
      PROVE  IngestedBy(v)'
    BY <1>a, <1>7, IngestedKept
    DEF RejectModelCall, RejectOverflow, Respond, AppendAcceptanceBoundaryMarker
<1>8. CASE UNCHANGED vars
    BY <1>a, <1>8, IngestedKept DEF vars
<1> QED
    BY <1>1, <1>2, <1>3, <1>4, <1>5, <1>6, <1>7, <1>8 DEF Next, Handle

-----------------------------------------------------------------------------
(* Every step is a step of the abstract log, or leaves it as it is.        *)

LEMMA LogStore ==
    ASSUME NEW i \in Identities, i \notin Stored, Stored' = Stored \union {i},
           CountOf' = CountOf, acked' = acked
    PROVE  Log!Next
<1>1. Log!Store(i)
    BY DEF Log!Store, Stored, CountOf
<1> QED
    BY <1>1 DEF Log!Next

LEMMA LogCount ==
    ASSUME NEW i \in ModelCalls, NEW tokens \in TokenCounts,
           i \in Stored, CountOf[i] = Unknown,
           SumOf(CountOf, CountedIds) + tokens <= MaxTotal,
           CountOf' = [CountOf EXCEPT ![i] = tokens],
           Stored' = Stored, acked' = acked
    PROVE  Log!Next
<1>1. Log!CountedTotal + tokens <= MaxTotal
    BY LogTotalIsSum, Zenon
<1>2. Log!Count(i, tokens)
    BY <1>1, Zenon DEF Log!Count, Stored, CountOf
<1> QED
    BY <1>2 DEF Log!Next

LEMMA LogAcknowledge ==
    ASSUME NEW delivery \in SUBSET Identities, delivery \subseteq Stored,
           delivery \intersect ModelCalls \subseteq CountedIds,
           acked' = acked \union delivery,
           Stored' = Stored, CountOf' = CountOf
    PROVE  Log!Next
<1>1. Log!Acknowledge(delivery)
    BY Zenon DEF Log!Acknowledge, Log!Counted, Stored, CountOf, CountedIds
<1> QED
    BY <1>1 DEF Log!Next

LEMMA LogStutter ==
    ASSUME Stored' = Stored, CountOf' = CountOf, acked' = acked
    PROVE  UNCHANGED Log!logVars
BY DEF Log!logVars, Stored, CountOf

LEMMA SameTables ==
    ASSUME dedup' = dedup, calls' = calls
    PROVE  Stored' = Stored /\ CountOf' = CountOf
<1>1. Stored' = Stored
    BY DEF Stored
<1>2. CountOf' = CountOf
    BY CountOfRows
<1> QED
    BY <1>1, <1>2

\* An identity with a call is counted.
LEMMA HasCallIsCounted ==
    ASSUME TypeOK, NEW i \in Identities, HasCall(calls, dedup[i])
    PROVE  i \in CountedIds
<1> DEFINE c == CHOOSE d \in CallsFor(calls, dedup[i]) : TRUE
<1>1. CallsFor(calls, dedup[i]) # {}
    BY DEF HasCall, CallsFor
<1>2. c \in CallsFor(calls, dedup[i])
    BY <1>1
<1>3. CountFor(calls, dedup[i]) = calls[c].tokens
    BY <1>1, Zenon DEF CountFor
<1>4. c \in 1..Len(calls)
    BY <1>2 DEF CallsFor
<1> HIDE DEF c
<1>5. calls[c].tokens \in Nat
    <2>1. calls \in Seq([raw : Nat, tokens : Nat])
        BY DEF TypeOK, TablesTyped
    <2>2. calls[c] \in [raw : Nat, tokens : Nat]
        BY <1>4, <2>1, ElementOfSeq
    <2> QED
        BY <2>2
<1>6. CountOf[i] = calls[c].tokens
    BY <1>3, CountOfRows
<1> QED
    BY <1>5, <1>6, LedgerAssumption DEF CountedIds

LogInv == Inv /\ CacheInv /\ TotalInv /\ IngestedInv

LEMMA AppendIsStore ==
    ASSUME TypeOK, NEW w \in Writers, NEW i \in Identities, AppendRawEvent(w, i)
    PROVE  Log!Next
<1>1. Inserts
    <2>1. i \in Keys /\ i \notin Boundaries /\ ChainOf[i] \in Chains /\ 0 \in Nat
        BY LedgerAssumption DEF Keys
    <2> QED
        BY <2>1 DEF AppendRawEvent, Inserts
<1>2. CountOf' = CountOf
    BY <1>1, InsertCountsNothing
<1>3. /\ dedup[i] = 0 /\ acked' = acked
      /\ dedup' = [dedup EXCEPT ![i] = Len(events) + 1]
    BY DEF AppendRawEvent, InsertRawEvent, NextSequence
<1>4. Len(events) \in Nat
    BY LenProperties DEF TypeOK, RowsTyped
<1>5. /\ dedup'[i] # 0
      /\ \A j \in Identities \ {i} : dedup'[j] = dedup[j]
    BY <1>3, <1>4 DEF TypeOK, TablesTyped, Keys
<1>6. i \notin Stored /\ Stored' = Stored \union {i}
    BY <1>3, <1>5 DEF Stored
<1> QED
    BY <1>2, <1>3, <1>6, LogStore

LEMMA RecordIsCount ==
    ASSUME TypeOK, DedupMatchesLedger, CacheInv, TotalInv,
           NEW w \in Writers, NEW tokens \in TokenCounts, RecordModelCall(w, tokens)
    PROVE  Log!Next
<1> DEFINE i == events[raw[w]].key
<1>1. /\ i \in ModelCalls /\ i \in Identities
      /\ dedup[i] # 0
      /\ CountOf[i] = Unknown
      /\ CountOf'[i] = tokens
      /\ \A j \in Identities \ {i} : CountOf'[j] = CountOf[j]
    BY RecordCountsOne
<1> HIDE DEF i
<1>2. i \in Stored
    BY <1>1 DEF Stored
<1>3. CountOf' = [CountOf EXCEPT ![i] = tokens]
    <2> DEFINE u == CountOf'
               v == CountOf
    <2>1. u = [j \in Identities |-> u[j]] /\ v = [j \in Identities |-> v[j]]
        BY DEF CountOf
    <2>2. u[i] = tokens /\ \A j \in Identities \ {i} : u[j] = v[j]
        BY <1>1
    <2> HIDE DEF u, v
    <2>3. u = [v EXCEPT ![i] = tokens]
        BY <1>1, <2>1, <2>2
    <2> QED
        BY <2>3 DEF u, v
<1>4. KnownTotal(w) + tokens <= MaxTotal /\ dedup' = dedup /\ acked' = acked
    BY DEF RecordModelCall
<1>5. SumOf(CountOf, CountedIds) + tokens <= MaxTotal
    BY <1>4, KnownTotalIsTotal, Zenon DEF TotalInv
<1>6. Stored' = Stored
    BY <1>4 DEF Stored
<1> QED
    BY <1>1, <1>2, <1>3, <1>4, <1>5, <1>6, LogCount

LEMMA RespondIsAcknowledge ==
    ASSUME TypeOK, IngestedInv, NEW w \in Writers, Respond(w)
    PROVE  Log!Next
<1>1. /\ pc[w] = "open" /\ todo[w] = {} /\ acked' = acked \union batch[w]
      /\ dedup' = dedup /\ calls' = calls
    BY DEF Respond, ledgerVars
<1>2. batch[w] \in SUBSET Identities
    BY DEF TypeOK, WritersTyped
<1>3. \A i \in batch[w] : /\ dedup[i] # 0
                          /\ i \in ModelCalls => HasCall(calls, dedup[i])
    BY <1>1 DEF IngestedInv, IngestedBy
<1>4. batch[w] \subseteq Stored
    BY <1>2, <1>3 DEF Stored
<1>5. batch[w] \intersect ModelCalls \subseteq CountedIds
    BY <1>2, <1>3, HasCallIsCounted
<1>6. Stored' = Stored /\ CountOf' = CountOf
    BY <1>1, SameTables
<1> QED
    BY <1>1, <1>2, <1>4, <1>5, <1>6, LogAcknowledge

\* A marker is no delivered identity.
LEMMA MarkerStutters ==
    ASSUME TypeOK, NEW w \in Writers, NEW b \in Boundaries,
           AppendAcceptanceBoundaryMarker(w, b)
    PROVE  UNCHANGED Log!logVars
<1>1. Len(events) \in Nat
    BY LenProperties DEF TypeOK, RowsTyped
<1>2. b \in Keys /\ b \notin Identities /\ BoundaryChain \in Chains
    BY LedgerAssumption DEF Keys
<1>3. NextSequence - 1 = Len(events)
    BY <1>1 DEF NextSequence
<1>4. Inserts
    BY <1>1, <1>2, <1>3 DEF AppendAcceptanceBoundaryMarker, Inserts
<1>5. CountOf' = CountOf
    BY <1>4, InsertCountsNothing
<1>6. acked' = acked /\ dedup' = [dedup EXCEPT ![b] = Len(events) + 1]
    BY DEF AppendAcceptanceBoundaryMarker, InsertRawEvent, NextSequence
<1>7. \A i \in Identities : dedup'[i] = dedup[i]
    BY <1>2, <1>6 DEF TypeOK, TablesTyped, Keys
<1>8. Stored' = Stored
    BY <1>7 DEF Stored
<1> QED
    BY <1>5, <1>6, <1>8, LogStutter

LEMMA SameTablesStutter ==
    ASSUME dedup' = dedup, calls' = calls, acked' = acked
    PROVE  UNCHANGED Log!logVars
<1>1. Stored' = Stored /\ CountOf' = CountOf
    BY SameTables
<1> QED
    BY <1>1, LogStutter

LEMMA LogStep ==
    ASSUME LogInv, [Next]_vars
    PROVE  [Log!Next]_(Log!logVars)
<1>1. TypeOK /\ DedupMatchesLedger /\ CacheInv /\ TotalInv /\ IngestedInv
    BY DEF LogInv, Inv
<1>2. ASSUME NEW w \in Writers, NEW i \in Identities, AppendRawEvent(w, i)
      PROVE  Log!Next
    BY <1>1, <1>2, AppendIsStore
<1>3. ASSUME NEW w \in Writers, NEW tokens \in TokenCounts, RecordModelCall(w, tokens)
      PROVE  Log!Next
    BY <1>1, <1>3, RecordIsCount
<1>4. ASSUME NEW w \in Writers, Respond(w) PROVE Log!Next
    BY <1>1, <1>4, RespondIsAcknowledge
<1>5. ASSUME NEW w \in Writers, NEW b \in Boundaries, AppendAcceptanceBoundaryMarker(w, b)
      PROVE  UNCHANGED Log!logVars
    BY <1>1, <1>5, MarkerStutters
<1>6. ASSUME NEW w \in Writers, NEW delivery,
             \/ Open(w, delivery)
             \/ BeginAcceptanceBoundary(w)
             \/ Crash(w)
             \/ Close(w)
      PROVE  UNCHANGED Log!logVars
    <2>1. dedup' = dedup /\ calls' = calls /\ acked' = acked
        BY <1>6 DEF Open, BeginAcceptanceBoundary, Crash, Close, ledgerVars
    <2> QED
        BY <2>1, SameTablesStutter
<1>7. ASSUME NEW w \in Writers, NEW i, NEW tokens,
             \/ SuppressDuplicate(w, i)
             \/ SkipNormalization(w)
             \/ RejectModelCall(w)
             \/ RejectOverflow(w, tokens)
      PROVE  UNCHANGED Log!logVars
    <2>1. dedup' = dedup /\ calls' = calls /\ acked' = acked
        BY <1>7 DEF SuppressDuplicate, SkipNormalization, RejectModelCall,
                   RejectOverflow, ledgerVars
    <2> QED
        BY <2>1, SameTablesStutter
<1>8. CASE UNCHANGED vars
    <2>1. dedup' = dedup /\ calls' = calls /\ acked' = acked
        BY <1>8 DEF vars
    <2> QED
        BY <2>1, SameTablesStutter
<1>9. ASSUME NEW w \in Writers, Handle(w) PROVE Log!Next \/ UNCHANGED Log!logVars
    BY <1>2, <1>3, <1>4, <1>5, <1>6, <1>7, <1>9, Zenon DEF Handle
<1> QED
    BY <1>6, <1>8, <1>9, Zenon DEF Next

LEMMA LogInit == ASSUME Init PROVE Log!Init /\ TotalInv /\ IngestedInv
<1>1. calls = <<>> /\ Len(calls) = 0
    BY DEF Init
<1>2. \A i \in Identities : dedup[i] = 0
    BY DEF Init, Keys
<1>3. Stored = {}
    BY <1>2 DEF Stored
<1>4. \A row : CountFor(calls, row) = Unknown
    BY <1>1 DEF CountFor, CallsFor
<1>5. CountOf = [i \in Identities |-> Unknown]
    BY <1>4, CountOfRows
<1>6. CountedIds = {}
    BY <1>5 DEF CountedIds
<1>7. Log!Init
    BY <1>3, <1>5, Zenon DEF Log!Init, Stored, CountOf, Init
<1>8. SumOf(CountOf, CountedIds) = 0
    BY <1>6, FS_EmptySet, SumSteps, Zenon
<1>9. UsageTotal = 0
    BY InitTotal
<1>10. TotalInv
    BY <1>6, <1>8, <1>9, FS_EmptySet DEF TotalInv
<1>11. IngestedInv
    BY DEF Init, IngestedInv, IngestedBy
<1> QED
    BY <1>7, <1>10, <1>11

\* The ledger implements the abstract usage log: whatever is delivered, crashes
\* and is delivered again, an event is stored and counted at most once, and no
\* delivery is reported as ingested before all of it is.
THEOREM LedgerImplementsLog == Spec => ImplementsUsageLog
<1>1. Init => Inv /\ CacheInv /\ TotalInv /\ IngestedInv
    BY InitInv, InitCache, LogInit
<1>2. Init => LogInv
    BY <1>1 DEF LogInv
<1>3. LogInv /\ [Next]_vars => LogInv'
    <2> SUFFICES ASSUME LogInv, [Next]_vars PROVE LogInv'
        OBVIOUS
    <2>1. Inv /\ CacheInv /\ TotalInv /\ IngestedInv
        BY DEF LogInv
    <2>2. TypeOK /\ OneWriter /\ DedupMatchesLedger
        BY <2>1 DEF Inv
    <2>3. Inv'
        BY <2>1, NextInv
    <2>4. CacheInv'
        BY <2>1, <2>2, CacheStep
    <2>5. TotalInv'
        BY <2>1, <2>2, TotalStep
    <2>6. IngestedInv'
        BY <2>1, <2>2, IngestedStep
    <2> QED
        BY <2>3, <2>4, <2>5, <2>6 DEF LogInv
<1>4. LogInv /\ [Next]_vars => [Log!Next]_(Log!logVars)
    BY LogStep
<1>5. Init => Log!Init
    BY LogInit
<1> QED
    BY <1>2, <1>3, <1>4, <1>5, PTL DEF Spec, ImplementsUsageLog, Log!Spec

=============================================================================
