-------------------------- MODULE LedgerProperties --------------------------
(***************************************************************************)
(* What makes the ledger of module Ledger correct.                         *)
(***************************************************************************)
EXTENDS Ledger

RowNumbers == 1..Len(events)
CallNumbers == 1..Len(calls)

RowsTyped ==
    /\ events \in Seq({events[k] : k \in RowNumbers})
    /\ \A k \in RowNumbers :
          /\ events[k].chain \in Chains
          /\ events[k].key \in Keys
          /\ events[k].boundary \in Nat
          /\ events[k].created \in Nat

TablesTyped ==
    /\ dedup \in [Keys -> 0..Len(events)]
    /\ calls \in Seq([raw : Nat, tokens : Nat])
    /\ \A c \in CallNumbers : calls[c].raw \in RowNumbers

WritersTyped ==
    /\ pc \in [Writers -> States]
    /\ batch \in [Writers -> SUBSET Identities]
    /\ todo \in [Writers -> SUBSET Identities]
    /\ raw \in [Writers -> 0..Len(events)]
    /\ \A w \in Writers : pc[w] = "normalize" => raw[w] # 0
    /\ DOMAIN recordedTokens = Writers
    /\ position \in [Writers -> Nat]
    /\ acked \subseteq Identities
    /\ crashes \in 0..MaxCrashes

\* Every variable has its type; in particular a handler that is normalising
\* holds the number of a stored row (AppendRawEvent, RecordModelCall).  What a
\* cached aggregate may be is said by CachedTotalIsExact.
TypeOK == RowsTyped /\ TablesTyped /\ WritersTyped

\* qlog verify accepts every ledger the program itself has written, whatever
\* crashed or was delivered twice in between (AppendRawEvent, VerifyLedger).
LedgerVerifies == VerifyLedger(events)

\* One changed field that a hash covers, one deleted row below the last, or
\* two rows with their numbers exchanged: qlog verify reports each of them.
Renamed == {[events EXCEPT ![k].key = key] : k \in RowNumbers, key \in Keys}

Moved == {[events EXCEPT ![k].boundary = @ + 1] : k \in RowNumbers}

Deleted ==
    {[j \in 1..(Len(events) - 1) |-> events[IF j < k THEN j ELSE j + 1]] :
        k \in 1..(Len(events) - 1)}

Exchanged ==
    {[events EXCEPT ![k] = [events[k + 1] EXCEPT !.seq = k],
                    ![k + 1] = [events[k] EXCEPT !.seq = k + 1]] :
        k \in 1..(Len(events) - 1)}

Damaged == Renamed \union Moved \union Deleted \union Exchanged

DamageIsDetected == \A rows \in Damaged \ {events} : ~ VerifyLedger(rows)

\* Rows missing from the end leave a chain that still verifies.  An anchor
\* exported before reports them, as a truncation, and an anchor of the ledger
\* as it is reports nothing (LedgerAnchors, VerifyAnchors).
TruncationIsDetected ==
    /\ VerifyAnchors(events, LedgerAnchors(events)) = {}
    /\ \A n \in 0..(Len(events) - 1) :
          \E mismatch \in VerifyAnchors(SubSeq(events, 1, n), LedgerAnchors(events)) :
             mismatch.truncated

\* An identity is reserved exactly when its event is in the ledger, and every
\* event was stored under the identity it was delivered with, so no delivery
\* is stored twice and none is suppressed without its event (AppendRawEvent).
DedupMatchesLedger ==
    /\ \A k \in RowNumbers : dedup[events[k].key] = k
    /\ \A key \in Keys : dedup[key] # 0 => events[dedup[key]].key = key

\* Usage is counted once per raw event, and only for model calls that passed
\* validation (HasModelCallForRawEvent, RecordModelCall).
CountedOnce ==
    /\ \A c, d \in CallNumbers : calls[c].raw = calls[d].raw => c = d
    /\ \A c \in CallNumbers : events[calls[c].raw].key \in ModelCalls \ Malformed

\* The aggregate a writer has cached is the one in the database, and that one
\* fits the integer range (nextUsageTotal).
CachedTotalIsExact ==
    /\ UsageTotal <= MaxTotal
    /\ \A w \in Writers :
          recordedTokens[w] # Unknown => recordedTokens[w] = UsageTotal

\* A boundary stores the position just below its own row, so the events after
\* it are exactly those appended after it was taken, and nothing reaches the
\* ledger between the reading of the position and the marker
\* (createAcceptanceBoundary, RawEventIDsAfterAcceptanceBoundary).
BoundaryIsExact ==
    /\ \A k \in RowNumbers : events[k].key \in Boundaries =>
          RawEventIDsAfterAcceptanceBoundary(k) =
              {j \in (k + 1)..Len(events) : events[j].key \in Identities}
    /\ \A w \in Writers : pc[w] = "boundary" => position[w] = Len(events)

\* No step changes or removes a raw event or a model call (ADR-003).
AppendOnly ==
    [][/\ Len(events) <= Len(events')
       /\ \A k \in RowNumbers : events'[k] = events[k]
       /\ Len(calls) <= Len(calls')
       /\ \A c \in CallNumbers : calls'[c] = calls[c]]_vars

-----------------------------------------------------------------------------
(* Refinement.                                                             *)

CallsOf(i) == {c \in CallNumbers : calls[c].raw = dedup[i]}

Log == INSTANCE UsageLog WITH
    Uncounted <- Unknown,
    stored <- {i \in Identities : dedup[i] # 0},
    counted <- [i \in Identities |->
                  IF CallsOf(i) = {} THEN Unknown
                  ELSE calls[CHOOSE c \in CallsOf(i) : TRUE].tokens]

\* The ledger implements the abstract usage log: at most one event and one
\* count per identity, and no delivery reported as ingested before all of it
\* is stored and counted, crashes and redeliveries notwithstanding.
ImplementsUsageLog == Log!Spec

-----------------------------------------------------------------------------
(* Liveness.                                                               *)

CapacityExhausted == \E tokens \in TokenCounts : UsageTotal + tokens > MaxTotal

\* A source that delivers again until it is told its event was ingested is
\* told so eventually, unless the call is malformed or the aggregate is full.
EventuallyIngested ==
    \A i \in Identities \ Malformed : <>(i \in acked \/ CapacityExhausted)

=============================================================================
