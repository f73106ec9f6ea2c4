------------------------------- MODULE Audit --------------------------------
(***************************************************************************)
(* Verification of the stored ledger: the hash chain per source and        *)
(* session, the event sequence, and the external anchors, as functions of  *)
(* the stored rows.  A row's hash covers every other field but created,    *)
(* and is taken to be injective: it is kept as the tuple that is hashed.   *)
(***************************************************************************)
EXTENDS Naturals, Sequences, FiniteSets

NoHash == <<>>  \* the empty previous_event_hash of a chain's first event

\* chainKey and canonicalEventWithSequence, hashed together with the previous
\* hash.
Digest(chain, key, version, boundary, seq, prev) ==
    <<chain, key, version, boundary, seq, prev>>

RowsOf(rows, chain) == {k \in 1..Len(rows) : rows[k].chain = chain}

\* ORDER BY created_at DESC, id DESC LIMIT 1.  Row ids are random, so any of
\* the rows with the latest created_at may be the one that is read.
Heads(rows, chain) ==
    {k \in RowsOf(rows, chain) :
        \A j \in RowsOf(rows, chain) : rows[j].created <= rows[k].created}

-----------------------------------------------------------------------------
(* VerifyLedger over the whole ledger, rows taken by event_sequence.       *)

\* Mutant: gaps in the sequence are accepted.
SequenceIncreases(rows, k) == k = 1 \/ rows[k].seq > rows[k - 1].seq

SequenceContinues(rows, k) ==
    rows[k].seq = (IF k = 1 THEN 0 ELSE rows[k - 1].seq) + 1

Predecessors(rows, k) == {j \in 1..(k - 1) : rows[j].chain = rows[k].chain}

PreviousHashMatches(rows, k) ==
    IF Predecessors(rows, k) = {} THEN rows[k].prev = NoHash
    ELSE \E j \in Predecessors(rows, k) :
            /\ \A i \in Predecessors(rows, k) : i <= j
            /\ rows[k].prev = rows[j].hash

HashMatches(rows, k) ==
    rows[k].hash = Digest(rows[k].chain, rows[k].key, rows[k].version,
                          rows[k].boundary, rows[k].seq, rows[k].prev)

VerifyLedger(rows) ==
    \A k \in 1..Len(rows) :
        /\ SequenceContinues(rows, k)
        /\ PreviousHashMatches(rows, k)
        /\ HashMatches(rows, k)

-----------------------------------------------------------------------------
(* External anchors.                                                       *)

LedgerAnchors(rows) ==
    {[chain |-> rows[k].chain, head |-> rows[k].hash,
      events |-> Cardinality(RowsOf(rows, rows[k].chain))] :
        k \in {k \in 1..Len(rows) : k \in Heads(rows, rows[k].chain)}}

\* Mutant: a chain that is gone altogether is not reported.
VerifyPresentAnchors(rows, expected) ==
    LET current == LedgerAnchors(rows)
        Of(chain) == {a \in current : a.chain = chain}
    IN  {[chain |-> e.chain,
          truncated |-> \E a \in Of(e.chain) : a.events < e.events] :
            e \in {e \in expected : \E a \in Of(e.chain) : a.head # e.head}}

\* The expected anchors the stored ledger contradicts, with the verdict that
\* the chain was truncated.
VerifyAnchors(rows, expected) ==
    LET current == LedgerAnchors(rows)
        Of(chain) == {a \in current : a.chain = chain}
    IN  {[chain |-> e.chain, truncated |-> TRUE] :
            e \in {e \in expected : Of(e.chain) = {}}}
        \union
        {[chain |-> e.chain,
          truncated |-> \E a \in Of(e.chain) : a.events < e.events] :
            e \in {e \in expected : \E a \in Of(e.chain) : a.head # e.head}}

=============================================================================
