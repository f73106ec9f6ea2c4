------------------------------ MODULE UsageLog ------------------------------
(***************************************************************************)
(* What the local usage ledger promises to whoever delivers evidence to    *)
(* it, with no hash chain, no database transaction and no process in       *)
(* sight.  An event is stored at most once however often it is delivered,  *)
(* a stored model call is counted at most once and its count never         *)
(* changes, the running total stays within the integer range, and a        *)
(* delivery is only reported as ingested when all of it is stored and      *)
(* counted.  Ledger implements this specification.                         *)
(***************************************************************************)
EXTENDS Naturals, FiniteSets, FiniteSetsExt

CONSTANTS
    Identities,   \* canonical ingestion identities of the delivered events
    ModelCalls,   \* the identities that are normalised into a model call
    TokenCounts,  \* totals a delivered model call may carry
    MaxTotal,     \* largest total the aggregate can hold
    Uncounted     \* no model call recorded yet

VARIABLES
    stored,   \* identities whose raw event is in the ledger
    counted,  \* per identity, the tokens of its model call
    acked     \* identities whose delivery was reported as ingested

logVars == <<stored, counted, acked>>

Counted == {i \in Identities : counted[i] # Uncounted}

CountedTotal == MapThenSumSet(LAMBDA i : counted[i], Counted)

Init ==
    /\ stored = {}
    /\ counted = [i \in Identities |-> Uncounted]
    /\ acked = {}

Store(i) ==
    /\ i \notin stored
    /\ stored' = stored \union {i}
    /\ UNCHANGED <<counted, acked>>

Count(i, tokens) ==
    /\ i \in stored
    /\ counted[i] = Uncounted
    /\ CountedTotal + tokens <= MaxTotal
    /\ counted' = [counted EXCEPT ![i] = tokens]
    /\ UNCHANGED <<stored, acked>>

Acknowledge(delivery) ==
    /\ delivery \subseteq stored
    /\ delivery \intersect ModelCalls \subseteq Counted
    /\ acked' = acked \union delivery
    /\ UNCHANGED <<stored, counted>>

Next ==
    \/ \E i \in Identities : Store(i)
    \/ \E i \in ModelCalls, tokens \in TokenCounts : Count(i, tokens)
    \/ \E delivery \in SUBSET Identities : Acknowledge(delivery)

Spec == Init /\ [][Next]_logVars
=============================================================================
