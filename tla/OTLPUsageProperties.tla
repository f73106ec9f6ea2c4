------------------------ MODULE OTLPUsageProperties -------------------------
(***************************************************************************)
(* What makes the usage of a trace correct.                                *)
(***************************************************************************)
EXTENDS OTLPUsage

\* Every variable has its type; only stored spans with usage are calls, and the
\* span that is being normalised or reconciled is stored, as are the spans of
\* the request that were appended and all that were acknowledged.
TypeOK ==
    /\ parent \in [Spans -> Spans \union {NoSpan}]
    /\ usage \in [Spans -> Usages \union {Lineage}]
    /\ stored \subseteq Spans
    /\ calls \subseteq {s \in stored : usage[s] # Lineage}
    /\ excluded \subseteq calls
    /\ pc \in {"idle", "append", "normalize", "reconcile"}
    /\ request \subseteq Spans
    /\ todo \subseteq request
    /\ request \ todo \subseteq stored
    /\ current \in stored \union {NoSpan}
    /\ pc \in {"normalize", "reconcile"} <=> current # NoSpan
    /\ acked \subseteq stored
    /\ crashes \in 0..MaxCrashes

Counted == calls \ excluded

\* No usage is lost: whatever order spans arrive in, cycles included, a call
\* is only left out of the totals while a call among its descendants that
\* reports the same is in them (ReconcileOTLPUsage).
ExclusionsAreCovered ==
    \A p \in excluded : \E c \in Counted :
        c \in Descendants(p) /\ usage[c] = usage[p]

-----------------------------------------------------------------------------
(* The same graph, walked from a span to the root.                         *)

\* The n-th ancestor of s, NoSpan beyond the first span that is not stored.
Ancestor(s) ==
    LET up[n \in 0..Cardinality(Spans)] ==
            IF n = 0 THEN s
            ELSE IF up[n - 1] \in stored THEN parent[up[n - 1]]
            ELSE NoSpan
    IN  up

IsAncestor(p, c) ==
    /\ {p, c} \subseteq stored
    /\ \E n \in 1..Cardinality(Spans) : Ancestor(c)[n] = p

Acyclic == \A s \in stored : ~ IsAncestor(s, s)

\* Of the calls on one path that report the same, the lowest alone is counted.
CountsLowest ==
    Counted = {p \in calls : ~ \E c \in calls : IsAncestor(p, c) /\ usage[p] = usage[c]}

\* After every reconciliation, what is counted in a trace without cycles is
\* decided by the spans that are stored, not by the order, the requests and
\* the retries they came in (ReconcileOTLPUsage).
ReconciledInAnyOrder ==
    [][pc = "reconcile" /\ pc' = "append" => (Acyclic => CountsLowest)']_vars

=============================================================================
