----------------------------- MODULE MCAcceptance -----------------------------
(***************************************************************************)
(* Instances of Acceptance: an agent whose contract asks for calls only,   *)
(* one that also needs lifecycle evidence, and one without a contract.     *)
(***************************************************************************)
EXTENDS AcceptanceProperties, TLC

Item(agent, part, session, version, id) ==
    [agent |-> agent, part |-> part, session |-> session, version |-> version, id |-> id]

MCEvidence == {Item("claude-code", "model", 1, "path", 1),
               Item("claude-code", "lifecycle", 1, "plain", 2)}

\* Bounds.  What a run finds depends on the ledger, the time and its own boundary alone, what
\* several runs do to each other on the boundary files alone: evidence and the passing of the
\* window are combined with one run and one boundary, two runs and two boundaries with neither.
MCBound ==
    (clock > 2 \/ \E i \in DOMAIN ledger : ledger[i].kind = "evidence") =>
        /\ Cardinality({r \in Runs : run[r].stage # "idle"}) <= 1
        /\ Cardinality({b \in Boundaries : boundary[b].stage # "none"}) <= 1

MCSymmetry == Permutations(Runs) \cup Permutations(Outputs) \cup Permutations(Boundaries)

=============================================================================
