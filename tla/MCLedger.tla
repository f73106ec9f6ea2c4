------------------------------ MODULE MCLedger ------------------------------
(***************************************************************************)
(* A small instance of Ledger: three events in two chains (two model       *)
(* calls and a malformed one), one acceptance boundary, two writers.       *)
(***************************************************************************)
EXTENDS LedgerProperties, TLC

CONSTANTS a1, a2, b1, bound, chainA, chainB, qlog

MCChainOf == (a1 :> chainA) @@ (a2 :> chainA) @@ (b1 :> chainB)

MCSymmetry == Permutations(Writers)

=============================================================================
