---------------------------- MODULE MCAllocation -----------------------------
(***************************************************************************)
(* A small instance of Allocation: one call, two projects, splits          *)
(* whose shares do not divide the tokens, and one that does not add up.    *)
(***************************************************************************)
EXTENDS AllocationProperties

Part(p, n) == [project |-> p, points |-> n]

\* Written in the order of the slugs.
MCOrdered ==
    {<<Part(1, 3333), Part(2, 6667)>>,
     <<Part(1, 6000), Part(2, 3000)>>}

\* As users write them.
MCAnyOrder == {<<Part(1, 5000), Part(2, 5000)>>, <<Part(2, 5000), Part(1, 5000)>>}

MCLegacy == {<<Part(1, 10000)>>}

=============================================================================
