---------------------------- MODULE MCStoreLocks -----------------------------
(***************************************************************************)
(* A small instance of StoreLocks: three processes, any of which may do    *)
(* anything.                                                               *)
(***************************************************************************)
EXTENDS StoreLocksProperties, TLC

MCSymmetry == Permutations(Processes)

=============================================================================
