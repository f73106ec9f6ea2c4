---------------------------- MODULE MCOTLPUsage -----------------------------
(***************************************************************************)
(* Small instances of OTLPUsage: every graph of a few spans.               *)
(***************************************************************************)
EXTENDS OTLPUsageProperties, TLC

MCSymmetry == Permutations(Spans) \union Permutations(Usages)

=============================================================================
