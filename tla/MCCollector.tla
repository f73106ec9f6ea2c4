---------------------------- MODULE MCCollector ----------------------------
(***************************************************************************)
(* A small instance of Collector: two homes on each of the platforms.      *)
(***************************************************************************)
EXTENDS CollectorProperties

CONSTANTS homeA, homeB

=============================================================================
