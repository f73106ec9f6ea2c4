----------------------------- MODULE MCAdapters -----------------------------
(***************************************************************************)
(* Two homes; each adapter in turn.                                        *)
(***************************************************************************)
EXTENDS AdaptersProperties
=============================================================================
