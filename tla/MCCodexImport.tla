--------------------------- MODULE MCCodexImport ----------------------------
(***************************************************************************)
(* Small instances of CodexImport.                                         *)
(***************************************************************************)
EXTENDS CodexImportProperties

CONSTANTS total, input, cached

MCPartOf == {<<cached, input>>}

MCShapes ==
    {[counters |-> {total}, last |-> TRUE],
     [counters |-> {total, input}, last |-> FALSE],
     [counters |-> {total, input, cached}, last |-> TRUE],
     [counters |-> {input}, last |-> FALSE]}

\* Snapshots that always report the total and the last turn.
MCFullShapes ==
    {[counters |-> {total}, last |-> TRUE]}

=============================================================================
