---------------------------- MODULE MCEnrichment ----------------------------
(* Four messages: an event, its copy, one that cannot be parsed, another. *)
EXTENDS Enrichment

CONSTANTS e1, e2

Copies == [o \in Offsets |-> CASE o \in {1, 2} -> e1 [] o = 3 -> None [] OTHER -> e2]
=============================================================================
