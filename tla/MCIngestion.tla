---------------------------- MODULE MCIngestion ----------------------------
(* Two requests over two events: the second may repeat the first one's. *)
EXTENDS Ingestion, TLC

Symmetry == Permutations(Requests) \union Permutations(Events)
=============================================================================
