----------------------------- MODULE MCEvalQueue -----------------------------
(***************************************************************************)
(* Instances of EvalQueue for TLC: two sessions of one customer, and pops  *)
(* that return one member at most, so that a page can leave one out.       *)
(***************************************************************************)
EXTENDS EvalQueue

CONSTANTS t1, t2, c1, s1, s2, u1

OneUser == [s \in Sessions |-> u1]
=============================================================================
