-------------------------- MODULE MCRecommendations --------------------------
(* Every recommendation has a window of one period of the scan. *)
EXTENDS Recommendations

CONSTANT r1

OnePeriod == [r \in Recs |-> 1]
=============================================================================
