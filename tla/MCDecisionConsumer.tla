-------------------------- MODULE MCDecisionConsumer --------------------------
(***************************************************************************)
(* Two replicas and a partition of four messages for TLC.                  *)
(***************************************************************************)
EXTENDS DecisionConsumer

(* The most urgent message comes last, the second carries no priority. *)
Mixed == [o \in Offsets |-> IF o = 4 THEN 0 ELSE IF o = 2 THEN 3 ELSE 2]
=============================================================================
