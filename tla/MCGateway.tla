----------------------------- MODULE MCGateway -----------------------------
(* Two pods, two sockets of the session, two pushes and one forward. *)
EXTENDS Gateway

CONSTANTS p1, p2, k1, k2, i1, i2, r1, r2, h1

(* By symmetry the pod of k1 is called p1, and the payload of r1 i1. *)
AnyOtherPod == [k \in Sockets |-> IF k = k1 THEN {p1} ELSE Pods]
AnyOtherPayload == [r \in Pushes |-> IF r = r1 THEN {i1} ELSE Interventions]
=============================================================================
