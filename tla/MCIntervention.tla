--------------------------- MODULE MCIntervention ---------------------------
(***************************************************************************)
(* Instances of InterventionExecution for TLC, in one store: the           *)
(* execution e1 of the recommendation r1, and manual requests m1, m2.      *)
(***************************************************************************)
EXTENDS InterventionProperties

CONSTANTS e1, m1, m2, r1, u1

OneRec == [c \in Executions |-> r1]

(* Every offer is for the one customer the calls compete for... *)
OneCustomer == [o \in Offers |-> u1]

(* ...and takes one unit of the budget, or nothing. *)
OneUnit == [o \in Offers |-> 1]
Free == [o \in Offers |-> 0]
=============================================================================
