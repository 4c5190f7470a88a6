----------------------------- MODULE AtLeastOnce -----------------------------
(***************************************************************************)
(* What each hop of the event pipeline promises, and nothing about how: a  *)
(* message is passed over (its offset committed, its sender told ok) only  *)
(* when it is safe (handled, handed on, or recorded as given up), what is  *)
(* safe stays safe, and what is passed over is not taken back.  Messages   *)
(* may be handled any number of times and in any order.                    *)
(***************************************************************************)
CONSTANT Messages

VARIABLES passed,      \* messages that will not be asked for again
          safe         \* messages that need not be asked for again

deliveryVars == <<passed, safe>>

DeliveryInit == passed = {} /\ safe = {}

Secure ==
  /\ safe \subseteq safe' /\ safe' \subseteq Messages
  /\ UNCHANGED passed

PassOver ==
  /\ passed \subseteq passed' /\ passed' \subseteq safe
  /\ UNCHANGED safe

DeliverySpec == DeliveryInit /\ [][Secure \/ PassOver]_deliveryVars
=============================================================================
