---------------------------- MODULE PhaseTwoGate ----------------------------
(***************************************************************************)
(* What lock:user:{id} promises to the decision engine, and nothing about  *)
(* how: of the calls that concern one customer, at most one at a time is   *)
(* inside Phase 2 (lock.service.ts:40-43).  A call goes in at most once.   *)
(***************************************************************************)
CONSTANTS Calls, SameCustomer(_, _)

VARIABLES inside,      \* the calls that are in Phase 2
          gone         \* the calls that have left it, or died in it

gateVars == <<inside, gone>>

GateInit == inside = {} /\ gone = {}

Enter(c) ==
  /\ c \notin inside \cup gone
  /\ \A d \in inside : ~ SameCustomer(c, d)
  /\ inside' = inside \cup {c}
  /\ UNCHANGED gone

Leave(c) ==
  /\ c \in inside
  /\ inside' = inside \ {c}
  /\ gone' = gone \cup {c}

(* A call that never went in may still end: it was turned away. *)
TurnAway(c) ==
  /\ c \notin inside \cup gone
  /\ gone' = gone \cup {c}
  /\ UNCHANGED inside

GateNext == \E c \in Calls : Enter(c) \/ Leave(c) \/ TurnAway(c)

GateSpec == GateInit /\ [][GateNext]_gateVars
=============================================================================
