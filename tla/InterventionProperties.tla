----------------------- MODULE InterventionProperties -----------------------
(***************************************************************************)
(* What Phase 2 (InterventionExecution) guarantees, and what the comments  *)
(* and documents of the repository say it guarantees.                      *)
(***************************************************************************)
EXTENDS InterventionExecution

InPhaseTwo == {c \in Calls : pc[c] \in PhaseTwo}
Attempted(c) == attempt[c] # "none"
SameCustomer(c, d) == CustomerId(c) = CustomerId(d)

(* A call inside Phase 2 holds its customer's lock and renews it.  Holds   *)
(* when Redis answers and no process stalls past the TTL.                  *)
PhaseTwoHoldsLock ==
  \A c \in InPhaseTwo : lock[CustomerId(c)] = c /\ c \in heartbeats

(* lock.service.ts:40-43: of the calls of one customer, whatever entry     *)
(* point they come from, at most one is inside Phase 2.                    *)
MutualExclusion ==
  \A c, d \in InPhaseTwo : SameCustomer(c, d) => c = d

Gate == INSTANCE PhaseTwoGate
          WITH inside <- InPhaseTwo,
               gone <- {c \in Calls : pc[c] \in {"done", "crashed"}}

(* The locking of Phase 2 implements the abstract gate: every step of the  *)
(* services is a step of the gate or leaves it alone.                      *)
ImplementsGate == Gate!GateSpec

(* The sent marker stops every later call: a call made when others had     *)
(* already marked their intervention sent does not get past the check      *)
(* while the marker of any of them still stands (overrides aside).         *)
LaterCallsAreStopped ==
  \A c \in Calls \ Overrides :
    (pc[c] \in PhaseTwo \/ Attempted(c)) =>
      known[c] \cap sentBy[CustomerId(c)] = {}

(* The amounts of S fit side by side under the limit: each has an interval *)
(* of the budget of its own.  That is what a sum within the limit means,   *)
(* said so that it can be reasoned about one call at a time.               *)
Amount(c) == Value[OfferOf(c)]
SideBySide(S, place, limit) ==
  \A c \in S : /\ place[c] + Amount(c) <= limit
               /\ \A d \in S \ {c} : \/ place[c] + Amount(c) <= place[d]
                                      \/ place[d] + Amount(d) <= place[c]
ChargedToday == {c \in Calls : charge[c] = "today"}

(* What is charged to today's counter is within the policy's limit         *)
(* (budget.service.ts:58-62), though calls check and count from many       *)
(* replicas, and across midnight.                                          *)
ChargesFit ==
  \E place \in [Calls -> 0..MaxDailyBudget] :
    SideBySide(ChargedToday, place, MaxDailyBudget)

(* Charges fit the limit, and what is dispatched has been charged.         *)
DispatchesWithinBudget ==
  /\ \A c \in Calls : Attempted(c) /\ Amount(c) > 0 => charge[c] # "none"
  /\ ChargesFit

(* The tables never run ahead of the world, whatever fails: a row marked   *)
(* delivered, a recommendation marked executed, a marker or a cooldown all *)
(* follow an outbound request for that very offer or customer.             *)
RecordsFollowDispatch ==
  /\ \A o \in Offers : row[o] = "delivered" =>
       \E c \in Calls : OfferOf(c) = o /\ Attempted(c)
  /\ \A r \in Recs : status[r] = "executed" =>
       row[r] # "none" /\ \E c \in Executions : RecOf[c] = r /\ Attempted(c)
  /\ \A u \in Users : \A c \in sentBy[u] : CustomerId(c) = u /\ Attempted(c)
  /\ \A u \in cooldown : \E c \in Calls : CustomerId(c) = u /\ Attempted(c)

(* No customer stays locked out: once a call has the lock, some time later *)
(* the lock is free, though the catch block releases the wrong key.        *)
LockEventuallyFree ==
  \A u \in Users : lock[u] # NoCall ~> lock[u] = NoCall

(* Without a crash every dispatched intervention reaches intervention.log  *)
(* and has its row, although nobody awaits the write.                      *)
DispatchEventuallyRecorded ==
  \A c \in Calls : Attempted(c) ~> (writer[c] = "logged" /\ row[OfferOf(c)] # "none")

-----------------------------------------------------------------------------
(* What the repository says and the code does not do.                       *)

(* lock.service.ts:42-43 and 128-129: no two calls send the same customer  *)
(* an intervention in one episode (no purchase, no expiry in between).     *)
OneInterventionPerEpisode == \A u \in Users : Cardinality(sentBy[u]) <= 1
=============================================================================
