---------------------------- MODULE DispatchProofs ----------------------------
(***************************************************************************)
(* Proofs about the two ends of a dispatch: Phase 2 of the decision engine *)
(* (InterventionExecution), which sends an intervention, and the gateway   *)
(* (Gateway), which takes it to the browser.                               *)
(***************************************************************************)
EXTENDS InterventionProperties, Gateway, TLAPS

-------------------------------------------------------------------------------
(***************************************************************************)
(* Proofs about Phase 2 (InterventionExecution), for any number of calls,  *)
(* recommendations and customers and any budget.                           *)
(***************************************************************************)
USE DEF redis, tables, clock, history, Goto, May

(* Every call concerns an offer, and through it a customer. *)
LEMMA CallFacts ==
  ASSUME NEW c \in Calls
  PROVE  /\ OfferOf(c) \in Offers
         /\ CustomerId(c) \in Users
         /\ c # NoCall
  BY ConstantsOK DEF Calls, Offers, OfferOf, CustomerId

LEMMA AmountsAreNaturals ==
  ASSUME NEW c \in Calls
  PROVE  Value[OfferOf(c)] \in Nat
  BY CallFacts, ConstantsOK

-----------------------------------------------------------------------------
(* The state stays in its type, whatever fails. *)
THEOREM TypeCorrect == Spec => []TypeOK
<1>1. Init => TypeOK
  BY ConstantsOK DEF Init, TypeOK, Labels, Calls, Offers
<1>2. TypeOK /\ [Next]_vars => TypeOK'
  <2> SUFFICES ASSUME TypeOK, [Next]_vars PROVE TypeOK'
    OBVIOUS
  <2> USE DEF TypeOK
  <2>1. ASSUME NEW c \in Calls, CallExecute(c) \/ CallManual(c) PROVE TypeOK'
    BY <2>1, CallFacts DEF CallExecute, CallManual, Labels
  <2>2. ASSUME NEW c \in Calls, GetRecommendation(c) PROVE TypeOK'
    BY <2>2 DEF GetRecommendation, Labels
  <2>3. ASSUME NEW c \in Calls, MarkExpired(c) PROVE TypeOK'
    BY <2>3 DEF MarkExpired, Labels
  <2>4. ASSUME NEW c \in Calls, CheckCooldown(c) \/ IsSent(c) PROVE TypeOK'
    BY <2>4 DEF CheckCooldown, IsSent, Labels
  <2>5. ASSUME NEW c \in Calls, AcquireUserLock(c) PROVE TypeOK'
    BY <2>5, CallFacts DEF AcquireUserLock, Labels
  <2>6. ASSUME NEW c \in Calls, CheckAndReserve(c) PROVE TypeOK'
    BY <2>6, AmountsAreNaturals DEF CheckAndReserve, Labels
  <2>7. ASSUME NEW c \in Calls, GenerateCode(c) PROVE TypeOK'
    BY <2>7 DEF GenerateCode, Labels
  <2>8. ASSUME NEW c \in Calls, OutboundRoute(c) PROVE TypeOK'
    BY <2>8 DEF OutboundRoute, Labels
  <2>9. ASSUME NEW c \in Calls, MarkDelivered(c) PROVE TypeOK'
    BY <2>9 DEF MarkDelivered, Labels
  <2>10. ASSUME NEW c \in Calls, SetCooldown(c) \/ MarkSent(c) PROVE TypeOK'
    BY <2>10, CallFacts DEF SetCooldown, MarkSent, Labels
  <2>11. ASSUME NEW c \in Calls, MarkExecuted(c) PROVE TypeOK'
    BY <2>11 DEF MarkExecuted, Labels
  <2>12. ASSUME NEW c \in Calls, ReleaseUserLock(c) PROVE TypeOK'
    BY <2>12 DEF ReleaseUserLock, Labels
  <2>13. ASSUME NEW c \in Calls, Background(c) PROVE TypeOK'
    BY <2>13 DEF Background, Renew, WriterInsert, WriterProduce
  <2>14. ASSUME NEW c \in Calls, Crash(c) PROVE TypeOK'
    BY <2>14 DEF Crash, Labels
  <2>15. ASSUME NEW u \in Users,
                LockExpires(u) \/ Purchase(u) \/ SentExpires(u) \/ CooldownExpires(u)
         PROVE  TypeOK'
    BY <2>15 DEF LockExpires, Purchase, SentExpires, ClearSent, CooldownExpires
  <2>16. ASSUME NEW r \in Recs,
                BecomesDue(r) \/ ExpireScan(r) \/ RejectCheck(r) \/ RejectWrite(r)
         PROVE  TypeOK'
    BY <2>16 DEF BecomesDue, ExpireScan, RejectCheck, RejectWrite
  <2>17. CASE DayRollover
    BY <2>17 DEF DayRollover
  <2>18. CASE UNCHANGED vars
    BY <2>18 DEF vars
  <2>19. QED
    BY <2>1, <2>2, <2>3, <2>4, <2>5, <2>6, <2>7, <2>8, <2>9, <2>10, <2>11,
       <2>12, <2>13, <2>14, <2>15, <2>16, <2>17, <2>18 DEF Next, CallStep
<1>3. QED
  BY <1>1, <1>2, PTL DEF Spec

-----------------------------------------------------------------------------
(* Without a stall or a Redis error a call in Phase 2 holds its customer's *)
(* lock and renews it: nobody else's acquire, release or TTL can end that. *)
LEMMA PhaseTwoHoldsLockInductive ==
  ASSUME Faults \cap {"stall", "redis"} = {},
         TypeOK, PhaseTwoHoldsLock, [Next]_vars
  PROVE  PhaseTwoHoldsLock'
<1> USE DEF TypeOK, PhaseTwoHoldsLock, InPhaseTwo, PhaseTwo
<1>1. ASSUME NEW c \in Calls, CallExecute(c) \/ CallManual(c)
      PROVE  PhaseTwoHoldsLock'
  BY <1>1 DEF CallExecute, CallManual
<1>2. ASSUME NEW c \in Calls,
             GetRecommendation(c) \/ MarkExpired(c) \/ CheckCooldown(c) \/ IsSent(c)
      PROVE  PhaseTwoHoldsLock'
  BY <1>2 DEF GetRecommendation, MarkExpired, CheckCooldown, IsSent
<1>3. ASSUME NEW c \in Calls, AcquireUserLock(c) PROVE PhaseTwoHoldsLock'
  BY <1>3, CallFacts DEF AcquireUserLock
<1>4. ASSUME NEW c \in Calls, CheckAndReserve(c) PROVE PhaseTwoHoldsLock'
  BY <1>4 DEF CheckAndReserve
<1>5. ASSUME NEW c \in Calls,
             GenerateCode(c) \/ OutboundRoute(c) \/ MarkDelivered(c)
               \/ SetCooldown(c) \/ MarkSent(c)
      PROVE  PhaseTwoHoldsLock'
  BY <1>5 DEF GenerateCode, OutboundRoute, MarkDelivered, SetCooldown, MarkSent
<1>6. ASSUME NEW c \in Calls, MarkExecuted(c) PROVE PhaseTwoHoldsLock'
  BY <1>6 DEF MarkExecuted
<1>7. ASSUME NEW c \in Calls, ReleaseUserLock(c) PROVE PhaseTwoHoldsLock'
  BY <1>7, CallFacts DEF ReleaseUserLock
<1>8. ASSUME NEW c \in Calls, Background(c) PROVE PhaseTwoHoldsLock'
  BY <1>8 DEF Background, Renew, WriterInsert, WriterProduce
<1>9. ASSUME NEW c \in Calls, Crash(c) PROVE PhaseTwoHoldsLock'
  BY <1>9 DEF Crash
<1>10. ASSUME NEW u \in Users, LockExpires(u) PROVE PhaseTwoHoldsLock'
  <2>1. lock[u] \notin heartbeats
    BY <1>10 DEF LockExpires
  <2>2. QED
    BY <1>10, <2>1, CallFacts DEF LockExpires
<1>11. ASSUME NEW u \in Users, Purchase(u) \/ SentExpires(u) \/ CooldownExpires(u)
       PROVE  PhaseTwoHoldsLock'
  BY <1>11 DEF Purchase, SentExpires, ClearSent, CooldownExpires
<1>12. ASSUME NEW r \in Recs,
              BecomesDue(r) \/ ExpireScan(r) \/ RejectCheck(r) \/ RejectWrite(r)
       PROVE  PhaseTwoHoldsLock'
  BY <1>12 DEF BecomesDue, ExpireScan, RejectCheck, RejectWrite
<1>13. CASE DayRollover
  BY <1>13 DEF DayRollover
<1>14. CASE UNCHANGED vars
  BY <1>14 DEF vars
<1>15. QED
  BY <1>1, <1>2, <1>3, <1>4, <1>5, <1>6, <1>7, <1>8, <1>9, <1>10, <1>11,
     <1>12, <1>13, <1>14 DEF Next, CallStep

(* lock.service.ts:48-51: a call that is past acquireUserLock and not yet  *)
(* past its release owns the key and renews it, crashes of others and of   *)
(* itself included, while Redis answers and no process stalls past the     *)
(* TTL.                                                                    *)
THEOREM LockIsHeld ==
  ASSUME Faults \cap {"stall", "redis"} = {}
  PROVE  Spec => []PhaseTwoHoldsLock
<1>1. Init => PhaseTwoHoldsLock
  BY DEF Init, PhaseTwoHoldsLock, InPhaseTwo, PhaseTwo
<1>2. TypeOK /\ PhaseTwoHoldsLock /\ [Next]_vars => PhaseTwoHoldsLock'
  BY PhaseTwoHoldsLockInductive
<1>3. QED
  BY <1>1, <1>2, TypeCorrect, PTL DEF Spec

(* Two calls of one customer cannot both be the token its key stores. *)
LEMMA HoldingExcludes == PhaseTwoHoldsLock => MutualExclusion
  BY DEF PhaseTwoHoldsLock, MutualExclusion, SameCustomer

(* lock.service.ts:40-43, on the condition that Redis answers and no       *)
(* process stalls past the TTL: the five entry points share one lock.      *)
THEOREM OneCallInPhaseTwo ==
  ASSUME Faults \cap {"stall", "redis"} = {}
  PROVE  Spec => []MutualExclusion
  BY LockIsHeld, HoldingExcludes, PTL

-----------------------------------------------------------------------------
(* Phase 2 implements the abstract gate.  Only AcquireUserLock goes in;    *)
(* what ends a call is a step out, or turns away a call that was not in.   *)
LEMMA StepsOfTheGate ==
  ASSUME Faults \cap {"stall", "redis"} = {},
         TypeOK, PhaseTwoHoldsLock, [Next]_vars
  PROVE  [Gate!GateNext]_(Gate!gateVars)
<1> USE DEF TypeOK, InPhaseTwo, PhaseTwo
<1> DEFINE Stutters == UNCHANGED Gate!gateVars
<1>1. ASSUME NEW c \in Calls, CallExecute(c) \/ CallManual(c) PROVE Stutters
  BY <1>1 DEF CallExecute, CallManual, Gate!gateVars
<1>2. ASSUME NEW c \in Calls,
             GetRecommendation(c) \/ MarkExpired(c) \/ CheckCooldown(c) \/ IsSent(c)
      PROVE  Stutters \/ Gate!TurnAway(c)
  BY <1>2 DEF GetRecommendation, MarkExpired, CheckCooldown, IsSent,
              Gate!TurnAway, Gate!gateVars
<1>3. ASSUME NEW c \in Calls, AcquireUserLock(c)
      PROVE  Gate!Enter(c) \/ Gate!TurnAway(c)
  <2>1. CASE lock[CustomerId(c)] = NoCall /\ pc' = [pc EXCEPT ![c] = "reserve"]
    <3>1. \A d \in InPhaseTwo : ~ SameCustomer(c, d)
      BY <2>1, CallFacts DEF PhaseTwoHoldsLock, SameCustomer
    <3>2. QED
      BY <1>3, <2>1, <3>1 DEF AcquireUserLock, Gate!Enter
  <2>2. CASE pc' = [pc EXCEPT ![c] = "done"]
    BY <1>3, <2>2 DEF AcquireUserLock, Gate!TurnAway
  <2>3. QED
    BY <1>3, <2>1, <2>2 DEF AcquireUserLock
<1>4. ASSUME NEW c \in Calls, CheckAndReserve(c)
      PROVE  Stutters \/ Gate!Leave(c)
  BY <1>4 DEF CheckAndReserve, Gate!Leave, Gate!gateVars
<1>5. ASSUME NEW c \in Calls,
             GenerateCode(c) \/ OutboundRoute(c) \/ MarkDelivered(c)
               \/ SetCooldown(c) \/ MarkSent(c)
      PROVE  Stutters
  BY <1>5 DEF GenerateCode, OutboundRoute, MarkDelivered, SetCooldown,
              MarkSent, Gate!gateVars
<1>6. ASSUME NEW c \in Calls, MarkExecuted(c) \/ ReleaseUserLock(c)
      PROVE  Stutters \/ Gate!Leave(c)
  BY <1>6 DEF MarkExecuted, ReleaseUserLock, Gate!Leave, Gate!gateVars
<1>7. ASSUME NEW c \in Calls, Background(c) PROVE Stutters
  BY <1>7 DEF Background, Renew, WriterInsert, WriterProduce, Gate!gateVars
<1>8. ASSUME NEW c \in Calls, Crash(c)
      PROVE  Stutters \/ Gate!Leave(c) \/ Gate!TurnAway(c)
  BY <1>8 DEF Crash, Gate!Leave, Gate!TurnAway, Gate!gateVars, Labels
<1>9. ASSUME NEW u \in Users,
             LockExpires(u) \/ Purchase(u) \/ SentExpires(u) \/ CooldownExpires(u)
      PROVE  Stutters
  BY <1>9 DEF LockExpires, Purchase, SentExpires, ClearSent, CooldownExpires,
              Gate!gateVars
<1>10. ASSUME NEW r \in Recs,
              BecomesDue(r) \/ ExpireScan(r) \/ RejectCheck(r) \/ RejectWrite(r)
       PROVE  Stutters
  BY <1>10 DEF BecomesDue, ExpireScan, RejectCheck, RejectWrite, Gate!gateVars
<1>11. CASE DayRollover
  BY <1>11 DEF DayRollover, Gate!gateVars
<1>12. CASE UNCHANGED vars
  BY <1>12 DEF vars, Gate!gateVars
<1>13. QED
  BY <1>1, <1>2, <1>3, <1>4, <1>5, <1>6, <1>7, <1>8, <1>9, <1>10, <1>11, <1>12
     DEF Next, CallStep, Gate!GateNext

(* lock.service.ts:40-43 as an abstract machine: without a stall or a      *)
(* Redis error every behaviour of Phase 2 is a behaviour of PhaseTwoGate.  *)
THEOREM PhaseTwoImplementsGate ==
  ASSUME Faults \cap {"stall", "redis"} = {}
  PROVE  Spec => ImplementsGate
<1>1. Init => Gate!GateInit
  BY DEF Init, Gate!GateInit, InPhaseTwo, PhaseTwo
<1>2. TypeOK /\ PhaseTwoHoldsLock /\ [Next]_vars => [Gate!GateNext]_(Gate!gateVars)
  BY StepsOfTheGate
<1>3. QED
  BY <1>1, <1>2, TypeCorrect, LockIsHeld, PTL DEF Spec, ImplementsGate, Gate!GateSpec

-----------------------------------------------------------------------------
(* Whatever fails, what is recorded has been dispatched.  The records name *)
(* offers and customers, the code reaches them from a call's position: the *)
(* invariant ties the two.                                                 *)
AfterDispatch ==
  \A c \in Calls :
    /\ pc[c] \in {"markDelivered", "setCooldown", "markSent", "markExecuted"}
         => Attempted(c)
    /\ pc[c] = "markExecuted" => c \in Executions

LEMMA RecordsInductive ==
  ASSUME TypeOK, AfterDispatch, RecordsFollowDispatch, [Next]_vars
  PROVE  AfterDispatch' /\ RecordsFollowDispatch'
<1> DEFINE Inv == AfterDispatch /\ RecordsFollowDispatch
<1> USE DEF TypeOK, AfterDispatch, RecordsFollowDispatch, Attempted
<1>1. ASSUME NEW c \in Calls, CallExecute(c) \/ CallManual(c) PROVE Inv'
  BY <1>1 DEF CallExecute, CallManual
<1>2. ASSUME NEW c \in Calls,
             GetRecommendation(c) \/ CheckCooldown(c) \/ IsSent(c)
      PROVE  Inv'
  BY <1>2 DEF GetRecommendation, CheckCooldown, IsSent
<1>3. ASSUME NEW c \in Calls, MarkExpired(c) PROVE Inv'
  BY <1>3 DEF MarkExpired
<1>4. ASSUME NEW c \in Calls, AcquireUserLock(c) \/ CheckAndReserve(c) PROVE Inv'
  BY <1>4 DEF AcquireUserLock, CheckAndReserve
<1>5. ASSUME NEW c \in Calls, GenerateCode(c) PROVE Inv'
  BY <1>5 DEF GenerateCode
<1>6. ASSUME NEW c \in Calls, OutboundRoute(c) PROVE Inv'
  <2>1. /\ \A d \in Calls : Attempted(d) => Attempted(d)'
        /\ Attempted(c)'
    BY <1>6 DEF OutboundRoute
  <2>2. AfterDispatch'
    BY <1>6, <2>1 DEF OutboundRoute
  <2>3. UNCHANGED <<row, status, sentBy, cooldown>>
    BY <1>6 DEF OutboundRoute
  <2>4. \A o \in Offers : row[o] = "delivered" =>
          \E d \in Calls : OfferOf(d) = o /\ Attempted(d)'
    BY <2>1
  <2>5. \A r \in Recs : status[r] = "executed" =>
          row[r] # "none" /\ \E d \in Executions : RecOf[d] = r /\ Attempted(d)'
    BY <2>1 DEF Calls
  <2>6. \A u \in Users : \A d \in sentBy[u] : CustomerId(d) = u /\ Attempted(d)'
    BY <2>1
  <2>7. \A u \in cooldown : \E d \in Calls : CustomerId(d) = u /\ Attempted(d)'
    BY <2>1
  <2>8. QED
    BY <2>2, <2>3, <2>4, <2>5, <2>6, <2>7
<1>7. ASSUME NEW c \in Calls, MarkDelivered(c) PROVE Inv'
  <2>1. Attempted(c) /\ OfferOf(c) \in Offers
    BY <1>7, CallFacts DEF MarkDelivered
  <2>2. AfterDispatch'
    BY <1>7 DEF MarkDelivered
  <2>3. UNCHANGED <<status, sentBy, cooldown, attempt>>
    BY <1>7 DEF MarkDelivered
  <2>4. \A o \in Offers : /\ row'[o] = "delivered" => row[o] = "delivered" \/ o = OfferOf(c)
                          /\ row[o] # "none" => row'[o] # "none"
    BY <1>7, <2>1 DEF MarkDelivered
  <2>5. \A r \in Recs : r \in Offers
    BY DEF Offers
  <2>6. QED
    BY <2>1, <2>2, <2>3, <2>4, <2>5
<1>8. ASSUME NEW c \in Calls, SetCooldown(c) PROVE Inv'
  BY <1>8 DEF SetCooldown
<1>9. ASSUME NEW c \in Calls, MarkSent(c) PROVE Inv'
  <2>1. Attempted(c) /\ (c \in ManualCalls \/ c \in Executions)
    BY <1>9 DEF MarkSent, Calls
  <2>2. AfterDispatch'
    BY <1>9, <2>1 DEF MarkSent
  <2>3. UNCHANGED <<row, status, cooldown, attempt>>
    BY <1>9 DEF MarkSent
  <2>4. \A u \in Users : \A d \in sentBy'[u] :
          d \in sentBy[u] \/ (d = c /\ u = CustomerId(c))
    BY <1>9, CallFacts DEF MarkSent
  <2>5. QED
    BY <2>1, <2>2, <2>3, <2>4
<1>10. ASSUME NEW c \in Calls, MarkExecuted(c) PROVE Inv'
  <2>1. c \in Executions /\ Attempted(c)
    BY <1>10 DEF MarkExecuted
  <2>2. AfterDispatch'
    BY <1>10 DEF MarkExecuted
  <2>3. UNCHANGED <<row, sentBy, cooldown, attempt>>
    BY <1>10 DEF MarkExecuted
  <2>4. \A r \in Recs : status'[r] = "executed" =>
          status[r] = "executed" \/ (r = RecOf[c] /\ row[r] # "none")
    BY <1>10 DEF MarkExecuted
  <2>5. \A r \in Recs : status'[r] = "executed" =>
          row[r] # "none" /\ \E d \in Executions : RecOf[d] = r /\ Attempted(d)
    BY <2>1, <2>4
  <2>6. \A o \in Offers : row'[o] = "delivered" =>
          \E d \in Calls : OfferOf(d) = o /\ Attempted(d)'
    BY <2>3
  <2>7. \A u \in Users : \A d \in sentBy'[u] : CustomerId(d) = u /\ Attempted(d)'
    BY <2>3
  <2>8. \A u \in cooldown' : \E d \in Calls : CustomerId(d) = u /\ Attempted(d)'
    BY <2>3
  <2>9. \A r \in Recs : status'[r] = "executed" =>
          row'[r] # "none" /\ \E d \in Executions : RecOf[d] = r /\ Attempted(d)'
    BY <2>3, <2>5
  <2>10. QED
    BY <2>2, <2>6, <2>7, <2>8, <2>9
<1>11. ASSUME NEW c \in Calls, ReleaseUserLock(c) PROVE Inv'
  BY <1>11 DEF ReleaseUserLock
<1>12. ASSUME NEW c \in Calls, Background(c) PROVE Inv'
  <2>1. CASE Renew(c) \/ WriterProduce(c)
    BY <2>1 DEF Renew, WriterProduce
  <2>2. CASE WriterInsert(c)
    <3>1. UNCHANGED <<pc, status, sentBy, cooldown, attempt>>
      BY <2>2 DEF WriterInsert
    <3>2. \A o \in Offers : /\ row'[o] = "delivered" => row[o] = "delivered"
                            /\ row[o] # "none" => row'[o] # "none"
      BY <2>2, CallFacts DEF WriterInsert
    <3>3. \A r \in Recs : r \in Offers
      BY DEF Offers
    <3>4. QED
      BY <3>1, <3>2, <3>3
  <2>3. QED
    BY <1>12, <2>1, <2>2 DEF Background
<1>13. ASSUME NEW c \in Calls, Crash(c) PROVE Inv'
  BY <1>13 DEF Crash
<1>14. ASSUME NEW u \in Users,
              LockExpires(u) \/ Purchase(u) \/ SentExpires(u) \/ CooldownExpires(u)
       PROVE  Inv'
  BY <1>14 DEF LockExpires, Purchase, SentExpires, ClearSent, CooldownExpires
<1>15. ASSUME NEW r \in Recs,
              BecomesDue(r) \/ ExpireScan(r) \/ RejectCheck(r) \/ RejectWrite(r)
       PROVE  Inv'
  BY <1>15 DEF BecomesDue, ExpireScan, RejectCheck, RejectWrite
<1>16. CASE DayRollover
  BY <1>16 DEF DayRollover
<1>17. CASE UNCHANGED vars
  BY <1>17 DEF vars
<1>18. QED
  BY <1>1, <1>2, <1>3, <1>4, <1>5, <1>6, <1>7, <1>8, <1>9, <1>10, <1>11,
     <1>12, <1>13, <1>14, <1>15, <1>16, <1>17 DEF Next, CallStep

(* Whatever fails or crashes, and in whatever order the un-awaited writes  *)
(* land, the tables, the sent marker and the cooldown never claim an       *)
(* intervention whose outbound request was not made.                       *)
THEOREM RecordsAreTruthful == Spec => []RecordsFollowDispatch
<1>1. Init => AfterDispatch /\ RecordsFollowDispatch
  BY ConstantsOK DEF Init, AfterDispatch, RecordsFollowDispatch, Calls, Offers
<1>2. TypeOK /\ (AfterDispatch /\ RecordsFollowDispatch) /\ [Next]_vars
        => (AfterDispatch /\ RecordsFollowDispatch)'
  BY RecordsInductive
<1>3. QED
  BY <1>1, <1>2, TypeCorrect, PTL DEF Spec

-----------------------------------------------------------------------------
(* Why a later call is stopped: who stands in a marker, or was seen there, *)
(* is past its own markSent and never marks again; and a call that got     *)
(* past the check saw the marker empty.                                    *)
Marked == {c \in Calls : pc[c] \in {"markExecuted", "release", "done", "crashed"}}
NotYetChecked == {"idle", "get", "expire", "cooldown", "isSent"}

LaterCallsInv ==
  /\ \A u \in Users : sentBy[u] \subseteq Marked
  /\ \A c \in Calls : known[c] \subseteq Marked
  /\ \A c \in Calls : pc[c] \in NotYetChecked => ~ Attempted(c)
  /\ \A c \in Calls \ Overrides :
       (pc[c] \in PhaseTwo \cup {"acquire"} \/ Attempted(c)) =>
         known[c] \cap sentBy[CustomerId(c)] = {}

LEMMA LaterCallsInductive ==
  ASSUME "redis" \notin Faults, TypeOK, LaterCallsInv, [Next]_vars
  PROVE  LaterCallsInv'
<1> USE DEF TypeOK, LaterCallsInv, Marked, NotYetChecked, PhaseTwo, Attempted
<1>1. ASSUME NEW c \in Calls, CallExecute(c) \/ CallManual(c) PROVE LaterCallsInv'
  BY <1>1, CallFacts DEF CallExecute, CallManual
<1>2. ASSUME NEW c \in Calls,
             GetRecommendation(c) \/ MarkExpired(c) \/ CheckCooldown(c)
      PROVE  LaterCallsInv'
  BY <1>2 DEF GetRecommendation, MarkExpired, CheckCooldown
<1>3. ASSUME NEW c \in Calls, IsSent(c) PROVE LaterCallsInv'
  BY <1>3 DEF IsSent
<1>4. ASSUME NEW c \in Calls, AcquireUserLock(c) PROVE LaterCallsInv'
  BY <1>4 DEF AcquireUserLock
<1>5. ASSUME NEW c \in Calls, CheckAndReserve(c) PROVE LaterCallsInv'
  BY <1>5 DEF CheckAndReserve
<1>6. ASSUME NEW c \in Calls,
             GenerateCode(c) \/ OutboundRoute(c) \/ MarkDelivered(c) \/ SetCooldown(c)
      PROVE  LaterCallsInv'
  BY <1>6 DEF GenerateCode, OutboundRoute, MarkDelivered, SetCooldown
<1>7. ASSUME NEW c \in Calls, MarkSent(c) PROVE LaterCallsInv'
  <2>1. \A d \in Calls : c \notin known[d]
    BY <1>7 DEF MarkSent
  <2>2. QED
    BY <1>7, <2>1, CallFacts DEF MarkSent
<1>8. ASSUME NEW c \in Calls, MarkExecuted(c) \/ ReleaseUserLock(c)
      PROVE  LaterCallsInv'
  BY <1>8 DEF MarkExecuted, ReleaseUserLock
<1>9. ASSUME NEW c \in Calls, Background(c) PROVE LaterCallsInv'
  BY <1>9 DEF Background, Renew, WriterInsert, WriterProduce
<1>10. ASSUME NEW c \in Calls, Crash(c) PROVE LaterCallsInv'
  BY <1>10 DEF Crash
<1>11. ASSUME NEW u \in Users,
              LockExpires(u) \/ Purchase(u) \/ SentExpires(u) \/ CooldownExpires(u)
       PROVE  LaterCallsInv'
  BY <1>11, CallFacts DEF LockExpires, Purchase, SentExpires, ClearSent, CooldownExpires
<1>12. ASSUME NEW r \in Recs,
              BecomesDue(r) \/ ExpireScan(r) \/ RejectCheck(r) \/ RejectWrite(r)
       PROVE  LaterCallsInv'
  BY <1>12 DEF BecomesDue, ExpireScan, RejectCheck, RejectWrite
<1>13. CASE DayRollover
  BY <1>13 DEF DayRollover
<1>14. CASE UNCHANGED vars
  BY <1>14 DEF vars
<1>15. QED
  BY <1>1, <1>2, <1>3, <1>4, <1>5, <1>6, <1>7, <1>8, <1>9, <1>10, <1>11,
     <1>12, <1>13, <1>14 DEF Next, CallStep

(* The unlocked fast-path check is enough against every call that is made  *)
(* after the marker was set; it is only calls that overlap it that can     *)
(* still send twice.  Needs Redis to answer, nothing else.                 *)
THEOREM MarkerStopsLaterCalls ==
  ASSUME "redis" \notin Faults
  PROVE  Spec => []LaterCallsAreStopped
<1>1. Init => LaterCallsInv
  BY ConstantsOK DEF Init, LaterCallsInv, Attempted, PhaseTwo, NotYetChecked, Calls
<1>2. TypeOK /\ LaterCallsInv /\ [Next]_vars => LaterCallsInv'
  BY LaterCallsInductive
<1>3. LaterCallsInv => LaterCallsAreStopped
  BY DEF LaterCallsInv, LaterCallsAreStopped
<1>4. QED
  BY <1>1, <1>2, <1>3, TypeCorrect, PTL DEF Spec

-------------------------------------------------------------------------------
(* The budget: the calls charged today stand side by side under the        *)
(* counter, a call that has not reserved is not charged, and, when Redis   *)
(* answers, one that went past the reservation is, if its offer costs      *)
(* anything.                                                               *)
ReservationsFit ==
  \E place \in [Calls -> 0..MaxDailyBudget] :
    SideBySide(ChargedToday, place, reserved)
NotYetReserved == NotYetChecked \cup {"acquire", "reserve"}

BudgetInv ==
  /\ reserved <= MaxDailyBudget
  /\ ReservationsFit
  /\ \A c \in Calls : pc[c] \in NotYetReserved => charge[c] = "none"
  /\ "redis" \notin Faults =>
       \A c \in Calls : /\ pc[c] \in {"code", "outbound"} \/ Attempted(c)
                        /\ Amount(c) > 0
                        => charge[c] # "none"

(* The script's reservation puts the call's amount on top of the others.   *)
LEMMA ReservationFits ==
  ASSUME TypeOK, BudgetInv, NEW c \in Calls, CheckAndReserve(c),
         reserved + Amount(c) <= MaxDailyBudget,
         reserved' = reserved + Amount(c),
         charge' = [charge EXCEPT ![c] = "today"]
  PROVE  ReservationsFit'
<1>1. charge[c] = "none"
  BY DEF CheckAndReserve, BudgetInv, NotYetReserved, NotYetChecked, TypeOK
<1>2. PICK place \in [Calls -> 0..MaxDailyBudget] :
        SideBySide(ChargedToday, place, reserved)
  BY DEF BudgetInv, ReservationsFit
<1> DEFINE onTop == [place EXCEPT ![c] = reserved]
<1>3. Amount(c) \in Nat /\ reserved \in Nat /\ MaxDailyBudget \in Nat
  BY AmountsAreNaturals, ConstantsOK DEF Amount, TypeOK
<1>4. onTop \in [Calls -> 0..MaxDailyBudget]
  <2>1. reserved \in 0..MaxDailyBudget
    BY <1>3
  <2>2. QED
    BY <1>2, <2>1
<1>5. ChargedToday' = ChargedToday \cup {c} /\ c \notin ChargedToday
  BY <1>1 DEF ChargedToday, TypeOK
<1>6. \A d \in ChargedToday : d \in Calls /\ d # c /\ onTop[d] = place[d]
  BY <1>2, <1>5 DEF ChargedToday
<1>7. onTop[c] = reserved
  BY <1>2
<1>8. \A d \in Calls : Amount(d) \in Nat /\ place[d] \in Nat
  BY <1>2, AmountsAreNaturals, ConstantsOK DEF Amount
<1>9. \A d \in ChargedToday :
        /\ place[d] + Amount(d) <= reserved
        /\ \A e \in ChargedToday \ {d} : \/ place[d] + Amount(d) <= place[e]
                                         \/ place[e] + Amount(e) <= place[d]
  BY <1>2 DEF SideBySide
<1>10. SideBySide(ChargedToday', onTop, reserved')
  <2>1. ASSUME NEW d \in ChargedToday
        PROVE  /\ onTop[d] + Amount(d) <= reserved'
               /\ onTop[d] + Amount(d) <= onTop[c]
    BY <1>3, <1>6, <1>7, <1>8, <1>9
  <2>2. ASSUME NEW d \in ChargedToday, NEW e \in ChargedToday \ {d}
        PROVE  \/ onTop[d] + Amount(d) <= onTop[e]
               \/ onTop[e] + Amount(e) <= onTop[d]
    BY <1>6, <1>9
  <2>3. onTop[c] + Amount(c) <= reserved'
    BY <1>3, <1>7
  <2> HIDE DEF onTop
  <2>4. QED
    BY <1>5, <2>1, <2>2, <2>3 DEF SideBySide
<1>11. QED
  BY <1>4, <1>10 DEF ReservationsFit

LEMMA BudgetInductive ==
  ASSUME TypeOK, BudgetInv, [Next]_vars
  PROVE  BudgetInv'
<1> USE DEF TypeOK, NotYetReserved, NotYetChecked, Attempted
(* Most steps leave the counter and the charges alone. *)
<1> DEFINE Uncharged == UNCHANGED <<reserved, charge>>
           Positions == /\ \A c \in Calls : pc'[c] \in NotYetReserved => charge[c] = "none"
                        /\ "redis" \notin Faults =>
                             \A c \in Calls : /\ pc'[c] \in {"code", "outbound"} \/ Attempted(c)'
                                              /\ Amount(c) > 0
                                              => charge[c] # "none"
<1>1. ASSUME Uncharged, Positions PROVE BudgetInv'
  <2>1. ReservationsFit' /\ reserved' <= MaxDailyBudget
    BY <1>1 DEF BudgetInv, ReservationsFit, SideBySide, ChargedToday
  <2>2. QED
    BY <1>1, <2>1 DEF BudgetInv
<1> HIDE DEF Uncharged
<1>2. ASSUME NEW c \in Calls,
             CallExecute(c) \/ CallManual(c) \/ GetRecommendation(c) \/ MarkExpired(c)
      PROVE  Uncharged /\ Positions
  BY <1>2 DEF CallExecute, CallManual, GetRecommendation, MarkExpired, BudgetInv, Uncharged
<1>3. ASSUME NEW c \in Calls, CheckCooldown(c) \/ IsSent(c) \/ AcquireUserLock(c)
      PROVE  Uncharged /\ Positions
  BY <1>3 DEF CheckCooldown, IsSent, AcquireUserLock, BudgetInv, Uncharged
<1>4. ASSUME NEW c \in Calls, CheckAndReserve(c) PROVE BudgetInv'
  <2>1. Amount(c) \in Nat /\ MaxDailyBudget \in Nat
    BY AmountsAreNaturals, ConstantsOK DEF Amount
  <2>2. CASE /\ reserved + Amount(c) <= MaxDailyBudget
             /\ reserved' = reserved + Amount(c)
             /\ charge' = [charge EXCEPT ![c] = "today"]
             /\ pc' = [pc EXCEPT ![c] = "code"]
    <3>1. ReservationsFit'
      BY <1>4, <2>2, ReservationFits
    <3>2. UNCHANGED attempt
      BY <1>4 DEF CheckAndReserve
    <3>3. QED
      BY <2>1, <2>2, <3>1, <3>2 DEF BudgetInv
  <2>3. CASE /\ Uncharged
             /\ \/ pc' = [pc EXCEPT ![c] = "done"]
                \/ pc' = [pc EXCEPT ![c] = "release"]
                \/ /\ pc' = [pc EXCEPT ![c] = "code"]
                   /\ Amount(c) = 0 \/ May("redis")
    <3>1. UNCHANGED attempt
      BY <1>4 DEF CheckAndReserve
    <3>2. Positions
      BY <2>3, <3>1, <2>1 DEF BudgetInv
    <3>3. QED
      BY <1>1, <2>3, <3>2
  <2>4. QED
    BY <1>4, <2>1, <2>2, <2>3 DEF CheckAndReserve, Amount, Uncharged
<1>5. ASSUME NEW c \in Calls,
             GenerateCode(c) \/ OutboundRoute(c) \/ MarkDelivered(c)
      PROVE  Uncharged /\ Positions
  BY <1>5 DEF GenerateCode, OutboundRoute, MarkDelivered, BudgetInv, Uncharged
<1>6. ASSUME NEW c \in Calls,
             SetCooldown(c) \/ MarkSent(c) \/ MarkExecuted(c) \/ ReleaseUserLock(c)
      PROVE  Uncharged /\ Positions
  BY <1>6 DEF SetCooldown, MarkSent, MarkExecuted, ReleaseUserLock, BudgetInv, Uncharged
<1>7. ASSUME NEW c \in Calls, Background(c) \/ Crash(c) PROVE Uncharged /\ Positions
  BY <1>7 DEF Background, Renew, WriterInsert, WriterProduce, Crash, BudgetInv, Uncharged
<1>8. ASSUME NEW u \in Users,
             LockExpires(u) \/ Purchase(u) \/ SentExpires(u) \/ CooldownExpires(u)
      PROVE  Uncharged /\ Positions
  BY <1>8 DEF LockExpires, Purchase, SentExpires, ClearSent, CooldownExpires,
              BudgetInv, Uncharged
<1>9. ASSUME NEW r \in Recs,
             BecomesDue(r) \/ ExpireScan(r) \/ RejectCheck(r) \/ RejectWrite(r)
      PROVE  Uncharged /\ Positions
  BY <1>9 DEF BecomesDue, ExpireScan, RejectCheck, RejectWrite, BudgetInv, Uncharged
<1>10. CASE DayRollover
  <2>1. ChargedToday' = {} /\ reserved' = 0
    BY <1>10 DEF DayRollover, ChargedToday
  <2>2. [c \in Calls |-> 0] \in [Calls -> 0..MaxDailyBudget] /\ 0 <= MaxDailyBudget
    BY ConstantsOK
  <2>3. ReservationsFit'
    BY <2>1, <2>2 DEF ReservationsFit, SideBySide
  <2>4. \A c \in Calls : charge'[c] = "none" <=> charge[c] = "none"
    BY <1>10 DEF DayRollover
  <2>5. UNCHANGED <<pc, attempt>>
    BY <1>10 DEF DayRollover
  <2>6. QED
    BY <2>1, <2>2, <2>3, <2>4, <2>5 DEF BudgetInv
<1>11. ASSUME UNCHANGED vars PROVE Uncharged /\ Positions
  BY <1>11 DEF vars, BudgetInv, Uncharged
<1>12. QED
  BY <1>1, <1>2, <1>3, <1>4, <1>5, <1>6, <1>7, <1>8, <1>9, <1>10, <1>11
     DEF Next, CallStep

LEMMA BudgetInvariant == Spec => []BudgetInv
<1>1. Init => BudgetInv
  <2> SUFFICES ASSUME Init PROVE BudgetInv
    OBVIOUS
  <2>1. ChargedToday = {} /\ reserved = 0
    BY DEF Init, ChargedToday
  <2>2. [c \in Calls |-> 0] \in [Calls -> 0..MaxDailyBudget] /\ 0 <= MaxDailyBudget
    BY ConstantsOK
  <2>3. ReservationsFit
    BY <2>1, <2>2 DEF ReservationsFit, SideBySide
  <2>4. QED
    BY <2>1, <2>2, <2>3 DEF Init, BudgetInv, NotYetReserved, NotYetChecked, Attempted
<1>2. TypeOK /\ BudgetInv /\ [Next]_vars => BudgetInv'
  BY BudgetInductive
<1>3. QED
  BY <1>1, <1>2, TypeCorrect, PTL DEF Spec

(* What fits below the counter fits below the limit. *)
LEMMA CounterIsWithinLimit ==
  ASSUME TypeOK, BudgetInv
  PROVE  ChargesFit
<1>1. PICK place \in [Calls -> 0..MaxDailyBudget] :
        SideBySide(ChargedToday, place, reserved)
  BY DEF BudgetInv, ReservationsFit
<1>2. \A c \in Calls : Amount(c) \in Nat /\ place[c] \in Nat
  BY <1>1, AmountsAreNaturals, ConstantsOK DEF Amount
<1>3. SideBySide(ChargedToday, place, MaxDailyBudget)
  BY <1>1, <1>2, ConstantsOK DEF SideBySide, ChargedToday, BudgetInv, TypeOK
<1>4. QED
  BY <1>1, <1>3 DEF ChargesFit

(* budget.service.ts:58-62, whatever fails: however many replicas check    *)
(* and count, across midnight, crashes and Redis errors, what is charged   *)
(* to a day fits the policy's limit.                                       *)
THEOREM ChargesAlwaysFit == Spec => []ChargesFit
<1>1. TypeOK /\ BudgetInv => ChargesFit
  BY CounterIsWithinLimit
<1>2. QED
  BY <1>1, TypeCorrect, BudgetInvariant, PTL

(* And when Redis answers (an error approves without counting), what is    *)
(* dispatched has been charged.                                            *)
THEOREM BudgetCoversDispatches ==
  ASSUME "redis" \notin Faults
  PROVE  Spec => []DispatchesWithinBudget
<1>1. TypeOK /\ BudgetInv => DispatchesWithinBudget
  BY CounterIsWithinLimit DEF BudgetInv, DispatchesWithinBudget
<1>2. QED
  BY <1>1, TypeCorrect, BudgetInvariant, PTL

-------------------------------------------------------------------------------
(***************************************************************************)
(* MappedSocketIsOpen, ResolverIsWaiting and AnsweredIsKept, for any       *)
(* number of pods, sockets, payloads and requests, whatever is closed      *)
(* late, times out, fails or dies.  A resolver names its request, so one   *)
(* that is registered twice would have to be at two pods or have two       *)
(* payloads; and an answer that comes back through forwards is about the   *)
(* payload that was sent, because a request keeps its payload and its      *)
(* caller for ever.                                                        *)
(***************************************************************************)
\* A connected socket has a pod.
SocketsAreSomewhere == \A k \in Sockets : sock[k] # "new" => home[k] \in Pods

\* A request that has arrived has a pod and a payload, one that is forwarded a target.
RequestsAreSomewhere ==
  \A r \in Requests :
    /\ stage[r] # "idle" => at[r] \in Pods /\ iv[r] \in Interventions
    /\ stage[r] = "forward" => to[r] \in Pods

\* A forwarded request carries its caller's payload.
CallersAgree ==
  \A c \in Requests :
    from[c] # None => stage[from[c]] # "idle" /\ iv[from[c]] = iv[c]

GatewayInv ==
  /\ GatewayTypeOK
  /\ SocketsAreSomewhere /\ RequestsAreSomewhere /\ CallersAgree
  /\ MappedSocketIsOpen /\ ResolverIsWaiting /\ AnsweredIsKept

LEMMA GatewayInitially == GatewayInit => GatewayInv
<1> SUFFICES ASSUME GatewayInit PROVE GatewayInv
  OBVIOUS
<1> USE DEF GatewayInit
<1>1. GatewayTypeOK
  BY DEF GatewayTypeOK, Stages
<1>2. SocketsAreSomewhere /\ RequestsAreSomewhere /\ CallersAgree
  BY DEF SocketsAreSomewhere, RequestsAreSomewhere, CallersAgree
<1>3. MappedSocketIsOpen /\ ResolverIsWaiting /\ AnsweredIsKept
  BY DEF MappedSocketIsOpen, ResolverIsWaiting, AnsweredIsKept
<1> QED BY <1>1, <1>2, <1>3 DEF GatewayInv

(* A step that leaves the requests alone keeps what is said of them, as    *)
(* long as nothing that was shown or kept is forgotten.                    *)
LEMMA RequestsUntouched ==
  ASSUME GatewayInv, UNCHANGED <<registry, reqVars>>,
         \A i \in Interventions : pending = i \/ i \in settled => pending' = i \/ i \in settled'
  PROVE  (RequestsAreSomewhere /\ CallersAgree /\ ResolverIsWaiting /\ AnsweredIsKept)'
<1> USE DEF GatewayInv, reqVars
<1>1. (RequestsAreSomewhere /\ CallersAgree)'
  BY DEF RequestsAreSomewhere, CallersAgree
<1>2. ResolverIsWaiting'
  BY DEF ResolverIsWaiting
<1>3. AnsweredIsKept'
  BY DEF AnsweredIsKept, RequestsAreSomewhere
<1> QED BY <1>1, <1>2, <1>3

(* A step that leaves the sockets alone keeps what is said of them.        *)
LEMMA SocketsUntouched ==
  ASSUME GatewayInv, UNCHANGED <<sock, home, socketMap>>
  PROVE  (SocketsAreSomewhere /\ MappedSocketIsOpen)'
  BY DEF GatewayInv, SocketsAreSomewhere, MappedSocketIsOpen

LEMMA SocketSteps ==
  ASSUME GatewayInv, NEW k \in Sockets,
         (\E p \in PodsOf[k] : Open(k, p)) \/ Message(k) \/ Close(k)
  PROVE  GatewayInv'
<1> USE DEF GatewayInv, sockVars
<1>1. ASSUME NEW p \in PodsOf[k], Open(k, p) PROVE GatewayInv'
  <2>1. p \in Pods
    BY GatewayAssumption
  <2>2. GatewayTypeOK'
    BY <1>1, <2>1 DEF Open, GatewayTypeOK, reqVars
  <2>3. SocketsAreSomewhere' /\ MappedSocketIsOpen'
    BY <1>1, <2>1, GatewayAssumption
       DEF Open, GatewayTypeOK, SocketsAreSomewhere, MappedSocketIsOpen
  <2>4. UNCHANGED <<registry, reqVars>> /\ UNCHANGED <<pending, settled>>
    BY <1>1 DEF Open
  <2> QED BY <2>2, <2>3, <2>4, RequestsUntouched
<1>2. CASE Message(k)
  <2>1. home[k] \in Pods
    BY <1>2 DEF Message, SocketsAreSomewhere
  <2>2. GatewayTypeOK'
    BY <1>2, <2>1 DEF Message, GatewayTypeOK, reqVars
  <2>3. UNCHANGED <<registry, reqVars, pending, settled>> /\ UNCHANGED <<sock, home, socketMap>>
    BY <1>2 DEF Message
  <2> QED BY <2>2, <2>3, RequestsUntouched, SocketsUntouched
<1>3. CASE Close(k)
  <2>1. GatewayTypeOK'
    BY <1>3 DEF Close, GatewayTypeOK, reqVars
  <2>2. SocketsAreSomewhere' /\ MappedSocketIsOpen'
    BY <1>3 DEF Close, GatewayTypeOK, SocketsAreSomewhere, MappedSocketIsOpen
  <2>3. UNCHANGED <<registry, reqVars, pending, settled>>
    BY <1>3 DEF Close
  <2> QED BY <2>1, <2>2, <2>3, RequestsUntouched
<1> QED BY <1>1, <1>2, <1>3

LEMMA AckSteps ==
  ASSUME GatewayInv, NEW k \in Sockets, NEW i \in Interventions, Ack(k, i)
  PROVE  GatewayInv'
<1> USE DEF GatewayInv
<1> DEFINE p == home[k]
           r == registry[p][i]
<1>1. p \in Pods
  BY DEF Ack, SocketsAreSomewhere
<1>2. r \in Requests \union {None}
  BY <1>1 DEF GatewayTypeOK
<1>3. r # None => stage[r] = "ack" /\ at[r] = p /\ iv[r] = i
  BY <1>1 DEF ResolverIsWaiting
<1>4. SocketsAreSomewhere' /\ MappedSocketIsOpen'
  BY SocketsUntouched DEF Ack
<1>5. UNCHANGED <<at, iv, from, to, pending>> /\ settled' = settled \union {i}
  BY DEF Ack
<1>6. CASE r = None
  <2>1. UNCHANGED <<registry, stage>>
    BY <1>6 DEF Ack
  <2>2. GatewayTypeOK'
    BY <1>1, <1>5, <2>1 DEF Ack, GatewayTypeOK
  <2> QED BY <1>4, <1>5, <2>1, <2>2, RequestsUntouched DEF reqVars
<1>7. CASE r # None
  <2>1. /\ registry' = [registry EXCEPT ![p][i] = None]
        /\ stage' = [stage EXCEPT ![r] = "answered"]
    BY <1>7 DEF Ack
  <2>2. GatewayTypeOK'
    BY <1>1, <1>2, <1>5, <1>7, <2>1 DEF Ack, GatewayTypeOK, Stages
  <2>3. RequestsAreSomewhere' /\ CallersAgree'
    BY <1>2, <1>3, <1>5, <1>7, <2>1 DEF RequestsAreSomewhere, CallersAgree, GatewayTypeOK
  <2>4. ResolverIsWaiting'
    BY <1>1, <1>3, <1>5, <1>7, <2>1 DEF ResolverIsWaiting, GatewayTypeOK
  <2>5. AnsweredIsKept'
    BY <1>3, <1>5, <1>7, <2>1 DEF AnsweredIsKept, GatewayTypeOK
  <2> QED BY <1>4, <2>2, <2>3, <2>4, <2>5
<1> QED BY <1>6, <1>7

(* A request that arrives was idle: nothing referred to it.                *)
LEMMA HandleSteps ==
  ASSUME GatewayInv, NEW r \in Requests, NEW p \in Pods, NEW i \in Interventions,
         NEW caller \in Requests \union {None},
         caller # None => stage[caller] # "idle" /\ iv[caller] = i,
         Handle(r, p, i, caller)
  PROVE  GatewayInv'
<1> USE DEF GatewayInv, Handle
<1>1. SocketsAreSomewhere' /\ MappedSocketIsOpen'
  BY SocketsUntouched DEF sockVars
<1>2. /\ stage[r] = "idle" /\ stage' \in {[stage EXCEPT ![r] = "lookup"], [stage EXCEPT ![r] = "ack"]}
      /\ UNCHANGED <<to, pending, settled>>
  OBVIOUS
<1>3. GatewayTypeOK'
  <2>1. registry' \in [Pods -> [Interventions -> Requests \union {None}]]
    BY DEF GatewayTypeOK
  <2>2. inbox' \in [Sockets -> SUBSET Interventions]
    BY DEF GatewayTypeOK
  <2> HIDE DEF Handle
  <2>3. /\ at' = [at EXCEPT ![r] = p] /\ iv' = [iv EXCEPT ![r] = i]
        /\ from' = [from EXCEPT ![r] = caller] /\ UNCHANGED sockVars
    BY DEF Handle
  <2> QED BY <1>2, <2>1, <2>2, <2>3 DEF GatewayTypeOK, sockVars, Stages
<1>4. RequestsAreSomewhere'
  BY <1>2 DEF RequestsAreSomewhere, GatewayTypeOK
<1>5. CallersAgree'
  BY <1>2 DEF CallersAgree, GatewayTypeOK
<1>6. ResolverIsWaiting'
  BY <1>2, GatewayAssumption DEF ResolverIsWaiting, GatewayTypeOK
<1>7. AnsweredIsKept'
  BY <1>2 DEF AnsweredIsKept, GatewayTypeOK
<1> QED BY <1>1, <1>3, <1>4, <1>5, <1>6, <1>7

LEMMA RequestSteps ==
  ASSUME GatewayInv, NEW r \in Requests, RequestStep(r)
  PROVE  GatewayInv'
<1> USE DEF GatewayInv
<1>1. SocketsAreSomewhere' /\ MappedSocketIsOpen'
  BY SocketsUntouched
     DEF RequestStep, AckTimeout, LookUp, ForwardAnswered, ForwardFails, StorePending, sockVars
<1>2. GatewayTypeOK' /\ RequestsAreSomewhere' /\ CallersAgree'
  <2>1. CASE AckTimeout(r)
    <3>1. at[r] \in Pods /\ iv[r] \in Interventions
      BY <2>1 DEF AckTimeout, RequestsAreSomewhere
    <3>2. GatewayTypeOK'
      BY <2>1, <3>1 DEF AckTimeout, GatewayTypeOK, Stages, sockVars
    <3> QED BY <2>1, <3>2 DEF AckTimeout, RequestsAreSomewhere, CallersAgree, GatewayTypeOK
  <2>2. CASE LookUp(r)
    <3>1. GatewayTypeOK'
      BY <2>2 DEF LookUp, GatewayTypeOK, Stages, sockVars
    <3> QED BY <2>2, <3>1 DEF LookUp, RequestsAreSomewhere, CallersAgree, GatewayTypeOK
  <2>3. CASE ForwardAnswered(r) \/ ForwardFails(r)
    <3>1. GatewayTypeOK'
      BY <2>3 DEF ForwardAnswered, ForwardFails, GatewayTypeOK, Stages, sockVars
    <3> QED BY <2>3, <3>1
            DEF ForwardAnswered, ForwardFails, RequestsAreSomewhere, CallersAgree, GatewayTypeOK
  <2>4. CASE StorePending(r)
    <3>1. iv[r] \in Interventions
      BY <2>4 DEF StorePending, RequestsAreSomewhere
    <3>2. GatewayTypeOK'
      BY <2>4, <3>1 DEF StorePending, GatewayTypeOK, Stages, sockVars
    <3> QED BY <2>4, <3>2 DEF StorePending, RequestsAreSomewhere, CallersAgree, GatewayTypeOK
  <2> QED BY <2>1, <2>2, <2>3, <2>4 DEF RequestStep
<1>3. ResolverIsWaiting'
  <2>1. CASE AckTimeout(r)
    BY <2>1 DEF AckTimeout, ResolverIsWaiting, RequestsAreSomewhere, GatewayTypeOK
  <2>2. CASE LookUp(r) \/ ForwardAnswered(r) \/ ForwardFails(r) \/ StorePending(r)
    <3>1. /\ stage[r] # "ack" /\ UNCHANGED <<registry, at, iv>>
          /\ \E s \in Stages : stage' = [stage EXCEPT ![r] = s]
      BY <2>2 DEF LookUp, ForwardAnswered, ForwardFails, StorePending, Stages
    <3> QED BY <3>1 DEF ResolverIsWaiting, GatewayTypeOK
  <2> QED BY <2>1, <2>2 DEF RequestStep
<1>4. AnsweredIsKept'
  <2>1. CASE AckTimeout(r) \/ LookUp(r) \/ ForwardFails(r)
    BY <2>1 DEF AckTimeout, LookUp, ForwardFails, AnsweredIsKept, GatewayTypeOK
  <2>2. CASE ForwardAnswered(r)
    <3>1. PICK c \in Requests : from[c] = r /\ stage[c] = "answered"
      BY <2>2 DEF ForwardAnswered
    <3>2. iv[c] = iv[r]
      BY <3>1, GatewayAssumption DEF CallersAgree
    <3>3. pending = iv[r] \/ iv[r] \in settled
      BY <3>1, <3>2 DEF AnsweredIsKept
    <3> QED BY <2>2, <3>3 DEF ForwardAnswered, AnsweredIsKept, GatewayTypeOK
  <2>3. CASE StorePending(r)
    <3>1. \A q \in Requests : stage[q] = "answered" => iv[q] # None
      BY GatewayAssumption DEF RequestsAreSomewhere
    <3>2. /\ UNCHANGED iv
          /\ pending' = iv[r] \/ iv[r] \in settled'
          /\ \A q \in Requests : stage'[q] = "answered" => stage[q] = "answered" \/ q = r
      BY <2>3 DEF StorePending, GatewayTypeOK
    <3>3. \A q \in Requests : stage[q] = "answered" => pending' = iv[q] \/ iv[q] \in settled'
      BY <2>3, <3>1 DEF StorePending, AnsweredIsKept
    <3> QED BY <3>2, <3>3 DEF AnsweredIsKept
  <2> QED BY <2>1, <2>2, <2>3 DEF RequestStep
<1> QED BY <1>1, <1>2, <1>3, <1>4

LEMMA CrashSteps ==
  ASSUME GatewayInv, NEW p \in Pods, PodDies(p)
  PROVE  GatewayInv'
<1> USE DEF GatewayInv, PodDies
<1>1. GatewayTypeOK'
  BY DEF GatewayTypeOK, Stages
<1>2. SocketsAreSomewhere'
  BY DEF SocketsAreSomewhere, GatewayTypeOK
<1>3. MappedSocketIsOpen'
  BY DEF MappedSocketIsOpen, GatewayTypeOK
<1>4. RequestsAreSomewhere'
  BY DEF RequestsAreSomewhere, GatewayTypeOK
<1>5. CallersAgree'
  BY DEF CallersAgree, GatewayTypeOK
<1>6. ResolverIsWaiting'
  BY DEF ResolverIsWaiting, GatewayTypeOK
<1>7. AnsweredIsKept'
  BY DEF AnsweredIsKept, GatewayTypeOK
<1> QED BY <1>1, <1>2, <1>3, <1>4, <1>5, <1>6, <1>7

LEMMA GatewayStep == GatewayInv /\ [GatewayNext]_gatewayVars => GatewayInv'
<1> SUFFICES ASSUME GatewayInv, [GatewayNext]_gatewayVars PROVE GatewayInv'
  OBVIOUS
<1>1. CASE UNCHANGED gatewayVars
  <2>1. GatewayTypeOK'
    BY <1>1 DEF gatewayVars, GatewayInv, GatewayTypeOK
  <2>2. UNCHANGED <<sock, home, socketMap>> /\ UNCHANGED <<registry, reqVars>>
        /\ UNCHANGED <<pending, settled>>
    BY <1>1 DEF gatewayVars, reqVars
  <2> QED BY <2>1, <2>2, SocketsUntouched, RequestsUntouched DEF GatewayInv
<1>2. ASSUME NEW p \in Pods, Heartbeat(p) PROVE GatewayInv'
  <2>1. GatewayTypeOK'
    BY <1>2 DEF Heartbeat, GatewayInv, GatewayTypeOK, reqVars
  <2>2. UNCHANGED <<sock, home, socketMap>> /\ UNCHANGED <<registry, reqVars>>
        /\ UNCHANGED <<pending, settled>>
    BY <1>2 DEF Heartbeat
  <2> QED BY <2>1, <2>2, SocketsUntouched, RequestsUntouched DEF GatewayInv
<1>3. CASE ActiveExpires
  <2>1. GatewayTypeOK'
    BY <1>3 DEF ActiveExpires, GatewayInv, GatewayTypeOK, reqVars
  <2>2. UNCHANGED <<sock, home, socketMap>> /\ UNCHANGED <<registry, reqVars>>
        /\ UNCHANGED <<pending, settled>>
    BY <1>3 DEF ActiveExpires
  <2> QED BY <2>1, <2>2, SocketsUntouched, RequestsUntouched DEF GatewayInv
<1>4. CASE Poll
  <2>1. GatewayTypeOK'
    BY <1>4 DEF Poll, GatewayInv, GatewayTypeOK, sockVars, reqVars
  <2>2. UNCHANGED <<sock, home, socketMap>> /\ UNCHANGED <<registry, reqVars>>
        /\ settled' = settled \union {pending}
    BY <1>4 DEF Poll, sockVars
  <2> QED BY <2>1, <2>2, SocketsUntouched, RequestsUntouched DEF GatewayInv
<1>5. ASSUME NEW r \in Pushes, NEW p \in Pods, NEW i \in PayloadsOf[r], Push(r, p, i)
      PROVE  GatewayInv'
  <2>1. i \in Interventions /\ r \in Requests
    BY GatewayAssumption DEF Requests
  <2> QED BY <1>5, <2>1, HandleSteps DEF Push
<1>6. ASSUME NEW r \in Requests, NEW h \in Hops, Forwarded(r, h) PROVE GatewayInv'
  <2>1. /\ h \in Requests /\ to[r] \in Pods /\ iv[r] \in Interventions /\ stage[r] = "forward"
        /\ Handle(h, to[r], iv[r], r)
    BY <1>6 DEF Forwarded, GatewayInv, RequestsAreSomewhere, Requests
  <2> QED BY <2>1, HandleSteps
<1> QED BY <1>1, <1>2, <1>3, <1>4, <1>5, <1>6, SocketSteps, AckSteps, RequestSteps, CrashSteps
        DEF GatewayNext

(* The types of the state, for every value of the constants.               *)
THEOREM GatewayTypeCorrect == GatewaySpec => []GatewayTypeOK
<1>1. GatewayInv => GatewayTypeOK
  BY DEF GatewayInv
<1> QED BY <1>1, GatewayInitially, GatewayStep, PTL DEF GatewaySpec

(* A pod never sends on a socket that is closed or connected elsewhere     *)
(* (server.ts:90 and 122), whatever closes come late.                      *)
THEOREM MappedIsAlwaysOpen == GatewaySpec => []MappedSocketIsOpen
<1>1. GatewayInv => MappedSocketIsOpen
  BY DEF GatewayInv
<1> QED BY <1>1, GatewayInitially, GatewayStep, PTL DEF GatewaySpec

(* An acknowledgement resolves only a push that waits for it               *)
(* (push-handler.ts:129-155).                                              *)
THEOREM ResolversAlwaysWait == GatewaySpec => []ResolverIsWaiting
<1>1. GatewayInv => ResolverIsWaiting
  BY DEF GatewayInv
<1> QED BY <1>1, GatewayInitially, GatewayStep, PTL DEF GatewaySpec

(* What was answered, through any chain of forwards, has been shown, is in *)
(* the slot, left it, or was refused by Redis (push-handler.ts:84-127).    *)
THEOREM AnsweredIsAlwaysKept == GatewaySpec => []AnsweredIsKept
<1>1. GatewayInv => AnsweredIsKept
  BY DEF GatewayInv
<1> QED BY <1>1, GatewayInitially, GatewayStep, PTL DEF GatewaySpec
===============================================================================
