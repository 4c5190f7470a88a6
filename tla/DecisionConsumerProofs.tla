------------------------ MODULE DecisionConsumerProofs ------------------------
(***************************************************************************)
(* Proofs about DecisionConsumer, for any number of replicas, any length   *)
(* of the log, any priorities, any malformed messages and any number of    *)
(* disruptions.                                                            *)
(***************************************************************************)
EXTENDS DecisionConsumer, TLAPS

InBatch == {"loop", "handling", "commit"}

DoneIsHandled == \A m \in Members : done[m] \subseteq handled

(* Every offset of a batch in progress is done, to come, or being handled. *)
BatchIsAccountedFor ==
  \A m \in Members : pc[m] \in InBatch =>
    /\ position[m] < last[m]
    /\ BatchOf(m) \subseteq done[m] \cup left[m] \cup {current[m]}

CurrentIsHandling ==
  \A m \in Members : IF pc[m] = "handling" THEN current[m] \in Offsets
                                           ELSE current[m] = 0

(* A loop broke off only because its member is stale or shutting down. *)
BreaksOnlyWhenGone ==
  \A m \in Members : pc[m] = "commit" /\ left[m] # {} => ~ MayGoOn(m)

(* The owner's position is trustworthy, unless it is about to leave: then  *)
(* the automatic resolution may have moved it past what was not handled.   *)
PositionIsHandled ==
  \A m \in Members :
    owner = m /\ (m \notin isShuttingDown \/ pc[m] \in InBatch) /\ pc[m] # "stopped"
      => 1..position[m] \subseteq handled

ConsumerInv ==
  /\ ConsumerTypeOK
  /\ CommittedIsHandled
  /\ DoneIsHandled
  /\ BatchIsAccountedFor
  /\ CurrentIsHandling
  /\ BreaksOnlyWhenGone
  /\ PositionIsHandled
  /\ committed <= position[owner]

-----------------------------------------------------------------------------
LEMMA ConsumerInvInit == ConsumerInit => ConsumerInv
  BY ConsumerConstantsOK
     DEF ConsumerInit, ConsumerInv, ConsumerTypeOK, CommittedIsHandled,
         DoneIsHandled, BatchIsAccountedFor, CurrentIsHandling,
         BreaksOnlyWhenGone, PositionIsHandled, InBatch, Offsets

(* What eachBatch's return leaves of its locals.                           *)
LEMMA ReturnClears ==
  ASSUME ConsumerTypeOK, NEW m \in Members, Return(m)
  PROVE  /\ last' \in [Members -> 0..LogEnd]
         /\ left' \in [Members -> SUBSET Offsets]
         /\ current' \in [Members -> 0..LogEnd]
         /\ done' \in [Members -> SUBSET Offsets]
         /\ done'[m] = {} /\ left'[m] = {} /\ current'[m] = 0
         /\ \A n \in Members \ {m} :
              /\ last'[n] = last[n] /\ left'[n] = left[n]
              /\ current'[n] = current[n] /\ done'[n] = done[n]
  BY ConsumerConstantsOK DEF Return, ConsumerTypeOK

(* Every step keeps the types; CurrentIsHandling says that current is an   *)
(* offset where it is used.                                                *)
LEMMA ConsumerTypeStep ==
  ConsumerTypeOK /\ CurrentIsHandling /\ [ConsumerNext]_vars => ConsumerTypeOK'
<1> SUFFICES ASSUME ConsumerTypeOK, CurrentIsHandling, [ConsumerNext]_vars
             PROVE  ConsumerTypeOK'
  OBVIOUS
<1>0. ASSUME NEW m \in Members, pc[m] = "handling"
      PROVE  current[m] \in Offsets
  BY <1>0 DEF CurrentIsHandling
<1> USE ConsumerConstantsOK DEF ConsumerTypeOK, group, loop, Goto
<1>1. CASE UNCHANGED vars
  BY <1>1 DEF vars
<1>2. ASSUME NEW m \in Members, EachBatch(m)
      PROVE  ConsumerTypeOK'
  BY <1>2 DEF EachBatch, Offsets
<1>3. ASSUME NEW m \in Members, NextMessage(m)
      PROVE  ConsumerTypeOK'
  BY <1>3 DEF NextMessage, Offsets
<1>4. ASSUME NEW m \in Members, MarkDone(m)
      PROVE  ConsumerTypeOK'
  BY <1>0, <1>4 DEF MarkDone
<1>5. ASSUME NEW m \in Members, HeartbeatThrows(m)
      PROVE  ConsumerTypeOK'
  BY <1>0, <1>5, ReturnClears DEF HeartbeatThrows, Disrupt
<1>6. ASSUME NEW m \in Members, LoopEnds(m)
      PROVE  ConsumerTypeOK'
  BY <1>6 DEF LoopEnds
<1>7. ASSUME NEW m \in Members, CommitOffsets(m)
      PROVE  ConsumerTypeOK'
  <2>1. committed' \in 0..LogEnd
    BY <1>7 DEF CommitOffsets, BatchOf
  <2>2. QED
    BY <1>7, <2>1, ReturnClears DEF CommitOffsets
<1>8. ASSUME NEW m \in Members, TakeOver(m) \/ Reassign(m)
      PROVE  ConsumerTypeOK'
  BY <1>8 DEF TakeOver, Reassign, Disrupt
<1>9. ASSUME NEW m \in Members, Shutdown(m) \/ Start(m)
      PROVE  ConsumerTypeOK'
  BY <1>9 DEF Shutdown, Start, Disrupt
<1>10. ASSUME NEW m \in Members, ShutdownComplete(m) \/ Crash(m)
       PROVE  ConsumerTypeOK'
  BY <1>10, ReturnClears DEF ShutdownComplete, Crash, Disrupt
<1>11. ASSUME NEW m \in Members, HandlingThrows(m)
       PROVE  ConsumerTypeOK'
  BY <1>11, ReturnClears DEF HandlingThrows
<1>12. QED
  BY <1>1, <1>2, <1>3, <1>4, <1>5, <1>6, <1>7, <1>8, <1>9, <1>10, <1>11 DEF ConsumerNext, Batch

(* What a member that commits has resolved is handled.                     *)
LEMMA ResolvedIsHandled ==
  ASSUME ConsumerInv, NEW m \in Members, pc[m] = "commit", owner = m,
         NEW o \in {position[m]} \cup BatchOf(m), Resolves(m, o)
  PROVE  1..o \subseteq handled /\ committed <= o /\ o <= last[m]
<1>1. 1..position[m] \subseteq handled /\ committed <= position[m]
  BY DEF ConsumerInv, PositionIsHandled, InBatch
<1>2. position[m] \in Nat /\ last[m] \in Nat /\ position[m] < last[m] /\ committed \in Nat
  BY ConsumerConstantsOK
     DEF ConsumerInv, ConsumerTypeOK, BatchIsAccountedFor, InBatch
<1>3. \A p \in (position[m] + 1)..last[m] : p <= o => p \in handled
  BY DEF ConsumerInv, DoneIsHandled, Resolves, BatchOf
<1>4. QED
  BY <1>1, <1>2, <1>3 DEF BatchOf

(* A batch that ends disturbs nothing of what is known of the others.      *)
LEMMA ReturnKeeps ==
  ASSUME ConsumerInv, NEW m \in Members, Return(m),
         NEW l \in {"idle", "stopped"}, pc' = [pc EXCEPT ![m] = l],
         owner' = owner, isShuttingDown' = isShuttingDown,
         handled \subseteq handled',
         \A n \in Members \ {m} : position'[n] = position[n]
  PROVE  /\ DoneIsHandled' /\ BatchIsAccountedFor'
         /\ CurrentIsHandling' /\ BreaksOnlyWhenGone'
<1>1. /\ DoneIsHandled /\ BatchIsAccountedFor
      /\ CurrentIsHandling /\ BreaksOnlyWhenGone /\ ConsumerTypeOK
  BY DEF ConsumerInv
<1>2. pc'[m] = l /\ \A n \in Members \ {m} : pc'[n] = pc[n]
  BY <1>1 DEF ConsumerTypeOK
<1>3. DoneIsHandled'
  BY <1>1, ReturnClears DEF DoneIsHandled
<1>4. BatchIsAccountedFor'
  BY <1>1, <1>2, ReturnClears DEF BatchIsAccountedFor, InBatch, BatchOf
<1>5. CurrentIsHandling'
  BY <1>1, <1>2, ReturnClears DEF CurrentIsHandling
<1>6. BreaksOnlyWhenGone'
  BY <1>1, <1>2, ReturnClears DEF BreaksOnlyWhenGone, MayGoOn
<1>7. QED
  BY <1>3, <1>4, <1>5, <1>6

LEMMA ConsumerInvStep == ConsumerInv /\ [ConsumerNext]_vars => ConsumerInv'
<1> SUFFICES ASSUME ConsumerInv, [ConsumerNext]_vars
             PROVE  ConsumerInv'
  OBVIOUS
<1>0. ConsumerTypeOK /\ ConsumerTypeOK'
  BY ConsumerTypeStep DEF ConsumerInv
<1> DEFINE Rest == /\ CommittedIsHandled
                   /\ DoneIsHandled
                   /\ BatchIsAccountedFor
                   /\ CurrentIsHandling
                   /\ BreaksOnlyWhenGone
                   /\ PositionIsHandled
                   /\ committed <= position[owner]
<1>r. Rest
  BY DEF ConsumerInv
<1> USE ConsumerConstantsOK
    DEF ConsumerTypeOK, CommittedIsHandled, DoneIsHandled, BatchIsAccountedFor,
        CurrentIsHandling, BreaksOnlyWhenGone, PositionIsHandled, InBatch, BatchOf, MayGoOn,
        Offsets, group, loop, Goto
<1>1. CASE UNCHANGED vars
  BY <1>1, <1>0, <1>r DEF vars, ConsumerInv
<1>2. ASSUME NEW m \in Members, EachBatch(m)
      PROVE  Rest'
  BY <1>0, <1>r, <1>2 DEF EachBatch
<1>3. ASSUME NEW m \in Members, NextMessage(m)
      PROVE  Rest'
  BY <1>0, <1>r, <1>3 DEF NextMessage
<1>4. ASSUME NEW m \in Members, MarkDone(m)
      PROVE  Rest'
  BY <1>0, <1>r, <1>4 DEF MarkDone
<1>5. ASSUME NEW m \in Members, HeartbeatThrows(m)
      PROVE  Rest'
  <2>1. /\ pc' = [pc EXCEPT ![m] = "idle"]
        /\ handled' = handled \cup {current[m]}
        /\ UNCHANGED <<owner, committed, position, isShuttingDown>>
        /\ Return(m)
    BY <1>5 DEF HeartbeatThrows
  <2>2. PositionIsHandled' /\ committed' <= position'[owner'] /\ CommittedIsHandled'
    BY <1>0, <1>r, <1>5, <2>1 DEF HeartbeatThrows
  <2>3. QED
    BY <2>1, <2>2, ReturnKeeps
<1>6. ASSUME NEW m \in Members, LoopEnds(m)
      PROVE  Rest'
  BY <1>0, <1>r, <1>6 DEF LoopEnds
<1>7. ASSUME NEW m \in Members, CommitOffsets(m)
      PROVE  Rest'
  <2>1. 1..committed' \subseteq handled
    BY <1>0, <1>r, <1>7, ResolvedIsHandled DEF CommitOffsets
  <2>2. committed' <= position'[owner']
    BY <1>0, <1>r, <1>7, ResolvedIsHandled DEF CommitOffsets
  <2>3. owner = m /\ m \notin isShuttingDown => 1..last[m] \subseteq handled
    <3>1. ASSUME owner = m, m \notin isShuttingDown
          PROVE  1..last[m] \subseteq handled
      <4>1. left[m] = {} /\ current[m] = 0 /\ done[m] \subseteq handled
        BY <1>r, <1>7, <3>1 DEF CommitOffsets
      <4>2. BatchOf(m) \subseteq handled
        <5>1. BatchOf(m) \subseteq done[m] \cup {0} /\ position[m] \in Nat
          BY <1>0, <1>r, <1>7, <4>1 DEF CommitOffsets
        <5>2. 0 \notin BatchOf(m)
          BY <5>1
        <5>3. QED
          BY <4>1, <5>1, <5>2
      <4>3. 1..position[m] \subseteq handled /\ position[m] \in Nat
        BY <1>0, <1>r, <1>7, <3>1 DEF CommitOffsets
      <4>4. QED
        BY <4>2, <4>3, <1>0
    <3>2. QED
      BY <3>1
  <2>4. /\ pc' = [pc EXCEPT ![m] = "idle"]
        /\ position' = [position EXCEPT ![m] = last[m]]
        /\ UNCHANGED <<owner, isShuttingDown, handled>>
        /\ Return(m)
    BY <1>7 DEF CommitOffsets
  <2>5. PositionIsHandled'
    BY <1>0, <1>r, <2>3, <2>4
  <2>6. QED
    BY <1>0, <2>1, <2>2, <2>4, <2>5, ReturnKeeps
<1>8. ASSUME NEW m \in Members, TakeOver(m) \/ Reassign(m)
      PROVE  Rest'
  <2>1. /\ owner' = m /\ position' = [position EXCEPT ![m] = committed]
        /\ pc[m] = "idle"
        /\ UNCHANGED <<committed, pc, last, left, current, done, isShuttingDown, handled>>
    BY <1>8 DEF TakeOver, Reassign
  <2>2. BatchIsAccountedFor' /\ CurrentIsHandling' /\ BreaksOnlyWhenGone'
    BY <1>0, <1>r, <1>8, <2>1 DEF TakeOver, Reassign
  <2>3. PositionIsHandled' /\ committed' <= position'[owner']
    BY <1>0, <1>r, <2>1
  <2>4. QED
    BY <1>r, <2>1, <2>2, <2>3
<1>9. ASSUME NEW m \in Members, Shutdown(m) \/ Start(m)
      PROVE  Rest'
  BY <1>0, <1>r, <1>9 DEF Shutdown, Start
<1>10. ASSUME NEW m \in Members, ShutdownComplete(m) \/ Crash(m)
       PROVE  Rest'
  <2>1. /\ pc' = [pc EXCEPT ![m] = "stopped"]
        /\ UNCHANGED <<owner, committed, position, isShuttingDown, handled>>
        /\ Return(m)
    BY <1>10 DEF ShutdownComplete, Crash
  <2>2. PositionIsHandled' /\ committed' <= position'[owner'] /\ CommittedIsHandled'
    BY <1>0, <1>r, <2>1
  <2>3. QED
    BY <2>1, <2>2, ReturnKeeps
<1>11. ASSUME NEW m \in Members, HandlingThrows(m)
       PROVE  Rest'
  <2>1. /\ pc' = [pc EXCEPT ![m] = "idle"]
        /\ UNCHANGED <<owner, committed, position, isShuttingDown, handled>>
        /\ Return(m)
    BY <1>11 DEF HandlingThrows
  <2>2. PositionIsHandled' /\ committed' <= position'[owner'] /\ CommittedIsHandled'
    BY <1>0, <1>r, <1>11, <2>1 DEF HandlingThrows
  <2>3. QED
    BY <2>1, <2>2, ReturnKeeps
<1>12. QED
  BY <1>0, <1>1, <1>2, <1>3, <1>4, <1>5, <1>6, <1>7, <1>8, <1>9, <1>10, <1>11
     DEF ConsumerNext, Batch, ConsumerInv

(* The state of the consumer has its types in every reachable state.       *)
THEOREM ConsumerTypeCorrect == ConsumerSpec => []ConsumerTypeOK
<1>1. ConsumerInv => ConsumerTypeOK
  BY DEF ConsumerInv
<1>2. QED
  BY ConsumerInvInit, ConsumerInvStep, <1>1, PTL DEF ConsumerSpec

(* decision.consumer.ts:248-252: nothing is committed past a message that  *)
(* was not handled, however the batch is ordered, wherever its loop breaks *)
(* and whoever takes the partition over.                                   *)
THEOREM NothingUnhandledIsCommitted == ConsumerSpec => []CommittedIsHandled
<1>1. ConsumerInv => CommittedIsHandled
  BY DEF ConsumerInv
<1>2. QED
  BY ConsumerInvInit, ConsumerInvStep, <1>1, PTL DEF ConsumerSpec

(* What is handled stays so, and a commit, which only the owner makes,     *)
(* moves the offset forward over handled messages.                         *)
LEMMA CommitStep ==
  ASSUME ConsumerInv, [ConsumerNext]_vars
  PROVE  /\ committed' >= committed
         /\ handled \subseteq handled'
         /\ committed' = committed \/ handled' = handled
<1>1. committed \in Nat
  BY ConsumerConstantsOK DEF ConsumerInv, ConsumerTypeOK
<1>2. ASSUME NEW m \in Members, CommitOffsets(m)
      PROVE  committed' >= committed /\ handled' = handled
  BY <1>1, <1>2, ResolvedIsHandled, ConsumerConstantsOK
     DEF CommitOffsets, ConsumerInv, ConsumerTypeOK, BatchOf
<1>3. ASSUME NEW m \in Members, MarkDone(m) \/ HeartbeatThrows(m)
      PROVE  committed' = committed /\ handled \subseteq handled'
  BY <1>3 DEF MarkDone, HeartbeatThrows, group
<1>4. CASE UNCHANGED <<committed, handled>>
  BY <1>1, <1>4
<1>5. \/ \E m \in Members : CommitOffsets(m) \/ MarkDone(m) \/ HeartbeatThrows(m)
      \/ UNCHANGED <<committed, handled>>
  BY DEF ConsumerNext, vars, Batch, EachBatch, NextMessage, HandlingThrows, LoopEnds, TakeOver, Reassign,
         Shutdown, ShutdownComplete, Crash, Start, group
<1> QED BY <1>1, <1>2, <1>3, <1>4, <1>5

(* The committed offset never moves back.                                  *)
THEOREM CommittedNeverMovesBack == ConsumerSpec => CommitsOnlyAdvance
<1>1. ConsumerInv /\ [ConsumerNext]_vars => [committed' >= committed]_vars
  BY CommitStep
<1>2. QED
  BY ConsumerInvInit, ConsumerInvStep, <1>1, PTL DEF ConsumerSpec, CommitsOnlyAdvance

(* The consumer refines the abstract delivery: a commit is a PassOver      *)
(* step, a message handled a Secure step, whoever the member is.           *)
THEOREM ConsumerImplementsDelivery == ConsumerSpec => ImplementsDelivery
<1>1. ConsumerInit => Delivery!DeliveryInit
  BY DEF ConsumerInit, Delivery!DeliveryInit
<1>2. ConsumerInv /\ [ConsumerNext]_vars
        => [Delivery!Secure \/ Delivery!PassOver]_(Delivery!deliveryVars)
  <2> SUFFICES ASSUME ConsumerInv, [ConsumerNext]_vars
               PROVE  Delivery!Secure \/ Delivery!PassOver
    OBVIOUS
  <2>1. /\ committed \in Nat /\ committed' \in Nat
        /\ 1..committed' \subseteq handled' /\ handled' \subseteq Offsets
    BY ConsumerInvStep, ConsumerConstantsOK
       DEF ConsumerInv, ConsumerTypeOK, CommittedIsHandled
  <2>2. CASE committed' = committed
    BY <2>1, <2>2, CommitStep DEF Delivery!Secure
  <2>3. CASE handled' = handled
    <3>1. 1..committed \subseteq 1..committed'
      BY <2>1, CommitStep
    <3> QED BY <2>1, <2>3, <3>1 DEF Delivery!PassOver
  <2> QED BY <2>2, <2>3, CommitStep
<1> QED BY <1>1, <1>2, ConsumerInvInit, ConsumerInvStep, PTL
        DEF ConsumerSpec, ImplementsDelivery, Delivery!DeliverySpec
=============================================================================
