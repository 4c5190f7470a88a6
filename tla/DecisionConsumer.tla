--------------------------- MODULE DecisionConsumer ---------------------------
(***************************************************************************)
(* The Kafka consumer of the decision engine on one partition of           *)
(* enriched.events: the batch loop of DecisionConsumer.start, which        *)
(* handles messages by priority and resolves their offsets in partition    *)
(* order, its shutdown, and what the consumer group does around it         *)
(* (assignment, redelivery, commits), which is KafkaJS and the broker.     *)
(*                                                                         *)
(* What handling a message does elsewhere (a purchase clears the           *)
(* customer's state, a trigger is decided, a message that does not parse   *)
(* or has no customer goes to the DLQ) is in the other modules; every      *)
(* branch ends in markDone, but for a message with a customer and no type: *)
(* reading its type throws, and nothing catches it.                        *)
(***************************************************************************)
EXTENDS Naturals, FiniteSets

CONSTANTS
  Members,        \* replicas of the engine in the consumer group
  LogEnd,         \* the partition holds the offsets 1..LogEnd
  Rank,           \* priorityRankOf each message: 0 critical .. 3 none
  Malformable,    \* messages whose producer may have left the type out
  MaxDisruptions  \* bound on takeovers, failed heartbeats, crashes, shutdowns

Offsets == 1..LogEnd

ASSUME ConsumerConstantsOK ==
  /\ LogEnd \in Nat
  /\ Rank \in [Offsets -> 0..3]
  /\ Malformable \subseteq Offsets
  /\ MaxDisruptions \in Nat

VARIABLES
  owner,        \* the member the group has assigned the partition to
  committed,    \* every offset up to this one is committed
  position,     \* the last offset each member's fetcher is past
  pc,           \* where each member's eachBatch is
  last,         \* the last offset of its batch, or 0
  left,         \* those its loop has not come to
  current,      \* the one it is handling, or 0
  done,         \* the set `done` of its batch
  isShuttingDown,
  handled,      \* offsets that some member has handled
  malformed,    \* messages of the log with a customer_id and no string t
  disruptions   \* number of disruptions so far

vars == <<owner, committed, position, pc, last, left, current, done,
          isShuttingDown, handled, malformed, disruptions>>
loop == <<last, left, current, done>>
group == <<owner, committed, position>>

ConsumerTypeOK ==
  /\ owner \in Members
  /\ committed \in 0..LogEnd
  /\ position \in [Members -> 0..LogEnd]
  /\ pc \in [Members -> {"idle", "loop", "handling", "commit", "stopped"}]
  /\ last \in [Members -> 0..LogEnd]
  /\ left \in [Members -> SUBSET Offsets]
  /\ current \in [Members -> 0..LogEnd]
  /\ done \in [Members -> SUBSET Offsets]
  /\ isShuttingDown \subseteq Members
  /\ handled \subseteq Offsets
  /\ malformed \subseteq Offsets
  /\ disruptions \in Nat

(* The group has committed offset 0: subscribe(topic, false) would start a *)
(* group that never committed at the end of the log.                       *)
ConsumerInit ==
  /\ owner \in Members
  /\ committed = 0
  /\ position = [m \in Members |-> 0]
  /\ pc = [m \in Members |-> "idle"]
  /\ last = [m \in Members |-> 0]
  /\ left = [m \in Members |-> {}]
  /\ current = [m \in Members |-> 0]
  /\ done = [m \in Members |-> {}]
  /\ isShuttingDown = {}
  /\ handled = {}
  /\ malformed \in SUBSET Malformable
  /\ disruptions = 0

Disrupt == disruptions < MaxDisruptions /\ disruptions' = disruptions + 1
Goto(m, l) == pc' = [pc EXCEPT ![m] = l]

(* eachBatch has returned or thrown: its locals are gone. *)
Return(m) ==
  /\ last' = [last EXCEPT ![m] = 0]
  /\ left' = [left EXCEPT ![m] = {}]
  /\ current' = [current EXCEPT ![m] = 0]
  /\ done' = [done EXCEPT ![m] = {}]

-----------------------------------------------------------------------------
(* One batch: the messages after the position, up to the last one.          *)
BatchOf(m) == (position[m] + 1)..last[m]

(* The fetcher hands over some messages that follow its position. *)
EachBatch(m) ==
  /\ pc[m] = "idle" /\ owner = m /\ m \notin isShuttingDown
  /\ \E o \in Offsets :
       /\ o > position[m]
       /\ last' = [last EXCEPT ![m] = o]
       /\ left' = [left EXCEPT ![m] = (position[m] + 1)..o]
  /\ Goto(m, "loop")
  /\ UNCHANGED <<group, current, done, isShuttingDown, handled, disruptions, malformed>>

(* isRunning and not isStale and not isShuttingDown. *)
MayGoOn(m) == owner = m /\ m \notin isShuttingDown

(* Mutant: a message without a priority compares with nothing. *)
MostUrgentKnown(m, o) ==
  Rank[o] < 3 /\ \A p \in left[m] : Rank[o] <= Rank[p]

(* The stable sort: of the most urgent messages the first in the log. *)
MostUrgent(m, o) ==
  \A p \in left[m] : Rank[o] < Rank[p] \/ (Rank[o] = Rank[p] /\ o <= p)

NextMessage(m) ==
  /\ pc[m] = "loop" /\ MayGoOn(m)
  /\ \E o \in left[m] :
       /\ MostUrgent(m, o)
       /\ current' = [current EXCEPT ![m] = o]
       /\ left' = [left EXCEPT ![m] = @ \ {o}]
  /\ Goto(m, "handling")
  /\ UNCHANGED <<group, last, done, isShuttingDown, handled, disruptions, malformed>>

(* The message is handled, markDone adds it to done, and the heartbeat is  *)
(* answered.                                                               *)
MarkDone(m) ==
  /\ pc[m] = "handling" /\ current[m] \notin malformed
  /\ handled' = handled \cup {current[m]}
  /\ done' = [done EXCEPT ![m] = @ \cup {current[m]}]
  /\ current' = [current EXCEPT ![m] = 0]
  /\ Goto(m, "loop")
  /\ UNCHANGED <<group, last, left, isShuttingDown, disruptions, malformed>>

(* heartbeat() throws (a rebalance, a lost coordinator): eachBatch ends    *)
(* without having resolved anything and the fetcher stays where it was.    *)
HeartbeatThrows(m) ==
  /\ pc[m] = "handling" /\ current[m] \notin malformed /\ Disrupt
  /\ handled' = handled \cup {current[m]}
  /\ Return(m)
  /\ Goto(m, "idle")
  /\ UNCHANGED <<group, isShuttingDown, malformed>>

(* canonicalEventType throws for a message without a type: so does         *)
(* eachBatch, and the batch is fetched again from the same position.       *)
HandlingThrows(m) ==
  /\ pc[m] = "handling" /\ current[m] \in malformed
  /\ Return(m)
  /\ Goto(m, "idle")
  /\ UNCHANGED <<group, isShuttingDown, handled, disruptions, malformed>>

(* The loop ends, or breaks with messages left. *)
LoopEnds(m) ==
  /\ pc[m] = "loop"
  /\ left[m] = {} \/ ~ MayGoOn(m)
  /\ Goto(m, "commit")
  /\ UNCHANGED <<group, loop, isShuttingDown, handled, disruptions, malformed>>

(* Mutant: the whole batch is resolved. *)
ResolvesAll(m, o) == o = last[m]

(* The offsets are resolved in partition order, up to the first message    *)
(* that is not done.                                                       *)
Resolves(m, o) ==
  /\ \A p \in BatchOf(m) : p <= o => p \in done[m]
  /\ o + 1 \notin done[m]

(* Mutant: the commit does not carry the member's generation. *)
CommitUnfenced(m) ==
  /\ pc[m] = "commit"
  /\ \E o \in {position[m]} \cup BatchOf(m) : Resolves(m, o) /\ committed' = o
  /\ position' = [position EXCEPT ![m] = last[m]]
  /\ Return(m)
  /\ Goto(m, "idle")
  /\ UNCHANGED <<owner, isShuttingDown, handled, disruptions, malformed>>

(* commitOffsetsIfNecessary commits what is resolved or finds it           *)
(* unnecessary; the broker refuses it from a member that lost the          *)
(* partition.  Whatever was resolved, eachBatchAutoResolve (not switched   *)
(* off here) then moves the fetcher past the batch.                        *)
CommitOffsets(m) ==
  /\ pc[m] = "commit"
  /\ \/ /\ owner = m
        /\ \E o \in {position[m]} \cup BatchOf(m) : Resolves(m, o) /\ committed' = o
     \/ UNCHANGED committed
  /\ position' = [position EXCEPT ![m] = last[m]]
  /\ Return(m)
  /\ Goto(m, "idle")
  /\ UNCHANGED <<owner, isShuttingDown, handled, disruptions, malformed>>

-----------------------------------------------------------------------------
(* The group, and the end of a member.                                      *)

(* A member that is between batches takes the partition over and starts    *)
(* from the committed offset.  Its predecessor may be in the middle of a   *)
(* batch and finds itself stale.                                           *)
TakeOver(m) ==
  /\ owner # m /\ pc[m] = "idle" /\ m \notin isShuttingDown
  /\ Disrupt
  /\ owner' = m
  /\ position' = [position EXCEPT ![m] = committed]
  /\ UNCHANGED <<committed, pc, loop, isShuttingDown, handled, malformed>>

(* The group notices that the owner is gone. *)
Reassign(m) ==
  /\ pc[owner] = "stopped" /\ pc[m] = "idle" /\ m \notin isShuttingDown
  /\ owner' = m
  /\ position' = [position EXCEPT ![m] = committed]
  /\ UNCHANGED <<committed, pc, loop, isShuttingDown, handled, disruptions, malformed>>

Shutdown(m) ==
  /\ pc[m] # "stopped" /\ m \notin isShuttingDown /\ Disrupt
  /\ isShuttingDown' = isShuttingDown \cup {m}
  /\ UNCHANGED <<group, pc, loop, handled, malformed>>

(* The batch in progress has ended, or 30 s have passed. *)
ShutdownComplete(m) ==
  /\ pc[m] # "stopped" /\ m \in isShuttingDown
  /\ Return(m)
  /\ Goto(m, "stopped")
  /\ UNCHANGED <<group, isShuttingDown, handled, disruptions, malformed>>

Crash(m) ==
  /\ pc[m] # "stopped" /\ Disrupt
  /\ Return(m)
  /\ Goto(m, "stopped")
  /\ UNCHANGED <<group, isShuttingDown, handled, malformed>>

(* A replica is started in the place of one that ended. *)
Start(m) ==
  /\ pc[m] = "stopped" /\ owner # m
  /\ Goto(m, "idle")
  /\ isShuttingDown' = isShuttingDown \ {m}
  /\ UNCHANGED <<group, loop, handled, disruptions, malformed>>

Batch(m) == EachBatch(m) \/ NextMessage(m) \/ MarkDone(m) \/ HandlingThrows(m)
              \/ LoopEnds(m) \/ CommitOffsets(m)

ConsumerNext ==
  \E m \in Members : Batch(m) \/ HeartbeatThrows(m) \/ TakeOver(m) \/ Reassign(m)
                       \/ Shutdown(m) \/ ShutdownComplete(m) \/ Crash(m) \/ Start(m)

ConsumerSpec == ConsumerInit /\ [][ConsumerNext]_vars

(* A live replica goes on with its batches, a stop completes, the group    *)
(* replaces an owner that is gone and the platform a replica.              *)
FairConsumerSpec ==
  /\ ConsumerSpec
  /\ \A m \in Members : /\ WF_vars(Batch(m))
                        /\ WF_vars(ShutdownComplete(m))
                        /\ WF_vars(Reassign(m))
                        /\ WF_vars(Start(m))

-----------------------------------------------------------------------------
(* decision.consumer.ts:248-252: no offset is committed past a message     *)
(* that was not handled, whatever order the batch is handled in and        *)
(* wherever its loop breaks.                                               *)
CommittedIsHandled == 1..committed \subseteq handled

(* The committed offset never moves back: a member that was overtaken      *)
(* in the middle of a batch undoes nothing of its successor's work.        *)
CommitsOnlyAdvance == [][committed' >= committed]_vars

(* The consumer implements the abstract delivery: batches in any order,    *)
(* takeovers and broken loops are Secure and PassOver steps or none.       *)
Delivery == INSTANCE AtLeastOnce
              WITH Messages <- Offsets, passed <- 1..committed, safe <- handled

ImplementsDelivery == Delivery!DeliverySpec

(* A malformed message breaks every batch that holds it, for ever: only    *)
(* what is ahead of it in the log and in the batch's order surely passes.  *)
AheadOfMalformed(o) == \A b \in malformed : o < b /\ Rank[o] <= Rank[b]

(* decision.consumer.ts:163: no message is skipped: each is handled at     *)
(* last, by some member, through takeovers, crashes and shutdowns, unless  *)
(* a malformed message stands before it in the log or in the batch.        *)
EveryMessageIsHandled ==
  \A o \in Offsets : AheadOfMalformed(o) ~> o \in handled
=============================================================================
