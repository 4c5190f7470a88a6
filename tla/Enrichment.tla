------------------------------ MODULE Enrichment ------------------------------
(***************************************************************************)
(* The members of the enrichment consumer group on one partition of the    *)
(* raw events.  A member takes one message at a time: a Lua script marks   *)
(* the event as seen and updates its session, the enriched event is        *)
(* produced, and the offset is stored and, when an interval has passed,    *)
(* committed by the same call: the client's own commits are switched off.  *)
(* The marker is set before the event is produced, so an event is given up *)
(* when a member dies in between: such events are kept in lost.            *)
(*                                                                         *)
(* Ingestion may put an event into the topic more than once.  The offset   *)
(* committed is the number of messages before it.  A member that is no     *)
(* longer the partition's owner cannot commit.                             *)
(***************************************************************************)
EXTENDS Naturals

CONSTANTS Members, Events, Length, None,
  EventOf,         \* offset -> its event, or None when it cannot be parsed
  MaxDisruptions   \* bound on faults, stops and revocations

Offsets == 1..Length

ASSUME EnrichmentAssumption ==
  /\ Length \in Nat /\ MaxDisruptions \in Nat
  /\ EventOf \in [Offsets -> Events \union {None}]
  /\ None \notin Members /\ None \notin Events

VARIABLES
  owner,        \* the member that has the partition, or None
  assigned,     \* members that think they have it
  committed,    \* the group's offset
  position,     \* member -> messages it has fetched since its assignment
  stored,       \* member -> the offset it has stored for the next commit
  pc,           \* member -> where its loop is
  stopping,     \* member -> its shutdown flag is set
  seen,         \* events whose session:seen marker stands
  enriched,     \* events in enriched.events
  dead,         \* offsets sent to the dead letters, or whose dead letter failed
  lost,         \* events given up by a Redis failure or a death
  disruptions

group == <<owner, assigned, committed>>
place == <<position, stored, stopping>>
outcome == <<seen, enriched, dead, lost>>
enrichmentVars == <<group, place, pc, outcome, disruptions>>

Labels == {"loop", "recv", "enrich", "produce", "dlq", "progress", "down"}
InHand == {"produce", "dlq"}

EnrichmentTypeOK ==
  /\ owner \in Members \union {None}
  /\ assigned \subseteq Members
  /\ committed \in 0..Length
  /\ position \in [Members -> 0..Length]
  /\ stored \in [Members -> 0..Length]
  /\ pc \in [Members -> Labels]
  /\ stopping \in [Members -> BOOLEAN]
  /\ seen \subseteq Events /\ enriched \subseteq Events /\ lost \subseteq Events
  /\ dead \subseteq Offsets
  /\ disruptions \in 0..MaxDisruptions

EnrichmentInit ==
  /\ owner = None /\ assigned = {}
  /\ committed = 0
  /\ position = [m \in Members |-> 0]
  /\ stored = [m \in Members |-> 0]
  /\ pc = [m \in Members |-> "loop"]
  /\ stopping = [m \in Members |-> FALSE]
  /\ seen = {} /\ enriched = {} /\ dead = {} /\ lost = {}
  /\ disruptions = 0

Disrupt == disruptions < MaxDisruptions /\ disruptions' = disruptions + 1
Goto(m, label) == pc' = [pc EXCEPT ![m] = label]

(* The message a member is handling is the last one it fetched. *)
Event(m) == EventOf[position[m]]
HeldEvents(m) == IF pc[m] \in InHand THEN {Event(m)} \ {None} ELSE {}

-----------------------------------------------------------------------------
(* The loop of start() *)

Poll(m) ==
  /\ pc[m] = "loop" /\ ~stopping[m]
  /\ Goto(m, "recv")
  /\ UNCHANGED <<group, place, outcome, disruptions>>

(* Mutant: progress is recorded when the message arrives. *)
RecvRecordsProgress(m) ==
  /\ pc[m] = "recv" /\ m \in assigned /\ position[m] < Length
  /\ position' = [position EXCEPT ![m] = @ + 1]
  /\ stored' = [stored EXCEPT ![m] = position[m] + 1]
  /\ committed' = position[m] + 1
  /\ Goto(m, "enrich")
  /\ UNCHANGED <<owner, assigned, stopping, outcome, disruptions>>

(* The flag is not looked at while recv waits. *)
Recv(m) ==
  /\ pc[m] = "recv" /\ m \in assigned /\ position[m] < Length
  /\ position' = [position EXCEPT ![m] = @ + 1]
  /\ Goto(m, "enrich")
  /\ UNCHANGED <<group, stored, stopping, outcome, disruptions>>

RecvFails(m) ==
  /\ pc[m] = "recv" /\ Disrupt
  /\ Goto(m, "loop")
  /\ UNCHANGED <<group, place, outcome>>

(* An empty payload or invalid JSON. *)
Reject(m) ==
  /\ pc[m] = "enrich" /\ Event(m) = None
  /\ Goto(m, "dlq")
  /\ UNCHANGED <<group, place, outcome, disruptions>>

Duplicate(m) ==
  /\ pc[m] = "enrich" /\ Event(m) \in seen
  /\ Goto(m, "progress")
  /\ UNCHANGED <<group, place, outcome, disruptions>>

(* The script: the marker and the session's windows, at once. *)
WindowUpdate(m) ==
  /\ pc[m] = "enrich" /\ Event(m) \in Events \ seen
  /\ seen' = seen \union {Event(m)}
  /\ Goto(m, "produce")
  /\ UNCHANGED <<group, place, enriched, dead, lost, disruptions>>

(* A Redis error, before or after the script ran, is taken as a duplicate. *)
WindowFails(m) ==
  /\ pc[m] = "enrich" /\ Event(m) \in Events /\ Disrupt
  /\ seen' \in {seen, seen \union {Event(m)}}
  /\ lost' = lost \union {Event(m)}
  /\ Goto(m, "progress")
  /\ UNCHANGED <<group, place, enriched, dead>>

(* retry_produce, one of whose attempts succeeds. *)
Produce(m) ==
  /\ pc[m] = "produce"
  /\ enriched' = enriched \union {Event(m)}
  /\ Goto(m, "progress")
  /\ UNCHANGED <<group, place, seen, dead, lost, disruptions>>

(* Mutant: an event that could not be produced is skipped. *)
ProduceFailureSkipped(m) ==
  /\ pc[m] = "produce" /\ Disrupt
  /\ Goto(m, "progress")
  /\ UNCHANGED <<group, place, outcome>>

(* All four fail; one may have been delivered. *)
ProduceFails(m) ==
  /\ pc[m] = "produce" /\ Disrupt
  /\ enriched' \in {enriched, enriched \union {Event(m)}}
  /\ Goto(m, "dlq")
  /\ UNCHANGED <<group, place, seen, dead, lost>>

(* send_to_dlq swallows its own failure. *)
SendToDlq(m) ==
  /\ pc[m] = "dlq"
  /\ dead' = dead \union {position[m]}
  /\ Goto(m, "progress")
  /\ UNCHANGED <<group, place, seen, enriched, lost, disruptions>>

(* Mutant: an old owner's commit is accepted. *)
ProgressUnfenced(m) ==
  /\ pc[m] = "progress"
  /\ stored' = [stored EXCEPT ![m] = position[m]]
  /\ committed' \in {committed, position[m]}
  /\ Goto(m, "loop")
  /\ UNCHANGED <<owner, assigned, position, stopping, outcome, disruptions>>

(* Mutant: the offset after the next message is recorded. *)
ProgressOffByOne(m) ==
  /\ pc[m] = "progress"
  /\ stored' = [stored EXCEPT ![m] = position[m] + 1]
  /\ committed' \in {committed, IF owner = m THEN position[m] + 1 ELSE committed}
  /\ Goto(m, "loop")
  /\ UNCHANGED <<owner, assigned, position, stopping, outcome, disruptions>>

(* record_progress: the offset is stored, and what is stored is committed   *)
(* when the interval has elapsed; one that could not be stored is committed *)
(* by itself.  A commit that fails is only logged.                          *)
RecordProgress(m) ==
  /\ pc[m] = "progress"
  /\ \/ stored' = [stored EXCEPT ![m] = position[m]] /\ UNCHANGED disruptions
     \/ Disrupt /\ UNCHANGED stored
  /\ committed' \in {committed, IF owner = m THEN position[m] ELSE committed}
  /\ Goto(m, "loop")
  /\ UNCHANGED <<owner, assigned, position, stopping, outcome>>

(* The loop is left at the flag: a stored offset beyond the committed one   *)
(* is committed, the member leaves the group.                               *)
Stop(m) ==
  /\ pc[m] = "loop" /\ stopping[m]
  /\ committed' \in {committed, IF owner = m /\ stored[m] > committed
                               THEN stored[m] ELSE committed}
  /\ owner' = IF owner = m THEN None ELSE owner
  /\ assigned' = assigned \ {m}
  /\ Goto(m, "down")
  /\ UNCHANGED <<position, stored, stopping, outcome, disruptions>>

-----------------------------------------------------------------------------
(* Members, the group and the marker's life time *)

Shutdown(m) ==
  /\ pc[m] # "down" /\ ~stopping[m] /\ Disrupt
  /\ stopping' = [stopping EXCEPT ![m] = TRUE]
  /\ UNCHANGED <<group, position, stored, pc, outcome>>

Crash(m) ==
  /\ pc[m] # "down" /\ Disrupt
  /\ lost' = lost \union HeldEvents(m)
  /\ owner' = IF owner = m THEN None ELSE owner
  /\ assigned' = assigned \ {m}
  /\ Goto(m, "down")
  /\ UNCHANGED <<committed, position, stored, stopping, seen, enriched, dead>>

Restart(m) ==
  /\ pc[m] = "down"
  /\ Goto(m, "loop")
  /\ stopping' = [stopping EXCEPT ![m] = FALSE]
  /\ UNCHANGED <<group, position, stored, outcome, disruptions>>

(* A rebalance, or a session that timed out.  The member learns it when it  *)
(* waits for a message; until then it may take those it has prefetched.     *)
Revoke ==
  /\ owner # None /\ Disrupt
  /\ owner' = None
  /\ UNCHANGED <<assigned, committed, place, pc, outcome>>

Learn(m) ==
  /\ pc[m] = "recv" /\ m \in assigned /\ owner # m
  /\ assigned' = assigned \ {m}
  /\ UNCHANGED <<owner, committed, position, stored, pc, stopping, outcome, disruptions>>

(* A member that waits joins, and fetches from the committed offset. *)
Assign(m) ==
  /\ owner = None /\ pc[m] = "recv" /\ m \notin assigned
  /\ owner' = m /\ assigned' = assigned \union {m}
  /\ position' = [position EXCEPT ![m] = committed]
  /\ stored' = [stored EXCEPT ![m] = committed]
  /\ UNCHANGED <<committed, pc, stopping, outcome, disruptions>>

SeenExpires(e) ==
  /\ e \in seen
  /\ seen' = seen \ {e}
  /\ UNCHANGED <<group, place, pc, enriched, dead, lost, disruptions>>

EnrichmentNext ==
  \/ \E m \in Members :
       \/ Poll(m) \/ Recv(m) \/ RecvFails(m) \/ Reject(m) \/ Duplicate(m)
       \/ WindowUpdate(m) \/ WindowFails(m) \/ Produce(m) \/ ProduceFails(m)
       \/ SendToDlq(m) \/ RecordProgress(m) \/ Stop(m)
       \/ Shutdown(m) \/ Crash(m) \/ Restart(m) \/ Learn(m) \/ Assign(m)
  \/ Revoke
  \/ \E e \in Events : SeenExpires(e)

EnrichmentSpec == EnrichmentInit /\ [][EnrichmentNext]_enrichmentVars

Works(m) ==
  \/ Poll(m) \/ Recv(m) \/ Reject(m) \/ Duplicate(m) \/ WindowUpdate(m) \/ Produce(m)
  \/ SendToDlq(m) \/ RecordProgress(m) \/ Stop(m)

(* tokio runs a member's loop, Kubernetes restarts a dead member, and the   *)
(* group gives the partition to a member that waits for a message and has   *)
(* learnt of its revocation.  A marker need not expire.                     *)
FairEnrichmentSpec ==
  /\ EnrichmentSpec
  /\ \A m \in Members : /\ WF_enrichmentVars(Works(m) \/ Learn(m))
                        /\ WF_enrichmentVars(Restart(m))
  /\ WF_enrichmentVars(\E m \in Members : Assign(m))

-----------------------------------------------------------------------------
(* Properties *)

(* The offsets that carry the same event. *)
SameEvent(o) ==
  IF EventOf[o] = None THEN {o} ELSE {other \in Offsets : EventOf[other] = EventOf[o]}

Settled(o) == EventOf[o] \in enriched \union lost \/ SameEvent(o) \intersect dead # {}

(* A message is passed over when it is committed, or, as a duplicate, when  *)
(* its event's marker stands (consumer.rs:148-151).  Either way its event   *)
(* is enriched or dead-lettered, or some member that is not dead still has  *)
(* it in hand, unless a Redis failure or a death has lost it: redeliveries, *)
(* copies and old owners that go on lose nothing else.                      *)
PassedOver(o) == o <= committed \/ EventOf[o] \in seen
Safe(o) == Settled(o) \/ \E m \in Members : EventOf[o] \in HeldEvents(m)

PassedOverIsSettled == \A o \in Offsets : PassedOver(o) => Safe(o)

(* The group's offset never moves back, though members that lost the        *)
(* partition still finish their message (consumer.rs:110-122).              *)
GroupOffsetAdvances == [][committed' >= committed]_enrichmentVars

(* The group implements the abstract delivery: offsets are only committed   *)
(* up to safe messages, and a message that is safe stays so while markers   *)
(* expire, members change hands and its event is enriched again.            *)
Delivery == INSTANCE AtLeastOnce
              WITH Messages <- Offsets, passed <- 1..committed,
                   safe <- {o \in Offsets : Safe(o)}

ImplementsDelivery == Delivery!DeliverySpec

(* Every raw message is settled in the end, whatever stops, dies or fails   *)
(* on the way (consumer.rs:99-195).                                         *)
EveryMessageIsSettled == \A o \in Offsets : <>Settled(o)
=============================================================================
