-------------------------- MODULE AnalyticsConsumer --------------------------
(***************************************************************************)
(* One replica of the analytics consumer.  It buffers the rows of the      *)
(* enriched events it reads, across batches, resolves each message's       *)
(* offset as soon as its row is buffered, and flushes the buffers to       *)
(* ClickHouse when they are full, or at the end of a batch when they are   *)
(* old.  start() leaves KafkaJS's autoCommit on, so the resolved offsets   *)
(* are committed after every batch, flushed or not.                        *)
(*                                                                         *)
(* A message is <<p, o>>, offset o of partition p.  The other members of   *)
(* the group handle what is not assigned to this replica; they run the     *)
(* same code, and may commit a message whose row they have only buffered.  *)
(* A row that is sent to the dead letters, or whose dead letter fails, is  *)
(* given up.                                                               *)
(***************************************************************************)
EXTENDS Naturals, FiniteSets

CONSTANTS Partitions, Length,
  KindOf,     \* message -> "event", "intervention", or "reject" (no row)
  BatchSize,
  None,
  MaxDisruptions  \* bound on stops, deaths, revocations, failed heartbeats and mistakes of the filter

Kinds == {"event", "intervention"}
Offsets == 1..Length
Messages == Partitions \X Offsets

ASSUME AnalyticsAssumption ==
  /\ Length \in Nat /\ BatchSize \in Nat \ {0} /\ MaxDisruptions \in Nat
  /\ KindOf \in [Messages -> Kinds \union {"reject"}]
  /\ None \notin Partitions

VARIABLES
  committed,   \* partition -> the group's committed offset
  assigned,    \* partitions assigned to this replica
  resolved,    \* partition -> last offset this replica resolved
  pc,          \* where eachBatch is
  part, last,  \* the batch's partition and last offset (0: its loop is over)
  earlier,     \* kind -> rows buffered by earlier batches
  added,       \* kind -> rows added by this batch and not drained since
  flushing,    \* rows drained for the flush in progress
  kind,        \* their kind
  stop,        \* how far shutdown() is
  stored,      \* messages whose row is in ClickHouse
  given,       \* messages given up: dead letters and rejects
  bloom,       \* messages whose event id was added to the Bloom filter
  mistaken,    \* messages the filter took for known ones
  elsewhere,   \* messages another member committed, stored or not
  discarded,   \* buffered rows were discarded by a stop, a stale batch or a death
  disruptions

volatile == <<resolved, pc, part, last, earlier, added, flushing, kind, stop>>
excused == <<mistaken, elsewhere>>
outside == <<stored, given, bloom, excused>>
analyticsVars == <<committed, assigned, volatile, outside, discarded, disruptions>>

Labels == {"idle", "loop", "insert", "commit", "dlq", "tail", "tail2", "autocommit", "down"}

AnalyticsTypeOK ==
  /\ committed \in [Partitions -> 0..Length]
  /\ assigned \subseteq Partitions
  /\ resolved \in [Partitions -> 0..Length]
  /\ pc \in Labels
  /\ part \in Partitions \union {None} /\ last \in 0..Length
  /\ earlier \in [Kinds -> SUBSET Messages]
  /\ added \in [Kinds -> SUBSET Messages]
  /\ flushing \subseteq Messages
  /\ kind \in Kinds \union {None}
  /\ stop \in {"no", "asked", "events", "interventions"}
  /\ stored \subseteq Messages /\ given \subseteq Messages /\ bloom \subseteq Messages
  /\ mistaken \subseteq Messages /\ elsewhere \subseteq Messages
  /\ discarded \in BOOLEAN
  /\ disruptions \in 0..MaxDisruptions

NoRows == [k \in Kinds |-> {}]
Buffered(k) == earlier[k] \union added[k]
Rows == flushing \union UNION {Buffered(k) : k \in Kinds}

AnalyticsInit ==
  /\ committed = [p \in Partitions |-> 0]
  /\ assigned = Partitions
  /\ resolved = [p \in Partitions |-> 0]
  /\ pc = "idle" /\ part = None /\ last = 0
  /\ earlier = NoRows /\ added = NoRows
  /\ flushing = {} /\ kind = None
  /\ stop = "no"
  /\ stored = {} /\ given = {} /\ bloom = {}
  /\ mistaken = {} /\ elsewhere = {}
  /\ discarded = FALSE
  /\ disruptions = 0

Disrupt == disruptions < MaxDisruptions /\ disruptions' = disruptions + 1

(* Mutant: every resolved offset is committed. *)
CommittedUnfenced == resolved

(* The group takes a commit for the partitions the member still has. *)
Committed ==
  [p \in Partitions |-> IF p \in assigned THEN resolved[p] ELSE committed[p]]

(* commitOffsetsIfNecessary: without autoCommitInterval or -Threshold       *)
(* KafkaJS may find that nothing is necessary.                              *)
CommitIfNecessary == committed' \in {committed, Committed}

-----------------------------------------------------------------------------
(* eachBatch *)

EachBatch(p) ==
  /\ pc = "idle" /\ p \in assigned
  /\ \E o \in Offsets : o > resolved[p] /\ last' = o
  /\ pc' = "loop" /\ part' = p
  /\ UNCHANGED <<committed, assigned, resolved, earlier, added, flushing, kind, stop,
                 outside, discarded, disruptions>>

(* The first test of the loop: a stop rolls back the rows of this batch,    *)
(* whose offsets stay resolved.                                             *)
StopBreak ==
  /\ pc = "loop" /\ resolved[part] < last
  /\ stop # "no"
  /\ added' = NoRows
  /\ discarded' = (discarded \/ added # NoRows)
  /\ pc' = "tail" /\ last' = 0
  /\ UNCHANGED <<committed, assigned, resolved, part, earlier, flushing, kind, stop,
                 outside, disruptions>>

(* The second: a stale batch discards the rows of every partition. *)
StaleBreak ==
  /\ pc = "loop" /\ resolved[part] < last
  /\ stop = "no" /\ part \notin assigned
  /\ earlier' = NoRows /\ added' = NoRows
  /\ discarded' = (discarded \/ Rows # {})
  /\ pc' = "tail" /\ last' = 0
  /\ UNCHANGED <<committed, assigned, resolved, part, flushing, kind, stop,
                 outside, disruptions>>

NextMessage == <<part, resolved[part] + 1>>

Resolve ==
  /\ pc = "loop" /\ stop = "no" /\ resolved[part] < last
  /\ resolved' = [resolved EXCEPT ![part] = @ + 1]

(* An unparseable message goes to the dead letters, an intervention event   *)
(* without an id is dropped.                                                *)
Reject ==
  /\ Resolve
  /\ KindOf[NextMessage] = "reject"
  /\ given' = given \union {NextMessage}
  /\ UNCHANGED <<committed, assigned, pc, part, last, earlier, added, flushing, kind, stop,
                 stored, bloom, excused, discarded, disruptions>>

(* bfExists knows the event id. *)
Duplicate ==
  /\ Resolve
  /\ NextMessage \in bloom
  /\ UNCHANGED <<committed, assigned, pc, part, last, earlier, added, flushing, kind, stop,
                 outside, discarded, disruptions>>

(* The filter takes an id that nobody added for one it knows: the offset is *)
(* resolved and the row dropped all the same.                               *)
FalsePositive ==
  /\ Resolve
  /\ KindOf[NextMessage] \in Kinds /\ NextMessage \notin bloom /\ Disrupt
  /\ mistaken' = mistaken \union {NextMessage}
  /\ UNCHANGED <<committed, assigned, pc, part, last, earlier, added, flushing, kind, stop,
                 stored, given, bloom, elsewhere, discarded>>

(* The row is buffered and the offset resolved; a full buffer is drained.   *)
(* bfExists answers false when Redis fails, so a known event may pass.      *)
Buffer ==
  /\ Resolve
  /\ KindOf[NextMessage] \in Kinds
  /\ LET k == KindOf[NextMessage]
         rows == Buffered(k) \union {NextMessage}
     IN  IF Cardinality(rows) >= BatchSize
         THEN /\ flushing' = rows /\ kind' = k /\ pc' = "insert"
              /\ earlier' = [earlier EXCEPT ![k] = {}]
              /\ added' = [added EXCEPT ![k] = {}]
         ELSE /\ added' = [added EXCEPT ![k] = @ \union {NextMessage}]
              /\ UNCHANGED <<flushing, kind, pc, earlier>>
  /\ UNCHANGED <<committed, assigned, part, last, stop, outside, discarded, disruptions>>

(* Mutant: the rows of the batch are rolled back, as they are at a stop. *)
HeartbeatThrowsRollsBack ==
  /\ pc = "loop" /\ Disrupt
  /\ added' = NoRows
  /\ pc' = "autocommit"
  /\ UNCHANGED <<committed, assigned, resolved, part, last, earlier, flushing, kind, stop,
                 outside, discarded>>

(* heartbeat throws: eachBatch ends, its rows stay in the buffers. *)
HeartbeatThrows ==
  /\ pc = "loop" /\ Disrupt
  /\ pc' = "autocommit"
  /\ UNCHANGED <<committed, assigned, resolved, part, last, earlier, added, flushing, kind,
                 stop, outside, discarded>>

LoopEnds ==
  /\ pc = "loop" /\ resolved[part] >= last
  /\ pc' = "tail" /\ last' = 0
  /\ UNCHANGED <<committed, assigned, resolved, part, earlier, added, flushing, kind,
                 stop, outside, discarded, disruptions>>

(* After the loop each buffer that is old enough is drained, events first. *)
TailKind == IF pc = "tail" THEN "event" ELSE "intervention"
AfterTail(k) == IF k = "event" THEN "tail2" ELSE "autocommit"

TimeFlush ==
  /\ pc \in {"tail", "tail2"} /\ Buffered(TailKind) # {}
  /\ flushing' = Buffered(TailKind) /\ kind' = TailKind /\ pc' = "insert"
  /\ earlier' = [earlier EXCEPT ![TailKind] = {}]
  /\ added' = [added EXCEPT ![TailKind] = {}]
  /\ UNCHANGED <<committed, assigned, resolved, part, last, stop, outside, discarded,
                 disruptions>>

NotExpired ==
  /\ pc \in {"tail", "tail2"}
  /\ pc' = AfterTail(TailKind)
  /\ UNCHANGED <<committed, assigned, resolved, part, last, earlier, added, flushing, kind,
                 stop, outside, discarded, disruptions>>

(* KafkaJS's own commit after the batch, whether eachBatch returned or      *)
(* threw; a commit that fails is made up for by a later one.                *)
AutoCommit ==
  /\ pc = "autocommit"
  /\ CommitIfNecessary
  /\ pc' = "idle" /\ part' = None /\ last' = 0
  /\ earlier' = [k \in Kinds |-> Buffered(k)] /\ added' = NoRows
  /\ UNCHANGED <<assigned, resolved, flushing, kind, stop, outside, discarded, disruptions>>

-----------------------------------------------------------------------------
(* flushBatch and flushInterventionBatch: insert, commit, mark; or, when    *)
(* the retries are used up or the commit throws, dead letters and commit.   *)

FlushReturns ==
  /\ flushing' = {} /\ kind' = None
  /\ pc' = IF last > 0 THEN "loop" ELSE AfterTail(kind)

Inserted ==
  /\ pc = "insert"
  /\ stored' = stored \union flushing
  /\ pc' = "commit"
  /\ UNCHANGED <<committed, assigned, resolved, part, last, earlier, added, flushing, kind,
                 stop, given, bloom, excused, discarded, disruptions>>

(* An insert that is given up may have reached ClickHouse. *)
InsertFails ==
  /\ pc = "insert"
  /\ stored' \in {stored, stored \union flushing}
  /\ pc' = "dlq"
  /\ UNCHANGED <<committed, assigned, resolved, part, last, earlier, added, flushing, kind,
                 stop, given, bloom, excused, discarded, disruptions>>

(* Only event rows are marked, each of them as best effort. *)
CommitFlushed ==
  /\ pc = "commit"
  /\ CommitIfNecessary
  /\ \E marked \in SUBSET flushing :
       bloom' = IF kind = "event" THEN bloom \union marked ELSE bloom
  /\ FlushReturns
  /\ UNCHANGED <<assigned, resolved, part, last, earlier, added, stop, stored, given, excused,
                 discarded, disruptions>>

CommitThrows ==
  /\ pc = "commit"
  /\ pc' = "dlq"
  /\ UNCHANGED <<committed, assigned, resolved, part, last, earlier, added, flushing, kind,
                 stop, outside, discarded, disruptions>>

(* Mutant: dead letters are marked as seen. *)
DeadLettersMarked ==
  /\ pc = "dlq"
  /\ given' = given \union flushing
  /\ bloom' = bloom \union flushing
  /\ CommitIfNecessary
  /\ FlushReturns
  /\ UNCHANGED <<assigned, resolved, part, last, earlier, added, stop, stored, excused, discarded,
                 disruptions>>

(* sendToDlq swallows its own failure. *)
DeadLetters ==
  /\ pc = "dlq"
  /\ given' = given \union flushing
  /\ CommitIfNecessary
  /\ FlushReturns
  /\ UNCHANGED <<assigned, resolved, part, last, earlier, added, stop, stored, bloom, excused,
                 discarded, disruptions>>

-----------------------------------------------------------------------------
(* shutdown(), the death of the replica, and the group *)

Shutdown ==
  /\ pc # "down" /\ stop = "no" /\ Disrupt
  /\ stop' = "asked"
  /\ UNCHANGED <<committed, assigned, resolved, pc, part, last, earlier, added, flushing,
                 kind, outside, discarded>>

(* The batch has ended, or 30 s have passed: the remaining rows of one kind *)
(* are inserted, without retries, and committed, or else given up.          *)
ResidualFlush(k, from, to) ==
  /\ stop = from /\ stop' = to
  /\ earlier' = [earlier EXCEPT ![k] = {}]
  /\ added' = [added EXCEPT ![k] = {}]
  /\ \/ /\ stored' = stored \union Buffered(k)
        /\ CommitIfNecessary
        /\ UNCHANGED discarded
     \/ /\ Buffered(k) # {}
        /\ discarded' = TRUE
        /\ UNCHANGED <<stored, committed>>
  /\ UNCHANGED <<assigned, resolved, pc, part, last, flushing, kind, given, bloom, excused,
                 disruptions>>

ResidualEvents == ResidualFlush("event", "asked", "events")
ResidualInterventions == ResidualFlush("intervention", "events", "interventions")

Down ==
  /\ pc' = "down" /\ part' = None /\ last' = 0
  /\ earlier' = NoRows /\ added' = NoRows
  /\ flushing' = {} /\ kind' = None
  /\ stop' = "no"
  /\ assigned' = {}
  /\ discarded' = (discarded \/ Rows # {})
  /\ UNCHANGED <<committed, resolved, outside>>

(* The consumer leaves the group and main exits, batch or no batch. *)
ShutdownComplete == pc # "down" /\ stop = "interventions" /\ Down /\ UNCHANGED disruptions

Crash == pc # "down" /\ Down /\ Disrupt

Start ==
  /\ pc = "down"
  /\ pc' = "idle"
  /\ UNCHANGED <<committed, assigned, resolved, part, last, earlier, added, flushing, kind,
                 stop, outside, discarded, disruptions>>

Revoke(p) ==
  /\ p \in assigned /\ Disrupt
  /\ assigned' = assigned \ {p}
  /\ UNCHANGED <<committed, volatile, outside, discarded>>

(* The replica joins again between batches, from the committed offset. *)
Assign(p) ==
  /\ p \notin assigned /\ pc = "idle" /\ stop = "no"
  /\ assigned' = assigned \union {p}
  /\ resolved' = [resolved EXCEPT ![p] = committed[p]]
  /\ UNCHANGED <<committed, pc, part, last, earlier, added, flushing, kind, stop, outside,
                 discarded, disruptions>>

(* Another member commits a message; what becomes of the row is its affair. *)
OtherMember(p) ==
  /\ p \notin assigned /\ committed[p] < Length
  /\ committed' = [committed EXCEPT ![p] = @ + 1]
  /\ elsewhere' = elsewhere \union {<<p, committed[p] + 1>>}
  /\ UNCHANGED <<assigned, volatile, stored, given, bloom, mistaken, discarded, disruptions>>

AnalyticsNext ==
  \/ \E p \in Partitions : EachBatch(p) \/ Revoke(p) \/ Assign(p) \/ OtherMember(p)
  \/ StopBreak \/ StaleBreak \/ Reject \/ Duplicate \/ FalsePositive \/ Buffer
  \/ HeartbeatThrows \/ LoopEnds
  \/ TimeFlush \/ NotExpired \/ AutoCommit
  \/ Inserted \/ InsertFails \/ CommitFlushed \/ CommitThrows \/ DeadLetters
  \/ Shutdown \/ ResidualEvents \/ ResidualInterventions \/ ShutdownComplete
  \/ Crash \/ Start

AnalyticsSpec == AnalyticsInit /\ [][AnalyticsNext]_analyticsVars

-----------------------------------------------------------------------------
(* Properties *)

(* consumer.ts:331-341 skips a message whose event id the filter knows:     *)
(* only rows that are in ClickHouse are added to it (156-163), whatever     *)
(* fails between the insert, the commit and the dead letters.               *)
MarkedIsStored == bloom \subseteq stored

(* As long as no stop, stale batch or death discards rows, every message    *)
(* whose offset was resolved is stored, given up or still in this replica's *)
(* memory, or the filter took it for a known one, or another member         *)
(* answers for it: flushes that fail, heartbeats that throw in the middle   *)
(* of a batch and lost partitions lose nothing (consumer.ts:358-395).       *)
ResolvedIsAccounted ==
  discarded \/ \A p \in assigned : \A o \in 1..resolved[p] :
                 <<p, o>> \in stored \union given \union Rows \union mistaken \union elsewhere

(* The committed offset never moves back, though a partition comes and goes *)
(* while batches and flushes that began before still commit.                *)
OffsetsOnlyAdvance == [][\A p \in Partitions : committed'[p] >= committed[p]]_analyticsVars
=============================================================================
