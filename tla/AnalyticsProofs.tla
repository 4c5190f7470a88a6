--------------------------- MODULE AnalyticsProofs ---------------------------
(***************************************************************************)
(* MarkedIsStored, ResolvedIsAccounted and OffsetsOnlyAdvance, for any     *)
(* number of partitions, messages and disruptions, any kinds of messages   *)
(* and any size of a batch.                                                *)
(*                                                                         *)
(* Rows move from the buffers to the flush and from there to ClickHouse or *)
(* to the dead letters; a partition that comes back starts from the        *)
(* committed offset, so what is committed must be accounted for as well as *)
(* what this replica has resolved.                                         *)
(***************************************************************************)
EXTENDS AnalyticsConsumer, TLAPS

\* What this replica need not answer for any more, or has in its memory.
Settled == stored \union given \union mistaken \union elsewhere
Known == Settled \union Rows

BatchHasPartition == (pc = "loop" \/ last > 0) => part \in Partitions

FlushingIsStored ==
  /\ flushing # {} => pc \in {"insert", "commit", "dlq"}
  /\ pc = "commit" => flushing \subseteq stored

CommittedIsAccounted ==
  discarded \/ \A p \in Partitions : \A o \in 1..committed[p] : <<p, o>> \in Known

ResolvedIsAhead == \A p \in assigned : committed[p] <= resolved[p]

AnalyticsInv ==
  /\ AnalyticsTypeOK /\ BatchHasPartition /\ FlushingIsStored
  /\ MarkedIsStored /\ ResolvedIsAccounted /\ CommittedIsAccounted /\ ResolvedIsAhead

-----------------------------------------------------------------------------
LEMMA AnalyticsInvInit == AnalyticsInit => AnalyticsInv
<1> SUFFICES ASSUME AnalyticsInit PROVE AnalyticsInv
  OBVIOUS
<1> USE AnalyticsAssumption DEF AnalyticsInit
<1>1. AnalyticsTypeOK
  <2>1. NoRows \in [Kinds -> SUBSET Messages]
    BY DEF NoRows
  <2>2. 0 \in 0..Length /\ 0 \in 0..MaxDisruptions
    OBVIOUS
  <2> QED BY <2>1, <2>2 DEF AnalyticsTypeOK, Labels
<1>2. BatchHasPartition /\ FlushingIsStored /\ MarkedIsStored /\ ResolvedIsAhead
  BY DEF BatchHasPartition, FlushingIsStored, MarkedIsStored, ResolvedIsAhead
<1>3. ResolvedIsAccounted /\ CommittedIsAccounted
  BY DEF ResolvedIsAccounted, CommittedIsAccounted
<1> QED BY <1>1, <1>2, <1>3 DEF AnalyticsInv

(* The two buffers and the flush, one by one.                              *)
LEMMA RowsAre ==
  /\ Rows = flushing \union Buffered("event") \union Buffered("intervention")
  /\ Rows' = flushing' \union Buffered("event")' \union Buffered("intervention")'
  BY DEF Rows, Kinds

(* A commit takes the offset resolved for a partition the replica has, or  *)
(* leaves the partition's offset alone.                                    *)
LEMMA CommitTakes ==
  ASSUME AnalyticsTypeOK, CommitIfNecessary
  PROVE  /\ committed' \in [Partitions -> 0..Length]
         /\ \A p \in Partitions : \/ committed'[p] = committed[p]
                                  \/ p \in assigned /\ committed'[p] = resolved[p]
  BY DEF AnalyticsTypeOK, CommitIfNecessary, Committed

(* The message a batch has come to is one of the log.                      *)
LEMMA NextIsMessage ==
  ASSUME AnalyticsTypeOK, BatchHasPartition, Resolve
  PROVE  /\ NextMessage \in Messages
         /\ resolved' \in [Partitions -> 0..Length]
         /\ \A p \in Partitions : \/ resolved'[p] = resolved[p]
                                  \/ p = part /\ resolved'[p] = resolved[p] + 1
  BY AnalyticsAssumption
     DEF AnalyticsTypeOK, BatchHasPartition, Resolve, NextMessage, Messages, Offsets

(* What a drained buffer or a returned flush leaves.                       *)
LEMMA BuffersType ==
  ASSUME AnalyticsTypeOK
  PROVE  /\ \A k \in Kinds : Buffered(k) \subseteq Messages
         /\ Rows \subseteq Messages
  BY DEF AnalyticsTypeOK, Buffered, Rows

LEMMA AnalyticsTypeStep ==
  ASSUME AnalyticsTypeOK, BatchHasPartition, [AnalyticsNext]_analyticsVars
  PROVE  AnalyticsTypeOK' /\ BatchHasPartition'
<1>n. NoRows \in [Kinds -> SUBSET Messages]
  BY DEF NoRows
<1> USE AnalyticsAssumption
    DEF AnalyticsTypeOK, BatchHasPartition, Labels, Disrupt, volatile, outside, excused, Kinds
<1>1. CASE UNCHANGED analyticsVars
  BY <1>1 DEF analyticsVars
<1>2. ASSUME NEW p \in Partitions, EachBatch(p) \/ Revoke(p) \/ Assign(p)
      PROVE  AnalyticsTypeOK' /\ BatchHasPartition'
  <2>1. CASE EachBatch(p)
    BY <1>2, <2>1 DEF EachBatch, Offsets
  <2>2. CASE Revoke(p)
    BY <2>2 DEF Revoke
  <2>3. CASE Assign(p)
    BY <1>2, <2>3 DEF Assign
  <2> QED BY <1>2, <2>1, <2>2, <2>3
<1>3. ASSUME NEW p \in Partitions, OtherMember(p)
      PROVE  AnalyticsTypeOK' /\ BatchHasPartition'
  <2>1. <<p, committed[p] + 1>> \in Messages
    BY <1>3 DEF OtherMember, Messages, Offsets
  <2> QED BY <1>3, <2>1 DEF OtherMember
<1>4. CASE StopBreak \/ StaleBreak \/ HeartbeatThrows \/ LoopEnds \/ NotExpired
  <2>1. CASE StopBreak \/ StaleBreak
    <3>1. /\ earlier' \in {earlier, NoRows} /\ added' = NoRows
          /\ pc' = "tail" /\ last' = 0
          /\ UNCHANGED <<committed, assigned, resolved, part, flushing, kind, stop, outside,
                         disruptions>>
      BY <2>1 DEF StopBreak, StaleBreak
    <3>2. discarded' \in BOOLEAN
      BY <2>1 DEF StopBreak, StaleBreak
    <3> QED BY <1>n, <3>1, <3>2
  <2>2. CASE HeartbeatThrows
    BY <2>2 DEF HeartbeatThrows
  <2>3. CASE LoopEnds
    BY <2>3 DEF LoopEnds
  <2>4. CASE NotExpired
    BY <2>4 DEF NotExpired, AfterTail, TailKind
  <2> QED BY <1>4, <2>1, <2>2, <2>3, <2>4
<1>5. CASE Reject \/ Duplicate \/ FalsePositive
  BY <1>5, NextIsMessage DEF Reject, Duplicate, FalsePositive, Resolve
<1>6. CASE Buffer
  <2>1. NextMessage \in Messages /\ resolved' \in [Partitions -> 0..Length]
    BY <1>6, NextIsMessage DEF Buffer
  <2>2. /\ Buffered(KindOf[NextMessage]) \union {NextMessage} \subseteq Messages
        /\ added[KindOf[NextMessage]] \union {NextMessage} \subseteq Messages
    BY <1>6, <2>1, BuffersType DEF Buffer
  <2> QED BY <1>6, <2>1, <2>2 DEF Buffer, Resolve
<1>7. CASE TimeFlush
  <2>1. TailKind \in Kinds /\ Buffered(TailKind) \subseteq Messages
    BY BuffersType DEF TailKind
  <2> QED BY <1>7, <2>1 DEF TimeFlush
<1>8. CASE AutoCommit
  BY <1>8, <1>n, CommitTakes, BuffersType DEF AutoCommit
<1>9. CASE Inserted \/ InsertFails \/ CommitThrows
  BY <1>9 DEF Inserted, InsertFails, CommitThrows
<1>10. CASE CommitFlushed \/ DeadLetters
  <2>1. committed' \in [Partitions -> 0..Length]
    BY <1>10, CommitTakes DEF CommitFlushed, DeadLetters
  <2> QED BY <1>10, <2>1 DEF CommitFlushed, DeadLetters, FlushReturns, AfterTail
<1>11. CASE Shutdown \/ Start
  BY <1>11 DEF Shutdown, Start
<1>12. CASE ResidualEvents \/ ResidualInterventions
  <2>1. PICK k \in Kinds, from, to \in {"asked", "events", "interventions"} :
          ResidualFlush(k, from, to)
    BY <1>12 DEF ResidualEvents, ResidualInterventions
  <2>2. committed' \in [Partitions -> 0..Length]
    BY <2>1, CommitTakes DEF ResidualFlush
  <2>3. stored' \subseteq Messages
    BY <2>1, BuffersType DEF ResidualFlush
  <2> QED BY <2>1, <2>2, <2>3 DEF ResidualFlush
<1>13. CASE ShutdownComplete \/ Crash
  <2>1. Down /\ disruptions' \in 0..MaxDisruptions
    BY <1>13 DEF ShutdownComplete, Crash
  <2> QED BY <1>n, <2>1 DEF Down
<1> HIDE DEF AnalyticsTypeOK, BatchHasPartition
<1> QED BY <1>1, <1>2, <1>3, <1>4, <1>5, <1>6, <1>7, <1>8, <1>9, <1>10, <1>11, <1>12, <1>13
        DEF AnalyticsNext

-----------------------------------------------------------------------------
(* A step that discards no rows loses none: they stay in a buffer or the   *)
(* flush, or end in ClickHouse or as dead letters.                         *)
LEMMA KnownStays ==
  ASSUME AnalyticsTypeOK, FlushingIsStored, [AnalyticsNext]_analyticsVars, ~discarded'
  PROVE  ~discarded /\ Known \subseteq Known'
<1> USE RowsAre DEF Known, Settled, volatile, outside, excused
<1>n. NoRows["event"] = {} /\ NoRows["intervention"] = {}
  BY DEF NoRows, Kinds
\* Steps that leave the rows where they are.
<1>1. ASSUME UNCHANGED <<earlier, added, flushing, discarded>>,
             Settled \subseteq Settled'
      PROVE  ~discarded /\ Known \subseteq Known'
  BY <1>1 DEF Buffered
<1>2. CASE UNCHANGED analyticsVars
  BY <1>1, <1>2 DEF analyticsVars
<1>3. ASSUME NEW p \in Partitions, EachBatch(p) \/ Revoke(p) \/ Assign(p) \/ OtherMember(p)
      PROVE  ~discarded /\ Known \subseteq Known'
  BY <1>1, <1>3 DEF EachBatch, Revoke, Assign, OtherMember
<1>4. CASE \/ Reject \/ Duplicate \/ FalsePositive \/ HeartbeatThrows \/ LoopEnds \/ NotExpired
           \/ Inserted \/ InsertFails \/ CommitThrows \/ Shutdown \/ Start
  BY <1>1, <1>4 DEF Reject, Duplicate, FalsePositive, HeartbeatThrows, LoopEnds, NotExpired, Inserted,
     InsertFails, CommitThrows, Shutdown, Start
\* Steps that discard rows say so.
<1>5. CASE StopBreak
  <2>1. added' = NoRows /\ added = NoRows /\ ~discarded
        /\ UNCHANGED <<earlier, flushing, stored, given, mistaken, elsewhere>>
    BY <1>5 DEF StopBreak
  <2> QED BY <2>1 DEF Buffered
<1>6. CASE StaleBreak \/ ShutdownComplete \/ Crash
  <2>1. Rows = {} /\ ~discarded /\ UNCHANGED <<stored, given, mistaken, elsewhere>>
    BY <1>6 DEF StaleBreak, ShutdownComplete, Crash, Down
  <2> QED BY <2>1
\* Steps that move rows.
<1>7. CASE Buffer \/ TimeFlush
  <2>1. ~discarded /\ UNCHANGED <<stored, given, mistaken, elsewhere>>
    BY <1>7 DEF Buffer, TimeFlush
  <2>2. flushing = {}
    BY <1>7 DEF Buffer, TimeFlush, Resolve, FlushingIsStored
  <2>3. Rows \subseteq Rows'
    <3>1. CASE Buffer
      <4>1. KindOf[NextMessage] \in {"event", "intervention"}
        BY <3>1 DEF Buffer, Kinds
      <4> QED BY <2>2, <3>1, <4>1 DEF Buffer, Buffered, AnalyticsTypeOK, Kinds
    <3>2. CASE TimeFlush
      BY <2>2, <3>2 DEF TimeFlush, TailKind, Buffered, AnalyticsTypeOK, Kinds
    <3> QED BY <1>7, <3>1, <3>2
  <2> QED BY <2>1, <2>3
<1>8. CASE AutoCommit
  BY <1>8, <1>n DEF AutoCommit, Buffered, Kinds
<1>9. CASE CommitFlushed \/ DeadLetters
  <2>1. /\ flushing \subseteq stored' \union given' /\ ~discarded
        /\ stored \subseteq stored' /\ given \subseteq given'
        /\ UNCHANGED <<earlier, added, mistaken, elsewhere>>
    BY <1>9 DEF CommitFlushed, DeadLetters, FlushingIsStored
  <2> QED BY <2>1 DEF Buffered
<1>10. CASE ResidualEvents \/ ResidualInterventions
  <2>1. PICK k \in Kinds, from, to \in {"asked", "events", "interventions"} :
          ResidualFlush(k, from, to)
    BY <1>10 DEF ResidualEvents, ResidualInterventions, Kinds
  <2>2. stored' = stored \union Buffered(k) /\ ~discarded
        /\ UNCHANGED <<given, flushing, mistaken, elsewhere>>
    BY <2>1 DEF ResidualFlush
  <2>3. \A j \in Kinds : j # k => Buffered(j)' = Buffered(j)
    BY <2>1 DEF ResidualFlush, Buffered, AnalyticsTypeOK
  <2> QED BY <2>2, <2>3 DEF Kinds
<1> QED BY <1>2, <1>3, <1>4, <1>5, <1>6, <1>7, <1>8, <1>9, <1>10 DEF AnalyticsNext

(* A flush keeps its rows until it is over; only what it has stored is     *)
(* marked.                                                                 *)
LEMMA FlushStep ==
  ASSUME FlushingIsStored, MarkedIsStored, [AnalyticsNext]_analyticsVars
  PROVE  FlushingIsStored' /\ MarkedIsStored'
<1> USE DEF FlushingIsStored, MarkedIsStored, volatile, outside, excused
<1>1. CASE UNCHANGED analyticsVars
  BY <1>1 DEF analyticsVars
<1>2. ASSUME NEW p \in Partitions, EachBatch(p) \/ Revoke(p) \/ Assign(p) \/ OtherMember(p)
      PROVE  FlushingIsStored' /\ MarkedIsStored'
  BY <1>2 DEF EachBatch, Revoke, Assign, OtherMember
<1>3. CASE \/ StopBreak \/ StaleBreak \/ Reject \/ Duplicate \/ FalsePositive \/ Buffer
           \/ HeartbeatThrows \/ LoopEnds
  BY <1>3 DEF StopBreak, StaleBreak, Reject, Duplicate, FalsePositive, Buffer, Resolve, HeartbeatThrows,
     LoopEnds
<1>4. CASE TimeFlush \/ NotExpired \/ AutoCommit \/ Shutdown \/ Start
  BY <1>4 DEF TimeFlush, NotExpired, AutoCommit, Shutdown, Start
<1>5. CASE Inserted \/ InsertFails \/ CommitFlushed \/ CommitThrows \/ DeadLetters
  BY <1>5 DEF Inserted, InsertFails, CommitFlushed, CommitThrows, DeadLetters, FlushReturns
<1>6. CASE ResidualEvents \/ ResidualInterventions
  BY <1>6 DEF ResidualEvents, ResidualInterventions, ResidualFlush
<1>7. CASE ShutdownComplete \/ Crash
  BY <1>7 DEF ShutdownComplete, Crash, Down
<1> QED BY <1>1, <1>2, <1>3, <1>4, <1>5, <1>6, <1>7 DEF AnalyticsNext

(* How the offsets move: a batch resolves a message that is then known, a  *)
(* partition that comes back starts from its committed offset, a commit    *)
(* takes what is resolved, and another member answers for what it commits. *)
ResolvedMoves(p) ==
  p \in assigned' =>
    \/ p \in assigned /\ resolved'[p] = resolved[p]
    \/ /\ p \in assigned /\ resolved'[p] = resolved[p] + 1
       /\ <<p, resolved'[p]>> \in Known'
       /\ committed' = committed
    \/ resolved'[p] = committed[p] /\ committed' = committed

CommitMoves(p) ==
  \/ committed'[p] = committed[p]
  \/ p \in assigned /\ committed'[p] = resolved[p] /\ resolved' = resolved
  \/ /\ p \notin assigned /\ committed'[p] = committed[p] + 1
     /\ <<p, committed'[p]>> \in Known'
     /\ UNCHANGED <<assigned, resolved>>

LEMMA OffsetStep ==
  ASSUME AnalyticsTypeOK, BatchHasPartition, MarkedIsStored, [AnalyticsNext]_analyticsVars,
         NEW p \in Partitions
  PROVE  ResolvedMoves(p) /\ CommitMoves(p)
<1> USE DEF ResolvedMoves, CommitMoves
<1> USE DEF volatile, outside, excused
\* Steps that leave the offsets alone or only take partitions away.
<1>1. CASE UNCHANGED <<committed, resolved>> /\ assigned' \subseteq assigned
  BY <1>1
<1>2. CASE UNCHANGED analyticsVars
  BY <1>1, <1>2 DEF analyticsVars
<1>3. ASSUME NEW q \in Partitions, EachBatch(q) \/ Revoke(q)
      PROVE  UNCHANGED <<committed, resolved>> /\ assigned' \subseteq assigned
  BY <1>3 DEF EachBatch, Revoke
<1>4. CASE \/ StopBreak \/ StaleBreak \/ HeartbeatThrows \/ LoopEnds \/ TimeFlush
           \/ NotExpired \/ Inserted \/ InsertFails \/ CommitThrows \/ Shutdown \/ Start
           \/ ShutdownComplete \/ Crash
  BY <1>1, <1>4 DEF StopBreak, StaleBreak, HeartbeatThrows, LoopEnds, TimeFlush, NotExpired,
     Inserted, InsertFails, CommitThrows, Shutdown, Start, ShutdownComplete, Crash, Down
\* Steps that resolve a message.
<1>5. CASE Reject \/ Duplicate \/ FalsePositive \/ Buffer
  <2>1. Resolve /\ UNCHANGED <<committed, assigned>>
    BY <1>5 DEF Reject, Duplicate, FalsePositive, Buffer
  <2>2. NextMessage \in Known'
    <3>1. CASE Reject
      BY <3>1 DEF Reject, Known, Settled
    <3>2. CASE Duplicate
      BY <3>2 DEF Duplicate, Known, Settled, MarkedIsStored
    <3>4. CASE FalsePositive
      BY <3>4 DEF FalsePositive, Known, Settled
    <3>3. CASE Buffer
      <4>1. KindOf[NextMessage] \in {"event", "intervention"}
        BY <3>3 DEF Buffer, Kinds
      <4>2. NextMessage \in Rows'
        BY <3>3, <4>1, RowsAre DEF Buffer, Buffered, AnalyticsTypeOK, Kinds
      <4> QED BY <4>2 DEF Known
    <3> QED BY <1>5, <3>1, <3>2, <3>3, <3>4
  <2>3. \/ resolved'[p] = resolved[p]
        \/ p = part /\ resolved'[p] = resolved[p] + 1
    BY <2>1, NextIsMessage
  <2>4. p = part /\ resolved'[p] = resolved[p] + 1 => <<p, resolved'[p]>> \in Known'
    BY <2>2 DEF NextMessage
  <2> QED BY <2>1, <2>3, <2>4
\* Steps that commit.
<1>6. CASE AutoCommit \/ CommitFlushed \/ DeadLetters \/ ResidualEvents \/ ResidualInterventions
  <2>1. UNCHANGED <<assigned, resolved>> /\ (CommitIfNecessary \/ committed' = committed)
    BY <1>6 DEF AutoCommit, CommitFlushed, DeadLetters, ResidualEvents,
       ResidualInterventions, ResidualFlush
  <2> QED BY <2>1, CommitTakes
\* The group.
<1>7. ASSUME NEW q \in Partitions, Assign(q)
      PROVE  /\ UNCHANGED committed
             /\ p \in assigned' => \/ p \in assigned /\ resolved'[p] = resolved[p]
                                   \/ resolved'[p] = committed[p]
  BY <1>7 DEF Assign, AnalyticsTypeOK
<1>8. ASSUME NEW q \in Partitions, OtherMember(q)
      PROVE  /\ UNCHANGED <<assigned, resolved>>
             /\ \/ committed'[p] = committed[p]
                \/ /\ p \notin assigned /\ committed'[p] = committed[p] + 1
                   /\ <<p, committed'[p]>> \in Known'
  BY <1>8 DEF OtherMember, AnalyticsTypeOK, Known, Settled
<1> QED BY <1>1, <1>2, <1>3, <1>4, <1>5, <1>6, <1>7, <1>8 DEF AnalyticsNext

LEMMA AnalyticsInvStep ==
  AnalyticsInv /\ [AnalyticsNext]_analyticsVars => AnalyticsInv'
<1> SUFFICES ASSUME AnalyticsInv, [AnalyticsNext]_analyticsVars PROVE AnalyticsInv'
  OBVIOUS
<1>t. /\ AnalyticsTypeOK /\ BatchHasPartition /\ FlushingIsStored /\ MarkedIsStored
      /\ ResolvedIsAccounted /\ CommittedIsAccounted /\ ResolvedIsAhead
  BY DEF AnalyticsInv
<1>1. AnalyticsTypeOK' /\ BatchHasPartition'
  BY <1>t, AnalyticsTypeStep
<1>2. FlushingIsStored' /\ MarkedIsStored'
  BY <1>t, FlushStep
<1>3. ASSUME NEW p \in Partitions
      PROVE  /\ committed[p] \in Nat /\ resolved[p] \in Nat
             /\ committed'[p] \in Nat /\ resolved'[p] \in Nat
  BY <1>t, <1>1, AnalyticsAssumption DEF AnalyticsTypeOK
<1>m. \A p \in Partitions : ResolvedMoves(p) /\ CommitMoves(p)
  BY <1>t, OffsetStep
<1>4. ResolvedIsAhead'
  <2> SUFFICES ASSUME NEW p \in Partitions, p \in assigned'
               PROVE  committed'[p] <= resolved'[p]
    BY <1>1 DEF ResolvedIsAhead, AnalyticsTypeOK
  <2>1. p \in assigned => committed[p] <= resolved[p]
    BY <1>t DEF ResolvedIsAhead
  <2>2. CASE p \in assigned /\ resolved'[p] \in {resolved[p], resolved[p] + 1}
    <3>1. committed'[p] \in {committed[p], resolved[p]}
      BY <2>2, <1>m DEF CommitMoves
    <3> QED BY <1>3, <2>1, <2>2, <3>1
  <2>3. CASE resolved'[p] = committed[p] /\ committed' = committed
    BY <1>3, <2>3
  <2> QED BY <1>m, <2>2, <2>3 DEF ResolvedMoves
<1>5. ASSUME ~discarded'
      PROVE  /\ \A p \in assigned' : \A o \in 1..resolved'[p] : <<p, o>> \in Known'
             /\ \A p \in Partitions : \A o \in 1..committed'[p] : <<p, o>> \in Known'
  <2>1. ~discarded /\ Known \subseteq Known'
    BY <1>t, <1>5, KnownStays
  <2>2. ASSUME NEW p \in Partitions
        PROVE  /\ p \in assigned => \A o \in 1..resolved[p] : <<p, o>> \in Known'
               /\ \A o \in 1..committed[p] : <<p, o>> \in Known'
    BY <1>t, <2>1 DEF ResolvedIsAccounted, CommittedIsAccounted, Known, Settled
  <2>3. ASSUME NEW p \in Partitions, p \in assigned', NEW o \in 1..resolved'[p]
        PROVE  <<p, o>> \in Known'
    <3>1. CASE p \in assigned /\ o \in 1..resolved[p]
      BY <3>1, <2>2
    <3>2. CASE o \in 1..committed[p]
      BY <3>2, <2>2
    <3>3. CASE o = resolved'[p] /\ <<p, resolved'[p]>> \in Known'
      BY <3>3
    <3> QED BY <1>3, <1>m, <2>3, <3>1, <3>2, <3>3 DEF ResolvedMoves
  <2>4. ASSUME NEW p \in Partitions, NEW o \in 1..committed'[p]
        PROVE  <<p, o>> \in Known'
    <3>1. CASE p \in assigned /\ o \in 1..resolved[p]
      BY <3>1, <2>2
    <3>2. CASE o \in 1..committed[p]
      BY <3>2, <2>2
    <3>3. CASE o = committed'[p] /\ <<p, committed'[p]>> \in Known'
      BY <3>3
    <3> QED BY <1>3, <1>m, <2>4, <3>1, <3>2, <3>3 DEF CommitMoves
  <2> QED BY <1>1, <2>3, <2>4 DEF AnalyticsTypeOK
<1>6. ResolvedIsAccounted' /\ CommittedIsAccounted'
  BY <1>5 DEF ResolvedIsAccounted, CommittedIsAccounted, Known, Settled
<1> QED BY <1>1, <1>2, <1>4, <1>6 DEF AnalyticsInv

-----------------------------------------------------------------------------
(* The types of the state, for every value of the constants.               *)
THEOREM AnalyticsTypeCorrect == AnalyticsSpec => []AnalyticsTypeOK
<1>1. AnalyticsInv => AnalyticsTypeOK
  BY DEF AnalyticsInv
<1> QED BY <1>1, AnalyticsInvInit, AnalyticsInvStep, PTL DEF AnalyticsSpec

(* Only rows that are in ClickHouse are added to the Bloom filter          *)
(* (consumer.ts:156-163), whatever fails between insert and commit.        *)
THEOREM MarkedIsAlwaysStored == AnalyticsSpec => []MarkedIsStored
<1>1. AnalyticsInv => MarkedIsStored
  BY DEF AnalyticsInv
<1> QED BY <1>1, AnalyticsInvInit, AnalyticsInvStep, PTL DEF AnalyticsSpec

(* Unless a stop, a stale batch or a death discards rows, every resolved   *)
(* message is stored, given up, in memory, mistaken for a known one by the *)
(* filter, or committed by another member (consumer.ts:358-395).           *)
THEOREM ResolvedIsAlwaysAccounted == AnalyticsSpec => []ResolvedIsAccounted
<1>1. AnalyticsInv => ResolvedIsAccounted
  BY DEF AnalyticsInv
<1> QED BY <1>1, AnalyticsInvInit, AnalyticsInvStep, PTL DEF AnalyticsSpec

(* No partition's committed offset moves back, although flushes commit     *)
(* what was resolved before a partition left and came back.                *)
THEOREM OffsetsNeverMoveBack == AnalyticsSpec => OffsetsOnlyAdvance
<1>1. AnalyticsInv /\ [AnalyticsNext]_analyticsVars
        => [\A p \in Partitions : committed'[p] >= committed[p]]_analyticsVars
  <2> SUFFICES ASSUME AnalyticsInv, [AnalyticsNext]_analyticsVars, NEW p \in Partitions
               PROVE  committed'[p] >= committed[p]
    OBVIOUS
  <2>1. /\ committed[p] \in Nat /\ resolved[p] \in Nat
        /\ p \in assigned => committed[p] <= resolved[p]
    BY AnalyticsAssumption DEF AnalyticsInv, AnalyticsTypeOK, ResolvedIsAhead
  <2>2. CommitMoves(p)
    BY OffsetStep DEF AnalyticsInv
  <2> QED BY <2>1, <2>2 DEF CommitMoves
<1> QED BY <1>1, AnalyticsInvInit, AnalyticsInvStep, PTL
        DEF AnalyticsSpec, OffsetsOnlyAdvance
=============================================================================
