--------------------------- MODULE EnrichmentProofs ---------------------------
(***************************************************************************)
(* PassedOverIsSettled, GroupOffsetAdvances and the refinement of          *)
(* AtLeastOnce, for any number of members and messages, any copies among   *)
(* the messages and any number of disruptions.                             *)
(*                                                                         *)
(* A message that is safe stays so, whoever has its event in hand: so it   *)
(* is enough that a member has made safe every message it fetched by the   *)
(* time it records its progress.  Members that lost the partition go on    *)
(* with theirs, and say nothing about the position of the owner, which is  *)
(* never behind the committed offset.                                      *)
(***************************************************************************)
EXTENDS Enrichment, TLAPS

Holding == {"enrich", "produce", "dlq"}

\* The messages a member has dealt with: all it fetched but the one in hand.
Finished(m) == IF pc[m] \in Holding THEN position[m] - 1 ELSE position[m]

\* A member whose position follows from an assignment it has not lost sight of.
OnPartition(m) == m \in assigned \/ pc[m] \in Holding \union {"progress"}

AllSafe(n) == \A o \in Offsets : o <= n => Safe(o)

HandIsFetched ==
  \A m \in Members : /\ pc[m] \in Holding => position[m] > 0
                     /\ pc[m] = "produce" => Event(m) \in Events
                     /\ pc[m] = "down" => m \notin assigned

ProgressIsSafe ==
  \A m \in Members : /\ AllSafe(stored[m])
                     /\ OnPartition(m) => AllSafe(Finished(m))

SeenIsSafe == \A o \in Offsets : EventOf[o] \in seen => Safe(o)

OwnerIsAhead == owner # None => owner \in assigned /\ committed <= position[owner]

EnrichmentInv ==
  /\ EnrichmentTypeOK /\ HandIsFetched
  /\ ProgressIsSafe /\ SeenIsSafe /\ OwnerIsAhead /\ AllSafe(committed)

-----------------------------------------------------------------------------
LEMMA EnrichmentInvInit == EnrichmentInit => EnrichmentInv
<1> SUFFICES ASSUME EnrichmentInit PROVE EnrichmentInv
  OBVIOUS
<1> USE EnrichmentAssumption DEF EnrichmentInit
<1>1. EnrichmentTypeOK
  BY DEF EnrichmentTypeOK, Labels
<1>2. HandIsFetched /\ SeenIsSafe /\ OwnerIsAhead
  BY DEF HandIsFetched, SeenIsSafe, OwnerIsAhead, Holding
<1>3. ProgressIsSafe /\ AllSafe(committed)
  BY DEF ProgressIsSafe, AllSafe, Finished, Holding, Offsets
<1> QED BY <1>1, <1>2, <1>3 DEF EnrichmentInv

(* What a member takes in hand is an event or cannot be parsed.            *)
LEMMA HandType ==
  ASSUME EnrichmentTypeOK, HandIsFetched, NEW m \in Members, pc[m] \in Holding
  PROVE  position[m] \in Offsets /\ Event(m) \in Events \union {None}
  BY EnrichmentAssumption DEF EnrichmentTypeOK, HandIsFetched, Event, Offsets

LEMMA EnrichmentTypeStep ==
  ASSUME EnrichmentTypeOK, HandIsFetched, [EnrichmentNext]_enrichmentVars
  PROVE  EnrichmentTypeOK' /\ HandIsFetched'
<1> USE EnrichmentAssumption
    DEF EnrichmentTypeOK, HandIsFetched, Labels, Holding, Goto, Disrupt, Event,
        group, place, outcome
<1>1. CASE UNCHANGED enrichmentVars
  BY <1>1 DEF enrichmentVars
<1>2. ASSUME NEW m \in Members, Poll(m) \/ Recv(m) \/ RecvFails(m)
      PROVE  EnrichmentTypeOK' /\ HandIsFetched'
  BY <1>2 DEF Poll, Recv, RecvFails
<1>3. ASSUME NEW m \in Members, Reject(m) \/ Duplicate(m) \/ WindowUpdate(m) \/ WindowFails(m)
      PROVE  EnrichmentTypeOK' /\ HandIsFetched'
  <2>1. EnrichmentTypeOK'
    BY <1>3 DEF Reject, Duplicate, WindowUpdate, WindowFails
  <2>2. UNCHANGED <<position, assigned>>
    BY <1>3 DEF Reject, Duplicate, WindowUpdate, WindowFails
  <2>3. CASE Reject(m)
    BY <2>2, <2>3 DEF Reject
  <2>4. CASE Duplicate(m) \/ WindowFails(m)
    BY <2>1, <2>2, <2>4 DEF Duplicate, WindowFails
  <2>5. CASE WindowUpdate(m)
    BY <2>1, <2>2, <2>5 DEF WindowUpdate
  <2> QED BY <1>3, <2>1, <2>3, <2>4, <2>5
<1>4. ASSUME NEW m \in Members, Produce(m) \/ ProduceFails(m) \/ SendToDlq(m)
      PROVE  EnrichmentTypeOK' /\ HandIsFetched'
  <2>1. position[m] \in Offsets
    BY <1>4, HandType DEF Produce, ProduceFails, SendToDlq
  <2> QED BY <1>4, <2>1 DEF Produce, ProduceFails, SendToDlq
<1>5. ASSUME NEW m \in Members, RecordProgress(m) \/ Stop(m)
      PROVE  EnrichmentTypeOK' /\ HandIsFetched'
  BY <1>5 DEF RecordProgress, Stop
<1>6. ASSUME NEW m \in Members, Shutdown(m) \/ Restart(m) \/ Learn(m) \/ Assign(m)
      PROVE  EnrichmentTypeOK' /\ HandIsFetched'
  <2>1. CASE Shutdown(m)
    BY <2>1 DEF Shutdown
  <2>2. CASE Restart(m)
    BY <2>2 DEF Restart
  <2>3. CASE Assign(m)
    BY <2>3 DEF Assign
  <2>4. CASE Learn(m)
    BY <2>4 DEF Learn
  <2> QED BY <1>6, <2>1, <2>2, <2>3, <2>4
<1>7. ASSUME NEW m \in Members, Crash(m)
      PROVE  EnrichmentTypeOK' /\ HandIsFetched'
  <2>1. HeldEvents(m) \subseteq Events
    BY HandType DEF HeldEvents, InHand
  <2> QED BY <1>7, <2>1 DEF Crash
<1>8. CASE Revoke \/ \E e \in Events : SeenExpires(e)
  BY <1>8 DEF Revoke, SeenExpires
<1> QED BY <1>1, <1>2, <1>3, <1>4, <1>5, <1>6, <1>7, <1>8 DEF EnrichmentNext

(* What was settled stays so.                                              *)
LEMMA OutcomesGrow ==
  ASSUME [EnrichmentNext]_enrichmentVars
  PROVE  enriched \subseteq enriched' /\ dead \subseteq dead' /\ lost \subseteq lost'
  BY DEF EnrichmentNext, enrichmentVars, outcome, Poll, Recv, RecvFails, Reject, Duplicate,
     WindowUpdate, WindowFails, Produce, ProduceFails, SendToDlq, RecordProgress, Stop,
     Shutdown, Crash, Restart, Learn, Assign, Revoke, SeenExpires

(* An event in hand stays there until it is settled.                       *)
LEMMA HandStep ==
  ASSUME EnrichmentTypeOK, [EnrichmentNext]_enrichmentVars,
         NEW m \in Members, HeldEvents(m) # {}
  PROVE  \/ HeldEvents(m)' = HeldEvents(m)
         \/ Event(m) \in enriched' \union lost'
         \/ position[m] \in dead'
<1> USE DEF EnrichmentTypeOK, HeldEvents, InHand, Event, Goto, group, place, outcome
<1>0. pc[m] \in InHand
  OBVIOUS
<1>1. CASE UNCHANGED enrichmentVars
  BY <1>1 DEF enrichmentVars
<1>2. CASE Produce(m) \/ ProduceFails(m) \/ SendToDlq(m) \/ Crash(m)
  BY <1>2 DEF Produce, ProduceFails, SendToDlq, Crash
<1>3. CASE Shutdown(m) \/ Revoke \/ \E e \in Events : SeenExpires(e)
  BY <1>3 DEF Shutdown, Revoke, SeenExpires
<1>4. CASE \/ Poll(m) \/ Recv(m) \/ RecvFails(m) \/ Reject(m) \/ Duplicate(m)
           \/ WindowUpdate(m) \/ WindowFails(m) \/ RecordProgress(m) \/ Stop(m)
           \/ Restart(m) \/ Learn(m) \/ Assign(m)
  BY <1>0, <1>4 DEF Poll, Recv, RecvFails, Reject, Duplicate, WindowUpdate, WindowFails,
     RecordProgress, Stop, Restart, Learn, Assign
<1>5. ASSUME NEW n \in Members \ {m},
             \/ Poll(n) \/ Recv(n) \/ RecvFails(n) \/ Reject(n) \/ Duplicate(n)
             \/ WindowUpdate(n) \/ WindowFails(n) \/ Produce(n) \/ ProduceFails(n)
             \/ SendToDlq(n) \/ RecordProgress(n) \/ Stop(n)
             \/ Shutdown(n) \/ Crash(n) \/ Restart(n) \/ Learn(n) \/ Assign(n)
      PROVE  HeldEvents(m)' = HeldEvents(m)
  BY <1>5 DEF Poll, Recv, RecvFails, Reject, Duplicate, WindowUpdate, WindowFails, Produce,
     ProduceFails, SendToDlq, RecordProgress, Stop, Shutdown, Crash, Restart, Learn, Assign
<1> HIDE DEF EnrichmentTypeOK, HeldEvents, Event
<1> QED BY <1>1, <1>2, <1>3, <1>4, <1>5 DEF EnrichmentNext

(* A message that is safe stays so.                                        *)
LEMMA SafeStays ==
  ASSUME EnrichmentTypeOK, HandIsFetched, [EnrichmentNext]_enrichmentVars,
         NEW o \in Offsets, Safe(o)
  PROVE  Safe(o)'
<1>1. CASE Settled(o)
  BY <1>1, OutcomesGrow DEF Safe, Settled, SameEvent
<1>2. ASSUME NEW m \in Members, EventOf[o] \in HeldEvents(m)
      PROVE  Safe(o)'
  <2>1. EventOf[o] = Event(m) /\ EventOf[o] # None /\ pc[m] \in InHand
    BY <1>2 DEF HeldEvents
  <2>2. position[m] \in Offsets
    BY <2>1, HandType DEF InHand, Holding
  <2>3. CASE HeldEvents(m)' = HeldEvents(m)
    BY <1>2, <2>3 DEF Safe
  <2>4. CASE Event(m) \in enriched' \union lost' \/ position[m] \in dead'
    <3>1. position[m] \in SameEvent(o)
      BY <2>1, <2>2 DEF SameEvent, Event
    <3> QED BY <2>1, <2>4, <3>1 DEF Safe, Settled, SameEvent
  <2> QED BY <1>2, <2>3, <2>4, HandStep
<1> QED BY <1>1, <1>2 DEF Safe

(* Every step keeps the invariant: only a fetch, a handled message, a      *)
(* recorded progress and an assignment move what members have passed.      *)
LEMMA EnrichmentInvStep ==
  EnrichmentInv /\ [EnrichmentNext]_enrichmentVars => EnrichmentInv'
<1> SUFFICES ASSUME EnrichmentInv, [EnrichmentNext]_enrichmentVars PROVE EnrichmentInv'
  OBVIOUS
<1>t. EnrichmentTypeOK /\ HandIsFetched /\ EnrichmentTypeOK' /\ HandIsFetched'
  BY EnrichmentTypeStep DEF EnrichmentInv
<1>r. ProgressIsSafe /\ SeenIsSafe /\ OwnerIsAhead /\ AllSafe(committed)
  BY DEF EnrichmentInv
<1>s. \A o \in Offsets : Safe(o) => Safe(o)'
  BY <1>t, SafeStays
<1> DEFINE Keeps(m) == /\ stored'[m] = stored[m]
                       /\ OnPartition(m)' => OnPartition(m) /\ Finished(m)' = Finished(m)
           Rest == ProgressIsSafe' /\ SeenIsSafe' /\ OwnerIsAhead' /\ AllSafe(committed)'
\* A member whose progress a step leaves alone.
<1>k. ASSUME NEW m \in Members, Keeps(m)
      PROVE  AllSafe(stored[m])' /\ (OnPartition(m)' => AllSafe(Finished(m))')
  BY <1>k, <1>r, <1>s DEF ProgressIsSafe, AllSafe
<1>c. UNCHANGED committed => AllSafe(committed)'
  BY <1>r, <1>s DEF AllSafe
<1>e. seen' \subseteq seen => SeenIsSafe'
  BY <1>r, <1>s DEF SeenIsSafe
<1> USE EnrichmentAssumption DEF EnrichmentTypeOK, Goto, group, place, outcome, Holding
<1>1. ASSUME UNCHANGED enrichmentVars PROVE Rest
  <2>1. \A m \in Members : Keeps(m)
    BY <1>1 DEF enrichmentVars, OnPartition, Finished
  <2>2. OwnerIsAhead' /\ UNCHANGED <<committed, seen>>
    BY <1>1, <1>r DEF enrichmentVars, OwnerIsAhead
  <2> QED BY <2>1, <2>2, <1>k, <1>c, <1>e DEF ProgressIsSafe
\* Steps that record nothing and mark nothing as seen.
<1>2. ASSUME NEW m \in Members,
             \/ Poll(m) \/ Recv(m) \/ RecvFails(m) \/ Reject(m) \/ ProduceFails(m)
             \/ Shutdown(m) \/ Crash(m) \/ Restart(m) \/ Learn(m)
      PROVE  Rest
  <2>1. \A n \in Members : Keeps(n)
    <3>1. CASE Poll(m) \/ Recv(m) \/ RecvFails(m) \/ Reject(m) \/ ProduceFails(m)
      BY <1>t, <3>1 DEF Poll, Recv, RecvFails, Reject, ProduceFails, OnPartition, Finished
    <3>2. CASE Shutdown(m) \/ Crash(m) \/ Restart(m) \/ Learn(m)
      BY <1>t, <3>2 DEF Shutdown, Crash, Restart, Learn, OnPartition, Finished
    <3> QED BY <1>2, <3>1, <3>2
  <2>2. OwnerIsAhead'
    BY <1>t, <1>r, <1>2 DEF Poll, Recv, RecvFails, Reject, ProduceFails, Shutdown, Crash,
       Restart, Learn, OwnerIsAhead
  <2>3. UNCHANGED <<committed, seen>>
    BY <1>2 DEF Poll, Recv, RecvFails, Reject, ProduceFails, Shutdown, Crash, Restart, Learn
  <2> QED BY <2>1, <2>2, <2>3, <1>k, <1>c, <1>e DEF ProgressIsSafe
<1>3. ASSUME Revoke \/ \E e \in Events : SeenExpires(e) PROVE Rest
  <2>1. \A n \in Members : Keeps(n)
    BY <1>3 DEF Revoke, SeenExpires, OnPartition, Finished
  <2>2. OwnerIsAhead' /\ UNCHANGED committed /\ seen' \subseteq seen
    BY <1>r, <1>3 DEF Revoke, SeenExpires, OwnerIsAhead
  <2> QED BY <2>1, <2>2, <1>k, <1>c, <1>e DEF ProgressIsSafe
\* The marker is set: the event is in hand.
<1>4. ASSUME NEW m \in Members, WindowUpdate(m) PROVE Rest
  <2>1. \A n \in Members : Keeps(n)
    BY <1>t, <1>4 DEF WindowUpdate, OnPartition, Finished
  <2>2. OwnerIsAhead' /\ UNCHANGED committed
    BY <1>r, <1>4 DEF WindowUpdate, OwnerIsAhead
  <2>3. Event(m) \in HeldEvents(m)'
    BY <1>t, <1>4 DEF WindowUpdate, HeldEvents, InHand, Event
  <2>4. SeenIsSafe'
    BY <2>3, <1>r, <1>s, <1>4 DEF WindowUpdate, SeenIsSafe, Safe
  <2> QED BY <2>1, <2>2, <2>4, <1>k, <1>c DEF ProgressIsSafe
\* A message is dealt with.
<1>5. ASSUME NEW m \in Members,
             Duplicate(m) \/ WindowFails(m) \/ Produce(m) \/ SendToDlq(m)
      PROVE  Rest
  <2>1. position[m] \in Offsets /\ pc[m] \in Holding
    BY <1>t, <1>5, HandType DEF Duplicate, WindowFails, Produce, SendToDlq
  <2>2. Safe(position[m])'
    <3>1. CASE Duplicate(m)
      BY <3>1, <2>1, <1>r, <1>s DEF Duplicate, SeenIsSafe, Event
    <3>2. CASE WindowFails(m) \/ Produce(m)
      BY <3>2 DEF WindowFails, Produce, Event, Safe, Settled
    <3>3. CASE SendToDlq(m)
      BY <3>3, <2>1 DEF SendToDlq, Safe, Settled, SameEvent
    <3> QED BY <1>5, <3>1, <3>2, <3>3
  <2>3. \A n \in Members \ {m} : Keeps(n)
    BY <1>t, <1>5 DEF Duplicate, WindowFails, Produce, SendToDlq, OnPartition, Finished
  <2>4. /\ stored'[m] = stored[m] /\ position' = position
        /\ Finished(m) = position[m] - 1 /\ Finished(m)' = position[m]
    BY <1>t, <1>5 DEF Duplicate, WindowFails, Produce, SendToDlq, Finished
  <2>5. AllSafe(stored[m])' /\ AllSafe(Finished(m))'
    <3>1. AllSafe(stored[m]) /\ AllSafe(position[m] - 1)
      BY <2>1, <2>4, <1>r DEF ProgressIsSafe, OnPartition
    <3>2. \A o \in Offsets : o <= position[m] => o <= position[m] - 1 \/ o = position[m]
      BY <2>1 DEF Offsets
    <3>3. \A o \in Offsets : o <= stored[m] => Safe(o)'
      BY <3>1, <1>s DEF AllSafe
    <3>4. \A o \in Offsets : o <= position[m] => Safe(o)'
      BY <3>1, <3>2, <2>2, <2>4, <1>s DEF AllSafe
    <3> QED BY <3>3, <3>4, <2>4 DEF AllSafe
  <2>6. ProgressIsSafe'
    BY <2>3, <2>5, <1>k DEF ProgressIsSafe
  <2>7. OwnerIsAhead' /\ UNCHANGED committed
    BY <1>r, <1>5 DEF Duplicate, WindowFails, Produce, SendToDlq, OwnerIsAhead
  <2>8. SeenIsSafe'
    <3>1. CASE seen' \subseteq seen
      BY <3>1, <1>e
    <3>2. CASE WindowFails(m)
      <4>1. seen' \subseteq seen \union {Event(m)} /\ Event(m) \in lost'
        BY <3>2 DEF WindowFails
      <4> QED BY <4>1, <1>r, <1>s DEF SeenIsSafe, Safe, Settled
    <3> QED BY <1>5, <3>1, <3>2 DEF Duplicate, Produce, SendToDlq
  <2> QED BY <2>6, <2>7, <2>8, <1>c
\* What is recorded is dealt with.
<1>6. ASSUME NEW m \in Members, RecordProgress(m) PROVE Rest
  <2>1. \A n \in Members \ {m} : Keeps(n)
    BY <1>t, <1>6 DEF RecordProgress, OnPartition, Finished
  <2>2. AllSafe(position[m]) /\ AllSafe(stored[m])
    BY <1>6, <1>r DEF RecordProgress, ProgressIsSafe, OnPartition, Finished
  <2>3. /\ stored'[m] \in {stored[m], position[m]}
        /\ Finished(m)' = position[m]
        /\ committed' = committed \/ (owner = m /\ committed' = position[m])
        /\ UNCHANGED <<owner, assigned, position, seen>>
    BY <1>t, <1>6 DEF RecordProgress, Finished
  <2>4. ProgressIsSafe'
    BY <2>1, <2>2, <2>3, <1>s, <1>k DEF ProgressIsSafe, AllSafe
  <2>5. AllSafe(committed)'
    BY <2>2, <2>3, <1>r, <1>s DEF AllSafe
  <2>6. OwnerIsAhead'
    BY <1>t, <2>3, <1>r DEF OwnerIsAhead
  <2> QED BY <2>3, <2>4, <2>5, <2>6, <1>e
<1>7. ASSUME NEW m \in Members, Stop(m) PROVE Rest
  <2>1. \A n \in Members : Keeps(n)
    BY <1>t, <1>7 DEF Stop, OnPartition, Finished
  <2>2. committed' \in {committed, stored[m]} /\ seen' = seen
        /\ (owner' # None => owner' = owner /\ owner # m /\ committed' = committed)
        /\ assigned' = assigned \ {m} /\ position' = position
    BY <1>7 DEF Stop
  <2>3. AllSafe(committed)'
    BY <2>2, <1>r, <1>s DEF AllSafe, ProgressIsSafe
  <2>4. OwnerIsAhead'
    BY <2>2, <1>r DEF OwnerIsAhead
  <2> QED BY <2>1, <2>2, <2>3, <2>4, <1>k, <1>e DEF ProgressIsSafe
\* A new owner starts from the committed offset.
<1>8. ASSUME NEW m \in Members, Assign(m) PROVE Rest
  <2>1. \A n \in Members \ {m} : Keeps(n)
    BY <1>t, <1>8 DEF Assign, OnPartition, Finished
  <2>2. /\ stored'[m] = committed /\ Finished(m)' = committed
        /\ owner' = m /\ m \in assigned' /\ position'[m] = committed
        /\ UNCHANGED <<committed, seen>>
    BY <1>t, <1>8 DEF Assign, Finished
  <2>3. ProgressIsSafe'
    BY <2>1, <2>2, <1>r, <1>s, <1>k DEF ProgressIsSafe, AllSafe
  <2>4. OwnerIsAhead'
    BY <1>t, <2>2 DEF OwnerIsAhead
  <2> QED BY <2>2, <2>3, <2>4, <1>c, <1>e
<1> HIDE DEF EnrichmentTypeOK, Goto, group, place, outcome, Holding
<1> QED BY <1>t, <1>1, <1>2, <1>3, <1>4, <1>5, <1>6, <1>7, <1>8
        DEF EnrichmentNext, EnrichmentInv

-----------------------------------------------------------------------------
(* The types of the state, for every value of the constants.               *)
THEOREM EnrichmentTypeCorrect == EnrichmentSpec => []EnrichmentTypeOK
<1>1. EnrichmentInv => EnrichmentTypeOK
  BY DEF EnrichmentInv
<1> QED BY <1>1, EnrichmentInvInit, EnrichmentInvStep, PTL DEF EnrichmentSpec

(* A message that is committed, or whose event's marker stands, has an     *)
(* event that is enriched, dead-lettered, lost or in hand                  *)
(* (consumer.rs:99-195): copies, redeliveries, revocations, deaths and     *)
(* markers that expire lose nothing else.                                  *)
THEOREM PassedOverIsAlwaysSettled == EnrichmentSpec => []PassedOverIsSettled
<1>1. EnrichmentInv => PassedOverIsSettled
  BY DEF EnrichmentInv, PassedOverIsSettled, PassedOver, SeenIsSafe, AllSafe
<1> QED BY <1>1, EnrichmentInvInit, EnrichmentInvStep, PTL DEF EnrichmentSpec

(* Only the owner commits, and never less than what is committed.          *)
LEMMA CommitStep ==
  ASSUME EnrichmentInv, [EnrichmentNext]_enrichmentVars
  PROVE  /\ committed' >= committed
         /\ committed' = committed \/ \A o \in Offsets : Safe(o)' <=> Safe(o)
<1>t. EnrichmentTypeOK /\ OwnerIsAhead
  BY DEF EnrichmentInv
<1> USE EnrichmentAssumption DEF EnrichmentTypeOK, group, place, outcome, Goto
<1>1. ASSUME NEW m \in Members, RecordProgress(m) \/ Stop(m)
      PROVE  /\ committed' >= committed
             /\ \A o \in Offsets : Safe(o)' <=> Safe(o)
  <2>1. committed' >= committed
    BY <1>t, <1>1 DEF RecordProgress, Stop, OwnerIsAhead
  <2>2. \A n \in Members : HeldEvents(n)' = HeldEvents(n)
    BY <1>t, <1>1 DEF RecordProgress, Stop, HeldEvents, InHand, Event
  <2>3. UNCHANGED <<enriched, lost, dead>>
    BY <1>1 DEF RecordProgress, Stop
  <2> QED BY <2>1, <2>2, <2>3 DEF Safe, Settled, SameEvent
<1>2. CASE committed' = committed
  BY <1>t, <1>2
<1>3. (\E m \in Members : RecordProgress(m) \/ Stop(m)) \/ committed' = committed
  BY DEF EnrichmentNext, enrichmentVars, Poll, Recv, RecvFails, Reject, Duplicate,
     WindowUpdate, WindowFails, Produce, ProduceFails, SendToDlq, Shutdown, Crash, Restart,
     Learn, Assign, Revoke, SeenExpires
<1> QED BY <1>1, <1>2, <1>3

(* The group's offset never moves back (consumer.rs:110-122).              *)
THEOREM GroupOffsetNeverMovesBack == EnrichmentSpec => GroupOffsetAdvances
<1>1. EnrichmentInv /\ [EnrichmentNext]_enrichmentVars
        => [committed' >= committed]_enrichmentVars
  BY CommitStep
<1> QED BY <1>1, EnrichmentInvInit, EnrichmentInvStep, PTL
        DEF EnrichmentSpec, GroupOffsetAdvances

(* The group refines the abstract delivery: a commit is a PassOver step,   *)
(* every other step is a Secure step or leaves both sets alone.            *)
THEOREM EnrichmentImplementsDelivery == EnrichmentSpec => ImplementsDelivery
<1>1. EnrichmentInit => Delivery!DeliveryInit
  BY EnrichmentAssumption DEF EnrichmentInit, Delivery!DeliveryInit, Safe, Settled, SameEvent,
     HeldEvents, InHand, Offsets
<1>2. EnrichmentInv /\ [EnrichmentNext]_enrichmentVars
        => [Delivery!Secure \/ Delivery!PassOver]_(Delivery!deliveryVars)
  <2> SUFFICES ASSUME EnrichmentInv, [EnrichmentNext]_enrichmentVars
               PROVE  Delivery!Secure \/ Delivery!PassOver
    OBVIOUS
  <2>1. EnrichmentTypeOK /\ HandIsFetched /\ EnrichmentTypeOK' /\ EnrichmentInv'
    BY EnrichmentInvStep DEF EnrichmentInv
  <2>2. CASE committed' = committed
    <3>1. {o \in Offsets : Safe(o)} \subseteq {o \in Offsets : Safe(o)'}
      BY <2>1, SafeStays
    <3> QED BY <2>2, <3>1 DEF Delivery!Secure
  <2>3. CASE \A o \in Offsets : Safe(o)' <=> Safe(o)
    <3>1. 1..committed \subseteq 1..committed'
      BY <2>1, CommitStep, EnrichmentAssumption DEF EnrichmentTypeOK
    <3>2. 1..committed' \subseteq {o \in Offsets : Safe(o)'}
      <4>1. 1..committed' \subseteq Offsets /\ \A o \in 1..committed' : o <= committed'
        BY <2>1, EnrichmentAssumption DEF EnrichmentTypeOK, Offsets
      <4> QED BY <2>1, <4>1 DEF EnrichmentInv, AllSafe
    <3> QED BY <2>3, <3>1, <3>2 DEF Delivery!PassOver
  <2> QED BY <2>2, <2>3, CommitStep
<1> QED BY <1>1, <1>2, EnrichmentInvInit, EnrichmentInvStep, PTL
        DEF EnrichmentSpec, ImplementsDelivery, Delivery!DeliverySpec
=============================================================================
