---------------------------- MODULE IngestionProofs ----------------------------
(***************************************************************************)
(* AcceptedIsKept, SeenIsKept and DeletedIsUploaded, for any number of     *)
(* requests and events, any size of the buffer and any number of faults.   *)
(* Nothing that is kept is ever lost, because a row is deleted only by a   *)
(* flight that has uploaded it; so it is enough that an event is safe when *)
(* its handler takes it for accepted.                                      *)
(***************************************************************************)
EXTENDS Ingestion, TLAPS

\* What is known of event e of request r once its handler has dealt with it.
Safe(r, e) == e \in Kept \/ <<r, e>> \in unlogged

FlightIsUploaded == \A f \in flights : f.put => EventsOf(f.entries) \subseteq s3

CurrentIsEvent ==
  \A r \in Requests : pc[r] \in {"produce", "insert", "push"} => current[r] \in Events

HandledIsSafe ==
  \A r \in Requests : /\ pc[r] = "push" => Safe(r, current[r])
                      /\ \A e \in produced[r] : Safe(r, e)

KeptInv ==
  /\ IngestionTypeOK /\ FlightIsUploaded /\ CurrentIsEvent /\ HandledIsSafe
  /\ AcceptedIsKept /\ SeenIsKept

(* The events of more entries are more events. *)
LEMMA EventsOfMonotone ==
  ASSUME NEW S, NEW T, S \subseteq T
  PROVE  EventsOf(S) \subseteq EventsOf(T)
  BY DEF EventsOf

LEMMA KeptInit == IngestionInit => KeptInv
<1> SUFFICES ASSUME IngestionInit PROVE KeptInv
  OBVIOUS
<1>1. IngestionTypeOK
  <2>1. 0 \in 0..MaxFaults
    BY IngestionAssumption
  <2> QED BY <2>1 DEF IngestionInit, IngestionTypeOK, Labels
<1>2. FlightIsUploaded /\ CurrentIsEvent /\ HandledIsSafe /\ AcceptedIsKept /\ SeenIsKept
  BY DEF IngestionInit, FlightIsUploaded, CurrentIsEvent, HandledIsSafe, AcceptedIsKept,
     SeenIsKept
<1> QED BY <1>1, <1>2 DEF KeptInv

(* A step of a handler, or of the process, deletes no row of the WAL.      *)
LEMMA OthersDeleteNothing ==
  ASSUME IngestionNext, \A f \in flights : ~DeleteBatch(f)
  PROVE  wal \subseteq wal' /\ kafka \subseteq kafka' /\ s3 \subseteq s3' /\ unlogged \subseteq unlogged'
<1> USE DEF durable, history
<1>1. ASSUME NEW r \in Requests,
             \/ Track(r) \/ CheckBloom(r)
             \/ \E e \in Events : DropEvent(r, e) \/ SendEvent(r, e)
             \/ EventsDone(r) \/ RecordBloom(r) \/ Respond(r) \/ Cancel(r)
      PROVE  wal \subseteq wal' /\ kafka \subseteq kafka' /\ s3 \subseteq s3' /\ unlogged \subseteq unlogged'
  BY <1>1 DEF Track, CheckBloom, DropEvent, SendEvent, EventsDone, RecordBloom, Respond, Cancel
<1>2. ASSUME NEW r \in Requests, ProduceOk(r) \/ ProduceFails(r) \/ InsertRow(r) \/ Push(r)
      PROVE  wal \subseteq wal' /\ kafka \subseteq kafka' /\ s3 \subseteq s3' /\ unlogged \subseteq unlogged'
  BY <1>2 DEF ProduceOk, ProduceFails, InsertRow, Push
<1>3. ASSUME NEW f \in flights, PutObject(f) \/ PutFails(f)
      PROVE  wal \subseteq wal' /\ kafka \subseteq kafka' /\ s3 \subseteq s3' /\ unlogged \subseteq unlogged'
  BY <1>3 DEF PutObject, PutFails
<1>4. CASE BackgroundFlush \/ Stop \/ Start
  BY <1>4 DEF BackgroundFlush, Stop, Start
<1> QED BY <1>1, <1>2, <1>3, <1>4 DEF IngestionNext

(* What is kept stays kept, and what is deleted has been uploaded.         *)
LEMMA NothingIsLost ==
  ASSUME FlightIsUploaded, [IngestionNext]_ingestionVars
  PROVE  /\ Kept \subseteq Kept' /\ unlogged \subseteq unlogged' /\ s3 \subseteq s3'
         /\ EventsOf(wal \ wal') \subseteq s3
<1>1. CASE UNCHANGED ingestionVars
  BY <1>1 DEF ingestionVars, durable, history, Kept, EventsOf
<1>2. ASSUME NEW f \in flights, DeleteBatch(f)
      PROVE  /\ Kept \subseteq Kept' /\ unlogged \subseteq unlogged' /\ s3 \subseteq s3'
             /\ EventsOf(wal \ wal') \subseteq s3
  <2>1. /\ wal' \in {wal, wal \ f.entries} /\ f.put
        /\ kafka' = kafka /\ s3' = s3 /\ unlogged' = unlogged
    BY <1>2 DEF DeleteBatch, history
  <2>2. EventsOf(f.entries) \subseteq s3
    BY <2>1 DEF FlightIsUploaded
  <2>3. EventsOf(wal \ wal') \subseteq s3
    BY <2>1, <2>2 DEF EventsOf
  <2>4. EventsOf(wal) \subseteq EventsOf(wal') \union s3
    BY <2>3 DEF EventsOf
  <2> QED BY <2>1, <2>3, <2>4 DEF Kept
<1>3. CASE IngestionNext /\ \A f \in flights : ~DeleteBatch(f)
  <2>1. wal \subseteq wal' /\ kafka \subseteq kafka' /\ s3 \subseteq s3' /\ unlogged \subseteq unlogged'
    BY <1>3, OthersDeleteNothing
  <2>2. EventsOf(wal \ wal') = {}
    BY <2>1 DEF EventsOf
  <2>3. EventsOf(wal) \subseteq EventsOf(wal')
    BY <2>1 DEF EventsOf
  <2> QED BY <2>1, <2>2, <2>3 DEF Kept
<1> QED BY <1>1, <1>2, <1>3

(* Responses and the filter tell only of what a handler has dealt with.    *)
LEMMA OnlyProducedIsTold ==
  ASSUME [IngestionNext]_ingestionVars
  PROVE  /\ \A x \in accepted' \ accepted :
              \E r \in Requests : \E e \in produced[r] : x = <<r, e>>
         /\ \A e \in seen' \ seen : \E r \in Requests : e \in produced[r]
<1> USE DEF durable, history
<1>1. CASE UNCHANGED ingestionVars
  BY <1>1 DEF ingestionVars
<1>2. ASSUME NEW r \in Requests,
             \/ Track(r) \/ CheckBloom(r)
             \/ \E e \in Events : DropEvent(r, e) \/ SendEvent(r, e)
             \/ ProduceOk(r) \/ ProduceFails(r) \/ InsertRow(r) \/ Push(r)
             \/ EventsDone(r) \/ Cancel(r)
      PROVE  accepted' = accepted /\ seen' = seen
  BY <1>2 DEF Track, CheckBloom, DropEvent, SendEvent, ProduceOk, ProduceFails, InsertRow, Push,
     EventsDone, Cancel
<1>3. ASSUME NEW r \in Requests, RecordBloom(r)
      PROVE  accepted' = accepted /\ seen' \subseteq seen \union produced[r]
  BY <1>3 DEF RecordBloom
<1>4. ASSUME NEW r \in Requests, Respond(r)
      PROVE  accepted' = accepted \union ({r} \X produced[r]) /\ seen' = seen
  BY <1>4 DEF Respond
<1>5. CASE \/ BackgroundFlush \/ Stop \/ Start
           \/ \E f \in flights : PutObject(f) \/ PutFails(f) \/ DeleteBatch(f)
  <2>1. accepted' = accepted /\ seen' = seen
    BY <1>5 DEF BackgroundFlush, Stop, Start, PutObject, PutFails, DeleteBatch
  <2> QED BY <2>1
<1> QED BY <1>1, <1>2, <1>3, <1>4, <1>5 DEF IngestionNext

(* A handler that ends, or many, leave nothing to say about them.          *)
LEMMA ForgetKeepsHandled ==
  ASSUME IngestionTypeOK, CurrentIsEvent, NEW ended, Forget(ended)
  PROVE  /\ pc' \in [Requests -> Labels]
         /\ todo' \in [Requests -> SUBSET Events]
         /\ dups' \in [Requests -> SUBSET Events]
         /\ current' \in [Requests -> Events \union {None}]
         /\ produced' \in [Requests -> SUBSET Events]
         /\ CurrentIsEvent'
         /\ \A r \in Requests :
              /\ pc'[r] = "push" => pc[r] = "push" /\ current'[r] = current[r]
              /\ produced'[r] \subseteq produced[r]
  BY DEF Forget, IngestionTypeOK, CurrentIsEvent, Labels

LEMMA KeptStep == KeptInv /\ [IngestionNext]_ingestionVars => KeptInv'
<1> SUFFICES ASSUME KeptInv, [IngestionNext]_ingestionVars PROVE KeptInv'
  OBVIOUS
<1> USE DEF KeptInv, memory, requestVars, durable, history
<1> USE IngestionAssumption
<1>0. /\ s3 \subseteq s3'
      /\ \A r, e : Safe(r, e) => Safe(r, e)'
  BY NothingIsLost DEF Safe
<1>a. AcceptedIsKept'
  <2>1. ASSUME NEW x \in accepted' \ accepted PROVE x[2] \in Kept \/ x \in unlogged
    <3>1. PICK r \in Requests : \E e \in produced[r] : x = <<r, e>>
      BY OnlyProducedIsTold
    <3>2. PICK e \in produced[r] : x = <<r, e>>
      BY <3>1
    <3>3. Safe(r, e) /\ x[2] = e
      BY <3>2 DEF HandledIsSafe
    <3> QED BY <3>2, <3>3 DEF Safe
  <2> QED BY <2>1, NothingIsLost DEF AcceptedIsKept
<1>b. SeenIsKept'
  <2>1. ASSUME NEW e \in seen' \ seen PROVE e \in Kept \union EventsOf(unlogged)
    <3>1. PICK r \in Requests : e \in produced[r]
      BY OnlyProducedIsTold
    <3>2. Safe(r, e)
      BY <3>1 DEF HandledIsSafe
    <3>3. <<r, e>> \in unlogged => e \in EventsOf(unlogged)
      BY DEF EventsOf
    <3> QED BY <3>2, <3>3 DEF Safe
  <2>2. EventsOf(unlogged) \subseteq EventsOf(unlogged')
    BY NothingIsLost DEF EventsOf
  <2> QED BY <2>1, <2>2, NothingIsLost DEF SeenIsKept
<1> DEFINE Rest == IngestionTypeOK' /\ FlightIsUploaded' /\ CurrentIsEvent' /\ HandledIsSafe'
<1> USE DEF Goto, Fault, IngestionTypeOK, CurrentIsEvent, HandledIsSafe
<1>1. ASSUME UNCHANGED ingestionVars PROVE Rest
  <2>1. IngestionTypeOK' /\ FlightIsUploaded' /\ CurrentIsEvent'
    BY <1>1 DEF ingestionVars, FlightIsUploaded
  <2>2. HandledIsSafe'
    BY <1>1, <1>0 DEF ingestionVars
  <2> QED BY <2>1, <2>2
\* Steps that change what a handler works on.
<1>2. ASSUME NEW r \in Requests, Track(r) \/ CheckBloom(r) \/ EventsDone(r) \/ RecordBloom(r)
      PROVE  Rest
  <2>1. IngestionTypeOK' /\ FlightIsUploaded' /\ CurrentIsEvent'
    BY <1>2 DEF Track, CheckBloom, EventsDone, RecordBloom, FlightIsUploaded, Labels
  <2>2. /\ UNCHANGED <<current, produced>>
        /\ \A q \in Requests : pc'[q] = "push" => pc[q] = "push"
    BY <1>2 DEF Track, CheckBloom, EventsDone, RecordBloom
  <2> QED BY <2>1, <2>2, <1>0
<1>3. ASSUME NEW r \in Requests, NEW e \in Events, DropEvent(r, e) \/ SendEvent(r, e)
      PROVE  Rest
  <2>1. IngestionTypeOK' /\ FlightIsUploaded' /\ CurrentIsEvent'
    BY <1>3 DEF DropEvent, SendEvent, FlightIsUploaded, Labels
  <2>2. /\ UNCHANGED produced
        /\ \A q \in Requests : pc'[q] = "push" => pc[q] = "push" /\ current'[q] = current[q]
    BY <1>3 DEF DropEvent, SendEvent
  <2> QED BY <2>1, <2>2, <1>0
<1>4. ASSUME NEW r \in Requests, ProduceOk(r) PROVE Rest
  <2>1. current[r] \in Events /\ current[r] \in Kept'
    BY <1>4 DEF ProduceOk, Kept
  <2>2. IngestionTypeOK' /\ FlightIsUploaded' /\ CurrentIsEvent'
    BY <1>4, <2>1 DEF ProduceOk, SinkAccepts, FlightIsUploaded, Labels
  <2>3. HandledIsSafe'
    <3>1. \A q \in Requests : pc'[q] = "push" => pc[q] = "push" /\ current'[q] = current[q]
      BY <1>4 DEF ProduceOk, SinkAccepts
    <3>2. \A q \in Requests : \A e \in produced'[q] : e \in produced[q] \/ e \in Kept'
      BY <1>4, <2>1 DEF ProduceOk, SinkAccepts
    <3> QED BY <3>1, <3>2, <1>0 DEF Safe
  <2> QED BY <2>2, <2>3
<1>5. ASSUME NEW r \in Requests, ProduceFails(r) PROVE Rest
  <2>1. current[r] \in Events
    BY <1>5 DEF ProduceFails
  <2>2. IngestionTypeOK' /\ FlightIsUploaded' /\ CurrentIsEvent'
    BY <1>5, <2>1 DEF ProduceFails, FlightIsUploaded, Labels
  <2>3. /\ UNCHANGED produced
        /\ \A q \in Requests : pc'[q] = "push" => pc[q] = "push" /\ current'[q] = current[q]
    BY <1>5 DEF ProduceFails
  <2> QED BY <2>2, <2>3, <1>0
<1>6. ASSUME NEW r \in Requests, InsertRow(r) PROVE Rest
  <2>1. current[r] \in Events /\ <<r, current[r]>> \in Entries
    BY <1>6 DEF InsertRow, Entries
  <2>2. Safe(r, current[r])'
    BY <1>6 DEF InsertRow, Safe, Kept, EventsOf
  <2>3. IngestionTypeOK' /\ FlightIsUploaded' /\ CurrentIsEvent'
    BY <1>6, <2>1 DEF InsertRow, FlightIsUploaded, Labels
  <2>4. HandledIsSafe'
    BY <1>6, <2>2, <1>0 DEF InsertRow
  <2> QED BY <2>3, <2>4
<1>7. ASSUME NEW r \in Requests, Push(r) PROVE Rest
  <2>1. current[r] \in Events /\ <<r, current[r]>> \in Entries
    BY <1>7 DEF Push, Entries
  <2> DEFINE entries == buffer \union {<<r, current[r]>>}
  <2>2. [by |-> "full", entries |-> entries, put |-> FALSE] \in Flights
    BY <2>1 DEF Flights
  <2>3. flights' \subseteq Flights /\ buffer' \subseteq Entries
    BY <1>7, <2>1, <2>2 DEF Push
  <2>4. FlightIsUploaded'
    BY <1>7 DEF Push, FlightIsUploaded
  <2>5. IngestionTypeOK' /\ CurrentIsEvent'
    BY <1>7, <2>1, <2>3 DEF Push, SinkAccepts, Labels
  <2>6. HandledIsSafe'
    BY <1>7, <1>0 DEF Push, SinkAccepts
  <2> QED BY <2>4, <2>5, <2>6
\* Steps that end handlers.
<1>8. ASSUME NEW r \in Requests, Respond(r) \/ Cancel(r) PROVE Rest
  <2>1. Forget({r})
    BY <1>8 DEF Respond, Cancel
  <2>2. /\ kafka' \subseteq Events /\ accepted' \subseteq Entries /\ faults' \in 0..MaxFaults
        /\ UNCHANGED <<fallback, phase, buffer, flights, s3, wal, unlogged>> /\ seen' = seen
    BY <1>8 DEF Respond, Cancel, Entries
  <2>3. HandledIsSafe'
    BY <2>1, <1>0, ForgetKeepsHandled
  <2> QED BY <2>1, <2>2, <2>3, ForgetKeepsHandled DEF FlightIsUploaded
<1>9. ASSUME Stop PROVE Rest
  <2>1. Forget({r \in Requests : pc[r] # "new"})
    BY <1>9 DEF Stop
  <2>2. HandledIsSafe'
    BY <2>1, <1>0, ForgetKeepsHandled
  <2>3. FlightIsUploaded'
    BY <1>9 DEF Stop, FlightIsUploaded
  <2> QED BY <1>9, <2>1, <2>2, <2>3, ForgetKeepsHandled DEF Stop
\* Flushes and the process: handlers go on as they were.
<1>10. ASSUME UNCHANGED requestVars, FlightIsUploaded', IngestionTypeOK' PROVE Rest
  BY <1>10, <1>0
<1>11. ASSUME BackgroundFlush PROVE Rest
  <2>1. [by |-> "loop", entries |-> buffer, put |-> FALSE] \in Flights
    BY DEF Flights
  <2>2. flights' \subseteq Flights /\ buffer' \subseteq Entries /\ UNCHANGED requestVars
    BY <1>11, <2>1 DEF BackgroundFlush
  <2>3. FlightIsUploaded'
    BY <1>11 DEF BackgroundFlush, FlightIsUploaded
  <2>4. IngestionTypeOK'
    BY <1>11, <2>2 DEF BackgroundFlush
  <2> QED BY <2>2, <2>3, <2>4, <1>10
<1>12. ASSUME NEW f \in flights, PutObject(f) PROVE Rest
  <2>1. [f EXCEPT !.put = TRUE] \in Flights /\ EventsOf(f.entries) \subseteq Events
        /\ [f EXCEPT !.put = TRUE].entries = f.entries
    BY DEF Flights, EventsOf, Entries
  <2>2. FlightIsUploaded'
    BY <1>12, <2>1 DEF PutObject, FlightIsUploaded, EventsOf
  <2>3. IngestionTypeOK' /\ UNCHANGED requestVars
    BY <1>12, <2>1 DEF PutObject
  <2> QED BY <2>2, <2>3, <1>10
<1>13. ASSUME NEW f \in flights, PutFails(f) \/ DeleteBatch(f) PROVE Rest
  <2>1. EventsOf(f.entries) \subseteq Events
    BY DEF Flights, EventsOf, Entries
  <2>2. FlightIsUploaded'
    BY <1>13, <1>0 DEF PutFails, DeleteBatch, FlightEnds, FlightIsUploaded, EventsOf
  <2>3. IngestionTypeOK' /\ UNCHANGED requestVars
    BY <1>13, <2>1 DEF PutFails, DeleteBatch, FlightEnds
  <2> QED BY <2>2, <2>3, <1>10
<1>14. ASSUME Start PROVE Rest
  <2>1. [by |-> "replay", entries |-> wal, put |-> FALSE] \in Flights
    BY DEF Flights
  <2>2. flights' \subseteq Flights /\ phase' \in {"down", "replaying", "up"}
        /\ UNCHANGED requestVars
    BY <1>14, <2>1 DEF Start
  <2>3. FlightIsUploaded'
    BY <1>14 DEF Start, FlightIsUploaded
  <2>4. IngestionTypeOK'
    BY <1>14, <2>2 DEF Start
  <2> QED BY <2>2, <2>3, <2>4, <1>10
<1> HIDE DEF IngestionTypeOK, CurrentIsEvent, HandledIsSafe
<1>15. Rest
  BY <1>1, <1>2, <1>3, <1>4, <1>5, <1>6, <1>7, <1>8, <1>9, <1>11, <1>12, <1>13, <1>14
     DEF IngestionNext
<1> QED BY <1>a, <1>b, <1>15

(* The types of the state, for every value of the constants.               *)
THEOREM IngestionTypeCorrect == IngestionSpec => []IngestionTypeOK
<1>1. KeptInv => IngestionTypeOK
  BY DEF KeptInv
<1> QED BY <1>1, KeptInit, KeptStep, PTL DEF IngestionSpec

(* An event that a response called ok is in Kafka, in S3 or in the WAL     *)
(* (S3Sink.send, flush, WalStore.delete_batch, the replay of main), unless *)
(* its own WAL insert had failed.                                          *)
THEOREM AcceptedIsAlwaysKept == IngestionSpec => []AcceptedIsKept
<1>1. KeptInv => AcceptedIsKept
  BY DEF KeptInv
<1> QED BY <1>1, KeptInit, KeptStep, PTL DEF IngestionSpec

(* The Bloom filter knows only events that are kept (record_bloom after    *)
(* the sends of process_envelope).                                         *)
THEOREM SeenIsAlwaysKept == IngestionSpec => []SeenIsKept
<1>1. KeptInv => SeenIsKept
  BY DEF KeptInv
<1> QED BY <1>1, KeptInit, KeptStep, PTL DEF IngestionSpec

(* A row leaves the WAL only after its event is in S3 (S3Sink.flush).      *)
THEOREM DeletedIsAlwaysUploaded == IngestionSpec => DeletedIsUploaded
<1>1. KeptInv /\ [IngestionNext]_ingestionVars
        => [EventsOf(wal \ wal') \subseteq s3]_ingestionVars
  BY NothingIsLost DEF KeptInv
<1> QED BY <1>1, KeptInit, KeptStep, PTL DEF IngestionSpec, DeletedIsUploaded

(* A response tells what is kept already and changes nothing that is.      *)
LEMMA ResponsesAreLate ==
  ASSUME [IngestionNext]_ingestionVars
  PROVE  \/ accepted' = accepted
         \/ accepted \subseteq accepted' /\ UNCHANGED <<kafka, s3, wal, unlogged>>
<1> USE DEF durable, history
<1>1. CASE UNCHANGED ingestionVars
  BY <1>1 DEF ingestionVars
<1>2. ASSUME NEW r \in Requests, Respond(r)
      PROVE  accepted \subseteq accepted' /\ UNCHANGED <<kafka, s3, wal, unlogged>>
  BY <1>2 DEF Respond
<1>3. ASSUME NEW r \in Requests,
             \/ Track(r) \/ CheckBloom(r)
             \/ \E e \in Events : DropEvent(r, e) \/ SendEvent(r, e)
             \/ ProduceOk(r) \/ ProduceFails(r) \/ InsertRow(r) \/ Push(r)
             \/ EventsDone(r) \/ RecordBloom(r) \/ Cancel(r)
      PROVE  accepted' = accepted
  BY <1>3 DEF Track, CheckBloom, DropEvent, SendEvent, ProduceOk, ProduceFails, InsertRow, Push,
     EventsDone, RecordBloom, Cancel
<1>4. CASE \/ BackgroundFlush \/ Stop \/ Start
           \/ \E f \in flights : PutObject(f) \/ PutFails(f) \/ DeleteBatch(f)
  BY <1>4 DEF BackgroundFlush, Stop, Start, PutObject, PutFails, DeleteBatch
<1> QED BY <1>1, <1>2, <1>3, <1>4 DEF IngestionNext

(* The service refines the abstract delivery: a response is a PassOver     *)
(* step; sends, flushes, deletions, deaths and replays are Secure steps or *)
(* leave both sets alone.                                                  *)
THEOREM IngestionImplementsDelivery == IngestionSpec => ImplementsDelivery
<1> DEFINE SafeEntries == {x \in Entries : x[2] \in Kept \/ x \in unlogged}
<1>1. IngestionInit => Delivery!DeliveryInit
  BY DEF IngestionInit, Delivery!DeliveryInit, Kept, EventsOf
<1>2. KeptInv /\ [IngestionNext]_ingestionVars
        => [Delivery!Secure \/ Delivery!PassOver]_(Delivery!deliveryVars)
  <2> SUFFICES ASSUME KeptInv, [IngestionNext]_ingestionVars
               PROVE  Delivery!Secure \/ Delivery!PassOver
    OBVIOUS
  <2>1. CASE accepted' = accepted
    <3>1. Kept \subseteq Kept' /\ unlogged \subseteq unlogged'
      BY NothingIsLost DEF KeptInv
    <3> QED BY <2>1, <3>1 DEF Delivery!Secure
  <2>2. CASE accepted \subseteq accepted' /\ UNCHANGED <<kafka, s3, wal, unlogged>>
    <3>1. UNCHANGED Kept /\ UNCHANGED unlogged
      BY <2>2 DEF Kept, EventsOf
    <3>2. accepted' \subseteq SafeEntries'
      BY KeptStep DEF KeptInv, IngestionTypeOK, AcceptedIsKept
    <3> QED BY <2>2, <3>1, <3>2 DEF Delivery!PassOver
  <2> QED BY <2>1, <2>2, ResponsesAreLate
<1> QED BY <1>1, <1>2, KeptInit, KeptStep, PTL
        DEF IngestionSpec, ImplementsDelivery, Delivery!DeliverySpec
================================================================================
