------------------------------ MODULE Ingestion ------------------------------
(***************************************************************************)
(* One process of the ingestion service with batch deduplication on (the   *)
(* default): POST /v1/track requests that check the Bloom filter once,     *)
(* produce their events to Kafka one by one and record what was produced;  *)
(* and, when the S3 fallback is configured, the sink that logs an event to *)
(* a local SQLite WAL, buffers it, uploads the buffer and deletes the      *)
(* rows, and that replays the rows at the next start.                      *)
(*                                                                         *)
(* A request is used once: a client's retry is another request with the    *)
(* same event.  <<r, e>> is the WAL row or buffer entry made for event e   *)
(* by request r.  The events of an envelope are distinct and taken in any  *)
(* order.  The filter is exact here: its false positives are left out.     *)
(* So are the dead letters of dropped events, which go through the same    *)
(* sink: in the S3 buffer one would only let the buffer fill earlier.      *)
(***************************************************************************)
EXTENDS Naturals, FiniteSets

CONSTANTS Requests, Events, None,
  BufferMax,    \* entries that fill the S3 buffer
  MaxFaults     \* bound on failures, cancellations and deaths

ASSUME IngestionAssumption ==
  BufferMax \in Nat \ {0} /\ MaxFaults \in Nat /\ None \notin Events

VARIABLES
  fallback,     \* the S3 fallback is configured
  phase,        \* of the process: "down", "replaying" or "up"
  pc,           \* request -> where its handler is
  todo,         \* request -> events of its envelope still to be processed
  dups,         \* request -> events the filter knew when it was asked
  current,      \* request -> the event being sent
  produced,     \* request -> events the sink has accepted
  buffer,       \* entries in the S3 buffer
  flights,      \* flushes in progress
  kafka, s3,    \* events that are in Kafka, in S3
  wal,          \* rows of the WAL
  seen,         \* events the Bloom filter knows
  accepted,     \* <<r, e>>: the response to r said ok for e
  unlogged,     \* <<r, e>>: buffered though the WAL insert had failed
  faults

requestVars == <<pc, todo, dups, current, produced>>
memory == <<phase, requestVars, buffer, flights>>
durable == <<kafka, s3, wal, seen>>
history == <<accepted, unlogged>>
ingestionVars == <<fallback, memory, durable, history, faults>>

Entries == Requests \X Events
Flights == [by : {"loop", "full", "replay"}, entries : SUBSET Entries, put : BOOLEAN]
Labels == {"new", "check", "events", "produce", "insert", "push", "record", "respond", "done"}

IngestionTypeOK ==
  /\ fallback \in BOOLEAN
  /\ phase \in {"down", "replaying", "up"}
  /\ pc \in [Requests -> Labels]
  /\ todo \in [Requests -> SUBSET Events]
  /\ dups \in [Requests -> SUBSET Events]
  /\ current \in [Requests -> Events \union {None}]
  /\ produced \in [Requests -> SUBSET Events]
  /\ buffer \subseteq Entries
  /\ flights \subseteq Flights
  /\ kafka \subseteq Events /\ s3 \subseteq Events
  /\ wal \subseteq Entries
  /\ seen \subseteq Events
  /\ accepted \subseteq Entries /\ unlogged \subseteq Entries
  /\ faults \in 0..MaxFaults

IngestionInit ==
  /\ fallback \in BOOLEAN
  /\ phase = "up"
  /\ pc = [r \in Requests |-> "new"]
  /\ todo = [r \in Requests |-> {}]
  /\ dups = [r \in Requests |-> {}]
  /\ current = [r \in Requests |-> None]
  /\ produced = [r \in Requests |-> {}]
  /\ buffer = {} /\ flights = {}
  /\ kafka = {} /\ s3 = {} /\ wal = {} /\ seen = {}
  /\ accepted = {} /\ unlogged = {}
  /\ faults = 0

Fault == faults < MaxFaults /\ faults' = faults + 1
EventsOf(entries) == {entry[2] : entry \in entries}
Goto(r, label) == pc' = [pc EXCEPT ![r] = label]

(* The handlers of ended end: their local variables are gone. *)
Forget(ended) ==
  /\ pc' = [r \in Requests |-> IF r \in ended THEN "done" ELSE pc[r]]
  /\ todo' = [r \in Requests |-> IF r \in ended THEN {} ELSE todo[r]]
  /\ dups' = [r \in Requests |-> IF r \in ended THEN {} ELSE dups[r]]
  /\ current' = [r \in Requests |-> IF r \in ended THEN None ELSE current[r]]
  /\ produced' = [r \in Requests |-> IF r \in ended THEN {} ELSE produced[r]]

-----------------------------------------------------------------------------
(* process_envelope *)

Track(r) ==
  /\ phase = "up" /\ pc[r] = "new"
  /\ \E envelope \in SUBSET Events \ {{}} : todo' = [todo EXCEPT ![r] = envelope]
  /\ Goto(r, "check")
  /\ UNCHANGED <<fallback, phase, dups, current, produced, buffer, flights, durable, history,
                 faults>>

(* Mutant: every id that was asked for is recorded, produced or not. *)
AskedIsRecorded(r) ==
  /\ phase = "up" /\ pc[r] = "check"
  /\ seen' = seen \union todo[r]
  /\ dups' = [dups EXCEPT ![r] = todo[r] \intersect seen]
  /\ Goto(r, "events")
  /\ UNCHANGED <<fallback, phase, todo, current, produced, buffer, flights, kafka, s3, wal,
                 history, faults>>

(* One round trip for the whole envelope; an error means no duplicates. *)
CheckBloom(r) ==
  /\ phase = "up" /\ pc[r] = "check"
  /\ \/ dups' = [dups EXCEPT ![r] = todo[r] \intersect seen] /\ UNCHANGED faults
     \/ Fault /\ UNCHANGED dups
  /\ Goto(r, "events")
  /\ UNCHANGED <<fallback, phase, todo, current, produced, buffer, flights, durable, history>>

(* Dropped: invalid, a duplicate, over quota, restricted or too big; the    *)
(* result of a dead letter is not looked at.                                *)
DropEvent(r, e) ==
  /\ phase = "up" /\ pc[r] = "events" /\ e \in todo[r]
  /\ todo' = [todo EXCEPT ![r] = @ \ {e}]
  /\ UNCHANGED <<fallback, phase, pc, dups, current, produced, buffer, flights, durable,
                 history, faults>>

(* FallbackSink goes straight to S3 when Kafka's statistics are stale. *)
SendEvent(r, e) ==
  /\ phase = "up" /\ pc[r] = "events" /\ e \in todo[r] \ dups[r]
  /\ todo' = [todo EXCEPT ![r] = @ \ {e}]
  /\ current' = [current EXCEPT ![r] = e]
  /\ \/ Goto(r, "produce")
     \/ fallback /\ Goto(r, "insert")
  /\ UNCHANGED <<fallback, phase, dups, produced, buffer, flights, durable, history, faults>>

(* The sink returns Ok for the event in hand. *)
SinkAccepts(r) ==
  /\ produced' = [produced EXCEPT ![r] = @ \union {current[r]}]
  /\ current' = [current EXCEPT ![r] = None]
  /\ Goto(r, "events")

ProduceOk(r) ==
  /\ phase = "up" /\ pc[r] = "produce"
  /\ kafka' = kafka \union {current[r]}
  /\ SinkAccepts(r)
  /\ UNCHANGED <<fallback, phase, todo, dups, buffer, flights, s3, wal, seen, history, faults>>

(* Mutant: an event is accepted though it is in no log. *)
ProduceFailureAccepted(r) ==
  /\ phase = "up" /\ pc[r] = "produce" /\ Fault
  /\ SinkAccepts(r)
  /\ UNCHANGED <<fallback, phase, todo, dups, buffer, flights, durable, history>>

(* A KafkaError; the message may have been delivered all the same.          *)
(* Without a fallback the event is answered with "retry".                   *)
ProduceFails(r) ==
  /\ phase = "up" /\ pc[r] = "produce" /\ Fault
  /\ kafka' \in {kafka, kafka \union {current[r]}}
  /\ IF fallback
     THEN Goto(r, "insert") /\ UNCHANGED current
     ELSE Goto(r, "events") /\ current' = [current EXCEPT ![r] = None]
  /\ UNCHANGED <<fallback, phase, todo, dups, produced, buffer, flights, s3, wal, seen,
                 history>>

(* S3Sink.send: the WAL row first; a failed insert is only a warning. *)
InsertRow(r) ==
  /\ phase = "up" /\ pc[r] = "insert"
  /\ \/ wal' = wal \union {<<r, current[r]>>} /\ UNCHANGED <<unlogged, faults>>
     \/ unlogged' = unlogged \union {<<r, current[r]>>} /\ Fault /\ UNCHANGED wal
  /\ Goto(r, "push")
  /\ UNCHANGED <<fallback, phase, todo, dups, current, produced, buffer, flights, kafka, s3,
                 seen, accepted>>

(* Then, under the buffer's lock, the buffer; a full buffer is flushed by a *)
(* task of its own.                                                         *)
Push(r) ==
  /\ phase = "up" /\ pc[r] = "push"
  /\ LET entries == buffer \union {<<r, current[r]>>}
     IN  IF Cardinality(entries) >= BufferMax
         THEN /\ buffer' = {}
              /\ flights' = flights \union {[by |-> "full", entries |-> entries, put |-> FALSE]}
         ELSE buffer' = entries /\ UNCHANGED flights
  /\ SinkAccepts(r)
  /\ UNCHANGED <<fallback, phase, todo, dups, durable, history, faults>>

EventsDone(r) ==
  /\ phase = "up" /\ pc[r] = "events" /\ todo[r] = {}
  /\ Goto(r, IF produced[r] = {} THEN "respond" ELSE "record")
  /\ UNCHANGED <<fallback, phase, todo, dups, current, produced, buffer, flights, durable,
                 history, faults>>

RecordBloom(r) ==
  /\ phase = "up" /\ pc[r] = "record"
  /\ \/ seen' = seen \union produced[r] /\ UNCHANGED faults
     \/ Fault /\ UNCHANGED seen
  /\ Goto(r, "respond")
  /\ UNCHANGED <<fallback, phase, todo, dups, current, produced, buffer, flights, kafka, s3,
                 wal, history>>

Respond(r) ==
  /\ phase = "up" /\ pc[r] = "respond"
  /\ accepted' = accepted \union ({r} \X produced[r])
  /\ Forget({r})
  /\ UNCHANGED <<fallback, phase, buffer, flights, durable, unlogged, faults>>

(* TimeoutLayer drops the handler at whatever it awaits; a message that was *)
(* handed to the producer may still be delivered.                           *)
Cancel(r) ==
  /\ phase = "up" /\ pc[r] \notin {"new", "done"} /\ Fault
  /\ kafka' \in {kafka, IF pc[r] = "produce" THEN kafka \union {current[r]} ELSE kafka}
  /\ Forget({r})
  /\ UNCHANGED <<fallback, phase, buffer, flights, s3, wal, seen, history>>

-----------------------------------------------------------------------------
(* Flushes to S3 *)

(* The loop of new_with_wal awaits one flush before it looks again. *)
BackgroundFlush ==
  /\ phase = "up" /\ buffer # {}
  /\ \A f \in flights : f.by # "loop"
  /\ flights' = flights \union {[by |-> "loop", entries |-> buffer, put |-> FALSE]}
  /\ buffer' = {}
  /\ UNCHANGED <<fallback, phase, requestVars, durable, history, faults>>

(* Mutant: the rows are deleted when the upload begins. *)
PutObjectDeletesFirst(f) ==
  /\ f \in flights /\ ~f.put
  /\ wal' = wal \ f.entries
  /\ flights' = (flights \ {f}) \union {[f EXCEPT !.put = TRUE]}
  /\ UNCHANGED <<fallback, phase, requestVars, buffer, kafka, s3, seen, history, faults>>

PutObject(f) ==
  /\ f \in flights /\ ~f.put
  /\ s3' = s3 \union EventsOf(f.entries)
  /\ flights' = (flights \ {f}) \union {[f EXCEPT !.put = TRUE]}
  /\ UNCHANGED <<fallback, phase, requestVars, buffer, kafka, wal, seen, history, faults>>

(* The process serves once its replay has ended, well or not. *)
FlightEnds(f) ==
  /\ flights' = flights \ {f}
  /\ phase' = IF f.by = "replay" THEN "up" ELSE phase

(* Mutant: the rows of a failed upload are deleted too. *)
PutFailsCleansUp(f) ==
  /\ f \in flights /\ ~f.put /\ Fault
  /\ wal' = wal \ f.entries
  /\ FlightEnds(f)
  /\ UNCHANGED <<fallback, requestVars, buffer, kafka, s3, seen, history>>

(* The data is gone from memory; its rows wait for the next start. *)
PutFails(f) ==
  /\ f \in flights /\ ~f.put /\ Fault
  /\ s3' \in {s3, s3 \union EventsOf(f.entries)}
  /\ FlightEnds(f)
  /\ UNCHANGED <<fallback, requestVars, buffer, kafka, wal, seen, history>>

DeleteBatch(f) ==
  /\ f \in flights /\ f.put
  /\ \/ wal' = wal \ f.entries /\ UNCHANGED faults
     \/ Fault /\ UNCHANGED wal
  /\ FlightEnds(f)
  /\ UNCHANGED <<fallback, requestVars, buffer, kafka, s3, seen, history>>

-----------------------------------------------------------------------------
(* The process *)

(* A crash, or a shutdown: main waits for the requests and flushes Kafka's  *)
(* producer, but not the S3 buffer.                                         *)
Stop ==
  /\ phase # "down" /\ Fault
  /\ phase' = "down"
  /\ Forget({r \in Requests : pc[r] # "new"})
  /\ buffer' = {} /\ flights' = {}
  /\ UNCHANGED <<fallback, durable, history>>

(* The rows are replayed before the first request is taken. *)
Start ==
  /\ phase = "down"
  /\ IF fallback /\ wal # {}
     THEN /\ phase' = "replaying"
          /\ flights' = {[by |-> "replay", entries |-> wal, put |-> FALSE]}
     ELSE phase' = "up" /\ UNCHANGED flights
  /\ UNCHANGED <<fallback, requestVars, buffer, durable, history, faults>>

IngestionNext ==
  \/ \E r \in Requests :
       \/ Track(r) \/ CheckBloom(r)
       \/ \E e \in Events : DropEvent(r, e) \/ SendEvent(r, e)
       \/ ProduceOk(r) \/ ProduceFails(r) \/ InsertRow(r) \/ Push(r)
       \/ EventsDone(r) \/ RecordBloom(r) \/ Respond(r) \/ Cancel(r)
  \/ BackgroundFlush
  \/ \E f \in flights : PutObject(f) \/ PutFails(f) \/ DeleteBatch(f)
  \/ Stop \/ Start

IngestionSpec == IngestionInit /\ [][IngestionNext]_ingestionVars

-----------------------------------------------------------------------------
(* Properties *)

Kept == kafka \union s3 \union EventsOf(wal)

(* config.rs:210-211: the WAL prevents 'data loss on process crash'.  An    *)
(* event whose response said ok is in Kafka, in S3 or in the WAL, whatever  *)
(* fails, is cancelled or dies, unless its own WAL insert had failed.       *)
AcceptedIsKept == \A x \in accepted : x[2] \in Kept \/ x \in unlogged

(* pipeline.rs:523-529 drops an event the filter knows and tells the client *)
(* not to send it again: the filter knows only events that are kept, though *)
(* other requests with the same event fail, or are answered "retry".        *)
SeenIsKept == seen \subseteq Kept \union EventsOf(unlogged)

(* s3.rs:246-250: a row leaves the WAL only when its event is in S3, also   *)
(* when the loop and full buffers upload at the same time, an upload fails  *)
(* and its rows stay, and a start replays rows that an upload which never   *)
(* came to its delete has already put there.                                *)
DeletedIsUploaded == [][EventsOf(wal \ wal') \subseteq s3]_ingestionVars

(* The service implements the abstract delivery.  A message is an event of  *)
(* a request; it is passed over when the response says ok, and safe when    *)
(* its event is kept or its own WAL insert has failed.  Kept events stay    *)
(* kept while flushes move them from the WAL to S3 (s3.rs:198-250).         *)
Delivery == INSTANCE AtLeastOnce
              WITH Messages <- Entries, passed <- accepted,
                   safe <- {x \in Entries : x[2] \in Kept \/ x \in unlogged}

ImplementsDelivery == Delivery!DeliverySpec
=============================================================================
