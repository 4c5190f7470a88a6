# Formal model of the Wince backend

TLA+ modules, TLC configurations and TLAPS proofs for the Wince backend: the
pipeline that collects a shop's browser events, scores abandonment risk and
sends interventions (discounts, messages) to customers.  The models are
translated from the source; `PROJECT.json` maps every definition to the lines
it stands for.

## 1. The system

```
browser SDK -> Kong -> ingestion (Rust) -> raw.events
   raw.events -> enrichment-session (Rust) -> enriched.events
      (fast path: POST /v1/trigger straight to the decision engine)
   enriched.events -> decision-engine (TS) -> intervention-gateway (WebSocket/poll)
                                           -> notification-service (mail/SMS/push)
   intervention.log, intervention.events -> analytics-consumer -> ClickHouse/PostgreSQL
   admin-api (Hono) -> decision-engine /internal, PostgreSQL, Redis
```

| Component | State it keeps | Operations | What is hard | What makes it correct |
|---|---|---|---|---|
| decision-engine, Phase 2 (`intervention.service.ts`, `lock`, `budget`, `cooldown`, `intervention.writer`) | Redis `lock:user`, `sent:user`, `cooldown`, `budget`; rows of `interventions`, `intervention_recommendations`; heartbeat timers | executeRecommendation, manualDecide, renew, un-awaited write | calls of five entry points and several replicas interleave at every await; Redis fails open; TTLs; stalls; un-awaited writes; catch and early-return paths | one call per customer in Phase 2; one intervention per episode; spending within the budget; records that follow the dispatch; locks that come free |
| decision-engine, re-evaluation queue (`scheduler.service`, `scheduler.worker`) | ZSET `eval:queue`, `user_sessions` | schedule, popDue, clearUserSessions, tick with a 5 s time-out per session | two-command pop, overlapping ticks, several replicas, purchases in between, crash after the pop | a scheduled session is evaluated again or cleared by a purchase |
| decision-engine, scans (`stale-scanner.service`) | `scan:lock`, `expiry:scan:lock`, `active:sessions`, `pending:store` | scan, expireRecommendations | locks without a token, released unconditionally; scans longer than the TTL; failures in the middle of a page | an overdue recommendation is expired; a decision is never undone |
| decision-engine, consumer (`decision.consumer.ts`) | the batch, its done set, resolved and committed offsets | eachBatch in priority order, DLQ, shutdown | reordering by priority, early break, rebalance and redelivery | no offset is committed past a message that was not processed |
| decision-engine, recommendations (`recommendation.service.ts`, admin-api `recommendation.ts`) | rows, `pending:store` ZSET | generate, get, mark*, reject, patch, expire | check-then-update from two services | the lifecycle pending -> (approved, rejected, expired) -> executed |
| decision-engine, scoring (`risk-scorer`, `rules`, `prediction`, `features`, `policy`, `experiment`) | caches, `risk:user`, `active_risk`, `user_sessions` | score, merge, threshold, bucket | fallbacks when a source is missing; boundaries | the documented table of delays, tiers and weights |
| intervention-gateway | socketMap per pod, `ws:active:{sid}`, `intervention:pending:{sid}`, ackRegistry | open, message, close, push, forward, poll, heartbeat | reconnect to another pod, late closes, acknowledgement after the time-out, one pending slot | no send on a closed socket; what was answered was shown or kept; every push is answered |
| notification-service | retry loop | notify, retry, log, DLQ | time-out and retry of a send that succeeded; crash after 202 | bounded attempts, a log record for every request |
| enrichment-session | Redis `seen:{eid}`, session windows, consumer offsets | idempotency script, enrich, produce, forward | crash between SETNX and produce; redelivery; owners that go on | what is passed over is enriched, dead-lettered or in hand |
| ingestion | Bloom filter, quota and rate counters, WAL, S3 buffer, sinks | accept, validate, dedup, quota, send, upload, replay | sink failure, cancellation, replay, concurrent requests | accepted events are in Kafka, S3 or the WAL |
| analytics-consumer | two batchers, offsets, Bloom filter | add, flush, rollback, drain, DLQ | flush in flight at a rebalance or shutdown, failing steps of a flush | nothing resolved is dropped from memory; the filter knows only what is stored |
| packages/cache | memory and Redis tiers | get, set, invalidate, getOrCompute | concurrent computes, stale tiers, null values | an answer is no older than its tier's TTL and a slow write |
| packages/clickhouse_client | connection pool, waiters, health checks | acquire, release, hand over, check, shutdown | time-outs that race hand-overs, checks that race lending, shutdown | one user per connection, none lost, a true counter, every acquire answered |
| packages/utils, redis_client, http-client, kafka_client | circuit breakers, retry counters | execute with retry | half-open breaker, retry of what succeeded | bounded retries |
| admin-api | PostgreSQL, token versions, audit log | auth, policies, stores, discounts, risk | check-then-act on rows, stale caches | atomic redemption, revocation within 60 s |
| frontend (`apps/dashboard` and SDK), infrastructure, scripts | | | user interface and deployment | not modelled |

## 2. The modules

| Module | What it is | EXTENDS |
|---|---|---|
| `PhaseTwoGate` | abstract: of the calls of one customer at most one is inside | |
| `AtLeastOnce` | abstract: what a hop of the pipeline passes over is safe, and stays so; `Ingestion`, `Enrichment` and `DecisionConsumer` implement it | |
| `InterventionExecution` | Phase 2: every awaited step of `executeRecommendation` and `manualDecide`, and all that runs beside them | |
| `InterventionProperties` | what Phase 2 guarantees and what the comments claim; instantiates `PhaseTwoGate` | `InterventionExecution` |
| `DispatchProofs` | TLAPS proofs about Phase 2 and the gateway | `InterventionProperties`, `Gateway` |
| `EvalQueue` | the re-evaluation queue, its workers, evaluations and purchases | |
| `EvalQueueProofs` | TLAPS proofs about the queue | `EvalQueue` |
| `DecisionConsumer` | the Kafka batch loop on one partition and the consumer group around it | |
| `DecisionConsumerProofs` | TLAPS proofs about the consumer | `DecisionConsumer` |
| `Recommendations`, `RecommendationProofs` | a recommendation's row and index, settled by executors, administrators and the expiry scans; proofs | |
| `Gateway` | the gateway's pods for one session: sockets, routing key, pushes, forwards, slot | |
| `Enrichment`, `EnrichmentProofs` | the enrichment consumer group on one partition; proofs | |
| `AnalyticsConsumer`, `AnalyticsProofs` | one replica of the analytics consumer, its buffers and offsets; proofs | |
| `Ingestion`, `IngestionProofs` | one ingestion process: requests, Kafka, and the S3 fallback with its WAL; proofs | |
| `Cache` | the two-level cache of one key on several replicas | |
| `ConnectionPool` | the ClickHouse connection pool | |
| `PackageProofs` | TLAPS proofs about the cache and the pool | `Cache`, `ConnectionPool` |
| `MC...` | the instances that TLC checks: functions that give constants their values | the module they check |

How the modules meet: the engine's consumer and ticks start the evaluations of
`EvalQueue`; an evaluation may create a recommendation (`Recommendations`) and
execute it (`InterventionExecution`), whose `OutboundRoute` is a `Push` of
`Gateway`; the rows it produces are what `AnalyticsConsumer` reads, and the
events of `Ingestion` are the messages of `Enrichment`, which takes copies
because `Ingestion` makes some. `Recommendations` keeps of Phase 2 what
settles a row, one customer per offer, and adds the index, the clock and the
scans; `InterventionExecution` has several offers for one customer, and no
index.

`AtLeastOnce` says what the three consuming hops have in common. `passed` is what will
not be asked for again: committed offsets (`Enrichment`, `DecisionConsumer`), or
events answered ok (`Ingestion`). `safe` is what need not be: handled messages;
messages enriched, dead-lettered, in hand or lost to a named failure; events in
Kafka, S3 or the WAL. A step makes more safe or passes more over, never less,
and passes over what is safe. The analytics consumer does not implement it: it
commits rows that are only in memory (section 6).

Paths in 2.1 to 2.4 are relative to `src/apps/decision-engine/src/`. A mutant (an
operator whose comment starts "Mutant:") stands in front of the definition it
replaces; no specification uses it.

### 2.1 InterventionExecution

A call is a process. Its `pc` is the await it stands at, and one action is the
code from that await to the next, so an action may change several variables
when the code does so in one turn of the event loop (starting the heartbeat
belongs to `AcquireUserLock`, starting the un-awaited write to
`GenerateCode`). The calls of all replicas interleave freely.

| Variable | In the code |
|---|---|
| `lock`, `sentBy`, `cooldown`, `reserved` | Redis: `lock:user:{id}`, `sent:user:{id}`, `cooldown:{store}:{id}`, `budget:{store}:{date}`. The code stores '1' in the marker; `sentBy` remembers which calls set it since it was last cleared |
| `status`, `row` | PostgreSQL: `intervention_recommendations.status`; the `interventions` row and its `delivered` |
| `heartbeats`, `fenced` | the running `setInterval`s; the ones whose `renewUserLock` returned false |
| `writer`, `code` | the un-awaited `InterventionWriter.write`; the result of `generateCode` |
| `due`, `rejecting` | `expires_at` in the past; admin reject handlers between check and update |
| `attempt`, `charge`, `known` | history: what became of the outbound request, the day a call was charged to, the marker as it was when the call was made. No guard reads them, except that midnight turns "today" into "past" |

| Action | Code |
|---|---|
| `CallExecute`, `CallManual` | `decide()` or the approve route (the row is pending and not expired); `/internal/decide` with or without `overrideCooldown` |
| `GetRecommendation`, `MarkExpired`, `CheckCooldown`, `IsSent` | the reads and early returns before the lock |
| `AcquireUserLock`, `Renew`, `ReleaseUserLock`, `LockExpires` | SET NX EX, the heartbeat, the release script, the TTL |
| `CheckAndReserve` | the Lua script; nothing to do for an amount of 0; fail-open on a Redis error |
| `GenerateCode`, `WriterInsert`, `WriterProduce` | the discount code's insert with its foreign key, the two steps of the un-awaited write |
| `OutboundRoute`, `MarkDelivered`, `SetCooldown`, `MarkSent`, `MarkExecuted` | dispatch and the records that follow it |
| `Purchase`, `SentExpires`, `CooldownExpires`, `DayRollover` | clearUserSent after a purchase, the TTLs, UTC midnight |
| `BecomesDue`, `ExpireScan`, `RejectCheck`, `RejectWrite` | the clock, the scan's conditional UPDATE, the two halves of the admin reject |
| `Crash` | the replica of a call dies with its timers and its pending writes |

`Faults` says what may go wrong in an instance: `redis`, `db`, `kafka` and
`outbound` (a call to it throws or is refused), `stall` (a process is suspended
past the lock's TTL), `crash`. Every fault is a disjunct of the action it
strikes, with the code's own handling: fail-open, swallow, or the catch block.

`LockExpires` is where time is abstracted: with no `stall` and no `redis`
fault a lock whose heartbeat runs cannot expire, because 5 s renewals stand
against a TTL of 30 s. With either fault it may expire at any moment.

### 2.2 EvalQueue

| Variable | In the code |
|---|---|
| `queue`, `due` | members of `eval:queue`; those with a score of at most now |
| `fetched`, `horizon` | per tick: the result of ZRANGEBYSCORE; the members the `now` of that tick still covers, which ZREMRANGEBYSCORE will remove |
| `at` | where each runner's evaluation of each session is |
| `index` | `user_sessions:{userId}` |
| `purchase`, `read` | progress of `clearUserSessions`, the sids it read |
| `untracked` | history: sessions whose evaluation overlapped a purchase or failed to register |

A runner is a tick of a `SchedulerWorker` (`FetchDue`, `RemoveDue` or
`RemoveFails`, then `ReadContext` for each session it fetched) or a Kafka
message or trigger request (`Trigger`). `LeftOut` names what the page of a tick
has no room for and its second command removes all the same. Both go on with `RegisterSession` and
then `Schedule` or `SettleElse`. The clear after a purchase is three actions,
because the ZRANGE and the pipeline's commands are separate commands to Redis.

### 2.3 DecisionConsumer

One partition. `EachBatch` takes any prefix of what follows the member's
position; `NextMessage` takes the first of the most urgent messages left;
`MarkDone`, `HeartbeatThrows`, or, for a message with a `customer_id` and no string
`t` (`malformed`, chosen in the initial state), `HandlingThrows`; `LoopEnds` when nothing is left or the loop
breaks; `CommitOffsets` resolves the handled prefix and commits it or not.
`TakeOver`, `Reassign`, `Shutdown`, `ShutdownComplete`, `Crash` and `Start` are
the group and the process around it. KafkaJS and the broker are external and
modelled from how the code uses them:

- the offsets a batch resolves are a prefix of it; whether
  `commitOffsetsIfNecessary` commits them is left open;
- a commit of a member that lost the partition is refused by the broker;
- `eachBatchAutoResolve` is on (the code passes `autoCommit: false` only), so
  the fetcher moves past a batch whose loop broke early;
- a member joins only between two of its batches; the group has committed at
  least once (`subscribe(topic, false)` starts a group that never did at the
  end of the log).

### 2.4 Recommendations

`Insert`, `ZAdd` and `ExpireKey` are the three writes of `generate`; `gen` is
"unindexed" when one of the first two failed. An executor goes from `Enter`
(the read) through `IsSent`, `AcquireUserLock`, `CheckAndReserve`, `Dispatch`,
`MarkSent` and `MarkExecuted` to `ReleaseUserLock`, or through `MarkExpired` and
`MarkExpiredZRem`. Redis fails open in the first two, as in 2.1, and `attempt` is
what became of the last outbound request: `route` swallows one that failed, and the
row is marked executed all the same. An administrator is
`RejectCheck` and `RejectWrite`, an update by id alone. The scan of a replica is
`TakeScanLock`, `ListDue`, then `ExpireItem` and `PruneItem` per id, and
`EndScan`, which deletes whatever lock there is. `ScanLockExpires` may come in
the middle of a scan, so scans overlap. Time is counted in periods of the scan
(60 s); `keyExpires` is the TTL that `EXPIRE` gives the whole set, `EvictIndex`
its end.

### 2.5 Gateway (`src/apps/intervention-gateway/src/`)

`socketMap[p]` is the map entry of the session on pod p, `active` the key
`ws:active:{sid}`, `registry[p][i]` the resolver of payload i, `pending` the
slot. Every map is keyed by session, so the module is about one session.
`Open`, `Message`, `Ack` and `Close` are the WebSocket handlers; a close may
come long after the browser has left. A push is `Handle` (the local socket, or
none), `AckTimeout`, `LookUp` (`safeGet`), `Forwarded` on the other pod, which
makes it a request of its own there, `ForwardAnswered` or `ForwardFails` (500
ms), and `StorePending`. `Heartbeat` is the 30 s interval, `ActiveExpires` the
60 s TTL that it renews, `Poll` the GETDEL or the slot's TTL. A rejected SETEX
or DEL of `ws:active` is an unhandled rejection and ends the pod (`PodDies`).

### 2.6 Enrichment (`src/apps/enrichment-session/src/`)

Per member: `Poll` and `Recv`, then `WindowUpdate` (the Lua script: SETNX of the
marker, then the window), `Produce` with its retries, `SendToDlq`, and
`RecordProgress`, which stores the offset and commits what is stored when
`commit_interval_ms` has passed (`consumer.rs:110-122`): the client's own commits
are switched off (`rust-kafka_client` `lib.rs:148`).
`Duplicate` and `Reject` are the early ends. `Revoke`, `Learn` and `Assign` are
the group: a member goes on with its message until it learns that the partition
is gone. `lost` records what a Redis failure (`enricher.rs:34-39`) or a death
after the marker has given up; `SeenExpires` is the marker's TTL.

### 2.7 AnalyticsConsumer (`src/apps/analytics-consumer/src/consumer.ts`)

One replica, two partitions, and the two batchers that they share. `EachBatch`,
then per message `Reject`, `Duplicate`, `FalsePositive` (the Bloom filter takes a
new event for a known one) or `Buffer`, each with its `resolveOffset`; a full batcher leads to `Inserted` or `InsertFails` (and
`DeadLetters`), `CommitFlushed` or `CommitThrows`; `StopBreak`, `StaleBreak` and
`HeartbeatThrows` are the three ways out of the loop, `TimeFlush` its tail,
`AutoCommit` what KafkaJS does after it. `Shutdown`, `ResidualFlush` and
`ShutdownComplete` are `shutdown()`. `OtherMember` commits as the other replicas do,
perhaps a row they have only buffered: `elsewhere` keeps such messages, `mistaken`
those of `FalsePositive`. `discarded` records that a rollback, a drain
or a death has thrown rows away.

### 2.8 Ingestion (`src/apps/ingestion/src/`)

A request is `Track`, `CheckBloom`, `DropEvent` or `SendEvent` per event,
`ProduceOk` or `ProduceFails`, with the fallback also `InsertRow` (WAL) and `Push`
(buffer), then `RecordBloom` and `Respond`. `Cancel` is `TimeoutLayer`, which
drops the handler at any await. Flushes (the loop's, a full buffer's, a
replay's) are records in `flights`: `PutObject`, then `DeleteBatch`, or
`PutFails`. `Stop` is a death or a shutdown, which does not flush the buffer;
`Start` replays the WAL. Both configurations, with and without the fallback,
are initial states. The filter is exact, and the dead letters of dropped events,
which go through the same sink, are left out (section 7). The WAL is on whenever the fallback is (the default).

### 2.9 Cache (`src/packages/cache/src/`)

The key of one policy, experiment or customer, with the versions its table goes
through (`Publish`). `GetL1` and `GetL2` are `get`, `Load` is the computation of
`getOrCompute`, `SetL1` and `SetL2` its `set`, at most `Latency` ticks after the
load. L1 lives for its constructor's TTL, whatever the caller asks for; L2 hits
are not copied into it. A null value is stored and never a hit.

### 2.10 ConnectionPool (`src/packages/clickhouse_client/src/lib/ConnectionPoolManager.ts`)

The code runs on one thread, so an action goes from one await to the next:
`AcquireIdle`, `AcquireCreates` and `Created` or `CreationFails`, `AcquireWaits`
and `AcquireTimeout`; `ReleaseCloses`, `ReleaseHandsOver` to a waiter,
`ReleaseReturns`; a health check with `StartPing`, `PingEnds`, `RemoveBad` (the
splice), `CountDown` (after the disconnect) and `Replace`; `Shutdown`, which
rejects the waiters, and `PoolCloses`, after the disconnects. The awaits of
`recordPoolMetrics` are not steps of their own (section 7).

## 3. The runs

| Run | Instance | Properties |
|---|---|---|
| `shared_lock` | an execution and a manual call of one customer, a budget for one monetary offer; crashes, Kafka, PostgreSQL and delivery failures | `PhaseTwoHoldsLock`, `MutualExclusion`, `LaterCallsAreStopped`, `DispatchesWithinBudget`, `ImplementsGate` |
| `redis_outage` | the same two calls, no cost, Redis failing at any command, fair | `RecordsFollowDispatch`, `LockEventuallyFree`, `DispatchEventuallyRecorded` |
| `reevaluation_queue` | two sessions of one customer, pops of one session at most, two ticks, one event, Redis errors and crashes, fair | `QueuedIsIndexed`, `LeavesToBeEvaluated`, `QueuedIsReevaluated` |
| `priority_batches` | two replicas, four messages of ranks 2, 3, 2, 0, the third perhaps malformed, three disruptions, fair | `CommittedIsHandled`, `ImplementsDelivery`, `EveryMessageIsHandled` |
| `recommendation_life` | one recommendation, two executors, the scans of two replicas, one fault (a request, a command, a statement or a death), fair | `PrunedIsSettled`, `StatusIsEarned`, `ScanKeepsDecisions`, `OverdueIsSettled` |
| `gateway_push` | two pods, two sockets of a session, two pushes over two payloads, one forward; Redis fails, pods die, fair | `MappedSocketIsOpen`, `ResolverIsWaiting`, `AnsweredIsKept`, `PushIsAnswered`, `MappedSocketIsRouted` |
| `ingestion_fallback` | two requests over two events, a buffer of two, four faults, with and without the fallback | `AcceptedIsKept`, `SeenIsKept`, `DeletedIsUploaded`, `ImplementsDelivery` |
| `enrichment_group` | two members, four messages (an event, its copy, one that cannot be parsed, another event), two disruptions, fair | `PassedOverIsSettled`, `GroupOffsetAdvances`, `ImplementsDelivery`, `EveryMessageIsSettled` |
| `analytics_batches` | two partitions of two messages of three kinds, batches of two, two disruptions (a mistake of the filter is one) | `MarkedIsStored`, `ResolvedIsAccounted`, `OffsetsOnlyAdvance` |
| `two_level_cache` | two clients on one replica and one on another, three versions of which one is null, TTLs of two ticks, writes up to one tick late, fair | `BoundedStaleness`, `EventuallyFresh` |
| `connection_pool` | three clients, a pool of at most one, three connections over time, one health check, fair | `ExclusiveUse`, `LentIsHeld`, `CountIsPoolSize`, `AcquireIsAnswered` |
| `duplicate_send` | two manual calls of one customer, no faults | `OneInterventionPerEpisode`, violated (section 6) |

`PROJECT.json` says of each run what it shows. The type invariants are proved
(section 5) and not run again, nor are the inductive invariants of the proofs:
TLC checked them before they were proved. `CommitsOnlyAdvance` is proved and
follows from `ImplementsDelivery`, so it is not run either.

**Bounds.** What bounds a model is named in its constants.

- Two calls of one customer are enough for every two-party race on a lock, a
  marker or a row; calls of different customers share the budget only. A call
  runs once: a retry is a new call. The budget of one is exceeded by the second
  charge. With one customer the lock already keeps the two reservations apart, so
  this run shows the limit and midnight; replicas that reserve at once, for
  different customers, are the theorem's (`BudgetCoversDispatches`).
- In the queue, two sessions are the smallest set a purchase can split, two
  ticks the smallest overlap. `Limit = 1` stands for the 100-item cap: with both
  sessions due, a page leaves one out.
- In the decision consumer, four messages let an urgent message overtake others
  with a gap in front, a message without a priority included; the third may be malformed, so that the
  partition is blocked in half of the behaviours; three disruptions
  allow a takeover, a takeover back and a crash. In `Enrichment`, a copy needs
  a first and a second, and two disruptions let a member be replaced and its
  successor die. `MaxDisruptions` is also what makes the liveness properties of
  both meaningful: under endless takeovers nothing could be promised. In
  `AnalyticsConsumer` both partitions feed one batcher and one of them feeds a
  second one.
- In the gateway, two pods and one forward give a push that fails locally and
  one that is answered elsewhere; two payloads, a slot that is overwritten and
  a resolver that is taken over. `k1` connects to `p1` and `r1` carries `i1`,
  which names the two symmetric choices. `Hops = 1` bounds chains of forwards;
  the theorems have no such bound.
- In `Ingestion`, a full buffer (`BufferMax = 2`), a timed flush, a replay and
  a retried envelope all happen; four faults let Kafka, SQLite, S3 and the
  process fail in one run.
- In `Recommendations`, three periods of the scan cover an offer before, at and
  after its window, and the index's TTL of twice the window; the fault is a
  failed statement, Redis command or outbound request, a stalled heartbeat, or an
  executor or a scan that dies.
- In the cache, a tick is long enough for an L1 entry to die before or after
  the L2 entry it was written with; `Latency = 1` lets a write come after the
  next version. In the pool, three connections are a first, its replacement and
  one more.

**Symmetry** is used in `ingestion_fallback` (requests, events), which checks
safety only.

**Deadlock** checking is off, except in `two_level_cache`, whose clock never
stops: a queue with nothing due, a partition read to its end, calls that have
all returned or a pool that is closed are proper final states.

**Fairness.** No fairness is put on faults, purchases, administrators, browsers
or arrivals.

| Specification | Weak fairness of | Why the code justifies it |
|---|---|---|
| `FairSpec` | each call, the two steps of its un-awaited write, the TTL of a lock that no heartbeat renews | Node completes what a live process awaits; the requests have an abort signal, and the one that has none (off-shop notify) is bounded by undici's own 300 s; Redis enforces TTLs |
| `FairQueueSpec` | scores coming due, `FetchDue`, evaluations; strong fairness of `RemoveDue` | a pop tried every second for ever succeeds in the end |
| `FairConsumerSpec` | the batch loop, stopping, replacing an owner that is gone, restarting a replica | the loop is a promise chain; the rest is the group's and the platform's job |
| `FairEnrichmentSpec` | a member's work or its learning of a lost partition, restarting, some member being assigned | the same, for librdkafka |
| `FairRecSpec` | the steps of every scan, the TTL of the scan lock when no scan runs | `setInterval` every 60 s; a scan that dies leaves its lock to the 90 s TTL |
| `FairGatewaySpec` | the steps of a request, the heartbeat of every pod | every wait of a push has a timer (2 s, 500 ms); `setInterval` every 30 s |
| `FairCacheSpec` | the clock, the steps of a client | TTLs end; a load or a store ends |
| `FairPoolSpec` | the end of a creation, a waiter's timer | a connection attempt ends, by success or error |

**Mutants.** For every property of a passing run `PROJECT.json` names a mutant
of a mapped definition that TLC then finds to violate it: SET without NX, the
guard on the marker dropped, an interval that is not cleared, a second clock
reading in the pop, a batch resolved as a whole, a heartbeat that
renews a key without setting it, a failed upload that deletes its WAL rows, an
L2 hit copied to L1, a waiter
whose timer keeps it in the queue, and so on.

## 4. What the properties say

Decision engine:

- `PhaseTwoHoldsLock`, `MutualExclusion`, `ImplementsGate`: from five entry
  points and any number of replicas, one call per customer at a time, as long
  as Redis answers and no process stalls past the TTL. With either, the code
  does not promise it (fail-open; a lost lock does not stop the dispatch).
- `LaterCallsAreStopped`: the marker works for calls made after it was set,
  crashes included. The gap between the check and the lock is `duplicate_send`.
- `DispatchesWithinBudget`: nothing is dispatched uncharged, and today's
  charges never pass the limit, midnight included; for replicas that reserve at
  once, by the theorem rather than the run. That they do not pass it is
  said by giving each an interval of the budget of its own (`SideBySide`), which
  is possible exactly when their sum is within the limit. Without Redis errors only;
  they fail open.
- `RecordsFollowDispatch`: under every fault, a delivered row, an executed
  status, a marker or a cooldown follows an outbound request for that offer or
  customer. It says "request", not "delivery": the code marks an intervention
  delivered whether or not the request succeeded.
- `LockEventuallyFree`: although the catch block releases `lock:user:-1`, the
  interval is cleared there and the TTL frees the customer. A manual call that
  runs out of budget breaks it (section 6), so the instance has free offers.
- `DispatchEventuallyRecorded`: the un-awaited write does arrive.
- `LeavesToBeEvaluated`: the pop is two commands, yet no overlap of ticks,
  schedules and purchases loses a session between them; the shared `now` is what
  makes this so. The one way to lose a session is named: a full page leaves it out
  and the second command, which has no limit, removes it (section 6).
- `QueuedIsIndexed`: a purchase finds the customer's queued sessions, except
  those whose evaluation overlapped it (a decide in flight can put a session
  back after the purchase) or whose registration failed.
- `QueuedIsReevaluated`: a queued session is taken up again or cleared by a
  purchase, though pops fail and triggers keep moving its score, unless a full page
  leaves it out.
- `CommittedIsHandled`, `ImplementsDelivery`, `EveryMessageIsHandled`: handling
  by priority and resolving by offset lose nothing, wherever a batch breaks off
  and whoever takes over. "Handled" includes messages given to the DLQ. The one
  message that is never handled is one whose type is missing: it throws out of every
  batch that holds it, so that only what stands before it, in the log and by
  priority, is promised to get through (`AheadOfMalformed`; section 6). The refinement
  adds that commits only advance (`CommitsOnlyAdvance`).
- `PrunedIsSettled`, `StatusIsEarned`, `ScanKeepsDecisions`: every update but
  the scan's is by id alone, and the scan's lock may be anybody's; still an id
  leaves `pending:store` only after its row was settled, and a scan never writes
  over a decision. "Executed" means that an outbound request was made, not that it
  arrived, and "expired" that the time had come, under lost locks and fail-open
  too. What is not said: a dispatched offer may end as rejected (the admin's late
  update).
- `OverdueIsSettled`: scans that die or fail half way do not stop the next one.
  A recommendation that never reached the index is not covered (section 6).

Gateway:

- `MappedSocketIsOpen`: sending on a closed uWebSockets socket throws, and the
  close of an older socket comes when it likes.
- `ResolverIsWaiting`: two pushes of one payload share one registry entry; the
  later takes it, either may delete it, and no acknowledgement answers a push
  that has timed out.
- `AnsweredIsKept`: a 200 or a 202, from this pod or through forwards, means
  that the payload was shown or is in the slot, or left it by a poll, a newer
  push, its TTL or a refusal of Redis. It may be both shown and kept.
- `PushIsAnswered`, `MappedSocketIsRouted`: no push hangs; and although the
  late close of an older socket deletes the newer one's routing key, the key
  comes back or the socket goes.

The pipeline:

- `AcceptedIsKept`, `SeenIsKept`: whatever dies or is cancelled between the WAL
  row, the buffer and the upload, what a client was told is accepted is in
  Kafka, S3 or the WAL, and what a later copy is dropped for is, too. The
  exception, `unlogged`, is an event whose WAL insert failed: the code logs it
  and goes on.
- `DeletedIsUploaded`: a row leaves the WAL only when its event is in S3. The
  loop and full buffers may upload side by side; a replay runs alone, before the
  first request, and uploads again what an upload that never came to its delete
  has left.
- `PassedOverIsSettled`: the marker is set before the event is produced; a
  redelivery, a copy or an owner that goes on after a rebalance is dropped only
  when the event has been produced, dead-lettered, or is in somebody's hands.
  `lost` marks the two ways around it: Redis fails (the event is dropped), or a
  member dies between marker and produce.
- `GroupOffsetAdvances`, `EveryMessageIsSettled`: the same for offsets that are
  stored after each message and committed by the loop now and then, while a member
  that lost the partition still commits.
- `ImplementsDelivery` (of `Ingestion`, `Enrichment` and `DecisionConsumer`): the
  hop is an `AtLeastOnce`. Beyond the invariants it says that nothing becomes
  unsafe afterwards: an event does not leave the WAL before it is in S3, a
  marker that expires, a member that is replaced or an event that is enriched
  twice takes nothing back.
- `MarkedIsStored`: an insert that fails, retried or dead-lettered, never
  leaves a mark that would skip the row for ever. A false positive of the filter
  does skip a row (`mistaken`).
- `ResolvedIsAccounted`: the offset of a row is resolved when the row is
  buffered, so memory must account for it: failing flushes, heartbeats that
  throw and lost partitions drop nothing. Stops, stale batches and deaths do
  (`discarded`; section 6), false positives of the filter do (`mistaken`), and what
  another member has committed is that member's affair (`elsewhere`).

Packages:

- `BoundedStaleness`: what a level answers was current at most its own TTL and
  one slow write ago. The TTLs do not add up because an L2 hit is not copied
  into L1; the TODO at `cache.service.ts:372` would break it, and is its
  mutant. `EventuallyFresh`: no race leaves an old version for ever.
- `ExclusiveUse`, `LentIsHeld`, `CountIsPoolSize`, `AcquireIsAnswered`: time-outs
  that race hand-overs, checks that race lending, and a shutdown in the middle.
  `CountIsPoolSize` does not say that the pool stays within its maximum, which
  it may exceed (section 6).

## 5. The proofs

All theorems hold for any number of calls, customers, sessions, replicas,
messages, sockets, events, clients and connections, and use only the named
assumptions on the constants, which TLC evaluates in the runs. `Conns` and
`Checks` of the pool are finite sets.

| Module | Theorem | States | Further assumption |
|---|---|---|---|
| `DispatchProofs` | `TypeCorrect` | `[]TypeOK` | |
| | `LockIsHeld` | `[]PhaseTwoHoldsLock` | no `stall`, no `redis` in `Faults` |
| | `OneCallInPhaseTwo` | `[]MutualExclusion` | the same |
| | `PhaseTwoImplementsGate` | `ImplementsGate` | the same |
| | `RecordsAreTruthful` | `[]RecordsFollowDispatch` | none: every fault |
| | `MarkerStopsLaterCalls` | `[]LaterCallsAreStopped` | no `redis` |
| | `ChargesAlwaysFit` | `[]ChargesFit` (a part of `DispatchesWithinBudget`) | none: every fault |
| | `BudgetCoversDispatches` | `[]DispatchesWithinBudget` | no `redis` |
| `EvalQueueProofs` | `QueueTypeCorrect` | `[]QueueTypeOK` | |
| | `PurchaseReachesTheQueue` | `[]QueuedIsIndexed` | |
| | `DroppedOnlyByAFullPage` | `LeavesToBeEvaluated` | `Sessions` is finite |
| `DecisionConsumerProofs` | `ConsumerTypeCorrect` | `[]ConsumerTypeOK` | |
| | `NothingUnhandledIsCommitted` | `[]CommittedIsHandled` | |
| | `CommittedNeverMovesBack` | `CommitsOnlyAdvance` | |
| | `ConsumerImplementsDelivery` | `ImplementsDelivery` | |
| `RecommendationProofs` | `RecTypeCorrect` | `[]RecTypeOK` | |
| | `PruningIsSafe` | `[]PrunedIsSettled` | |
| | `StatusIsDeserved` | `[]StatusIsEarned` | |
| | `DecisionsAreKept` | `ScanKeepsDecisions` | |
| `DispatchProofs` | `GatewayTypeCorrect` | `[]GatewayTypeOK` | |
| | `MappedIsAlwaysOpen` | `[]MappedSocketIsOpen` | |
| | `ResolversAlwaysWait` | `[]ResolverIsWaiting` | |
| | `AnsweredIsAlwaysKept` | `[]AnsweredIsKept` | |
| `IngestionProofs` | `IngestionTypeCorrect` | `[]IngestionTypeOK` | |
| | `AcceptedIsAlwaysKept` | `[]AcceptedIsKept` | |
| | `SeenIsAlwaysKept` | `[]SeenIsKept` | |
| | `DeletedIsAlwaysUploaded` | `DeletedIsUploaded` | |
| | `IngestionImplementsDelivery` | `ImplementsDelivery` | |
| `EnrichmentProofs` | `EnrichmentTypeCorrect` | `[]EnrichmentTypeOK` | |
| | `PassedOverIsAlwaysSettled` | `[]PassedOverIsSettled` | |
| | `GroupOffsetNeverMovesBack` | `GroupOffsetAdvances` | |
| | `EnrichmentImplementsDelivery` | `ImplementsDelivery` | |
| `AnalyticsProofs` | `AnalyticsTypeCorrect` | `[]AnalyticsTypeOK` | |
| | `MarkedIsAlwaysStored` | `[]MarkedIsStored` | |
| | `ResolvedIsAlwaysAccounted` | `[]ResolvedIsAccounted` | |
| | `OffsetsNeverMoveBack` | `OffsetsOnlyAdvance` | |
| `PackageProofs` | `CacheTypeCorrect` | `[]CacheTypeOK` | |
| | `StalenessBounded` | `[]BoundedStaleness` | |
| | `PoolTypeCorrect` | `[]PoolTypeOK` | |
| | `UseIsExclusive` | `[]ExclusiveUse` | |
| | `LentIsAlwaysHeld` | `[]LentIsHeld` | |
| | `CountIsCorrect` | `[]CountIsPoolSize` | |

**Phase 2.** `PhaseTwoHoldsLock` is inductive together with `TypeOK`: an
acquire needs a free lock, a release or a renewal acts on one's own token, and
the TTL spares a lock whose heartbeat runs. Mutual exclusion follows because
two holders of one key would be the same token (`HoldingExcludes`), and the
refinement because the only way in is an acquire, at a moment when nobody of
that customer is inside (`StepsOfTheGate`; the mapping is the set of calls in
Phase 2 and the set of calls that ended). `RecordsFollowDispatch` needs
`AfterDispatch`: a call that is past its outbound request has attempted it.
`LaterCallsAreStopped` needs `LaterCallsInv`: whoever stands in a
marker, or was seen there, is past its own marking step and never marks again,
so what a call knew cannot come back to the marker after it was cleared.

**The budget.** A sum over a set cannot be reasoned about without an induction
over the set, so the property speaks of intervals. `BudgetInv`: the calls
charged today stand side by side below the counter, which is within the limit
(`ReservationsFit`). The script adds the new call on top of the others, where the
counter stood (`ReservationFits`); midnight empties both. A call that has not
reserved is not charged, so nobody is charged twice, and one that is past the
reservation is, if its offer costs anything and Redis answers. Without that
condition `ChargesAlwaysFit` remains: failing open overspends the day's budget,
but never its counter.

**The queue.** `QueuedIsIndexed` says nothing of an evaluation that has
registered and not yet scheduled, nor of a purchase that is half way. The
inductive `IndexInv` adds these: a settling session is indexed, or untracked
when a purchase is under way; what a purchase has not read is untracked; after
its removal, what is queued is untracked. `DroppedOnlyByAFullPage` rests on
`PageIsComplete` (a tick will remove nothing but what it has fetched, unless its page
is full; the cardinality lemma `FetchesPage`), `PoppingIsIdle` and `ReadIsOwn`.

**The consumer.** `CommittedIsHandled` depends on the member's position, which
`eachBatchAutoResolve` moves past unhandled messages. `ConsumerInv` shows why
this is safe: a loop breaks off only when its member is stale or shutting down
(`BreaksOnlyWhenGone`), such a member commits at most the handled prefix and
starts no further batch before it gets a fresh position from the committed
offset, so the position of an owner that may go on is trustworthy
(`PositionIsHandled`). With `BatchIsAccountedFor` and `DoneIsHandled` the
resolved prefix is handled (`ResolvedIsHandled`). The refinement needs one more
fact: an accepted commit is of the owner, whose position was never behind the
committed offset (`CommitStep`).

**Recommendations.** Every write of a row or of the index rests on something
read steps before. `RowInv` says what of it still holds: an id that anyone
knows has a row (`KnownIsInserted`), an id about to leave the index has a
settled row, because no update makes a row pending again (`PruningIsSettled`),
and a status about to be written has been earned, because time and requests made
do not go back (`WritingIsEarned`). `DecisionsAreKept` needs only who writes
rows (`WhoWritesRows`): the scan's UPDATE asks for `pending`.

**The gateway.** `AnsweredIsKept` goes through forwards: a forward that is
answered 200 answers its caller, so the two must carry the same payload
(`CallersAgree`), which needs that a request keeps its payload and its caller.
`MappedSocketIsOpen` and `ResolverIsWaiting` are inductive with the types and
with `RequestsAreSomewhere`: a resolver's registration and the push's state
change in one turn of the event loop.

**Ingestion.** `Safe(r, e)`: event e, which request r has dealt with, is kept,
or its WAL insert has failed. `HandledIsSafe` says it of what a handler has
sent or is about to push, and `NothingIsLost` that kept events stay kept: a row
leaves the WAL only by a flush whose upload succeeded (`FlightIsUploaded`).
Responses and the filter speak only of what handlers have sent
(`OnlyProducedIsTold`), and a response is the last a handler does
(`ResponsesAreLate`), which gives the refinement its `PassOver`.

**Enrichment.** The marker and the offset are each set at a moment of their own,
and members that lost the partition go on. What makes this safe is that being
safe is for ever (`SafeStays`): a held event is released only by being enriched,
dead-lettered or lost. So `EnrichmentInv` can say of every member, owner or not,
that what it has stored and all it fetched but the message in hand is safe
(`ProgressIsSafe`), and of every marker that its event is (`SeenIsSafe`). That the
group's offset does not move back needs that the owner's position was never
behind it (`OwnerIsAhead`), as a commit of anybody else is refused.

**Analytics.** `KnownStays`: a step that discards no rows loses none, since
a flush ends in ClickHouse or with the dead letters, whatever fails in it. `ResolvedIsAccounted`
speaks of partitions the replica has; one that leaves may come back with the
committed offset as its position, so `AnalyticsInv` also says it of committed
offsets (`CommittedIsAccounted`), and that the resolved offset is never behind
the committed one (`ResolvedIsAhead`). `FlushingIsStored` ties the mark to the
insert: a flush that is past its insert has its rows in ClickHouse.

**The cache.** What a client is about to write is as old as the time it has
taken, at most `Latency` (`WrittenIsRecent`), and a version that is not yet
superseded has age 0 (`UnsupersededIsZero`); a tick then ages the entry and its
version by one each.

**The pool.** `LendingInv` needs the queue: its members wait, each once
(`QueueIsWaiting`), so a hand-over gives the connection to a client that has
none (`HoldersAreLent`). `CountIsPoolSize` is a statement about cardinalities:
each step adds or removes one connection and moves the counter by one, the
check in two steps, which is why `Removing` is in it.

**Only model-checked.** Every liveness property (`LockEventuallyFree`,
`DispatchEventuallyRecorded`, `QueuedIsReevaluated`, `EveryMessageIsHandled`,
`OverdueIsSettled`, `PushIsAnswered`, `MappedSocketIsRouted`,
`EveryMessageIsSettled`, `EventuallyFresh`, `AcquireIsAnswered`): the prover
does not handle ENABLED. Every safety and action property that a passing run
checks is also a theorem, under the further assumptions of the table.

## 6. Where the code and its documentation disagree

**`duplicate_send`** is a run that TLC ends with a counterexample: two requests
read `sent:user` before either has the lock. The first acquires, sends, marks
and releases; the second then acquires and sends too.
`lock.service.ts:42-43,128-129` say that this is what the lock and the marker
prevent. Reading the marker again under the lock would.

Seen while modelling, without a run of its own. Where a model contains it, the
property that stops short of it is named in section 4.

Decision engine (`src/apps/decision-engine/src/`):

- A renewal that finds the lock lost is logged (`intervention.service.ts:244-248`)
  or dropped (386) and the dispatch goes ahead; `lock.service.ts:50-51,84` ask
  the caller to abort.
- `manualDecide` returns on an exhausted budget (`intervention.service.ts:393-395`)
  without clearing the interval or releasing; the lock is then renewed until the
  replica ends. `lock.service.ts:101` asks for a finally block.
- The discount code references an `interventions` row that is inserted later
  (`intervention.service.ts:267`), so the first execution of a monetary offer
  goes out without a code, though line 28 says it needs one.
- The pop removes every due member and returns at most 100
  (`scheduler.service.ts:42,46`); line 36 says "remaining items are processed in the
  next tick". `reevaluation_queue` contains it: `LeavesToBeEvaluated` without its
  third case fails there.
- EXPIRE gives a store's whole index twice the window of the last
  recommendation (`recommendation.service.ts:86`): under a shortened window
  older recommendations leave it before they are due.
- `intervention.service.ts:271,411` do not await `write()`, while
  `intervention.writer.ts:10,31` describe a write that precedes delivery.
- `decide()` (91-186) catches everything, so the consumer's DLQ path for a
  failed decision (`decision.consumer.ts:217-235`) is not reached.
- `outbound.service.ts:35-36` swallows failures and `markDelivered` runs all
  the same; `intervention.writer.ts:14,75` speak of confirmed delivery. The
  engine aborts after 100 ms, the gateway waits 2 s for an acknowledgement.
- A purchase does not clear the cooldown, though `decision.consumer.ts:198-199`
  says a repeat buyer starts "without triggering cooldown blocks";
  `CooldownService.clearCooldown` has no caller.
- `BudgetService.reconcile` has no caller: `daily_budget` is not written here.
  A reserved budget is not given back when a later step fails.
- `markExecuted`, `markExpired` and the admin reject update by id alone, and a
  dispatched recommendation can end as rejected or expired. `markApproved` has
  no caller.
- The fallback ladder is for "Redis unavailable, ClickHouse down, model not
  loaded" (`rules.service.ts:112-113`), but `score()` never gets there on any of
  these: registration, inference, aggregation and features each catch their own
  failure and answer with a default. Were it reached, it would choose an e-mail
  without asking for the consent that `evaluate()` asks for.
- A crash between the INSERT (`recommendation.service.ts:80`) and the ZADD (84)
  leaves a recommendation that the expiry scan never sees.
- A crash after the pop's second command loses the popped sessions; two
  replicas may pop the same session and decide it twice
  (`scheduler.service.ts:44-45` accepts this).
- A critical purchase overtakes an earlier exit intent of its batch, which is
  then decided after the purchase cleared the customer's state.
- A DLQ send that fails is swallowed (`decision.consumer.ts:119-121`).
- A message with a `customer_id` and no string `t` throws in `canonicalEventType`
  (`decision.consumer.ts:200,209`), which nothing catches: the batch is delivered
  again for ever, and nothing behind it is handled. The class comment says "DLQ on
  persistent failure". The repository's own producer always sends a type (`rust-shared-types` `lib.rs:150`).
- `commitOffsetsIfNecessary` (258) without `autoCommitInterval` or
  `autoCommitThreshold` may not commit at all in KafkaJS.

Gateway (`src/apps/intervention-gateway/src/`):

- The late close of an older socket (`server.ts:122`) takes the newer socket's
  key along; until a heartbeat, other pods store what they could have pushed.
- A forward gives up after 500 ms and the remote pod waits 2 s for the
  acknowledgement: a payload may be shown and stored as pending.
- One pending slot per session: a newer push overwrites an older one.

Pipeline:

- ingestion: a failed upload has already emptied the buffer (`s3.rs:203`), and
  only a restart replays the WAL; `S3Sink.send` always answers Ok, so the path
  for a failure of both sinks is not reached; a shutdown does not flush the
  buffer; an event may be answered Ok when it is in the buffer only (its WAL
  insert failed), where the type's comment says "persisted to Kafka". The older
  `is_duplicate` (`pipeline.rs:416`) marks before it sends, so an event answered
  "retry" is dropped as a duplicate when it comes again.
- enrichment: `enricher.rs:34-39` drops an event when Redis fails, while "enrichment
  service v2.md":168 promises retry and DLQ; the Bloom filter and PostgreSQL
  table which that document describes do not exist; a shutdown is not seen
  while `recv` waits (`consumer.rs:100,104`).
- analytics: KafkaJS auto-commits resolved offsets of rows that are only
  buffered (`consumer.ts:376`), while "Analytics Consumer.md":51,55 commits after
  the insert; a false positive of the Bloom filter skips a row that is stored nowhere
  (333-341); a rollback at shutdown (287) throws away rows whose offsets are
  resolved; no timer flushes a buffer once traffic stops (389).

Packages:

- cache: the comment of `getOrCompute` ("preventing cache stampede", about 637)
  is not what it does: concurrent misses all compute. A null value is stored
  and never a hit, and an older non-null L2 entry may be served behind a null
  in L1. L1 ignores a caller's TTL. `PolicyService` and `ExperimentService`
  `.invalidate` have no caller and would reach one replica's L1. An evicted
  entry stays in `MemoryCache`'s memory tracker (248, 304), so that every store
  is refused in the end.
- connection pool: the limit is tested before the creation is awaited (554), so
  the pool may exceed its maximum; a check may remove a connection that was
  lent during its ping; replacements are added idle and pass waiters by; a
  check in flight at a shutdown creates connections in a closed pool that
  nobody closes; a creation that fails during a shutdown queues a waiter until
  its timer; a metrics collector that rejects between 623 and 628 would leave a
  waiter, whose timer is cleared, without an answer. No application uses the pool.
- notification-service: answers 202 before it dispatches (`main.ts:77`), and a
  shutdown does not wait for dispatches; `retry.interceptor.ts` makes four
  attempts where its comment says three (9, 27).

## 7. What is not modelled

Components marked `not_modelled` or `partly` in `PROJECT.json`, with the
reasons there. Within the modelled ones:

- Phase 2: the choice of type, channel and value (data); contents of rows
  and messages; `decide()` before `executeRecommendation`, which is in
  `EvalQueue` as far as it changes state. A manual call's intervention id hashes
  session, customer and millisecond: the model gives every manual call an id of
  its own, two requests for one session in the same millisecond aside.
  `BudgetService.checkAvailable` is a peek that the later reservation repeats.
- The queue's scores, 30 s to 5 min, are ahead or due. A pop whose second command was
  applied and whose answer was lost is, in its effect, a crash right after it. `user_sessions` entries
  expire after 30 min; the model assumes that the workers are not all down for
  that long. Purchases of one customer are handled one at a time, as they share
  a partition.
- The stale-session scan: the set it reads, `active:sessions`, is written
  nowhere in the repository.
- Consumers: what handling a message does, and the internals of KafkaJS and
  librdkafka. `max.poll.records` (`rust-kafka_client` `lib.rs:426`) is not a
  librdkafka property. The window counters of the enrichment script are data.
- Ingestion: parsing, validation, quotas and rate limits decide whether an
  event is dropped and nothing else; they are the outcome `DropEvent`. The dead
  letter of a dropped event (invalid, too big) takes the same sink and may reach
  the WAL and the S3 buffer: its fate is not looked at, and in the buffer it only
  brings a flush forward. False positives of the filter, which would drop an event
  as a duplicate, are left out.
- The pool: the awaits of `recordPoolMetrics` (`ConnectionPoolManager.ts:549,562,627`).
  They come after the connection is marked as lent and the waiter is out of the
  queue with its timer cleared, so no other step sees a difference between a
  connection on its way and one that has arrived. They could make one by failing; the
  repository's collector catches its errors (`PrometheusMetricsCollector.ts`), so
  the models, the runs and the proofs assume that they do not.
- The cache's bulk reads, warming, compression, statistics, and its lock and
  coherency managers, which no service uses (a cleanup in
  `CacheOperationLockManager`, 147, deletes the lock of a running operation,
  whose `finally`, 79, then deletes its successor's).
- `ClickHouseClient`: queries and batches are single requests; its `disconnect`
  returns early because `isConnected` is never set.
- `executeWithRetry.ts` and the circuit breakers wrap one request each: the
  models take the outcome of the wrapped call. Scoring and policy are
  sequential arithmetic. The notification service handles one request in one
  sequential loop.
- The frontend, schemas, logging, metrics, deployment files and scripts, which
  are most of the repository's lines, hold no protocol state.

## 8. Plan

Done: Phase 2, the queue, the consumer, the recommendation lifecycle, the
gateway, enrichment, ingestion, analytics, the cache and the pool, with proofs
of every safety property of each.

Open, in order:

1. `Engine`: consumer, queue and Phase 2 in one specification, for what crosses
   them (a purchase that overtakes, a trigger that decides an event twice).
2. An abstract delivery (an intervention is shown or pending) that `Gateway`
   implements, and the composition of a forward with the engine's 100 ms abort.
3. `Notification` (attempts, log, DLQ, shutdown after the 202) and `Retry`
   (half-open breaker).
4. `Scoring`: the fallback ladder, thresholds and merge as operators against
   reference definitions.

The project keeps a small number of runs, each for a distinct question; a new
module takes the instance of a run it subsumes.
