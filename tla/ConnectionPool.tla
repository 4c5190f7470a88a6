----------------------------- MODULE ConnectionPool -----------------------------
(***************************************************************************)
(* ClickHouseConnectionPoolManager: clients acquire and release            *)
(* connections, health checks replace the ones that do not answer, and a   *)
(* shutdown closes the pool.  One thread runs all of it; a step ends where *)
(* the code awaits a ping, a disconnect or the creation of a connection.   *)
(* A connection is lent (checkedOut), in the pool, both or neither: one    *)
(* may be taken out of the pool while a client still uses it.              *)
(*                                                                         *)
(* The awaits of recordPoolMetrics (549, 562, 627) are not steps of their  *)
(* own: the connection is marked as lent and the waiter out of the queue,  *)
(* its timer cleared, so that no other step can tell a client whose        *)
(* connection is on its way from one that holds it.  That they end without *)
(* an error is an assumption: PrometheusMetricsCollector catches its own.  *)
(***************************************************************************)
EXTENDS Integers, FiniteSets, SequencesExt

CONSTANTS Conns, Callers, Checks, NoConn,
  MinConnections, MaxConnections

ASSUME PoolAssumption ==
  /\ IsFiniteSet(Conns) /\ IsFiniteSet(Checks) /\ NoConn \notin Conns
  /\ MinConnections \in Nat /\ MaxConnections \in Nat

VARIABLES
  phase,        \* "open", "closing" once isShuttingDown is set, "closed"
  pool, lent,   \* connections in the pool, connections checked out
  count,        \* activeConnections
  step, held,   \* client -> its step and its connection
  pending,      \* pendingAcquires, each with its timer
  old,          \* the array a check goes on with after the shutdown
  hpc,          \* health check -> its step
  ping, seen,   \* health check -> the connection it pings, those it has pinged
  bad, found,   \* health check -> the ones to remove, how many there were
  todo          \* health check -> connections it has yet to create

lending == <<pool, lent, count, step, held>>
checking == <<hpc, ping, seen, bad, found, todo>>
poolVars == <<phase, lending, pending, old, checking>>

PoolTypeOK ==
  /\ phase \in {"open", "closing", "closed"}
  /\ pool \subseteq Conns /\ lent \subseteq Conns /\ old \subseteq Conns
  /\ count \in Int
  /\ step \in [Callers -> {"idle", "creating", "waiting", "holding"}]
  /\ held \in [Callers -> Conns \union {NoConn}]
  /\ pending \in Seq(Callers)
  /\ hpc \in [Checks -> {"idle", "ping", "remove", "decrement", "create"}]
  /\ ping \in [Checks -> Conns \union {NoConn}]
  /\ seen \in [Checks -> SUBSET Conns] /\ bad \in [Checks -> SUBSET Conns]
  /\ found \in [Checks -> Nat] /\ todo \in [Checks -> Int]

\* An object nobody refers to: the next connection to be created.
Fresh(k) ==
  /\ k \notin pool \union lent \union old
  /\ \A c \in Callers : held[c] # k
  /\ \A h \in Checks : ping[h] # k /\ k \notin bad[h] \union seen[h]

\* initialize(): a creation that fails is logged and passed over.
PoolInit ==
  /\ phase = "open"
  /\ pool \in {s \in SUBSET Conns : Cardinality(s) <= MinConnections}
  /\ lent = {} /\ old = {}
  /\ count = Cardinality(pool)
  /\ step = [c \in Callers |-> "idle"]
  /\ held = [c \in Callers |-> NoConn]
  /\ pending = <<>>
  /\ hpc = [h \in Checks |-> "idle"]
  /\ ping = [h \in Checks |-> NoConn]
  /\ seen = [h \in Checks |-> {}]
  /\ bad = [h \in Checks |-> {}]
  /\ found = [h \in Checks |-> 0]
  /\ todo = [h \in Checks |-> 0]

--------------------------------------------------------------------------------
\* Callers: acquireConnection() and releaseConnection().

Healthy(k) == \A h \in Checks : k \notin bad[h]
Idle == {k \in pool \ lent : Healthy(k)}

Holds(c, k) ==
  /\ held' = [held EXCEPT ![c] = k]
  /\ step' = [step EXCEPT ![c] = "holding"]

AcquireIdle(c) ==
  /\ step[c] = "idle" /\ phase = "open"
  /\ \E k \in Idle :
       /\ lent' = lent \union {k}
       /\ Holds(c, k)
  /\ UNCHANGED <<phase, pool, count, pending, old, checking>>

\* The limit is tested before the await of the ping, and not after it.
AcquireCreates(c) ==
  /\ step[c] = "idle" /\ phase = "open" /\ Idle = {} /\ count < MaxConnections
  /\ step' = [step EXCEPT ![c] = "creating"]
  /\ UNCHANGED <<phase, pool, lent, count, held, pending, old, checking>>

(* Mutant: the new connection joins the pool before it is checked out. *)
CreatedIsNotLent(c) ==
  /\ step[c] = "creating"
  /\ \E k \in Conns :
       /\ Fresh(k)
       /\ pool' = pool \union {k}
       /\ Holds(c, k)
  /\ count' = count + 1
  /\ UNCHANGED <<phase, lent, pending, old, checking>>

Created(c) ==
  /\ step[c] = "creating"
  /\ \E k \in Conns :
       /\ Fresh(k)
       /\ pool' = pool \union {k}
       /\ lent' = lent \union {k}
       /\ Holds(c, k)
  /\ count' = count + 1
  /\ UNCHANGED <<phase, pending, old, checking>>

Queue(c) ==
  /\ pending' = Append(pending, c)
  /\ step' = [step EXCEPT ![c] = "waiting"]
  /\ UNCHANGED <<phase, pool, lent, count, held, old, checking>>

AcquireWaits(c) ==
  /\ step[c] = "idle" /\ phase = "open" /\ Idle = {} /\ count >= MaxConnections
  /\ Queue(c)

\* Even after a shutdown: this waiter is answered by its timeout only.
CreationFails(c) == step[c] = "creating" /\ Queue(c)

(* Mutant: the timeout rejects but leaves its entry in the queue. *)
TimeoutKeepsEntry(c) ==
  /\ \E i \in DOMAIN pending : pending[i] = c
  /\ step[c] = "waiting"
  /\ step' = [step EXCEPT ![c] = "idle"]
  /\ UNCHANGED <<phase, pool, lent, count, held, pending, old, checking>>

AcquireTimeout(c) ==
  /\ \E i \in DOMAIN pending :
       /\ pending[i] = c
       /\ pending' = RemoveAt(pending, i)
  /\ step' = [step EXCEPT ![c] = "idle"]
  /\ UNCHANGED <<phase, pool, lent, count, held, old, checking>>

(* Mutant: every closed connection is counted down. *)
RemoveAlways(k) == pool' = pool \ {k} /\ count' = count - 1

\* removeConnectionFromPool(): only what is still in the pool is counted down.
RemoveFromPool(k) ==
  /\ pool' = pool \ {k}
  /\ count' = IF k \in pool THEN count - 1 ELSE count

Returns(c) ==
  /\ step[c] = "holding"
  /\ held' = [held EXCEPT ![c] = NoConn]
  /\ step' = [step EXCEPT ![c] = "idle"]

ReleaseCloses(c) ==
  /\ phase # "open"
  /\ Returns(c)
  /\ lent' = lent \ {held[c]}
  /\ RemoveFromPool(held[c])
  /\ UNCHANGED <<phase, pending, old, checking>>

\* To the client that waits longest, whatever became of the connection.
ReleaseHandsOver(c) ==
  /\ step[c] = "holding" /\ phase = "open" /\ pending # <<>>
  /\ held' = [held EXCEPT ![c] = NoConn, ![Head(pending)] = held[c]]
  /\ step' = [step EXCEPT ![c] = "idle", ![Head(pending)] = "holding"]
  /\ pending' = Tail(pending)
  /\ UNCHANGED <<phase, pool, lent, count, old, checking>>

\* The pool keeps what was used recently, and more than its minimum not longer.
ReleaseReturns(c) ==
  /\ phase = "open" /\ pending = <<>>
  /\ Returns(c)
  /\ lent' = lent \ {held[c]}
  /\ \/ UNCHANGED <<pool, count>>
     \/ Cardinality(pool) >= MinConnections /\ RemoveFromPool(held[c])
  /\ UNCHANGED <<phase, pending, old, checking>>

--------------------------------------------------------------------------------
\* performHealthChecks(); a run that lasts longer than the interval overlaps
\* with the next.

StartCheck(h) ==
  /\ hpc[h] = "idle" /\ phase = "open"
  /\ hpc' = [hpc EXCEPT ![h] = "ping"]
  /\ UNCHANGED <<phase, lending, pending, old, ping, seen, bad, found, todo>>

\* The loop is over the live array.
StartPing(h) ==
  /\ hpc[h] = "ping" /\ ping[h] = NoConn
  /\ \E k \in (IF phase = "closed" THEN old ELSE pool) \ (lent \union seen[h]) :
       /\ ping' = [ping EXCEPT ![h] = k]
       /\ seen' = [seen EXCEPT ![h] = @ \union {k}]
  /\ UNCHANGED <<phase, lending, pending, old, hpc, bad, found, todo>>

\* The connection may have been lent, returned or removed meanwhile.
PingEnds(h) ==
  /\ ping[h] # NoConn
  /\ bad' \in {bad, [bad EXCEPT ![h] = @ \union {ping[h]}]}
  /\ ping' = [ping EXCEPT ![h] = NoConn]
  /\ UNCHANGED <<phase, lending, pending, old, hpc, seen, found, todo>>

\* The loop may miss an element that a removal has shifted.
EndPings(h) ==
  /\ hpc[h] = "ping" /\ ping[h] = NoConn
  /\ hpc' = [hpc EXCEPT ![h] = "remove"]
  /\ seen' = [seen EXCEPT ![h] = {}]
  /\ found' = [found EXCEPT ![h] = Cardinality(bad[h])]
  /\ UNCHANGED <<phase, lending, pending, old, ping, bad, todo>>

\* Taken out of the pool, counted down when its disconnect() has ended.
RemoveBad(h) ==
  /\ hpc[h] = "remove"
  /\ \E k \in bad[h] :
       /\ bad' = [bad EXCEPT ![h] = @ \ {k}]
       /\ pool' = pool \ {k}
       /\ hpc' = [hpc EXCEPT ![h] = IF k \in pool THEN "decrement" ELSE "remove"]
  /\ UNCHANGED <<phase, lent, count, step, held, pending, old, ping, seen, found, todo>>

CountDown(h) ==
  /\ hpc[h] = "decrement"
  /\ count' = count - 1
  /\ hpc' = [hpc EXCEPT ![h] = "remove"]
  /\ UNCHANGED <<phase, pool, lent, step, held, pending, old, ping, seen, bad, found, todo>>

PlanReplacements(h) ==
  /\ hpc[h] = "remove" /\ bad[h] = {}
  /\ hpc' = [hpc EXCEPT ![h] = "create"]
  /\ todo' = [todo EXCEPT ![h] =
       IF found[h] <= MaxConnections - count THEN found[h] ELSE MaxConnections - count]
  /\ found' = [found EXCEPT ![h] = 0]
  /\ UNCHANGED <<phase, lending, pending, old, ping, seen, bad>>

\* A replacement joins the pool idle, whoever waits; no flag stops it.
Replace(h) ==
  /\ hpc[h] = "create" /\ todo[h] > 0
  /\ todo' = [todo EXCEPT ![h] = @ - 1]
  /\ \/ \E k \in Conns :
          /\ Fresh(k)
          /\ pool' = pool \union {k} /\ count' = count + 1
     \/ UNCHANGED <<pool, count>>
  /\ UNCHANGED <<phase, lent, step, held, pending, old, hpc, ping, seen, bad, found>>

EndCheck(h) ==
  /\ hpc[h] = "create" /\ todo[h] <= 0
  /\ hpc' = [hpc EXCEPT ![h] = "idle"]
  /\ todo' = [todo EXCEPT ![h] = 0]
  /\ UNCHANGED <<phase, lending, pending, old, ping, seen, bad, found>>

--------------------------------------------------------------------------------
\* shutdown()

(* Mutant: the queue is emptied without an answer to those in it. *)
ShutdownDropsQueue ==
  /\ phase = "open"
  /\ phase' = "closing"
  /\ pending' = <<>>
  /\ UNCHANGED <<lending, old, checking>>

Shutdown ==
  /\ phase = "open"
  /\ phase' = "closing"
  /\ step' = [c \in Callers |-> IF \E i \in DOMAIN pending : pending[i] = c THEN "idle" ELSE step[c]]
  /\ pending' = <<>>
  /\ UNCHANGED <<pool, lent, count, held, old, checking>>

\* Once all have been disconnected, those that clients still hold included.
PoolCloses ==
  /\ phase = "closing"
  /\ phase' = "closed"
  /\ old' = IF \E h \in Checks : hpc[h] = "ping" THEN pool ELSE {}
  /\ pool' = {} /\ count' = 0
  /\ UNCHANGED <<lent, step, held, pending, checking>>

ClientNext(c) ==
  \/ AcquireIdle(c) \/ AcquireCreates(c) \/ AcquireWaits(c)
  \/ Created(c) \/ CreationFails(c) \/ AcquireTimeout(c)
  \/ ReleaseCloses(c) \/ ReleaseHandsOver(c) \/ ReleaseReturns(c)

CheckNext(h) ==
  \/ StartCheck(h) \/ StartPing(h) \/ PingEnds(h) \/ EndPings(h)
  \/ RemoveBad(h) \/ CountDown(h) \/ PlanReplacements(h) \/ Replace(h) \/ EndCheck(h)

PoolNext ==
  \/ \E c \in Callers : ClientNext(c)
  \/ \E h \in Checks : CheckNext(h)
  \/ Shutdown \/ PoolCloses

PoolSpec == PoolInit /\ [][PoolNext]_poolVars

\* A creation ends (its pings are limited) and the timer of a waiter fires.
FairPoolSpec ==
  /\ PoolSpec
  /\ \A c \in Callers :
       WF_poolVars(Created(c) \/ CreationFails(c)) /\ WF_poolVars(AcquireTimeout(c))

--------------------------------------------------------------------------------
(***************************************************************************)
(* No two clients use one connection, although a connection changes hands  *)
(* directly, is created for one client beside another, is pinged by a      *)
(* check while it is lent, and leaves the pool while it is in use.         *)
(***************************************************************************)
ExclusiveUse ==
  \A c, d \in Callers : held[c] = held[d] /\ held[c] # NoConn => c = d

(***************************************************************************)
(* A connection of the pool that is marked as checked out is in the hands  *)
(* of a client: none is lost to a waiter whose timeout has fired, to a     *)
(* shutdown or to a check that ran meanwhile.                              *)
(***************************************************************************)
LentIsHeld == \A k \in pool \intersect lent : \E c \in Callers : held[c] = k

(***************************************************************************)
(* Until the pool is closed, activeConnections, which the limit is tested  *)
(* against, is the size of the pool and of what a check is disconnecting:  *)
(* a connection removed by a check and by its release is counted once.     *)
(***************************************************************************)
Removing == {h \in Checks : hpc[h] = "decrement"}
CountIsPoolSize ==
  phase # "closed" => count = Cardinality(pool) + Cardinality(Removing)

(***************************************************************************)
(* A client that asked for a connection gets one or an error, also when    *)
(* the shutdown begins while it waits or while its connection is created.  *)
(***************************************************************************)
AcquireIsAnswered ==
  \A c \in Callers : (step[c] \in {"creating", "waiting"}) ~> (step[c] \in {"idle", "holding"})
================================================================================
