------------------------------ MODULE EvalQueue ------------------------------
(***************************************************************************)
(* The re-evaluation queue of the decision engine: the sorted set          *)
(* eval:queue, the SchedulerWorker that pops it every second on every      *)
(* replica, the evaluations (decide) that put sessions back, and the       *)
(* purchases that take a customer's sessions out.                          *)
(*                                                                         *)
(* A score of the sorted set is abstracted to "still ahead" or "due".  A   *)
(* tick is one run of SchedulerWorker.tick: setInterval starts one each    *)
(* second on each replica whether or not the last has ended (withTimeout   *)
(* gives up waiting for a session, it stops nothing), so ticks overlap;    *)
(* the instance bounds how many do.                                        *)
(***************************************************************************)
EXTENDS Naturals, FiniteSets

CONSTANTS
  Ticks,       \* ticks that may be under way at once
  Consumers,   \* Kafka partitions and trigger requests being handled at once
  Sessions,    \* sids
  Users,       \* customer ids
  UserOf,      \* the customer of each session
  Limit,       \* LIMIT of popDue's ZRANGEBYSCORE: 100 in the code
  Faults       \* what may go wrong in this instance

Runners == Ticks \cup Consumers
SessionsOf(u) == {s \in Sessions : UserOf[s] = u}

ASSUME QueueConstantsOK ==
  /\ Ticks \cap Consumers = {}
  /\ UserOf \in [Sessions -> Users]
  /\ Limit \in Nat \ {0}
  /\ Faults \subseteq {"redis", "crash"}

VARIABLES
  queue,      \* members of eval:queue
  due,        \* those with score <= Date.now()
  fetched,    \* what each tick's ZRANGEBYSCORE returned, while it is popping
  horizon,    \* members whose score is within the `now` of a popping tick
  at,         \* where each runner's evaluation of each session is
  index,      \* members of the customers' user_sessions
  purchase,   \* how far clearUserSessions is for each customer
  read,       \* the sids it read from user_sessions
  untracked   \* sessions whose last evaluation a purchase could not see: it
              \*   overlapped the purchase, or failed to register

vars == <<queue, due, fetched, horizon, at, index, purchase, read, untracked>>
clearing == <<purchase, read>>

(* "context": on the way to registerSession; "settle": registered, about   *)
(* to score and schedule.                                                  *)
Stages == {"idle", "context", "settle"}

QueueTypeOK ==
  /\ queue \subseteq Sessions
  /\ due \subseteq queue
  /\ fetched \in [Ticks -> SUBSET Sessions]
  /\ horizon \in [Ticks -> SUBSET due]
  /\ at \in [Runners -> [Sessions -> Stages]]
  /\ index \subseteq Sessions
  /\ purchase \in [Users -> {"idle", "zrem", "del"}]
  /\ read \in [Users -> SUBSET Sessions]
  /\ untracked \subseteq Sessions

QueueInit ==
  /\ queue = {} /\ due = {}
  /\ fetched = [t \in Ticks |-> {}]
  /\ horizon = [t \in Ticks |-> {}]
  /\ at = [r \in Runners |-> [s \in Sessions |-> "idle"]]
  /\ index = {}
  /\ purchase = [u \in Users |-> "idle"]
  /\ read = [u \in Users |-> {}]
  /\ untracked = {}

May(f) == f \in Faults
Idle(r) == \A s \in Sessions : at[r][s] = "idle"
Goto(r, s, stage) == at' = [at EXCEPT ![r][s] = stage]

(* A member taken out or given a new score is no longer due, nor within    *)
(* the score range of a tick that read the clock before.                   *)
NoLongerDue(S) ==
  /\ due' = due \ S
  /\ horizon' = [t \in Ticks |-> horizon[t] \ S]

-----------------------------------------------------------------------------
(* popDue: two commands with the same `now`.                                *)

(* Mutant: a pop waits until more than a page is due. *)
FetchFullBatch(t) ==
  /\ fetched[t] = {} /\ Idle(t)
  /\ Cardinality(due) > Limit
  /\ \E S \in SUBSET due : Cardinality(S) = Limit /\ fetched' = [fetched EXCEPT ![t] = S]
  /\ horizon' = [horizon EXCEPT ![t] = due]
  /\ UNCHANGED <<queue, due, at, index, clearing, untracked>>

(* ZRANGEBYSCORE 0 now LIMIT 0 100: at most Limit of the due members. *)
FetchDue(t) ==
  /\ fetched[t] = {} /\ Idle(t)
  /\ due # {}
  /\ \E S \in SUBSET due :
       /\ Cardinality(S) = IF Cardinality(due) < Limit THEN Cardinality(due) ELSE Limit
       /\ fetched' = [fetched EXCEPT ![t] = S]
  /\ horizon' = [horizon EXCEPT ![t] = due]
  /\ UNCHANGED <<queue, due, at, index, clearing, untracked>>

PopDone(t) ==
  /\ fetched[t] # {}
  /\ fetched' = [fetched EXCEPT ![t] = {}]
  /\ UNCHANGED <<index, clearing, untracked>>

(* Mutant: the second command reads the clock again. *)
RemoveWithLaterNow(t) ==
  /\ PopDone(t)
  /\ queue' = queue \ due
  /\ NoLongerDue(due)
  /\ at' = [at EXCEPT ![t] = [s \in Sessions |->
                                IF s \in fetched[t] THEN "context" ELSE "idle"]]

(* ZREMRANGEBYSCORE 0 now has no limit: it removes every member in range.  *)
(* The tick then starts processSession for the members it fetched.         *)
RemoveDue(t) ==
  /\ PopDone(t)
  /\ queue' = queue \ horizon[t]
  /\ due' = due \ horizon[t]
  /\ horizon' = [x \in Ticks |-> IF x = t THEN {} ELSE horizon[x] \ horizon[t]]
  /\ at' = [at EXCEPT ![t] = [s \in Sessions |->
                                IF s \in fetched[t] THEN "context" ELSE "idle"]]

(* The second command throws: popDue returns [] and removes nothing.  When *)
(* it was applied and only its answer is lost, what is left is what Crash  *)
(* leaves right after RemoveDue.                                           *)
RemoveFails(t) ==
  /\ May("redis")
  /\ PopDone(t)
  /\ horizon' = [horizon EXCEPT ![t] = {}]
  /\ UNCHANGED <<queue, due, at>>

-----------------------------------------------------------------------------
(* Evaluations.                                                             *)

(* A trigger event reaches decide() from Kafka or from POST /trigger. *)
Trigger(c, s) ==
  /\ Idle(c)
  /\ Goto(c, s, "context")
  /\ UNCHANGED <<queue, due, fetched, horizon, index, clearing, untracked>>

(* processSession, then decide() up to registerSession.  A session hash    *)
(* that is gone, a customer who is not resolved or on cooldown, or a       *)
(* policy that cannot be read, ends it before.  A failed pipeline is not   *)
(* fatal.                                                                  *)
RegisterSession(r, s) ==
  /\ at[r][s] = "context"
  /\ \/ Goto(r, s, "idle") /\ UNCHANGED <<index, untracked>>
     \/ /\ Goto(r, s, "settle")
        /\ index' = index \cup {s}
        /\ untracked' = IF purchase[UserOf[s]] = "idle" THEN untracked \ {s}
                                                       ELSE untracked \cup {s}
     \/ /\ May("redis")
        /\ Goto(r, s, "settle")
        /\ untracked' = untracked \cup {s}
        /\ UNCHANGED index
  /\ UNCHANGED <<queue, due, fetched, horizon, clearing>>

(* The score is below the threshold: schedule() gives the member a score   *)
(* at least 30 s ahead, whether or not it was in the queue.  A ZADD that   *)
(* fails is not fatal.                                                     *)
Schedule(r, s) ==
  /\ at[r][s] = "settle"
  /\ Goto(r, s, "idle")
  /\ \/ queue' = queue \cup {s} /\ NoLongerDue({s})
     \/ May("redis") /\ UNCHANGED <<queue, due, horizon>>
  /\ UNCHANGED <<fetched, index, clearing, untracked>>

(* The rules gate the session out, or a recommendation is generated: in    *)
(* either case nothing puts it back.                                       *)
SettleElse(r, s) ==
  /\ at[r][s] = "settle"
  /\ Goto(r, s, "idle")
  /\ UNCHANGED <<queue, due, fetched, horizon, index, clearing, untracked>>

-----------------------------------------------------------------------------
(* clearUserSessions: ZRANGE, then a pipeline that is no transaction.       *)

ReadUserSessions(u) ==
  /\ purchase[u] = "idle"
  /\ purchase' = [purchase EXCEPT ![u] = "zrem"]
  /\ read' = [read EXCEPT ![u] = index \cap SessionsOf(u)]
  /\ untracked' = untracked \cup
       {s \in SessionsOf(u) : \E r \in Runners : at[r][s] = "settle"}
  /\ UNCHANGED <<queue, due, fetched, horizon, at, index>>

(* Mutant: the pipeline forgets the queue. *)
ForgetQueue(u) ==
  /\ purchase[u] = "zrem"
  /\ purchase' = [purchase EXCEPT ![u] = "del"]
  /\ UNCHANGED <<queue, due, fetched, horizon, at, index, read, untracked>>

RemoveRead(u) ==
  /\ purchase[u] = "zrem"
  /\ purchase' = [purchase EXCEPT ![u] = "del"]
  /\ queue' = queue \ read[u]
  /\ NoLongerDue(read[u])
  /\ UNCHANGED <<fetched, at, index, read, untracked>>

DeleteIndex(u) ==
  /\ purchase[u] = "del"
  /\ purchase' = [purchase EXCEPT ![u] = "idle"]
  /\ read' = [read EXCEPT ![u] = {}]
  /\ index' = index \ SessionsOf(u)
  /\ UNCHANGED <<queue, due, fetched, horizon, at, untracked>>

(* A Redis error anywhere in it is not fatal: the rest is not done. *)
ClearFails(u) ==
  /\ May("redis") /\ purchase[u] = "zrem"
  /\ purchase' = [purchase EXCEPT ![u] = "idle"]
  /\ read' = [read EXCEPT ![u] = {}]
  /\ UNCHANGED <<queue, due, fetched, horizon, at, index, untracked>>

-----------------------------------------------------------------------------
(* Time and crashes.                                                        *)

BecomesDue(s) ==
  /\ s \in queue \ due
  /\ due' = due \cup {s}
  /\ UNCHANGED <<queue, fetched, horizon, at, index, clearing, untracked>>

(* An entry leaves user_sessions 30 min after its last registration (the   *)
(* key itself after 1 h).  A queued session waits 5 min at most and is     *)
(* registered just before it is queued: its entry is there while it waits  *)
(* (the workers are never all down for half an hour).                      *)
IndexExpires(s) ==
  /\ s \in index
  /\ s \notin queue
  /\ \A r \in Runners : at[r][s] # "settle"
  /\ index' = index \ {s}
  /\ UNCHANGED <<queue, due, fetched, horizon, at, clearing, untracked>>

(* The replica dies: the sessions it popped are in no queue any more. *)
Crash(r) ==
  /\ May("crash")
  /\ ~ Idle(r) \/ (r \in Ticks /\ fetched[r] # {})
  /\ at' = [at EXCEPT ![r] = [s \in Sessions |-> "idle"]]
  /\ fetched' = [t \in Ticks |-> IF t = r THEN {} ELSE fetched[t]]
  /\ horizon' = [t \in Ticks |-> IF t = r THEN {} ELSE horizon[t]]
  /\ UNCHANGED <<queue, due, index, clearing, untracked>>

Pop(t) == FetchDue(t) \/ RemoveDue(t) \/ RemoveFails(t)
Evaluate(r, s) == RegisterSession(r, s) \/ Schedule(r, s)
                    \/ SettleElse(r, s)
ClearUserSessions(u) == ReadUserSessions(u) \/ RemoveRead(u) \/ DeleteIndex(u)
                          \/ ClearFails(u)

QueueNext ==
  \/ \E t \in Ticks : Pop(t)
  \/ \E r \in Runners : Crash(r) \/ \E s \in Sessions : Evaluate(r, s)
  \/ \E c \in Consumers, s \in Sessions : Trigger(c, s)
  \/ \E u \in Users : ClearUserSessions(u)
  \/ \E s \in Sessions : BecomesDue(s) \/ IndexExpires(s)

QueueSpec == QueueInit /\ [][QueueNext]_vars

(* Scores come due, setInterval ticks, an evaluation under way ends.  A    *)
(* pop that is tried again and again succeeds: Redis comes back, and not   *)
(* every replica dies between the two commands.                            *)
QueueFairness ==
  /\ \A s \in Sessions : WF_vars(BecomesDue(s))
  /\ \A t \in Ticks : WF_vars(FetchDue(t)) /\ SF_vars(RemoveDue(t))
  /\ \A r \in Runners, s \in Sessions : WF_vars(Evaluate(r, s))

FairQueueSpec == QueueSpec /\ QueueFairness

-----------------------------------------------------------------------------
(* The page of a popping tick is full and leaves the session out, which    *)
(* the tick's second command will remove with the rest.                    *)
LeftOut(t, s) == Cardinality(fetched[t]) = Limit /\ s \in horizon[t] \ fetched[t]

(* An entry leaves the queue in three ways only: the tick that popped it   *)
(* evaluates it, its customer buys, or more members were due at once than  *)
(* one pop returns and the pop drops it with what its page left out        *)
(* (scheduler.service.ts:34-52).                                           *)
LeavesToBeEvaluated ==
  [][\A s \in queue \ queue' :
       \/ \E t \in Ticks : at[t][s] # "context" /\ at'[t][s] = "context"
       \/ purchase[UserOf[s]] = "zrem" /\ purchase'[UserOf[s]] = "del"
       \/ \E t \in Ticks : LeftOut(t, s) /\ fetched'[t] = {}]_vars

(* scheduler.service.ts:55-56: a purchase finds every queued session of    *)
(* its customer through user_sessions, the ones aside whose evaluation it  *)
(* overlapped.                                                             *)
QueuedIsIndexed == \A s \in queue : s \in index \cup untracked

(* scheduler.service.ts:10-11: a scheduled session is not dropped: it is   *)
(* evaluated again unless its customer buys, or a full page leaves it out. *)
QueuedIsReevaluated ==
  \A s \in Sessions :
    s \in queue ~> \/ \E r \in Runners : at[r][s] # "idle"
                   \/ purchase[UserOf[s]] = "zrem"
                   \/ \E t \in Ticks : LeftOut(t, s)
=============================================================================
