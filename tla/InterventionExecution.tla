------------------------ MODULE InterventionExecution ------------------------
(***************************************************************************)
(* Phase 2 of the decision engine: how a recommendation                    *)
(* (executeRecommendation) or an administrator's request (manualDecide)    *)
(* becomes one intervention, for the customers of one store.               *)
(*                                                                         *)
(* Every call is a process whose steps are the awaits of the TypeScript    *)
(* code; the calls of all replicas interleave.  The calls share Redis      *)
(* (lock:user, sent:user, cooldown, budget) and PostgreSQL (the rows of    *)
(* interventions and intervention_recommendations).  A call's fencing      *)
(* token is the call itself: randomUUID() never repeats.                   *)
(***************************************************************************)
EXTENDS Naturals, FiniteSets

CONSTANTS
  Executions,      \* calls of executeRecommendation
  ManualCalls,     \* calls of manualDecide
  Recs,            \* rows of intervention_recommendations
  Users,           \* customers of the store
  RecOf,           \* the recommendation each execution is asked to execute
  CustomerOf,      \* the customer of each offer
  Value,           \* the amount each offer takes from the daily budget
  Monetary,        \* in-shop offers whose type needs a discount code
  Overrides,       \* manual calls with overrideCooldown: true
  MaxDailyBudget,  \* policy.maxDailyBudgetAmount
  Faults,          \* what may go wrong in this instance
  NoCall           \* the value of a free lock

Calls == Executions \cup ManualCalls

(* deterministicInterventionId: an execution's intervention is named after *)
(* its recommendation, so that executing it again gives the same id; a     *)
(* manual call's id hashes a fresh eid and is the call's own.              *)
Offers == Recs \cup ManualCalls
OfferOf(c) == IF c \in ManualCalls THEN c ELSE RecOf[c]
CustomerId(c) == CustomerOf[OfferOf(c)]

AllFaults == {"redis", "db", "kafka", "outbound", "stall", "crash"}

ASSUME ConstantsOK ==
  /\ Executions \cap ManualCalls = {}
  /\ Recs \cap ManualCalls = {}
  /\ RecOf \in [Executions -> Recs]
  /\ CustomerOf \in [Offers -> Users]
  /\ Value \in [Offers -> Nat]
  /\ Monetary \subseteq Offers
  /\ Overrides \subseteq ManualCalls
  /\ MaxDailyBudget \in Nat
  /\ Faults \subseteq AllFaults
  /\ NoCall \notin Calls

VARIABLES
  pc,          \* the await each call is at
  lock,        \* lock:user:{id}: the token stored there, or NoCall
  heartbeats,  \* calls whose setInterval is running
  fenced,      \* calls told by renewUserLock that their lock is lost
  sentBy,      \* sent:user:{id} is set iff sentBy[u] # {}: the calls that set
               \*   it since it was last cleared
  known,       \* what sentBy was for its customer when the call was made
  cooldown,    \* customers with cooldown:{store}:{id} set
  reserved,    \* budget:{store}:{today}
  charge,      \* the day a call's amount was added to the counter
  status,      \* intervention_recommendations.status
  due,         \* recommendations with now > expires_at
  rejecting,   \* admin reject handlers past their status check
  row,         \* the interventions row of each offer
  writer,      \* the un-awaited InterventionWriter.write of each call
  code,        \* calls that hold a discount code for their offer
  attempt      \* what became of each call's outbound request

vars == <<pc, lock, heartbeats, fenced, sentBy, known, cooldown, reserved,
          charge, status, due, rejecting, row, writer, code, attempt>>

redis == <<lock, sentBy, cooldown, reserved>>
tables == <<status, row>>
clock == <<due, rejecting>>
history == <<fenced, known, charge, attempt>>

Labels == {"idle", "get", "expire", "cooldown", "isSent", "acquire", "reserve",
           "code", "outbound", "markDelivered", "setCooldown", "markSent",
           "markExecuted", "release", "done", "crashed"}

(* Between acquireUserLock and the return or throw that ends Phase 2. *)
PhaseTwo == {"reserve", "code", "outbound", "markDelivered", "setCooldown",
             "markSent", "markExecuted", "release"}

TypeOK ==
  /\ pc \in [Calls -> Labels]
  /\ lock \in [Users -> Calls \cup {NoCall}]
  /\ heartbeats \subseteq Calls
  /\ fenced \subseteq Calls
  /\ sentBy \in [Users -> SUBSET Calls]
  /\ known \in [Calls -> SUBSET Calls]
  /\ cooldown \subseteq Users
  /\ reserved \in Nat
  /\ charge \in [Calls -> {"none", "today", "past"}]
  /\ status \in [Recs -> {"pending", "rejected", "expired", "executed"}]
  /\ due \subseteq Recs
  /\ rejecting \subseteq Recs
  /\ row \in [Offers -> {"none", "undelivered", "delivered"}]
  /\ writer \in [Calls -> {"idle", "insert", "produce", "logged", "dlq", "lost"}]
  /\ code \subseteq Calls
  /\ attempt \in [Calls -> {"none", "accepted", "failed"}]

Init ==
  /\ pc = [c \in Calls |-> "idle"]
  /\ lock = [u \in Users |-> NoCall]
  /\ heartbeats = {} /\ fenced = {}
  /\ sentBy = [u \in Users |-> {}]
  /\ known = [c \in Calls |-> {}]
  /\ cooldown = {}
  /\ reserved = 0
  /\ charge = [c \in Calls |-> "none"]
  /\ status = [r \in Recs |-> "pending"]
  /\ due = {} /\ rejecting = {}
  /\ row = [o \in Offers |-> "none"]
  /\ writer = [c \in Calls |-> "idle"]
  /\ code = {}
  /\ attempt = [c \in Calls |-> "none"]

May(f) == f \in Faults
Goto(c, l) == pc' = [pc EXCEPT ![c] = l]

-----------------------------------------------------------------------------
(* The way in.                                                              *)

(* decide() calls executeRecommendation on the row it has just inserted;   *)
(* the admin approve route calls it after reading the row pending and not  *)
(* expired.  markApproved has no caller, so "approved" never occurs.       *)
CallExecute(c) ==
  /\ c \in Executions /\ pc[c] = "idle"
  /\ status[RecOf[c]] = "pending" /\ RecOf[c] \notin due
  /\ Goto(c, "get")
  /\ known' = [known EXCEPT ![c] = sentBy[CustomerId(c)]]
  /\ UNCHANGED <<redis, tables, clock, heartbeats, fenced, charge, attempt,
                 writer, code>>

CallManual(c) ==
  /\ c \in ManualCalls /\ pc[c] = "idle"
  /\ Goto(c, IF c \in Overrides THEN "acquire" ELSE "cooldown")
  /\ known' = [known EXCEPT ![c] = sentBy[CustomerId(c)]]
  /\ UNCHANGED <<redis, tables, clock, heartbeats, fenced, charge, attempt,
                 writer, code>>

(* The read of the row and the two checks made on what was read.  A read   *)
(* that throws ends the call in the catch block, with no token yet.        *)
GetRecommendation(c) ==
  /\ pc[c] = "get"
  /\ LET r == RecOf[c] IN
       \/ May("db") /\ Goto(c, "done")
       \/ status[r] # "pending" /\ Goto(c, "done")
       \/ status[r] = "pending" /\ r \in due /\ Goto(c, "expire")
       \/ status[r] = "pending" /\ r \notin due /\ Goto(c, "isSent")
  /\ UNCHANGED <<redis, tables, clock, history, heartbeats, writer, code>>

(* markExpired's UPDATE names the row only: it does not look at its status. *)
MarkExpired(c) ==
  /\ pc[c] = "expire"
  /\ Goto(c, "done")
  /\ \/ status' = [status EXCEPT ![RecOf[c]] = "expired"]
     \/ May("db") /\ UNCHANGED status
  /\ UNCHANGED <<redis, row, clock, history, heartbeats, writer, code>>

CheckCooldown(c) ==
  /\ pc[c] = "cooldown"
  /\ \/ CustomerId(c) \in cooldown /\ Goto(c, "done")
     \/ (CustomerId(c) \notin cooldown \/ May("redis")) /\ Goto(c, "isSent")
  /\ UNCHANGED <<redis, tables, clock, history, heartbeats, writer, code>>

(* Mutant: the guard is dropped. *)
IsSentUnguarded(c) ==
  /\ pc[c] = "isSent"
  /\ Goto(c, "acquire")
  /\ UNCHANGED <<redis, tables, clock, history, heartbeats, writer, code>>

(* The fast-path guard before the lock; it is not repeated under the lock. *)
IsSent(c) ==
  /\ pc[c] = "isSent"
  /\ \/ sentBy[CustomerId(c)] # {} /\ Goto(c, "done")
     \/ (sentBy[CustomerId(c)] = {} \/ May("redis")) /\ Goto(c, "acquire")
  /\ UNCHANGED <<redis, tables, clock, history, heartbeats, writer, code>>

(* Mutant: SET EX without NX. *)
AcquireWithoutNX(c) ==
  /\ pc[c] = "acquire"
  /\ lock' = [lock EXCEPT ![CustomerId(c)] = c]
  /\ heartbeats' = heartbeats \cup {c}
  /\ Goto(c, "reserve")
  /\ UNCHANGED <<sentBy, cooldown, reserved, tables, clock, history, writer,
                 code>>

(* SET NX EX, and the heartbeat that is started in the same turn.  On a    *)
(* Redis error the call goes on with a token it never stored.              *)
AcquireUserLock(c) ==
  /\ pc[c] = "acquire"
  /\ \/ /\ lock[CustomerId(c)] = NoCall
        /\ lock' = [lock EXCEPT ![CustomerId(c)] = c]
        /\ heartbeats' = heartbeats \cup {c}
        /\ Goto(c, "reserve")
     \/ /\ lock[CustomerId(c)] # NoCall
        /\ Goto(c, "done")
        /\ UNCHANGED <<lock, heartbeats>>
     \/ /\ May("redis")
        /\ heartbeats' = heartbeats \cup {c}
        /\ Goto(c, "reserve")
        /\ UNCHANGED lock
  /\ UNCHANGED <<sentBy, cooldown, reserved, tables, clock, history, writer,
                 code>>

-----------------------------------------------------------------------------
(* Phase 2.                                                                 *)

(* Mutant: the script compares the counter without the new amount. *)
ReserveWithoutAmount(c) ==
  /\ pc[c] = "reserve"
  /\ IF reserved <= MaxDailyBudget
       THEN /\ reserved' = reserved + Value[OfferOf(c)]
            /\ charge' = [charge EXCEPT ![c] = "today"]
            /\ Goto(c, "code")
       ELSE Goto(c, "release") /\ UNCHANGED <<reserved, charge>>
  /\ UNCHANGED <<lock, sentBy, cooldown, tables, clock, heartbeats, fenced,
                 known, attempt, writer, code>>

(* RESERVE_SCRIPT: check and increment in one Lua call; nothing to do for  *)
(* an amount of zero; a Redis error approves without counting.  Exhausted, *)
(* an execution clears its interval and releases, a manual call returns    *)
(* from inside its try block with both still standing.                     *)
CheckAndReserve(c) ==
  /\ pc[c] = "reserve"
  /\ LET amount == Value[OfferOf(c)] IN
       \/ /\ amount > 0 /\ reserved + amount <= MaxDailyBudget
          /\ reserved' = reserved + amount
          /\ charge' = [charge EXCEPT ![c] = "today"]
          /\ Goto(c, "code")
       \/ /\ amount > 0 /\ reserved + amount > MaxDailyBudget
          /\ Goto(c, IF c \in ManualCalls THEN "done" ELSE "release")
          /\ UNCHANGED <<reserved, charge>>
       \/ /\ amount = 0 \/ May("redis")
          /\ Goto(c, "code")
          /\ UNCHANGED <<reserved, charge>>
  /\ UNCHANGED <<lock, sentBy, cooldown, tables, clock, heartbeats, fenced,
                 known, attempt, writer, code>>

(* Mutants: no write is started; the outbound request is skipped. *)
GenerateCodeUnrecorded(c) ==
  /\ pc[c] = "code"
  /\ Goto(c, "outbound")
  /\ UNCHANGED <<redis, tables, clock, history, heartbeats, writer, code>>

GenerateCodeUndispatched(c) ==
  /\ pc[c] = "code"
  /\ writer' = [writer EXCEPT ![c] = "insert"]
  /\ Goto(c, "markDelivered")
  /\ UNCHANGED <<redis, tables, clock, history, heartbeats, code>>

(* generateCode inserts a discount_codes row that references the           *)
(* interventions row; without that row the foreign key fails the insert    *)
(* and the offer goes out with discountCode null.  In the same turn        *)
(* write() is called and not awaited, and the outbound request starts.     *)
GenerateCode(c) ==
  /\ pc[c] = "code"
  /\ \/ /\ OfferOf(c) \in Monetary /\ row[OfferOf(c)] # "none"
        /\ code' = code \cup {c}
     \/ /\ OfferOf(c) \in Monetary /\ (row[OfferOf(c)] = "none" \/ May("db"))
        /\ UNCHANGED code
     \/ OfferOf(c) \notin Monetary /\ UNCHANGED code
  /\ writer' = [writer EXCEPT ![c] = "insert"]
  /\ Goto(c, "outbound")
  /\ UNCHANGED <<redis, tables, clock, history, heartbeats>>

(* OutboundService.route never throws: an abort, a refused connection and  *)
(* a non-2xx answer all return like a delivery.                            *)
OutboundRoute(c) ==
  /\ pc[c] = "outbound"
  /\ \/ attempt' = [attempt EXCEPT ![c] = "accepted"]
     \/ May("outbound") /\ attempt' = [attempt EXCEPT ![c] = "failed"]
  /\ Goto(c, "markDelivered")
  /\ UNCHANGED <<redis, tables, clock, heartbeats, fenced, known, charge,
                 writer, code>>

(* An UPDATE that matches no row is not an error. *)
MarkDelivered(c) ==
  /\ pc[c] = "markDelivered"
  /\ \/ /\ row[OfferOf(c)] # "none"
        /\ row' = [row EXCEPT ![OfferOf(c)] = "delivered"]
     \/ (row[OfferOf(c)] = "none" \/ May("db")) /\ UNCHANGED row
  /\ Goto(c, "setCooldown")
  /\ UNCHANGED <<redis, status, clock, history, heartbeats, writer, code>>

SetCooldown(c) ==
  /\ pc[c] = "setCooldown"
  /\ \/ cooldown' = cooldown \cup {CustomerId(c)}
     \/ May("redis") /\ UNCHANGED cooldown
  /\ Goto(c, "markSent")
  /\ UNCHANGED <<lock, sentBy, reserved, tables, clock, history, heartbeats,
                 writer, code>>

MarkSent(c) ==
  /\ pc[c] = "markSent"
  /\ \/ sentBy' = [sentBy EXCEPT ![CustomerId(c)] = @ \cup {c}]
     \/ May("redis") /\ UNCHANGED sentBy
  /\ Goto(c, IF c \in ManualCalls THEN "release" ELSE "markExecuted")
  /\ UNCHANGED <<lock, cooldown, reserved, tables, clock, history, heartbeats,
                 writer, code>>

(* Mutant: the catch block forgets the interval. *)
MarkExecutedLeaksInterval(c) ==
  /\ pc[c] = "markExecuted"
  /\ IF row[RecOf[c]] # "none"
       THEN status' = [status EXCEPT ![RecOf[c]] = "executed"] /\ Goto(c, "release")
       ELSE Goto(c, "done") /\ UNCHANGED status
  /\ UNCHANGED <<redis, row, clock, history, heartbeats, writer, code>>

(* The UPDATE sets intervention_id, a foreign key: it throws while the     *)
(* interventions row is missing, and an UPDATE whose answer is lost throws *)
(* although it was applied.  The catch block clears the interval and       *)
(* releases lock:user:-1, which leaves the customer's lock where it is.    *)
MarkExecuted(c) ==
  /\ pc[c] = "markExecuted"
  /\ \/ /\ row[RecOf[c]] # "none"
        /\ status' = [status EXCEPT ![RecOf[c]] = "executed"]
        /\ \/ Goto(c, "release") /\ UNCHANGED heartbeats
           \/ May("db") /\ Goto(c, "done") /\ heartbeats' = heartbeats \ {c}
     \/ /\ row[RecOf[c]] = "none" \/ May("db")
        /\ heartbeats' = heartbeats \ {c}
        /\ Goto(c, "done")
        /\ UNCHANGED status
  /\ UNCHANGED <<redis, row, clock, history, writer, code>>

(* clearInterval and RELEASE_SCRIPT: delete only one's own token. *)
ReleaseUserLock(c) ==
  /\ pc[c] = "release"
  /\ heartbeats' = heartbeats \ {c}
  /\ \/ lock' = [lock EXCEPT ![CustomerId(c)] = IF @ = c THEN NoCall ELSE @]
     \/ May("redis") /\ UNCHANGED lock
  /\ Goto(c, "done")
  /\ UNCHANGED <<sentBy, cooldown, reserved, tables, clock, history, writer,
                 code>>

-----------------------------------------------------------------------------
(* What runs beside the call: its heartbeat and its un-awaited write.       *)

(* renewUserLock every 5 s.  A renewal that finds another token reports    *)
(* false; the orchestrator logs it at most.                                *)
Renew(c) ==
  /\ c \in heartbeats \ fenced
  /\ lock[CustomerId(c)] # c
  /\ fenced' = fenced \cup {c}
  /\ UNCHANGED <<pc, redis, tables, clock, known, charge, attempt, heartbeats,
                 writer, code>>

(* Step 1 of write(): INSERT with delivered = false.  The id is unique: a  *)
(* second execution of one recommendation inserts nothing.                 *)
WriterInsert(c) ==
  /\ writer[c] = "insert"
  /\ \/ row' = [row EXCEPT ![OfferOf(c)] = IF @ = "none" THEN "undelivered" ELSE @]
     \/ May("db") /\ UNCHANGED row
  /\ writer' = [writer EXCEPT ![c] = "produce"]
  /\ UNCHANGED <<pc, redis, status, clock, history, heartbeats, code>>

(* Step 2 of write(): intervention.log, or the DLQ, or neither. *)
WriterProduce(c) ==
  /\ writer[c] = "produce"
  /\ \E outcome \in {"logged"} \cup (IF May("kafka") THEN {"dlq", "lost"} ELSE {}) :
       writer' = [writer EXCEPT ![c] = outcome]
  /\ UNCHANGED <<pc, redis, tables, clock, history, heartbeats, code>>

(* The replica that runs the call dies; so do its timers and its writes. *)
Crash(c) ==
  /\ May("crash") /\ pc[c] \notin {"idle", "crashed"}
  /\ Goto(c, "crashed")
  /\ heartbeats' = heartbeats \ {c}
  /\ writer' = [writer EXCEPT ![c] = IF @ \in {"insert", "produce"} THEN "lost" ELSE @]
  /\ UNCHANGED <<redis, tables, clock, history, code>>

-----------------------------------------------------------------------------
(* Time, and the other writers of the shared state.                         *)

(* Mutant: the lock is never renewed. *)
LockExpiresUnrenewed(u) ==
  /\ lock[u] # NoCall
  /\ lock' = [lock EXCEPT ![u] = NoCall]
  /\ UNCHANGED <<pc, sentBy, cooldown, reserved, tables, clock, history,
                 heartbeats, writer, code>>

(* USER_LOCK_TTL runs out 30 s after the last renewal.  A holder whose     *)
(* heartbeat runs renews it every 5 s, unless its process stalls past the  *)
(* TTL or its renewals fail.                                               *)
LockExpires(u) ==
  /\ lock[u] # NoCall
  /\ lock[u] \notin heartbeats \/ May("stall") \/ May("redis")
  /\ lock' = [lock EXCEPT ![u] = NoCall]
  /\ UNCHANGED <<pc, sentBy, cooldown, reserved, tables, clock, history,
                 heartbeats, writer, code>>

ClearSent(u) ==
  /\ sentBy[u] # {}
  /\ sentBy' = [sentBy EXCEPT ![u] = {}]
  /\ UNCHANGED <<pc, lock, cooldown, reserved, tables, clock, history,
                 heartbeats, writer, code>>

(* A purchase event of the customer: clearUserSent deletes the marker. *)
Purchase(u) == ClearSent(u)

(* SENT_TTL. *)
SentExpires(u) == ClearSent(u)

CooldownExpires(u) ==
  /\ u \in cooldown
  /\ cooldown' = cooldown \ {u}
  /\ UNCHANGED <<pc, lock, sentBy, reserved, tables, clock, history,
                 heartbeats, writer, code>>

(* UTC midnight: the next reservation goes to a fresh key. *)
DayRollover ==
  /\ reserved > 0
  /\ reserved' = 0
  /\ charge' = [c \in Calls |-> IF charge[c] = "today" THEN "past" ELSE charge[c]]
  /\ UNCHANGED <<pc, lock, sentBy, cooldown, tables, clock, fenced, known,
                 attempt, heartbeats, writer, code>>

BecomesDue(r) ==
  /\ r \notin due
  /\ due' = due \cup {r}
  /\ UNCHANGED <<pc, redis, tables, rejecting, history, heartbeats, writer, code>>

(* The expiry scan's UPDATE is conditional on status = 'pending'. *)
ExpireScan(r) ==
  /\ r \in due /\ status[r] = "pending"
  /\ status' = [status EXCEPT ![r] = "expired"]
  /\ UNCHANGED <<pc, redis, row, clock, history, heartbeats, writer, code>>

(* The admin reject route reads the status, then updates by id alone. *)
RejectCheck(r) ==
  /\ r \notin rejecting /\ status[r] = "pending"
  /\ rejecting' = rejecting \cup {r}
  /\ UNCHANGED <<pc, redis, tables, due, history, heartbeats, writer, code>>

RejectWrite(r) ==
  /\ r \in rejecting
  /\ rejecting' = rejecting \ {r}
  /\ status' = [status EXCEPT ![r] = "rejected"]
  /\ UNCHANGED <<pc, redis, row, due, history, heartbeats, writer, code>>

-----------------------------------------------------------------------------
CallStep(c) ==
  \/ GetRecommendation(c) \/ MarkExpired(c) \/ CheckCooldown(c) \/ IsSent(c)
  \/ AcquireUserLock(c) \/ CheckAndReserve(c) \/ GenerateCode(c)
  \/ OutboundRoute(c) \/ MarkDelivered(c) \/ SetCooldown(c) \/ MarkSent(c)
  \/ MarkExecuted(c) \/ ReleaseUserLock(c)

Background(c) == Renew(c) \/ WriterInsert(c) \/ WriterProduce(c)

Next ==
  \/ \E c \in Calls : CallExecute(c) \/ CallManual(c) \/ CallStep(c)
                        \/ Background(c) \/ Crash(c)
  \/ \E u \in Users : LockExpires(u) \/ Purchase(u) \/ SentExpires(u)
                        \/ CooldownExpires(u)
  \/ \E r \in Recs : BecomesDue(r) \/ ExpireScan(r) \/ RejectCheck(r)
                        \/ RejectWrite(r)
  \/ DayRollover

Spec == Init /\ [][Next]_vars

(* Node's event loop completes what a live call awaits and runs its        *)
(* timers and un-awaited promises; Redis enforces the TTL of a lock that   *)
(* nobody renews.  Nothing says that a call is made, a customer buys or an *)
(* administrator acts.                                                     *)
Fairness ==
  /\ \A c \in Calls : WF_vars(CallStep(c)) /\ WF_vars(WriterInsert(c))
                        /\ WF_vars(WriterProduce(c))
  /\ \A u \in Users : WF_vars(lock[u] \notin heartbeats /\ LockExpires(u))

FairSpec == Spec /\ Fairness
=============================================================================
