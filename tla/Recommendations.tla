---------------------------- MODULE Recommendations ----------------------------
(***************************************************************************)
(* The life of a store's recommendations: the row in PostgreSQL, the       *)
(* sorted set pending:store (the index) that the expiry scan reads, and    *)
(* the four actors that settle a row: an executor (an approval, or decide  *)
(* itself), the admin's reject, and the expiry scan of every replica.      *)
(* An executor and an admin update the row by its id alone, on what they   *)
(* read earlier; the scan's update has the condition status = 'pending'.   *)
(*                                                                         *)
(* Time is counted in the periods of the expiry scan (60 s); the sent      *)
(* marker, of 600 s, outlasts MaxTime.  Customers differ, so that the lock *)
(* and the marker are per recommendation (InterventionExecution has        *)
(* several offers to one customer).                                        *)
(***************************************************************************)
EXTENDS Integers

CONSTANTS Recs, Executors, Replicas, None,
  WindowOf,     \* recommendation -> approvalTimeoutSeconds then, in periods
  MaxTime,      \* bound on the clock
  MaxFaults     \* bound on failures and deaths

ASSUME RecAssumption ==
  /\ WindowOf \in [Recs -> Nat] /\ MaxTime \in Nat /\ MaxFaults \in Nat
  /\ None \notin Executors /\ None \notin Recs

VARIABLES
  now,
  row,         \* recommendation -> its status, "none" before the INSERT
  expiresAt,   \* recommendation -> its expires_at
  gen,         \* recommendation -> where generate() is
  index,       \* pending:store
  keyExpires,  \* when the index's TTL ends, None when it has no TTL
  evicted,     \* recommendations the TTL took out of the index
  pc, rec,     \* executor -> its step and its recommendation
  lock,        \* recommendation -> the executor that holds its customer's lock
  sent,        \* recommendations whose customer's sent marker stands
  attempt,     \* what became of each recommendation's last outbound request
  rejecting,   \* recommendations an admin request has read as pending
  scan,        \* replica -> where its expiry scan is
  batch,       \* replica -> the ids it has yet to expire
  item,        \* replica -> the id it has just updated
  scanLock,    \* expiry:scan:lock, which carries no token
  faults

table == <<row, expiresAt, gen>>
zset == <<index, keyExpires, evicted>>
execution == <<pc, rec, lock, sent, attempt>>
scanning == <<scan, batch, item, scanLock>>
recVars == <<now, table, zset, execution, rejecting, scanning, faults>>

Statuses == {"pending", "rejected", "executed", "expired"}

RecTypeOK ==
  /\ now \in 0..MaxTime
  /\ row \in [Recs -> Statuses \union {"none"}]
  /\ expiresAt \in [Recs -> Nat]
  /\ gen \in [Recs -> {"none", "zadd", "expire", "route", "done", "unindexed"}]
  /\ index \subseteq Recs /\ evicted \subseteq Recs
  /\ keyExpires \in Nat \union {None}
  /\ pc \in [Executors -> {"idle", "enter", "expire", "zrem", "isSent", "acquire", "reserve",
                        "dispatch", "sent", "mark", "release"}]
  /\ rec \in [Executors -> Recs \union {None}]
  /\ \A e \in Executors : pc[e] # "idle" => rec[e] \in Recs
  /\ lock \in [Recs -> Executors \union {None}]
  /\ sent \subseteq Recs /\ attempt \in [Recs -> {"none", "accepted", "failed"}]
  /\ rejecting \subseteq Recs
  /\ scan \in [Replicas -> {"idle", "list", "item", "zrem"}]
  /\ batch \in [Replicas -> SUBSET Recs]
  /\ item \in [Replicas -> Recs \union {None}]
  /\ \A s \in Replicas : scan[s] = "zrem" => item[s] \in Recs
  /\ scanLock \in BOOLEAN
  /\ faults \in 0..MaxFaults

RecInit ==
  /\ now = 0 /\ faults = 0
  /\ row = [r \in Recs |-> "none"]
  /\ expiresAt = [r \in Recs |-> 0]
  /\ gen = [r \in Recs |-> "none"]
  /\ index = {} /\ keyExpires = None /\ evicted = {}
  /\ pc = [e \in Executors |-> "idle"]
  /\ rec = [e \in Executors |-> None]
  /\ lock = [r \in Recs |-> None]
  /\ sent = {} /\ rejecting = {}
  /\ attempt = [r \in Recs |-> "none"]
  /\ scan = [s \in Replicas |-> "idle"]
  /\ batch = [s \in Replicas |-> {}]
  /\ item = [s \in Replicas |-> None]
  /\ scanLock = FALSE

Fault == faults < MaxFaults /\ faults' = faults + 1
SetStatus(r, status) == row' = [row EXCEPT ![r] = status]

-----------------------------------------------------------------------------
(* generate() *)

Insert(r) ==
  /\ gen[r] = "none"
  /\ SetStatus(r, "pending")
  /\ expiresAt' = [expiresAt EXCEPT ![r] = now + WindowOf[r]]
  /\ gen' = [gen EXCEPT ![r] = "zadd"]
  /\ UNCHANGED <<now, zset, execution, rejecting, scanning, faults>>

ZAdd(r) ==
  /\ gen[r] = "zadd"
  /\ index' = index \union {r}
  /\ gen' = [gen EXCEPT ![r] = "expire"]
  /\ UNCHANGED <<now, row, expiresAt, keyExpires, evicted, execution, rejecting, scanning, faults>>

(* A command that fails may have been applied; generate() throws. *)
ZAddFails(r) ==
  /\ gen[r] = "zadd" /\ Fault
  /\ index' \in {index, index \union {r}}
  /\ gen' = [gen EXCEPT ![r] = "unindexed"]
  /\ UNCHANGED <<now, row, expiresAt, keyExpires, evicted, execution, rejecting, scanning>>

(* The TTL of the whole set becomes twice this recommendation's window. *)
ExpireKey(r) ==
  /\ gen[r] = "expire"
  /\ keyExpires' = IF index = {} THEN None ELSE now + 2 * WindowOf[r]
  /\ gen' = [gen EXCEPT ![r] = "route"]
  /\ UNCHANGED <<now, row, expiresAt, index, evicted, execution, rejecting, scanning, faults>>

(* A death after the INSERT or the ZADD is covered by these two. *)
ExpireKeyFails(r) ==
  /\ gen[r] = "expire" /\ Fault
  /\ gen' = [gen EXCEPT ![r] = "done"]
  /\ UNCHANGED <<now, row, expiresAt, zset, execution, rejecting, scanning>>

(* manual, or a budget found too small: the row waits for an approval. *)
LeavePending(r) ==
  /\ gen[r] = "route"
  /\ gen' = [gen EXCEPT ![r] = "done"]
  /\ UNCHANGED <<now, row, expiresAt, zset, execution, rejecting, scanning, faults>>

-----------------------------------------------------------------------------
(* executeRecommendation(), as far as it touches the row and the index *)

Goto(e, step) == pc' = [pc EXCEPT ![e] = step]
Finish(e) == pc' = [pc EXCEPT ![e] = "idle"] /\ rec' = [rec EXCEPT ![e] = None]
Begin(e, r) == Goto(e, "enter") /\ rec' = [rec EXCEPT ![e] = r]
Release(e) == lock' = [r \in Recs |-> IF lock[r] = e THEN None ELSE lock[r]]

(* auto_always, or auto_if_budget with budget left. *)
AutoExecute(e, r) ==
  /\ gen[r] = "route" /\ pc[e] = "idle"
  /\ gen' = [gen EXCEPT ![r] = "done"]
  /\ Begin(e, r)
  /\ UNCHANGED <<now, row, expiresAt, zset, lock, sent, attempt, rejecting, scanning, faults>>

(* The approve route checks the row before it calls the engine. *)
Approve(e, r) ==
  /\ pc[e] = "idle"
  /\ row[r] = "pending" /\ now <= expiresAt[r]
  /\ Begin(e, r)
  /\ UNCHANGED <<now, table, zset, lock, sent, attempt, rejecting, scanning, faults>>

Enter(e) ==
  /\ pc[e] = "enter"
  /\ IF row[rec[e]] # "pending" THEN Finish(e)
     ELSE /\ Goto(e, IF now > expiresAt[rec[e]] THEN "expire" ELSE "isSent")
          /\ UNCHANGED rec
  /\ UNCHANGED <<now, table, zset, lock, sent, attempt, rejecting, scanning, faults>>

MarkExpired(e) ==
  /\ pc[e] = "expire"
  /\ SetStatus(rec[e], "expired")
  /\ Goto(e, "zrem")
  /\ UNCHANGED <<now, expiresAt, gen, zset, rec, lock, sent, attempt, rejecting, scanning, faults>>

(* Redis forgets the TTL with the last member. *)
ZRem(r) ==
  /\ index' = index \ {r}
  /\ keyExpires' = IF index \ {r} = {} THEN None ELSE keyExpires
  /\ UNCHANGED evicted

MarkExpiredZRem(e) ==
  /\ pc[e] = "zrem"
  /\ ZRem(rec[e])
  /\ Finish(e)
  /\ UNCHANGED <<now, table, lock, sent, attempt, rejecting, scanning, faults>>

(* The fast-path guard; a Redis error counts as not sent. *)
IsSent(e) ==
  /\ pc[e] = "isSent"
  /\ \/ rec[e] \in sent /\ Finish(e) /\ UNCHANGED faults
     \/ rec[e] \notin sent /\ Goto(e, "acquire") /\ UNCHANGED <<rec, faults>>
     \/ Fault /\ Goto(e, "acquire") /\ UNCHANGED rec
  /\ UNCHANGED <<now, table, zset, lock, sent, attempt, rejecting, scanning>>

(* On a Redis error the executor goes on with a token it never stored. *)
AcquireUserLock(e) ==
  /\ pc[e] = "acquire"
  /\ \/ /\ lock[rec[e]] = None
        /\ lock' = [lock EXCEPT ![rec[e]] = e]
        /\ Goto(e, "reserve")
        /\ UNCHANGED <<rec, faults>>
     \/ lock[rec[e]] # None /\ Finish(e) /\ UNCHANGED <<lock, faults>>
     \/ Fault /\ Goto(e, "reserve") /\ UNCHANGED <<rec, lock>>
  /\ UNCHANGED <<now, table, zset, sent, attempt, rejecting, scanning>>

(* A budget that is spent releases the lock and leaves the row as it is. *)
CheckAndReserve(e) ==
  /\ pc[e] = "reserve"
  /\ \E step \in {"dispatch", "release"} : Goto(e, step)
  /\ UNCHANGED <<now, table, zset, rec, lock, sent, attempt, rejecting, scanning, faults>>

(* outbound.route() swallows its failures: the row is marked all the same. *)
Dispatch(e) ==
  /\ pc[e] = "dispatch"
  /\ \/ attempt' = [attempt EXCEPT ![rec[e]] = "accepted"] /\ UNCHANGED faults
     \/ Fault /\ attempt' = [attempt EXCEPT ![rec[e]] = "failed"]
  /\ Goto(e, "sent")
  /\ UNCHANGED <<now, table, zset, rec, lock, sent, rejecting, scanning>>

MarkSent(e) ==
  /\ pc[e] = "sent"
  /\ \/ sent' = sent \union {rec[e]} /\ UNCHANGED faults
     \/ Fault /\ UNCHANGED sent
  /\ Goto(e, "mark")
  /\ UNCHANGED <<now, table, zset, rec, lock, attempt, rejecting, scanning>>

(* Mutant: the row is marked before the offer goes out. *)
MarkBeforeDispatch(e) ==
  /\ pc[e] = "dispatch"
  /\ SetStatus(rec[e], "executed")
  /\ Goto(e, "sent")
  /\ UNCHANGED <<now, expiresAt, gen, zset, rec, lock, sent, attempt, rejecting, scanning, faults>>

MarkExecuted(e) ==
  /\ pc[e] = "mark"
  /\ SetStatus(rec[e], "executed")
  /\ Goto(e, "release")
  /\ UNCHANGED <<now, expiresAt, gen, zset, rec, lock, sent, attempt, rejecting, scanning, faults>>

ReleaseUserLock(e) ==
  /\ pc[e] = "release"
  /\ \/ Release(e) /\ UNCHANGED faults
     \/ Fault /\ UNCHANGED lock
  /\ Finish(e)
  /\ UNCHANGED <<now, table, zset, sent, attempt, rejecting, scanning>>

(* An exception or a death: the lock is left to its TTL. *)
ExecutorFails(e) ==
  /\ pc[e] # "idle" /\ Fault
  /\ Finish(e)
  /\ UNCHANGED <<now, table, zset, lock, sent, attempt, rejecting, scanning>>

PhaseTwo == {"reserve", "dispatch", "sent", "mark", "release"}

(* The lock of an executor at work goes only when its heartbeat stalls. *)
LockExpires(r) ==
  /\ lock[r] # None
  /\ IF rec[lock[r]] = r /\ pc[lock[r]] \in PhaseTwo
       THEN Fault ELSE UNCHANGED faults
  /\ lock' = [lock EXCEPT ![r] = None]
  /\ UNCHANGED <<now, table, zset, pc, rec, sent, attempt, rejecting, scanning>>

-----------------------------------------------------------------------------
(* POST /recommendations/:id/reject: a check, then an update by the id *)

RejectCheck(r) ==
  /\ row[r] = "pending"
  /\ rejecting' = rejecting \union {r}
  /\ UNCHANGED <<now, table, zset, execution, scanning, faults>>

RejectWrite(r) ==
  /\ r \in rejecting
  /\ SetStatus(r, "rejected")
  /\ rejecting' = rejecting \ {r}
  /\ UNCHANGED <<now, expiresAt, gen, zset, execution, scanning, faults>>

RejectFails(r) ==
  /\ r \in rejecting /\ Fault
  /\ rejecting' = rejecting \ {r}
  /\ UNCHANGED <<now, table, zset, execution, scanning>>

-----------------------------------------------------------------------------
(* expireRecommendations() *)

ScanGoto(s, step) == scan' = [scan EXCEPT ![s] = step]

TakeScanLock(s) ==
  /\ scan[s] = "idle" /\ ~scanLock
  /\ scanLock' = TRUE
  /\ ScanGoto(s, "list")
  /\ UNCHANGED <<now, table, zset, execution, rejecting, batch, item, faults>>

Due(r) == expiresAt[r] <= now

(* One key, and fewer ids than the limit of 200. *)
ListDue(s) ==
  /\ scan[s] = "list"
  /\ batch' = [batch EXCEPT ![s] = {r \in index : Due(r)}]
  /\ ScanGoto(s, "item")
  /\ UNCHANGED <<now, table, zset, execution, rejecting, item, scanLock, faults>>

(* Mutant: the update without its condition on the status. *)
ExpireAnyStatus(s, r) ==
  /\ scan[s] = "item" /\ r \in batch[s]
  /\ SetStatus(r, "expired")
  /\ item' = [item EXCEPT ![s] = r]
  /\ ScanGoto(s, "zrem")
  /\ UNCHANGED <<now, expiresAt, gen, zset, execution, rejecting, batch, scanLock, faults>>

ExpireItem(s, r) ==
  /\ scan[s] = "item" /\ r \in batch[s]
  /\ row' = IF row[r] = "pending" THEN [row EXCEPT ![r] = "expired"] ELSE row
  /\ item' = [item EXCEPT ![s] = r]
  /\ ScanGoto(s, "zrem")
  /\ UNCHANGED <<now, expiresAt, gen, zset, execution, rejecting, batch, scanLock, faults>>

PruneItem(s) ==
  /\ scan[s] = "zrem"
  /\ ZRem(item[s])
  /\ batch' = [batch EXCEPT ![s] = @ \ {item[s]}]
  /\ item' = [item EXCEPT ![s] = None]
  /\ ScanGoto(s, "item")
  /\ UNCHANGED <<now, table, execution, rejecting, scanLock, faults>>

(* Mutant: the id is taken out of the index although its update failed. *)
FailedItemIsPruned(s, r) ==
  /\ scan[s] \in {"item", "zrem"} /\ r \in batch[s] /\ Fault
  /\ scan[s] = "zrem" => r = item[s]
  /\ batch' = [batch EXCEPT ![s] = @ \ {r}]
  /\ ZRem(r)
  /\ item' = [item EXCEPT ![s] = None]
  /\ ScanGoto(s, "item")
  /\ UNCHANGED <<now, table, execution, rejecting, scanLock>>

(* The UPDATE or the ZREM of an id fails: the next scan finds it again. *)
ItemFails(s, r) ==
  /\ scan[s] \in {"item", "zrem"} /\ r \in batch[s] /\ Fault
  /\ scan[s] = "zrem" => r = item[s]
  /\ batch' = [batch EXCEPT ![s] = @ \ {r}]
  /\ item' = [item EXCEPT ![s] = None]
  /\ ScanGoto(s, "item")
  /\ UNCHANGED <<now, table, zset, execution, rejecting, scanLock>>

(* The lock is deleted, whoever holds it by now. *)
EndScan(s) ==
  /\ scan[s] = "item" /\ batch[s] = {}
  /\ scanLock' = FALSE
  /\ ScanGoto(s, "idle")
  /\ UNCHANGED <<now, table, zset, execution, rejecting, batch, item, faults>>

ScannerDies(s) ==
  /\ scan[s] # "idle" /\ Fault
  /\ batch' = [batch EXCEPT ![s] = {}]
  /\ item' = [item EXCEPT ![s] = None]
  /\ ScanGoto(s, "idle")
  /\ UNCHANGED <<now, table, zset, execution, rejecting, scanLock>>

(* Mutant: the lock is taken without a TTL. *)
ScanLockStays ==
  /\ FALSE
  /\ UNCHANGED recVars

(* The TTL (90 s) may end during a slow scan. *)
ScanLockExpires ==
  /\ scanLock
  /\ scanLock' = FALSE
  /\ UNCHANGED <<now, table, zset, execution, rejecting, scan, batch, item, faults>>

-----------------------------------------------------------------------------
(* The index goes with its TTL. *)
EvictIndex ==
  IF keyExpires # None /\ now + 1 >= keyExpires
    THEN /\ evicted' = evicted \union index
         /\ index' = {} /\ keyExpires' = None
    ELSE UNCHANGED zset

(* The two Redis commands of generate() time out after 5 s. *)
Tick ==
  /\ now < MaxTime
  /\ \A r \in Recs : gen[r] \notin {"zadd", "expire"}
  /\ now' = now + 1
  /\ EvictIndex
  /\ UNCHANGED <<table, execution, rejecting, scanning, faults>>

Generating(r) ==
  \/ Insert(r) \/ ZAdd(r) \/ ZAddFails(r) \/ ExpireKey(r) \/ ExpireKeyFails(r)
  \/ LeavePending(r)

Executing(e) ==
  \/ \E r \in Recs : AutoExecute(e, r) \/ Approve(e, r)
  \/ Enter(e) \/ MarkExpired(e) \/ MarkExpiredZRem(e)
  \/ IsSent(e) \/ AcquireUserLock(e) \/ CheckAndReserve(e) \/ Dispatch(e)
  \/ MarkSent(e) \/ MarkExecuted(e) \/ ReleaseUserLock(e)
  \/ ExecutorFails(e)

Rejecting(r) == RejectCheck(r) \/ RejectWrite(r) \/ RejectFails(r)

ScanStep(s) ==
  \/ TakeScanLock(s) \/ ListDue(s) \/ PruneItem(s) \/ EndScan(s)
  \/ \E r \in Recs : ExpireItem(s, r)

ScanFault(s) == ScannerDies(s) \/ \E r \in Recs : ItemFails(s, r)

RecNext ==
  \/ \E r \in Recs : Generating(r) \/ Rejecting(r) \/ LockExpires(r)
  \/ \E e \in Executors : Executing(e)
  \/ \E s \in Replicas : ScanStep(s) \/ ScanFault(s)
  \/ ScanLockExpires \/ Tick

RecSpec == RecInit /\ [][RecNext]_recVars

(* The timers of the replicas go on firing, a scan that has begun goes on  *)
(* unless it dies, and the TTL ends for a lock nobody deletes.             *)
FairRecSpec ==
  /\ RecSpec
  /\ \A s \in Replicas : WF_recVars(ScanStep(s))
  /\ WF_recVars((\A s \in Replicas : scan[s] = "idle") /\ ScanLockExpires)

-----------------------------------------------------------------------------
(* A recommendation leaves pending:store only when its row is settled, or  *)
(* with the whole set when the TTL ends: the scan and markExpired update   *)
(* the row, in whatever order they meet, before they remove the id         *)
(* (recommendation.service.ts:134-140, stale-scanner.service.ts:159-171).  *)
PrunedIsSettled ==
  \A r \in Recs :
    row[r] = "pending" => gen[r] \in {"zadd", "unindexed"} \/ r \in index \union evicted

(* A row says executed only after an outbound request was made for it - no *)
(* more than that: outbound.route() swallows a request that failed - and   *)
(* expired only if its time had come, although neither update looks at the *)
(* row it overwrites, and an executor may have lost or never had the lock. *)
StatusIsEarned ==
  \A r \in Recs :
    /\ row[r] = "executed" => attempt[r] # "none"
    /\ row[r] = "expired" => Due(r)

(* The scan never undoes a decision: what was executed or rejected becomes *)
(* expired only by an executor that had found it pending and overdue.      *)
ScanKeepsDecisions ==
  [][\A r \in Recs :
       row[r] \in {"executed", "rejected"} /\ row'[r] = "expired"
         => \E e \in Executors : rec[e] = r /\ pc[e] = "expire"]_recVars

(* A recommendation of the index whose time has come is settled, or taken  *)
(* out by the TTL, whatever scans died, overlapped or failed.              *)
OverdueIsSettled ==
  \A r \in Recs :
    row[r] = "pending" /\ r \in index /\ Due(r) ~> row[r] # "pending" \/ r \in evicted
=============================================================================
