-------------------------- MODULE RecommendationProofs --------------------------
(***************************************************************************)
(* PrunedIsSettled, StatusIsEarned and ScanKeepsDecisions, for any number  *)
(* of recommendations, executors and replicas and any approval windows.    *)
(* The two invariants are about what is written by an id alone, on what    *)
(* was read steps before; so the inductive invariant says, for every step  *)
(* between a read and its write, what of the read still holds.             *)
(***************************************************************************)
EXTENDS Recommendations, TLAPS

\* An id is known to anyone only after its row has been inserted.
KnownIsInserted ==
  /\ \A r \in Recs : row[r] = "none" <=> gen[r] = "none"
  /\ \A r \in index : row[r] # "none"
  /\ \A s \in Replicas : \A r \in batch[s] : row[r] # "none"
  /\ \A e \in Executors : pc[e] # "idle" => row[rec[e]] # "none"
  /\ \A r \in rejecting : row[r] # "none"

\* An id about to leave the index has a settled row.
PruningIsSettled ==
  /\ \A e \in Executors : pc[e] = "zrem" => row[rec[e]] \notin {"none", "pending"}
  /\ \A s \in Replicas : scan[s] = "zrem" => row[item[s]] \notin {"none", "pending"}

\* A status about to be written has been earned.
WritingIsEarned ==
  /\ \A e \in Executors : pc[e] \in {"sent", "mark"} => attempt[rec[e]] # "none"
  /\ \A e \in Executors : pc[e] = "expire" => expiresAt[rec[e]] < now
  /\ \A s \in Replicas : \A r \in batch[s] : Due(r)

RowInv ==
  /\ RecTypeOK /\ KnownIsInserted /\ PruningIsSettled /\ WritingIsEarned
  /\ PrunedIsSettled /\ StatusIsEarned

LEMMA RowInit == RecInit => RowInv
<1> SUFFICES ASSUME RecInit PROVE RowInv
  OBVIOUS
<1>1. RecTypeOK
  <2>1. /\ now \in 0..MaxTime /\ faults \in 0..MaxFaults
        /\ scanLock \in BOOLEAN /\ keyExpires \in Nat \union {None}
    <3>1. 0 \in 0..MaxTime /\ 0 \in 0..MaxFaults
      BY RecAssumption
    <3> QED BY <3>1 DEF RecInit
  <2>2. /\ row \in [Recs -> Statuses \union {"none"}] /\ expiresAt \in [Recs -> Nat]
        /\ gen \in [Recs -> {"none", "zadd", "expire", "route", "done", "unindexed"}]
        /\ index \subseteq Recs /\ evicted \subseteq Recs
    BY DEF RecInit
  <2> QED BY <2>1, <2>2 DEF RecInit, RecTypeOK
<1>2. KnownIsInserted /\ PruningIsSettled /\ WritingIsEarned /\ PrunedIsSettled /\ StatusIsEarned
  BY DEF RecInit, KnownIsInserted, PruningIsSettled, WritingIsEarned, PrunedIsSettled,
     StatusIsEarned
<1> QED BY <1>1, <1>2 DEF RowInv

LEMMA RowStep == RowInv /\ [RecNext]_recVars => RowInv'
<1> SUFFICES ASSUME RowInv, [RecNext]_recVars PROVE RowInv'
  OBVIOUS
<1> USE RecAssumption DEF RowInv, RecTypeOK, KnownIsInserted, PruningIsSettled, WritingIsEarned,
      PrunedIsSettled, StatusIsEarned, Due, Statuses, table, zset, execution, scanning,
      Fault, SetStatus
<1>1. CASE UNCHANGED recVars
  BY <1>1 DEF recVars
<1>2. ASSUME NEW r \in Recs, Generating(r) PROVE RowInv'
  <2>1. CASE Insert(r)
    <3>1. row[r] = "none" /\ r \notin index /\ r \notin rejecting
      BY <2>1 DEF Insert
    <3>2. \A e \in Executors : pc[e] # "idle" => rec[e] # r
      BY <3>1
    <3>3. \A s \in Replicas : r \notin batch[s] /\ (scan[s] = "zrem" => item[s] # r)
      BY <3>1
    <3>4. RecTypeOK'
      BY <2>1 DEF Insert
    <3>5. KnownIsInserted'
      BY <2>1, <3>1, <3>2, <3>3 DEF Insert
    <3>6. PruningIsSettled' /\ WritingIsEarned'
      BY <2>1, <3>2, <3>3 DEF Insert
    <3>7. PrunedIsSettled' /\ StatusIsEarned'
      BY <2>1 DEF Insert
    <3> QED BY <3>4, <3>5, <3>6, <3>7
  <2>2. CASE ZAdd(r)
    BY <2>2 DEF ZAdd
  <2>3. CASE ZAddFails(r)
    BY <2>3 DEF ZAddFails
  <2>4. CASE ExpireKey(r)
    BY <2>4 DEF ExpireKey
  <2>5. CASE ExpireKeyFails(r)
    BY <2>5 DEF ExpireKeyFails
  <2>6. CASE LeavePending(r)
    BY <2>6 DEF LeavePending
  <2> QED BY <1>2, <2>1, <2>2, <2>3, <2>4, <2>5, <2>6 DEF Generating
<1>3. ASSUME NEW r \in Recs, Rejecting(r) \/ LockExpires(r) PROVE RowInv'
  <2>1. CASE RejectCheck(r)
    BY <2>1 DEF RejectCheck
  <2>2. CASE RejectWrite(r)
    BY <2>2 DEF RejectWrite
  <2>3. CASE RejectFails(r)
    BY <2>3 DEF RejectFails
  <2>4. CASE LockExpires(r)
    BY <2>4 DEF LockExpires
  <2> QED BY <1>3, <2>1, <2>2, <2>3, <2>4 DEF Rejecting
<1>4. ASSUME NEW e \in Executors, Executing(e) PROVE RowInv'
  <2> USE DEF Goto, Finish, Begin
  <2>1. ASSUME NEW r \in Recs, AutoExecute(e, r) PROVE RowInv'
    BY <2>1 DEF AutoExecute
  <2>2. ASSUME NEW r \in Recs, Approve(e, r) PROVE RowInv'
    BY <2>2 DEF Approve
  <2>3. CASE Enter(e)
    BY <2>3 DEF Enter
  <2>4. CASE MarkExpired(e)
    BY <2>4 DEF MarkExpired
  <2>5. CASE MarkExpiredZRem(e)
    BY <2>5 DEF MarkExpiredZRem, ZRem
  <2>6. CASE IsSent(e) \/ CheckAndReserve(e)
    BY <2>6 DEF IsSent, CheckAndReserve
  <2>7. CASE AcquireUserLock(e)
    BY <2>7 DEF AcquireUserLock
  <2>8. CASE Dispatch(e)
    BY <2>8 DEF Dispatch
  <2>9. CASE MarkSent(e)
    BY <2>9 DEF MarkSent
  <2>10. CASE MarkExecuted(e)
    BY <2>10 DEF MarkExecuted
  <2>11. CASE ExecutorFails(e)
    BY <2>11 DEF ExecutorFails
  <2>12. CASE ReleaseUserLock(e)
    BY <2>12 DEF ReleaseUserLock, Release
  <2> QED BY <1>4, <2>1, <2>2, <2>3, <2>4, <2>5, <2>6, <2>7, <2>8, <2>9, <2>10, <2>11, <2>12
       DEF Executing
<1>5. ASSUME NEW s \in Replicas, ScanStep(s) \/ ScanFault(s) PROVE RowInv'
  <2> USE DEF ScanGoto
  <2>1. CASE TakeScanLock(s)
    BY <2>1 DEF TakeScanLock
  <2>2. CASE ListDue(s)
    BY <2>2 DEF ListDue
  <2>3. ASSUME NEW r \in Recs, ExpireItem(s, r) PROVE RowInv'
    BY <2>3 DEF ExpireItem
  <2>4. CASE PruneItem(s)
    BY <2>4 DEF PruneItem, ZRem
  <2>5. CASE EndScan(s)
    <3>1. /\ scan' = [scan EXCEPT ![s] = "idle"] /\ scanLock' = FALSE
          /\ UNCHANGED <<now, row, expiresAt, gen, index, keyExpires, evicted, pc, rec, lock, sent,
                         attempt, rejecting, batch, item, faults>>
      BY <2>5 DEF EndScan
    <3>2. \A t \in Replicas : scan'[t] = "zrem" => scan[t] = "zrem"
      BY <3>1
    <3>3. scan' \in [Replicas -> {"idle", "list", "item", "zrem"}] /\ scanLock' \in BOOLEAN
      BY <3>1
    <3>4. RecTypeOK'
      BY <3>1, <3>2, <3>3
    <3> QED BY <3>1, <3>2, <3>4
  <2>6. CASE ScannerDies(s)
    BY <2>6 DEF ScannerDies
  <2>7. ASSUME NEW r \in Recs, ItemFails(s, r) PROVE RowInv'
    BY <2>7 DEF ItemFails
  <2> QED BY <1>5, <2>1, <2>2, <2>3, <2>4, <2>5, <2>6, <2>7 DEF ScanStep, ScanFault
<1>6. CASE ScanLockExpires
  BY <1>6 DEF ScanLockExpires
<1>7. CASE Tick
  <2>1. now' = now + 1 /\ now' \in 0..MaxTime
    BY <1>7 DEF Tick
  <2>2. /\ index' \subseteq index /\ evicted' \subseteq evicted \union index
        /\ index \union evicted \subseteq index' \union evicted'
        /\ keyExpires' \in {keyExpires, None}
    <3>1. CASE UNCHANGED zset
      BY <3>1
    <3>2. CASE evicted' = evicted \union index /\ index' = {} /\ keyExpires' = None
      BY <3>2
    <3> QED BY <1>7, <3>1, <3>2 DEF Tick, EvictIndex
  <2>3. UNCHANGED <<row, expiresAt, gen, pc, rec, lock, sent, attempt, rejecting, scan, batch,
                    item, scanLock, faults>>
    BY <1>7 DEF Tick
  <2>4. RecTypeOK'
    BY <2>1, <2>2, <2>3
  <2>5. KnownIsInserted' /\ PruningIsSettled' /\ PrunedIsSettled'
    BY <2>2, <2>3
  <2>6. \A r \in Recs : expiresAt[r] \in Nat /\ now \in Nat
    OBVIOUS
  <2>7. WritingIsEarned' /\ StatusIsEarned'
    BY <2>1, <2>3, <2>6
  <2> QED BY <2>4, <2>5, <2>7
<1> QED BY <1>1, <1>2, <1>3, <1>4, <1>5, <1>6, <1>7 DEF RecNext

(* The types of the state, for every value of the constants.               *)
THEOREM RecTypeCorrect == RecSpec => []RecTypeOK
<1>1. RowInv => RecTypeOK
  BY DEF RowInv
<1> QED BY <1>1, RowInit, RowStep, PTL DEF RecSpec

(* An id leaves pending:store only when its row is settled (markExpired,   *)
(* expireRecommendations), or when the TTL takes the whole set.            *)
THEOREM PruningIsSafe == RecSpec => []PrunedIsSettled
<1>1. RowInv => PrunedIsSettled
  BY DEF RowInv
<1> QED BY <1>1, RowInit, RowStep, PTL DEF RecSpec

(* A row says executed only after an outbound request was made for it,     *)
(* delivered or not (outbound.route, markExecuted), and expired only after *)
(* its time (markExpired, expireRecommendations).                          *)
THEOREM StatusIsDeserved == RecSpec => []StatusIsEarned
<1>1. RowInv => StatusIsEarned
  BY DEF RowInv
<1> QED BY <1>1, RowInit, RowStep, PTL DEF RecSpec

(* The row of a recommendation changes in these steps only.                *)
LEMMA WhoWritesRows ==
  ASSUME RecTypeOK, RecNext, NEW r \in Recs, row'[r] = "expired", row[r] # "expired"
  PROVE  \/ \E e \in Executors : rec[e] = r /\ pc[e] = "expire"
         \/ row[r] = "pending"
<1> USE DEF RecTypeOK, SetStatus, table, zset, execution, scanning
<1>1. ASSUME NEW q \in Recs, Generating(q) \/ Rejecting(q) \/ LockExpires(q)
      PROVE  FALSE
  BY <1>1 DEF Generating, Insert, ZAdd, ZAddFails, ExpireKey, ExpireKeyFails, LeavePending,
     Rejecting, RejectCheck, RejectWrite, RejectFails, LockExpires
<1>2. ASSUME NEW e \in Executors, Executing(e), rec[e] # r \/ pc[e] # "expire"
      PROVE  FALSE
  <2>1. CASE MarkExpired(e)
    BY <1>2, <2>1 DEF MarkExpired
  <2>2. CASE ~MarkExpired(e)
    BY <1>2, <2>2 DEF Executing, AutoExecute, Approve, Enter, MarkExpiredZRem, IsSent,
       AcquireUserLock, CheckAndReserve, Dispatch, MarkSent, MarkExecuted, ReleaseUserLock,
       ExecutorFails
  <2> QED BY <2>1, <2>2
<1>3. ASSUME NEW s \in Replicas, ScanStep(s) \/ ScanFault(s), row[r] # "pending"
      PROVE  FALSE
  BY <1>3 DEF ScanStep, ScanFault, TakeScanLock, ListDue, PruneItem, EndScan, ExpireItem,
     ScannerDies, ItemFails
<1>4. ASSUME ScanLockExpires \/ Tick PROVE FALSE
  BY <1>4 DEF ScanLockExpires, Tick
<1> QED BY <1>1, <1>2, <1>3, <1>4 DEF RecNext

(* The expiry scan never undoes a decision (the condition on the status in *)
(* expireRecommendations): only an executor that has found the row pending *)
(* and overdue, and is overtaken, may write expired over it.               *)
THEOREM DecisionsAreKept == RecSpec => ScanKeepsDecisions
<1> DEFINE Kept(r) ==
      row[r] \in {"executed", "rejected"} /\ row'[r] = "expired"
        => \E e \in Executors : rec[e] = r /\ pc[e] = "expire"
<1>1. RowInv /\ [RecNext]_recVars => [\A r \in Recs : Kept(r)]_recVars
  <2> SUFFICES ASSUME RecTypeOK, RecNext, NEW r \in Recs PROVE Kept(r)
    BY DEF RowInv
  <2> QED BY WhoWritesRows
<1> QED BY <1>1, RowInit, RowStep, PTL DEF RecSpec, ScanKeepsDecisions
================================================================================
