---------------------------- MODULE PackageProofs -----------------------------
(***************************************************************************)
(* Proofs about the shared packages: the two-level cache (Cache) and the   *)
(* ClickHouse connection pool (ConnectionPool).                            *)
(***************************************************************************)
EXTENDS Cache, ConnectionPool, FiniteSetTheorems, SequenceTheorems, TLAPS

-------------------------------------------------------------------------------
(***************************************************************************)
(* BoundedStaleness, for any number of replicas and clients and any TTLs.  *)
(* It needs what a client is about to write to be as recent as the time it *)
(* has taken, which is at most Latency.                                    *)
(***************************************************************************)
\* A version that is the source's, or yet to come, has not been superseded.
UnsupersededIsZero == \A v \in Versions : v >= version => superseded[v] = 0

\* What a client is about to write was current when its age began.
WrittenIsRecent == \A c \in Clients : Writing(c) => CurrentWithin(val[c], age[c])

StalenessInv == CacheTypeOK /\ UnsupersededIsZero /\ WrittenIsRecent /\ BoundedStaleness

(* A tick keeps an entry within its level's bound: it is either dropped or *)
(* a tick older, and its version superseded by at most a tick more.        *)
LEMMA OlderKeepsBound ==
  ASSUME NEW ttl \in Nat, NEW entry \in Entries(ttl), Older(entry) # NoEntry
  PROVE  /\ entry # NoEntry
         /\ Older(entry) \in [val : Versions, left : 1..ttl]
         /\ Older(entry).val = entry.val
         /\ Older(entry).left = entry.left - 1
  BY DEF Entries, Older, NoEntry

(* Older of an entry is an entry or none. *)
LEMMA OlderType ==
  ASSUME NEW ttl \in Nat, NEW entry \in Entries(ttl)
  PROVE  Older(entry) \in Entries(ttl)
  BY DEF Entries, Older, NoEntry

LEMMA MaxAgeType == MaxAge \in Nat
  BY CacheAssumption DEF MaxAge

(* The variables keep their types: the model's states are those of the two *)
(* levels and of the calls in flight (CacheService.get, set, invalidate).  *)
LEMMA CacheTypeStep == CacheTypeOK /\ [CacheNext]_cacheVars => CacheTypeOK'
<1> SUFFICES ASSUME CacheTypeOK, [CacheNext]_cacheVars PROVE CacheTypeOK'
  OBVIOUS
<1> USE CacheAssumption, MaxAgeType DEF CacheTypeOK
<1>0. NoEntry \in Entries(L1Ttl) /\ NoEntry \in Entries(Ttl)
  BY DEF Entries
<1>1. CASE UNCHANGED cacheVars
  BY <1>1 DEF cacheVars
<1>2. ASSUME NEW c \in Clients, GetL1(c) PROVE CacheTypeOK'
  BY <1>2 DEF GetL1
<1>3. ASSUME NEW c \in Clients, GetL2(c) PROVE CacheTypeOK'
  BY <1>3 DEF GetL2
<1>4. ASSUME NEW c \in Clients, Load(c) PROVE CacheTypeOK'
  BY <1>4 DEF Load
<1>5. ASSUME NEW c \in Clients, SetL1(c) PROVE CacheTypeOK'
  <2>1. [val |-> val[c], left |-> L1Ttl] \in Entries(L1Ttl)
    BY DEF Entries
  <2> QED BY <1>5, <2>1 DEF SetL1
<1>6. ASSUME NEW c \in Clients, SetL2(c) PROVE CacheTypeOK'
  <2>1. [val |-> val[c], left |-> Ttl] \in Entries(Ttl)
    BY DEF Entries
  <2>2. 0 \in Versions
    BY DEF Versions
  <2> QED BY <1>6, <2>1, <2>2 DEF SetL2
<1>7. ASSUME NEW c \in Clients, InvalidateL1(c) PROVE CacheTypeOK'
  BY <1>7, <1>0 DEF InvalidateL1
<1>8. ASSUME NEW c \in Clients, InvalidateL2(c) PROVE CacheTypeOK'
  BY <1>8, <1>0 DEF InvalidateL2
<1>9. CASE Publish
  BY <1>9 DEF Publish, Versions
<1>10. ASSUME NEW r \in Replicas, Evict(r) PROVE CacheTypeOK'
  BY <1>10, <1>0 DEF Evict
<1>11. CASE Tick
  <2>1. l1' \in [Replicas -> Entries(L1Ttl)] /\ l2' \in Entries(Ttl)
    BY <1>11, OlderType DEF Tick
  <2>2. superseded' \in [Versions -> 0..MaxAge]
    BY <1>11 DEF Tick, Versions
  <2>3. age' \in [Clients -> 0..Latency]
    BY <1>11 DEF Tick
  <2> QED BY <1>11, <2>1, <2>2, <2>3 DEF Tick
<1> QED
  BY <1>1, <1>2, <1>3, <1>4, <1>5, <1>6, <1>7, <1>8, <1>9, <1>10, <1>11
     DEF CacheNext, ClientStep

LEMMA StalenessInit == CacheInit => StalenessInv
<1> SUFFICES ASSUME CacheInit PROVE StalenessInv
  OBVIOUS
<1>1. CacheTypeOK
  BY CacheAssumption, MaxAgeType DEF CacheInit, CacheTypeOK, Entries, Versions
<1>2. UnsupersededIsZero /\ WrittenIsRecent /\ BoundedStaleness
  BY DEF CacheInit, UnsupersededIsZero, WrittenIsRecent, Writing, BoundedStaleness
<1> QED BY <1>1, <1>2 DEF StalenessInv

LEMMA StalenessStep == StalenessInv /\ [CacheNext]_cacheVars => StalenessInv'
<1> SUFFICES ASSUME StalenessInv, [CacheNext]_cacheVars PROVE StalenessInv'
  OBVIOUS
<1> USE CacheAssumption DEF StalenessInv, CacheTypeOK
<1>0. CacheTypeOK'
  BY CacheTypeStep
<1>1. CASE UNCHANGED cacheVars
  BY <1>1 DEF cacheVars, UnsupersededIsZero, WrittenIsRecent, Writing, CurrentWithin,
     BoundedStaleness
<1>2. ASSUME NEW c \in Clients, GetL1(c) \/ GetL2(c) \/ InvalidateL2(c) \/ InvalidateL1(c)
      PROVE StalenessInv'
  BY <1>0, <1>2 DEF GetL1, GetL2, InvalidateL1, InvalidateL2, UnsupersededIsZero, WrittenIsRecent,
     Writing, CurrentWithin, BoundedStaleness
<1>3. ASSUME NEW c \in Clients, Load(c) PROVE StalenessInv'
  <2>1. superseded[version] = 0
    BY DEF UnsupersededIsZero, Versions
  <2>2. WrittenIsRecent'
    BY <1>3, <2>1 DEF Load, WrittenIsRecent, Writing, CurrentWithin
  <2>3. UnsupersededIsZero' /\ BoundedStaleness'
    BY <1>3 DEF Load, UnsupersededIsZero, BoundedStaleness, CurrentWithin
  <2> QED BY <1>0, <2>2, <2>3
<1>4. ASSUME NEW c \in Clients, SetL1(c) PROVE StalenessInv'
  <2>1. superseded[val[c]] <= Latency
    <3>1. superseded[val[c]] <= age[c] /\ age[c] \in 0..Latency
      BY <1>4 DEF SetL1, WrittenIsRecent, Writing, CurrentWithin
    <3>2. superseded[val[c]] \in Nat
      BY MaxAgeType
    <3> QED BY <3>1, <3>2
  <2>2. \A r \in Replicas :
          l1'[r] # NoEntry => CurrentWithin(l1'[r].val, L1Ttl - l1'[r].left + Latency)
    BY <1>4, <2>1 DEF SetL1, BoundedStaleness, CurrentWithin
  <2>3. UnsupersededIsZero' /\ WrittenIsRecent' /\ BoundedStaleness'
    BY <1>4, <2>2 DEF SetL1, UnsupersededIsZero, WrittenIsRecent, Writing, BoundedStaleness, CurrentWithin
  <2> QED BY <1>0, <2>3
<1>5. ASSUME NEW c \in Clients, SetL2(c) PROVE StalenessInv'
  <2>1. superseded[val[c]] <= Latency
    <3>1. superseded[val[c]] <= age[c] /\ age[c] \in 0..Latency
      BY <1>5 DEF SetL2, WrittenIsRecent, Writing, CurrentWithin
    <3>2. superseded[val[c]] \in Nat
      BY MaxAgeType
    <3> QED BY <3>1, <3>2
  <2>2. UnsupersededIsZero' /\ WrittenIsRecent'
    BY <1>5 DEF SetL2, UnsupersededIsZero, WrittenIsRecent, Writing, CurrentWithin
  <2>3. BoundedStaleness'
    BY <1>5, <2>1 DEF SetL2, BoundedStaleness, CurrentWithin
  <2> QED BY <1>0, <2>2, <2>3
<1>6. CASE Publish
  BY <1>0, <1>6 DEF Publish, UnsupersededIsZero, WrittenIsRecent, Writing, CurrentWithin,
     BoundedStaleness, Versions
<1>7. ASSUME NEW r \in Replicas, Evict(r) PROVE StalenessInv'
  BY <1>0, <1>7 DEF Evict, UnsupersededIsZero, WrittenIsRecent, Writing, CurrentWithin,
     BoundedStaleness
<1>8. CASE Tick
  <2>1. \A v \in Versions : /\ superseded'[v] \in Nat /\ superseded[v] \in Nat
                            /\ superseded'[v] <= superseded[v] + 1
    BY <1>0, <1>8, MaxAgeType DEF Tick
  <2>2. UnsupersededIsZero'
    BY <1>8 DEF Tick, UnsupersededIsZero, Versions
  <2>3. WrittenIsRecent'
    BY <1>8, <2>1 DEF Tick, WrittenIsRecent, Writing, CurrentWithin
  <2>4. ASSUME NEW r \in Replicas, l1'[r] # NoEntry
        PROVE  CurrentWithin(l1[r].val, L1Ttl - l1[r].left + Latency)'
    <3>1. l1'[r] = Older(l1[r])
      BY <1>8 DEF Tick
    <3>2. /\ l1[r] # NoEntry /\ l1'[r].val = l1[r].val
          /\ l1'[r].left = l1[r].left - 1
          /\ l1'[r].val \in Versions /\ l1'[r].left \in 1..L1Ttl
      BY <2>4, <3>1, OlderKeepsBound
    <3>3. superseded[l1[r].val] <= L1Ttl - l1[r].left + Latency
      BY <3>2 DEF BoundedStaleness, CurrentWithin
    <3>4. l1[r] \in [val : Versions, left : 1..L1Ttl]
      BY <3>2 DEF Entries
    <3> QED BY <2>1, <3>2, <3>3, <3>4 DEF CurrentWithin
  <2>5. l2' # NoEntry => CurrentWithin(l2.val, Ttl - l2.left + Latency)'
    <3> SUFFICES ASSUME l2' # NoEntry PROVE CurrentWithin(l2.val, Ttl - l2.left + Latency)'
      OBVIOUS
    <3>1. l2' = Older(l2)
      BY <1>8 DEF Tick
    <3>2. /\ l2 # NoEntry /\ l2'.val = l2.val
          /\ l2'.left = l2.left - 1
          /\ l2'.val \in Versions /\ l2'.left \in 1..Ttl
      BY <3>1, OlderKeepsBound
    <3>3. superseded[l2.val] <= Ttl - l2.left + Latency
      BY <3>2 DEF BoundedStaleness, CurrentWithin
    <3>4. l2 \in [val : Versions, left : 1..Ttl]
      BY <3>2 DEF Entries
    <3> QED BY <2>1, <3>2, <3>3, <3>4 DEF CurrentWithin
  <2>6. BoundedStaleness'
    BY <2>4, <2>5 DEF BoundedStaleness, CurrentWithin
  <2> QED BY <1>0, <2>2, <2>3, <2>6
<1> QED
  BY <1>1, <1>2, <1>3, <1>4, <1>5, <1>6, <1>7, <1>8 DEF CacheNext, ClientStep

(* The types of the cache's state, for every value of the constants. *)
THEOREM CacheTypeCorrect == CacheSpec => []CacheTypeOK
<1>1. StalenessInv => CacheTypeOK
  BY DEF StalenessInv
<1> QED BY <1>1, StalenessInit, StalenessStep, PTL DEF CacheSpec

(* What a level of the cache can answer was the source's content at most   *)
(* its own TTL and one slow write ago (CacheService.get), for every number *)
(* of replicas and clients and every pair of TTLs.                         *)
THEOREM StalenessBounded == CacheSpec => []BoundedStaleness
<1>1. StalenessInv => BoundedStaleness
  BY DEF StalenessInv
<1> QED BY <1>1, StalenessInit, StalenessStep, PTL DEF CacheSpec

-------------------------------------------------------------------------------
(***************************************************************************)
(* ExclusiveUse, LentIsHeld and CountIsPoolSize, for any number of         *)
(* connections, clients and overlapping health checks.  The first two need *)
(* to know who is in the queue: a release gives its connection to the      *)
(* queue's head, which must be a client that has none.                     *)
(***************************************************************************)
\* A client has a connection exactly when it uses one, and that one is lent.
HoldersAreLent ==
  \A c \in Callers : /\ held[c] # NoConn <=> step[c] = "holding"
                     /\ held[c] # NoConn => held[c] \in lent

\* The queue holds clients that wait, each once.
QueueIsWaiting ==
  /\ \A i \in 1..Len(pending) : step[pending[i]] = "waiting"
  /\ \A i, j \in 1..Len(pending) : pending[i] = pending[j] => i = j

LendingInv ==
  PoolTypeOK /\ HoldersAreLent /\ QueueIsWaiting /\ ExclusiveUse /\ LentIsHeld

(* What splicing one element out of the queue leaves.                      *)
LEMMA RemoveAtElements ==
  ASSUME NEW S, NEW s \in Seq(S), NEW i \in 1..Len(s)
  PROVE  /\ RemoveAt(s, i) \in Seq(S)
         /\ Len(RemoveAt(s, i)) = Len(s) - 1
         /\ \A j \in 1..Len(s) - 1 : RemoveAt(s, i)[j] = IF j < i THEN s[j] ELSE s[j + 1]
<1> DEFINE a == SubSeq(s, 1, i - 1)
           b == SubSeq(s, i + 1, Len(s))
<1>1. /\ a \in Seq(S) /\ Len(a) = i - 1
      /\ \A j \in 1..i - 1 : a[j] = s[j]
  OBVIOUS
<1>2. /\ b \in Seq(S) /\ Len(b) = Len(s) - i
      /\ \A j \in 1..Len(s) - i : b[j] = s[i + j]
  OBVIOUS
<1>3. RemoveAt(s, i) = a \o b
  BY DEF RemoveAt
<1> HIDE DEF a, b
<1>4. Len(s) \in Nat /\ i \in Nat /\ 1 <= i /\ i <= Len(s)
  OBVIOUS
<1>5. a \o b \in Seq(S) /\ Len(a \o b) = Len(s) - 1
  <2>1. a \o b \in Seq(S) /\ Len(a \o b) = Len(a) + Len(b)
    BY <1>1, <1>2, ConcatProperties
  <2>2. Len(a) + Len(b) = Len(s) - 1
    <3>1. (i - 1) + (Len(s) - i) = Len(s) - 1
      BY <1>4
    <3>2. Len(a) = i - 1 /\ Len(b) = Len(s) - i
      BY <1>1, <1>2
    <3> QED BY <3>1, <3>2
  <2> QED BY <2>1, <2>2
<1>6. ASSUME NEW j \in 1..Len(s) - 1
      PROVE  (a \o b)[j] = IF j < i THEN s[j] ELSE s[j + 1]
  <2>1. (a \o b)[j] = IF j <= Len(a) THEN a[j] ELSE b[j - Len(a)]
    BY <1>1, <1>2, <1>4
  <2>2. CASE j < i
    BY <2>1, <2>2, <1>1, <1>4
  <2>3. CASE ~(j < i)
    <3>1. j - (i - 1) \in 1..Len(s) - i /\ i + (j - (i - 1)) = j + 1
      BY <2>3, <1>4
    <3> QED BY <2>1, <2>3, <3>1, <1>1, <1>2, <1>4
  <2> QED BY <2>2, <2>3
<1> QED BY <1>3, <1>5, <1>6

(* Every set of connections or checks is finite.                           *)
LEMMA CardinalityIsNat == ASSUME NEW s \in SUBSET Conns PROVE IsFiniteSet(s) /\ Cardinality(s) \in Nat
  BY PoolAssumption, FS_Subset, FS_CardinalityType

(* What the steps of a health check leave alone: the lending, except that  *)
(* a connection leaves the pool, or a fresh one joins it.                  *)
LEMMA CheckKeepsLending ==
  ASSUME PoolTypeOK, NEW h \in Checks, CheckNext(h)
  PROVE  /\ UNCHANGED <<phase, lent, step, held, pending>>
         /\ pool' \intersect lent \subseteq pool
  BY DEF CheckNext, StartCheck, StartPing, PingEnds, EndPings, RemoveBad, CountDown,
     PlanReplacements, Replace, EndCheck, lending, Fresh

(* The variables keep their types in a step of a health check.             *)
LEMMA CheckTypeStep ==
  ASSUME PoolTypeOK, NEW h \in Checks, CheckNext(h)
  PROVE  PoolTypeOK'
<1> USE DEF PoolTypeOK, lending
<1>1. CASE StartCheck(h)
  BY <1>1 DEF StartCheck
<1>2. CASE StartPing(h)
  BY <1>2 DEF StartPing
<1>3. CASE PingEnds(h)
  BY <1>3 DEF PingEnds
<1>4. CASE EndPings(h)
  <2>1. Cardinality(bad[h]) \in Nat
    BY CardinalityIsNat
  <2> QED BY <1>4, <2>1 DEF EndPings
<1>5. CASE RemoveBad(h)
  BY <1>5 DEF RemoveBad
<1>6. CASE CountDown(h)
  BY <1>6 DEF CountDown
<1>7. CASE PlanReplacements(h)
  BY <1>7, PoolAssumption DEF PlanReplacements
<1>8. CASE Replace(h)
  BY <1>8 DEF Replace
<1>9. CASE EndCheck(h)
  BY <1>9 DEF EndCheck
<1> QED BY <1>1, <1>2, <1>3, <1>4, <1>5, <1>6, <1>7, <1>8, <1>9 DEF CheckNext

(* The variables keep their types in a step of a client.                   *)
LEMMA ClientTypeStep ==
  ASSUME PoolTypeOK, NEW c \in Callers, ClientNext(c), HoldersAreLent
  PROVE  PoolTypeOK'
<1> USE DEF PoolTypeOK
<1>1. CASE AcquireIdle(c)
  BY <1>1 DEF AcquireIdle, Idle, Holds, checking
<1>2. CASE AcquireCreates(c)
  BY <1>2 DEF AcquireCreates, checking
<1>3. CASE AcquireWaits(c) \/ CreationFails(c)
  <2>1. Queue(c)
    BY <1>3 DEF AcquireWaits, CreationFails
  <2>2. Append(pending, c) \in Seq(Callers)
    OBVIOUS
  <2> QED BY <2>1, <2>2 DEF Queue, checking
<1>4. CASE Created(c)
  BY <1>4 DEF Created, Holds, checking
<1>5. CASE AcquireTimeout(c)
  <2>1. PICK i \in 1..Len(pending) : pending' = RemoveAt(pending, i)
    BY <1>5 DEF AcquireTimeout
  <2>2. pending' \in Seq(Callers)
    BY <2>1, RemoveAtElements
  <2> QED BY <1>5, <2>2 DEF AcquireTimeout, checking
<1>6. CASE ReleaseCloses(c)
  BY <1>6 DEF ReleaseCloses, Returns, RemoveFromPool, checking
<1>7. CASE ReleaseHandsOver(c)
  <2>1. Head(pending) \in Callers /\ Tail(pending) \in Seq(Callers)
    BY <1>7 DEF ReleaseHandsOver
  <2> QED BY <1>7, <2>1 DEF ReleaseHandsOver, checking
<1>8. CASE ReleaseReturns(c)
  BY <1>8 DEF ReleaseReturns, Returns, RemoveFromPool, checking
<1> QED BY <1>1, <1>2, <1>3, <1>4, <1>5, <1>6, <1>7, <1>8 DEF ClientNext

LEMMA LendingInit == PoolInit => LendingInv
<1> SUFFICES ASSUME PoolInit PROVE LendingInv
  OBVIOUS
<1>1. PoolTypeOK
  <2>1. pool \subseteq Conns
    BY DEF PoolInit
  <2>2. Cardinality(pool) \in Nat
    BY <2>1, CardinalityIsNat
  <2> QED BY <2>1, <2>2 DEF PoolInit, PoolTypeOK
<1>2. HoldersAreLent /\ QueueIsWaiting /\ ExclusiveUse /\ LentIsHeld
  BY DEF PoolInit, HoldersAreLent, QueueIsWaiting, ExclusiveUse, LentIsHeld
<1> QED BY <1>1, <1>2 DEF LendingInv

LEMMA LendingStep == LendingInv /\ [PoolNext]_poolVars => LendingInv'
<1> SUFFICES ASSUME LendingInv, [PoolNext]_poolVars PROVE LendingInv'
  OBVIOUS
<1> USE PoolAssumption DEF LendingInv
<1> HIDE DEF PoolTypeOK
<1>1. CASE UNCHANGED poolVars
  BY <1>1 DEF poolVars, lending, checking, PoolTypeOK, HoldersAreLent, QueueIsWaiting,
     ExclusiveUse, LentIsHeld
<1>2. ASSUME NEW h \in Checks, CheckNext(h) PROVE LendingInv'
  <2>1. PoolTypeOK'
    BY <1>2, CheckTypeStep
  <2>2. /\ UNCHANGED <<phase, lent, step, held, pending>>
        /\ pool' \intersect lent \subseteq pool
    BY <1>2, CheckKeepsLending
  <2>3. HoldersAreLent' /\ QueueIsWaiting' /\ ExclusiveUse'
    BY <2>2 DEF HoldersAreLent, QueueIsWaiting, ExclusiveUse
  <2>4. LentIsHeld'
    BY <2>2 DEF LentIsHeld
  <2> QED BY <2>1, <2>3, <2>4
<1>3. ASSUME NEW c \in Callers, ClientNext(c) PROVE LendingInv'
  <2>0. PoolTypeOK'
    BY <1>3, ClientTypeStep
  <2> USE DEF PoolTypeOK, HoldersAreLent, QueueIsWaiting
  <2>1. CASE AcquireIdle(c)
    <3>1. PICK k \in pool \ lent : lent' = lent \union {k} /\ Holds(c, k)
      BY <2>1 DEF AcquireIdle, Idle
    <3>2. UNCHANGED <<pool, pending>> /\ step[c] = "idle" /\ k # NoConn
      BY <2>1, <3>1 DEF AcquireIdle
    <3> QED BY <2>0, <3>1, <3>2 DEF Holds, ExclusiveUse, LentIsHeld
  <2>2. CASE AcquireCreates(c)
    BY <2>0, <2>2 DEF AcquireCreates, ExclusiveUse, LentIsHeld
  <2>3. CASE AcquireWaits(c) \/ CreationFails(c)
    <3>1. Queue(c) /\ step[c] \in {"idle", "creating"}
      BY <2>3 DEF AcquireWaits, CreationFails
    <3>2. \A i \in 1..Len(pending) : pending[i] \in Callers /\ pending[i] # c
      BY <3>1
    <3>3. QueueIsWaiting'
      BY <3>1, <3>2 DEF Queue
    <3>4. HoldersAreLent' /\ ExclusiveUse' /\ LentIsHeld'
      BY <3>1 DEF Queue, ExclusiveUse, LentIsHeld
    <3> QED BY <2>0, <3>3, <3>4
  <2>4. CASE Created(c)
    <3>1. PICK k \in Conns : /\ Fresh(k) /\ pool' = pool \union {k}
                             /\ lent' = lent \union {k} /\ Holds(c, k)
      BY <2>4 DEF Created
    <3>2. UNCHANGED pending /\ step[c] = "creating" /\ k # NoConn
      BY <2>4 DEF Created
    <3>3. k \notin lent /\ \A d \in Callers : held[d] # k
      BY <3>1 DEF Fresh
    <3>4. HoldersAreLent' /\ QueueIsWaiting'
      BY <2>0, <3>1, <3>2 DEF Holds
    <3>5. ExclusiveUse'
      BY <2>0, <3>1, <3>2, <3>3 DEF Holds, ExclusiveUse
    <3>6. ASSUME NEW x \in pool' \intersect lent' PROVE \E d \in Callers : held'[d] = x
      <4>1. held' = [held EXCEPT ![c] = k]
        BY <3>1 DEF Holds
      <4>2. CASE x = k
        BY <4>1, <4>2
      <4>3. CASE x # k
        <5>1. x \in pool \intersect lent
          BY <3>1, <3>6, <4>3
        <5>2. PICK d \in Callers : held[d] = x
          BY <5>1 DEF LentIsHeld
        <5>3. d # c
          BY <3>2, <5>1, <5>2
        <5> QED BY <4>1, <5>2, <5>3
      <4> QED BY <4>2, <4>3
    <3> QED BY <2>0, <3>4, <3>5, <3>6 DEF LentIsHeld
  <2>5. CASE AcquireTimeout(c)
    <3>0. pending \in Seq(Callers) /\ Len(pending) \in Nat
      OBVIOUS
    <3>1. PICK i \in 1..Len(pending) : pending[i] = c /\ pending' = RemoveAt(pending, i)
      BY <2>5 DEF AcquireTimeout
    <3>2. /\ Len(pending') = Len(pending) - 1
          /\ \A j \in 1..Len(pending) - 1 :
               pending'[j] = IF j < i THEN pending[j] ELSE pending[j + 1]
      <4>1. /\ Len(RemoveAt(pending, i)) = Len(pending) - 1
            /\ \A j \in 1..Len(pending) - 1 : RemoveAt(pending, i)[j] =
                 IF j < i THEN pending[j] ELSE pending[j + 1]
        BY <3>0, RemoveAtElements
      <4> QED BY <3>1, <4>1
    <3>3. step[c] = "waiting" /\ UNCHANGED <<pool, lent, held>> /\ step' = [step EXCEPT ![c] = "idle"]
      BY <2>5, <3>1 DEF AcquireTimeout
    <3>4. ASSUME NEW j \in 1..Len(pending')
          PROVE  \E n \in 1..Len(pending) : /\ n # i /\ pending'[j] = pending[n]
                                            /\ n = IF j < i THEN j ELSE j + 1
      <4>1. j \in 1..Len(pending) - 1
        BY <3>2
      <4>2. CASE j < i
        BY <4>1, <4>2, <3>0, <3>2
      <4>3. CASE ~(j < i)
        <5>1. j + 1 \in 1..Len(pending) /\ j + 1 # i
          BY <4>1, <4>3, <3>0
        <5>2. pending'[j] = pending[j + 1]
          BY <4>1, <4>3, <3>2
        <5> QED BY <4>3, <5>1, <5>2
      <4> QED BY <4>2, <4>3
    <3>5. QueueIsWaiting'
      <4>1. ASSUME NEW j \in 1..Len(pending') PROVE step'[pending'[j]] = "waiting"
        <5>1. PICK n \in 1..Len(pending) : n # i /\ pending'[j] = pending[n]
          BY <3>4
        <5>2. pending[n] # c /\ pending[n] \in Callers /\ step[pending[n]] = "waiting"
          BY <5>1, <3>1
        <5> QED BY <5>1, <5>2, <3>3
      <4>2. ASSUME NEW j \in 1..Len(pending'), NEW m \in 1..Len(pending'),
                   pending'[j] = pending'[m]
            PROVE  j = m
        <5>1. (IF j < i THEN j ELSE j + 1) = (IF m < i THEN m ELSE m + 1)
          BY <4>2, <3>4
        <5>2. i \in Nat /\ j \in Nat /\ m \in Nat
          BY <3>0, <3>2
        <5> QED BY <5>1, <5>2
      <4> QED BY <4>1, <4>2
    <3>6. HoldersAreLent' /\ ExclusiveUse' /\ LentIsHeld'
      BY <3>3 DEF ExclusiveUse, LentIsHeld
    <3> QED BY <2>0, <3>5, <3>6
  <2>6. CASE ReleaseCloses(c) \/ ReleaseReturns(c)
    <3>1. /\ Returns(c) /\ lent' = lent \ {held[c]} /\ UNCHANGED pending
          /\ pool' \in {pool, pool \ {held[c]}}
      BY <2>6 DEF ReleaseCloses, ReleaseReturns, RemoveFromPool
    <3>2. HoldersAreLent' /\ QueueIsWaiting'
      BY <3>1 DEF Returns, ExclusiveUse
    <3>3. ExclusiveUse' /\ LentIsHeld'
      BY <3>1 DEF Returns, ExclusiveUse, LentIsHeld
    <3> QED BY <2>0, <3>2, <3>3
  <2>7. CASE ReleaseHandsOver(c)
    <3> DEFINE w == Head(pending)
    <3>1. /\ w \in Callers /\ w = pending[1] /\ 1 \in 1..Len(pending)
          /\ Len(pending') = Len(pending) - 1
          /\ \A j \in 1..Len(pending) - 1 : pending'[j] = pending[j + 1]
      BY <2>7 DEF ReleaseHandsOver
    <3>2. step[w] = "waiting" /\ step[c] = "holding" /\ w # c
      BY <2>7, <3>1 DEF ReleaseHandsOver
    <3>3. /\ held' = [held EXCEPT ![c] = NoConn, ![w] = held[c]]
          /\ step' = [step EXCEPT ![c] = "idle", ![w] = "holding"]
          /\ UNCHANGED <<pool, lent>>
      BY <2>7 DEF ReleaseHandsOver
    <3> HIDE DEF w
    <3>4. ASSUME NEW j \in 1..Len(pending')
          PROVE  /\ j + 1 \in 1..Len(pending) /\ pending'[j] = pending[j + 1]
                 /\ pending'[j] \notin {c, w} /\ pending'[j] \in Callers
      <4>1. j \in 1..Len(pending) - 1 /\ Len(pending) \in Nat
        BY <3>1
      <4>2. j + 1 \in 1..Len(pending) /\ j + 1 # 1 /\ pending'[j] = pending[j + 1]
        BY <4>1, <3>1
      <4>3. pending[j + 1] # pending[1] /\ step[pending[j + 1]] = "waiting"
        BY <4>2, <3>1
      <4>4. pending[j + 1] \in Callers
        BY <4>2
      <4> QED BY <4>2, <4>3, <4>4, <3>1, <3>2
    <3>5. QueueIsWaiting'
      <4>1. \A j \in 1..Len(pending') : step'[pending'[j]] = "waiting"
        BY <3>2, <3>3, <3>4
      <4>2. ASSUME NEW j \in 1..Len(pending'), NEW m \in 1..Len(pending'),
                   pending'[j] = pending'[m]
            PROVE  j = m
        <5>1. j + 1 = m + 1
          BY <4>2, <3>4
        <5> QED BY <5>1
      <4> QED BY <4>1, <4>2
    <3>6. HoldersAreLent'
      BY <3>1, <3>2, <3>3
    <3>7. /\ held[w] = NoConn /\ held[c] # NoConn
          /\ \A d \in Callers : held'[d] = IF d = w THEN held[c] ELSE IF d = c THEN NoConn ELSE held[d]
      BY <3>1, <3>2, <3>3
    <3>8. ExclusiveUse'
      BY <3>1, <3>7 DEF ExclusiveUse
    <3>9. LentIsHeld'
      <4>1. ASSUME NEW k \in pool \intersect lent PROVE \E d \in Callers : held'[d] = k
        <5>1. PICK d \in Callers : held[d] = k
          BY DEF LentIsHeld
        <5>2. CASE d = c
          BY <5>1, <5>2, <3>1, <3>7
        <5>3. CASE d # c
          <6>1. d # w
            BY <4>1, <5>1, <3>7
          <6> QED BY <5>1, <5>3, <6>1, <3>7
        <5> QED BY <5>2, <5>3
      <4> QED BY <4>1, <3>3 DEF LentIsHeld
    <3> QED BY <2>0, <3>5, <3>6, <3>8, <3>9
  <2> QED BY <1>3, <2>1, <2>2, <2>3, <2>4, <2>5, <2>6, <2>7 DEF ClientNext
<1>4. CASE Shutdown
  <2>1. \A c \in Callers : (\E i \in DOMAIN pending : pending[i] = c) => step[c] = "waiting"
    BY DEF QueueIsWaiting, PoolTypeOK
  <2>2. PoolTypeOK' /\ QueueIsWaiting'
    BY <1>4 DEF Shutdown, PoolTypeOK, QueueIsWaiting, checking
  <2>3. HoldersAreLent'
    BY <1>4, <2>1 DEF Shutdown, HoldersAreLent
  <2>4. ExclusiveUse' /\ LentIsHeld'
    BY <1>4 DEF Shutdown, ExclusiveUse, LentIsHeld
  <2> QED BY <2>2, <2>3, <2>4
<1>5. CASE PoolCloses
  BY <1>5 DEF PoolCloses, PoolTypeOK, HoldersAreLent, QueueIsWaiting, ExclusiveUse,
     LentIsHeld, checking
<1> QED BY <1>1, <1>2, <1>3, <1>4, <1>5 DEF PoolNext

(* The types of the pool's state, for every value of the constants.        *)
THEOREM PoolTypeCorrect == PoolSpec => []PoolTypeOK
<1>1. LendingInv => PoolTypeOK
  BY DEF LendingInv
<1> QED BY <1>1, LendingInit, LendingStep, PTL DEF PoolSpec

(* No two clients use one connection (acquireConnection,                   *)
(* releaseConnection, performHealthChecks), for every number of them.      *)
THEOREM UseIsExclusive == PoolSpec => []ExclusiveUse
<1>1. LendingInv => ExclusiveUse
  BY DEF LendingInv
<1> QED BY <1>1, LendingInit, LendingStep, PTL DEF PoolSpec

(* No connection of the pool stays checked out without a client that has   *)
(* it (releaseConnection's handover, the timeout of a waiter, shutdown).   *)
THEOREM LentIsAlwaysHeld == PoolSpec => []LentIsHeld
<1>1. LendingInv => LentIsHeld
  BY DEF LendingInv
<1> QED BY <1>1, LendingInit, LendingStep, PTL DEF PoolSpec

LEMMA RemovingIsFinite == IsFiniteSet(Removing) /\ Cardinality(Removing) \in Nat
<1>1. Removing \in SUBSET Checks
  BY DEF Removing
<1> QED BY <1>1, PoolAssumption, FS_Subset, FS_CardinalityType

(* Adding a connection to the pool, or taking one out, moves its size by   *)
(* one, or by none when it was there or was not.                           *)
LEMMA PoolSizes ==
  ASSUME PoolTypeOK, NEW k \in Conns
  PROVE  /\ Cardinality(pool) \in Nat
         /\ Cardinality(pool \union {k}) = IF k \in pool THEN Cardinality(pool) ELSE Cardinality(pool) + 1
         /\ Cardinality(pool \ {k}) = IF k \in pool THEN Cardinality(pool) - 1 ELSE Cardinality(pool)
<1>1. pool \in SUBSET Conns
  BY DEF PoolTypeOK
<1>2. IsFiniteSet(pool) /\ Cardinality(pool) \in Nat
  BY <1>1, CardinalityIsNat
<1> QED BY <1>2, FS_AddElement, FS_RemoveElement

LEMMA CountStep ==
  LendingInv /\ CountIsPoolSize /\ [PoolNext]_poolVars => CountIsPoolSize'
<1> SUFFICES ASSUME LendingInv, CountIsPoolSize, [PoolNext]_poolVars, phase' # "closed"
             PROVE  count' = Cardinality(pool') + Cardinality(Removing')
  BY DEF CountIsPoolSize
<1>0. PoolTypeOK /\ HoldersAreLent
  BY DEF LendingInv
<1>a. /\ phase # "closed"
      /\ count = Cardinality(pool) + Cardinality(Removing)
      /\ phase' = phase \/ Shutdown
  <2>1. phase # "closed"
    BY DEF PoolNext, ClientNext, CheckNext, AcquireIdle, AcquireCreates, AcquireWaits, Queue,
       Created, CreationFails, AcquireTimeout, ReleaseCloses, ReleaseHandsOver, ReleaseReturns,
       StartCheck, StartPing, PingEnds, EndPings, RemoveBad, CountDown, PlanReplacements,
       Replace, EndCheck, Shutdown, PoolCloses, poolVars
  <2>2. phase' = phase \/ Shutdown
    BY DEF PoolNext, ClientNext, CheckNext, AcquireIdle, AcquireCreates, AcquireWaits, Queue,
       Created, CreationFails, AcquireTimeout, ReleaseCloses, ReleaseHandsOver, ReleaseReturns,
       StartCheck, StartPing, PingEnds, EndPings, RemoveBad, CountDown, PlanReplacements,
       Replace, EndCheck, PoolCloses, poolVars
  <2> QED BY <2>1, <2>2 DEF CountIsPoolSize
<1>b. Cardinality(pool) \in Nat /\ Cardinality(Removing) \in Nat /\ IsFiniteSet(Removing)
  BY <1>0, CardinalityIsNat, RemovingIsFinite DEF PoolTypeOK
<1>1. CASE UNCHANGED poolVars \/ Shutdown
  BY <1>1, <1>a DEF poolVars, lending, checking, Shutdown, Removing
<1>2. ASSUME NEW c \in Callers, ClientNext(c)
      PROVE  count' = Cardinality(pool') + Cardinality(Removing')
  <2>1. Removing' = Removing
    BY <1>2 DEF ClientNext, AcquireIdle, AcquireCreates, AcquireWaits, Queue, Created,
       CreationFails, AcquireTimeout, ReleaseCloses, ReleaseHandsOver, ReleaseReturns,
       Removing, checking
  <2>2. CASE Created(c)
    <3>1. PICK k \in Conns : Fresh(k) /\ pool' = pool \union {k}
      BY <2>2 DEF Created
    <3>2. k \notin pool /\ count' = count + 1
      BY <2>2, <3>1 DEF Created, Fresh
    <3>3. Cardinality(pool') = Cardinality(pool) + 1
      BY <3>1, <3>2, <1>0, PoolSizes
    <3> QED BY <3>2, <3>3, <2>1, <1>a, <1>b
  <2>3. CASE ReleaseCloses(c) \/ ReleaseReturns(c)
    <3>1. \/ RemoveFromPool(held[c])
          \/ pool' = pool /\ count' = count
      BY <2>3 DEF ReleaseCloses, ReleaseReturns
    <3>2. held[c] \in Conns
      BY <2>3, <1>0 DEF ReleaseCloses, ReleaseReturns, Returns, HoldersAreLent, PoolTypeOK
    <3>3. Cardinality(pool \ {held[c]})
            = IF held[c] \in pool THEN Cardinality(pool) - 1 ELSE Cardinality(pool)
      BY <3>2, <1>0, PoolSizes
    <3>4. CASE RemoveFromPool(held[c])
      <4>1. pool' = pool \ {held[c]}
        BY <3>4 DEF RemoveFromPool
      <4>2. count' = IF held[c] \in pool THEN count - 1 ELSE count
        BY <3>4 DEF RemoveFromPool
      <4> QED BY <4>1, <4>2, <3>3, <2>1, <1>a, <1>b
    <3>5. CASE pool' = pool /\ count' = count
      BY <3>5, <2>1, <1>a
    <3> QED BY <3>1, <3>4, <3>5
  <2>4. CASE ~(Created(c) \/ ReleaseCloses(c) \/ ReleaseReturns(c))
    <3>1. pool' = pool /\ count' = count
      BY <1>2, <2>4 DEF ClientNext, AcquireIdle, AcquireCreates, AcquireWaits, Queue,
         CreationFails, AcquireTimeout, ReleaseHandsOver
    <3> QED BY <3>1, <2>1, <1>a
  <2> QED BY <2>2, <2>3, <2>4
<1>3. ASSUME NEW h \in Checks, CheckNext(h)
      PROVE  count' = Cardinality(pool') + Cardinality(Removing')
  <2>1. CASE RemoveBad(h)
    <3>1. PICK k \in bad[h] :
            /\ pool' = pool \ {k}
            /\ hpc' = [hpc EXCEPT ![h] = IF k \in pool THEN "decrement" ELSE "remove"]
      BY <2>1 DEF RemoveBad
    <3>2. k \in Conns /\ count' = count /\ hpc[h] = "remove" /\ h \in DOMAIN hpc /\ DOMAIN hpc = Checks
      BY <2>1, <1>0 DEF RemoveBad, PoolTypeOK
    <3>3. h \notin Removing /\ Removing' = IF k \in pool THEN Removing \union {h} ELSE Removing
      BY <3>1, <3>2 DEF Removing
    <3>4. Cardinality(Removing') =
            IF k \in pool THEN Cardinality(Removing) + 1 ELSE Cardinality(Removing)
      <4>1. Cardinality(Removing \union {h}) = Cardinality(Removing) + 1
        BY <3>3, <1>b, FS_AddElement
      <4> QED BY <3>3, <4>1
    <3>5. Cardinality(pool') = IF k \in pool THEN Cardinality(pool) - 1 ELSE Cardinality(pool)
      BY <3>1, <3>2, <1>0, PoolSizes
    <3>6. CASE k \in pool
      BY <3>6, <3>2, <3>4, <3>5, <1>a, <1>b
    <3>7. CASE k \notin pool
      BY <3>7, <3>2, <3>4, <3>5, <1>a, <1>b
    <3> QED BY <3>6, <3>7
  <2>2. CASE CountDown(h)
    <3>1. h \in Removing /\ Removing' = Removing \ {h}
      BY <2>2, <1>0 DEF CountDown, Removing, PoolTypeOK
    <3>2. Cardinality(Removing') = Cardinality(Removing) - 1
      BY <3>1, <1>b, FS_RemoveElement
    <3> QED BY <2>2, <3>2, <1>a, <1>b DEF CountDown
  <2>3. CASE Replace(h)
    <3>1. Removing' = Removing
      BY <2>3 DEF Replace, Removing
    <3>2. CASE pool' = pool /\ count' = count
      BY <3>1, <3>2, <1>a
    <3>3. ASSUME NEW k \in Conns, Fresh(k), pool' = pool \union {k}, count' = count + 1
          PROVE  count' = Cardinality(pool') + Cardinality(Removing')
      <4>1. k \notin pool
        BY <3>3 DEF Fresh
      <4> QED BY <3>1, <3>3, <4>1, <1>0, <1>a, <1>b, PoolSizes
    <3> QED BY <2>3, <3>2, <3>3 DEF Replace
  <2>4. CASE ~(RemoveBad(h) \/ CountDown(h) \/ Replace(h))
    <3>1. pool' = pool /\ count' = count
      BY <1>3, <2>4 DEF CheckNext, StartCheck, StartPing, PingEnds, EndPings,
         PlanReplacements, EndCheck, lending
    <3>2. Removing' = Removing
      BY <1>3, <2>4, <1>0 DEF CheckNext, StartCheck, StartPing, PingEnds, EndPings,
         PlanReplacements, EndCheck, Removing, PoolTypeOK
    <3> QED BY <3>1, <3>2, <1>a
  <2> QED BY <2>1, <2>2, <2>3, <2>4
<1>4. CASE PoolCloses
  BY <1>4 DEF PoolCloses
<1> QED BY <1>1, <1>2, <1>3, <1>4 DEF PoolNext

LEMMA CountInit == PoolInit => CountIsPoolSize
<1> SUFFICES ASSUME PoolInit PROVE CountIsPoolSize
  OBVIOUS
<1>1. Removing = {}
  BY DEF PoolInit, Removing
<1>2. pool \in SUBSET Conns /\ count = Cardinality(pool)
  BY DEF PoolInit
<1> QED BY <1>1, <1>2, CardinalityIsNat, FS_EmptySet DEF CountIsPoolSize

(* activeConnections, which acquireConnection tests the limit with, is the *)
(* size of the pool and of what a check is disconnecting, up to the end of *)
(* the shutdown and however many checks overlap.                           *)
THEOREM CountIsCorrect == PoolSpec => []CountIsPoolSize
<1>1. LendingInv /\ CountIsPoolSize /\ [PoolNext]_poolVars => LendingInv' /\ CountIsPoolSize'
  BY LendingStep, CountStep
<1>2. PoolInit => LendingInv /\ CountIsPoolSize
  BY LendingInit, CountInit
<1> QED BY <1>1, <1>2, PTL DEF PoolSpec
===============================================================================
