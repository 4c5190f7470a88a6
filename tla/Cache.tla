--------------------------------- MODULE Cache ---------------------------------
(***************************************************************************)
(* The two-level cache of the decision-engine: one key (a store's policy   *)
(* or experiment, a customer's features) whose source, a table, goes       *)
(* through versions; an L1 of every replica, in its memory, and an L2 that *)
(* all share, in Redis.  Nothing tells a cache of a new version: no code   *)
(* calls invalidate, which would reach one replica's L1 only, so the TTLs  *)
(* alone bound how old an answer can be.                                   *)
(***************************************************************************)
EXTENDS Integers

CONSTANTS Replicas, Clients, None,
  HomeOf,       \* client -> the replica it runs on
  MaxVersion,   \* bound on the source's versions
  NullVersions, \* versions in which the source has nothing (no experiment)
  L1Ttl, Ttl,   \* L1's constructor ttl, the ttl of the caller, in ticks
  Latency       \* ticks between a load and the write of its result to L2

ASSUME CacheAssumption ==
  /\ HomeOf \in [Clients -> Replicas] /\ MaxVersion \in Nat
  /\ NullVersions \subseteq 0..MaxVersion
  /\ L1Ttl \in Nat \ {0} /\ Ttl \in Nat \ {0} /\ Latency \in Nat

VARIABLES
  version,     \* the source's version
  superseded,  \* version -> ticks since it was replaced, up to MaxAge
  l1,          \* replica -> its entry
  l2,          \* the shared entry
  pc, val,     \* client -> its step and the version it has loaded
  age          \* client -> ticks since it loaded it

cacheVars == <<version, superseded, l1, l2, pc, val, age>>

Versions == 0..MaxVersion
MaxAge == (IF L1Ttl < Ttl THEN Ttl ELSE L1Ttl) + Latency + 1
NoEntry == [val |-> None, left |-> 0]
Entries(ttl) == {NoEntry} \union [val : Versions, left : 1..ttl]

CacheTypeOK ==
  /\ version \in Versions
  /\ superseded \in [Versions -> 0..MaxAge]
  /\ l1 \in [Replicas -> Entries(L1Ttl)]
  /\ l2 \in Entries(Ttl)
  /\ pc \in [Clients -> {"idle", "l2", "load", "set1", "set2", "del2"}]
  /\ val \in [Clients -> Versions]
  /\ age \in [Clients -> 0..Latency]

CacheInit ==
  /\ version = 0
  /\ superseded = [v \in Versions |-> 0]
  /\ l1 = [r \in Replicas |-> NoEntry]
  /\ l2 = NoEntry
  /\ pc = [c \in Clients |-> "idle"]
  /\ val = [c \in Clients |-> 0]
  /\ age = [c \in Clients |-> 0]

\* `result?.data !== null`: an entry that holds null is a miss.
IsHit(entry) == entry # NoEntry /\ entry.val \notin NullVersions

(* Mutant: a hit in L2 is copied to L1, as the TODO in get() proposes. *)
MutGetL2Promoting(c) ==
  /\ pc[c] = "l2"
  /\ IF IsHit(l2)
     THEN /\ l1' = [l1 EXCEPT ![HomeOf[c]] = [val |-> l2.val, left |-> L1Ttl]]
          /\ pc' = [pc EXCEPT ![c] = "idle"]
     ELSE pc' = [pc EXCEPT ![c] = "load"] /\ UNCHANGED l1
  /\ UNCHANGED <<version, superseded, l2, val, age>>

(* Mutant: L1 is an LRU with updateAgeOnGet, so that a hit renews its ttl. *)
MutGetL1Renewing(c) ==
  /\ pc[c] = "idle"
  /\ \/ /\ IsHit(l1[HomeOf[c]])
        /\ l1' = [l1 EXCEPT ![HomeOf[c]].left = L1Ttl]
        /\ UNCHANGED pc
     \/ /\ ~IsHit(l1[HomeOf[c]])
        /\ pc' = [pc EXCEPT ![c] = "l2"]
        /\ UNCHANGED l1
  /\ UNCHANGED <<version, superseded, l2, val, age>>

\* A hit is an answer and changes nothing.
GetL1(c) ==
  /\ pc[c] = "idle"
  /\ ~IsHit(l1[HomeOf[c]])
  /\ pc' = [pc EXCEPT ![c] = "l2"]
  /\ UNCHANGED <<version, superseded, l1, l2, val, age>>

\* L2 is skipped when Redis is unhealthy, and an error of its own is a miss.
GetL2(c) ==
  /\ pc[c] = "l2"
  /\ \/ IsHit(l2) /\ pc' = [pc EXCEPT ![c] = "idle"]
     \/ pc' = [pc EXCEPT ![c] = "load"]
  /\ UNCHANGED <<version, superseded, l1, l2, val, age>>

\* Every client that missed loads for itself; a load that throws stores nothing.
Load(c) ==
  /\ pc[c] = "load"
  /\ \/ /\ pc' = [pc EXCEPT ![c] = "set1"]
        /\ val' = [val EXCEPT ![c] = version]
        /\ age' = [age EXCEPT ![c] = 0]
     \/ pc' = [pc EXCEPT ![c] = "idle"] /\ UNCHANGED <<val, age>>
  /\ UNCHANGED <<version, superseded, l1, l2>>

\* MemoryCache ignores the caller's ttl, and skips the write when its
\* tracker says that memory is short: the older entry then stays.
SetL1(c) ==
  /\ pc[c] = "set1"
  /\ \/ l1' = [l1 EXCEPT ![HomeOf[c]] = [val |-> val[c], left |-> L1Ttl]]
     \/ UNCHANGED l1
  /\ pc' = [pc EXCEPT ![c] = "set2"]
  /\ UNCHANGED <<version, superseded, l2, val, age>>

SetL2(c) ==
  /\ pc[c] = "set2"
  /\ \/ l2' = [val |-> val[c], left |-> Ttl]
     \/ UNCHANGED l2
  /\ pc' = [pc EXCEPT ![c] = "idle"]
  /\ val' = [val EXCEPT ![c] = 0]
  /\ age' = [age EXCEPT ![c] = 0]
  /\ UNCHANGED <<version, superseded, l1>>

InvalidateL1(c) ==
  /\ pc[c] = "idle"
  /\ l1' = [l1 EXCEPT ![HomeOf[c]] = NoEntry]
  /\ pc' = [pc EXCEPT ![c] = "del2"]
  /\ UNCHANGED <<version, superseded, l2, val, age>>

InvalidateL2(c) ==
  /\ pc[c] = "del2"
  /\ l2' \in {l2, NoEntry}
  /\ pc' = [pc EXCEPT ![c] = "idle"]
  /\ UNCHANGED <<version, superseded, l1, val, age>>

\* The admin writes a new version of the row.
Publish ==
  /\ version < MaxVersion
  /\ version' = version + 1
  /\ UNCHANGED <<superseded, l1, l2, pc, val, age>>

\* The least recently used entries make room for other keys; a restart
\* empties the memory too, its clients gone or about to load.
Evict(r) ==
  /\ l1[r] # NoEntry
  /\ l1' = [l1 EXCEPT ![r] = NoEntry]
  /\ UNCHANGED <<version, superseded, l2, pc, val, age>>

Older(entry) ==
  IF entry.left <= 1 THEN NoEntry ELSE [entry EXCEPT !.left = @ - 1]

Writing(c) == pc[c] \in {"set1", "set2"}

Tick ==
  /\ \A c \in Clients : Writing(c) => age[c] < Latency
  /\ superseded' = [v \in Versions |->
       IF v < version /\ superseded[v] < MaxAge THEN superseded[v] + 1 ELSE superseded[v]]
  /\ l1' = [r \in Replicas |-> Older(l1[r])]
  /\ l2' = Older(l2)
  /\ age' = [c \in Clients |-> IF Writing(c) THEN age[c] + 1 ELSE age[c]]
  /\ UNCHANGED <<version, pc, val>>

ClientStep(c) ==
  \/ GetL2(c) \/ Load(c) \/ SetL1(c) \/ SetL2(c) \/ InvalidateL2(c)

CacheNext ==
  \/ \E c \in Clients : GetL1(c) \/ InvalidateL1(c) \/ ClientStep(c)
  \/ \E r \in Replicas : Evict(r)
  \/ Publish \/ Tick

CacheSpec == CacheInit /\ [][CacheNext]_cacheVars

\* Time passes, and a call that has begun comes to its end.
FairCacheSpec ==
  /\ CacheSpec
  /\ WF_cacheVars(Tick)
  /\ \A c \in Clients : WF_cacheVars(ClientStep(c))

--------------------------------------------------------------------------------
\* A version that stopped being the source's at most `ticks` ago.
CurrentWithin(v, ticks) == superseded[v] <= ticks

(***************************************************************************)
(* What a level can answer was the source's content at most its own TTL    *)
(* and one slow write ago, whatever races between loads, writes,           *)
(* evictions and invalidations of any replica: the two TTLs do not add     *)
(* up, because a hit in L2 is never copied to L1.                          *)
(***************************************************************************)
BoundedStaleness ==
  /\ \A r \in Replicas :
       l1[r] # NoEntry => CurrentWithin(l1[r].val, L1Ttl - l1[r].left + Latency)
  /\ l2 # NoEntry => CurrentWithin(l2.val, Ttl - l2.left + Latency)

(***************************************************************************)
(* A version that is no longer followed by another one is in the end the   *)
(* only one that any level of any replica can answer, although a slow      *)
(* client may write an older one after it and no invalidation runs.        *)
(***************************************************************************)
OnlyTheLast ==
  /\ \A r \in Replicas : l1[r] # NoEntry => l1[r].val = MaxVersion
  /\ l2 # NoEntry => l2.val = MaxVersion
EventuallyFresh == (version = MaxVersion) ~> []OnlyTheLast
================================================================================
