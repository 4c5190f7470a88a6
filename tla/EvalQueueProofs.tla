---------------------------- MODULE EvalQueueProofs ----------------------------
(***************************************************************************)
(* Proofs about EvalQueue, for any sessions, customers, ticks and events   *)
(* under way, and with any of the modelled faults.                         *)
(***************************************************************************)
EXTENDS EvalQueue, FiniteSetTheorems, TLAPS

-----------------------------------------------------------------------------
LEMMA QueueTypeInit == QueueInit => QueueTypeOK
  BY QueueConstantsOK DEF QueueInit, QueueTypeOK, Stages, Runners

LEMMA QueueTypeStep == QueueTypeOK /\ [QueueNext]_vars => QueueTypeOK'
<1> SUFFICES ASSUME QueueTypeOK, [QueueNext]_vars
             PROVE  QueueTypeOK'
  OBVIOUS
<1> USE QueueConstantsOK DEF QueueTypeOK, Stages, Runners, clearing, Goto
<1>1. CASE UNCHANGED vars
  BY <1>1 DEF vars
<1>2. ASSUME NEW t \in Ticks, FetchDue(t)
      PROVE  QueueTypeOK'
  BY <1>2 DEF FetchDue
<1>3. ASSUME NEW t \in Ticks, RemoveDue(t)
      PROVE  QueueTypeOK'
  BY <1>3 DEF RemoveDue, PopDone
<1>4. ASSUME NEW t \in Ticks, RemoveFails(t)
      PROVE  QueueTypeOK'
  BY <1>4 DEF RemoveFails, PopDone
<1>5. ASSUME NEW r \in Runners, NEW s \in Sessions, RegisterSession(r, s)
      PROVE  QueueTypeOK'
  <2>1. PICK stage \in {"idle", "settle"} : at' = [at EXCEPT ![r][s] = stage]
    BY <1>5 DEF RegisterSession
  <2>2. index' \subseteq Sessions /\ untracked' \subseteq Sessions
    BY <1>5 DEF RegisterSession
  <2>3. QED
    BY <1>5, <2>1, <2>2 DEF RegisterSession
<1>6. ASSUME NEW r \in Runners, NEW s \in Sessions, Schedule(r, s)
      PROVE  QueueTypeOK'
  BY <1>6 DEF Schedule, NoLongerDue
<1>7. ASSUME NEW r \in Runners, NEW s \in Sessions, SettleElse(r, s)
      PROVE  QueueTypeOK'
  BY <1>7 DEF SettleElse
<1>8. ASSUME NEW c \in Consumers, NEW s \in Sessions, Trigger(c, s)
      PROVE  QueueTypeOK'
  BY <1>8 DEF Trigger
<1>9. ASSUME NEW u \in Users, ClearUserSessions(u)
       PROVE  QueueTypeOK'
  <2>1. CASE ReadUserSessions(u)
    BY <2>1 DEF ReadUserSessions, SessionsOf
  <2>2. CASE RemoveRead(u)
    BY <2>2 DEF RemoveRead, NoLongerDue
  <2>3. CASE DeleteIndex(u)
    BY <2>3 DEF DeleteIndex
  <2>4. CASE ClearFails(u)
    BY <2>4 DEF ClearFails
  <2>5. QED
    BY <1>9, <2>1, <2>2, <2>3, <2>4 DEF ClearUserSessions
<1>10. ASSUME NEW s \in Sessions, BecomesDue(s) \/ IndexExpires(s)
       PROVE  QueueTypeOK'
  BY <1>10 DEF BecomesDue, IndexExpires
<1>11. ASSUME NEW r \in Runners, Crash(r)
       PROVE  QueueTypeOK'
  BY <1>11 DEF Crash
<1>12. QED
  BY <1>1, <1>2, <1>3, <1>4, <1>5, <1>6, <1>7, <1>8, <1>9, <1>10, <1>11
     DEF QueueNext, Pop, Evaluate

(* The state of the queue has its types in every reachable state.          *)
THEOREM QueueTypeCorrect == QueueSpec => []QueueTypeOK
  BY QueueTypeInit, QueueTypeStep, PTL DEF QueueSpec

-----------------------------------------------------------------------------
(* Why a purchase finds what is queued.  An evaluation registers before it *)
(* schedules; a purchase under way either has read the session, or its     *)
(* evaluation overlaps it.                                                 *)
SettlingIsIndexed ==
  \A r \in Runners, s \in Sessions :
    at[r][s] = "settle" =>
      /\ s \in index \cup untracked
      /\ purchase[UserOf[s]] # "idle" => s \in untracked

ReadIsComplete ==
  \A s \in index : purchase[UserOf[s]] = "zrem" => s \in read[UserOf[s]] \cup untracked

RemovedIsGone ==
  \A s \in queue : purchase[UserOf[s]] = "del" => s \in untracked

IndexInv ==
  /\ QueuedIsIndexed
  /\ SettlingIsIndexed
  /\ ReadIsComplete
  /\ RemovedIsGone

LEMMA IndexInvStep ==
  QueueTypeOK /\ IndexInv /\ [QueueNext]_vars => IndexInv'
<1> SUFFICES ASSUME QueueTypeOK, IndexInv, [QueueNext]_vars
             PROVE  IndexInv'
  OBVIOUS
<1> USE QueueConstantsOK
    DEF QueueTypeOK, Runners, IndexInv, QueuedIsIndexed, SettlingIsIndexed,
        ReadIsComplete, RemovedIsGone, clearing, Goto
<1>1. CASE UNCHANGED vars
  BY <1>1 DEF vars
<1>2. ASSUME NEW t \in Ticks, FetchDue(t) \/ RemoveFails(t)
      PROVE  IndexInv'
  BY <1>2 DEF FetchDue, RemoveFails, PopDone
<1>3. ASSUME NEW t \in Ticks, RemoveDue(t)
      PROVE  IndexInv'
  BY <1>3 DEF RemoveDue, PopDone
<1>4. ASSUME NEW r \in Runners, NEW s \in Sessions, SettleElse(r, s)
      PROVE  IndexInv'
  <2>1. at' = [at EXCEPT ![r][s] = "idle"]
    BY <1>4 DEF SettleElse
  <2>2. \A x \in Runners, y \in Sessions : at'[x][y] = "settle" => at[x][y] = "settle"
    BY <2>1
  <2>3. UNCHANGED <<queue, index, purchase, read, untracked>>
    BY <1>4 DEF SettleElse
  <2>4. QED
    BY <2>2, <2>3
<1>5. ASSUME NEW r \in Runners, NEW s \in Sessions, RegisterSession(r, s)
      PROVE  IndexInv'
  BY <1>5 DEF RegisterSession
<1>6. ASSUME NEW r \in Runners, NEW s \in Sessions, Schedule(r, s)
      PROVE  IndexInv'
  BY <1>6 DEF Schedule
<1>7. ASSUME NEW c \in Consumers, NEW s \in Sessions, Trigger(c, s)
      PROVE  IndexInv'
  BY <1>7 DEF Trigger
<1>8. ASSUME NEW u \in Users, ReadUserSessions(u)
      PROVE  IndexInv'
  BY <1>8 DEF ReadUserSessions, SessionsOf
<1>9. ASSUME NEW u \in Users, RemoveRead(u)
      PROVE  IndexInv'
  BY <1>9 DEF RemoveRead
<1>10. ASSUME NEW u \in Users, DeleteIndex(u)
       PROVE  IndexInv'
  BY <1>10 DEF DeleteIndex, SessionsOf
<1>11. ASSUME NEW u \in Users, ClearFails(u)
       PROVE  IndexInv'
  BY <1>11 DEF ClearFails
<1>12. ASSUME NEW s \in Sessions, BecomesDue(s) \/ IndexExpires(s)
       PROVE  IndexInv'
  BY <1>12 DEF BecomesDue, IndexExpires
<1>13. ASSUME NEW r \in Runners, Crash(r)
       PROVE  IndexInv'
  BY <1>13 DEF Crash
<1>14. QED
  BY <1>1, <1>2, <1>3, <1>4, <1>5, <1>6, <1>7, <1>8, <1>9, <1>10, <1>11, <1>12, <1>13
     DEF QueueNext, Pop, Evaluate, ClearUserSessions

(* scheduler.service.ts:55-56: a purchase reaches, through user_sessions,  *)
(* every queued session of its customer whose evaluation it did not        *)
(* overlap and whose registration did not fail.                            *)
THEOREM PurchaseReachesTheQueue == QueueSpec => []QueuedIsIndexed
<1>1. QueueInit => IndexInv
  BY DEF QueueInit, IndexInv, QueuedIsIndexed, SettlingIsIndexed,
         ReadIsComplete, RemovedIsGone
<1>2. IndexInv => QueuedIsIndexed
  BY DEF IndexInv
<1>3. QED
  BY QueueTypeInit, QueueTypeStep, IndexInvStep, <1>1, <1>2, PTL DEF QueueSpec

-----------------------------------------------------------------------------
(* A tick that pops has fetched all it is about to remove or has a full    *)
(* page, and evaluates nothing yet; a purchase has read sessions of its    *)
(* own customer.                                                           *)
PageIsComplete ==
  \A t \in Ticks : horizon[t] \subseteq fetched[t] \/ Cardinality(fetched[t]) = Limit
PoppingIsIdle == \A t \in Ticks : fetched[t] # {} => Idle(t)
ReadIsOwn == \A u \in Users : read[u] \subseteq SessionsOf(u)

(* ZRANGEBYSCORE returns all that is due, unless its page is full.         *)
LEMMA FetchesPage ==
  ASSUME QueueTypeOK, IsFiniteSet(Sessions), NEW t \in Ticks, FetchDue(t)
  PROVE  \E S \in SUBSET due :
           /\ fetched' = [fetched EXCEPT ![t] = S]
           /\ S = due \/ Cardinality(S) = Limit
<1>1. IsFiniteSet(due)
  BY FS_Subset DEF QueueTypeOK
<1>2. PICK S \in SUBSET due :
        /\ Cardinality(S) = IF Cardinality(due) < Limit THEN Cardinality(due) ELSE Limit
        /\ fetched' = [fetched EXCEPT ![t] = S]
  BY DEF FetchDue
<1>3. CASE Cardinality(due) < Limit
  <2>1. Cardinality(S) = Cardinality(due)
    BY <1>2, <1>3
  <2>2. S = due
    BY <1>1, <2>1, FS_Subset
  <2>3. QED
    BY <1>2, <2>2
<1>4. CASE ~ (Cardinality(due) < Limit)
  BY <1>2, <1>4
<1>5. QED
  BY <1>3, <1>4

LEMMA PageStep ==
  ASSUME IsFiniteSet(Sessions)
  PROVE  QueueTypeOK /\ PageIsComplete /\ [QueueNext]_vars => PageIsComplete'
<1> SUFFICES ASSUME QueueTypeOK, PageIsComplete, [QueueNext]_vars
             PROVE  PageIsComplete'
  OBVIOUS
<1>1. ASSUME NEW t \in Ticks, FetchDue(t)
      PROVE  PageIsComplete'
  <2>1. PICK S \in SUBSET due :
          /\ fetched' = [fetched EXCEPT ![t] = S]
          /\ S = due \/ Cardinality(S) = Limit
    BY <1>1, FetchesPage
  <2>2. horizon' = [horizon EXCEPT ![t] = due]
    BY <1>1 DEF FetchDue
  <2>3. QED
    BY <2>1, <2>2 DEF QueueTypeOK, PageIsComplete
<1>2. ASSUME NEW t \in Ticks, RemoveDue(t) \/ RemoveFails(t)
      PROVE  PageIsComplete'
  BY <1>2 DEF QueueTypeOK, PageIsComplete, RemoveDue, RemoveFails, PopDone
<1>3. ASSUME NEW r \in Runners, Crash(r)
      PROVE  PageIsComplete'
  BY <1>3 DEF QueueTypeOK, PageIsComplete, Crash
<1>4. \/ \E t \in Ticks : Pop(t)
      \/ \E r \in Runners : Crash(r)
      \/ fetched' = fetched /\ \A t \in Ticks : horizon'[t] \subseteq horizon[t]
  BY DEF QueueTypeOK, QueueNext, vars, Evaluate, RegisterSession, Schedule,
         SettleElse, Trigger, ClearUserSessions, ReadUserSessions, RemoveRead,
         DeleteIndex, ClearFails, BecomesDue, IndexExpires, NoLongerDue
<1>5. QED
  BY <1>1, <1>2, <1>3, <1>4 DEF Pop, PageIsComplete

LEMMA PoppingStep ==
  QueueTypeOK /\ PoppingIsIdle /\ [QueueNext]_vars => PoppingIsIdle'
<1> SUFFICES ASSUME QueueTypeOK, PoppingIsIdle, [QueueNext]_vars
             PROVE  PoppingIsIdle'
  OBVIOUS
<1> USE QueueConstantsOK DEF QueueTypeOK, PoppingIsIdle, Runners, Idle, Goto
<1>1. ASSUME NEW t \in Ticks, Pop(t)
      PROVE  PoppingIsIdle'
  BY <1>1 DEF Pop, FetchDue, RemoveDue, RemoveFails, PopDone
<1>2. ASSUME NEW r \in Runners, NEW s \in Sessions, Evaluate(r, s)
      PROVE  PoppingIsIdle'
  BY <1>2 DEF Evaluate, RegisterSession, Schedule, SettleElse
<1>3. ASSUME NEW c \in Consumers, NEW s \in Sessions, Trigger(c, s)
      PROVE  PoppingIsIdle'
  BY <1>3 DEF Trigger
<1>4. ASSUME NEW r \in Runners, Crash(r)
      PROVE  PoppingIsIdle'
  BY <1>4 DEF Crash
<1>5. \/ \E t \in Ticks : Pop(t)
      \/ \E r \in Runners : Crash(r) \/ \E s \in Sessions : Evaluate(r, s)
      \/ \E c \in Consumers, s \in Sessions : Trigger(c, s)
      \/ UNCHANGED <<fetched, at>>
  BY DEF QueueNext, vars, ClearUserSessions, ReadUserSessions, RemoveRead,
         DeleteIndex, ClearFails, BecomesDue, IndexExpires
<1>6. QED
  BY <1>1, <1>2, <1>3, <1>4, <1>5

LEMMA ReadStep == QueueTypeOK /\ ReadIsOwn /\ [QueueNext]_vars => ReadIsOwn'
<1> SUFFICES ASSUME QueueTypeOK, ReadIsOwn, [QueueNext]_vars
             PROVE  ReadIsOwn'
  OBVIOUS
<1>1. ASSUME NEW u \in Users, ClearUserSessions(u)
      PROVE  ReadIsOwn'
  BY <1>1 DEF QueueTypeOK, ReadIsOwn, SessionsOf, ClearUserSessions, ReadUserSessions,
              RemoveRead, DeleteIndex, ClearFails
<1>2. (\E u \in Users : ClearUserSessions(u)) \/ read' = read
  BY DEF QueueNext, vars, clearing, Pop, FetchDue, RemoveDue, RemoveFails, PopDone,
         Evaluate, RegisterSession, Schedule, SettleElse, Trigger,
         BecomesDue, IndexExpires, Crash
<1>3. QED
  BY <1>1, <1>2 DEF ReadIsOwn

(* scheduler.service.ts:34-52: an entry leaves the queue only to be        *)
(* evaluated by the tick that popped it, because its customer bought, or   *)
(* because a page of Limit members left it out: however many sessions      *)
(* there are, however many ticks overlap, and whatever they do in between. *)
(* Without the third way out the statement is false of the code.           *)
THEOREM DroppedOnlyByAFullPage ==
  ASSUME IsFiniteSet(Sessions)
  PROVE  QueueSpec => LeavesToBeEvaluated
<1> DEFINE Leaves == \A s \in queue \ queue' :
                       \/ \E t \in Ticks : at[t][s] # "context" /\ at'[t][s] = "context"
                       \/ purchase[UserOf[s]] = "zrem" /\ purchase'[UserOf[s]] = "del"
                       \/ \E t \in Ticks : LeftOut(t, s) /\ fetched'[t] = {}
<1>1. QueueInit => PageIsComplete /\ PoppingIsIdle /\ ReadIsOwn
  BY DEF QueueInit, PageIsComplete, PoppingIsIdle, ReadIsOwn
<1>2. QueueTypeOK /\ PageIsComplete /\ PoppingIsIdle /\ ReadIsOwn /\ [QueueNext]_vars
        => [Leaves]_vars
  <2> SUFFICES ASSUME QueueTypeOK, PageIsComplete, PoppingIsIdle, ReadIsOwn,
                      QueueNext
               PROVE  Leaves
    OBVIOUS
  <2>1. ASSUME NEW t \in Ticks, RemoveDue(t)
        PROVE  Leaves
    <3>1. \A s \in queue \ queue' : s \in horizon[t]
      BY <2>1 DEF RemoveDue
    <3>2. ASSUME NEW s \in fetched[t]
          PROVE  at[t][s] # "context" /\ at'[t][s] = "context"
      BY <2>1, <3>2 DEF QueueTypeOK, Runners, PoppingIsIdle, Idle, RemoveDue, PopDone
    <3>3. ASSUME NEW s \in horizon[t], s \notin fetched[t]
          PROVE  LeftOut(t, s) /\ fetched'[t] = {}
      BY <2>1, <3>3 DEF QueueTypeOK, PageIsComplete, LeftOut, RemoveDue, PopDone
    <3>4. QED
      BY <3>1, <3>2, <3>3
  <2>2. ASSUME NEW u \in Users, RemoveRead(u)
        PROVE  Leaves
    BY <2>2 DEF QueueTypeOK, ReadIsOwn, SessionsOf, RemoveRead
  <2>3. \/ \E t \in Ticks : RemoveDue(t)
        \/ \E u \in Users : RemoveRead(u)
        \/ queue \subseteq queue'
    BY DEF QueueNext, Pop, FetchDue, RemoveFails, Evaluate,
           RegisterSession, Schedule, SettleElse, Trigger, ClearUserSessions,
           ReadUserSessions, DeleteIndex, ClearFails, BecomesDue, IndexExpires, Crash
  <2>4. QED
    BY <2>1, <2>2, <2>3
<1>3. QED
  BY QueueTypeInit, QueueTypeStep, PageStep, PoppingStep, ReadStep, <1>1, <1>2, PTL
     DEF QueueSpec, LeavesToBeEvaluated
=============================================================================
