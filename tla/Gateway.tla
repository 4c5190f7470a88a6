------------------------------ MODULE Gateway ------------------------------
(***************************************************************************)
(* The pods of the intervention gateway, for one browser session: its      *)
(* WebSockets, the routing key ws:active in Redis, the pushes of the       *)
(* decision engine with their acknowledgements, the forward to another     *)
(* pod, and the slot that the REST poll reads.  Every map and key is keyed *)
(* by session (the registry by intervention), so one session is enough.    *)
(*                                                                         *)
(* A push is a request; the request a pod forwards to another pod is a     *)
(* request of its own, taken from Hops.  A pod that dies, or is told to    *)
(* stop, loses its sockets and requests and comes back empty.  A rejected  *)
(* SETEX or DEL of ws:active is an unhandled rejection, which ends the     *)
(* process: PodDies.                                                       *)
(***************************************************************************)
EXTENDS Naturals

CONSTANTS Pods, Sockets, Interventions, Pushes, Hops, None,
  PodsOf,      \* the pods the load balancer may connect a socket to
  PayloadsOf,  \* the interventions a push may be for
  RedisFails

Requests == Pushes \union Hops
Stages == {"idle", "ack", "lookup", "forward", "store", "answered", "dead"}

ASSUME GatewayAssumption ==
  /\ Pushes \intersect Hops = {}
  /\ PodsOf \in [Sockets -> SUBSET Pods]
  /\ PayloadsOf \in [Pushes -> SUBSET Interventions]
  /\ None \notin Pods \union Sockets \union Interventions \union Requests
  /\ RedisFails \in BOOLEAN

VARIABLES
  sock,      \* a socket is new, open (until the close event, which may be late) or closed
  home,      \* the pod a socket is connected to
  socketMap, \* pod -> the session's socket there
  active,    \* ws:active:{sessionId}
  inbox,     \* socket -> payloads its client has not acknowledged yet
  registry,  \* pod -> intervention -> the request whose resolver is registered
  stage,     \* how far the handler of a request is
  at,        \* the pod that handles a request
  iv,        \* its payload
  from,      \* the request that was forwarded as this one
  to,        \* the pod a request is forwarded to
  pending,   \* intervention:pending:{sessionId}
  settled    \* payloads that were shown, left the slot, or were refused by Redis

sockVars == <<sock, home, socketMap, active>>
reqVars == <<stage, at, iv, from, to>>
gatewayVars == <<sock, home, socketMap, active, inbox, registry, stage, at, iv, from, to,
                 pending, settled>>

GatewayTypeOK ==
  /\ sock \in [Sockets -> {"new", "open", "closed"}]
  /\ home \in [Sockets -> Pods \union {None}]
  /\ socketMap \in [Pods -> Sockets \union {None}]
  /\ active \in Pods \union {None}
  /\ inbox \in [Sockets -> SUBSET Interventions]
  /\ registry \in [Pods -> [Interventions -> Requests \union {None}]]
  /\ stage \in [Requests -> Stages]
  /\ at \in [Requests -> Pods \union {None}]
  /\ iv \in [Requests -> Interventions \union {None}]
  /\ from \in [Requests -> Requests \union {None}]
  /\ to \in [Requests -> Pods \union {None}]
  /\ pending \in Interventions \union {None}
  /\ settled \subseteq Interventions

GatewayInit ==
  /\ sock = [k \in Sockets |-> "new"]
  /\ home = [k \in Sockets |-> None]
  /\ socketMap = [p \in Pods |-> None]
  /\ active = None
  /\ inbox = [k \in Sockets |-> {}]
  /\ registry = [p \in Pods |-> [i \in Interventions |-> None]]
  /\ stage = [r \in Requests |-> "idle"]
  /\ at = [r \in Requests |-> None]
  /\ iv = [r \in Requests |-> None]
  /\ from = [r \in Requests |-> None]
  /\ to = [r \in Requests |-> None]
  /\ pending = None
  /\ settled = {}

-----------------------------------------------------------------------------
(* Sockets *)

(* A browser tab connects, or connects again, to whichever pod answers. *)
Open(k, p) ==
  /\ sock[k] = "new"
  /\ sock' = [sock EXCEPT ![k] = "open"]
  /\ home' = [home EXCEPT ![k] = p]
  /\ socketMap' = [socketMap EXCEPT ![p] = k]
  /\ active' = p
  /\ UNCHANGED <<inbox, registry, reqVars, pending, settled>>

(* A client that has left sends no more messages and acknowledges nothing:  *)
(* neither action is ever forced.  Any message renews ws:active, whatever *)
(* socket the map holds.                                                    *)
Message(k) ==
  /\ sock[k] = "open"
  /\ active' = home[k]
  /\ UNCHANGED <<sock, home, socketMap, inbox, registry, reqVars, pending, settled>>

(* The client acknowledges payload i; the handler that waits for it, if one *)
(* is still registered on that pod, answers the push as delivered.          *)
Ack(k, i) ==
  /\ sock[k] = "open" /\ i \in inbox[k]
  /\ active' = home[k]
  /\ inbox' = [inbox EXCEPT ![k] = @ \ {i}]
  /\ settled' = settled \union {i}
  /\ LET r == registry[home[k]][i]
     IN  \/ r = None /\ UNCHANGED <<registry, stage>>
         \/ /\ r # None
            /\ registry' = [registry EXCEPT ![home[k]][i] = None]
            /\ stage' = [stage EXCEPT ![r] = "answered"]
  /\ UNCHANGED <<sock, home, socketMap, at, iv, from, to, pending>>

(* Mutant: close removes the map entry only when ws:active still names this pod. *)
CloseKeepsForeign(k) ==
  /\ sock[k] = "open"
  /\ sock' = [sock EXCEPT ![k] = "closed"]
  /\ inbox' = [inbox EXCEPT ![k] = {}]
  /\ socketMap' = IF active = home[k] THEN [socketMap EXCEPT ![home[k]] = None] ELSE socketMap
  /\ active' = IF active = home[k] THEN None ELSE active
  /\ UNCHANGED <<home, registry, reqVars, pending, settled>>

(* close deletes the session's entries, those of a newer socket included. *)
Close(k) ==
  /\ sock[k] = "open"
  /\ sock' = [sock EXCEPT ![k] = "closed"]
  /\ inbox' = [inbox EXCEPT ![k] = {}]
  /\ socketMap' = [socketMap EXCEPT ![home[k]] = None]
  /\ active' = None
  /\ UNCHANGED <<home, registry, reqVars, pending, settled>>

(* Mutant: the interval renews only keys that still exist (EXPIRE, not SETEX). *)
HeartbeatExpireOnly(p) ==
  /\ socketMap[p] # None
  /\ active = p
  /\ UNCHANGED gatewayVars

(* Every 30 s a pod pings the sockets of its map and renews their keys. *)
Heartbeat(p) ==
  /\ socketMap[p] # None
  /\ active' = p
  /\ UNCHANGED <<sock, home, socketMap, inbox, registry, reqVars, pending, settled>>

(* The key lives 60 s, two heartbeats: it expires when no pod renews it. *)
ActiveExpires ==
  /\ active # None
  /\ socketMap[active] = None
  /\ active' = None
  /\ UNCHANGED <<sock, home, socketMap, inbox, registry, reqVars, pending, settled>>

-----------------------------------------------------------------------------
(* Pushes *)

(* The request r for payload i reaches pod p, which looks in its own map    *)
(* and, when it has a socket, sends, and registers the acknowledgement's    *)
(* resolver over any earlier one, unless the send was dropped.              *)
Handle(r, p, i, caller) ==
  /\ stage[r] = "idle"
  /\ at' = [at EXCEPT ![r] = p]
  /\ iv' = [iv EXCEPT ![r] = i]
  /\ from' = [from EXCEPT ![r] = caller]
  /\ \/ /\ stage' = [stage EXCEPT ![r] = "lookup"]
        /\ UNCHANGED <<inbox, registry>>
     \/ /\ socketMap[p] # None
        /\ stage' = [stage EXCEPT ![r] = "ack"]
        /\ registry' = [registry EXCEPT ![p][i] = r]
        /\ inbox' = [inbox EXCEPT ![socketMap[p]] = @ \union {i}]
  /\ UNCHANGED <<sockVars, to, pending, settled>>

(* The engine pushes; a duplicate execution pushes a payload once more. *)
Push(r, p, i) == Handle(r, p, i, None)

(* The fetch of a forward reaches the other pod. *)
Forwarded(r, h) ==
  /\ stage[r] = "forward"
  /\ \A c \in Requests : from[c] # r
  /\ Handle(h, to[r], iv[r], r)

(* Mutant: the timer gives up without deleting the resolver. *)
AckTimeoutKeepsResolver(r) ==
  /\ stage[r] = "ack"
  /\ stage' = [stage EXCEPT ![r] = "lookup"]
  /\ UNCHANGED <<sockVars, inbox, registry, at, iv, from, to, pending, settled>>

(* Mutant: no timer runs for a payload that the socket only buffered. *)
AckTimeoutUnlessGone(r) ==
  /\ stage[r] = "ack"
  /\ socketMap[at[r]] # None
  /\ registry' = [registry EXCEPT ![at[r]][iv[r]] = None]
  /\ stage' = [stage EXCEPT ![r] = "lookup"]
  /\ UNCHANGED <<sockVars, inbox, at, iv, from, to, pending, settled>>

(* Two seconds without an acknowledgement: whatever resolver is registered  *)
(* for the payload goes, and the push tries the other ways.                 *)
AckTimeout(r) ==
  /\ stage[r] = "ack"
  /\ registry' = [registry EXCEPT ![at[r]][iv[r]] = None]
  /\ stage' = [stage EXCEPT ![r] = "lookup"]
  /\ UNCHANGED <<sockVars, inbox, at, iv, from, to, pending, settled>>

(* safeGet ws:active, which answers null when Redis fails. *)
LookUp(r) ==
  /\ stage[r] = "lookup"
  /\ \/ /\ active \notin {None, at[r]}
        /\ stage' = [stage EXCEPT ![r] = "forward"]
        /\ to' = [to EXCEPT ![r] = active]
     \/ /\ active \in {None, at[r]} \/ RedisFails
        /\ stage' = [stage EXCEPT ![r] = "store"]
        /\ UNCHANGED to
  /\ UNCHANGED <<sockVars, inbox, registry, at, iv, from, pending, settled>>

(* Any 2xx of the other pod counts as delivered, pending ones included. *)
ForwardAnswered(r) ==
  /\ stage[r] = "forward"
  /\ \E c \in Requests : from[c] = r /\ stage[c] = "answered"
  /\ stage' = [stage EXCEPT ![r] = "answered"]
  /\ to' = [to EXCEPT ![r] = None]
  /\ UNCHANGED <<sockVars, inbox, registry, at, iv, from, pending, settled>>

(* Mutant: a forward that fails is answered without storing the payload. *)
ForwardFailsAnswered(r) ==
  /\ stage[r] = "forward"
  /\ stage' = [stage EXCEPT ![r] = "answered"]
  /\ UNCHANGED <<sockVars, inbox, registry, at, iv, from, to, pending, settled>>

(* The connection fails, or 500 ms pass; the other pod may go on with it. *)
ForwardFails(r) ==
  /\ stage[r] = "forward"
  /\ stage' = [stage EXCEPT ![r] = "store"]
  /\ to' = [to EXCEPT ![r] = None]
  /\ UNCHANGED <<sockVars, inbox, registry, at, iv, from, pending, settled>>

(* safeSetEx overwrites the slot; a failure is swallowed, the answer is 202. *)
StorePending(r) ==
  /\ stage[r] = "store"
  /\ stage' = [stage EXCEPT ![r] = "answered"]
  /\ \/ /\ pending' = iv[r]
        /\ settled' = settled \union ({pending} \ {None, iv[r]})
     \/ /\ RedisFails
        /\ settled' = settled \union {iv[r]}
        /\ UNCHANGED pending
  /\ UNCHANGED <<sockVars, inbox, registry, at, iv, from, to>>

(* The client polls (GETDEL takes the payload, once), or the TTL ends. *)
Poll ==
  /\ pending # None
  /\ pending' = None
  /\ settled' = settled \union {pending}
  /\ UNCHANGED <<sockVars, inbox, registry, reqVars>>

(* process.exit on SIGTERM, or the death of the process. *)
PodDies(p) ==
  /\ sock' = [k \in Sockets |-> IF home[k] = p THEN "closed" ELSE sock[k]]
  /\ inbox' = [k \in Sockets |-> IF home[k] = p THEN {} ELSE inbox[k]]
  /\ socketMap' = [socketMap EXCEPT ![p] = None]
  /\ registry' = [registry EXCEPT ![p] = [i \in Interventions |-> None]]
  /\ stage' = [r \in Requests |->
                 IF at[r] = p /\ stage[r] \notin {"idle", "answered"} THEN "dead" ELSE stage[r]]
  /\ UNCHANGED <<home, active, at, iv, from, to, pending, settled>>

RequestStep(r) ==
  \/ AckTimeout(r) \/ LookUp(r) \/ ForwardAnswered(r) \/ ForwardFails(r) \/ StorePending(r)

GatewayNext ==
  \/ \E k \in Sockets :
       \/ \E p \in PodsOf[k] : Open(k, p)
       \/ Message(k) \/ Close(k)
       \/ \E i \in Interventions : Ack(k, i)
  \/ \E p \in Pods : Heartbeat(p) \/ PodDies(p)
  \/ ActiveExpires \/ Poll
  \/ \E r \in Pushes, p \in Pods : \E i \in PayloadsOf[r] : Push(r, p, i)
  \/ \E r \in Requests, h \in Hops : Forwarded(r, h)
  \/ \E r \in Requests : RequestStep(r)

GatewaySpec == GatewayInit /\ [][GatewayNext]_gatewayVars

(* Timers and awaits end: the acknowledgement's, the forward's, Redis's     *)
(* commands, and the heartbeat interval.                                    *)
GatewayFairness ==
  /\ \A r \in Requests : WF_gatewayVars(RequestStep(r))
  /\ \A p \in Pods : WF_gatewayVars(Heartbeat(p))

FairGatewaySpec == GatewaySpec /\ GatewayFairness

-----------------------------------------------------------------------------
(* Properties *)

(* The map of a pod holds only sockets that are connected to it and whose   *)
(* close event has not run (server.ts:90, 122): sending on a closed         *)
(* uWebSockets socket throws.  Late closes and reconnects in any order.     *)
MappedSocketIsOpen ==
  \A p \in Pods : socketMap[p] # None =>
    sock[socketMap[p]] = "open" /\ home[socketMap[p]] = p

(* A registered resolver belongs to a handler on that pod that still waits  *)
(* for that payload (push-handler.ts:143-152), although pushes of one       *)
(* payload overwrite and delete each other's entries: an acknowledgement    *)
(* never answers a push that has gone another way.                          *)
ResolverIsWaiting ==
  \A p \in Pods, i \in Interventions :
    LET r == registry[p][i]
    IN  r # None => stage[r] = "ack" /\ at[r] = p /\ iv[r] = i

(* A push that was answered 200 or 202, by its own pod or by the pod it was *)
(* forwarded to, is in the slot, or the client has shown it, or it left the *)
(* slot by a poll, a newer push or its TTL, or Redis refused it             *)
(* (push-handler.ts:84-127).                                                *)
AnsweredIsKept ==
  \A r \in Requests : stage[r] = "answered" => pending = iv[r] \/ iv[r] \in settled

(* Every push comes to an answer unless its pod dies, through timeouts,     *)
(* forwards and forwards of forwards (push-handler.ts:84-127).              *)
PushIsAnswered ==
  \A r \in Requests : stage[r] # "idle" ~> stage[r] \in {"answered", "dead"}

(* A socket in a pod's map is found by the other pods' pushes again and     *)
(* again: ws:active comes back after closes of older sockets and expiries   *)
(* (server.ts:184-198).                                                     *)
MappedSocketIsRouted ==
  \A p \in Pods : socketMap[p] # None ~> (active = p \/ socketMap[p] = None)

=============================================================================
