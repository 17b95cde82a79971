--------------------------- MODULE ZookeeperClient ---------------------------
(***************************************************************************)
(* One ZookeeperClient (src/src/registry/zookeeper_client.cc) and the      *)
(* instances of one service in ZooKeeper.                                  *)
(*                                                                         *)
(* Actors: the user thread inside Register, Discover, DiscoverService,     *)
(* Delete or Watch (mutex_ admits one at a time: op), the heartbeat thread *)
(* (hb), the event thread of the C library that runs WatcherCallback (ev), *)
(* Stop, and ZooKeeper with its other clients.                             *)
(*                                                                         *)
(* A block under cache_mutex_ is one step and a synchronous zoo_ call is   *)
(* one step; between them the other threads move.  Register's zoo_exists   *)
(* and zoo_set/zoo_create are one step: the version, or ZNODEEXISTS, makes *)
(* the pair fail when the node changed in between, and it then throws.     *)
(*                                                                         *)
(* ZooKeeper is external: a node that a watch is armed on sends one event  *)
(* at its next change.  A change that happens while this client is away is *)
(* reported when it is back, so armed nodes change only while it is there. *)
(***************************************************************************)
EXTENDS Naturals, Sequences

CONSTANTS
  Paths,       \* the instance nodes of the service
  Data,        \* what a node may hold: the methods of the instance
  NoData,      \* no such node, no such entry
  NoPath,
  WatchPaths,  \* the paths the user may Watch
  Discovers,   \* TRUE: the user calls Discover and DiscoverService
  SessionLoss, \* TRUE: the session may be interrupted, and expire
  MaxEvents    \* bound on undelivered events

ASSUME ZookeeperAssumption ==
  /\ NoData \notin Data
  /\ NoPath \notin Paths
  /\ WatchPaths \subseteq Paths
  /\ SessionLoss \in BOOLEAN /\ Discovers \in BOOLEAN
  /\ MaxEvents \in Nat \ {0}

VARIABLES
  node, owner, parent, \* ZooKeeper: data of each node, its session, /service exists
  session, armed,      \* state of this client's session, its one-shot watches
  events,              \* events sent to this client and not yet taken
  is_connected_, life, \* life: running_, and how far Stop got
  cached, cache,       \* service_cache_ has the key; its (path, data) entries
  watchers_,
  op,                  \* what the user thread is in the middle of
  found,               \* last result of DiscoverService
  hb, ev,              \* positions of the heartbeat and event threads
  notified             \* notified[p]: last data the callback of p got

zkVars     == <<node, owner, parent, session, armed, events>>
cacheVars  == <<cached, cache>>
userVars   == <<op, found>>
clientVars == <<is_connected_, life, watchers_>>
threadVars == <<hb, ev, notified>>
vars == <<zkVars, cacheVars, userVars, clientVars, threadVars>>

Values == Data \union {NoData}
Nothing == [p \in Paths |-> NoData]
Present == {p \in Paths : node[p] # NoData}
Online == session = "connected"

(* Records of the three threads; unused fields hold their defaults.        *)
Op(step, p, d, todo, got, before) ==
  [step |-> step, path |-> p, data |-> d, todo |-> todo, got |-> got, before |-> before]
NoOp == Op("none", NoPath, NoData, {}, Nothing, {})
Ev(step, type, p, d) == [step |-> step, type |-> type, path |-> p, data |-> d]
NoEv == Ev("none", "none", NoPath, NoData)
Hb(step, paths) == [step |-> step, paths |-> paths]

(* A created node and a changed one are handled alike.                     *)
NodeEvents == {"changed", "deleted"}
SessionEvents == {"connecting", "connected", "expired"}

TypeOK ==
  /\ node \in [Paths -> Values] /\ owner \in [Paths -> {"self", "other"}]
  /\ parent \in BOOLEAN
  /\ session \in SessionEvents
  /\ armed \subseteq Paths
  /\ events \in Seq([type : NodeEvents \union SessionEvents, path : Paths \union {NoPath}])
  /\ is_connected_ \in BOOLEAN
  /\ life \in {"running", "stopping", "clearing", "stopped", "terminated"}
  /\ cached \in BOOLEAN /\ cache \in [Paths -> Values]
  /\ ~cached => cache = Nothing
  /\ watchers_ \subseteq Paths
  /\ op \in [step : {"none", "get", "insert", "registerInsert", "children", "fetch", "erase", "arm"},
             path : Paths \union {NoPath}, data : Values,
             todo : SUBSET Paths, got : [Paths -> Values], before : SUBSET Paths]
  /\ found \subseteq Paths
  /\ hb \in [step : {"idle", "prune", "exited"}, paths : SUBSET Paths]
  /\ ev \in [step : {"none", "get", "insert", "call", "arm", "erase"},
             type : NodeEvents \union {"none"}, path : Paths \union {NoPath}, data : Values]
  /\ notified \in [Paths -> Values]

(* The state behind a successful Start.                                    *)
Init ==
  /\ node \in [Paths -> Values]
  /\ owner = [p \in Paths |-> "other"]
  /\ parent \in BOOLEAN /\ (Present # {} => parent)
  /\ session = "connected" /\ armed = {} /\ events = <<>>
  /\ is_connected_ = TRUE /\ life = "running"
  /\ cached = FALSE /\ cache = Nothing
  /\ watchers_ = {}
  /\ op = NoOp /\ found = {}
  /\ hb = Hb("idle", {}) /\ ev = NoEv
  /\ notified = Nothing

-----------------------------------------------------------------------------
(* service_cache_                                                          *)

(* CacheInsertKeyless: mutant that fills a list without its key.           *)
CacheInsertKeyless(p, d) ==
  /\ UNCHANGED cached
  /\ cache' = [cache EXCEPT ![p] = d]

CacheInsert(p, d) ==
  /\ cached' = TRUE
  /\ cache' = [cache EXCEPT ![p] = d]

(* Drop the entries outside keep; an empty list loses its key.             *)
(* CacheKeepEmpty: mutant that leaves the empty list behind.               *)
CacheKeepEmpty(keep) ==
  /\ cache' = [p \in Paths |-> IF p \in keep THEN cache[p] ELSE NoData]
  /\ UNCHANGED cached

CacheKeep(keep) ==
  /\ cache' = [p \in Paths |-> IF p \in keep THEN cache[p] ELSE NoData]
  /\ cached' = (cached /\ cache' # Nothing)

-----------------------------------------------------------------------------
(* ZooKeeper                                                               *)

(* The events behind a change of p to d: one if a watch is armed on it.    *)
EventsOf(p, d) ==
  LET type == IF d = NoData THEN "deleted" ELSE "changed" IN
  IF p \in armed THEN Append(events, [type |-> type, path |-> p]) ELSE events

ChangeNode(p, d, o) ==
  /\ node' = [node EXCEPT ![p] = d]
  /\ owner' = [owner EXCEPT ![p] = o]
  /\ parent' = TRUE
  /\ armed' = armed \ {p}

SetNode(p, d, o) ==
  /\ p \in armed => Len(events) < MaxEvents
  /\ ChangeNode(p, d, o)
  /\ events' = EventsOf(p, d)
  /\ UNCHANGED session

(* The change is made, but its reply is lost with the connection.          *)
SetNodeReplyLost(p, d, o) ==
  /\ SessionLoss
  /\ Len(EventsOf(p, d)) < MaxEvents
  /\ ChangeNode(p, d, o)
  /\ session' = "connecting"
  /\ events' = Append(EventsOf(p, d), [type |-> "connecting", path |-> NoPath])

(* Another client creates or changes an instance, or its session expires.  *)
OtherSets(p, d) ==
  /\ p \in armed => Online
  /\ node[p] = NoData \/ owner[p] = "other"
  /\ node[p] # d
  /\ SetNode(p, d, "other")
  /\ UNCHANGED <<cacheVars, userVars, clientVars, threadVars>>

SessionChanges(s) ==
  /\ Len(events) < MaxEvents
  /\ session' = s
  /\ events' = Append(events, [type |-> s, path |-> NoPath])

Interrupted ==
  /\ SessionLoss /\ life = "running"
  /\ Online
  /\ SessionChanges("connecting")
  /\ UNCHANGED <<node, owner, parent, armed, cacheVars, userVars, clientVars, threadVars>>

Reconnected ==
  /\ session = "connecting"
  /\ SessionChanges("connected")
  /\ UNCHANGED <<node, owner, parent, armed, cacheVars, userVars, clientVars, threadVars>>

(* The ephemeral nodes of the session go, and its watches with them.       *)
Expired ==
  /\ session = "connecting"
  /\ SessionChanges("expired")
  /\ node' = [p \in Paths |-> IF owner[p] = "self" THEN NoData ELSE node[p]]
  /\ owner' = [p \in Paths |-> "other"]
  /\ armed' = {}
  /\ UNCHANGED <<parent, cacheVars, userVars, clientVars, threadVars>>

-----------------------------------------------------------------------------
(* The user thread, one operation at a time under mutex_                   *)

(* A call that throws before it did anything, or finds its answer in the   *)
(* cache, changes nothing: it is no step of its own.                       *)
Begin == life = "running" /\ op = NoOp
Returns == op' = NoOp
Reachable == Online /\ is_connected_

(* GetNodeData: zoo_get, or the exceptions in its place.                   *)
Reads(p) == Reachable /\ node[p] # NoData

(* An existing node keeps its data's new value and its old owner.          *)
Register(p, d) ==
  LET o == IF node[p] = NoData THEN "self" ELSE owner[p] IN
  /\ Begin
  /\ Reachable
  /\ \/ /\ SetNode(p, d, o)
        /\ op' = Op("registerInsert", p, d, {}, Nothing, {})
     \/ /\ SetNodeReplyLost(p, d, o)
        /\ Returns
     \/ /\ ~parent  \* the parent is created, the rest fails
        /\ parent' = TRUE
        /\ UNCHANGED <<node, owner, session, armed, events, op>>
  /\ UNCHANGED <<cacheVars, found, clientVars, threadVars>>

Discover(p) ==
  /\ Begin /\ Discovers
  /\ cache[p] = NoData
  /\ op' = Op("get", p, NoData, {}, Nothing, {})
  /\ UNCHANGED <<zkVars, cacheVars, found, clientVars, threadVars>>

DiscoverGets ==
  /\ op.step = "get"
  /\ IF Reads(op.path)
       THEN op' = Op("insert", op.path, node[op.path], {}, Nothing, {})
       ELSE Returns
  /\ UNCHANGED <<zkVars, cacheVars, found, clientVars, threadVars>>

InsertResult ==
  /\ op.step \in {"insert", "registerInsert"}
  /\ CacheInsert(op.path, op.data)
  /\ Returns
  /\ UNCHANGED <<zkVars, found, clientVars, threadVars>>

DiscoverService ==
  /\ Begin /\ Discovers
  /\ \/ /\ cached
        /\ found' = {p \in Paths : cache[p] # NoData}
        /\ UNCHANGED op
     \/ /\ ~cached
        /\ op' = Op("children", NoPath, NoData, {}, Nothing, Present)
        /\ UNCHANGED found
  /\ UNCHANGED <<zkVars, cacheVars, clientVars, threadVars>>

ListChildren ==
  /\ op.step = "children"
  /\ IF Online /\ parent
       THEN op' = [op EXCEPT !.step = "fetch", !.todo = Present]
       ELSE Returns
  /\ UNCHANGED <<zkVars, cacheVars, found, clientVars, threadVars>>

FetchChild(p) ==
  /\ op.step = "fetch"
  /\ p \in op.todo
  /\ op' = [op EXCEPT !.todo = @ \ {p},
                      !.got = IF Reads(p) THEN [@ EXCEPT ![p] = node[p]] ELSE @]
  /\ UNCHANGED <<zkVars, cacheVars, found, clientVars, threadVars>>

StoreService ==
  /\ op.step = "fetch" /\ op.todo = {}
  /\ cached' = TRUE
  /\ cache' = op.got
  /\ found' = {p \in Paths : op.got[p] # NoData}
  /\ Returns
  /\ UNCHANGED <<zkVars, clientVars, threadVars>>

Delete(p) ==
  /\ Begin
  /\ Online /\ node[p] # NoData
  /\ \/ /\ SetNode(p, NoData, "other")
        /\ op' = Op("erase", p, NoData, {}, Nothing, {})
     \/ /\ SetNodeReplyLost(p, NoData, "other")
        /\ Returns
  /\ UNCHANGED <<cacheVars, found, clientVars, threadVars>>

EraseDeleted ==
  /\ op.step = "erase"
  /\ CacheKeep(Paths \ {op.path})
  /\ watchers_' = watchers_ \ {op.path}
  /\ Returns
  /\ UNCHANGED <<zkVars, found, is_connected_, life, threadVars>>

Watch(p) ==
  /\ Begin
  /\ p \in WatchPaths
  /\ is_connected_
  /\ watchers_' = watchers_ \union {p}
  /\ notified' = [notified EXCEPT ![p] = NoData]
  /\ op' = Op("arm", p, NoData, {}, Nothing, {})
  /\ UNCHANGED <<zkVars, cacheVars, found, is_connected_, life, hb, ev>>

ArmWatch ==
  /\ op.step = "arm"
  /\ armed' = IF Reachable THEN armed \union {op.path} ELSE armed
  /\ Returns
  /\ UNCHANGED <<node, owner, parent, session, events, cacheVars, found,
                 clientVars, threadVars>>

-----------------------------------------------------------------------------
(* The heartbeat thread                                                    *)

HeartbeatLists ==
  /\ hb.step = "idle" /\ life = "running" /\ is_connected_
  /\ cached /\ Online /\ parent
  /\ hb' = Hb("prune", Present)
  /\ UNCHANGED <<zkVars, cacheVars, userVars, clientVars, ev, notified>>

(* HeartbeatSkips: mutant that returns before it prunes.                   *)
HeartbeatSkips ==
  /\ hb.step = "prune"
  /\ hb' = Hb("idle", {})
  /\ UNCHANGED <<zkVars, cacheVars, userVars, clientVars, ev, notified>>

HeartbeatPrunes ==
  /\ hb.step = "prune"
  /\ CacheKeep(hb.paths)
  /\ hb' = Hb("idle", {})
  /\ UNCHANGED <<zkVars, userVars, clientVars, ev, notified>>

HeartbeatExits ==
  /\ hb.step = "idle"
  /\ life # "running" \/ ~is_connected_
  /\ hb' = Hb("exited", {})
  /\ UNCHANGED <<zkVars, cacheVars, userVars, clientVars, ev, notified>>

-----------------------------------------------------------------------------
(* The event thread: WatcherCallback                                       *)

TakesEvent ==
  /\ life \notin {"stopped", "terminated"}
  /\ ev = NoEv
  /\ events # <<>>
  /\ events' = Tail(events)
  /\ UNCHANGED <<node, owner, parent, session, armed>>

(* SessionEventIgnored: mutant that forgets the session coming back.       *)
SessionEventIgnored ==
  /\ TakesEvent
  /\ Head(events).type \in SessionEvents
  /\ is_connected_' = (is_connected_ /\ Head(events).type = "connected")
  /\ UNCHANGED <<cacheVars, life, watchers_, userVars, threadVars>>

SessionEvent ==
  /\ TakesEvent
  /\ Head(events).type \in SessionEvents
  /\ IF life = "running"
       THEN /\ is_connected_' = (Head(events).type = "connected")
            /\ IF Head(events).type = "expired"
                 THEN cached' = FALSE /\ cache' = Nothing
                 ELSE UNCHANGED cacheVars
       ELSE UNCHANGED <<is_connected_, cacheVars>>
  /\ UNCHANGED <<life, watchers_, userVars, threadVars>>

NodeEvent ==
  LET e == Head(events) IN
  /\ TakesEvent
  /\ e.type \in NodeEvents
  /\ ev' = IF life = "running" /\ e.path \in watchers_
             THEN Ev(IF e.type = "deleted" THEN "erase" ELSE "get", e.type, e.path, NoData)
             ELSE NoEv
  /\ UNCHANGED <<cacheVars, userVars, clientVars, hb, notified>>

(* A node that is gone again ends the handling, and the watch with it.     *)
(* EventGetsCached: mutant that believes an entry of the cache.            *)
EventGetsCached ==
  /\ ev.step = "get"
  /\ LET d == IF cache[ev.path] # NoData THEN cache[ev.path] ELSE node[ev.path]
     IN ev' = IF Reads(ev.path) THEN Ev("insert", ev.type, ev.path, d) ELSE NoEv
  /\ UNCHANGED <<zkVars, cacheVars, userVars, clientVars, hb, notified>>

EventGets ==
  /\ ev.step = "get"
  /\ ev' = IF Reads(ev.path) THEN Ev("insert", ev.type, ev.path, node[ev.path]) ELSE NoEv
  /\ UNCHANGED <<zkVars, cacheVars, userVars, clientVars, hb, notified>>

EventInserts ==
  /\ ev.step = "insert"
  /\ CacheInsert(ev.path, ev.data)
  /\ ev' = [ev EXCEPT !.step = "call"]
  /\ UNCHANGED <<zkVars, userVars, clientVars, hb, notified>>

EventErases ==
  /\ ev.step = "erase"
  /\ CacheKeep(Paths \ {ev.path})
  /\ watchers_' = watchers_ \ {ev.path}
  /\ ev' = [ev EXCEPT !.step = "call"]
  /\ UNCHANGED <<zkVars, userVars, is_connected_, life, hb, notified>>

EventCalls ==
  /\ ev.step = "call"
  /\ notified' = [notified EXCEPT ![ev.path] = ev.data]
  /\ ev' = [ev EXCEPT !.step = "arm"]
  /\ UNCHANGED <<zkVars, cacheVars, userVars, clientVars, hb>>

(* RegisterWatcher.  It throws when zoo_wexists fails; behind a deletion   *)
(* nobody catches that, and the process terminates.                        *)
(* EventNeverArms: mutant that forgets that watches fire once.             *)
EventNeverArms ==
  /\ ev.step = "arm"
  /\ ev' = NoEv
  /\ UNCHANGED <<zkVars, cacheVars, userVars, clientVars, hb, notified>>

EventArms ==
  /\ ev.step = "arm"
  /\ armed' = IF Reachable THEN armed \union {ev.path} ELSE armed
  /\ life' = IF is_connected_ /\ ~Online /\ ev.type = "deleted" THEN "terminated" ELSE life
  /\ ev' = NoEv
  /\ UNCHANGED <<node, owner, parent, session, events, cacheVars, userVars,
                 is_connected_, watchers_, hb, notified>>

-----------------------------------------------------------------------------
(* Stop: running_ off, join the heartbeat, clear, zookeeper_close, which   *)
(* joins the event thread.  Nobody stops a client in the middle of an      *)
(* operation.                                                              *)
Stop ==
  /\ Begin
  /\ life' = "stopping"
  /\ UNCHANGED <<zkVars, cacheVars, userVars, is_connected_, watchers_, threadVars>>

StopClears ==
  /\ life = "stopping"
  /\ hb.step = "exited"
  /\ life' = "clearing"
  /\ watchers_' = {}
  /\ cached' = FALSE /\ cache' = Nothing
  /\ UNCHANGED <<zkVars, userVars, is_connected_, threadVars>>

StopCloses ==
  /\ life = "clearing"
  /\ ev = NoEv
  /\ life' = "stopped"
  /\ events' = <<>> /\ armed' = {}
  /\ node' = [p \in Paths |-> IF owner[p] = "self" THEN NoData ELSE node[p]]
  /\ owner' = [p \in Paths |-> "other"]
  /\ UNCHANGED <<parent, session, cacheVars, userVars, is_connected_, watchers_, threadVars>>

-----------------------------------------------------------------------------
UserContinues ==
  /\ life = "running"
  /\ \/ DiscoverGets
     \/ InsertResult
     \/ ListChildren
     \/ \E p \in Paths : FetchChild(p)
     \/ StoreService
     \/ EraseDeleted
     \/ ArmWatch

Heartbeat ==
  /\ life # "terminated"
  /\ HeartbeatLists \/ HeartbeatPrunes \/ HeartbeatExits

WatcherCallback ==
  /\ life # "terminated"
  /\ \/ SessionEvent
     \/ NodeEvent
     \/ EventGets
     \/ EventInserts
     \/ EventErases
     \/ EventCalls
     \/ EventArms

Next ==
  \/ \E p \in Paths : \E d \in Values : OtherSets(p, d)
  \/ Interrupted
  \/ Reconnected
  \/ Expired
  \/ \E p \in Paths : \E d \in Data : Register(p, d)
  \/ \E p \in Paths : Discover(p) \/ Delete(p) \/ Watch(p)
  \/ DiscoverService
  \/ UserContinues
  \/ Heartbeat
  \/ WatcherCallback
  \/ Stop
  \/ StopClears
  \/ StopCloses

(* Operations under way, the heartbeat and the event thread go on.         *)
Fairness == WF_vars(UserContinues) /\ WF_vars(Heartbeat) /\ WF_vars(WatcherCallback)

Spec == Init /\ [][Next]_vars
FairSpec == Spec /\ Fairness

-----------------------------------------------------------------------------
(* An instance that is gone for good is forgotten: no operation that read  *)
(* it before it went, and no session that came and went in between, brings *)
(* it back into the cache for ever.  The heartbeat thread that prunes ends *)
(* with the first interruption it sees; what holds, holds while it lives.  *)
DeadInstanceForgotten ==
  \A p \in Paths :
    <>[](/\ node[p] = NoData /\ Online /\ hb.step # "exited"
         /\ life = "running")
      => <>[](cache[p] = NoData)

(* An empty listing is not kept: a client that looked for a service before *)
(* its first instance came up looks again later.                           *)
EmptyListForgotten ==
  []<>(~(cached /\ cache = Nothing) \/ ~Online \/ hb.step = "exited" \/ life # "running")

(* A registered path keeps being covered: its watch is armed, or an event  *)
(* of it is on its way or being handled, or Watch is still at it.  It is   *)
(* lost when the session is, when Stop has begun, and where the handler    *)
(* finds a node that was created or changed gone again: GetNodeData        *)
(* throws, and RegisterWatcher behind it is not reached.                   *)
Pending(p) == \E i \in 1..Len(events) : events[i].path = p

Covered(p) ==
  \/ p \in armed \/ Pending(p)
  \/ ev.path = p
  \/ op.step = "arm" /\ op.path = p

GoneBeforeRead(p) == ev.step = "get" /\ ev.path = p /\ node[p] = NoData

WatchKept ==
  [][\A p \in watchers_ \intersect watchers_' :
       Covered(p) => Covered(p)' \/ GoneBeforeRead(p) \/ ~Reachable \/ life # "running"]_vars

(* What the callback of a registered path was told, or is about to be by   *)
(* the event at hand, is what its node holds, or an event is on its way.   *)
(* It ceases to be so only where the node changes while no watch is armed: *)
(* between zoo_get and the new zoo_wexists, and where the watch is lost.   *)
Told(p) == IF ev.path = p /\ ev.step \in {"erase", "insert", "call"} THEN ev.data ELSE notified[p]

Informed(p) ==
  \/ Told(p) \in {node[p], NoData} \/ Pending(p)
  \/ ev.path = p /\ ev.step = "get"

ChangedUnwatched(p) == node'[p] # node[p] /\ p \notin armed

StaleOnlyUnwatched ==
  [][\A p \in watchers_ \intersect watchers_' :
       Informed(p) => \/ Informed(p)' \/ ChangedUnwatched(p) \/ GoneBeforeRead(p)
                      \/ ~Reachable \/ life # "running"]_vars

(* is_connected_ is never wrong about the session for longer than the      *)
(* events on their way need: the last of them tells how the session is,    *)
(* and when there is none, is_connected_ does.                             *)
ConnectedFollows ==
  life = "running" =>
    LET Tells(i) == events[i].type \in SessionEvents
    IN /\ (\A i \in 1..Len(events) : ~Tells(i)) => is_connected_ = Online
       /\ \A i \in 1..Len(events) :
            Tells(i) /\ (\A j \in i + 1..Len(events) : ~Tells(j)) => events[i].type = session

(* The callback is told of a change that met an armed watch, with the data *)
(* the node then holds, unless the node changes again, its registration    *)
(* ends (the event of an earlier deletion ends a later one as well) or the *)
(* session is interrupted.                                                 *)
ChangeIsTold ==
  \A p \in Paths : \A d \in Data :
    Pending(p) /\ p \in watchers_ /\ node[p] = d
      ~> notified[p] = d \/ node[p] # d \/ p \notin watchers_ \/ ~Reachable \/ life # "running"

(* is_connected_ follows the session, whatever order interruptions and     *)
(* reconnections come in.                                                  *)
ConnectedConverges ==
  /\ <>[](Online /\ life = "running") => <>[]is_connected_
  /\ <>[](~Online /\ life = "running") => <>[](~is_connected_)

-----------------------------------------------------------------------------
(* What the documentation says and the code does not do.                   *)

(* docs/api.md: DiscoverService returns all instances of the service: all  *)
(* those that are there from its start to its return.                      *)
DiscoversAll ==
  [][op'.step = "none" /\ found' # found =>
       (IF op.step = "none" THEN Present ELSE op.before \intersect Present) \subseteq found']_vars
=============================================================================
