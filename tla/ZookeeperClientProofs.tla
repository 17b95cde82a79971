----------------------- MODULE ZookeeperClientProofs -----------------------
(* Safety of ZookeeperClient for any paths, data, and number of events.    *)
EXTENDS ZookeeperClient, SequenceTheorems, TLAPS

(* The type invariant, in groups of variables that change together, with   *)
(* what makes it inductive: a thread at work on a path has one.            *)

NodeEventType == [type : NodeEvents, path : Paths]
EventType == NodeEventType \union [type : SessionEvents, path : {NoPath}]

ZkType ==
  /\ node \in [Paths -> Values] /\ owner \in [Paths -> {"self", "other"}]
  /\ parent \in BOOLEAN /\ session \in SessionEvents
  /\ armed \subseteq Paths
  /\ events \in Seq(EventType)

CacheType ==
  /\ cached \in BOOLEAN /\ cache \in [Paths -> Values]
  /\ ~cached => cache = Nothing

OpType ==
  [step : {"none", "get", "insert", "registerInsert", "children", "fetch", "erase", "arm"},
   path : Paths \union {NoPath}, data : Values,
   todo : SUBSET Paths, got : [Paths -> Values], before : SUBSET Paths]

UserType ==
  /\ op \in OpType
  /\ op.step \in {"get", "insert", "registerInsert", "erase", "arm"} => op.path \in Paths
  /\ found \subseteq Paths

ClientType ==
  /\ is_connected_ \in BOOLEAN
  /\ life \in {"running", "stopping", "clearing", "stopped", "terminated"}
  /\ watchers_ \subseteq Paths

EvType == [step : {"none", "get", "insert", "call", "arm", "erase"},
           type : NodeEvents \union {"none"}, path : Paths \union {NoPath}, data : Values]

ThreadType ==
  /\ hb \in [step : {"idle", "prune", "exited"}, paths : SUBSET Paths]
  /\ ev \in EvType
  /\ ev.step # "none" => ev.path \in Paths
  /\ notified \in [Paths -> Values]

TypeInv == ZkType /\ CacheType /\ UserType /\ ClientType /\ ThreadType

(* The groups add up to TypeOK.                                            *)
LEMMA TypeInvOK == TypeInv => TypeOK
<1> SUFFICES ASSUME TypeInv PROVE TypeOK
  OBVIOUS
<1> DEFINE E == [type : NodeEvents \union SessionEvents, path : Paths \union {NoPath}]
<1>1. EventType \subseteq E
  BY DEF EventType, NodeEventType
<1>2. events \in Seq(EventType)
  BY DEF TypeInv, ZkType
<1>3. events \in Seq(E)
  <2> HIDE DEF E
  <2> QED BY <1>1, <1>2
<1> QED
  BY <1>3 DEF TypeInv, ZkType, CacheType, UserType, OpType, ClientType, ThreadType, EvType,
     TypeOK

(* A group whose variables are unchanged keeps its type.                   *)
LEMMA GroupsKept ==
  ASSUME TypeInv
  PROVE  /\ UNCHANGED zkVars => ZkType'
         /\ UNCHANGED cacheVars => CacheType'
         /\ UNCHANGED userVars => UserType'
         /\ UNCHANGED clientVars => ClientType'
         /\ UNCHANGED threadVars => ThreadType'
<1>1. UNCHANGED zkVars => ZkType'
  BY DEF TypeInv, zkVars, ZkType
<1>2. UNCHANGED cacheVars => CacheType'
  BY DEF TypeInv, cacheVars, CacheType
<1>3. UNCHANGED userVars => UserType'
  BY DEF TypeInv, userVars, UserType
<1>4. UNCHANGED clientVars => ClientType'
  BY DEF TypeInv, clientVars, ClientType
<1>5. UNCHANGED threadVars => ThreadType'
  BY DEF TypeInv, threadVars, ThreadType
<1> QED BY <1>1, <1>2, <1>3, <1>4, <1>5

(* The records the threads start from are well typed.                      *)
LEMMA Defaults ==
  /\ Nothing \in [Paths -> Values] /\ NoData \in Values /\ Present \subseteq Paths
  /\ NoOp \in OpType /\ NoOp.step = "none"
  /\ NoEv \in EvType /\ NoEv.step = "none"
<1>1. Nothing \in [Paths -> Values] /\ NoData \in Values
  BY DEF Nothing, Values
<1> QED BY <1>1 DEF NoOp, Op, OpType, NoEv, Ev, EvType, Present

(* What the operations on the cache leave is well typed.                   *)
LEMMA CacheSteps ==
  ASSUME TypeInv
  PROVE  /\ \A p \in Paths : \A d \in Values : CacheInsert(p, d) => CacheType'
         /\ \A keep : CacheKeep(keep) => CacheType'
         /\ cached' = FALSE /\ cache' = Nothing => CacheType'
<1>1. ASSUME NEW p \in Paths, NEW d \in Values, CacheInsert(p, d) PROVE CacheType'
  BY <1>1 DEF TypeInv, CacheInsert, CacheType
<1>2. ASSUME NEW keep, CacheKeep(keep) PROVE CacheType'
  <2>1. cache' \in [Paths -> Values]
    BY <1>2, Defaults DEF CacheKeep, TypeInv, CacheType
  <2>2. cached' \in BOOLEAN
    BY <1>2 DEF CacheKeep
  <2>3. ~cached' => cache' = Nothing
    <3>1. CASE cached
      BY <1>2, <3>1 DEF CacheKeep
    <3>2. CASE ~cached
      <4>1. cache = Nothing
        BY <3>2 DEF TypeInv, CacheType
      <4> QED BY <1>2, <4>1 DEF CacheKeep, Nothing
    <3> QED BY <3>1, <3>2
  <2>4. Nothing' = Nothing
    BY DEF Nothing
  <2> QED BY <2>1, <2>2, <2>3, <2>4 DEF CacheType
<1>3. ASSUME cached' = FALSE, cache' = Nothing PROVE CacheType'
  BY <1>3, Defaults DEF CacheType, Nothing
<1> QED BY <1>1, <1>2, <1>3

(* The events behind a change of a node are events.                        *)
LEMMA EventsOfType ==
  ASSUME TypeInv, NEW p \in Paths, NEW d \in Values
  PROVE  EventsOf(p, d) \in Seq(EventType)
<1> DEFINE type == IF d = NoData THEN "deleted" ELSE "changed"
           e == [type |-> type, path |-> p]
<1>1. e \in EventType
  BY DEF EventType, NodeEventType, NodeEvents
<1>2. EventsOf(p, d) = IF p \in armed THEN Append(events, e) ELSE events
  BY DEF EventsOf
<1>3. events \in Seq(EventType)
  BY DEF TypeInv, ZkType
<1> HIDE DEF e
<1> QED BY <1>1, <1>2, <1>3

(* A change of a node is well typed, whether its reply arrives or not.     *)
LEMMA SetNodeType ==
  ASSUME TypeInv, NEW p \in Paths, NEW d \in Values, NEW o \in {"self", "other"},
         SetNode(p, d, o) \/ SetNodeReplyLost(p, d, o)
  PROVE  ZkType'
<1>1. /\ node' \in [Paths -> Values] /\ owner' \in [Paths -> {"self", "other"}]
      /\ parent' \in BOOLEAN /\ armed' \subseteq Paths
  BY DEF SetNode, SetNodeReplyLost, ChangeNode, TypeInv, ZkType
<1>2. session' \in SessionEvents
  BY DEF SetNode, SetNodeReplyLost, TypeInv, ZkType, SessionEvents
<1>3. events' \in Seq(EventType)
  <2>1. [type |-> "connecting", path |-> NoPath] \in EventType
    BY DEF EventType, SessionEvents
  <2> QED BY <2>1, EventsOfType DEF SetNode, SetNodeReplyLost
<1> QED BY <1>1, <1>2, <1>3 DEF ZkType

(* So is what happens to the session.                                      *)
LEMMA SessionType ==
  ASSUME TypeInv, NEW s \in SessionEvents, SessionChanges(s)
  PROVE  session' \in SessionEvents /\ events' \in Seq(EventType)
<1>1. [type |-> s, path |-> NoPath] \in EventType
  BY DEF EventType
<1>2. events' \in Seq(EventType)
  BY <1>1 DEF SessionChanges, TypeInv, ZkType
<1> QED BY <1>2 DEF SessionChanges

-----------------------------------------------------------------------------
(* Every step keeps the types.                                             *)

ZooKeeperStep ==
  \/ \E p \in Paths : \E d \in Values : OtherSets(p, d)
  \/ Interrupted \/ Reconnected \/ Expired

UserStep ==
  \/ \E p \in Paths : \E d \in Data : Register(p, d)
  \/ \E p \in Paths : Discover(p) \/ Delete(p) \/ Watch(p)
  \/ DiscoverService
  \/ UserContinues

StopStep == Stop \/ StopClears \/ StopCloses

(* Steps of ZooKeeper and of its other clients.                            *)
LEMMA ZooKeeperType == TypeInv /\ ZooKeeperStep => TypeInv'
<1> SUFFICES ASSUME TypeInv, ZooKeeperStep PROVE TypeInv'
  OBVIOUS
<1>1. UNCHANGED <<cacheVars, userVars, clientVars, threadVars>>
  BY DEF ZooKeeperStep, OtherSets, Interrupted, Reconnected, Expired
<1>2. ASSUME NEW p \in Paths, NEW d \in Values, OtherSets(p, d) PROVE ZkType'
  BY <1>2, SetNodeType DEF OtherSets
<1>3. ASSUME Interrupted \/ Reconnected PROVE ZkType'
  <2>1. PICK s \in SessionEvents : SessionChanges(s)
    BY <1>3 DEF Interrupted, Reconnected, SessionEvents
  <2>2. UNCHANGED <<node, owner, parent, armed>>
    BY <1>3 DEF Interrupted, Reconnected
  <2> QED BY <2>1, <2>2, SessionType DEF TypeInv, ZkType
<1>4. ASSUME Expired PROVE ZkType'
  <2>1. session' \in SessionEvents /\ events' \in Seq(EventType)
    BY <1>4, SessionType DEF Expired, SessionEvents
  <2>2. node' \in [Paths -> Values]
    BY <1>4, Defaults DEF Expired, TypeInv, ZkType
  <2>3. owner' \in [Paths -> {"self", "other"}] /\ armed' \subseteq Paths /\ parent' = parent
    BY <1>4 DEF Expired
  <2> QED BY <2>1, <2>2, <2>3 DEF TypeInv, ZkType
<1>5. ZkType'
  BY <1>2, <1>3, <1>4 DEF ZooKeeperStep
<1> QED BY <1>1, <1>5, GroupsKept DEF TypeInv

(* Every operation of the user.                                            *)
LEMMA UserStepType == TypeInv /\ UserStep => TypeInv'
<1> SUFFICES ASSUME TypeInv, UserStep PROVE TypeInv'
  OBVIOUS
<1>0. /\ op \in OpType /\ found \subseteq Paths /\ node \in [Paths -> Values]
      /\ NoOp \in OpType /\ NoOp.step = "none"
  BY Defaults DEF TypeInv, UserType, ZkType
<1>1. ASSUME NEW step \in {"get", "insert", "registerInsert", "children", "erase", "arm"},
             NEW p \in Paths \union {NoPath}, step # "children" => p \in Paths,
             NEW d \in Values, NEW before \in SUBSET Paths,
             op' = Op(step, p, d, {}, Nothing, before), UNCHANGED found
      PROVE  UserType'
  BY <1>0, <1>1, Defaults DEF Op, OpType, UserType
<1>2. ASSUME Returns, found' \subseteq Paths PROVE UserType'
  BY <1>0, <1>2 DEF Returns, UserType
<1>3. ASSUME NEW p \in Paths, NEW d \in Data, Register(p, d) PROVE TypeInv'
  <2> DEFINE o == IF node[p] = NoData THEN "self" ELSE owner[p]
  <2>1. d \in Values /\ o \in {"self", "other"}
    BY DEF Values, TypeInv, ZkType
  <2>2. UNCHANGED <<cacheVars, found, clientVars, threadVars>>
    BY <1>3 DEF Register
  <2>3. CASE SetNode(p, d, o) /\ op' = Op("registerInsert", p, d, {}, Nothing, {})
    <3>1. UserType'
      BY <1>1, <2>1, <2>2, <2>3
    <3> QED BY <2>1, <2>2, <2>3, <3>1, SetNodeType, GroupsKept DEF TypeInv
  <2>4. CASE SetNodeReplyLost(p, d, o) /\ Returns
    <3>1. UserType'
      BY <1>0, <1>2, <2>2, <2>4
    <3> QED BY <2>1, <2>2, <2>4, <3>1, SetNodeType, GroupsKept DEF TypeInv
  <2>5. CASE parent' = TRUE /\ UNCHANGED <<node, owner, session, armed, events, op>>
    <3>1. ZkType'
      BY <2>5 DEF TypeInv, ZkType
    <3> QED BY <2>2, <2>5, <3>1, GroupsKept DEF TypeInv, userVars
  <2> QED BY <1>3, <2>3, <2>4, <2>5 DEF Register
<1>4. ASSUME NEW p \in Paths, Discover(p) PROVE TypeInv'
  <2>1. UserType'
    BY <1>1, <1>4, Defaults DEF Discover
  <2> QED BY <1>4, <2>1, GroupsKept DEF Discover, TypeInv
<1>5. ASSUME NEW p \in Paths, Delete(p) PROVE TypeInv'
  <2>1. ZkType'
    BY <1>5, SetNodeType, Defaults DEF Delete
  <2>2. UserType'
    BY <1>0, <1>1, <1>2, <1>5, Defaults DEF Delete
  <2> QED BY <1>5, <2>1, <2>2, GroupsKept DEF Delete, TypeInv
<1>6. ASSUME NEW p \in Paths, Watch(p) PROVE TypeInv'
  <2>1. UserType'
    BY <1>1, <1>6, Defaults DEF Watch
  <2>2. ClientType'
    BY <1>6 DEF Watch, TypeInv, ClientType
  <2>3. ThreadType'
    BY <1>6, Defaults DEF Watch, TypeInv, ThreadType
  <2> QED BY <1>6, <2>1, <2>2, <2>3, GroupsKept DEF Watch, TypeInv
<1>7. CASE DiscoverService
  <2>1. UserType'
    <3>1. CASE cached /\ found' = {p \in Paths : cache[p] # NoData} /\ UNCHANGED op
      BY <3>1 DEF TypeInv, UserType
    <3>2. CASE op' = Op("children", NoPath, NoData, {}, Nothing, Present) /\ UNCHANGED found
      BY <1>1, <3>2, Defaults
    <3> QED BY <1>7, <3>1, <3>2 DEF DiscoverService
  <2> QED BY <1>7, <2>1, GroupsKept DEF DiscoverService, TypeInv
<1>8. CASE DiscoverGets
  <2>1. UserType'
    <3>1. op.path \in Paths
      BY <1>8 DEF DiscoverGets, TypeInv, UserType
    <3>2. CASE op' = Op("insert", op.path, node[op.path], {}, Nothing, {})
      BY <1>0, <1>1, <1>8, <3>1, <3>2 DEF DiscoverGets
    <3> QED BY <1>0, <1>2, <1>8, <3>2 DEF DiscoverGets
  <2> QED BY <1>8, <2>1, GroupsKept DEF DiscoverGets, TypeInv
<1>9. CASE InsertResult
  <2>1. op.path \in Paths /\ op.data \in Values
    BY <1>0, <1>9 DEF InsertResult, TypeInv, UserType, OpType
  <2>2. CacheType' /\ UserType'
    BY <1>0, <1>2, <1>9, <2>1, CacheSteps DEF InsertResult
  <2> QED BY <1>9, <2>2, GroupsKept DEF InsertResult, TypeInv
<1>10. CASE ListChildren
  <2>1. UserType'
    <3>1. CASE op' = [op EXCEPT !.step = "fetch", !.todo = Present]
      BY <1>0, <1>10, <3>1, Defaults DEF ListChildren, OpType, UserType
    <3> QED BY <1>0, <1>2, <1>10, <3>1 DEF ListChildren
  <2> QED BY <1>10, <2>1, GroupsKept DEF ListChildren, TypeInv
<1>11. ASSUME NEW p \in Paths, FetchChild(p) PROVE TypeInv'
  <2>1. PICK got \in [Paths -> Values] : op' = [op EXCEPT !.todo = @ \ {p}, !.got = got]
    <3>1. op.got \in [Paths -> Values]
      BY <1>0 DEF OpType
    <3>2. CASE Reads(p)
      BY <1>0, <1>11, <3>1, <3>2 DEF FetchChild
    <3>3. CASE ~Reads(p)
      BY <1>0, <1>11, <3>1, <3>3 DEF FetchChild
    <3> QED BY <3>2, <3>3
  <2>2. op' \in OpType /\ op'.step = "fetch"
    BY <1>0, <1>11, <2>1 DEF FetchChild, OpType
  <2>3. UserType'
    BY <1>0, <1>11, <2>2 DEF FetchChild, UserType
  <2> QED BY <1>11, <2>3, GroupsKept DEF FetchChild, TypeInv
<1>12. CASE StoreService
  <2>1. cached' = TRUE /\ cache' \in [Paths -> Values]
    BY <1>0, <1>12 DEF StoreService, OpType
  <2>2. CacheType'
    BY <2>1 DEF CacheType
  <2>3. UserType'
    BY <1>2, <1>12 DEF StoreService
  <2> QED BY <1>12, <2>2, <2>3, GroupsKept DEF StoreService, TypeInv
<1>13. CASE EraseDeleted
  <2>1. CacheType' /\ UserType'
    BY <1>0, <1>2, <1>13, CacheSteps DEF EraseDeleted
  <2>2. ClientType'
    BY <1>13 DEF EraseDeleted, TypeInv, ClientType
  <2> QED BY <1>13, <2>1, <2>2, GroupsKept DEF EraseDeleted, TypeInv
<1>14. CASE ArmWatch
  <2>1. op.path \in Paths
    BY <1>14 DEF ArmWatch, TypeInv, UserType
  <2>2. ZkType'
    BY <1>14, <2>1 DEF ArmWatch, TypeInv, ZkType
  <2>3. UserType'
    BY <1>0, <1>2, <1>14 DEF ArmWatch
  <2> QED BY <1>14, <2>2, <2>3, GroupsKept DEF ArmWatch, TypeInv
<1> QED
  BY <1>3, <1>4, <1>5, <1>6, <1>7, <1>8, <1>9, <1>10, <1>11, <1>12, <1>13, <1>14
     DEF UserStep, UserContinues

(* Taking an event leaves a sequence of events.                            *)
LEMMA TakesEventType ==
  ASSUME TypeInv, TakesEvent
  PROVE  /\ ZkType'
         /\ Head(events) \in EventType
         /\ events' = Tail(events) /\ events # <<>>
<1>1. events \in Seq(EventType) /\ events # <<>>
  BY DEF TypeInv, ZkType, TakesEvent
<1>2. events' \in Seq(EventType) /\ Head(events) \in EventType
  BY <1>1 DEF TakesEvent
<1> QED BY <1>1, <1>2 DEF TakesEvent, TypeInv, ZkType

(* The heartbeat thread and the event thread.                              *)
LEMMA ThreadStepType == TypeInv /\ (Heartbeat \/ WatcherCallback) => TypeInv'
<1> SUFFICES ASSUME TypeInv, Heartbeat \/ WatcherCallback PROVE TypeInv'
  OBVIOUS
<1>0. /\ hb \in [step : {"idle", "prune", "exited"}, paths : SUBSET Paths]
      /\ ev \in EvType /\ notified \in [Paths -> Values]
      /\ ev.step # "none" => ev.path \in Paths
      /\ NoEv \in EvType /\ NoEv.step = "none"
  BY Defaults DEF TypeInv, ThreadType
<1>1. ASSUME ev' \in EvType, ev'.step # "none" => ev'.path \in Paths, UNCHANGED <<hb, notified>>
      PROVE  ThreadType'
  BY <1>0, <1>1 DEF ThreadType
<1>2. CASE HeartbeatLists
  <2>1. ThreadType'
    BY <1>0, <1>2, Defaults DEF HeartbeatLists, Hb, ThreadType
  <2> QED BY <1>2, <2>1, GroupsKept DEF HeartbeatLists, TypeInv
<1>3. CASE HeartbeatPrunes
  <2>1. ThreadType'
    BY <1>0, <1>3 DEF HeartbeatPrunes, Hb, ThreadType
  <2>2. CacheType'
    BY <1>3, CacheSteps DEF HeartbeatPrunes
  <2> QED BY <1>3, <2>1, <2>2, GroupsKept DEF HeartbeatPrunes, TypeInv
<1>4. CASE HeartbeatExits
  <2>1. ThreadType'
    BY <1>0, <1>4 DEF HeartbeatExits, Hb, ThreadType
  <2> QED BY <1>4, <2>1, GroupsKept DEF HeartbeatExits, TypeInv
<1>5. CASE SessionEvent
  <2>1. is_connected_' \in BOOLEAN
    BY <1>5 DEF SessionEvent, TypeInv, ClientType
  <2>2. ClientType'
    BY <1>5, <2>1 DEF SessionEvent, TypeInv, ClientType
  <2>3. CacheType'
    <3>1. UNCHANGED cacheVars \/ (cached' = FALSE /\ cache' = Nothing)
      BY <1>5 DEF SessionEvent
    <3> QED BY <3>1, CacheSteps, GroupsKept
  <2> QED BY <1>5, <2>2, <2>3, TakesEventType, GroupsKept DEF SessionEvent, TypeInv
<1>6. CASE NodeEvent
  <2> DEFINE e == Head(events)
  <2>1. e \in NodeEventType
    BY <1>6, TakesEventType
       DEF NodeEvent, EventType, NodeEventType, NodeEvents, SessionEvents
  <2>2. ev' = NoEv
        \/ ev' = Ev(IF e.type = "deleted" THEN "erase" ELSE "get", e.type, e.path, NoData)
    BY <1>6 DEF NodeEvent
  <2>3. ev' \in EvType /\ (ev'.step # "none" => ev'.path \in Paths)
    <3> HIDE DEF e
    <3> QED BY <1>0, <2>1, <2>2, Defaults DEF Ev, EvType, NodeEventType
  <2> QED BY <1>1, <1>6, <2>3, TakesEventType, GroupsKept DEF NodeEvent, TypeInv
<1>7. CASE EventGets
  <2>1. node[ev.path] \in Values /\ ev.path \in Paths
    BY <1>0, <1>7 DEF EventGets, TypeInv, ZkType
  <2>2. ev' \in EvType /\ (ev'.step # "none" => ev'.path \in Paths)
    BY <1>0, <1>7, <2>1 DEF EventGets, Ev, EvType
  <2> QED BY <1>1, <1>7, <2>2, GroupsKept DEF EventGets, TypeInv
<1>8. CASE EventInserts
  <2>1. ev' \in EvType /\ (ev'.step # "none" => ev'.path \in Paths)
    BY <1>0, <1>8 DEF EventInserts, EvType
  <2>2. CacheType'
    BY <1>0, <1>8, CacheSteps DEF EventInserts, EvType
  <2> QED BY <1>1, <1>8, <2>1, <2>2, GroupsKept DEF EventInserts, TypeInv
<1>9. CASE EventErases
  <2>1. ev' \in EvType /\ (ev'.step # "none" => ev'.path \in Paths)
    BY <1>0, <1>9 DEF EventErases, EvType
  <2>2. CacheType'
    BY <1>9, CacheSteps DEF EventErases
  <2>3. ClientType'
    BY <1>9 DEF EventErases, TypeInv, ClientType
  <2> QED BY <1>1, <1>9, <2>1, <2>2, <2>3, GroupsKept DEF EventErases, TypeInv
<1>10. CASE EventCalls
  <2>1. ev' \in EvType /\ (ev'.step # "none" => ev'.path \in Paths)
    BY <1>0, <1>10 DEF EventCalls, EvType
  <2>2. notified' \in [Paths -> Values]
    BY <1>0, <1>10 DEF EventCalls, EvType
  <2>3. ThreadType'
    BY <1>0, <1>10, <2>1, <2>2 DEF EventCalls, ThreadType
  <2> QED BY <1>10, <2>3, GroupsKept DEF EventCalls, TypeInv
<1>11. CASE EventArms
  <2>1. ZkType'
    BY <1>0, <1>11 DEF EventArms, TypeInv, ZkType
  <2>2. ClientType'
    BY <1>11 DEF EventArms, TypeInv, ClientType
  <2>3. ThreadType'
    BY <1>0, <1>1, <1>11 DEF EventArms
  <2> QED BY <1>11, <2>1, <2>2, <2>3, GroupsKept DEF EventArms, TypeInv
<1> QED
  BY <1>2, <1>3, <1>4, <1>5, <1>6, <1>7, <1>8, <1>9, <1>10, <1>11
     DEF Heartbeat, WatcherCallback

(* Stop.                                                                   *)
LEMMA StopStepType == TypeInv /\ StopStep => TypeInv'
<1> SUFFICES ASSUME TypeInv, StopStep PROVE TypeInv'
  OBVIOUS
<1>1. CASE Stop
  <2>1. ClientType'
    BY <1>1 DEF Stop, TypeInv, ClientType
  <2> QED BY <1>1, <2>1, GroupsKept DEF Stop, TypeInv
<1>2. CASE StopClears
  <2>1. ClientType'
    BY <1>2 DEF StopClears, TypeInv, ClientType
  <2> QED BY <1>2, <2>1, CacheSteps, GroupsKept DEF StopClears, TypeInv
<1>3. CASE StopCloses
  <2>1. node' \in [Paths -> Values] /\ owner' \in [Paths -> {"self", "other"}]
    BY <1>3, Defaults DEF StopCloses, TypeInv, ZkType
  <2>2. events' \in Seq(EventType) /\ armed' \subseteq Paths
    BY <1>3 DEF StopCloses
  <2>3. ZkType'
    BY <1>3, <2>1, <2>2 DEF StopCloses, TypeInv, ZkType
  <2>4. ClientType'
    BY <1>3 DEF StopCloses, TypeInv, ClientType
  <2> QED BY <1>3, <2>3, <2>4, GroupsKept DEF StopCloses, TypeInv
<1> QED BY <1>1, <1>2, <1>3 DEF StopStep

(* The steps by actor.                                                     *)
LEMMA NextSteps ==
  [Next]_vars => \/ ZooKeeperStep \/ UserStep \/ Heartbeat \/ WatcherCallback \/ StopStep
                 \/ UNCHANGED vars
BY DEF Next, ZooKeeperStep, UserStep, StopStep

(* Every step keeps the types.                                             *)
LEMMA TypeStep == TypeInv /\ [Next]_vars => TypeInv'
<1> SUFFICES ASSUME TypeInv, [Next]_vars PROVE TypeInv'
  OBVIOUS
<1>1. CASE UNCHANGED vars
  BY <1>1, GroupsKept DEF vars, TypeInv
<1> QED BY <1>1, NextSteps, ZooKeeperType, UserStepType, ThreadStepType, StopStepType

(* Init establishes the types.                                             *)
LEMMA InitTypes == Init => TypeInv
<1> SUFFICES ASSUME Init PROVE TypeInv
  OBVIOUS
<1>1. ZkType
  <2>1. parent \in BOOLEAN
    BY Zenon DEF Init
  <2>2. events \in Seq(EventType)
    BY DEF Init
  <2>3. session \in SessionEvents /\ armed \subseteq Paths
    BY DEF Init, SessionEvents
  <2>4. node \in [Paths -> Values] /\ owner \in [Paths -> {"self", "other"}]
    BY DEF Init
  <2> QED BY <2>1, <2>2, <2>3, <2>4 DEF ZkType
<1>2. CacheType /\ ClientType
  BY Defaults DEF Init, CacheType, ClientType
<1>3. UserType /\ ThreadType
  BY Defaults DEF Init, UserType, ThreadType, Hb
<1> QED BY <1>1, <1>2, <1>3 DEF TypeInv

(* The registry client is type correct.                                    *)
THEOREM TypeCorrect == Spec => []TypeOK
BY InitTypes, TypeStep, TypeInvOK, PTL DEF Spec

-----------------------------------------------------------------------------
(* Events on their way.  They are taken one by one from the front, and     *)
(* nothing else removes one while the client runs.                         *)
PathIn(queue, p) == \E i \in 1..Len(queue) : queue[i].path = p

(* What is in a queue stays in it behind an append, and the new event is.  *)
LEMMA PathInAppend ==
  ASSUME NEW queue \in Seq(EventType), NEW e \in EventType, NEW p,
         PathIn(queue, p) \/ e.path = p
  PROVE  PathIn(Append(queue, e), p)
<1> DEFINE longer == Append(queue, e)
<1>1. /\ Len(longer) = Len(queue) + 1 /\ Len(queue) \in Nat
      /\ \A i \in 1..Len(queue) : longer[i] = queue[i] /\ i \in 1..Len(longer)
      /\ longer[Len(queue) + 1] = e /\ Len(queue) + 1 \in 1..Len(longer)
  OBVIOUS
<1> HIDE DEF longer
<1> QED BY <1>1 DEF PathIn, longer

(* What is in a queue and not at its head is in its tail.                  *)
LEMMA PathInTail ==
  ASSUME NEW queue \in Seq(EventType), queue # <<>>, NEW p,
         PathIn(queue, p), Head(queue).path # p
  PROVE  PathIn(Tail(queue), p)
<1>1. PICK i \in 1..Len(queue) : queue[i].path = p
  BY DEF PathIn
<1>2. i # 1 /\ Head(queue) = queue[1]
  BY <1>1
<1>3. i - 1 \in 1..Len(Tail(queue)) /\ Tail(queue)[i - 1] = queue[i]
  BY <1>1, <1>2
<1> QED BY <1>1, <1>3 DEF PathIn

(* A change of node q drops no event, and trades an armed watch for one.   *)
LEMMA ChangePends ==
  ASSUME TypeInv, NEW q \in Paths, NEW d \in Values, NEW o,
         SetNode(q, d, o) \/ SetNodeReplyLost(q, d, o)
  PROVE  /\ \A p : Pending(p) \/ (p = q /\ q \in armed) => Pending(p)'
         /\ armed' = armed \ {q}
         /\ \A p \in Paths : p # q => node'[p] = node[p]
<1>1. armed' = armed \ {q} /\ node' = [node EXCEPT ![q] = d]
  BY DEF SetNode, SetNodeReplyLost, ChangeNode
<1>2. \A p \in Paths : p # q => node'[p] = node[p]
  BY <1>1 DEF TypeInv, ZkType
<1>3. ASSUME NEW p, PathIn(events, p) \/ (p = q /\ q \in armed)
      PROVE  PathIn(EventsOf(q, d), p)
  <2> DEFINE type == IF d = NoData THEN "deleted" ELSE "changed"
             e == [type |-> type, path |-> q]
  <2>1. e \in EventType /\ e.path = q
    BY DEF EventType, NodeEventType, NodeEvents
  <2>2. EventsOf(q, d) = IF q \in armed THEN Append(events, e) ELSE events
    BY DEF EventsOf
  <2>3. events \in Seq(EventType)
    BY DEF TypeInv, ZkType
  <2> HIDE DEF e
  <2> QED BY <1>3, <2>1, <2>2, <2>3, PathInAppend
<1>4. ASSUME NEW p, PathIn(events, p) \/ (p = q /\ q \in armed)
      PROVE  PathIn(events', p)
  <2> DEFINE e == [type |-> "connecting", path |-> NoPath]
  <2>1. e \in EventType
    BY DEF EventType, SessionEvents
  <2>2. EventsOf(q, d) \in Seq(EventType)
    BY EventsOfType
  <2>3. PathIn(EventsOf(q, d), p)
    BY <1>3, <1>4
  <2>4. events' = EventsOf(q, d) \/ events' = Append(EventsOf(q, d), e)
    BY DEF SetNode, SetNodeReplyLost
  <2> HIDE DEF e
  <2> QED BY <2>1, <2>2, <2>3, <2>4, PathInAppend
<1>5. \A p : Pending(p) \/ (p = q /\ q \in armed) => Pending(p)'
  BY <1>4 DEF Pending, PathIn
<1> QED BY <1>1, <1>2, <1>5

(* Nor does a change of the session.                                       *)
LEMMA SessionPends ==
  ASSUME TypeInv, NEW s \in SessionEvents, SessionChanges(s), NEW p, Pending(p)
  PROVE  Pending(p)'
<1> DEFINE e == [type |-> s, path |-> NoPath]
<1>1. e \in EventType /\ events' = Append(events, e) /\ events \in Seq(EventType)
  BY DEF EventType, SessionChanges, TypeInv, ZkType
<1> HIDE DEF e
<1>2. PathIn(events, p)
  BY DEF Pending, PathIn
<1>3. PathIn(events', p)
  BY <1>1, <1>2, PathInAppend
<1> QED BY <1>3 DEF Pending, PathIn

(* The event thread takes the head and leaves the others.                  *)
LEMMA TakePends ==
  ASSUME TypeInv, TakesEvent, NEW p, Pending(p), Head(events).path # p
  PROVE  Pending(p)'
<1>1. events \in Seq(EventType) /\ events # <<>> /\ events' = Tail(events)
  BY DEF TakesEvent, TypeInv, ZkType
<1>2. PathIn(Tail(events), p)
  BY <1>1, PathInTail DEF Pending, PathIn
<1> QED BY <1>1, <1>2 DEF Pending, PathIn

(* Session events have no path.                                            *)
LEMMA SessionEventPathless ==
  ASSUME TypeInv, SessionEvent
  PROVE  Head(events).path \notin Paths
<1>1. Head(events) \in EventType
  BY TakesEventType DEF SessionEvent
<1> QED
  BY <1>1, ZookeeperAssumption
     DEF ZookeeperAssumption, SessionEvent, EventType, NodeEventType, NodeEvents, SessionEvents

-----------------------------------------------------------------------------
(* Watches are kept.                                                       *)
LEMMA WatchStep ==
  ASSUME TypeInv, Next, NEW p \in watchers_ \intersect watchers_', Covered(p),
         ~GoneBeforeRead(p), Reachable, life = "running"
  PROVE  Covered(p)'
<1> USE DEF zkVars, cacheVars, userVars, clientVars, threadVars
<1>0. /\ p \in Paths /\ NoPath \notin Paths
      /\ NoEv.path = NoPath /\ NoOp.step = "none" /\ op \in OpType /\ ev \in EvType
  BY Defaults, ZookeeperAssumption
     DEF ZookeeperAssumption, NoEv, Ev, TypeInv, ClientType, UserType, ThreadType
<1>a. ASSUME UNCHANGED <<armed, events, ev>>, op' = op \/ op.step # "arm"
      PROVE  Covered(p)'
  BY <1>a DEF Covered, Pending
<1>b. ASSUME p \in armed \/ Pending(p) => p \in armed' \/ Pending(p)',
             UNCHANGED ev, op' = op \/ op.step # "arm"
      PROVE  Covered(p)'
  BY <1>b DEF Covered
<1>c. ASSUME UNCHANGED <<armed, events, op>>, ev'.path = ev.path
      PROVE  Covered(p)'
  BY <1>c DEF Covered, Pending
<1>1. CASE ZooKeeperStep
  <2>1. ASSUME NEW q \in Paths, NEW d \in Values, OtherSets(q, d) PROVE Covered(p)'
    BY <1>b, <2>1, ChangePends DEF OtherSets
  <2>2. ~Reconnected /\ ~Expired
    BY DEF Reachable, Online, Reconnected, Expired
  <2>3. CASE Interrupted
    BY <1>b, <2>3, SessionPends DEF Interrupted, SessionEvents
  <2> QED BY <1>1, <2>1, <2>2, <2>3 DEF ZooKeeperStep
<1>2. ASSUME NEW q \in Paths, NEW d \in Values, NEW o, Begin,
             SetNode(q, d, o) \/ SetNodeReplyLost(q, d, o), UNCHANGED ev
      PROVE  Covered(p)'
  BY <1>0, <1>b, <1>2, ChangePends DEF Begin
<1>3. ASSUME NEW q \in Paths, NEW d \in Data, Register(q, d) PROVE Covered(p)'
  <2>1. Begin /\ UNCHANGED ev /\ d \in Values
    BY <1>3 DEF Register, Values
  <2>2. \/ \E o : SetNode(q, d, o) \/ SetNodeReplyLost(q, d, o)
        \/ UNCHANGED <<armed, events, op>>
    BY <1>3 DEF Register
  <2> QED BY <1>2, <1>a, <2>1, <2>2
<1>4. ASSUME NEW q \in Paths, Delete(q) PROVE Covered(p)'
  BY <1>2, <1>4, Defaults DEF Delete
<1>5. ASSUME NEW q \in Paths, Discover(q) \/ Watch(q) PROVE Covered(p)'
  BY <1>0, <1>5, <1>a DEF Discover, Watch, Begin
<1>6. CASE DiscoverService
  BY <1>0, <1>6, <1>a DEF DiscoverService, Begin
<1>7. CASE DiscoverGets \/ InsertResult \/ ListChildren \/ StoreService \/ EraseDeleted
            \/ \E q \in Paths : FetchChild(q)
  BY <1>7, <1>a
     DEF DiscoverGets, InsertResult, ListChildren, StoreService, EraseDeleted, FetchChild
<1>8. CASE ArmWatch
  <2>1. armed' = armed \union {op.path} /\ UNCHANGED <<events, ev>>
    BY <1>8 DEF ArmWatch
  <2> QED BY <2>1 DEF Covered, Pending
<1>9. CASE Heartbeat
  BY <1>9, <1>a DEF Heartbeat, HeartbeatLists, HeartbeatPrunes, HeartbeatExits
<1>10. CASE SessionEvent
  <2>1. Head(events).path # p
    BY <1>0, <1>10, SessionEventPathless
  <2>2. UNCHANGED <<armed, ev, op>> /\ TakesEvent
    BY <1>10 DEF SessionEvent, TakesEvent
  <2> QED BY <1>b, <2>1, <2>2, TakePends
<1>11. CASE NodeEvent
  <2>1. TakesEvent /\ ev = NoEv /\ UNCHANGED <<armed, op>>
    BY <1>11 DEF NodeEvent, TakesEvent
  <2>2. CASE Head(events).path = p
    <3>1. ev'.path = p
      BY <1>11, <2>2 DEF NodeEvent, Ev
    <3> QED BY <3>1 DEF Covered
  <2>3. CASE Head(events).path # p
    BY <1>0, <2>1, <2>3, TakePends DEF Covered
  <2> QED BY <2>2, <2>3
<1>12. CASE EventGets
  <2>1. CASE ev.path = p
    <3>1. ev' = Ev("insert", ev.type, ev.path, node[ev.path])
      BY <1>12, <2>1 DEF EventGets, Reads, GoneBeforeRead
    <3> QED BY <1>12, <1>c, <3>1 DEF EventGets, Ev
  <2>2. CASE ev.path # p
    BY <1>12, <2>2 DEF EventGets, Covered, Pending
  <2> QED BY <2>1, <2>2
<1>13. CASE EventInserts \/ EventErases \/ EventCalls
  <2>1. ev'.path = ev.path
    BY <1>0, <1>13 DEF EventInserts, EventErases, EventCalls, EvType
  <2> QED BY <1>13, <1>c, <2>1 DEF EventInserts, EventErases, EventCalls
<1>14. CASE EventArms
  <2>1. armed' = armed \union {ev.path} /\ UNCHANGED <<events, op>>
    BY <1>14 DEF EventArms
  <2> QED BY <2>1 DEF Covered, Pending
<1>15. CASE StopStep
  BY <1>15, <1>a DEF StopStep, Stop, StopClears, StopCloses
<1> QED
  BY NextSteps, <1>1, <1>3, <1>4, <1>5, <1>6, <1>7, <1>8, <1>9, <1>10, <1>11, <1>12, <1>13,
     <1>14, <1>15, <1>a DEF UserStep, UserContinues, WatcherCallback, vars

(* A registered path is covered by a watch, an event or the thread at work *)
(* on it, and stays so for any number of paths, events and changes, until  *)
(* the session or the node is gone where the handler needs it.             *)
THEOREM WatchSafety == Spec => WatchKept
<1>1. TypeInv /\ [Next]_vars =>
        [\A p \in watchers_ \intersect watchers_' :
           Covered(p) => Covered(p)' \/ GoneBeforeRead(p) \/ ~Reachable \/ life # "running"]_vars
  BY WatchStep
<1> QED BY <1>1, InitTypes, TypeStep, PTL DEF Spec, WatchKept

-----------------------------------------------------------------------------
(* What the callback was told goes stale only unwatched.                   *)
LEMMA InformedStep ==
  ASSUME TypeInv, Next, NEW p \in watchers_ \intersect watchers_', Informed(p),
         ~ChangedUnwatched(p), ~GoneBeforeRead(p), Reachable, life = "running"
  PROVE  Informed(p)'
<1> USE DEF zkVars, cacheVars, userVars, clientVars, threadVars
<1>0. /\ p \in Paths /\ NoPath \notin Paths
      /\ NoEv.path = NoPath /\ NoEv.step = "none"
      /\ ev \in EvType /\ notified \in [Paths -> Values]
      /\ ev.step # "none" => ev.path \in Paths
  BY Defaults, ZookeeperAssumption
     DEF ZookeeperAssumption, NoEv, Ev, TypeInv, ClientType, ThreadType
(* The event thread rests, and the node keeps or pends.                    *)
<1>a. ASSUME UNCHANGED <<ev, notified>>, node'[p] = node[p] \/ Pending(p)',
             Pending(p) => Pending(p)'
      PROVE  Informed(p)'
  BY <1>a DEF Informed, Told
<1>b. ASSUME UNCHANGED <<node, events, ev, notified>>
      PROVE  Informed(p)'
  BY <1>a, <1>b DEF Pending
(* It moves on, and what p was or is about to be told stays the same.      *)
<1>c. ASSUME UNCHANGED <<node, events>>, Told(p)' = Told(p), ev.step # "get" \/ ev.path # p
      PROVE  Informed(p)'
  BY <1>c DEF Informed, Pending
<1>2. ASSUME NEW q \in Paths, NEW d \in Values, NEW o,
             SetNode(q, d, o) \/ SetNodeReplyLost(q, d, o), UNCHANGED <<ev, notified>>
      PROVE  Informed(p)'
  <2>1. CASE q = p
    <3>1. node'[p] = node[p] \/ p \in armed
      BY DEF ChangedUnwatched
    <3> QED BY <1>2, <1>a, <2>1, <3>1, ChangePends
  <2>2. CASE q # p
    BY <1>0, <1>2, <1>a, <2>2, ChangePends
  <2> QED BY <2>1, <2>2
<1>1. CASE ZooKeeperStep
  <2>1. ASSUME NEW q \in Paths, NEW d \in Values, OtherSets(q, d) PROVE Informed(p)'
    BY <1>2, <2>1 DEF OtherSets
  <2>2. ~Reconnected /\ ~Expired
    BY DEF Reachable, Online, Reconnected, Expired
  <2>3. CASE Interrupted
    BY <1>a, <2>3, SessionPends DEF Interrupted, SessionEvents
  <2> QED BY <1>1, <2>1, <2>2, <2>3 DEF ZooKeeperStep
<1>3. ASSUME NEW q \in Paths, NEW d \in Data, Register(q, d) PROVE Informed(p)'
  <2>1. UNCHANGED <<ev, notified>> /\ d \in Values
    BY <1>3 DEF Register, Values
  <2>2. \/ \E o : SetNode(q, d, o) \/ SetNodeReplyLost(q, d, o)
        \/ UNCHANGED <<node, events>>
    BY <1>3 DEF Register
  <2> QED BY <1>2, <1>b, <2>1, <2>2
<1>4. ASSUME NEW q \in Paths, Delete(q) PROVE Informed(p)'
  BY <1>2, <1>4, Defaults DEF Delete
<1>5. ASSUME NEW q \in Paths, Watch(q) PROVE Informed(p)'
  <2>1. notified' = [notified EXCEPT ![q] = NoData] /\ UNCHANGED <<node, events, ev>>
    BY <1>5 DEF Watch
  <2>2. notified'[p] = NoData \/ notified'[p] = notified[p]
    BY <1>0, <2>1
  <2> QED BY <2>1, <2>2 DEF Informed, Told, Pending
<1>6. CASE DiscoverService \/ UserContinues \/ Heartbeat \/ \E q \in Paths : Discover(q)
  BY <1>6, <1>b
     DEF DiscoverService, UserContinues, DiscoverGets, InsertResult, ListChildren, FetchChild,
         StoreService, EraseDeleted, ArmWatch, Heartbeat, HeartbeatLists, HeartbeatPrunes,
         HeartbeatExits, Discover
<1>7. CASE SessionEvent
  <2>1. Head(events).path # p
    BY <1>0, <1>7, SessionEventPathless
  <2>2. UNCHANGED <<node, ev, notified>> /\ TakesEvent
    BY <1>7 DEF SessionEvent, TakesEvent
  <2> QED BY <1>a, <2>1, <2>2, TakePends
<1>8. CASE NodeEvent
  <2>1. TakesEvent /\ ev = NoEv /\ UNCHANGED <<node, notified>>
    BY <1>8 DEF NodeEvent, TakesEvent
  <2>2. CASE Head(events).path = p
    <3>1. ev' = Ev(IF Head(events).type = "deleted" THEN "erase" ELSE "get",
                   Head(events).type, p, NoData)
      BY <1>8, <2>2 DEF NodeEvent
    <3>2. ev'.path = p /\ ev'.data = NoData /\ ev'.step \in {"erase", "get"}
      BY <3>1 DEF Ev
    <3> QED BY <3>2 DEF Informed, Told
  <2>3. CASE Head(events).path # p
    <3>1. ev.path # p
      BY <1>0, <2>1
    <3>2. ev'.path # p
      BY <1>0, <1>8, <2>3 DEF NodeEvent, Ev
    <3>3. Told(p)' = Told(p)
      BY <2>1, <3>1, <3>2 DEF Told
    <3>4. Told(p) \in {node[p], NoData} \/ Pending(p)
      BY <3>1 DEF Informed
    <3> QED BY <2>1, <2>3, <3>3, <3>4, TakePends DEF Informed
  <2> QED BY <2>2, <2>3
<1>9. CASE EventGets
  <2>1. UNCHANGED <<node, events, notified>> /\ ev.step = "get"
    BY <1>9 DEF EventGets
  <2>2. CASE ev.path = p
    <3>1. ev' = Ev("insert", ev.type, p, node[p])
      BY <1>9, <2>2 DEF EventGets, Reads, GoneBeforeRead
    <3>2. ev'.path = p /\ ev'.data = node[p] /\ ev'.step = "insert"
      BY <3>1 DEF Ev
    <3> QED BY <2>1, <3>2 DEF Informed, Told
  <2>3. CASE ev.path # p
    <3>1. ev'.path # p
      BY <1>0, <1>9, <2>3 DEF EventGets, Ev
    <3>2. Told(p)' = Told(p)
      BY <2>1, <2>3, <3>1 DEF Told
    <3> QED BY <1>c, <2>1, <2>3, <3>2
  <2> QED BY <2>2, <2>3
<1>10. CASE EventInserts \/ EventErases
  <2>1. /\ ev'.path = ev.path /\ ev'.step = "call" /\ ev'.data = ev.data
        /\ ev.step \in {"insert", "erase"} /\ UNCHANGED <<node, events, notified>>
    BY <1>0, <1>10 DEF EventInserts, EventErases, EvType
  <2>2. Told(p)' = Told(p)
    BY <2>1 DEF Told
  <2> QED BY <1>c, <2>1, <2>2
<1>11. CASE EventCalls
  <2>1. /\ ev'.path = ev.path /\ ev'.step = "arm" /\ ev.step = "call"
        /\ UNCHANGED <<node, events>> /\ notified' = [notified EXCEPT ![ev.path] = ev.data]
    BY <1>0, <1>11 DEF EventCalls, EvType
  <2>2. notified'[p] = IF ev.path = p THEN ev.data ELSE notified[p]
    BY <1>0, <2>1
  <2>3. Told(p)' = Told(p)
    BY <2>1, <2>2 DEF Told
  <2> QED BY <1>c, <2>1, <2>3
<1>12. CASE EventArms
  <2>1. ev.step = "arm" /\ ev' = NoEv /\ UNCHANGED <<node, events, notified>>
    BY <1>12 DEF EventArms
  <2>2. Told(p)' = Told(p)
    BY <1>0, <2>1 DEF Told
  <2> QED BY <1>c, <2>1, <2>2
<1>13. CASE StopStep
  BY <1>13, <1>b DEF StopStep, Stop, StopClears, StopCloses
<1> QED
  BY NextSteps, <1>1, <1>3, <1>4, <1>5, <1>6, <1>7, <1>8, <1>9, <1>10, <1>11, <1>12, <1>13,
     <1>b DEF UserStep, WatcherCallback, vars

(* The data a callback was told, or is about to be, is its node's, or an   *)
(* event tells it again, for any paths, data and number of events: only a  *)
(* change that meets no armed watch escapes it.                            *)
THEOREM NotifySafety == Spec => StaleOnlyUnwatched
<1>1. TypeInv /\ [Next]_vars =>
        [\A p \in watchers_ \intersect watchers_' :
           Informed(p) => \/ Informed(p)' \/ ChangedUnwatched(p) \/ GoneBeforeRead(p)
                          \/ ~Reachable \/ life # "running"]_vars
  BY InformedStep
<1> QED BY <1>1, InitTypes, TypeStep, PTL DEF Spec, StaleOnlyUnwatched

-----------------------------------------------------------------------------
(* is_connected_ follows the session.                                      *)
Tells(e) == e.type \in SessionEvents

(* What a queue of events says of the session s, at whose last known state *)
(* the client is connected or not.                                         *)
Follows(queue, connected, s) ==
  /\ (\A i \in 1..Len(queue) : ~Tells(queue[i])) => connected = (s = "connected")
  /\ \A i \in 1..Len(queue) :
       Tells(queue[i]) /\ (\A j \in i + 1..Len(queue) : ~Tells(queue[j])) => queue[i].type = s

(* An event of the session says how the session is now; any other says     *)
(* nothing of it.                                                          *)
LEMMA FollowsAppend ==
  ASSUME NEW queue \in Seq(EventType), NEW e \in EventType, NEW connected, NEW s, NEW t,
         Follows(queue, connected, s),
         IF Tells(e) THEN e.type = t ELSE t = s
  PROVE  Follows(Append(queue, e), connected, t)
<1> DEFINE longer == Append(queue, e)
<1>1. /\ Len(longer) = Len(queue) + 1 /\ Len(queue) \in Nat
      /\ \A i \in 1..Len(queue) : longer[i] = queue[i]
      /\ longer[Len(queue) + 1] = e
  OBVIOUS
<1> HIDE DEF longer
<1>2. /\ \A i \in 1..Len(queue) : i \in 1..Len(longer)
      /\ Len(queue) + 1 \in 1..Len(longer)
      /\ \A i \in 1..Len(longer) : i \in 1..Len(queue) \/ i = Len(queue) + 1
      /\ \A i \in 1..Len(queue) :
           /\ Len(queue) + 1 \in i + 1..Len(longer)
           /\ \A j \in i + 1..Len(queue) : j \in i + 1..Len(longer) /\ j \in 1..Len(queue)
  BY <1>1
<1>3. CASE Tells(e)
  <2>1. ASSUME NEW i \in 1..Len(longer), Tells(longer[i]),
               \A j \in i + 1..Len(longer) : ~Tells(longer[j])
        PROVE  longer[i].type = t
    BY <1>1, <1>2, <1>3, <2>1
  <2>2. ~ \A i \in 1..Len(longer) : ~Tells(longer[i])
    BY <1>1, <1>2, <1>3
  <2> QED BY <2>1, <2>2 DEF Follows, longer
<1>4. CASE ~Tells(e)
  <2>0. t = s
    BY <1>4
  <2>1. ASSUME NEW i \in 1..Len(longer), Tells(longer[i]),
               \A j \in i + 1..Len(longer) : ~Tells(longer[j])
        PROVE  longer[i].type = t
    <3>1. i \in 1..Len(queue) /\ Tells(queue[i])
      BY <1>1, <1>2, <1>4, <2>1
    <3>2. \A j \in i + 1..Len(queue) : ~Tells(queue[j])
      BY <1>1, <1>2, <2>1, <3>1
    <3> QED BY <1>1, <2>0, <3>1, <3>2 DEF Follows
  <2>2. ASSUME \A i \in 1..Len(longer) : ~Tells(longer[i])
        PROVE  connected = (t = "connected")
    <3>1. \A i \in 1..Len(queue) : ~Tells(queue[i])
      BY <1>1, <1>2, <2>2
    <3> QED BY <2>0, <3>1 DEF Follows
  <2> QED BY <2>1, <2>2 DEF Follows, longer
<1> QED BY <1>3, <1>4

(* The client takes an event: the last one known to it, if it tells.       *)
LEMMA FollowsTail ==
  ASSUME NEW queue \in Seq(EventType), queue # <<>>, NEW connected, NEW s, NEW now,
         Follows(queue, connected, s),
         now = IF Tells(Head(queue)) THEN Head(queue).type = "connected" ELSE connected
  PROVE  Follows(Tail(queue), now, s)
<1> DEFINE rest == Tail(queue)
<1>1. /\ Len(rest) = Len(queue) - 1 /\ Len(queue) \in Nat /\ Head(queue) = queue[1]
      /\ 1 \in 1..Len(queue)
      /\ \A i \in 1..Len(rest) : rest[i] = queue[i + 1] /\ i + 1 \in 1..Len(queue)
  OBVIOUS
<1> HIDE DEF rest
<1>2. /\ \A i \in 1..Len(queue) : i = 1 \/ (i - 1 \in 1..Len(rest) /\ (i - 1) + 1 = i)
      /\ \A i \in 1..Len(rest) : \A j \in (i + 1) + 1..Len(queue) :
           j - 1 \in i + 1..Len(rest) /\ j - 1 \in 1..Len(rest) /\ (j - 1) + 1 = j
      /\ \A j \in 1 + 1..Len(queue) : j - 1 \in 1..Len(rest) /\ (j - 1) + 1 = j
  BY <1>1
<1>3. ASSUME NEW i \in 1..Len(rest), Tells(rest[i]),
             \A j \in i + 1..Len(rest) : ~Tells(rest[j])
      PROVE  rest[i].type = s
  <2>1. i + 1 \in 1..Len(queue) /\ Tells(queue[i + 1]) /\ rest[i] = queue[i + 1]
    BY <1>1, <1>3
  <2>2. ASSUME NEW j \in (i + 1) + 1..Len(queue) PROVE ~Tells(queue[j])
    <3>1. j - 1 \in i + 1..Len(rest) /\ j - 1 \in 1..Len(rest) /\ (j - 1) + 1 = j
      BY <1>2
    <3>2. rest[j - 1] = queue[(j - 1) + 1]
      BY <1>1, <3>1
    <3> QED BY <1>3, <3>1, <3>2
  <2> QED BY <2>1, <2>2 DEF Follows
<1>4. ASSUME \A i \in 1..Len(rest) : ~Tells(rest[i])
      PROVE  now = (s = "connected")
  <2>1. ASSUME NEW j \in 1 + 1..Len(queue) PROVE ~Tells(queue[j])
    <3>1. j - 1 \in 1..Len(rest) /\ (j - 1) + 1 = j
      BY <1>2
    <3>2. rest[j - 1] = queue[(j - 1) + 1]
      BY <1>1, <3>1
    <3> QED BY <1>4, <3>1, <3>2
  <2>2. CASE Tells(Head(queue))
    <3>1. queue[1].type = s
      BY <1>1, <2>1, <2>2 DEF Follows
    <3> QED BY <1>1, <2>2, <3>1
  <2>3. CASE ~Tells(Head(queue))
    <3>1. ASSUME NEW j \in 1..Len(queue) PROVE ~Tells(queue[j])
      <4>1. j = 1 \/ j \in 1 + 1..Len(queue)
        BY <1>1
      <4> QED BY <1>1, <2>1, <2>3, <4>1
    <3> QED BY <2>3, <3>1 DEF Follows
  <2> QED BY <2>2, <2>3
<1> QED BY <1>3, <1>4 DEF Follows, rest
ConnectedInv == life = "running" => Follows(events, is_connected_, session)

(* A change of a node tells nothing of the session.                        *)
LEMMA SetNodeFollows ==
  ASSUME TypeInv, NEW p \in Paths, NEW d \in Values, NEW o,
         SetNode(p, d, o) \/ SetNodeReplyLost(p, d, o),
         UNCHANGED is_connected_, Follows(events, is_connected_, session)
  PROVE  Follows(events', is_connected_', session')
<1>1. Follows(EventsOf(p, d), is_connected_, session)
  <2> DEFINE type == IF d = NoData THEN "deleted" ELSE "changed"
             e == [type |-> type, path |-> p]
  <2>1. e \in EventType /\ ~Tells(e)
    BY DEF EventType, NodeEventType, NodeEvents, SessionEvents, Tells
  <2>2. EventsOf(p, d) = IF p \in armed THEN Append(events, e) ELSE events
    BY DEF EventsOf
  <2>3. events \in Seq(EventType)
    BY DEF TypeInv, ZkType
  <2> HIDE DEF e
  <2> QED BY <2>1, <2>2, <2>3, FollowsAppend
<1>2. CASE SetNode(p, d, o)
  BY <1>1, <1>2 DEF SetNode
<1>3. CASE SetNodeReplyLost(p, d, o)
  <2> DEFINE e == [type |-> "connecting", path |-> NoPath]
  <2>1. e \in EventType /\ Tells(e) /\ e.type = "connecting"
    BY DEF EventType, SessionEvents, Tells
  <2>2. events' = Append(EventsOf(p, d), e) /\ session' = "connecting"
    BY <1>3 DEF SetNodeReplyLost
  <2>3. EventsOf(p, d) \in Seq(EventType)
    BY EventsOfType
  <2> HIDE DEF e
  <2>4. Follows(Append(EventsOf(p, d), e), is_connected_, "connecting")
    BY <1>1, <2>1, <2>3, FollowsAppend
  <2> QED BY <2>2, <2>4
<1> QED BY <1>2, <1>3

(* A change of the session is told by its event.                           *)
LEMMA SessionFollows ==
  ASSUME TypeInv, NEW s \in SessionEvents, SessionChanges(s),
         UNCHANGED is_connected_, Follows(events, is_connected_, session)
  PROVE  Follows(events', is_connected_', session')
<1> DEFINE e == [type |-> s, path |-> NoPath]
<1>1. e \in EventType /\ Tells(e) /\ e.type = s
  BY DEF EventType, Tells
<1>2. events' = Append(events, e) /\ session' = s
  BY DEF SessionChanges
<1>3. events \in Seq(EventType)
  BY DEF TypeInv, ZkType
<1> HIDE DEF e
<1>4. Follows(Append(events, e), is_connected_, s)
  BY <1>1, <1>3, FollowsAppend
<1> QED BY <1>2, <1>4

(* A client that runs ran before.                                          *)
LEMMA RunningBefore == [Next]_vars /\ life' = "running" => life = "running"
BY DEF Next, vars, UserContinues, Heartbeat, WatcherCallback, zkVars, clientVars,
   OtherSets, Interrupted, Reconnected, Expired, Register, Discover, Delete, Watch,
   DiscoverService, DiscoverGets, InsertResult, ListChildren, FetchChild, StoreService,
   EraseDeleted, ArmWatch, HeartbeatLists, HeartbeatPrunes, HeartbeatExits, SessionEvent,
   NodeEvent, EventGets, EventInserts, EventErases, EventCalls, EventArms, Stop,
   StopClears, StopCloses

(* Every step keeps is_connected_ and the events behind it right.          *)
LEMMA NextConnected == TypeInv /\ ConnectedInv /\ [Next]_vars => ConnectedInv'
<1> SUFFICES ASSUME TypeInv, ConnectedInv, [Next]_vars, life' = "running"
             PROVE  Follows(events', is_connected_', session')
  BY DEF ConnectedInv
<1> USE DEF zkVars, cacheVars, userVars, clientVars, threadVars
<1>0. life = "running" /\ Follows(events, is_connected_, session)
  BY RunningBefore DEF ConnectedInv
<1>u. ASSUME UNCHANGED <<events, is_connected_, session>>
      PROVE  Follows(events', is_connected_', session')
  BY <1>0, <1>u
<1>1. CASE ZooKeeperStep
  <2>1. ASSUME NEW p \in Paths, NEW d \in Values, OtherSets(p, d)
        PROVE  Follows(events', is_connected_', session')
    BY <1>0, <2>1, SetNodeFollows DEF OtherSets
  <2>2. CASE Interrupted \/ Reconnected \/ Expired
    <3>1. PICK s \in SessionEvents : SessionChanges(s)
      BY <2>2 DEF Interrupted, Reconnected, Expired, SessionEvents
    <3>2. UNCHANGED is_connected_
      BY <2>2 DEF Interrupted, Reconnected, Expired
    <3> QED BY <1>0, <3>1, <3>2, SessionFollows
  <2> QED BY <1>1, <2>1, <2>2 DEF ZooKeeperStep
<1>2. ASSUME NEW p \in Paths, NEW d \in Data, Register(p, d)
      PROVE  Follows(events', is_connected_', session')
  <2>1. d \in Values /\ UNCHANGED is_connected_
    BY <1>2 DEF Register, Values
  <2>2. \/ \E o : SetNode(p, d, o) \/ SetNodeReplyLost(p, d, o)
        \/ UNCHANGED <<events, session>>
    BY <1>2 DEF Register
  <2> QED BY <1>0, <1>u, <2>1, <2>2, SetNodeFollows
<1>3. ASSUME NEW p \in Paths, Discover(p) \/ Delete(p) \/ Watch(p)
      PROVE  Follows(events', is_connected_', session')
  BY <1>0, <1>3, <1>u, SetNodeFollows, Defaults DEF Discover, Delete, Watch
<1>4. CASE DiscoverService \/ UserContinues \/ Heartbeat
  BY <1>4, <1>u
     DEF DiscoverService, UserContinues, DiscoverGets, InsertResult, ListChildren, FetchChild,
         StoreService, EraseDeleted, ArmWatch, Heartbeat, HeartbeatLists, HeartbeatPrunes,
         HeartbeatExits
<1>5. CASE SessionEvent \/ NodeEvent
  <2>1. /\ events \in Seq(EventType) /\ events # <<>>
        /\ events' = Tail(events) /\ session' = session
    BY <1>5 DEF SessionEvent, NodeEvent, TakesEvent, TypeInv, ZkType
  <2>2. is_connected_' = IF Tells(Head(events)) THEN Head(events).type = "connected"
                                                ELSE is_connected_
    <3>1. CASE SessionEvent
      BY <1>0, <3>1 DEF SessionEvent, Tells
    <3>2. CASE NodeEvent
      <4>1. ~Tells(Head(events))
        BY <3>2 DEF NodeEvent, Tells, NodeEvents, SessionEvents
      <4> QED BY <3>2, <4>1 DEF NodeEvent
    <3> QED BY <1>5, <3>1, <3>2
  <2>3. \A now : now = (IF Tells(Head(events)) THEN Head(events).type = "connected"
                                                ELSE is_connected_)
                   => Follows(Tail(events), now, session)
    BY <1>0, <2>1, FollowsTail
  <2> QED BY <2>1, <2>2, <2>3
<1>6. CASE EventGets \/ EventInserts \/ EventErases \/ EventCalls \/ EventArms
  BY <1>6, <1>u DEF EventGets, EventInserts, EventErases, EventCalls, EventArms
<1>7. CASE StopStep
  BY <1>0, <1>7 DEF StopStep, Stop, StopClears, StopCloses
<1>8. CASE UNCHANGED vars
  BY <1>8, <1>u DEF vars
<1> QED
  BY NextSteps, <1>1, <1>2, <1>3, <1>4, <1>5, <1>6, <1>7, <1>8
     DEF UserStep, WatcherCallback

(* While the client runs, whatever order interruptions, reconnections and  *)
(* expiry come in, is_connected_ tells how the session is, or the last     *)
(* event on its way will.                                                  *)
THEOREM ConnectedSafety == Spec => []ConnectedFollows
<1>1. Init => TypeInv /\ ConnectedInv
  <2> SUFFICES ASSUME Init PROVE ConnectedInv
    BY InitTypes
  <2>1. events = <<>> /\ is_connected_ = TRUE /\ session = "connected"
    BY DEF Init
  <2>2. 1..Len(events) = {}
    BY <2>1
  <2>3. is_connected_ = (session = "connected")
    BY <2>1
  <2> QED BY <2>2, <2>3 DEF ConnectedInv, Follows
<1>2. ConnectedInv => ConnectedFollows
  BY DEF ConnectedInv, Follows, Tells, ConnectedFollows, Online
<1> QED BY <1>1, <1>2, TypeStep, NextConnected, PTL DEF Spec
=============================================================================
