-------------------------- MODULE XrpcServerProofs --------------------------
(***************************************************************************)
(* Safety of XrpcServer for any connections, services, kinds of requests,  *)
(* number of requests and fragmentation.                                   *)
(***************************************************************************)
EXTENDS XrpcServer, WireProofs

IoType == [step : {"idle", "calling", "running", "answering"}, conn : Conns \union {NoConn},
           req : Request \union {NoRequest}, kind : Kinds, code : 0..6]

(* Steps of the user's thread, and what they leave alone.                  *)
MainStep ==
  \/ \E s \in Services : RegisterService(s)
  \/ InsertService \/ PublishService \/ SignalHandler
  \/ DestructorLocks \/ StopAcceptor \/ StopSockets \/ StopIo \/ StopRegistry
  \/ DestroyMembers \/ StopAgain \/ JoinIo

LEMMA NextSteps ==
  ASSUME [Next]_vars
  PROVE  (fate = "fine" /\ (Client \/ SessionExpires \/ IoStep \/ MainStep)) \/ UNCHANGED vars
BY DEF Next, Continue, MainStep

-----------------------------------------------------------------------------
(* The inductive invariant.                                                *)

Leaving == {"deregistering", "released", "restopping", "joining", "gone"}

(* A handler is at work on a connection, and what it calls for is a        *)
(* request.                                                                *)
IoShape ==
  /\ io.step = "idle" <=> io.conn = NoConn
  /\ io.step \in {"calling", "running"} => io.req \in Request

(* What RegisterService has at hand, and when the io thread may go on.     *)
MainShape ==
  /\ main \in {"inserting", "publishing"} => entry \in Services
  /\ main = "publishing" => entry \in services_
  /\ written \subseteq services_
  /\ main \in Leaving => stopped

(* Stop knows every connection that is open, and the second has closed all.*)
Reached ==
  /\ \A k \in Conns : sock[k] = "open" => k \in server_sockets_
  /\ main \in {"joining", "gone"} => server_sockets_ = {}

(* A request for an announced service stays good for that service, in the  *)
(* stream, in the handler and in the answer.                               *)
Findable(fragment) == fragment.msg.announced => fragment.msg.service \in services_

Found ==
  /\ \A k \in Conns : \A i \in 1..Len(inbox[k]) : Findable(inbox[k][i])
  /\ io.step = "answering" /\ io.code = 2 => ~io.req.announced
  /\ DiscoveredIsFound

(* Until Stop, a connection with a read or a handler is open.              *)
Open ==
  ~Exiting => \A k \in Conns : k \in reading \/ k = io.conn => sock[k] # "closed"

Inv ==
  /\ TypeOK /\ IoShape /\ MainShape /\ Found /\ Reached
  /\ Open /\ SocketsTracked /\ OnlyResetsTerminate

-----------------------------------------------------------------------------
(* Type correctness                                                        *)

(* OnMessage leaves a handler at work, on the connection it read.          *)
LEMMA OnMessageType ==
  ASSUME TypeOK, NEW k \in Conns, NEW kind \in Occurring,
         NEW chunk \in Seq(Fragment(Request))
  PROVE  LET h == OnMessage(k, chunk, kind) IN
         /\ h \in IoType
         /\ h.conn = k
         /\ h.step \in {"calling", "answering"}
         /\ h.step = "calling" => h.req \in Request
         /\ h.code = 2 => /\ Decodes(chunk) /\ h.req = Decoded(chunk)
                          /\ Decoded(chunk).service \notin services_
<1>1. kind \in Kinds /\ "ok" \in Kinds
  BY ServerAssumption DEF ServerAssumption, Kinds
<1>2. CASE ~Decodes(chunk)
  BY <1>1, <1>2 DEF OnMessage, Handler, IoType
<1>3. CASE Decodes(chunk)
  <2>1. Decoded(chunk) \in Request
    BY <1>3, DecodedType
  <2> QED BY <1>1, <1>3, <2>1 DEF OnMessage, Handler, IoType
<1> QED BY <1>2, <1>3

(* The initial state is type correct.                                      *)
LEMMA InitType == Init => TypeOK
<1> SUFFICES ASSUME Init PROVE TypeOK
  OBVIOUS
<1>1. inbox \in [Conns -> Seq(Fragment(Request))] /\ answers \in [Conns -> Seq(Answer)]
  BY DEF Init
<1>2. io \in IoType
  BY DEF Init, Idle, Handler, IoType, Kinds
<1>3. sent \in 0..MaxRequests
  BY ServerAssumption DEF ServerAssumption, Init
<1> QED BY <1>1, <1>2, <1>3 DEF Init, TypeOK, IoType

(* What a client does keeps every variable in its range.                   *)
LEMMA ClientType == TypeOK /\ Client => TypeOK'
<1> SUFFICES ASSUME TypeOK, NEW k \in Conns,
                    ClientConnects(k) \/ ClientSends(k) \/ ClientLeaves(k)
             PROVE  TypeOK'
  BY DEF Client
<1> USE DEF mainVars, memberVars, acceptVars, sockVars, clientVars
<1>1. CASE ClientConnects(k)
  BY <1>1 DEF ClientConnects, TypeOK
<1>2. CASE ClientSends(k)
  <2>1. PICK s \in Services :
          inbox' = [inbox EXCEPT ![k] = @ \o Fragments(
            [id |-> sent + 1, on |-> k, service |-> s, announced |-> s \in written])]
    BY <1>2 DEF ClientSends
  <2> DEFINE r == [id |-> sent + 1, on |-> k, service |-> s, announced |-> s \in written]
  <2>2. sent + 1 \in 1..MaxRequests /\ sent' \in 0..MaxRequests
    BY <1>2, ServerAssumption DEF ServerAssumption, ClientSends, TypeOK
  <2>3. r \in Request
    BY <2>2 DEF Request
  <2>4. Fragments(r) \in Seq(Fragment(Request))
    BY <2>3, FragmentsType
  <2>5. inbox' \in [Conns -> Seq(Fragment(Request))]
    BY <2>1, <2>4 DEF TypeOK
  <2> QED BY <1>2, <2>2, <2>5 DEF ClientSends, TypeOK
<1>3. CASE ClientLeaves(k)
  BY <1>3 DEF ClientLeaves, TypeOK
<1> QED BY <1>1, <1>2, <1>3

(* So does a handler, which calls a service for requests only.             *)
LEMMA IoStepType == TypeOK /\ IoShape /\ IoStep => TypeOK'
<1> SUFFICES ASSUME TypeOK, IoShape, IoStep PROVE TypeOK'
  OBVIOUS
<1> USE DEF mainVars, memberVars, acceptVars, sockVars, clientVars
<1>1. ASSUME NEW k \in Conns, HandleAccept(k) PROVE TypeOK'
  BY <1>1 DEF HandleAccept, Touched, TypeOK
<1>2. ASSUME NEW k \in Conns, HandleServerRead(k) PROVE TypeOK'
  <2>1. PICK chunk \in Chunks(inbox[k]), kind \in Occurring :
          /\ inbox' = [inbox EXCEPT ![k] = After(@, chunk)]
          /\ io' = OnMessage(k, chunk, kind)
          /\ fate' = IF LooksUp(chunk, kind) /\ ServicesRaced THEN "undefined" ELSE fate
    BY <1>2 DEF HandleServerRead
  <2>2. inbox[k] \in Seq(Fragment(Request))
    BY DEF TypeOK
  <2>3. chunk \in Seq(Fragment(Request)) /\ After(inbox[k], chunk) \in Seq(Fragment(Request))
    BY <2>2, ChunkType
  <2>4. io' \in IoType
    BY <2>1, <2>3, OnMessageType
  <2>5. inbox' \in [Conns -> Seq(Fragment(Request))]
    BY <2>1, <2>3 DEF TypeOK
  <2>6. fate' \in {"fine", "terminated", "undefined"}
    BY <2>1 DEF TypeOK
  <2> QED BY <1>2, <2>4, <2>5, <2>6 DEF HandleServerRead, TypeOK, IoType
<1>3. ASSUME NEW k \in Conns, HandleServerReadError(k) PROVE TypeOK'
  <2>1. /\ sock' = [sock EXCEPT ![k] = "closed"]
        /\ server_sockets_' = server_sockets_ \ {k}
        /\ reading' = reading \ {k}
        /\ UNCHANGED <<main, entry, mutex_, services_, alive, written, acceptor, accepting,
                       stopped, io, peer, inbox, sent, answers, ran>>
    BY <1>3 DEF HandleServerReadError, Forgets
  <2>2. fate' \in {"fine", "terminated", "undefined"}
    BY <1>3 DEF HandleServerReadError, Touched, TypeOK
  <2> QED BY <2>1, <2>2 DEF TypeOK
<1>4. CASE HandleAcceptError
  <2>1. /\ accepting' \in BOOLEAN
        /\ UNCHANGED <<main, entry, mutex_, services_, alive, written, acceptor, stopped, io,
                       fate, sock, server_sockets_, reading, peer, inbox, sent, answers, ran>>
    BY <1>4 DEF HandleAcceptError
  <2> QED BY <2>1 DEF TypeOK
<1>5. CASE CallServiceMethod
  <2>1. io \in IoType /\ io.req \in Request
    BY <1>5 DEF CallServiceMethod, TypeOK, IoType, IoShape
  <2>2. ran' \subseteq Request
    BY <1>5, <2>1 DEF CallServiceMethod, TypeOK
  <2>3. io' \in IoType
    BY <1>5, <2>1 DEF CallServiceMethod, IoType
  <2>4. fate' \in {"fine", "terminated", "undefined"}
    BY <1>5 DEF CallServiceMethod, TypeOK
  <2> QED BY <1>5, <2>2, <2>3, <2>4 DEF CallServiceMethod, TypeOK, IoType
<1>7. CASE ServiceReturns
  <2>1. io \in IoType /\ Verdict(io.kind) \in 0..6
    BY DEF TypeOK, IoType, Verdict
  <2>2. io' \in IoType
    BY <1>7, <2>1 DEF ServiceReturns, IoType
  <2> QED BY <1>7, <2>2 DEF ServiceReturns, TypeOK, IoType
<1>6. CASE WriteResponse
  <2>1. io \in IoType /\ io.conn \in Conns
    BY <1>6 DEF WriteResponse, TypeOK, IoType, IoShape
  <2>2. [to |-> io.req, code |-> io.code] \in Answer
    BY <2>1 DEF IoType, Answer
  <2>3. answers' \in [Conns -> Seq(Answer)]
    BY <1>6, <2>1, <2>2 DEF WriteResponse, Written, TypeOK
  <2>4. io' \in IoType
    BY <1>6 DEF WriteResponse, Idle, Handler, IoType, Kinds
  <2>5. peer' \in [Conns -> {"none", "connected", "finished", "reset"}]
    BY <1>6 DEF WriteResponse, TypeOK
  <2> QED BY <1>6, <2>1, <2>3, <2>4, <2>5 DEF WriteResponse, TypeOK, IoType
<1> QED BY <1>1, <1>2, <1>3, <1>4, <1>5, <1>6, <1>7 DEF IoStep

(* And the user's thread, which registers names of services only.          *)
LEMMA MainStepType == TypeOK /\ MainShape /\ MainStep => TypeOK'
<1> SUFFICES ASSUME TypeOK, MainShape, MainStep PROVE TypeOK'
  OBVIOUS
<1> USE DEF TypeOK, MainGoes, MainMoves, mainVars, memberVars, acceptVars, sockVars, clientVars
<1>1. ASSUME NEW s \in Services, RegisterService(s) PROVE TypeOK'
  BY <1>1 DEF RegisterService
<1>2. CASE InsertService
  BY <1>2 DEF InsertService, MainShape
<1>3. CASE PublishService
  BY <1>3 DEF PublishService, Unlocked, MainShape
<1>4. CASE SignalHandler \/ DestructorLocks \/ StopAcceptor
  BY <1>4 DEF SignalHandler, DestructorLocks, StopAcceptor
<1>5. CASE StopSockets \/ StopAgain
  BY <1>5 DEF StopSockets, StopAgain
<1>6. CASE StopIo \/ StopRegistry \/ DestroyMembers \/ JoinIo
  BY <1>6 DEF StopIo, StopRegistry, DestroyMembers, JoinIo
<1> QED BY <1>1, <1>2, <1>3, <1>4, <1>5, <1>6 DEF MainStep

-----------------------------------------------------------------------------
(* Every kind of step keeps every part of the invariant.                   *)

(* A client sends only what is good: it may announce only what is          *)
(* written, and so in services_.                                         *)
LEMMA ClientInv == Inv /\ fate = "fine" /\ Client => Inv'
<1> SUFFICES ASSUME Inv, fate = "fine", NEW k \in Conns,
                    ClientConnects(k) \/ ClientSends(k) \/ ClientLeaves(k)
             PROVE  Inv'
  BY DEF Client
<1> USE DEF mainVars, memberVars, acceptVars, sockVars, clientVars
<1>1. TypeOK'
  BY ClientType DEF Client, Inv
<1>2. UNCHANGED <<main, entry, mutex_, services_, alive, written, acceptor, accepting,
                  stopped, io, fate, sock, server_sockets_, reading, answers, ran>>
  BY DEF ClientConnects, ClientSends, ClientLeaves
<1>3. IoShape' /\ MainShape' /\ Reached' /\ Open' /\ SocketsTracked' /\ OnlyResetsTerminate'
      /\ DiscoveredIsFound'
  BY <1>2 DEF Inv, IoShape, MainShape, Reached, Leaving, Open, Exiting, SocketsTracked,
     OnlyResetsTerminate, Found, DiscoveredIsFound
<1>4. ASSUME NEW c \in Conns, NEW i \in 1..Len(inbox'[c]) PROVE Findable(inbox[c][i])'
  <2>1. CASE UNCHANGED inbox
    BY <2>1, <1>2 DEF Inv, Found, Findable
  <2>2. CASE ClientSends(k)
    <3>1. PICK s \in Services :
            inbox' = [inbox EXCEPT ![k] = @ \o Fragments(
              [id |-> sent + 1, on |-> k, service |-> s, announced |-> s \in written])]
      BY <2>2 DEF ClientSends
    <3> DEFINE r == [id |-> sent + 1, on |-> k, service |-> s, announced |-> s \in written]
    <3>2. inbox \in [Conns -> Seq(Fragment(Request))]
      BY DEF Inv, TypeOK
    <3>3. CASE c = k /\ i > Len(inbox[k])
      <4>1. inbox'[c] = inbox[k] \o Fragments(r)
        BY <3>1, <3>2, <3>3
      <4>2. /\ Fragments(r) = [j \in 1..Parts |-> [msg |-> r, part |-> j]]
            /\ Fragments(r) \in Seq([msg : {r}, part : 1..Parts])
            /\ Len(Fragments(r)) = Parts
        BY WireAssumption DEF WireAssumption, Fragments
      <4>3. PICK j \in 1..Parts : inbox'[c][i] = [msg |-> r, part |-> j]
        BY <3>2, <3>3, <4>1, <4>2, WireAssumption DEF WireAssumption
      <4>4. s \in written => s \in services_
        BY DEF Inv, MainShape
      <4>5. r.announced => r.service \in services_
        BY <4>4
      <4>6. inbox'[c][i].msg = r
        BY <4>3
      <4> HIDE DEF r
      <4> QED BY <1>2, <4>5, <4>6 DEF Findable
    <3>4. CASE ~(c = k /\ i > Len(inbox[k]))
      <4>1. i \in 1..Len(inbox[c]) /\ inbox'[c][i] = inbox[c][i]
        <5>1. CASE c # k
          BY <3>1, <3>2, <5>1
        <5>2. CASE c = k
          <6>1. Fragments(r) \in Seq([msg : {r}, part : 1..Parts])
            BY WireAssumption DEF WireAssumption, Fragments
          <6>2. inbox'[k] = inbox[k] \o Fragments(r)
            BY <3>1, <3>2
          <6> QED BY <3>2, <3>4, <5>2, <6>1, <6>2
        <5> QED BY <5>1, <5>2
      <4> QED BY <1>2, <4>1 DEF Inv, Found, Findable
    <3> QED BY <3>3, <3>4
  <2> QED BY <2>1, <2>2 DEF ClientConnects, ClientLeaves
<1>5. Found'
  BY <1>2, <1>3, <1>4 DEF Inv, Found
<1> QED BY <1>1, <1>3, <1>5 DEF Inv

(* A node that goes takes nothing out of services_.                        *)
LEMMA ExpiryInv == Inv /\ SessionExpires => Inv'
<1> SUFFICES ASSUME Inv, SessionExpires PROVE Inv'
  OBVIOUS
<1>1. /\ UNCHANGED <<main, entry, mutex_, services_, alive, acceptor, accepting, stopped, io,
                     fate, peer, sock, server_sockets_, reading, inbox, sent, answers, ran>>
      /\ written' \subseteq written
  BY DEF SessionExpires, mainVars, acceptVars, sockVars, clientVars
<1>2. TypeOK'
  BY <1>1 DEF Inv, TypeOK
<1>3. IoShape' /\ MainShape' /\ Reached'
  BY <1>1 DEF Inv, IoShape, MainShape, Reached
<1>4. Found'
  BY <1>1 DEF Inv, Found, Findable, DiscoveredIsFound
<1>5. Open' /\ SocketsTracked' /\ OnlyResetsTerminate'
  BY <1>1 DEF Inv, Open, Exiting, SocketsTracked, OnlyResetsTerminate
<1> QED BY <1>2, <1>3, <1>4, <1>5 DEF Inv

(* A handler forgets a connection only when it closes it, finds what was   *)
(* announced, and throws only on a reset or on the way out.                *)
LEMMA IoStepInv == Inv /\ fate = "fine" /\ IoStep => Inv'
<1> SUFFICES ASSUME Inv, fate = "fine", IoStep PROVE Inv'
  OBVIOUS
<1> USE DEF mainVars, memberVars, acceptVars, sockVars, clientVars
<1>0. TypeOK' /\ NoConn \notin Conns /\ io \in IoType
  BY IoStepType, ServerAssumption DEF Inv, ServerAssumption, TypeOK, IoType
<1>1. ASSUME NEW k \in Conns, HandleAccept(k) PROVE Inv'
  <2>1. /\ io.step = "idle" /\ ~stopped /\ sock[k] = "none"
        /\ sock' = [sock EXCEPT ![k] = "open"]
        /\ server_sockets_' = server_sockets_ \union {k}
        /\ reading' = reading \union {k}
        /\ UNCHANGED <<main, entry, services_, written, stopped, io, peer, inbox, answers>>
    BY <1>1 DEF HandleAccept, MayRun
  <2>2. IoShape' /\ MainShape' /\ Found'
    BY <2>1 DEF Inv, IoShape, MainShape, Found, DiscoveredIsFound, Findable
  <2>6. Reached'
    BY <2>1 DEF Inv, TypeOK, MainShape, Leaving, Reached
  <2>3. Open'
    BY <2>1 DEF Inv, Open, Exiting, TypeOK
  <2>4. SocketsTracked'
    BY <2>1 DEF Inv, SocketsTracked
  <2>5. OnlyResetsTerminate'
    <3>1. ~Broken(k) => fate' # "terminated"
      BY <1>1 DEF HandleAccept, Touched
    <3> QED BY <2>1, <3>1 DEF Broken, OnlyResetsTerminate
  <2> QED BY <1>0, <2>2, <2>3, <2>4, <2>5, <2>6 DEF Inv
<1>2. ASSUME NEW k \in Conns, HandleServerRead(k) PROVE Inv'
  <2>1. PICK chunk \in Chunks(inbox[k]), kind \in Occurring :
          /\ inbox' = [inbox EXCEPT ![k] = After(@, chunk)]
          /\ io' = OnMessage(k, chunk, kind)
          /\ fate' = IF LooksUp(chunk, kind) /\ ServicesRaced THEN "undefined" ELSE fate
    BY <1>2 DEF HandleServerRead
  <2>2. /\ io.step = "idle" /\ ~stopped /\ k \in reading /\ reading' = reading \ {k}
        /\ UNCHANGED <<main, entry, services_, written, stopped, sock, server_sockets_, peer,
                       answers>>
    BY <1>2 DEF HandleServerRead, MayRun
  <2>3. inbox \in [Conns -> Seq(Fragment(Request))] /\ inbox[k] \in Seq(Fragment(Request))
    BY DEF Inv, TypeOK
  <2>4. chunk \in Seq(Fragment(Request)) /\ After(inbox[k], chunk) \in Seq(Fragment(Request))
    BY <2>3, ChunkType
  <2>5. /\ io'.conn = k /\ io'.step \in {"calling", "answering"}
        /\ io'.step = "calling" => io'.req \in Request
        /\ io'.code = 2 => Decodes(chunk) /\ io'.req = Decoded(chunk)
                           /\ Decoded(chunk).service \notin services_
    BY <2>1, <2>4, OnMessageType DEF Inv
  <2>6. IoShape' /\ MainShape' /\ Reached'
    BY <1>0, <2>2, <2>5 DEF Inv, IoShape, MainShape, Reached, Leaving
  <2>7. /\ chunk[1] = inbox[k][1] /\ Len(inbox[k]) >= 1
        /\ \A j \in 1..Len(After(inbox[k], chunk)) :
             \E i \in 1..Len(inbox[k]) : After(inbox[k], chunk)[j] = inbox[k][i]
    BY <2>3, ChunkElements
  <2>8. Found'
    <3>1. ASSUME NEW c \in Conns, NEW i \in 1..Len(inbox'[c]) PROVE Findable(inbox[c][i])'
      <4>1. CASE c = k
        <5>1. inbox'[c] = After(inbox[k], chunk)
          BY <2>1, <2>3, <4>1
        <5>2. PICK j \in 1..Len(inbox[k]) : inbox'[c][i] = inbox[k][j]
          BY <2>7, <5>1
        <5> QED BY <2>2, <5>2 DEF Inv, Found, Findable
      <4>2. CASE c # k
        BY <2>1, <2>2, <2>3, <4>2 DEF Inv, Found, Findable
      <4> QED BY <4>1, <4>2
    <3>2. io'.code = 2 => ~io'.req.announced
      <4>1. SUFFICES ASSUME io'.code = 2 PROVE ~io'.req.announced
        OBVIOUS
      <4>2. 1 \in 1..Len(inbox[k]) /\ io'.req = inbox[k][1].msg
        BY <2>3, <2>5, <2>7, <4>1 DEF Decoded
      <4>3. inbox[k][1].msg.service \notin services_
        BY <2>5, <4>1, <4>2
      <4>4. Findable(inbox[k][1])
        BY <4>2 DEF Inv, Found
      <4> QED BY <4>2, <4>3, <4>4 DEF Findable
    <3>3. DiscoveredIsFound'
      BY <2>2 DEF Inv, Found, DiscoveredIsFound
    <3> QED BY <3>1, <3>2, <3>3 DEF Found
  <2>9. Open'
    BY <2>2, <2>5 DEF Inv, Open, Exiting
  <2>10. SocketsTracked'
    BY <1>0, <2>2, <2>5 DEF Inv, IoShape, SocketsTracked
  <2>11. OnlyResetsTerminate'
    BY <2>1 DEF OnlyResetsTerminate
  <2> QED BY <1>0, <2>6, <2>8, <2>9, <2>10, <2>11 DEF Inv
<1>3. ASSUME NEW k \in Conns, HandleServerReadError(k) PROVE Inv'
  <2>1. /\ io.step = "idle" /\ ~stopped /\ k \in reading
        /\ sock' = [sock EXCEPT ![k] = "closed"]
        /\ server_sockets_' = server_sockets_ \ {k}
        /\ reading' = reading \ {k}
        /\ UNCHANGED <<main, entry, services_, written, stopped, io, peer, inbox, answers>>
    BY <1>3 DEF HandleServerReadError, Forgets, MayRun
  <2>2. IoShape' /\ MainShape' /\ Found'
    BY <2>1 DEF Inv, IoShape, MainShape, Found, DiscoveredIsFound, Findable
  <2>7. Reached'
    BY <2>1 DEF Inv, TypeOK, Reached
  <2>3. io.conn = NoConn
    BY <2>1 DEF Inv, IoShape
  <2>4. Open'
    BY <1>0, <2>1, <2>3 DEF Inv, Open, Exiting, TypeOK
  <2>5. SocketsTracked'
    BY <2>1, <2>3 DEF Inv, SocketsTracked
  <2>6. OnlyResetsTerminate'
    <3>1. fate' = "terminated" => Broken(k)
      BY <1>3 DEF HandleServerReadError, Touched
    <3>2. ~Exiting => sock[k] # "closed"
      BY <2>1 DEF Inv, Open
    <3> QED BY <2>1, <3>1, <3>2 DEF Broken, OnlyResetsTerminate, Exiting
  <2> QED BY <1>0, <2>2, <2>4, <2>5, <2>6, <2>7 DEF Inv
<1>4. CASE HandleAcceptError
  <2>1. UNCHANGED <<main, entry, services_, written, stopped, io, peer, inbox, answers, sock,
                    server_sockets_, reading, fate>>
    BY <1>4 DEF HandleAcceptError
  <2> QED
    BY <1>0, <2>1 DEF Inv, IoShape, MainShape, Reached, Found, DiscoveredIsFound, Findable, Open,
       Exiting, SocketsTracked, OnlyResetsTerminate
<1>5. CASE CallServiceMethod \/ ServiceReturns
  <2>1. /\ io.step \in {"calling", "running"} /\ io.conn \in Conns /\ io.req \in Request
        /\ UNCHANGED <<main, entry, services_, written, stopped, peer, inbox, answers, sock,
                       server_sockets_, reading>>
    BY <1>0, <1>5 DEF CallServiceMethod, ServiceReturns, Inv, IoShape, IoType
  <2>2. Verdict(io.kind) # 2
    BY DEF Verdict
  <2>3. /\ io'.conn = io.conn /\ io'.req = io.req /\ io'.step \in {"running", "answering"}
        /\ io'.step = "answering" => io'.code # 2
    BY <1>0, <1>5, <2>2 DEF CallServiceMethod, ServiceReturns, IoType
  <2>4. IoShape' /\ MainShape' /\ Reached'
    BY <1>0, <2>1, <2>3 DEF Inv, IoShape, MainShape, Reached
  <2>5. Found'
    BY <2>1, <2>3 DEF Inv, Found, DiscoveredIsFound, Findable
  <2>6. Open' /\ SocketsTracked'
    BY <1>5, <2>1, <2>3 DEF Inv, Open, Exiting, SocketsTracked
  <2>7. OnlyResetsTerminate'
    BY <1>5 DEF CallServiceMethod, ServiceReturns, OnlyResetsTerminate
  <2> QED BY <1>0, <2>4, <2>5, <2>6, <2>7 DEF Inv
<1>6. CASE WriteResponse
  <2> DEFINE k == io.conn
  <2>1. /\ io.step = "answering" /\ k \in Conns
        /\ answers' = [answers EXCEPT ![k] = Written(k)]
        /\ reading' = reading \union {k}
        /\ io'.step = "idle" /\ io'.conn = NoConn
        /\ UNCHANGED <<main, entry, services_, written, stopped, inbox, sock,
                       server_sockets_>>
    BY <1>0, <1>6 DEF WriteResponse, Inv, IoShape, IoType, Idle, Handler
  <2>2. IoShape' /\ MainShape' /\ Reached'
    BY <2>1 DEF Inv, IoShape, MainShape, Reached
  <2>3. DiscoveredIsFound'
    <3>1. answers \in [Conns -> Seq(Answer)]
      BY DEF Inv, TypeOK
    <3>2. ASSUME NEW c \in Conns, NEW i \in 1..Len(answers'[c]), answers'[c][i].code = 2
          PROVE  ~answers'[c][i].to.announced
      <4>1. CASE c = k /\ i = Len(answers[k]) + 1
        <5>1. answers'[c][i] = [to |-> io.req, code |-> io.code]
          BY <2>1, <3>1, <4>1 DEF Written
        <5> QED BY <2>1, <3>2, <5>1 DEF Inv, Found
      <4>2. CASE ~(c = k /\ i = Len(answers[k]) + 1)
        <5>1. i \in 1..Len(answers[c]) /\ answers'[c][i] = answers[c][i]
          BY <2>1, <3>1, <4>2 DEF Written
        <5> QED BY <3>2, <5>1 DEF Inv, Found, DiscoveredIsFound
      <4> QED BY <4>1, <4>2
    <3> QED BY <3>2 DEF DiscoveredIsFound
  <2>4. Found'
    BY <2>1, <2>3 DEF Inv, Found, Findable
  <2>5. Open' /\ SocketsTracked'
    BY <1>0, <1>6, <2>1 DEF Inv, Open, Exiting, SocketsTracked
  <2>6. OnlyResetsTerminate'
    <3>1. fate' = "terminated" => Broken(k)
      BY <1>6 DEF WriteResponse
    <3>2. ~Exiting => sock[k] # "closed"
      BY <2>1 DEF Inv, Open
    <3>3. peer[k] = "reset" => peer'[k] = "reset"
      BY <1>6, <2>1 DEF WriteResponse, Inv, TypeOK
    <3> QED BY <2>1, <3>1, <3>2, <3>3 DEF Broken, OnlyResetsTerminate, Exiting
  <2> QED BY <1>0, <2>2, <2>4, <2>5, <2>6 DEF Inv
<1> QED BY <1>1, <1>2, <1>3, <1>4, <1>5, <1>6 DEF IoStep

(* The user's thread enters a service before it publishes it, and closes   *)
(* sockets and stops the io thread only on its way out.                    *)
LEMMA MainStepInv == Inv /\ fate = "fine" /\ MainStep => Inv'
<1> SUFFICES ASSUME Inv, fate = "fine", MainStep PROVE Inv'
  OBVIOUS
<1> USE DEF mainVars, memberVars, acceptVars, sockVars, clientVars, MainGoes, MainMoves
<1>1. TypeOK'
  BY MainStepType DEF Inv
<1>2. /\ UNCHANGED <<io, reading, peer, inbox, answers>>
      /\ fate' # "terminated" /\ (fate' = "fine" => fate = "fine")
  BY DEF MainStep, RegisterService, InsertService, PublishService, SignalHandler,
     DestructorLocks, StopAcceptor, StopSockets, StopIo, StopRegistry, DestroyMembers, StopAgain, JoinIo
<1>3. services_ \subseteq services_' /\ written' \subseteq services_'
  <2>1. CASE InsertService
    BY <2>1 DEF InsertService, Inv, MainShape
  <2>2. CASE PublishService
    BY <2>2 DEF PublishService, Inv, MainShape
  <2>3. CASE StopRegistry
    BY <2>3 DEF StopRegistry, Inv, MainShape
  <2>4. CASE UNCHANGED <<services_, written>>
    BY <2>4 DEF Inv, MainShape
  <2> QED
    BY <2>1, <2>2, <2>3, <2>4 DEF MainStep, RegisterService, SignalHandler,
       DestructorLocks, StopAcceptor, StopSockets, StopIo, DestroyMembers, StopAgain, JoinIo
<1>4. MainShape'
  <2>1. ASSUME NEW s \in Services, RegisterService(s) PROVE MainShape'
    BY <2>1, <1>3 DEF RegisterService, MainShape, Leaving
  <2>2. CASE InsertService
    BY <2>2, <1>3 DEF InsertService, Inv, MainShape, Leaving
  <2>3. CASE PublishService
    BY <2>3, <1>3 DEF PublishService, MainShape, Leaving
  <2>4. CASE SignalHandler \/ DestructorLocks \/ StopAcceptor \/ StopSockets \/ StopIo
    BY <2>4, <1>3 DEF SignalHandler, DestructorLocks, StopAcceptor, StopSockets, StopIo,
       MainShape, Leaving
  <2>5. CASE StopRegistry \/ DestroyMembers \/ StopAgain \/ JoinIo
    BY <2>5, <1>3 DEF StopRegistry, DestroyMembers, StopAgain, JoinIo, Inv, MainShape, Leaving
  <2> QED BY <2>1, <2>2, <2>3, <2>4, <2>5 DEF MainStep
<1>5. IoShape' /\ Found'
  BY <1>2, <1>3 DEF Inv, IoShape, Found, DiscoveredIsFound, Findable
<1>6. OnlyResetsTerminate'
  BY <1>2 DEF OnlyResetsTerminate
<1>7. Open' /\ SocketsTracked' /\ Reached'
  <2>1. CASE StopSockets \/ StopAgain
    <3>1. /\ main' \in {"halting", "joining"} /\ server_sockets_' = {}
          /\ sock' = [k \in Conns |-> IF k \in server_sockets_ THEN "closed" ELSE sock[k]]
      BY <2>1 DEF StopSockets, StopAgain
    <3> QED BY <3>1 DEF Inv, Open, Exiting, SocketsTracked, Reached
  <2>2. CASE ~(StopSockets \/ StopAgain)
    <3>1. UNCHANGED <<sock, server_sockets_>>
      BY <2>2 DEF MainStep, RegisterService, InsertService, PublishService, SignalHandler,
         DestructorLocks, StopAcceptor, StopIo, StopRegistry, DestroyMembers, JoinIo
    <3>2. Exiting => Exiting'
      BY DEF MainStep, RegisterService, InsertService, PublishService, SignalHandler,
         DestructorLocks, StopAcceptor, StopSockets, StopIo, StopRegistry, DestroyMembers,
         StopAgain, JoinIo, Exiting
    <3>3. /\ main \in {"halting"} \union Leaving => main' \in Leaving
          /\ main' \in {"joining", "gone"} => main = "joining"
      BY <2>2 DEF MainStep, RegisterService, InsertService, PublishService, SignalHandler,
         DestructorLocks, StopAcceptor, StopIo, StopRegistry, DestroyMembers, JoinIo, Leaving
    <3> QED BY <1>2, <3>1, <3>2, <3>3 DEF Inv, Open, SocketsTracked, Reached, Leaving
  <2> QED BY <2>1, <2>2
<1> QED BY <1>1, <1>4, <1>5, <1>6, <1>7 DEF Inv

(* Init establishes the invariant.                                         *)
LEMMA InitInv == Init => Inv
<1> SUFFICES ASSUME Init PROVE Inv
  OBVIOUS
<1>1. /\ io.step = "idle" /\ io.conn = NoConn /\ io.code = 0
      /\ main = "serving" /\ fate = "fine" /\ written = {} /\ services_ = {}
      /\ reading = {} /\ server_sockets_ = {} /\ sock = [k \in Conns |-> "none"]
      /\ inbox = [k \in Conns |-> <<>>] /\ answers = [k \in Conns |-> <<>>]
      /\ NoConn \notin Conns
  BY ServerAssumption DEF ServerAssumption, Init, Idle, Handler
<1>2. IoShape /\ MainShape /\ Reached
  BY <1>1 DEF IoShape, MainShape, Leaving, Reached
<1>3. Found
  BY <1>1 DEF Found, DiscoveredIsFound
<1>4. Open /\ SocketsTracked /\ OnlyResetsTerminate
  BY <1>1 DEF Open, SocketsTracked, OnlyResetsTerminate
<1> QED BY <1>2, <1>3, <1>4, InitType DEF Inv

(* Every step keeps it.                                                    *)
LEMMA StepInv == Inv /\ [Next]_vars => Inv'
<1> SUFFICES ASSUME Inv, [Next]_vars PROVE Inv'
  OBVIOUS
<1>1. CASE fate = "fine" /\ (Client \/ SessionExpires \/ IoStep \/ MainStep)
  BY <1>1, ClientInv, ExpiryInv, IoStepInv, MainStepInv
<1>2. CASE UNCHANGED vars
  <2>1. UNCHANGED <<main, entry, mutex_, services_, alive, written, acceptor, accepting,
                    stopped, io, fate, peer, sock, server_sockets_, reading, inbox, sent,
                    answers, ran>>
    BY <1>2 DEF vars, mainVars, memberVars, acceptVars, sockVars, clientVars
  <2>2. TypeOK'
    BY <2>1 DEF Inv, TypeOK
  <2>3. IoShape' /\ MainShape' /\ Reached' /\ Found' /\ Open' /\ SocketsTracked'
        /\ OnlyResetsTerminate'
    BY <2>1 DEF Inv, IoShape, MainShape, Reached, Found, Findable, DiscoveredIsFound, Open, Exiting,
       SocketsTracked, OnlyResetsTerminate
  <2> QED BY <2>2, <2>3 DEF Inv
<1> QED BY <1>1, <1>2, NextSteps

(* The invariant holds throughout.                                         *)
LEMMA Invariant == Spec => []Inv
BY InitInv, StepInv, PTL DEF Spec

-----------------------------------------------------------------------------
(* The server is type correct.                                             *)
THEOREM TypeCorrect == Spec => []TypeOK
<1>1. Inv => TypeOK
  BY DEF Inv
<1> QED BY Invariant, <1>1, PTL

(* A request for a service that this server had announced is never         *)
(* answered with "Service not found", whatever threads do in between and   *)
(* whatever becomes of the node.                                           *)
THEOREM DiscoverySafety == Spec => []DiscoveredIsFound
<1>1. Inv => DiscoveredIsFound
  BY DEF Inv, Found
<1> QED BY Invariant, <1>1, PTL

(* Stop reaches every connection, and none that is gone is kept.           *)
THEOREM TrackingSafety == Spec => []SocketsTracked
<1>1. Inv => SocketsTracked
  BY DEF Inv
<1> QED BY Invariant, <1>1, PTL

(* While the server is not on its way out, only a client that resets its   *)
(* connection can terminate it.                                            *)
THEOREM TerminationSafety == Spec => []OnlyResetsTerminate
<1>1. Inv => OnlyResetsTerminate
  BY DEF Inv
<1> QED BY Invariant, <1>1, PTL

(* When the server is gone no connection is open, whenever it had been     *)
(* accepted.                                                               *)
THEOREM ConnectionSafety == Spec => []NoConnectionLeft
<1>1. Inv => NoConnectionLeft
  BY DEF Inv, Reached, NoConnectionLeft
<1> QED BY Invariant, <1>1, PTL
-----------------------------------------------------------------------------
(* The trail of the requests.  They are numbered as they are sent, so that *)
(* on a connection the answers are behind the handler and the handler is   *)
(* behind the stream.                                                      *)

(* What k has in its stream: requests of k that no service was called for, *)
(* each with its fragments in their order.                                 *)
InStream(k) ==
  /\ \A i \in 1..Len(inbox[k]) :
       /\ inbox[k][i].msg.on = k
       /\ inbox[k][i].msg.id <= sent
       /\ inbox[k][i].msg \notin ran
  /\ \A i, j \in 1..Len(inbox[k]) :
       i < j => \/ inbox[k][i].msg.id < inbox[k][j].msg.id
                \/ /\ inbox[k][i].msg.id = inbox[k][j].msg.id
                   /\ inbox[k][i].part < inbox[k][j].part

(* r has left the stream of k.                                             *)
Past(r, k) ==
  r # NoRequest =>
    /\ r.on = k
    /\ r.id <= sent
    /\ \A i \in 1..Len(inbox[k]) : r.id < inbox[k][i].msg.id

Before(r, s) == r # NoRequest /\ s # NoRequest => r.id < s.id

Tells(r, code) ==
  /\ code \in 1..4 => r \notin ran
  /\ code \in {0, 6} => r \in ran

InHandler ==
  /\ \A k \in Conns : io.conn = k => Past(io.req, k)
  /\ io.step = "calling" => io.req \notin ran
  /\ io.step = "running" => io.req \in ran
  /\ io.step = "answering" => Tells(io.req, io.code)

Answered(k) ==
  \A i \in 1..Len(answers[k]) :
    /\ Past(answers[k][i].to, k)
    /\ Tells(answers[k][i].to, answers[k][i].code)
    /\ io.conn = k => Before(answers[k][i].to, io.req)
    /\ \A j \in 1..Len(answers[k]) : i < j => Before(answers[k][i].to, answers[k][j].to)

TrailInv ==
  /\ \A k \in Conns : InStream(k) /\ Answered(k)
  /\ InHandler
  /\ \A r \in ran : r.id <= sent

(* The parts of a fragment of a stream.                                    *)
LEMMA FragmentFacts ==
  ASSUME NEW stream \in Seq(Fragment(Request)), NEW i \in 1..Len(stream)
  PROVE  stream[i].msg \in Request /\ stream[i].msg.id \in Nat /\ stream[i].part \in Nat
<1>1. stream[i] \in Fragment(Request)
  OBVIOUS
<1>2. stream[i].msg \in Request /\ stream[i].part \in 1..Parts
  BY <1>1 DEF Fragment
<1> QED BY <1>2, WireAssumption DEF WireAssumption, Request

(* What OnMessage makes of what it read.                                   *)
LEMMA OnMessageRequest ==
  ASSUME NEW k, NEW kind, NEW chunk
  PROVE  LET h == OnMessage(k, chunk, kind) IN
         /\ h.conn = k
         /\ \/ h.req = NoRequest /\ h.step = "answering" /\ h.code = 1
            \/ /\ Decodes(chunk) /\ h.req = Decoded(chunk)
               /\ \/ h.step = "calling" /\ h.code = 0
                  \/ h.step = "answering" /\ h.code \in 2..5
BY DEF OnMessage, Handler

(* Nothing has left a trail in the beginning.                              *)
LEMMA InitTrail == Init => TrailInv
<1> SUFFICES ASSUME Init PROVE TrailInv
  OBVIOUS
<1>1. /\ io.step = "idle" /\ io.conn = NoConn /\ io.req = NoRequest
      /\ inbox = [k \in Conns |-> <<>>] /\ answers = [k \in Conns |-> <<>>]
      /\ ran = {} /\ NoConn \notin Conns
  BY ServerAssumption DEF ServerAssumption, Init, Idle, Handler
<1>2. \A k \in Conns : Len(inbox[k]) = 0 /\ Len(answers[k]) = 0
  BY <1>1
<1> QED
  BY <1>1, <1>2 DEF TrailInv, InStream, Answered, InHandler

(* What sending a request adds to the trail is behind everything else.     *)
LEMMA SendTrail ==
  ASSUME Inv, TrailInv, NEW k \in Conns, ClientSends(k)
  PROVE  TrailInv'
<1>1. PICK s \in Services :
        inbox' = [inbox EXCEPT ![k] = @ \o Fragments(
          [id |-> sent + 1, on |-> k, service |-> s, announced |-> s \in written])]
  BY DEF ClientSends
<1> DEFINE q == [id |-> sent + 1, on |-> k, service |-> s, announced |-> s \in written]
<1>2. sent' = sent + 1 /\ UNCHANGED <<io, answers, ran>>
  BY DEF ClientSends, mainVars, memberVars, acceptVars, sockVars
<1>3. q \in Request /\ sent \in Nat /\ q.id = sent + 1 /\ q.on = k
  BY ServerAssumption DEF ServerAssumption, ClientSends, Inv, TypeOK, Request
<1>4. inbox \in [Conns -> Seq(Fragment(Request))]
  BY DEF Inv, TypeOK
<1>5. /\ Fragments(q) \in Seq(Fragment(Request)) /\ Len(Fragments(q)) = Parts
      /\ \A i \in 1..Parts : Fragments(q)[i] = [msg |-> q, part |-> i]
  BY <1>3, FragmentsIndex
<1>6. inbox'[k] = inbox[k] \o Fragments(q) /\ \A c \in Conns \ {k} : inbox'[c] = inbox[c]
  BY <1>1, <1>4
<1>7. q \notin ran
  BY <1>3 DEF TrailInv, Inv, TypeOK, Request
<1> HIDE DEF q
<1>8. \A c \in Conns : \A i \in 1..Len(inbox[c]) :
        /\ inbox[c][i].msg \in Request /\ inbox[c][i].msg.id \in Nat
        /\ inbox[c][i].part \in Nat
  BY <1>4, FragmentFacts
<1>9. \A i \in 1..Len(inbox'[k]) :
        \/ i \in 1..Len(inbox[k]) /\ inbox'[k][i] = inbox[k][i]
        \/ /\ i - Len(inbox[k]) \in 1..Parts
           /\ inbox'[k][i] = [msg |-> q, part |-> i - Len(inbox[k])]
  <2> DEFINE old == inbox[k]  new == Fragments(q)
  <2>1. old \in Seq(Fragment(Request)) /\ new \in Seq(Fragment(Request))
    BY <1>4, <1>5
  <2>2. Len(old) \in Nat /\ Len(new) = Parts
    BY <1>4, <1>5
  <2> HIDE DEF old, new
  <2>3. /\ Len(old \o new) = Len(old) + Len(new)
        /\ \A i \in 1..Len(old) + Len(new) :
             (old \o new)[i] = IF i <= Len(old) THEN old[i] ELSE new[i - Len(old)]
    BY <2>1, ConcatProperties
  <2>4. ASSUME NEW i \in 1..Len(old \o new)
        PROVE  \/ i \in 1..Len(old) /\ (old \o new)[i] = old[i]
               \/ i - Len(old) \in 1..Parts /\ (old \o new)[i] = new[i - Len(old)]
    BY <2>2, <2>3, WireAssumption DEF WireAssumption
  <2>5. inbox'[k] = old \o new /\ \A j \in 1..Parts : new[j] = [msg |-> q, part |-> j]
    BY <1>5, <1>6 DEF old, new
  <2>6. \A i \in 1..Len(inbox'[k]) :
          \/ i \in 1..Len(old) /\ inbox'[k][i] = old[i]
          \/ /\ i - Len(old) \in 1..Parts
             /\ inbox'[k][i] = [msg |-> q, part |-> i - Len(old)]
    BY <2>4, <2>5
  <2> QED BY <2>6 DEF old
<1>10. \A c \in Conns : InStream(c)'
  <2>1. ASSUME NEW c \in Conns, c # k PROVE InStream(c)'
    <3>1. inbox'[c] = inbox[c] /\ InStream(c)
      BY <1>6, <2>1 DEF TrailInv
    <3>2. \A i \in 1..Len(inbox[c]) : inbox[c][i].msg.id <= sent + 1
      BY <1>3, <1>8, <3>1 DEF InStream
    <3> QED BY <1>2, <3>1, <3>2 DEF InStream
  <2>2. InStream(k)'
    <3>1. ASSUME NEW i \in 1..Len(inbox'[k])
          PROVE  /\ inbox'[k][i].msg.on = k
                 /\ inbox'[k][i].msg.id <= sent'
                 /\ inbox'[k][i].msg \notin ran'
      <4>1. CASE i \in 1..Len(inbox[k]) /\ inbox'[k][i] = inbox[k][i]
        BY <1>2, <1>3, <1>8, <4>1 DEF TrailInv, InStream
      <4>2. CASE inbox'[k][i] = [msg |-> q, part |-> i - Len(inbox[k])]
        BY <1>2, <1>3, <1>7, <4>2
      <4> QED BY <1>9, <4>1, <4>2
    <3>2. ASSUME NEW i \in 1..Len(inbox'[k]), NEW j \in 1..Len(inbox'[k]), i < j
          PROVE  \/ inbox'[k][i].msg.id < inbox'[k][j].msg.id
                 \/ /\ inbox'[k][i].msg.id = inbox'[k][j].msg.id
                    /\ inbox'[k][i].part < inbox'[k][j].part
      <4> DEFINE n == Len(inbox[k])
      <4>0. n \in Nat /\ i \in Int /\ j \in Int
        BY <1>4
      <4> HIDE DEF n
      <4>1. CASE j \in 1..n /\ inbox'[k][j] = inbox[k][j]
        <5>1. i \in 1..n
          BY <3>2, <4>0, <4>1
        <5>2. inbox'[k][i] = inbox[k][i]
          <6>1. ~(i - n \in 1..Parts)
            BY <4>0, <5>1, WireAssumption DEF WireAssumption
          <6> QED BY <1>9, <6>1 DEF n
        <5> QED BY <3>2, <4>1, <5>1, <5>2 DEF TrailInv, InStream, n
      <4>2. CASE j - n \in 1..Parts /\ inbox'[k][j] = [msg |-> q, part |-> j - n]
        <5>1. CASE i \in 1..n /\ inbox'[k][i] = inbox[k][i]
          BY <1>3, <1>8, <4>2, <5>1 DEF TrailInv, InStream, n
        <5>2. CASE inbox'[k][i] = [msg |-> q, part |-> i - n]
          BY <3>2, <4>0, <4>2, <5>2
        <5> QED BY <1>9, <5>1, <5>2 DEF n
      <4> QED BY <1>9, <4>1, <4>2 DEF n
    <3> QED BY <3>1, <3>2 DEF InStream
  <2> QED BY <2>1, <2>2
<1>11. ASSUME NEW c \in Conns, NEW r \in Request \union {NoRequest}, Past(r, c)
       PROVE  Past(r, c)'
  <2> SUFFICES ASSUME r # NoRequest PROVE Past(r, c)'
    BY DEF Past
  <2>1. r \in Request /\ r.id \in Nat
    BY DEF Request
  <2>2. CASE c # k
    BY <1>2, <1>3, <1>6, <1>11, <2>1, <2>2 DEF Past
  <2>3. CASE c = k
    <3>1. ASSUME NEW i \in 1..Len(inbox'[k]) PROVE r.id < inbox'[k][i].msg.id
      <4>1. CASE i \in 1..Len(inbox[k]) /\ inbox'[k][i] = inbox[k][i]
        BY <1>11, <2>3, <4>1 DEF Past
      <4>2. CASE inbox'[k][i] = [msg |-> q, part |-> i - Len(inbox[k])]
        BY <1>3, <1>11, <2>1, <4>2 DEF Past
      <4> QED BY <1>9, <4>1, <4>2
    <3> QED BY <1>2, <1>3, <1>11, <2>1, <2>3, <3>1 DEF Past
  <2> QED BY <2>2, <2>3
<1>12. InHandler'
  <2>1. io.req \in Request \union {NoRequest}
    <3>1. io \in IoType
      BY DEF Inv, TypeOK, IoType
    <3> QED BY <3>1 DEF IoType
  <2>2. ASSUME NEW c \in Conns, io.conn = c PROVE Past(io.req, c)'
    <3>1. ASSUME NEW r \in Request \union {NoRequest}, r = io.req, Past(r, c)
          PROVE  Past(r, c)'
      BY <1>11, <3>1
    <3>2. Past(io.req, c)
      BY <2>2 DEF TrailInv, InHandler
    <3> QED BY <1>2, <2>1, <3>1, <3>2 DEF Past
  <2> QED BY <1>2, <2>2 DEF TrailInv, InHandler, Tells, Past
<1>13. \A c \in Conns : Answered(c)'
  <2>1. ASSUME NEW c \in Conns, NEW i \in 1..Len(answers[c])
        PROVE  answers[c][i].to \in Request \union {NoRequest} /\ Past(answers[c][i].to, c)'
    <3>1. answers[c] \in Seq(Answer)
      BY DEF Inv, TypeOK
    <3>2. answers[c][i].to \in Request \union {NoRequest}
      <4>1. answers[c][i] \in Answer
        BY <3>1
      <4> QED BY <4>1 DEF Answer
    <3>3. Past(answers[c][i].to, c)
      BY DEF TrailInv, Answered
    <3>4. ASSUME NEW r \in Request \union {NoRequest}, r = answers[c][i].to, Past(r, c)
          PROVE  Past(r, c)'
      BY <1>11, <3>4
    <3> QED BY <1>2, <3>2, <3>3, <3>4 DEF Past
  <2> QED BY <1>2, <2>1 DEF TrailInv, Answered, Tells, Before, Past
<1>14. \A r \in ran' : r.id <= sent'
  BY <1>2, <1>3 DEF TrailInv, Inv, TypeOK, Request
<1> QED BY <1>10, <1>12, <1>13, <1>14 DEF TrailInv
(* A read takes the request that is in front, if it decodes, and leaves    *)
(* only later ones.                                                        *)
LEMMA ReadTrail ==
  ASSUME Inv, TrailInv, NEW k \in Conns, HandleServerRead(k)
  PROVE  TrailInv'
<1>1. PICK chunk \in Chunks(inbox[k]), kind \in Occurring :
        inbox' = [inbox EXCEPT ![k] = After(@, chunk)] /\ io' = OnMessage(k, chunk, kind)
  BY DEF HandleServerRead
<1>2. UNCHANGED <<sent, answers, ran>> /\ NoConn \notin Conns /\ io.conn = NoConn
  BY ServerAssumption DEF HandleServerRead, MayRun, Inv, IoShape, ServerAssumption,
     memberVars, acceptVars, mainVars
<1> DEFINE old == inbox[k]  rest == After(old, chunk)  n == Len(chunk)
<1>3. old \in Seq(Fragment(Request)) /\ rest \in Seq(Fragment(Request))
  BY ChunkType DEF Inv, TypeOK
<1>4. inbox'[k] = rest /\ \A c \in Conns \ {k} : inbox'[c] = inbox[c]
  BY <1>1 DEF Inv, TypeOK
<1>5. /\ n \in 1..Len(old) /\ Len(rest) = Len(old) - n
      /\ \A i \in 1..n : chunk[i] = old[i]
      /\ \A j \in 1..Len(rest) : j + n \in 1..Len(old) /\ rest[j] = old[j + n]
  BY <1>1, <1>3, ChunkIndex
<1>6. Len(old) \in Nat /\ Len(rest) \in Nat
  BY <1>3
<1>7. /\ io'.conn = k
      /\ \/ io'.req = NoRequest /\ io'.step = "answering" /\ io'.code = 1
         \/ /\ Decodes(chunk) /\ io'.req = Decoded(chunk)
            /\ \/ io'.step = "calling" /\ io'.code = 0
               \/ io'.step = "answering" /\ io'.code \in 2..5
  BY <1>1, OnMessageRequest
<1>8. InStream(k)
  BY DEF TrailInv
<1> HIDE DEF rest, n
<1>9. \A c \in Conns : InStream(c)'
  <2>1. ASSUME NEW c \in Conns, c # k PROVE InStream(c)'
    BY <1>2, <1>4, <2>1 DEF TrailInv, InStream
  <2>2. InStream(k)'
    <3>1. \A i \in 1..Len(rest) :
            rest[i].msg.on = k /\ rest[i].msg.id <= sent /\ rest[i].msg \notin ran
      BY <1>5, <1>8 DEF InStream
    <3>2. ASSUME NEW i \in 1..Len(rest), NEW j \in 1..Len(rest), i < j
          PROVE  \/ rest[i].msg.id < rest[j].msg.id
                 \/ rest[i].msg.id = rest[j].msg.id /\ rest[i].part < rest[j].part
      <4>1. /\ i + n \in 1..Len(old) /\ j + n \in 1..Len(old)
            /\ rest[i] = old[i + n] /\ rest[j] = old[j + n]
        BY <1>5
      <4>2. i + n < j + n
        BY <1>5, <1>6, <3>2
      <4> QED BY <1>8, <4>1, <4>2 DEF InStream
    <3> QED BY <1>2, <1>4, <3>1, <3>2 DEF InStream
  <2> QED BY <2>1, <2>2
<1>10. ASSUME NEW c \in Conns, NEW r, Past(r, c) PROVE Past(r, c)'
  <2>1. CASE c # k
    BY <1>2, <1>4, <1>10, <2>1 DEF Past
  <2>2. CASE c = k
    BY <1>2, <1>4, <1>5, <1>10, <2>2 DEF Past
  <2> QED BY <2>1, <2>2
<1>11. ASSUME Decodes(chunk)
       PROVE  /\ Decoded(chunk) = old[1].msg /\ 1 \in 1..Len(old)
              /\ \A j \in 1..Len(rest) : old[1].msg.id < rest[j].msg.id
  <2>1. Parts \in 1..n /\ 1 \in 1..n
    BY <1>1, <1>3, <1>5, <1>11, WireAssumption, ChunkType DEF Decodes, WireAssumption, n
  <2>2. chunk[Parts] = [msg |-> chunk[1].msg, part |-> Parts]
    BY <1>11, <2>1, WireAssumption DEF Decodes, WireAssumption
  <2>3. old[Parts] = [msg |-> old[1].msg, part |-> Parts] /\ chunk[1] = old[1]
    BY <1>5, <2>1, <2>2
  <2>4. ASSUME NEW j \in 1..Len(rest) PROVE old[1].msg.id < rest[j].msg.id
    <3>1. j + n \in 1..Len(old) /\ rest[j] = old[j + n] /\ Parts < j + n
          /\ Parts \in 1..Len(old)
      BY <1>5, <1>6, <2>1, WireAssumption DEF WireAssumption
    <3>2. \/ old[Parts].msg.id < old[j + n].msg.id
          \/ old[Parts].part < old[j + n].part
      BY <1>8, <3>1 DEF InStream
    <3>3. old[j + n].part \in 1..Parts
      <4>1. old[j + n] \in Fragment(Request)
        BY <1>3, <3>1
      <4> QED BY <4>1 DEF Fragment
    <3>4. ~(Parts < old[j + n].part)
      BY <3>3, WireAssumption DEF WireAssumption
    <3> QED BY <2>3, <3>1, <3>2, <3>4
  <2>5. 1 \in 1..Len(old) /\ Decoded(chunk) = old[1].msg
    BY <1>5, <1>6, <2>1, <2>3 DEF Decoded
  <2> QED BY <2>4, <2>5
<1>12. InHandler'
  <2>1. CASE io'.req = NoRequest /\ io'.step = "answering" /\ io'.code = 1
    <3>1. NoRequest \notin ran
      BY ServerAssumption DEF ServerAssumption, Inv, TypeOK
    <3> QED BY <1>2, <2>1, <3>1 DEF InHandler, Past, Tells
  <2>2. CASE /\ Decodes(chunk) /\ io'.req = Decoded(chunk)
             /\ \/ io'.step = "calling" /\ io'.code = 0
                \/ io'.step = "answering" /\ io'.code \in 2..5
    <3>1. io'.req = old[1].msg /\ 1 \in 1..Len(old)
      BY <1>11, <2>2
    <3>2. old[1].msg \notin ran /\ old[1].msg.on = k /\ old[1].msg.id <= sent
      BY <1>8, <3>1 DEF InStream
    <3>3. \A j \in 1..Len(inbox'[k]) : io'.req.id < inbox'[k][j].msg.id
      BY <1>4, <1>11, <2>2, <3>1
    <3>4. \A c \in Conns : io'.conn = c => Past(io.req, c)'
      BY <1>2, <1>7, <3>1, <3>2, <3>3 DEF Past
    <3>5. io'.step = "answering" => io'.code \in 2..5
      BY <2>2
    <3>6. ~(io'.code \in 2..5 /\ io'.code \in {0, 6})
      OBVIOUS
    <3>7. io'.step # "running"
      BY <2>2
    <3> QED BY <1>2, <3>1, <3>2, <3>4, <3>5, <3>6, <3>7 DEF InHandler, Tells
  <2> QED BY <1>7, <2>1, <2>2
<1>13. \A c \in Conns : Answered(c)'
  <2>1. ASSUME NEW c \in Conns, NEW i \in 1..Len(answers[c]), c = k
        PROVE  Before(answers[c][i].to, io'.req)
    <3>1. CASE io'.req = NoRequest
      BY <3>1 DEF Before
    <3>2. CASE Decodes(chunk) /\ io'.req = Decoded(chunk)
      BY <1>11, <2>1, <3>2 DEF TrailInv, Answered, Past, Before
    <3> QED BY <1>7, <3>1, <3>2
  <2>2. ASSUME NEW c \in Conns, NEW i \in 1..Len(answers[c])
        PROVE  Past(answers[c][i].to, c)'
    <3>1. Past(answers[c][i].to, c)
      BY DEF TrailInv, Answered
    <3>2. ASSUME NEW r, r = answers[c][i].to, Past(r, c) PROVE Past(r, c)'
      BY <1>10, <3>2
    <3> QED BY <1>2, <3>1, <3>2 DEF Past
  <2> QED BY <1>2, <1>7, <2>1, <2>2 DEF TrailInv, Answered, Tells, Before, Past
<1>14. \A r \in ran' : r.id <= sent'
  BY <1>2 DEF TrailInv
<1> QED BY <1>9, <1>12, <1>13, <1>14 DEF TrailInv

(* The service that is called is the first to be called for its request,   *)
(* so that no answer written before becomes untrue.                        *)
LEMMA CallTrail ==
  ASSUME Inv, TrailInv, CallServiceMethod
  PROVE  TrailInv'
<1>1. /\ io.step = "calling" /\ ran' = ran \union {io.req}
      /\ UNCHANGED <<inbox, sent, answers>>
  BY DEF CallServiceMethod, mainVars, acceptVars, sockVars, clientVars
<1>2. io \in IoType /\ io.req \in Request /\ io.req # NoRequest
  BY <1>1, ServerAssumption DEF ServerAssumption, Inv, TypeOK, IoType, IoShape
<1>3. PICK k \in Conns : io.conn = k
  BY <1>1, <1>2 DEF Inv, IoShape, IoType
<1>4. io.req.on = k /\ io.req.id <= sent /\ Past(io.req, k)
  BY <1>2, <1>3 DEF TrailInv, InHandler, Past
<1>5. io'.conn = io.conn /\ io'.req = io.req /\ io'.step = "running"
  BY <1>2 DEF CallServiceMethod, IoType
<1>6. ASSUME NEW c \in Conns, NEW r \in Request, r.on = c, c = k => r.id # io.req.id
      PROVE  r # io.req
  BY <1>4, <1>6
<1>7. \A c \in Conns : InStream(c)'
  <2>1. ASSUME NEW c \in Conns, NEW i \in 1..Len(inbox[c])
        PROVE  inbox[c][i].msg # io.req
    <3>1. inbox[c][i].msg \in Request /\ inbox[c][i].msg.id \in Nat
      BY FragmentFacts DEF Inv, TypeOK
    <3>2. inbox[c][i].msg.on = c
      BY DEF TrailInv, InStream
    <3>3. c = k => io.req.id < inbox[c][i].msg.id
      BY <1>2, <1>4 DEF Past
    <3>4. io.req.id \in Nat
      BY <1>2 DEF Request
    <3> QED BY <1>6, <3>1, <3>2, <3>3, <3>4
  <2> QED BY <1>1, <2>1 DEF TrailInv, InStream
<1>8. \A c \in Conns : Answered(c)'
  <2>1. ASSUME NEW c \in Conns, NEW i \in 1..Len(answers[c]) PROVE answers[c][i].to # io.req
    <3>1. answers[c][i] \in Answer
      BY DEF Inv, TypeOK
    <3>2. CASE answers[c][i].to = NoRequest
      BY <1>2, <3>2
    <3>3. CASE answers[c][i].to \in Request /\ answers[c][i].to # NoRequest
      <4>1. answers[c][i].to.on = c /\ (c = k => answers[c][i].to.id < io.req.id)
        BY <1>2, <1>3, <3>3 DEF TrailInv, Answered, Past, Before
      <4>2. answers[c][i].to.id \in Nat /\ io.req.id \in Nat
        BY <1>2, <3>3 DEF Request
      <4> QED BY <1>6, <3>3, <4>1, <4>2
    <3> QED BY <3>1, <3>2, <3>3 DEF Answer
  <2> QED BY <1>1, <1>5, <2>1 DEF TrailInv, Answered, Tells, Before, Past
<1>9. InHandler'
  <2>1. \A c \in Conns : io'.conn = c => Past(io.req, c)'
    BY <1>1, <1>3, <1>4, <1>5 DEF Past
  <2> QED BY <1>1, <1>5, <2>1 DEF InHandler
<1>10. \A r \in ran' : r.id <= sent'
  BY <1>1, <1>4 DEF TrailInv
<1> QED BY <1>7, <1>8, <1>9, <1>10 DEF TrailInv

(* The service that returns leaves a code that tells of the call.          *)
LEMMA ReturnTrail ==
  ASSUME Inv, TrailInv, ServiceReturns
  PROVE  TrailInv'
<1>1. io.step = "running" /\ UNCHANGED <<inbox, sent, answers, ran>>
  BY DEF ServiceReturns, mainVars, acceptVars, sockVars, clientVars
<1>2. io \in IoType
  BY DEF Inv, TypeOK, IoType
<1>3. /\ io'.conn = io.conn /\ io'.req = io.req /\ io'.step = "answering"
      /\ io'.code \in {0, 5, 6}
  <2>1. Verdict(io.kind) \in {0, 5, 6}
    BY DEF Verdict
  <2> QED BY <1>2, <2>1 DEF ServiceReturns, IoType
<1>4. InHandler'
  <2>1. \A c \in Conns : io'.conn = c => Past(io.req, c)'
    BY <1>1, <1>3 DEF TrailInv, InHandler, Past
  <2>2. io.req \in ran' /\ (io'.code \in 1..4 => io'.code # io'.code)
    BY <1>1, <1>3 DEF TrailInv, InHandler
  <2> QED BY <1>3, <2>1, <2>2 DEF InHandler, Tells
<1>5. \A c \in Conns : InStream(c)' /\ Answered(c)'
  BY <1>1, <1>3 DEF TrailInv, InStream, Answered, Past, Tells, Before
<1> QED BY <1>1, <1>4, <1>5 DEF TrailInv

(* The answer that is written is later than all before it.                 *)
LEMMA WriteTrail ==
  ASSUME Inv, TrailInv, WriteResponse
  PROVE  TrailInv'
<1>1. /\ io.step = "answering" /\ UNCHANGED <<inbox, sent, ran>>
      /\ io'.conn = NoConn /\ io'.step = "idle" /\ NoConn \notin Conns
  BY ServerAssumption DEF ServerAssumption, WriteResponse, Idle, Handler, mainVars, memberVars,
     acceptVars
<1>2. PICK k \in Conns : io.conn = k
  BY <1>1 DEF Inv, IoShape, TypeOK
<1> DEFINE old == answers[k]  a == [to |-> io.req, code |-> io.code]
<1>3. answers \in [Conns -> Seq(Answer)] /\ old \in Seq(Answer) /\ Len(old) \in Nat
  BY DEF Inv, TypeOK
<1>4. answers' = [answers EXCEPT ![k] = Append(old, a)]
  BY <1>2 DEF WriteResponse, Written
<1>5. /\ \A c \in Conns \ {k} : answers'[c] = answers[c]
      /\ answers'[k] = Append(old, a)
  BY <1>3, <1>4
<1>6. a \in Answer
  BY DEF Inv, TypeOK, Answer
<1>7. /\ Len(answers'[k]) = Len(old) + 1
      /\ \A i \in 1..Len(old) : answers'[k][i] = old[i]
      /\ answers'[k][Len(old) + 1] = a
  BY <1>3, <1>5, <1>6, AppendProperties
<1>8. Past(a.to, k) /\ Tells(a.to, a.code)
  BY <1>1, <1>2 DEF TrailInv, InHandler
<1>9. \A i \in 1..Len(old) :
        /\ Past(old[i].to, k) /\ Tells(old[i].to, old[i].code) /\ Before(old[i].to, a.to)
        /\ \A j \in 1..Len(old) : i < j => Before(old[i].to, old[j].to)
  BY <1>2 DEF TrailInv, Answered
<1> HIDE DEF old, a
<1>10. \A i \in 1..Len(answers'[k]) :
         \/ i \in 1..Len(old) /\ answers'[k][i] = old[i]
         \/ i = Len(old) + 1 /\ answers'[k][i] = a
  BY <1>3, <1>7
<1>11. ASSUME NEW i \in 1..Len(answers'[k])
       PROVE  /\ Past(answers[k][i].to, k)'
              /\ Tells(answers[k][i].to, answers[k][i].code)'
              /\ \A j \in 1..Len(answers'[k]) :
                   i < j => Before(answers'[k][i].to, answers'[k][j].to)
  <2>1. /\ Past(answers[k][i].to, k)'
        /\ Tells(answers[k][i].to, answers[k][i].code)'
    BY <1>1, <1>8, <1>9, <1>10 DEF Past, Tells
  <2>2. ASSUME NEW j \in 1..Len(answers'[k]), i < j
        PROVE  Before(answers'[k][i].to, answers'[k][j].to)
    <3>1. i \in 1..Len(old) /\ answers'[k][i] = old[i]
      BY <1>3, <1>7, <2>2
    <3> QED BY <1>9, <1>10, <2>2, <3>1
  <2> QED BY <2>1, <2>2
<1>12. \A c \in Conns : Answered(c)'
  <2>1. ASSUME NEW c \in Conns, c # k PROVE Answered(c)'
    <3>1. Answered(c) /\ answers'[c] = answers[c] /\ io'.conn # c
      BY <1>1, <1>5, <2>1 DEF TrailInv
    <3> QED BY <1>1, <3>1 DEF Answered, Past, Tells, Before
  <2>2. Answered(k)'
    BY <1>1, <1>11 DEF Answered, Before
  <2> QED BY <2>1, <2>2
<1>13. \A c \in Conns : InStream(c)'
  BY <1>1 DEF TrailInv, InStream
<1>14. InHandler' /\ \A r \in ran' : r.id <= sent'
  BY <1>1 DEF TrailInv, InHandler
<1> QED BY <1>12, <1>13, <1>14 DEF TrailInv

(* No other step touches requests or answers.                              *)
LEMMA NextTrail == Inv /\ TrailInv /\ [Next]_vars => TrailInv'
<1> SUFFICES ASSUME Inv, TrailInv, [Next]_vars PROVE TrailInv'
  OBVIOUS
<1>1. ASSUME NEW k \in Conns, ClientSends(k) PROVE TrailInv'
  BY <1>1, SendTrail
<1>2. ASSUME NEW k \in Conns, HandleServerRead(k) PROVE TrailInv'
  BY <1>2, ReadTrail
<1>3. CASE CallServiceMethod \/ ServiceReturns
  BY <1>3, CallTrail, ReturnTrail
<1>4. CASE WriteResponse
  BY <1>4, WriteTrail
<1>5. CASE UNCHANGED <<io, inbox, sent, answers, ran>>
  BY <1>5 DEF TrailInv, InStream, InHandler, Answered, Past, Tells, Before
<1>6. CASE MainStep \/ SessionExpires \/ UNCHANGED vars
  <2>1. UNCHANGED <<io, inbox, sent, answers, ran>>
    BY <1>6 DEF MainStep, MainGoes, MainMoves, SessionExpires, RegisterService, InsertService, PublishService,
       SignalHandler, DestructorLocks, StopAcceptor, StopSockets, StopIo, StopRegistry,
       DestroyMembers, StopAgain, JoinIo, vars, clientVars
  <2> QED BY <1>5, <2>1
<1>7. CASE Client
  <2>1. ASSUME NEW k \in Conns, ClientConnects(k) \/ ClientLeaves(k) PROVE TrailInv'
    <3>1. UNCHANGED <<io, inbox, sent, answers, ran>>
      BY <2>1 DEF ClientConnects, ClientLeaves
    <3> QED BY <1>5, <3>1
  <2> QED BY <1>1, <1>7, <2>1 DEF Client
<1>8. CASE IoStep
  <2>1. ASSUME NEW k \in Conns, HandleAccept(k) \/ HandleServerReadError(k) PROVE TrailInv'
    <3>1. UNCHANGED <<io, inbox, sent, answers, ran>>
      BY <2>1 DEF HandleAccept, HandleServerReadError, clientVars
    <3> QED BY <1>5, <3>1
  <2>2. CASE HandleAcceptError
    <3>1. UNCHANGED <<io, inbox, sent, answers, ran>>
      BY <2>2 DEF HandleAcceptError, clientVars
    <3> QED BY <1>5, <3>1
  <2> QED BY <1>2, <1>3, <1>4, <1>8, <2>1, <2>2 DEF IoStep
<1> QED BY <1>6, <1>7, <1>8, NextSteps

(* The trail is kept throughout.                                           *)
LEMMA TrailInvariant == Spec => [](Inv /\ TrailInv)
BY InitInv, StepInv, InitTrail, NextTrail, PTL DEF Spec

(* From its code a client can tell whether its request was executed, for   *)
(* every code but 5.                                                       *)
THEOREM TellingSafety == Spec => []AnswersTell
<1>1. TrailInv => AnswersTell
  BY DEF TrailInv, Answered, Tells, AnswersTell
<1> QED BY TrailInvariant, <1>1, PTL

(* On each connection the answers come in the order of the requests, each  *)
(* to a request of that connection and none twice, whatever a read returns *)
(* of the stream and whoever leaves or exits.                              *)
THEOREM OrderSafety == Spec => []AnsweredInOrder
<1>1. Inv /\ TrailInv => AnsweredInOrder
  <2> SUFFICES ASSUME Inv, TrailInv, NEW k \in Conns,
                      NEW i \in 1..Len(Trail(k)), NEW j \in 1..Len(Trail(k)),
                      i < j, Trail(k)[i] # NoRequest, Trail(k)[j] # NoRequest
               PROVE  /\ Trail(k)[i].on = k /\ Trail(k)[j].on = k
                      /\ IF i <= Len(answers[k]) THEN Trail(k)[i].id < Trail(k)[j].id
                         ELSE Trail(k)[i].id <= Trail(k)[j].id
    BY DEF AnsweredInOrder
  <2> DEFINE R == Request \union {NoRequest}
             m == Len(answers[k])
             q == Len(inbox[k])
             h == IF io.conn = k THEN 1 ELSE 0
             A == [x \in 1..m |-> answers[k][x].to]
             H == IF io.conn = k THEN <<io.req>> ELSE <<>>
             B == [x \in 1..q |-> inbox[k][x].msg]
  <2>1. /\ answers[k] \in Seq(Answer) /\ inbox[k] \in Seq(Fragment(Request))
        /\ io.req \in R /\ m \in Nat /\ q \in Nat
    BY DEF Inv, TypeOK
  <2>2. A \in Seq(R) /\ Len(A) = m /\ \A x \in 1..m : A[x] = answers[k][x].to
    <3>1. \A x \in 1..m : answers[k][x] \in Answer
      BY <2>1
    <3>2. \A x \in 1..m : answers[k][x].to \in R
      BY <3>1 DEF Answer
    <3> QED BY <2>1, <3>2
  <2>3. H \in Seq(R) /\ Len(H) = h /\ (h = 1 => H[1] = io.req)
    <3>1. CASE io.conn = k
      BY <2>1, <3>1
    <3>2. CASE io.conn # k
      BY <3>2
    <3> QED BY <3>1, <3>2
  <2>4. B \in Seq(R) /\ Len(B) = q /\ \A x \in 1..q : B[x] = inbox[k][x].msg
    <3>1. \A x \in 1..q : inbox[k][x].msg \in Request
      BY <2>1, FragmentFacts
    <3> QED BY <2>1, <3>1
  <2>5. Trail(k) = (A \o H) \o B
    BY DEF Trail
  <2>6. h \in {0, 1} /\ (h = 1 <=> io.conn = k)
    OBVIOUS
  <2> HIDE DEF A, H, B, h, m, q, R
  <2>7. /\ A \o H \in Seq(R) /\ Len(A \o H) = m + h
        /\ \A x \in 1..(m + h) : (A \o H)[x] = IF x <= m THEN A[x] ELSE H[x - m]
    BY <2>2, <2>3, ConcatProperties
  <2>8. /\ Len(Trail(k)) = m + h + q
        /\ \A x \in 1..(m + h + q) :
             Trail(k)[x] = IF x <= m + h THEN (A \o H)[x] ELSE B[x - (m + h)]
    <3> DEFINE AH == A \o H
    <3>1. AH \in Seq(R) /\ Len(AH) = m + h
      BY <2>7
    <3> HIDE DEF AH
    <3>2. /\ Len(AH \o B) = Len(AH) + Len(B)
          /\ \A x \in 1..Len(AH) + Len(B) :
               (AH \o B)[x] = IF x <= Len(AH) THEN AH[x] ELSE B[x - Len(AH)]
      BY <2>4, <3>1, ConcatProperties
    <3>3. /\ Len(AH \o B) = m + h + q
          /\ \A x \in 1..(m + h + q) :
               (AH \o B)[x] = IF x <= m + h THEN AH[x] ELSE B[x - (m + h)]
      BY <2>4, <3>1, <3>2
    <3> QED BY <2>5, <3>3 DEF AH
  <2>9. ASSUME NEW x \in 1..(m + h + q)
        PROVE  \/ x \in 1..m /\ Trail(k)[x] = answers[k][x].to
               \/ x = m + 1 /\ h = 1 /\ Trail(k)[x] = io.req
               \/ x - (m + h) \in 1..q /\ Trail(k)[x] = inbox[k][x - (m + h)].msg
    <3>1. CASE x <= m
      <4>1. x \in 1..m /\ x \in 1..(m + h) /\ x <= m + h
        BY <2>1, <2>6, <2>9, <3>1
      <4> QED BY <2>2, <2>7, <2>8, <3>1, <4>1
    <3>2. CASE ~(x <= m) /\ x <= m + h
      <4>1. x = m + 1 /\ h = 1 /\ x \in 1..(m + h) /\ x - m = 1
        BY <2>1, <2>6, <2>9, <3>2
      <4> QED BY <2>3, <2>7, <2>8, <3>2, <4>1
    <3>3. CASE ~(x <= m + h)
      <4>1. x - (m + h) \in 1..q
        BY <2>1, <2>6, <2>9, <3>3
      <4> QED BY <2>4, <2>8, <3>3, <4>1
    <3> QED BY <3>1, <3>2, <3>3
  <2>10. InStream(k) /\ Answered(k) /\ InHandler
    BY DEF TrailInv
  <2>11. CASE i \in 1..m /\ Trail(k)[i] = answers[k][i].to
    <3>1. Trail(k)[i].on = k /\ i <= m
      BY <2>1, <2>10, <2>11 DEF Answered, Past, m
    <3>2. CASE j \in 1..m /\ Trail(k)[j] = answers[k][j].to
      BY <2>10, <2>11, <3>1, <3>2 DEF Answered, Past, Before, m
    <3>3. CASE h = 1 /\ Trail(k)[j] = io.req
      BY <2>6, <2>10, <2>11, <3>1, <3>3 DEF Answered, InHandler, Past, Before, m
    <3>4. CASE j - (m + h) \in 1..q /\ Trail(k)[j] = inbox[k][j - (m + h)].msg
      BY <2>10, <2>11, <3>1, <3>4 DEF Answered, InStream, Past, m, q
    <3> QED BY <2>8, <2>9, <3>1, <3>2, <3>3, <3>4 DEF m
  <2>12. CASE i = m + 1 /\ h = 1 /\ Trail(k)[i] = io.req
    <3>1. j - (m + h) \in 1..q /\ Trail(k)[j] = inbox[k][j - (m + h)].msg
      <4>1. j \in 1..(m + h + q) /\ ~(j \in 1..m) /\ j # m + 1
        BY <2>1, <2>8, <2>12
      <4> QED BY <2>9, <4>1
    <3>2. ~(i <= Len(answers[k]))
      BY <2>1, <2>12 DEF m
    <3>3. io.req.on = k /\ io.req.id < inbox[k][j - (m + h)].msg.id
      BY <2>6, <2>10, <2>12, <3>1 DEF InHandler, Past, q
    <3>4. io.req.id \in Nat /\ inbox[k][j - (m + h)].msg.id \in Nat
      <4>1. io.req \in Request
        BY <2>1, <2>12 DEF R
      <4>2. j - (m + h) \in 1..Len(inbox[k])
        BY <3>1 DEF q
      <4>3. inbox[k][j - (m + h)].msg.id \in Nat
        BY <2>1, <4>2, FragmentFacts
      <4> QED BY <4>1, <4>3 DEF Request
    <3>5. inbox[k][j - (m + h)].msg.on = k
      BY <2>10, <3>1 DEF InStream, q
    <3>6. io.req.id <= inbox[k][j - (m + h)].msg.id
      BY <3>3, <3>4
    <3> QED BY <2>12, <3>1, <3>2, <3>3, <3>5, <3>6
  <2>13. CASE i - (m + h) \in 1..q /\ Trail(k)[i] = inbox[k][i - (m + h)].msg
    <3>1. /\ j - (m + h) \in 1..q /\ Trail(k)[j] = inbox[k][j - (m + h)].msg
          /\ i - (m + h) < j - (m + h)
      BY <2>1, <2>6, <2>8, <2>9, <2>13
    <3>2. ~(i <= Len(answers[k]))
      BY <2>1, <2>6, <2>13 DEF m
    <3>3. inbox[k][i - (m + h)].msg.id \in Nat /\ inbox[k][j - (m + h)].msg.id \in Nat
      <4>1. i - (m + h) \in 1..Len(inbox[k]) /\ j - (m + h) \in 1..Len(inbox[k])
        BY <2>13, <3>1 DEF q
      <4> QED BY <2>1, <4>1, FragmentFacts
    <3>4. inbox[k][i - (m + h)].msg.on = k /\ inbox[k][j - (m + h)].msg.on = k
      BY <2>10, <2>13, <3>1 DEF InStream, q
    <3>5. inbox[k][i - (m + h)].msg.id <= inbox[k][j - (m + h)].msg.id
      <4> DEFINE x == i - (m + h)  y == j - (m + h)
      <4>1. x \in 1..Len(inbox[k]) /\ y \in 1..Len(inbox[k]) /\ x < y
        BY <2>13, <3>1 DEF q
      <4> HIDE DEF x, y
      <4>2. inbox[k][x].msg.id < inbox[k][y].msg.id \/ inbox[k][x].msg.id = inbox[k][y].msg.id
        BY <2>10, <4>1 DEF InStream
      <4> QED BY <3>3, <4>2 DEF x, y
    <3> QED BY <2>13, <3>1, <3>2, <3>4, <3>5
  <2> QED BY <2>8, <2>9, <2>11, <2>12, <2>13
<1> QED BY TrailInvariant, <1>1, PTL

-----------------------------------------------------------------------------
(* Who has mutex_, and so for whom a thread that wants it waits: the       *)
(* user's thread in the middle of RegisterService and of the destructor's  *)
(* body, the io thread while a service runs.                               *)
Owners ==
  /\ mutex_ = "main" <=> main \in {"inserting", "publishing", "stopping", "walking", "halting",
                                  "deregistering"}
  /\ mutex_ = "io" <=> io.step = "running"

(* Handlers take mutex_ when it is free, and keep it while a service runs. *)
LEMMA IoOwns == TypeOK /\ Owners /\ IoStep => Owners'
<1> SUFFICES ASSUME TypeOK, Owners, IoStep PROVE Owners'
  OBVIOUS
<1> USE DEF mainVars, memberVars
<1>s. ASSUME UNCHANGED <<main, mutex_>>, io.step # "running", io'.step # "running"
      PROVE  Owners'
  BY <1>s DEF Owners
<1>1. CASE HandleAcceptError \/ \E k \in Conns : HandleAccept(k) \/ HandleServerReadError(k)
  BY <1>1, <1>s DEF HandleAcceptError, HandleAccept, HandleServerReadError, MayRun
<1>2. ASSUME NEW k \in Conns, HandleServerRead(k) PROVE Owners'
  <2>1. PICK chunk \in Chunks(inbox[k]), kind \in Occurring : io' = OnMessage(k, chunk, kind)
    BY <1>2 DEF HandleServerRead
  <2>2. chunk \in Seq(Fragment(Request))
    <3>1. inbox[k] \in Seq(Fragment(Request))
      BY DEF TypeOK
    <3> QED BY <3>1, ChunkType
  <2>3. io'.step \in {"calling", "answering"}
    BY <2>1, <2>2, OnMessageType
  <2> QED BY <1>2, <1>s, <2>3 DEF HandleServerRead, MayRun
<1>3. CASE CallServiceMethod
  <2>1. io \in IoType /\ mutex_ = "free" /\ main' = main /\ mutex_' = "io"
    BY <1>3 DEF CallServiceMethod, IoWaits, TypeOK, IoType
  <2>2. io'.step = "running"
    BY <1>3, <2>1 DEF CallServiceMethod, IoType
  <2> QED BY <2>1, <2>2 DEF Owners
<1>4. CASE ServiceReturns
  <2>1. io \in IoType /\ mutex_ = "io" /\ main' = main /\ mutex_' = "free"
    BY <1>4 DEF ServiceReturns, Owners, TypeOK, IoType
  <2>2. io'.step = "answering"
    BY <1>4, <2>1 DEF ServiceReturns, IoType
  <2> QED BY <2>1, <2>2 DEF Owners
<1>5. CASE WriteResponse
  BY <1>5, <1>s DEF WriteResponse, Idle, Handler
<1> QED BY <1>1, <1>2, <1>3, <1>4, <1>5 DEF IoStep

(* RegisterService and the destructor take it when it is free, and unlock. *)
LEMMA MainOwns == TypeOK /\ Owners /\ MainStep => Owners'
BY DEF Owners, TypeOK, MainStep, MainGoes, MainMoves, MainWaits, RegisterService, InsertService,
   PublishService, Unlocked, SignalHandler, DestructorLocks, StopAcceptor, StopSockets, StopIo,
   StopRegistry, DestroyMembers, StopAgain, JoinIo, memberVars

(* Every step keeps mutex_ with its owner.                                 *)
LEMMA OwnersKept == Spec => []Owners
<1>1. Init => Owners
  BY DEF Init, Owners, Idle, Handler
<1>2. TypeOK /\ Owners /\ [Next]_vars => Owners'
  <2> SUFFICES ASSUME TypeOK, Owners, [Next]_vars PROVE Owners'
    OBVIOUS
  <2>1. CASE Client \/ SessionExpires
    BY <2>1 DEF Client, ClientConnects, ClientSends, ClientLeaves, SessionExpires, mainVars,
       memberVars, Owners
  <2>2. CASE UNCHANGED vars
    BY <2>2 DEF vars, mainVars, memberVars, Owners
  <2> QED BY <2>1, <2>2, NextSteps, IoOwns, MainOwns
<1> QED BY <1>1, <1>2, TypeCorrect, PTL DEF Spec

(* The destructor never waits for a thread that waits for it.  At its head *)
(* it waits for mutex_, and then the io thread has it and does not wait;   *)
(* at the join it waits for the handler, and by then it has unlocked       *)
(* mutex_, so that the handler finds it free or has it.                    *)
THEOREM LockSafety == Spec => []NoCircularWait
<1>1. TypeOK /\ Owners => NoCircularWait
  <2> SUFFICES ASSUME TypeOK, Owners, MainWaits(main), IoWaits PROVE FALSE
    BY DEF NoCircularWait
  <2>1. io.step = "calling" /\ mutex_ = "main"
    BY DEF IoWaits, Owners, TypeOK
  <2>2. main \in {"inserting", "publishing", "stopping", "walking", "halting", "deregistering"}
    BY <2>1 DEF Owners
  <2> QED BY <2>2 DEF MainWaits
<1> QED BY <1>1, TypeCorrect, OwnersKept, PTL
=============================================================================
