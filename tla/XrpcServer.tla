----------------------------- MODULE XrpcServer -----------------------------
(***************************************************************************)
(* One XrpcServer (core/server/xrpc_server.cc) over the server half of     *)
(* AsioTransport, as the main of examples/server/user_server.cc uses it.   *)
(*                                                                         *)
(* Two threads: the user's (main), which registers services, waits for a   *)
(* signal and destroys the server, and the io thread, which runs one       *)
(* completion handler at a time (io).  mutex_ is held by RegisterService,  *)
(* by CallServiceMethod around the service, and by the destructor's body.  *)
(*                                                                         *)
(* fate records what ends the process at once.  An exception that leaves a *)
(* handler leaves io_context_->run() and terminates it; boost::asio::write *)
(* and remote_endpoint() throw on a socket that Stop has closed or that    *)
(* its peer has reset.  "undefined": a handler meets the user's thread in  *)
(* a container that nothing guards, or uses a member already destroyed.    *)
(***************************************************************************)
EXTENDS Wire

CONSTANTS
  Conns,       \* the connections clients may make
  Services,    \* names a request may ask for, registered or not
  Occurring,   \* the kinds of requests that occur
  NoService, NoConn, NoRequest,
  MaxRequests  \* bound on the requests sent

(* What a request turns out to be when it is handled: its header says      *)
(* cancelled, its method is unknown, its arguments do not parse; or its    *)
(* service succeeds, reports a failure (SetFailed, or an exception),       *)
(* leaves a response that cannot be serialized, or calls this same server  *)
(* and waits for the answer.                                               *)
Kinds == {"cancelled", "noMethod", "badArgs", "ok", "fails", "unserializable", "nested"}

(* announced: when the request was sent, the registry held what this       *)
(* server wrote of the service.  (A node that a server before a restart    *)
(* left announces nothing here: whoever follows it may be told "Service    *)
(* not found".)                                                            *)
Request == [id : 1..MaxRequests, on : Conns, service : Services, announced : BOOLEAN]

ASSUME ServerAssumption ==
  /\ Occurring \subseteq Kinds
  /\ NoService \notin Services /\ NoConn \notin Conns /\ NoRequest \notin Request
  /\ MaxRequests \in Nat

VARIABLES
  main,       \* position of the user's thread
  entry,      \* the service RegisterService is at
  mutex_, services_,
  alive,      \* FALSE once mutex_ and services_ are destroyed
  written,    \* services whose node in ZooKeeper holds what this server wrote
  acceptor, accepting, \* server_acceptor_ is open; an async_accept is pending
  stopped,    \* io_context_->stop() has been called
  io,         \* the handler the io thread is in
  fate,
  peer,       \* peer[k]: the client's end of connection k
  sock,       \* sock[k]: the server's end
  server_sockets_,
  reading,    \* connections with a pending async_read_some
  inbox,      \* inbox[k]: bytes the client of k sent and nobody read
  sent,       \* number of requests sent
  answers,    \* answers[k]: what was written to k
  ran         \* requests a service was called for

mainVars   == <<main, entry>>
memberVars == <<mutex_, services_, alive, written>>
acceptVars == <<acceptor, accepting>>
sockVars   == <<sock, server_sockets_, reading>>
clientVars == <<peer, inbox, sent>>
vars == <<mainVars, memberVars, acceptVars, stopped, io, fate, sockVars, clientVars,
          answers, ran>>

Answer == [to : Request \union {NoRequest}, code : 0..6]

Exiting == main \notin {"serving", "inserting", "publishing"}
Handler(step, k, r, kind, code) ==
  [step |-> step, conn |-> k, req |-> r, kind |-> kind, code |-> code]
Idle == Handler("idle", NoConn, NoRequest, "ok", 0)

TypeOK ==
  /\ main \in {"serving", "inserting", "publishing", "exiting", "stopping", "walking",
               "halting", "deregistering", "released", "restopping", "joining", "gone"}
  /\ entry \in Services \union {NoService}
  /\ mutex_ \in {"free", "main", "io"}
  /\ services_ \subseteq Services /\ written \subseteq Services
  /\ alive \in BOOLEAN /\ stopped \in BOOLEAN
  /\ acceptor \in BOOLEAN /\ accepting \in BOOLEAN
  /\ io \in [step : {"idle", "calling", "running", "answering"}, conn : Conns \union {NoConn},
             req : Request \union {NoRequest}, kind : Kinds, code : 0..6]
  /\ fate \in {"fine", "terminated", "undefined"}
  /\ peer \in [Conns -> {"none", "connected", "finished", "reset"}]
  /\ sock \in [Conns -> {"none", "open", "closed"}]
  /\ server_sockets_ \subseteq Conns /\ reading \subseteq Conns
  /\ inbox \in [Conns -> Seq(Fragment(Request))]
  /\ sent \in 0..MaxRequests
  /\ answers \in [Conns -> Seq(Answer)]
  /\ ran \subseteq Request

(* The state behind the constructor: StartServer already accepts clients,  *)
(* also those that found a node of a server that ran here before.  Such    *)
(* nodes are no state of their own: PublishService may come upon one.      *)
Init ==
  /\ main = "serving" /\ entry = NoService
  /\ mutex_ = "free" /\ services_ = {} /\ alive = TRUE /\ written = {}
  /\ acceptor = TRUE /\ accepting = TRUE /\ stopped = FALSE
  /\ io = Idle /\ fate = "fine"
  /\ peer = [k \in Conns |-> "none"] /\ sock = [k \in Conns |-> "none"]
  /\ server_sockets_ = {} /\ reading = {}
  /\ inbox = [k \in Conns |-> <<>>] /\ sent = 0
  /\ answers = [k \in Conns |-> <<>>] /\ ran = {}

-----------------------------------------------------------------------------
(* Clients                                                                 *)

ClientConnects(k) ==
  /\ acceptor
  /\ peer[k] = "none"
  /\ peer' = [peer EXCEPT ![k] = "connected"]
  /\ UNCHANGED <<mainVars, memberVars, acceptVars, stopped, io, fate, sockVars, inbox, sent,
                 answers, ran>>

ClientSends(k) ==
  /\ peer[k] = "connected"
  /\ sent < MaxRequests
  /\ sent' = sent + 1
  /\ \E s \in Services :
       inbox' = [inbox EXCEPT ![k] = @ \o Fragments(
         [id |-> sent + 1, on |-> k, service |-> s, announced |-> s \in written])]
  /\ UNCHANGED <<mainVars, memberVars, acceptVars, stopped, io, fate, sockVars, peer,
                 answers, ran>>

(* The client closes; with answers unread, or by dying, it resets instead. *)
ClientLeaves(k) ==
  /\ peer[k] = "connected"
  /\ \E how \in {"finished", "reset"} : peer' = [peer EXCEPT ![k] = how]
  /\ UNCHANGED <<mainVars, memberVars, acceptVars, stopped, io, fate, sockVars, inbox, sent,
                 answers, ran>>

(* ZooKeeper gives up a session and deletes its nodes: this server's, or   *)
(* the one of a server that ran here before, whose nodes Register found    *)
(* and only rewrote.                                                       *)
SessionExpires ==
  /\ \E lost \in SUBSET written \ {{}} : written' = written \ lost
  /\ UNCHANGED <<mainVars, mutex_, services_, alive, acceptVars, stopped, io, fate, sockVars,
                 clientVars, answers, ran>>

-----------------------------------------------------------------------------
(* The io thread                                                           *)

MayRun == io.step = "idle" /\ ~stopped

(* remote_endpoint() throws, and so does a write.                          *)
(* BrokenAtEof: mutant that closes the socket before it logs the end.      *)
BrokenAtEof(k) == sock[k] = "closed" \/ peer[k] \in {"finished", "reset"}
Broken(k) == sock[k] = "closed" \/ peer[k] = "reset"

(* Stop is walking through server_sockets_ without a lock.                 *)
SocketsRaced == main = "walking"

(* The fate of a handler that logs the peer of k and changes the set.      *)
Touched(k) ==
  IF Broken(k) THEN "terminated" ELSE IF SocketsRaced THEN "undefined" ELSE fate

(* HandleAccept keeps the socket for Stop, HandleServerRead forgets it.    *)
(* ForgetsNothing: mutant without the erase, a leak.                       *)
ForgetsNothing(k) == server_sockets_
Forgets(k) == server_sockets_ \ {k}

(* HandleAccept, and the DoAccept at its end.  It also runs behind Stop,   *)
(* for a connection that had been accepted before.                         *)
HandleAccept(k) ==
  /\ MayRun /\ accepting
  /\ peer[k] # "none" /\ sock[k] = "none"
  /\ fate' = Touched(k)
  /\ sock' = [sock EXCEPT ![k] = "open"]
  /\ server_sockets_' = server_sockets_ \union {k}
  /\ reading' = reading \union {k}
  /\ accepting' = acceptor
  /\ UNCHANGED <<mainVars, memberVars, acceptor, stopped, io, clientVars, answers, ran>>

HandleAcceptError ==
  /\ MayRun /\ accepting /\ ~acceptor
  /\ accepting' = FALSE
  /\ UNCHANGED <<mainVars, memberVars, acceptor, stopped, io, fate, sockVars, clientVars,
                 answers, ran>>

(* OnMessage up to the call of the service: the checks in their order.     *)
OnMessage(k, chunk, kind) ==
  LET r == Decoded(chunk)
      Refuse(code) == Handler("answering", k, r, "ok", code)
  IN IF ~Decodes(chunk)                THEN Handler("answering", k, NoRequest, "ok", 1)
     ELSE IF kind = "cancelled"        THEN Refuse(5)
     ELSE IF r.service \notin services_ THEN Refuse(2)
     ELSE IF kind = "noMethod"         THEN Refuse(3)
     ELSE IF kind = "badArgs"          THEN Refuse(4)
     ELSE Handler("calling", k, r, kind, 0)

(* services_ is read without mutex_: while RegisterService inserts, or     *)
(* after the members are gone, anything may happen.                        *)
LooksUp(chunk, kind) == Decodes(chunk) /\ kind # "cancelled"
ServicesRaced == main = "inserting" \/ ~alive

HandleServerRead(k) ==
  /\ MayRun
  /\ k \in reading
  /\ \E chunk \in Chunks(inbox[k]), kind \in Occurring :
       /\ inbox' = [inbox EXCEPT ![k] = After(@, chunk)]
       /\ io' = OnMessage(k, chunk, kind)
       /\ fate' = IF LooksUp(chunk, kind) /\ ServicesRaced THEN "undefined" ELSE fate
  /\ reading' = reading \ {k}
  /\ UNCHANGED <<mainVars, memberVars, acceptVars, stopped, sock, server_sockets_, peer, sent,
                 answers, ran>>

(* CallServiceMethod takes mutex_ (or waits for it), and holds it while    *)
(* the service runs.  Its second lookup finds the service: nothing ever    *)
(* leaves services_.  A nested call never returns: the answer it waits for *)
(* would come from this io thread.                                         *)
IoWaits == io.step = "calling" /\ mutex_ # "free"

CallServiceMethod ==
  /\ io.step = "calling" /\ ~IoWaits
  /\ mutex_' = "io"
  /\ io' = [io EXCEPT !.step = "running"]
  /\ ran' = ran \union {io.req}
  /\ fate' = IF alive THEN fate ELSE "undefined"
  /\ UNCHANGED <<mainVars, services_, alive, written, acceptVars, stopped, sockVars,
                 clientVars, answers>>

(* VerdictByEnum: mutant that reports failures as ErrorCode::SERVER_ERROR. *)
VerdictByEnum(kind) ==
  CASE kind = "fails" -> 3 [] kind = "unserializable" -> 6 [] OTHER -> 0
Verdict(kind) ==
  CASE kind = "fails" -> 5 [] kind = "unserializable" -> 6 [] OTHER -> 0

Stuck == io.step = "running" /\ io.kind = "nested"

ServiceReturns ==
  /\ io.step = "running" /\ ~Stuck
  /\ mutex_' = "free"
  /\ io' = [io EXCEPT !.step = "answering", !.code = Verdict(io.kind)]
  /\ UNCHANGED <<mainVars, services_, alive, written, acceptVars, stopped, fate,
                 sockVars, clientVars, answers, ran>>

(* WrittenTwice: mutant that repeats a write it should continue.           *)
WrittenTwice(k) ==
  answers[k] \o <<[to |-> io.req, code |-> io.code], [to |-> io.req, code |-> io.code]>>
Written(k) == Append(answers[k], [to |-> io.req, code |-> io.code])

(* The end of HandleServerRead: write the response, read again.  A client  *)
(* that has closed answers the write with a reset.                         *)
WriteResponse ==
  LET k == io.conn IN
  /\ io.step = "answering"
  /\ fate' = IF Broken(k) THEN "terminated" ELSE fate
  /\ answers' = [answers EXCEPT ![k] = Written(k)]
  /\ peer' = [peer EXCEPT ![k] = IF @ = "finished" THEN "reset" ELSE @]
  /\ reading' = reading \union {k}
  /\ io' = Idle
  /\ UNCHANGED <<mainVars, memberVars, acceptVars, stopped, sock, server_sockets_, inbox, sent,
                 ran>>

(* The read fails: end of file, reset, or Stop closed the socket.  The log *)
(* line asks for the address of the peer.                                  *)
HandleServerReadError(k) ==
  /\ MayRun
  /\ k \in reading
  /\ sock[k] = "closed" \/ (inbox[k] = <<>> /\ peer[k] \in {"finished", "reset"})
  /\ fate' = Touched(k)
  /\ sock' = [sock EXCEPT ![k] = "closed"]
  /\ server_sockets_' = Forgets(k)
  /\ reading' = reading \ {k}
  /\ UNCHANGED <<mainVars, memberVars, acceptVars, stopped, io, clientVars, answers, ran>>

-----------------------------------------------------------------------------
(* The user's thread.  No step of it touches a handler or a client.        *)

(* What it may have to wait for: mutex_ at the head of the destructor, and *)
(* the handler of the io thread when it joins.  (RegisterService waits for *)
(* mutex_ too, but with nothing in its hands.)                             *)
(* StopWaits: mutant in which Stop also waits for that handler.            *)
StopWaits(p) ==
  \/ p = "exiting" /\ mutex_ # "free"
  \/ p \in {"halting", "joining"} /\ io.step # "idle"
MainWaits(p) ==
  \/ p = "exiting" /\ mutex_ # "free"
  \/ p = "joining" /\ io.step # "idle"

MainMoves(from, to) ==
  /\ main = from /\ ~MainWaits(from)
  /\ main' = to
  /\ UNCHANGED <<accepting, io, reading, clientVars, answers, ran>>

MainGoes(from, to) == MainMoves(from, to) /\ UNCHANGED fate

RegisterService(s) ==
  /\ MainGoes("serving", "inserting")
  /\ s \notin services_
  /\ mutex_ = "free" /\ mutex_' = "main"
  /\ entry' = s
  /\ UNCHANGED <<services_, alive, written, acceptor, stopped, sock, server_sockets_>>

InsertService ==
  /\ MainGoes("inserting", "publishing")
  /\ services_' = services_ \union {entry}
  /\ UNCHANGED <<entry, mutex_, alive, written, acceptor, stopped, sock, server_sockets_>>

(* zk_client_->Register.  It may throw, with the node written or not: the  *)
(* service stays in services_, and a user who catches the exception goes   *)
(* on without the registry.                                                *)
(* UnlockSkipped: mutant, a manual unlock that the exception skips.        *)
UnlockSkipped(ok) == IF ok THEN "free" ELSE "main"
Unlocked(ok) == "free"

(* PublishRollsBack: mutant that takes a service out again when Register   *)
(* throws, though its node may be there.                                   *)
PublishRollsBack ==
  /\ MainGoes("publishing", "serving")
  /\ \E ok, reached \in BOOLEAN :
       /\ ok => reached
       /\ written' = IF reached THEN written \union {entry} ELSE written
       /\ services_' = IF ok THEN services_ ELSE services_ \ {entry}
       /\ mutex_' = Unlocked(ok)
  /\ entry' = NoService
  /\ UNCHANGED <<alive, acceptor, stopped, sock, server_sockets_>>

PublishService ==
  /\ MainGoes("publishing", "serving")
  /\ \E ok, reached \in BOOLEAN :
       /\ ok => reached
       /\ written' = IF reached THEN written \union {entry} ELSE written
       /\ mutex_' = Unlocked(ok)
  /\ entry' = NoService
  /\ UNCHANGED <<services_, alive, acceptor, stopped, sock, server_sockets_>>

(* SIGINT or SIGTERM: main returns, ~XrpcServer waits for mutex_, ...      *)
SignalHandler ==
  /\ MainGoes("serving", "exiting")
  /\ UNCHANGED <<entry, memberVars, acceptor, stopped, sock, server_sockets_>>

DestructorLocks ==
  /\ MainGoes("exiting", "stopping")
  /\ mutex_' = "main"
  /\ UNCHANGED <<entry, services_, alive, written, acceptor, stopped, sock, server_sockets_>>

(* ... calls Stop, which closes the acceptor, closes and forgets the       *)
(* sockets, and stops the io thread behind the handler it is in, ...       *)
StopAcceptor ==
  /\ MainGoes("stopping", "walking")
  /\ acceptor' = FALSE
  /\ UNCHANGED <<entry, memberVars, stopped, sock, server_sockets_>>

StopSockets ==
  /\ MainGoes("walking", "halting")
  /\ sock' = [k \in Conns |-> IF k \in server_sockets_ THEN "closed" ELSE sock[k]]
  /\ server_sockets_' = {}
  /\ UNCHANGED <<entry, memberVars, acceptor, stopped>>

StopIo ==
  /\ MainGoes("halting", "deregistering")
  /\ stopped' = TRUE
  /\ UNCHANGED <<entry, memberVars, acceptor, sock, server_sockets_>>

(* ... stops the registry client, whose nodes go with its session (those   *)
(* of an earlier session stay), and unlocks mutex_.                        *)
StopRegistry ==
  /\ MainGoes("deregistering", "released")
  /\ written' \in SUBSET written
  /\ mutex_' = "free"
  /\ UNCHANGED <<entry, services_, alive, acceptor, stopped, sock, server_sockets_>>

(* Members go in the reverse of their order: mutex_ and services_ before   *)
(* transport_.  A handler that waited for mutex_ may have it by now, and   *)
(* run a service under it.                                                 *)
DestroyMembers ==
  /\ MainMoves("released", "restopping")
  /\ alive' = FALSE
  /\ fate' = IF mutex_ = "io" THEN "undefined" ELSE fate
  /\ UNCHANGED <<entry, mutex_, services_, written, acceptor, stopped, sock, server_sockets_>>

(* ~AsioTransport: Stop again, which finds the connections accepted since  *)
(* the first time, and the join with the io thread.  (The handler that     *)
(* thread may still be in is behind its read and leaves the set alone.)    *)
(* JoinsOnly: mutant, a destructor that only joins.                        *)
JoinsOnly ==
  /\ MainGoes("restopping", "joining")
  /\ UNCHANGED <<entry, memberVars, acceptor, stopped, sock, server_sockets_>>

StopAgain ==
  /\ MainGoes("restopping", "joining")
  /\ sock' = [k \in Conns |-> IF k \in server_sockets_ THEN "closed" ELSE sock[k]]
  /\ server_sockets_' = {}
  /\ UNCHANGED <<entry, memberVars, acceptor, stopped>>

JoinIo ==
  /\ MainGoes("joining", "gone")
  /\ UNCHANGED <<entry, memberVars, acceptor, stopped, sock, server_sockets_>>

-----------------------------------------------------------------------------
Client == \E k \in Conns : ClientConnects(k) \/ ClientSends(k) \/ ClientLeaves(k)

IoStep ==
  \/ \E k \in Conns : HandleAccept(k) \/ HandleServerRead(k) \/ HandleServerReadError(k)
  \/ HandleAcceptError
  \/ CallServiceMethod \/ ServiceReturns
  \/ WriteResponse

Continue ==
  \/ InsertService \/ PublishService
  \/ DestructorLocks \/ StopAcceptor \/ StopSockets \/ StopIo \/ StopRegistry
  \/ DestroyMembers \/ StopAgain \/ JoinIo

Next ==
  /\ fate = "fine"
  /\ \/ Client
     \/ SessionExpires
     \/ IoStep
     \/ Continue
     \/ SignalHandler
     \/ \E s \in Services : RegisterService(s)

(* The io thread runs what is queued, a method the user is in goes on.     *)
Fairness == WF_vars(fate = "fine" /\ IoStep) /\ WF_vars(fate = "fine" /\ Continue)

Spec == Init /\ [][Next]_vars
FairSpec == Spec /\ Fairness
-----------------------------------------------------------------------------
(* A service that this server had entered in the registry when a request   *)
(* for it was sent is never answered with "Service not found": it is in    *)
(* services_ before the registry hears of it, and stays there though       *)
(* Register throws or an old session takes the node along.                 *)
DiscoveredIsFound ==
  \A k \in Conns : \A i \in 1..Len(answers[k]) :
    answers[k][i].code = 2 => ~answers[k][i].to.announced

(* An answer tells whether the service was called: with codes 1 to 4 it    *)
(* was not, with 0 and 6 it was.  (Code 5 stands for CANCELLED and for the *)
(* failure of a service: it tells nothing.)                                *)
AnswersTell ==
  \A k \in Conns : \A i \in 1..Len(answers[k]) :
    LET a == answers[k][i] IN
    /\ a.code \in 1..4 => a.to \notin ran
    /\ a.code \in {0, 6} => a.to \in ran

(* On each connection answers come in the order of the requests, each to   *)
(* one request of that connection, none twice; the one being handled and   *)
(* those still in the stream come later.                                   *)
Trail(k) ==
  [i \in 1..Len(answers[k]) |-> answers[k][i].to]
    \o (IF io.conn = k THEN <<io.req>> ELSE <<>>)
    \o [i \in 1..Len(inbox[k]) |-> inbox[k][i].msg]

AnsweredInOrder ==
  \A k \in Conns : \A i, j \in 1..Len(Trail(k)) :
    LET r == Trail(k)[i]  s == Trail(k)[j] IN
    i < j /\ r # NoRequest /\ s # NoRequest =>
      /\ r.on = k /\ s.on = k
      /\ IF i <= Len(answers[k]) THEN r.id < s.id ELSE r.id <= s.id

(* Stop can close every connection, and a connection that is gone leaves   *)
(* nothing behind: server_sockets_ holds the connections with a read       *)
(* pending or a handler at work, until Stop clears it.                     *)
SocketsTracked ==
  fate = "fine" /\ main \notin {"halting", "deregistering", "released", "restopping",
                               "joining", "gone"} =>
    server_sockets_ = reading \union ({io.conn} \ {NoConn})

(* A client that closes with nothing outstanding never hurts the server:   *)
(* only a reset, or the server's own exit, makes a handler throw.  (The    *)
(* exit does: Stop closes sockets under handlers that then ask them for    *)
(* their remote_endpoint().)                                               *)
OnlyResetsTerminate ==
  fate = "terminated" => Exiting \/ \E k \in Conns : peer[k] = "reset"

(* A client is not left with a connection that nobody serves: one that was *)
(* accepted behind the walk of Stop is closed too before the io thread is  *)
(* joined, whatever that thread was doing in the meantime.                 *)
NoConnectionLeft == main = "gone" => \A k \in Conns : sock[k] # "open"

(* The two threads do not wait for each other: when the destructor waits,  *)
(* for mutex_ or for a handler to end, the io thread does not wait for     *)
(* mutex_.                                                                 *)
NoCircularWait == ~(MainWaits(main) /\ IoWaits)

(* A client that stays gets its request read, unless the server exits or   *)
(* a service calls its own server and so waits for the one thread that     *)
(* could answer.  In particular the mutex_ that RegisterService holds      *)
(* while it talks to ZooKeeper comes free.                                 *)
OnlyNestedStalls ==
  \A k \in Conns :
    inbox[k] # <<>> ~>
      inbox[k] = <<>> \/ Stuck \/ Exiting \/ fate # "fine"

(* The destructor comes to its end: what it waits for (mutex_, then the io *)
(* thread) does not wait for it.                                           *)
ExitCompletes ==
  main = "exiting" ~> main = "gone" \/ Stuck \/ fate # "fine"
=============================================================================
