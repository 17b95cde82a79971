---------------------------- MODULE XrpcChannel ----------------------------
(***************************************************************************)
(* One XrpcChannel: CallMethod (core/channel/xrpc_channel.cc) over the     *)
(* client half of AsioTransport (transport/asio_transport.cc), with the    *)
(* connection and the servers at its other end.                            *)
(*                                                                         *)
(* Actors: the threads inside CallMethod, the io thread that runs the      *)
(* completion handlers of io_context_, users who cancel or destroy the     *)
(* channel, servers that answer, crash and restart.                        *)
(*                                                                         *)
(* Locks.  mutex_ and socket_mutex_ are held together during Connect, Send *)
(* and SendAsync.  Only Send blocks while it holds them: it polls          *)
(* io_context_ until the answer is in.  So every other critical section is *)
(* one step, guarded by pollOwner = NoCall, and pollOwner is the call      *)
(* whose Send is polling.  Completion handlers take neither lock.          *)
(*                                                                         *)
(* client_socket_ is opened once: a socket whose connect failed, or whose  *)
(* peer has gone, is still is_open(), so Connect leaves it alone.          *)
(***************************************************************************)
EXTENDS Wire

CONSTANTS
  Calls,       \* the calls made on this channel
  SyncCalls,   \* those made with done = nullptr
  NoCall,
  Servers,     \* addresses the registry may return
  NoServer,
  Concurrent   \* FALSE: callers wait for one call to end before the next

ASSUME ChannelAssumption ==
  /\ SyncCalls \subseteq Calls
  /\ NoCall \notin Calls
  /\ NoServer \notin Servers
  /\ Concurrent \in BOOLEAN

VARIABLES
  stage,       \* stage[c]: how far CallMethod got for call c
  result,      \* result[c]: "none" until c has ended, then how it ended
  answer,      \* answer[c]: whose response c was completed with
  completions, \* completions[c]: runs of done (async), returns (sync)
  target,      \* target[c]: the address the registry gave for c
  canceled,    \* canceled[c]: canceled_ of c's controller
  chan,        \* "open", "closing" (Stop closed the socket) or "stopped"
  socket,      \* state of client_socket_
  peer,        \* the server it was connected to
  pollOwner, response_, response_received_,
  writes,      \* async_writes that completed, handlers not yet run
  reads,       \* pending async_read_some, oldest first
  c2s, s2c,    \* bytes in flight to the server and to the client
  up,          \* servers that run
  served       \* requests a server has decoded and answered

callVars == <<stage, result, answer, completions>>
userVars == <<target, canceled, chan>>
linkVars == <<socket, peer>>
pollVars == <<pollOwner, response_, response_received_>>
netVars  == <<c2s, s2c, up, served>>
vars == <<callVars, userVars, linkVars, pollVars, writes, reads, netVars>>

Stages == {"idle", "resolved", "connected", "ready", "polling", "pending", "finished"}

Failures == {"notFound", "connectionFailed", "canceledBeforeSending", "sendFailed",
             "canceled", "undecodable", "serviceError"}

Response == [call : Calls \union {NoCall}, ok : BOOLEAN]

TypeOK ==
  /\ stage \in [Calls -> Stages]
  /\ result \in [Calls -> Failures \union {"none", "ok"}]
  /\ answer \in [Calls -> Calls \union {NoCall}]
  /\ completions \in [Calls -> Nat]
  /\ target \in [Calls -> Servers \union {NoServer}]
  /\ canceled \in [Calls -> BOOLEAN]
  /\ chan \in {"open", "closing", "stopped"}
  /\ socket \in {"none", "connected", "failed", "broken", "closed"}
  /\ peer \in Servers \union {NoServer}
  /\ pollOwner \in SyncCalls \union {NoCall}
  /\ response_ \in Seq(Fragment(Response))
  /\ response_received_ \in BOOLEAN
  /\ writes \in Seq([call : Calls, ok : BOOLEAN])
  /\ reads \in Seq(Calls)
  /\ c2s \in Seq(Fragment(Calls))
  /\ s2c \in Seq(Fragment(Response))
  /\ up \subseteq Servers
  /\ served \subseteq Calls

Init ==
  /\ stage = [c \in Calls |-> "idle"]
  /\ result = [c \in Calls |-> "none"]
  /\ answer = [c \in Calls |-> NoCall]
  /\ completions = [c \in Calls |-> 0]
  /\ target = [c \in Calls |-> NoServer]
  /\ canceled = [c \in Calls |-> FALSE]
  /\ chan = "open"
  /\ socket = "none" /\ peer = NoServer
  /\ pollOwner = NoCall /\ response_ = <<>> /\ response_received_ = FALSE
  /\ writes = <<>> /\ reads = <<>>
  /\ c2s = <<>> /\ s2c = <<>>
  /\ up = Servers
  /\ served = {}

-----------------------------------------------------------------------------
(* Steps of the threads inside CallMethod                                  *)

InCallMethod(c) == stage[c] \in {"resolved", "connected", "ready", "polling"}
Advance(c, s) ==
  /\ stage' = [stage EXCEPT ![c] = s]
  /\ UNCHANGED <<result, answer, completions>>

(* The call ends: SetFailed unless r = "ok", then done->Run() or return.   *)
Finish(c, r, from) ==
  /\ stage' = [stage EXCEPT ![c] = "finished"]
  /\ result' = [result EXCEPT ![c] = r]
  /\ answer' = [answer EXCEPT ![c] = from]
  /\ completions' = [completions EXCEPT ![c] = @ + 1]

(* The tail of a call that has a response buffer: decode, look at status.  *)
FinishWith(c, buffer) ==
  \/ /\ ~Decodes(buffer)
     /\ Finish(c, "undecodable", NoCall)
  \/ /\ Decodes(buffer)
     /\ Finish(c, IF Decoded(buffer).ok THEN "ok" ELSE "serviceError", Decoded(buffer).call)

MayStart(c) ==
  /\ chan = "open"
  /\ stage[c] = "idle"
  /\ Concurrent \/ \A d \in Calls \ {c} : stage[d] \in {"idle", "finished"}

GetServiceAddress(c) ==
  /\ MayStart(c)
  /\ \/ \E s \in Servers : target' = [target EXCEPT ![c] = s] /\ Advance(c, "resolved")
     \/ Finish(c, "notFound", NoCall) /\ UNCHANGED target
  /\ UNCHANGED <<canceled, chan, linkVars, pollVars, writes, reads, netVars>>

Connect(c) ==
  /\ stage[c] = "resolved"
  /\ pollOwner = NoCall
  /\ \/ /\ socket # "none"
        /\ Advance(c, "connected")
        /\ UNCHANGED linkVars
     \/ /\ socket = "none"
        /\ target[c] \in up
        /\ socket' = "connected"
        /\ peer' = target[c]
        /\ Advance(c, "connected")
     \/ /\ socket = "none"
        /\ target[c] \notin up
        /\ socket' = "failed"
        /\ Finish(c, "connectionFailed", NoCall)
        /\ UNCHANGED peer
  /\ UNCHANGED <<userVars, pollVars, writes, reads, netVars>>

(* What a write of a request can report.  The first write after the peer   *)
(* has closed still succeeds; its bytes go nowhere.                        *)
WriteReports == CASE socket = "connected" -> {TRUE}
                  [] socket = "broken"    -> BOOLEAN
                  [] OTHER                -> {FALSE}

PutOnWire(c) == c2s' = IF socket = "connected" THEN c2s \o Fragments(c) ELSE c2s

(* CheckCanceledLate: mutant that looks at the flag after the write.       *)
CheckCanceledLate(c) ==
  /\ stage[c] = "connected"
  /\ canceled[c]
  /\ PutOnWire(c)
  /\ Finish(c, "canceledBeforeSending", NoCall)
  /\ UNCHANGED <<userVars, linkVars, pollVars, writes, reads, s2c, up, served>>

CheckCanceled(c) ==
  /\ stage[c] = "connected"
  /\ IF canceled[c]
       THEN Finish(c, "canceledBeforeSending", NoCall)
       ELSE Advance(c, "ready")
  /\ UNCHANGED <<userVars, linkVars, pollVars, writes, reads, netVars>>

SendAsync(c) ==
  /\ stage[c] = "ready"
  /\ c \notin SyncCalls
  /\ pollOwner = NoCall
  /\ PutOnWire(c)
  /\ \E ok \in WriteReports : writes' = Append(writes, [call |-> c, ok |-> ok])
  /\ Advance(c, "pending")
  /\ UNCHANGED <<userVars, linkVars, pollVars, reads, s2c, up, served>>

(* SendStale: mutant that leaves response_received_ from the last Send.    *)
SendStale(c) ==
  /\ stage[c] = "ready"
  /\ c \in SyncCalls
  /\ pollOwner = NoCall
  /\ PutOnWire(c)
  /\ TRUE \in WriteReports
  /\ pollOwner' = c
  /\ reads' = Append(reads, c)
  /\ Advance(c, "polling")
  /\ UNCHANGED <<userVars, linkVars, response_, response_received_, writes, s2c, up, served>>

Send(c) ==
  /\ stage[c] = "ready"
  /\ c \in SyncCalls
  /\ pollOwner = NoCall
  /\ PutOnWire(c)
  /\ response_received_' = FALSE
  /\ \/ /\ TRUE \in WriteReports
        /\ pollOwner' = c
        /\ reads' = Append(reads, c)
        /\ Advance(c, "polling")
     \/ /\ FALSE \in WriteReports
        /\ Finish(c, "sendFailed", NoCall)
        /\ UNCHANGED <<pollOwner, reads>>
  /\ UNCHANGED <<userVars, linkVars, response_, writes, s2c, up, served>>

(* SendReturnsLocked: mutant, a manual lock that this path forgets.        *)
SendReturnsLocked(c) ==
  /\ stage[c] = "polling"
  /\ response_received_
  /\ FinishWith(c, response_)
  /\ UNCHANGED <<userVars, linkVars, pollVars, writes, reads, netVars>>

SendReturns(c) ==
  /\ stage[c] = "polling"
  /\ response_received_
  /\ pollOwner' = NoCall
  /\ FinishWith(c, response_)
  /\ UNCHANGED <<userVars, linkVars, response_, response_received_, writes, reads, netVars>>

-----------------------------------------------------------------------------
(* Completion handlers, run by the io thread, and by Send while it polls   *)

(* Handlers start in the order of their completions.  While Send polls,    *)
(* two threads run them and the second may overtake the first.             *)
(* RunnableAny: mutant, io_context_ run by a pool of threads.              *)
RunnableAny(queue) == 1..Len(queue)
Runnable(queue) ==
  {i \in 1..Len(queue) : i = 1 \/ (i = 2 /\ pollOwner # NoCall)}

Without(queue, i) == SubSeq(queue, 1, i - 1) \o SubSeq(queue, i + 1, Len(queue))

(* The write handler: start the read of the answer, or report the failure. *)
(* HandleWriteNoReturn: mutant without the return behind the failure.      *)
HandleWriteNoReturn(i) ==
  LET c == writes[i].call IN
  /\ writes' = Without(writes, i)
  /\ reads' = Append(reads, c)
  /\ IF writes[i].ok
       THEN UNCHANGED callVars
       ELSE Finish(c, "sendFailed", NoCall)
  /\ UNCHANGED <<userVars, linkVars, pollVars, netVars>>

HandleWrite(i) ==
  LET c == writes[i].call IN
  /\ writes' = Without(writes, i)
  /\ \/ /\ writes[i].ok
        /\ reads' = Append(reads, c)
        /\ UNCHANGED callVars
     \/ /\ ~writes[i].ok
        /\ Finish(c, "sendFailed", NoCall)
        /\ UNCHANGED reads
  /\ UNCHANGED <<userVars, linkVars, pollVars, netVars>>

RunWriteHandler ==
  /\ chan # "stopped"
  /\ \E i \in Runnable(writes) : HandleWrite(i)

(* Bytes arrive for the oldest pending read.                               *)
TakeChunk(chunk) ==
  /\ chan # "stopped"
  /\ reads # <<>>
  /\ socket \in {"connected", "broken"}
  /\ chunk \in Chunks(s2c)
  /\ s2c' = After(s2c, chunk)
  /\ reads' = Tail(reads)
  /\ UNCHANGED <<userVars, linkVars, writes, c2s, up, served>>

HandleClientRead ==
  \E chunk \in Chunks(s2c) :
    /\ TakeChunk(chunk)
    /\ Head(reads) \in SyncCalls
    /\ response_' = chunk
    /\ response_received_' = TRUE
    /\ UNCHANGED <<callVars, pollOwner>>

HandleClientAsyncRead ==
  \E chunk \in Chunks(s2c) :
    /\ TakeChunk(chunk)
    /\ Head(reads) \notin SyncCalls
    /\ IF canceled[Head(reads)]
         THEN Finish(Head(reads), "canceled", NoCall)
         ELSE FinishWith(Head(reads), chunk)
    /\ UNCHANGED pollVars

(* The oldest pending read fails: Stop closed the socket, or the peer has  *)
(* gone and there is nothing left to read.  The handler of a Send then     *)
(* does nothing at all, and Send goes on polling.                          *)
(* ReadErrorSilent: mutant in which the async handler does nothing either. *)
ReadErrorSilent ==
  /\ chan # "stopped"
  /\ reads # <<>>
  /\ socket = "closed" \/ (socket = "broken" /\ s2c = <<>>)
  /\ reads' = Tail(reads)
  /\ UNCHANGED <<callVars, userVars, linkVars, pollVars, writes, netVars>>

HandleReadError ==
  /\ chan # "stopped"
  /\ reads # <<>>
  /\ socket = "closed" \/ (socket = "broken" /\ s2c = <<>>)
  /\ reads' = Tail(reads)
  /\ IF Head(reads) \in SyncCalls
       THEN UNCHANGED callVars
       ELSE Finish(Head(reads), "sendFailed", NoCall)
  /\ UNCHANGED <<userVars, linkVars, pollVars, writes, netVars>>

-----------------------------------------------------------------------------
(* Users                                                                   *)

(* StartCancel sets a flag of the controller and nothing else.             *)
(* StartCancelFinishes: mutant that ends a pending call at once and leaves *)
(* its answer to whoever reads next.                                       *)
StartCancelFinishes(c) ==
  /\ ~canceled[c]
  /\ stage[c] = "pending" /\ c \in {reads[i] : i \in 1..Len(reads)}
  /\ canceled' = [canceled EXCEPT ![c] = TRUE]
  /\ reads' = SelectSeq(reads, LAMBDA d : d # c)
  /\ Finish(c, "canceled", NoCall)
  /\ UNCHANGED <<target, chan, linkVars, pollVars, writes, netVars>>

StartCancel(c) ==
  /\ ~canceled[c]
  /\ stage[c] # "finished"
  /\ canceled' = [canceled EXCEPT ![c] = TRUE]
  /\ UNCHANGED <<callVars, target, chan, linkVars, pollVars, writes, reads, netVars>>

(* ~XrpcChannel, first half: Stop closes the socket.  Nobody destroys a    *)
(* channel while a thread is inside its CallMethod.                        *)
Close ==
  /\ chan = "open"
  /\ \A c \in Calls : ~InCallMethod(c)
  /\ chan' = "closing"
  /\ socket' = IF socket = "none" THEN "none" ELSE "closed"
  /\ s2c' = <<>>
  /\ UNCHANGED <<callVars, target, canceled, peer, pollVars, writes, reads, c2s, up, served>>

(* Second half: io_context_->stop(); handlers still queued never run.      *)
StopIo ==
  /\ chan = "closing"
  /\ chan' = "stopped"
  /\ UNCHANGED <<callVars, target, canceled, linkVars, pollVars, writes, reads, netVars>>

-----------------------------------------------------------------------------
(* The servers                                                             *)

(* OnMessage: bytes that do not decode are answered with an error for no   *)
(* call; a request is answered with its result, or with the error of the   *)
(* dispatch or of the service.  Its header never says cancelled.           *)
OnMessage(data, ok) ==
  IF Decodes(data)
    THEN [call |-> Decoded(data), ok |-> ok]
    ELSE [call |-> NoCall, ok |-> FALSE]

(* HandleServerRead: one read is one request and gets one response.        *)
Serve ==
  /\ socket \in {"connected", "closed"}
  /\ peer \in up
  /\ \E chunk \in Chunks(c2s), ok \in BOOLEAN :
       /\ c2s' = After(c2s, chunk)
       /\ served' = IF Decodes(chunk) THEN served \union {Decoded(chunk)} ELSE served
       /\ s2c' = IF socket = "connected"
                    THEN s2c \o Fragments(OnMessage(chunk, ok))
                    ELSE s2c
  /\ UNCHANGED <<callVars, userVars, linkVars, pollVars, writes, reads, up>>

(* The process ends; of what it had sent a part may still arrive.          *)
ServerCrash(s) ==
  /\ s \in up
  /\ up' = up \ {s}
  /\ c2s' = IF peer = s THEN <<>> ELSE c2s
  /\ \/ /\ peer = s /\ socket = "connected"
        /\ socket' = "broken"
        /\ \E n \in 0..Len(s2c) : s2c' = SubSeq(s2c, 1, n)
     \/ /\ ~(peer = s /\ socket = "connected")
        /\ UNCHANGED <<socket, s2c>>
  /\ UNCHANGED <<callVars, userVars, peer, pollVars, writes, reads, served>>

ServerRestart(s) ==
  /\ s \in Servers \ up
  /\ up' = up \union {s}
  /\ UNCHANGED <<callVars, userVars, linkVars, pollVars, writes, reads, c2s, s2c, served>>

-----------------------------------------------------------------------------
CallStep(c) ==
  \/ GetServiceAddress(c)
  \/ Connect(c)
  \/ CheckCanceled(c)
  \/ SendAsync(c)
  \/ Send(c)
  \/ SendReturns(c)

HandlerStep ==
  \/ RunWriteHandler
  \/ HandleClientRead
  \/ HandleClientAsyncRead
  \/ HandleReadError

Next ==
  \/ \E c \in Calls : CallStep(c) \/ StartCancel(c)
  \/ HandlerStep
  \/ Close
  \/ StopIo
  \/ Serve
  \/ \E s \in Servers : ServerCrash(s) \/ ServerRestart(s)

(* Fairness: the io thread runs handlers that are ready, a thread inside   *)
(* CallMethod goes on when the locks are free, a server that runs answers. *)
(* Nothing makes a user start, cancel or destroy, or a server crash.       *)
Fairness ==
  /\ WF_vars(HandlerStep)
  /\ WF_vars(Serve)
  /\ \A c \in Calls :
       WF_vars(Connect(c) \/ CheckCanceled(c) \/ SendAsync(c) \/ Send(c) \/ SendReturns(c))

Spec == Init /\ [][Next]_vars
FairSpec == Spec /\ Fairness

-----------------------------------------------------------------------------
(* Every call ends at most once, and exactly when it is marked finished:   *)
(* done is a closure that deletes itself when it runs, so a second run is  *)
(* a use after free.                                                       *)
CompletedOnce ==
  \A c \in Calls : completions[c] = IF stage[c] = "finished" THEN 1 ELSE 0

(* A call is completed with the response to its own request.  No response  *)
(* carries an identity that CallMethod looks at: this rests entirely on    *)
(* the order of requests, reads and responses on the one connection.       *)
OwnResponse ==
  \A c \in Calls :
    /\ answer[c] \in {c, NoCall}
    /\ result[c] = "ok" => answer[c] = c

(* Why OwnResponse holds where it does: the requests not yet answered, in  *)
(* the order their answers will come, are the calls whose reads are        *)
(* pending or about to be started, in the order in which they will read.   *)
(* Only a lost connection leaves more readers than answers.                *)
InFlight ==
  [i \in 1..Len(s2c) |-> s2c[i].msg.call] \o [i \in 1..Len(c2s) |-> c2s[i].msg]
Awaiting == reads \o [i \in 1..Len(writes) |-> writes[i].call]

PipelineAligned ==
  socket \in {"connected", "broken"} =>
    /\ Len(InFlight) <= Len(Awaiting)
    /\ \A i \in 1..Len(InFlight) : InFlight[i] = Awaiting[i]
    /\ socket = "connected" => Len(InFlight) = Len(Awaiting)

(* The one response buffer of the transport is safe: only the Send that    *)
(* polls has a read into it, and that read is not yet done when            *)
(* response_received_ is false; nobody polls without owning the locks.     *)
SyncBufferOwned ==
  /\ \A c \in Calls : stage[c] = "polling" <=> pollOwner = c
  /\ \A i \in 1..Len(reads) :
       reads[i] \in SyncCalls => reads[i] = pollOwner /\ ~response_received_

(* A call that ended because its service was not found, no connection was  *)
(* made or it had been cancelled has never been seen by a server, and      *)
(* never will be.                                                          *)
RefusedNeverServed ==
  \A c \in Calls :
    result[c] \in {"notFound", "connectionFailed", "canceledBeforeSending"} =>
      /\ c \notin served
      /\ \A i \in 1..Len(c2s) : c2s[i].msg # c

(* No handler drops a call: a call that waits has a write or a read under  *)
(* way whose handler will end it, and a Send that polls has its read or    *)
(* its answer, unless the connection is lost.  (What AsyncCompletes and    *)
(* SendLetsGo need besides is that handlers run and servers answer.)       *)
NobodyForgotten ==
  /\ \A c \in Calls :
       stage[c] = "pending" =>
         \/ \E i \in 1..Len(writes) : writes[i].call = c
         \/ \E i \in 1..Len(reads) : reads[i] = c
  /\ pollOwner # NoCall /\ socket # "broken" =>
       response_received_ \/ \E i \in 1..Len(reads) : reads[i] = pollOwner

(* An asynchronous call handed to the transport ends, whatever becomes of  *)
(* its server, unless the channel is destroyed first: the handlers that    *)
(* StopIo finds in the queue never run, nor do the closures in them.       *)
AsyncCompletes ==
  \A c \in Calls : stage[c] = "pending" ~> stage[c] = "finished" \/ chan = "stopped"

(* A Send gives the channel's locks back, as long as the connection lasts. *)
SendLetsGo ==
  pollOwner # NoCall ~> pollOwner = NoCall \/ socket = "broken"

(* The channel implements RpcCall.                                         *)
Rpc == INSTANCE RpcCall WITH
  phase <- [c \in Calls |->
              CASE stage[c] = "idle"                           -> "idle"
                [] stage[c] = "finished" /\ result[c] = "ok"   -> "succeeded"
                [] stage[c] = "finished" /\ result[c] # "ok"   -> "failed"
                [] OTHER                                       -> "pending"],
  answer <- [c \in Calls |-> IF result[c] = "ok" THEN answer[c] ELSE NoCall]

ImplementsRpcCall == Rpc!RpcSpec

-----------------------------------------------------------------------------
(* What the documentation says and the code does not do.                   *)

(* asio_transport.cc reports "No response received" and returns false when *)
(* the answer to a Send does not come: every Send returns.                 *)
SendReturnsEventually == pollOwner # NoCall ~> pollOwner = NoCall

(* docs/api.md: CallMethod discovers the address of the service and sends  *)
(* the request there.  So a call that Connect lets pass has a connection   *)
(* to its own server, even if an earlier call used, lost or failed to make *)
(* another one.                                                            *)
ConnectsToDiscovered ==
  [][\A c \in Calls :
       stage[c] = "resolved" /\ stage'[c] = "connected"
         => socket' = "connected" /\ peer' = target[c]]_vars
=============================================================================
