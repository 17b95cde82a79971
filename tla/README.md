# A verification of XRPC in TLA+

XRPC is a small RPC framework in C++: protobuf services, ZooKeeper for discovery, Boost.Asio for
transport. This directory holds TLA+ models of its concurrent and distributed parts, TLC
configurations that check them on small instances, and TLAPS proofs of what matters most. Paths
below are relative to the repository.

    tlc -config ChannelSequential.cfg MCXrpcChannel.tla     # a run
    tlapm XrpcChannelProofs.tla                             # a proof module

`PROJECT.json` lists the components, the runs, the mutants, the source lines of every definition,
the findings, the hazards and the theorems.

## 1. The system

| Component | State | Operations | Who calls it |
|---|---|---|---|
| `XrpcController` (`src/core/controller`) | `failed_`, `canceled_`, `cancel_callback_` under `mutex_` | `SetFailed`, `Reset`, `StartCancel`, `NotifyOnCancel`, destructor | user threads, the channel, a service |
| `XrpcChannel` (`src/core/channel`) | `mutex_`; the calls in progress | `CallMethod`, destructor | user threads, through a protobuf stub |
| `AsioTransport` (`src/transport`) | `client_socket_` under `socket_mutex_`, `response_`, `response_received_`, one io thread; on the server an acceptor and `server_sockets_` | `Connect`, `Send`, `SendAsync`, `StartServer`, `Stop`, completion handlers | the channel, the server, the io thread |
| `XrpcCodec` (`src/core/codec`) | none | `Encode`, `Decode` and the response pair | channel and server |
| `XrpcServer` (`src/core/server`) | `services_` under `mutex_` | `RegisterService`, `OnMessage`, destructor | user thread; `OnMessage` from the io thread |
| `ZookeeperClient` (`src/registry`) | `is_connected_`, `running_`, `service_cache_` and `watchers_` under `cache_mutex_`, `mutex_` around user operations, a heartbeat thread | `Start`, `Stop`, `Register`, `Discover`, `DiscoverService`, `FindInstancesByMethod`, `Delete`, `Watch`, `Heartbeat`, `WatcherCallback` | channel, server, and the event thread of the ZooKeeper C library |
| `XrpcConfig`, `XrpcLogger` | a map; spdlog | loading, set-up | everybody, at start |
| example client (`src/examples/client`) | threads, an `AsyncCallback` with an 8 s timeout, counters | `SyncLogin`, `AsyncLogin` with a second attempt | `main` |
| example server (`src/examples/server`) | a login service, a signal flag | `Login`, `SignalHandler`, `main` | the io thread; the system |

How they interact. `CallMethod` asks its `ZookeeperClient` for an address, has the transport
`Connect`, encodes, and hands the bytes to `Send` (no `done`) or `SendAsync`. The answer comes back
through completion handlers on the io thread, or on a thread that polls inside `Send`. On the
server `HandleServerRead` passes what one read returned to `OnMessage` and writes what that
returns. Channel and controller share the cancelled flag; nothing of it goes over the wire. The
user's thread of a server registers services and in the end destroys it, while the one io thread
runs accepts, reads and services; they share `services_`, `mutex_` and `server_sockets_`. The
example client builds a channel per attempt and destroys it at the end of the scope, answer or not.

What is hard to test here, and which property is about it, is the list `hazards` of
`PROJECT.json`. The main kinds:

- **Order on one connection.** No answer carries an identity the client looks at; a call gets the
  answer that its read happens to return (`OwnResponse`, `PipelineAligned`, `ImplementsRpcCall`).
- **Framing.** One `async_read_some` is taken for one message (`OwnResponse` with `ReadCap = 2`).
- **Exactly once.** `done` and the cancel closure delete themselves when they run
  (`CompletedOnce`, `ClosureRunAtMostOnce`, `NoClosureLost`).
- **Lost peers, no timeouts** (`NobodyForgotten`, `AsyncCompletes`, `SendLetsGo`,
  `SendReturnsEventually`, `ConnectsToDiscovered`).
- **A cache filled and pruned by three threads** around reads of ZooKeeper that are not atomic
  with it (`DeadInstanceForgotten`, `EmptyListForgotten`, `DiscoversAll`).
- **One-shot watches, sessions that lapse** (`WatchKept`, `StaleOnlyUnwatched`, `ChangeIsTold`,
  `ConnectedFollows`, `ConnectedConverges`).
- **A server that registers, serves and exits at once** on two threads (`DiscoveredIsFound`,
  `SocketsTracked`, `OnlyResetsTerminate`, `NoCircularWait`, `OnlyNestedStalls`, `ExitCompletes`,
  `NoConnectionLeft`).
- **A timeout that races a late answer** for objects on a stack (`LateOnlyAfterTimeout`,
  `VerdictSettled`, `StatsTrue`).

## 2. The modules

| Module | Models | Extends |
|---|---|---|
| `XrpcController` | one controller object | |
| `XrpcControllerProofs` | its safety theorems | `XrpcController` |
| `Wire` | framing and reads, as both ends see them | |
| `RpcCall` | abstract: what `CallMethod` promises | |
| `XrpcChannel` | `CallMethod`, the client half of `AsioTransport`, the connection, servers | `Wire`, instance of `RpcCall` |
| `WireProofs` | lemmas about framing | `Wire` |
| `XrpcChannelProofs` | its safety theorems, and its refinement of `RpcCall` | `XrpcChannel`, `WireProofs` |
| `XrpcPipelineProofs` | theorems on the order of answers | `XrpcChannelProofs` |
| `ZookeeperClient` | one registry client and ZooKeeper for one service | |
| `ZookeeperClientProofs` | its safety theorems | `ZookeeperClient` |
| `XrpcServer` | `XrpcServer`, the server half of `AsioTransport`, `main` of the example server | `Wire` |
| `XrpcServerProofs` | its safety theorems | `XrpcServer`, `WireProofs` |
| `UserClient` | the example client | |
| `UserClientProofs` | its safety theorems | `UserClient` |
| `XrpcCodec` | when a message is compressed, and what the decoder makes of it; with proofs | |
| `MC...` | constants for TLC; `MCXrpcServer` also evaluates the codec | |

A definition called `...NoGuard`, `...Silently`, `...Late` and so on, with a comment that says
*mutant*, is a plausible bug in the definition below it. It is used by no action; putting it in
place of the real one breaks a property, which is how each property is known to say something.

### XrpcController

Variables carry the names of the fields. Each method holds `mutex_` throughout, so it is one
action, except while it runs the closure: `StartCancel`, `NotifyOnCancel` and `Destroy` then leave
`mutex_` set to their name, and `ClosureReturns` is the rest of the method. `runs`, `registered`
and `discarded` are history variables. A closure in `Reentrant` calls a method of the controller
from inside its `Run`, waits for a mutex that is not recursive, and so never returns; its method
then keeps `mutex_` for ever (`xrpc_controller.cc:49`). A closure is handed to `NotifyOnCancel` once: it
deletes itself, so a second hand-over would be an error of the user.

### XrpcChannel

`stage[c]` is the position of call `c` in `CallMethod`: `idle`, `resolved` (`GetServiceAddress`
done), `connected`, `ready` (not cancelled, encoded), `polling` (in `Send`), `pending` (in
`SendAsync`) and `finished`. `writes` and `reads` are the completion queues of the socket:
`SendAsync` puts its request on `c2s` and a completed write into `writes`; `RunWriteHandler` moves
it to `reads`; a read handler takes a chunk of `s2c` for the oldest read. `Send` reads at once.

- *Locks.* Only `Send` blocks under `mutex_` and `socket_mutex_`, so all other critical sections
  are atomic and need `pollOwner = NoCall`. Handlers take neither lock.
- *Threads that run handlers.* The io thread runs them in order. While a `Send` polls there are two
  threads, so the second handler of a queue may overtake the first (`Runnable`).
- *The socket.* `socket` is `none`, `connected`, `failed` (its connect failed), `broken` (its peer
  went) or `closed` (by `Stop`); `failed` and `broken` sockets are still `is_open()`. There is one
  connection in a channel's life.
- *Bytes.* A message is `Parts` fragments and a read returns up to `ReadCap`. A buffer that does
  not begin with a whole message is rejected, and what follows the first message is dropped, as in
  `DecodeResponse`. That garbage happens to parse is left out.
- *Servers* answer each read with one response (`OnMessage`), crash, so that of what they sent some
  prefix still arrives, and restart. `ok` is the verdict of dispatch and service together.
- A read error completes an asynchronous call; in `Send` it changes nothing (`HandleReadError`).
- The channel is destroyed only when no thread is inside `CallMethod` (otherwise the program is
  wrong whatever the channel does), but asynchronous calls may be pending.
- *Left out:* the data race on `response_received_` (the loop is taken to notice the write), `done`
  closures that call the channel again, controllers of another class, and writes that complete
  partially.

### ZookeeperClient

One user operation runs at a time (`mutex_`); `op` is its position with its locals, `hb` that of
the heartbeat and `ev` that of the event thread in `WatcherCallback`. A block under `cache_mutex_`
is one step; a synchronous `zoo_` call is one step. `cached` and `cache` are the entry of the
service in `service_cache_`: the key and its list. ZooKeeper is external: `node` and `owner` are
its ephemeral nodes, `armed` the one-shot watches, `events` what it has sent. `notified` is what
the user's callback was last told.

`zoo_exists` followed by `zoo_set` with its version, or `zoo_create`, is one step: if the node
changed in between, the second call fails and `Register` throws, which is the second branch of
`Register` (any failure). A last branch, of `Register` and of `Delete`, is a write whose reply is
lost with the connection (`SetNodeReplyLost`). Other clients create, change and delete nodes at any
time, also between two calls of an operation or of an event handler. A "changed" event stands for
CREATED and CHANGED, which one branch of `WatcherCallback` handles. `notified` is kept per path, so a
second `Watch` of a path is taken to pass the same callback. `Init` is the state behind a successful
`Start`; what events do that arrive before `running_` is set, at its end, is not modelled. `terminated` is the process after the exception nobody catches when
`RegisterWatcher` fails behind a deletion.

*Left out:* the retries in `Start`, `FindInstancesByMethod`'s search in the data string,
persistent nodes, and the 512 byte buffer of `GetNodeData`. The child event branch of
`WatcherCallback` is unreachable: no child watch is ever set.

### XrpcServer

`main` is the position of the user's thread: `serving`, inside `RegisterService` (`inserting`,
`publishing`), or in the destructor, statement by statement from `exiting` to `gone`. `io` is the
handler the io thread is in: it runs one at a time, and `HandleServerRead` has up to four steps:
`OnMessage` with its dispatch, the service that takes `mutex_` (`CallServiceMethod`) and returns
(`ServiceReturns`), and the write with the next read (`WriteResponse`). The other handlers are one
step each. `sock[k]` and `peer[k]` are the two ends of a connection.

- *Requests.* What a request turns out to be (`Kinds`) is chosen when it is handled; `OnMessage`
  makes the checks in the order of the code, with the code's numbers. `services_` is looked up
  without `mutex_`: if `RegisterService` is inserting just then, the outcome is `undefined`.
- *Waiting.* `IoWaits` and `MainWaits` say what each thread waits for: the io thread for `mutex_`,
  the destructor for `mutex_` and later, in its join, for the handler. They are the guards of the
  steps that block, and what `NoCircularWait` is about.
- *The registry.* `written` holds the services whose node has this server's data. A node may go at
  any time (`SessionExpires`): with the session of this server, or with an earlier one whose node
  `Register` only wrote over. A client may also follow a node that an earlier server left and nobody
  has written over: it is then rightly told "Service not found", its request is not `announced`, and
  so such nodes are no state of the model.
- *Exceptions.* `boost::asio::write` and `remote_endpoint()` throw on a socket that is closed at
  this end or reset at the other. Nothing catches that on the io thread: `fate = "terminated"`.
- *Exit.* `~XrpcServer` takes `mutex_`, closes the acceptor and the sockets, stops the io context
  and the registry client, and unlocks; then the members go, `mutex_` and `services_` before
  `transport_` (`DestroyMembers`), whose destructor stops once more (`StopAgain`) and joins the io
  thread (`JoinIo`). A handler that is at work all the while goes on using the members, and a service
  that runs when `mutex_` goes is `undefined` at once. Stop's walk over `server_sockets_` takes no
  lock either; during the first walk handlers may race with it (`SocketsRaced`). By the second the io
  context has stopped, and the one handler that may still be under way is one behind its read, which
  leaves the set alone.
- *Registration* may throw in `zk_client_->Register`, with the node written or not: the service stays
  entered.
- *Left out:* the parsing of names, the text of errors, more than one outstanding accept, and the
  8192 byte buffer, which is the `ReadCap` of `Wire`. `XrpcChannel` keeps a coarser server of its
  own, which also crashes.

### UserClient

`pc[t]` is the position of a thread in an attempt, through the destruction of the locals of
`AsyncLogin` in the reverse of their order: the `AsyncCallback`, the controller, the channel, which
joins its io thread. `io[t]` is the position of that io thread in the lambda of `SendRequestAsync`
and in `OnCallback`. `undefined` collects the threads whose io thread has used an object that is
gone. The channel itself is one step per outcome here (it is modelled in `XrpcChannel`): an answer
comes, at any time or never, or the connection is lost. `SyncLogin` is one step that may not come.
In both modes the constructor of the channel throws when ZooKeeper is out of reach
(`zookeeper_client.cc:43`), which nothing in the thread catches: `ChannelThrows` terminates the
process.

### XrpcCodec

Pure operators: a text is known by its size and its packed size. `Encode` compresses when asked to,
when the text is longer than 100 bytes and when its packed form is shorter; the flag in the header
and `args_size` must then agree with the bytes, which is what the decoder relies on. The length of
the header is computed from the two fields that `Encode` changes, as protobuf writes them. zlib is
external.

## 3. The runs

Runs that pass:

| Run | Question | Bounds |
|---|---|---|
| `controller` | do closures run at most once, is none lost, what does a cancelled controller hold? | 3 closures, one reentrant |
| `channel_sequential` | do callers that wait for each other get their answers, does the channel implement `RpcCall`, and does `Send` give its locks back? | 2 asynchronous and 1 synchronous call, 1 server, short messages, reads of up to 2 |
| `channel_pipelined` | are concurrent asynchronous answers kept apart if every read returns one message, and do the calls end? | 3 calls, 1 server, `ReadCap = 1` |
| `channel_mixed` | what holds when answers are mixed up, and is any call dropped? | 1 asynchronous, 2 synchronous calls, two-part messages, reads of up to 3 parts |
| `registry` | are dead instances and empty lists forgotten, while the heartbeat lives? | 2 instances, interruptions and expiry at any point |
| `registry_watch` | what can lose a watch, what can leave the callback with stale data, is a change that met a watch told, does `is_connected_` follow the session? | 1 instance, 2 values, changed by anybody at any time, interruptions; no `Discover` (`Discovers = FALSE`), which touches no watch |
| `server` | what do answers say, is a discovered service found, do the threads wait for each other, do requests get read, does the exit end and leave no connection, what terminates the process? | 2 connections, 1 service, 2 requests, reads of up to 2 |
| `client` | what does a timeout put at risk, are verdicts and statistics true, do logins end? | 2 threads, 2 attempts each |

The bounds are small and still reach the interesting cases. Two calls suffice to swap answers and
the third sees the shift go on; `ReadCap = 3` with `Parts = 2` gives reads that are shorter than,
equal to and longer than a message; two servers (`wrong_server`) distinguish the address found from
the one connected; two instances distinguish a partial cache from a full one, and two values a stale
notification from a fresh one. `MaxEvents = 2` undelivered events let a session event overtake the
handling of a node event. Two connections with two requests between them (`MaxRequests`) give a
pipelined pair on one connection, one behind the other across two, and two requests in one read;
one service is registered or not yet, which is all that dispatch tells apart; the kinds that occur
are a success, a failure and a nested call, with an unregistered service refused by `OnMessage`.
(Codes 1, 3, 4 and 6 therefore do not occur in the run; `TellingSafety` covers them.) Two client threads are
needed only for the counters. Nothing else needed a bound: all counters are bounded by the number
of calls, closures or threads.

`MCXrpcServer` also evaluates the statements of `XrpcCodec` (`CodecHolds`) for sizes around the
threshold, where the theorems of that module hold for all.

Deadlock checking is off: all of these systems may stop (all calls made, the channel, client or
server gone, the process terminated).

Runs that end in a counterexample, each a difference between a sentence of the documentation or a
comment and the code (`findings` in `PROJECT.json` quotes both):

| Run | What happens |
|---|---|
| `coalesced_replies` | two responses in one read: the second is lost, later answers go to the wrong calls |
| `send_hangs` | `Send` polls for ever when its server goes, with the locks held; its "No response received" is unreachable |
| `wrong_server` | `Connect` lets a call pass on the socket of an earlier one: connected to another server, failed, or lost |
| `partial_listing` | a cache entry made by `Register`, `Discover` or an event for one instance hides the others |

Further differences, seen in the models but without a run of their own:

- A synchronous call started between the write and the read of an asynchronous one takes its
  answer, even with `ReadCap = 1` (`OwnResponse` with mixed concurrent calls); hence
  `channel_pipelined` has asynchronous calls only.
- A request that arrives in two reads (`Parts = 2`) is answered with two decoding errors;
  `channel_mixed` contains these behaviours.
- Cancelling sets a flag at the client; the header's `cancelled` is always false
  (`xrpc_channel.cc:131`), so a cancelled request is served as usual, against `README.md:12`.
- The heartbeat thread leaves its loop at the first interruption it sees
  (`zookeeper_client.cc:273`) and is never restarted: dead instances then stay in the cache.
  `DeadInstanceForgotten` and `EmptyListForgotten` therefore speak of the time while it lives.
- A server that restarts registers over the node of its previous session
  (`zookeeper_client.cc:89-94` only sets the data): the node keeps its old owner and goes when that
  session expires.
- A change between the `zoo_get` and the `zoo_wexists` of the event handler (`zookeeper_client.cc:357`,
  `372`) is never reported, and the callback keeps what it was told before: `StaleOnlyUnwatched` names
  this as one of its exceptions. `tests/registry_test.cc:131-146` registers, waits for the callback,
  registers again and waits for the second call; since the callback runs at line 371, before the watch
  is set again, the second change may come into that window.
- A node that goes between its event and the `zoo_get` makes `GetNodeData` throw, and the handler
  skips line 372: the watch is gone though the session was never interrupted (`GoneBeforeRead`).
- A DELETED event erases the callback (`zookeeper_client.cc:391`) also when the user has called
  `Watch` again since; and `Delete` (238) may take the watcher away before its own DELETED event
  arrives, which `tests/registry_test.cc:148-155` does not expect.
- `DiscoverService` throws for a service without a node, where `tests/registry_test.cc:91` expects
  an empty list.
- An event handler that passed its `running_` test refills the cache behind the clear in `Stop`.
- A client that resets its connection terminates the server: the write or the `remote_endpoint()`
  in a log line throws on the io thread (`asio_transport.cc:235`, `236`, `240`), and so does the
  server's own exit, if a handler then asks a socket that `Stop` has closed for its peer;
  `user_server.cc:82` speaks of a graceful exit ("优雅退出"). `OnlyResetsTerminate` says that
  nothing else does.
- A service that calls its own server waits for the one io thread, which is its own, with `mutex_`
  held; `docs/design.md:57` says that requests are handled by several threads. `OnlyNestedStalls` and
  `ExitCompletes` except it.
- A failed service call is answered with code 5 (`xrpc_server.cc:127`), which `xrpc_common.h:23`
  calls `CANCELLED`; `AnswersTell` can say nothing of it. An undecodable request is answered with
  code 1, there `TIMEOUT`, and an unknown method with 3, there `SERVER_ERROR`.
- Of two requests in one read the second is never answered: `AnsweredInOrder` says that answers keep
  the order of the requests and come at most once, not that every request has one.
- Two handlers' races with the exit of a server are real: `fate = "undefined"` when `Stop` walks
  `server_sockets_` while a handler changes it, when `RegisterService` inserts while `OnMessage` looks
  up, and when a handler outlives `mutex_` and `services_`. No document denies them, so they are shown
  by the states of the model and by no property.
- After a timeout the callback and the controller of `AsyncLogin` are destroyed before the channel,
  and a late answer runs `done` on them (`user_client.cc:98`): `undefined` in `UserClient`.
- A failure with an empty error text counts as a success if the response says so
  (`user_client.cc:105` looks at the text, not at `Failed()`); no service here does that.

## 4. Fairness

Safety properties are checked without fairness or do not use it. Liveness assumes:

- `XrpcChannel`: `WF(HandlerStep)` because the io thread runs `io_context_->run()` with `work_`
  outstanding until `Stop`; `WF(Serve)`: a server that runs and has input reads it; `WF` of each
  call's steps inside `CallMethod`, which are those of a running thread. No fairness for users,
  crashes, restarts, `Close` and `StopIo`. Weak fairness suffices for the steps that wait for a
  lock because a `Send` that never ends is itself the subject of `SendReturnsEventually`.
- `ZookeeperClient`: `WF` of the user thread inside an operation, of the heartbeat loop (2 s period)
  and of the event thread. None for changes of nodes, for reconnection or for `Stop`.
- `XrpcServer`: `WF(IoStep)`, the io thread runs what is queued, and `WF(Continue)`, the user's
  thread goes on inside a method it has called, both while the process lives. None for clients, for
  registering or for the signal. A handler that waits for `mutex_` needs no strong fairness: the
  user's thread leaves `RegisterService`, and then may re-enter it only for a service it has not yet
  entered, so the mutex comes free for good.
- `UserClient`: `WF` of each thread's steps in `AsyncLogin` (the timeout makes `Wait` return), of
  the handler once it has started, of the counting and of the join in `main`. None for `SyncLogin`
  and for the answer (`HandlerStarts`), which may never come.

## 5. The proofs

All theorems hold for every value of the constants under the modules' assumptions
(`ControllerAssumption`, `WireAssumption`, `ChannelAssumption`, `ServerAssumption`,
`ZookeeperAssumption`, `ClientAssumption`: null values are outside their sets, sizes are positive,
and the threads of the example client, which are counted, are finitely many). Those of
`XrpcPipelineProofs` carry a hypothesis of their own, `Orderly`, named below; the statement is false
without it.

**`XrpcControllerProofs`**: `TypeCorrect`, `ClosureSafety` (no closure runs twice),
`CanceledIsClean`, `NothingLost`. None is inductive alone. `Inv` adds that between methods the
pointer is null or points to a closure that has not run (`PointerFresh`), which method can hold
the lock and why (`LockReason`), and that every registered closure has run, was dropped, or is
the one pointed to (`Accounted`). `PointerFresh` is what a closure's second run would need to
violate, and it holds because `ClosureReturns` clears the pointer before the lock is free.

**`XrpcChannelProofs`**: `TypeCorrect`, `CompletionSafety` (a call ends once), `BufferSafety`
(only the polling `Send` has a read into the shared buffer), `RefusalSafety` (a refused call is
never served), `WaitSafety` (no handler drops a call) and `CallRefinement`. `CompletedOnce` fails if
a call has two handlers outstanding, so `CallInv` says that a call stands at most once in `writes`
and `reads` together (`QueuedOnce`), only while it is waiting (`QueuedWait`), and which kind of call
waits how (`StageKinds`). `WithoutFacts` (removing an element of a queue) and `ReadPopped` (taking
its head) carry this through the handlers. `RefusalInv` widens `RefusedNeverServed` to calls that
have not sent yet: they are not on the wire either, and only `Send` and `SendAsync` change that.
`WaitInv` adds to `NobodyForgotten` that a polling `Send` never has a closed socket (`PollsLive`),
because nobody destroys the channel around it; without that, the read that `HandleReadError` takes
away could be the last. These five hold for any `Parts`, `ReadCap`, number of calls, and for
concurrent callers: mixing up answers completes no call twice and drops none.

`CallRefinement` is `Spec /\ []OwnResponse => ImplementsRpcCall`: the one thing between the channel
and the abstract call is that answers are not mixed up. Its proof has three steps. `Genuine`: a
success on the wire or in the buffer is about a call that a server has served. `NextMoves`: in one
step of the channel at most one call begins, goes on, fails, or succeeds with a served answer
(`Moves`), each a fact about a handler. `CallerSees` and `NextRefines` turn that into a step of
`RpcCall` or a stutter under the mapping, and `ServedStep` does so for `Serve`, where `RefusalInv`
shows that a served call has begun.

**`XrpcPipelineProofs`**: `ResponseSafety` and `PipelineSafety`, that is `OwnResponse` and
`PipelineAligned`, under `Orderly`: a message is one fragment (`Parts = 1`), and either callers wait
their turn, with any mix of synchronous and asynchronous calls and any `ReadCap`, or calls are all
asynchronous and a read returns one message. Those are the regimes of `channel_sequential` and
`channel_pipelined`; outside them the statement is false (`coalesced_replies`, and the first two of
the further differences). `PipeInv` is `PipelineAligned` by position, with `FailedBehind`: the call
behind a write that failed has no answer to come, because only a broken connection fails a write and
nothing reaches the server then. That is what lets its handler drop out of the queue without
shifting the answers of others. `Turns` (callers that wait run one at a time) gives `OneTurn`: two
readers only if a read takes one message and nobody polls; so no read swallows a second answer and
no handler overtakes. `BufferInv` says that what a handler left for a polling `Send` is that `Send`'s
answer. With `CallRefinement` follows `OrderlyRefinement`: under `Orderly`, `Spec =>
ImplementsRpcCall`.

**`XrpcServerProofs`**: `TypeCorrect`, `DiscoverySafety`, `TrackingSafety`, `TerminationSafety`,
`ConnectionSafety`, `TellingSafety`, `OrderSafety`, `LockSafety`. `Inv` adds where the handler stands
(`IoShape`), where the user's thread stands and that the registry only knows entered services
(`MainShape`), that an announced request is findable in the stream, in the handler and in the
answers (`Found`), that until the exit no connection that is read or handled is closed (`Open`),
which is why only resets can make a handler throw, and that every open connection is in
`server_sockets_` (`Reached`), which is why the second `Stop` finds those the first one missed.
`DiscoverySafety` says what registering first and publishing then is worth: it survives the exception
of `Register` and the loss of any session. `AnswersTell` and `AnsweredInOrder` need the way
of a request from the client to its answer, `TrailInv`: along a connection the numbers of requests
grow from the answers over the one in the handler to those in the stream (`InStream`, `InHandler`,
`Answered`), so that a request cannot have run, or been answered, before it is handled.
`LockSafety` needs to know who holds `mutex_` when (`Owners`): the io thread waits for it only while
the user's thread has it, and that thread blocks only where it does not; a `Stop` that joined under
`mutex_` (`StopWaits`) would be the counterexample.

**`ZookeeperClientProofs`**: `TypeCorrect`, `WatchSafety` (`WatchKept`), `NotifySafety`
(`StaleOnlyUnwatched`) and `ConnectedSafety` (`ConnectedFollows`), none with a hypothesis. The first
two are about steps: from any reachable state, whatever another client does and when, a registered
path is left without a watch, an event or a handler that will set one only in the cases named, and
the callback falls behind its node only by a change that no watch saw. They go through the actions
one by one, and need the types and little more: which handler stands at a path, and with what data.
`ConnectedSafety` rests on `Follows`, a statement about a queue of events, and two lemmas that say
what appending to it (`FollowsAppend`) and taking from it (`FollowsTail`) do to it.

**`UserClientProofs`**: `TypeCorrect`, `LateSafety`, `VerdictSafety` and `StatsSafety`. `Inv` says
that `called_` is the last thing an attempt sets (`CalledLast`), that a thread past `Wait` without a
timeout finds its io thread through with the callback (`IoThrough`, `WaitDone`), and that an attempt
without error was written by its own answer (`Wrote`). `StatsInv` follows a success back from the
counter over the verdict to the answer (`Traced`), says that nobody returns without a verdict
(`Judged`), and equates each counter with the cardinality of the set of threads it stands for
(`Tally`).

**`XrpcCodec`**: `RoundTrip`, `CompressionCost`, `AcceptsExactly`, from the types of `Encode`: the
header announces exactly what was written. `CompressionCost` is not "compression pays": `Encode`
compares the texts and forgets the two bytes that the flag `compressed` takes in the header, so a
text that packs by one byte travels in a message that is longer by at most two (less what `args_size`
and the lengths save); from three bytes saved on, no message is longer.

Every invariant and every action property that a passing run checks is a theorem. Only
model-checked are:

- the liveness properties, because they need fairness: `AsyncCompletes`, `SendLetsGo`,
  `OnlyNestedStalls`, `ExitCompletes`, `AsyncEnds`, `DeadInstanceForgotten`, `EmptyListForgotten`,
  `ChangeIsTold` and `ConnectedConverges`. Their safety halves are proved: that what they wait for is
  never lost is `NobodyForgotten` for the two of the channel, `NoCircularWait` for those of the
  server, `WatchKept`, `StaleOnlyUnwatched` and `ConnectedFollows` for watches and session. What is left to fairness is
  that handlers run and threads go on;
- `CodecHolds`, which only evaluates the theorems of `XrpcCodec` on small sizes.

## 6. Not modelled

- `XrpcConfig` and `XrpcLogger`: a file read once into a map, and the set-up of a log. No state
  that a second thread changes, no decision behind it.
- The protobuf files: generated message types.
- Of `ZookeeperClient`: the retries and failures of `Start` and a second `Start`, the search of
  `FindInstancesByMethod`, the 512 byte buffer, persistent nodes, more than one service.
- Of the example server: the user database of `Login`; what it decides is the kind of a request.
  `SignalHandler` locks a mutex that `main` also takes; that it may interrupt `main` just then is
  listed as a hazard and not modelled.
- Tests and build files: read as statements of what the program should do.

## 7. The plan

Done: everything listed above. Next:

1. Proofs: with the extensions below, and for them the invariants behind the two liveness
   properties of the cache: where a stale read can still be, and which listing ends it.
2. `XrpcChannel`: reentrant `done` closures that a polling `Send` runs, writes that complete later.
3. `ZookeeperClient`: `Start` with its retries, restart, two clients of one node, the boundary cases
   of `GetNodeData`, the method search.
4. Composition: a server that registers with a channel that discovers it, across a restart.
