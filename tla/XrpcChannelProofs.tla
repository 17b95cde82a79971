------------------------- MODULE XrpcChannelProofs -------------------------
(***************************************************************************)
(* Theorems about XrpcChannel for every value of its constants: any number *)
(* of calls, synchronous and asynchronous, concurrent or not, any servers, *)
(* any fragmentation of messages.                                          *)
(***************************************************************************)
EXTENDS XrpcChannel, WireProofs

-----------------------------------------------------------------------------
(* Facts about the operators on sequences.                                 *)

(* Without drops exactly the element it is asked to.                       *)
LEMMA WithoutFacts ==
  ASSUME NEW S, NEW q \in Seq(S), NEW i \in 1..Len(q)
  PROVE  /\ Without(q, i) \in Seq(S)
         /\ Len(Without(q, i)) = Len(q) - 1
         /\ \A j \in 1..(Len(q) - 1) :
              Without(q, i)[j] = IF j < i THEN q[j] ELSE q[j + 1]
<1> DEFINE left  == SubSeq(q, 1, i - 1)
           right == SubSeq(q, i + 1, Len(q))
<1>1. /\ left \in Seq(S) /\ Len(left) = i - 1
      /\ \A j \in 1..(i - 1) : left[j] = q[j]
      OBVIOUS
<1>2. /\ right \in Seq(S) /\ Len(right) = Len(q) - i
      /\ \A j \in 1..(Len(q) - i) : right[j] = q[j + i]
      OBVIOUS
<1> HIDE DEF left, right
<1>3. Without(q, i) = left \o right
      BY DEF Without, left, right
<1>4. /\ left \o right \in Seq(S)
      /\ Len(left \o right) = Len(left) + Len(right)
      /\ \A j \in 1..(Len(left) + Len(right)) :
           (left \o right)[j] = IF j <= Len(left) THEN left[j] ELSE right[j - Len(left)]
      BY <1>1, <1>2, ConcatProperties
<1>5. ASSUME NEW j \in 1..(Len(q) - 1)
      PROVE  (left \o right)[j] = IF j < i THEN q[j] ELSE q[j + 1]
  <2>1. CASE j < i
        BY <1>1, <1>2, <1>4, <2>1
  <2>2. CASE ~(j < i)
    <3>1. (left \o right)[j] = right[j - (i - 1)]
          BY <1>1, <1>2, <1>4, <2>2
    <3>2. j - (i - 1) \in 1..(Len(q) - i) /\ (j - (i - 1)) + i = j + 1
          BY <2>2
    <3>3. right[j - (i - 1)] = q[(j - (i - 1)) + i]
          BY <1>2, <3>2
    <3> QED
        BY <2>2, <3>1, <3>2, <3>3
  <2> QED
      BY <2>1, <2>2
<1>6. Len(left \o right) = Len(q) - 1
      BY <1>1, <1>2, <1>4
<1> QED
    BY <1>3, <1>4, <1>5, <1>6

-----------------------------------------------------------------------------
(* Init is well typed.                                                     *)
LEMMA InitType == Init => TypeOK
<1> SUFFICES ASSUME Init PROVE TypeOK
    OBVIOUS
<1>1. /\ stage \in [Calls -> Stages]
      /\ result \in [Calls -> Failures \union {"none", "ok"}]
      /\ answer \in [Calls -> Calls \union {NoCall}]
      /\ completions \in [Calls -> Nat]
      /\ target \in [Calls -> Servers \union {NoServer}]
      /\ canceled \in [Calls -> BOOLEAN]
      BY DEF Init, Stages
<1>2. /\ response_ \in Seq(Fragment(Response))
      /\ writes \in Seq([call : Calls, ok : BOOLEAN])
      /\ reads \in Seq(Calls)
      /\ c2s \in Seq(Fragment(Calls))
      /\ s2c \in Seq(Fragment(Response))
      BY DEF Init
<1> QED
    BY <1>1, <1>2 DEF Init, TypeOK

(* Every step keeps every variable in its range.                           *)
LEMMA NextType == TypeOK /\ [Next]_vars => TypeOK'
<1> SUFFICES ASSUME TypeOK, [Next]_vars
             PROVE  TypeOK'
    OBVIOUS
<1> USE DEF callVars, userVars, linkVars, pollVars, netVars
<1>f. ASSUME NEW c \in Calls, NEW r \in Failures \union {"ok"},
             NEW from \in Calls \union {NoCall}, Finish(c, r, from)
      PROVE  /\ stage' \in [Calls -> Stages]
             /\ result' \in [Calls -> Failures \union {"none", "ok"}]
             /\ answer' \in [Calls -> Calls \union {NoCall}]
             /\ completions' \in [Calls -> Nat]
      BY <1>f DEF Finish, TypeOK, Stages
<1>w. ASSUME NEW c \in Calls, NEW buffer \in Seq(Fragment(Response)), FinishWith(c, buffer)
      PROVE  /\ stage' \in [Calls -> Stages]
             /\ result' \in [Calls -> Failures \union {"none", "ok"}]
             /\ answer' \in [Calls -> Calls \union {NoCall}]
             /\ completions' \in [Calls -> Nat]
  <2>1. CASE ~Decodes(buffer)
        BY <1>f, <1>w, <2>1 DEF FinishWith, Failures
  <2>2. CASE Decodes(buffer)
    <3>1. Decoded(buffer) \in Response
          BY <2>2, DecodedType
    <3> QED
        BY <1>f, <1>w, <2>2, <3>1 DEF FinishWith, Failures, Response
  <2> QED
      BY <2>1, <2>2
<1>p. ASSUME NEW c \in Calls, PutOnWire(c)
      PROVE  c2s' \in Seq(Fragment(Calls))
      BY <1>p, FragmentsType DEF PutOnWire, TypeOK
<1>1. ASSUME NEW c \in Calls, GetServiceAddress(c)
      PROVE  TypeOK'
  <2>1. CASE \E s \in Servers : target' = [target EXCEPT ![c] = s] /\ Advance(c, "resolved")
    <3>1. target' \in [Calls -> Servers \union {NoServer}]
          BY <2>1 DEF TypeOK
    <3>2. stage' \in [Calls -> Stages] /\ UNCHANGED <<result, answer, completions>>
          BY <2>1 DEF Advance, TypeOK, Stages
    <3> QED
        BY <1>1, <3>1, <3>2 DEF GetServiceAddress, TypeOK
  <2>2. CASE Finish(c, "notFound", NoCall) /\ UNCHANGED target
        BY <1>1, <1>f, <2>2 DEF GetServiceAddress, TypeOK, Failures
  <2> QED
      BY <1>1, <2>1, <2>2 DEF GetServiceAddress
<1>2. ASSUME NEW c \in Calls, Connect(c)
      PROVE  TypeOK'
      BY <1>2, <1>f DEF Connect, Advance, TypeOK, Stages, Failures
<1>3. ASSUME NEW c \in Calls, CheckCanceled(c)
      PROVE  TypeOK'
      BY <1>3, <1>f DEF CheckCanceled, Advance, TypeOK, Stages, Failures
<1>4. ASSUME NEW c \in Calls, SendAsync(c)
      PROVE  TypeOK'
  <2>1. PICK ok \in WriteReports : writes' = Append(writes, [call |-> c, ok |-> ok])
        BY <1>4 DEF SendAsync
  <2>2. ok \in BOOLEAN
        BY DEF WriteReports
  <2>3. writes' \in Seq([call : Calls, ok : BOOLEAN])
        BY <2>1, <2>2 DEF TypeOK
  <2> QED
      BY <1>4, <1>p, <2>3 DEF SendAsync, Advance, TypeOK, Stages
<1>5. ASSUME NEW c \in Calls, Send(c)
      PROVE  TypeOK'
  <2>1. c2s' \in Seq(Fragment(Calls)) /\ c \in SyncCalls
        BY <1>5, <1>p DEF Send
  <2>2. CASE pollOwner' = c /\ reads' = Append(reads, c) /\ Advance(c, "polling")
    <3>1. reads' \in Seq(Calls)
          BY <2>2 DEF TypeOK
    <3>2. stage' \in [Calls -> Stages] /\ UNCHANGED <<result, answer, completions>>
          BY <2>2 DEF Advance, TypeOK, Stages
    <3> QED
        BY <1>5, <2>1, <2>2, <3>1, <3>2 DEF Send, TypeOK
  <2>3. CASE Finish(c, "sendFailed", NoCall) /\ UNCHANGED <<pollOwner, reads>>
        BY <1>5, <1>f, <2>1, <2>3 DEF Send, TypeOK, Failures
  <2> QED
      BY <1>5, <2>2, <2>3 DEF Send
<1>6. ASSUME NEW c \in Calls, SendReturns(c)
      PROVE  TypeOK'
      BY <1>6, <1>w DEF SendReturns, TypeOK
<1>7. CASE RunWriteHandler
  <2>1. PICK i \in 1..Len(writes) : HandleWrite(i)
        BY <1>7 DEF RunWriteHandler, Runnable
  <2>2. Without(writes, i) \in Seq([call : Calls, ok : BOOLEAN])
        BY WithoutFacts DEF TypeOK
  <2> DEFINE W == [call : Calls, ok : BOOLEAN]
  <2>7. writes \in Seq(W)
        BY DEF TypeOK
  <2> HIDE DEF W
  <2>8. writes[i] \in W
        BY <2>7
  <2>3. writes[i] \in [call : Calls, ok : BOOLEAN]
        BY <2>8 DEF W
  <2>4. writes[i].call \in Calls
        BY <2>3
  <2>5. CASE reads' = Append(reads, writes[i].call) /\ UNCHANGED callVars
    <3>1. reads' \in Seq(Calls)
          BY <2>4, <2>5 DEF TypeOK
    <3> QED
        BY <2>1, <2>2, <2>5, <3>1 DEF HandleWrite, TypeOK
  <2>6. CASE Finish(writes[i].call, "sendFailed", NoCall) /\ UNCHANGED reads
        BY <2>1, <2>2, <2>4, <2>6, <1>f DEF HandleWrite, TypeOK, Failures
  <2> QED
      BY <2>1, <2>5, <2>6 DEF HandleWrite
<1>8. CASE HandleClientRead
  <2>1. PICK chunk \in Chunks(s2c) : TakeChunk(chunk) /\ response_' = chunk
        BY <1>8 DEF HandleClientRead
  <2>2. chunk \in Seq(Fragment(Response)) /\ s2c' \in Seq(Fragment(Response))
        BY <2>1, ChunkType DEF TakeChunk, TypeOK
  <2> QED
      BY <1>8, <2>1, <2>2 DEF HandleClientRead, TakeChunk, TypeOK
<1>9. CASE HandleClientAsyncRead
  <2>1. PICK chunk \in Chunks(s2c) :
          /\ TakeChunk(chunk)
          /\ IF canceled[Head(reads)]
               THEN Finish(Head(reads), "canceled", NoCall)
               ELSE FinishWith(Head(reads), chunk)
        BY <1>9 DEF HandleClientAsyncRead
  <2>2. chunk \in Seq(Fragment(Response)) /\ s2c' \in Seq(Fragment(Response))
        BY <2>1, ChunkType DEF TakeChunk, TypeOK
  <2>3. Head(reads) \in Calls /\ Tail(reads) \in Seq(Calls)
        BY <2>1 DEF TakeChunk, TypeOK
  <2> QED
      BY <1>9, <2>1, <2>2, <2>3, <1>f, <1>w
         DEF HandleClientAsyncRead, TakeChunk, TypeOK, Failures
<1>10. CASE HandleReadError
  <2>1. Head(reads) \in Calls /\ Tail(reads) \in Seq(Calls)
        BY <1>10 DEF HandleReadError, TypeOK
  <2> QED
      BY <1>10, <2>1, <1>f DEF HandleReadError, TypeOK, Failures
<1>11. ASSUME NEW c \in Calls, StartCancel(c)
       PROVE  TypeOK'
       BY <1>11 DEF StartCancel, TypeOK
<1>12. CASE Close
       BY <1>12 DEF Close, TypeOK
<1>13. CASE StopIo
       BY <1>13 DEF StopIo, TypeOK
<1>14. CASE Serve
  <2>1. PICK chunk \in Chunks(c2s), ok \in BOOLEAN :
          /\ c2s' = After(c2s, chunk)
          /\ served' = IF Decodes(chunk) THEN served \union {Decoded(chunk)} ELSE served
          /\ s2c' = IF socket = "connected"
                       THEN s2c \o Fragments(OnMessage(chunk, ok))
                       ELSE s2c
        BY <1>14 DEF Serve
  <2>2. chunk \in Seq(Fragment(Calls)) /\ c2s' \in Seq(Fragment(Calls))
        BY <2>1, ChunkType DEF TypeOK
  <2>3. Decodes(chunk) => Decoded(chunk) \in Calls
        BY <2>2, DecodedType
  <2>4. OnMessage(chunk, ok) \in Response
        BY <2>3 DEF OnMessage, Response
  <2>5. Fragments(OnMessage(chunk, ok)) \in Seq(Fragment(Response))
        BY <2>4, FragmentsType
  <2>6. s2c' \in Seq(Fragment(Response))
        BY <2>1, <2>5 DEF TypeOK
  <2>7. served' \subseteq Calls
        BY <2>1, <2>3 DEF TypeOK
  <2> QED
      BY <1>14, <2>2, <2>6, <2>7 DEF Serve, TypeOK
<1>15. ASSUME NEW s \in Servers, ServerCrash(s)
       PROVE  TypeOK'
  <2>1. c2s' \in Seq(Fragment(Calls)) /\ up' \subseteq Servers
        BY <1>15 DEF ServerCrash, TypeOK
  <2>2. s2c' \in Seq(Fragment(Response))
    <3>1. s2c' = s2c \/ \E n \in 0..Len(s2c) : s2c' = SubSeq(s2c, 1, n)
          BY <1>15 DEF ServerCrash
    <3>2. s2c \in Seq(Fragment(Response))
          BY DEF TypeOK
    <3> QED
        BY <3>1, <3>2
  <2>3. socket' \in {"none", "connected", "failed", "broken", "closed"}
        BY <1>15 DEF ServerCrash, TypeOK
  <2> QED
      BY <1>15, <2>1, <2>2, <2>3 DEF ServerCrash, TypeOK
<1>16. ASSUME NEW s \in Servers, ServerRestart(s)
       PROVE  TypeOK'
       BY <1>16 DEF ServerRestart, TypeOK
<1>17. CASE UNCHANGED vars
       BY <1>17 DEF vars, TypeOK
<1> QED
    BY <1>1, <1>2, <1>3, <1>4, <1>5, <1>6, <1>7, <1>8, <1>9, <1>10, <1>11, <1>12,
       <1>13, <1>14, <1>15, <1>16, <1>17
       DEF Next, CallStep, HandlerStep

(* The state of the channel, of its queues and of the connection is always *)
(* well typed; in particular every queue entry and every byte in flight    *)
(* belongs to a call of this channel.                                      *)
THEOREM TypeCorrect == Spec => []TypeOK
  BY InitType, NextType, PTL DEF Spec

-----------------------------------------------------------------------------
(* Why a call ends once and the response buffer is safe: a call stands in  *)
(* the handler queues at most once in all, and only while it is waiting;   *)
(* so the handler that ends it leaves no other behind.                     *)
StageKinds ==
  \A c \in Calls :
    /\ stage[c] = "polling" => c \in SyncCalls
    /\ stage[c] = "pending" => c \notin SyncCalls

QueuedWait ==
  /\ \A i \in 1..Len(writes) : stage[writes[i].call] = "pending"
  /\ \A i \in 1..Len(reads) : stage[reads[i]] \in {"polling", "pending"}

QueuedOnce ==
  /\ \A i, j \in 1..Len(writes) : writes[i].call = writes[j].call => i = j
  /\ \A i, j \in 1..Len(reads) : reads[i] = reads[j] => i = j
  /\ \A i \in 1..Len(writes), j \in 1..Len(reads) : writes[i].call # reads[j]

CallInv == CompletedOnce /\ SyncBufferOwned /\ StageKinds /\ QueuedWait /\ QueuedOnce

(* No call stands in a queue at first.                                     *)
LEMMA InitCall == Init => CallInv
  BY ChannelAssumption
     DEF ChannelAssumption, Init, CallInv, CompletedOnce, SyncBufferOwned, StageKinds,
         QueuedWait, QueuedOnce

(* However a call ends, it is marked finished and its closure runs once.   *)
LEMMA FinishFacts ==
  ASSUME NEW c \in Calls, NEW buffer, FinishWith(c, buffer)
  PROVE  /\ stage' = [stage EXCEPT ![c] = "finished"]
         /\ completions' = [completions EXCEPT ![c] = @ + 1]
  BY DEF FinishWith, Finish

(* The calls in the queues are calls of this channel.                      *)
LEMMA QueueTypes ==
  ASSUME TypeOK
  PROVE  /\ \A i \in 1..Len(writes) : writes[i].call \in Calls
         /\ \A i \in 1..Len(reads) : reads[i] \in Calls
         /\ Len(writes) \in Nat /\ Len(reads) \in Nat
<1> DEFINE W == [call : Calls, ok : BOOLEAN]
<1>1. writes \in Seq(W) /\ reads \in Seq(Calls)
      BY DEF TypeOK
<1>2. \A w \in W : w.call \in Calls
      OBVIOUS
<1> HIDE DEF W
<1>3. \A i \in 1..Len(writes) : writes[i] \in W
      BY <1>1
<1> QED
    BY <1>1, <1>2, <1>3

(* A step of the calling thread of a call that no handler knows yet.       *)
LEMMA CallerStep ==
  ASSUME TypeOK, CallInv, NEW c \in Calls,
         stage[c] \in {"idle", "resolved", "connected", "ready"},
         \/ /\ \E t \in {"resolved", "connected", "ready"} : stage' = [stage EXCEPT ![c] = t]
            /\ UNCHANGED completions
         \/ /\ stage' = [stage EXCEPT ![c] = "finished"]
            /\ completions' = [completions EXCEPT ![c] = @ + 1],
         UNCHANGED <<writes, reads, pollOwner>>,
         response_received_' \in {response_received_, FALSE}
  PROVE  CallInv'
<1> USE DEF CallInv
<1>1. CompletedOnce'
      BY DEF CompletedOnce, TypeOK
<1>2. StageKinds'
      BY DEF StageKinds, TypeOK
<1>3. /\ \A i \in 1..Len(writes) : writes[i].call # c
      /\ \A i \in 1..Len(reads) : reads[i] # c
      BY DEF QueuedWait
<1>4. QueuedWait'
      BY <1>3, QueueTypes DEF QueuedWait, TypeOK
<1>5. QueuedOnce'
      BY DEF QueuedOnce
<1>6. SyncBufferOwned'
  <2>1. \A d \in Calls : stage'[d] = "polling" <=> stage[d] = "polling"
        BY DEF TypeOK
  <2>2. ~response_received_ => ~response_received_'
        OBVIOUS
  <2> QED
      BY <2>1, <2>2 DEF SyncBufferOwned
<1> QED
    BY <1>1, <1>2, <1>4, <1>5, <1>6

(* SendAsync puts a call that no handler knows into writes.                *)
LEMMA SendAsyncCall ==
  ASSUME TypeOK, CallInv, NEW c \in Calls, SendAsync(c)
  PROVE  CallInv'
<1> USE DEF CallInv
<1>1. /\ stage[c] = "ready" /\ c \notin SyncCalls
      /\ stage' = [stage EXCEPT ![c] = "pending"]
      /\ UNCHANGED <<completions, reads, pollOwner, response_received_>>
      BY DEF SendAsync, Advance, pollVars
<1>2. PICK ok \in BOOLEAN : writes' = Append(writes, [call |-> c, ok |-> ok])
      BY DEF SendAsync, WriteReports
<1>3. /\ Len(writes') = Len(writes) + 1
      /\ \A i \in 1..Len(writes) : writes'[i] = writes[i]
      /\ writes'[Len(writes) + 1].call = c
      BY <1>2 DEF TypeOK
<1>4. /\ \A i \in 1..Len(writes) : writes[i].call # c
      /\ \A i \in 1..Len(reads) : reads[i] # c
      BY <1>1 DEF QueuedWait
<1>5. CompletedOnce' /\ StageKinds' /\ SyncBufferOwned'
      BY <1>1 DEF CompletedOnce, StageKinds, SyncBufferOwned, TypeOK
<1>6. QueuedWait'
  <2>1. ASSUME NEW i \in 1..Len(writes')
        PROVE  stage'[writes'[i].call] = "pending"
    <3>0. stage'[c] = "pending"
          BY <1>1 DEF TypeOK
    <3>1. CASE i = Len(writes) + 1
      <4>1. writes'[i] = writes'[Len(writes) + 1]
            BY <3>1
      <4>2. writes'[i].call = c
            BY <1>3, <4>1
      <4> QED
          BY <3>0, <4>2
    <3>2. CASE i \in 1..Len(writes)
      <4>1. writes'[i] = writes[i] /\ writes[i].call # c /\ writes[i].call \in Calls
            BY <1>3, <1>4, <3>2, QueueTypes
      <4>2. stage[writes[i].call] = "pending"
            BY <3>2 DEF QueuedWait
      <4>3. \A d \in Calls : d # c => stage'[d] = stage[d]
            BY <1>1 DEF TypeOK
      <4> QED
          BY <4>1, <4>2, <4>3
    <3> QED
        BY <1>3, <3>1, <3>2, QueueTypes
  <2>2. \A i \in 1..Len(reads) : stage'[reads[i]] \in {"polling", "pending"}
        BY <1>1, <1>4, QueueTypes DEF QueuedWait, TypeOK
  <2> QED
      BY <1>1, <2>1, <2>2 DEF QueuedWait
<1>7. QueuedOnce'
  <2>1. ASSUME NEW i \in 1..Len(writes'), NEW j \in 1..Len(writes'),
               writes'[i].call = writes'[j].call
        PROVE  i = j
    <3>1. CASE i = Len(writes) + 1 \/ j = Len(writes) + 1
          BY <1>3, <1>4, <2>1, <3>1, QueueTypes
    <3>2. CASE i \in 1..Len(writes) /\ j \in 1..Len(writes)
          BY <1>3, <2>1, <3>2 DEF QueuedOnce
    <3> QED
        BY <1>3, <3>1, <3>2, QueueTypes
  <2>2. ASSUME NEW i \in 1..Len(writes'), NEW j \in 1..Len(reads)
        PROVE  writes'[i].call # reads[j]
    <3>1. CASE i = Len(writes) + 1
          BY <1>3, <1>4, <3>1
    <3>2. CASE i \in 1..Len(writes)
          BY <1>3, <3>2 DEF QueuedOnce
    <3> QED
        BY <1>3, <3>1, <3>2, QueueTypes
  <2> QED
      BY <1>1, <2>1, <2>2 DEF QueuedOnce
<1> QED
    BY <1>5, <1>6, <1>7

(* Send puts it into reads, or ends it.                                    *)
LEMMA SendCall ==
  ASSUME TypeOK, CallInv, NEW c \in Calls, Send(c)
  PROVE  CallInv'
<1> USE DEF CallInv
<1>1. stage[c] = "ready" /\ c \in SyncCalls /\ pollOwner = NoCall /\ response_received_' = FALSE
      /\ UNCHANGED writes
      BY DEF Send
<1>2. CASE /\ pollOwner' = c
           /\ reads' = Append(reads, c)
           /\ Advance(c, "polling")
  <2>1. stage' = [stage EXCEPT ![c] = "polling"] /\ UNCHANGED completions
        BY <1>2 DEF Advance
  <2>2. /\ Len(reads') = Len(reads) + 1
        /\ \A i \in 1..Len(reads) : reads'[i] = reads[i]
        /\ reads'[Len(reads) + 1] = c
        BY <1>2 DEF TypeOK
  <2>3. /\ \A i \in 1..Len(writes) : writes[i].call # c
        /\ \A i \in 1..Len(reads) : reads[i] # c
        BY <1>1 DEF QueuedWait
  <2>4. \A d \in Calls : stage[d] # "polling"
        BY <1>1, ChannelAssumption DEF ChannelAssumption, SyncBufferOwned
  <2>5. \A i \in 1..Len(reads) : reads[i] \notin SyncCalls
        BY <2>4, QueueTypes, <1>1, ChannelAssumption DEF ChannelAssumption, SyncBufferOwned
  <2>6. CompletedOnce' /\ StageKinds'
        BY <1>1, <2>1 DEF CompletedOnce, StageKinds, TypeOK
  <2>7. QueuedWait'
    <3>1. ASSUME NEW i \in 1..Len(reads')
          PROVE  stage'[reads'[i]] \in {"polling", "pending"}
      <4>1. CASE i = Len(reads) + 1
            BY <2>1, <2>2, <4>1 DEF TypeOK
      <4>2. CASE i \in 1..Len(reads)
            BY <2>1, <2>2, <2>3, <4>2, QueueTypes DEF QueuedWait, TypeOK
      <4> QED
          BY <2>2, <4>1, <4>2, QueueTypes
    <3>2. \A i \in 1..Len(writes) : stage'[writes[i].call] = "pending"
          BY <2>1, <2>3, QueueTypes DEF QueuedWait, TypeOK
    <3> QED
        BY <1>1, <3>1, <3>2 DEF QueuedWait
  <2>8. QueuedOnce'
    <3>1. ASSUME NEW i \in 1..Len(reads'), NEW j \in 1..Len(reads'), reads'[i] = reads'[j]
          PROVE  i = j
      <4>1. CASE i = Len(reads) + 1 \/ j = Len(reads) + 1
            BY <2>2, <2>3, <3>1, <4>1, QueueTypes
      <4>2. CASE i \in 1..Len(reads) /\ j \in 1..Len(reads)
            BY <2>2, <3>1, <4>2 DEF QueuedOnce
      <4> QED
          BY <2>2, <4>1, <4>2, QueueTypes
    <3>2. ASSUME NEW i \in 1..Len(writes), NEW j \in 1..Len(reads')
          PROVE  writes[i].call # reads'[j]
      <4>1. CASE j = Len(reads) + 1
            BY <2>2, <2>3, <4>1
      <4>2. CASE j \in 1..Len(reads)
            BY <2>2, <4>2 DEF QueuedOnce
      <4> QED
          BY <2>2, <4>1, <4>2, QueueTypes
    <3> QED
        BY <1>1, <3>1, <3>2 DEF QueuedOnce
  <2>9. SyncBufferOwned'
    <3>1. \A d \in Calls : stage'[d] = "polling" <=> pollOwner' = d
          BY <1>2, <2>1, <2>4 DEF TypeOK
    <3>2. \A i \in 1..Len(reads') : reads'[i] \in SyncCalls => reads'[i] = pollOwner' /\ ~response_received_'
          BY <1>1, <1>2, <2>2, <2>5, QueueTypes
    <3> QED
        BY <3>1, <3>2 DEF SyncBufferOwned
  <2> QED
      BY <2>6, <2>7, <2>8, <2>9
<1>3. CASE Finish(c, "sendFailed", NoCall) /\ UNCHANGED <<pollOwner, reads>>
      BY <1>1, <1>3, CallerStep DEF Finish
<1> QED
    BY <1>2, <1>3 DEF Send

(* The call that polls stands in no queue once its answer is in.           *)
LEMMA SendReturnsCall ==
  ASSUME TypeOK, CallInv, NEW c \in Calls, SendReturns(c)
  PROVE  CallInv'
<1> USE DEF CallInv
<1>1. /\ stage[c] = "polling" /\ response_received_ /\ pollOwner' = NoCall
      /\ stage' = [stage EXCEPT ![c] = "finished"]
      /\ completions' = [completions EXCEPT ![c] = @ + 1]
      /\ UNCHANGED <<writes, reads, response_received_>>
      BY FinishFacts DEF SendReturns
<1>2. /\ pollOwner = c
      /\ \A i \in 1..Len(reads) : reads[i] \notin SyncCalls
      BY <1>1 DEF SyncBufferOwned
<1>3. c \in SyncCalls
      BY <1>1 DEF StageKinds
<1>4. /\ \A i \in 1..Len(writes) : writes[i].call # c
      /\ \A i \in 1..Len(reads) : reads[i] # c
      BY <1>1, <1>2, <1>3 DEF QueuedWait
<1>5. CompletedOnce' /\ StageKinds'
      BY <1>1 DEF CompletedOnce, StageKinds, TypeOK
<1>6. QueuedWait'
      BY <1>1, <1>4, QueueTypes DEF QueuedWait, TypeOK
<1>7. QueuedOnce'
      BY <1>1 DEF QueuedOnce
<1>8. SyncBufferOwned'
      BY <1>1, <1>2, ChannelAssumption DEF ChannelAssumption, SyncBufferOwned, TypeOK
<1> QED
    BY <1>5, <1>6, <1>7, <1>8

(* The write handler moves its call from one queue to the other, or ends   *)
(* it.                                                                     *)
LEMMA HandleWriteCall ==
  ASSUME TypeOK, CallInv, NEW k \in 1..Len(writes), HandleWrite(k)
  PROVE  CallInv'
<1> USE DEF CallInv
<1> DEFINE c == writes[k].call
<1>1. /\ c \in Calls /\ stage[c] = "pending" /\ c \notin SyncCalls
      BY QueueTypes DEF QueuedWait, StageKinds
<1>2. /\ writes' = Without(writes, k)
      /\ UNCHANGED <<pollOwner, response_received_>>
      BY DEF HandleWrite, pollVars
<1>3. PICK f \in [1..Len(writes') -> 1..Len(writes)] :
        /\ \A j \in 1..Len(writes') : writes'[j] = writes[f[j]] /\ f[j] # k
        /\ \A i, j \in 1..Len(writes') : f[i] = f[j] => i = j
  <2> DEFINE W == [call : Calls, ok : BOOLEAN]
             g == [j \in 1..(Len(writes) - 1) |-> IF j < k THEN j ELSE j + 1]
  <2>1. writes \in Seq(W)
        BY DEF TypeOK
  <2> HIDE DEF W
  <2>2. /\ Len(writes') = Len(writes) - 1
        /\ \A j \in 1..(Len(writes) - 1) :
             writes'[j] = IF j < k THEN writes[j] ELSE writes[j + 1]
        BY <1>2, <2>1, WithoutFacts
  <2>3. /\ g \in [1..Len(writes') -> 1..Len(writes)]
        /\ \A j \in 1..Len(writes') : writes'[j] = writes[g[j]] /\ g[j] # k
        /\ \A i, j \in 1..Len(writes') : g[i] = g[j] => i = j
        BY <2>2, QueueTypes
  <2> QED
      BY <2>3
<1>4. /\ \A j \in 1..Len(writes') : writes'[j].call # c /\ writes'[j].call \in Calls
      /\ \A i, j \in 1..Len(writes') : writes'[i].call = writes'[j].call => i = j
      /\ \A i \in 1..Len(writes'), j \in 1..Len(reads) : writes'[i].call # reads[j]
      /\ \A i \in 1..Len(reads) : reads[i] # c
      /\ \A j \in 1..Len(writes') : stage[writes'[j].call] = "pending"
  <2>1. \A i, j \in 1..Len(writes) : writes[i].call = writes[j].call => i = j
        BY DEF QueuedOnce
  <2>2. \A i \in 1..Len(writes), j \in 1..Len(reads) : writes[i].call # reads[j]
        BY DEF QueuedOnce
  <2>3. \A i \in 1..Len(writes) : stage[writes[i].call] = "pending"
        BY DEF QueuedWait
  <2>4. \A j \in 1..Len(writes') : f[j] \in 1..Len(writes)
        BY <1>3
  <2>5. \A j \in 1..Len(writes') : writes'[j].call # c /\ writes'[j].call \in Calls
        BY <1>3, <2>1, <2>4, QueueTypes
  <2>6. ASSUME NEW i \in 1..Len(writes'), NEW j \in 1..Len(writes'),
               writes'[i].call = writes'[j].call
        PROVE  i = j
    <3>1. writes[f[i]].call = writes[f[j]].call
          BY <1>3, <2>6
    <3>2. f[i] = f[j]
          BY <2>1, <2>4, <3>1
    <3> QED
        BY <1>3, <3>2
  <2>7. \A i \in 1..Len(writes'), j \in 1..Len(reads) : writes'[i].call # reads[j]
        BY <1>3, <2>2, <2>4
  <2>8. \A i \in 1..Len(reads) : reads[i] # c
        BY <2>2
  <2>9. \A j \in 1..Len(writes') : stage[writes'[j].call] = "pending"
        BY <1>3, <2>3, <2>4
  <2> QED
      BY <2>5, <2>6, <2>7, <2>8, <2>9
<1> HIDE DEF c
<1>5. CASE reads' = Append(reads, c) /\ UNCHANGED callVars
  <2>1. /\ Len(reads') = Len(reads) + 1
        /\ \A i \in 1..Len(reads) : reads'[i] = reads[i]
        /\ reads'[Len(reads) + 1] = c
        /\ Len(reads) \in Nat
        BY <1>1, <1>5 DEF TypeOK
  <2>2. UNCHANGED <<stage, completions>>
        BY <1>5 DEF callVars
  <2>3. \A i \in 1..Len(reads') : i = Len(reads) + 1 \/ i \in 1..Len(reads)
        BY <2>1
  <2>4. CompletedOnce' /\ StageKinds'
        BY <2>2 DEF CompletedOnce, StageKinds
  <2>5. QueuedWait'
        BY <1>1, <1>4, <2>1, <2>2, <2>3 DEF QueuedWait
  <2>6. QueuedOnce'
    <3>1. \A i, j \in 1..Len(reads') : reads'[i] = reads'[j] => i = j
          BY <1>4, <2>1, <2>3 DEF QueuedOnce
    <3>2. \A i \in 1..Len(writes'), j \in 1..Len(reads') : writes'[i].call # reads'[j]
          BY <1>4, <2>1, <2>3
    <3> QED
        BY <1>4, <3>1, <3>2 DEF QueuedOnce
  <2>7. SyncBufferOwned'
        BY <1>1, <1>2, <2>1, <2>2, <2>3 DEF SyncBufferOwned
  <2> QED
      BY <2>4, <2>5, <2>6, <2>7
<1>6. CASE Finish(c, "sendFailed", NoCall) /\ UNCHANGED reads
  <2>1. /\ stage' = [stage EXCEPT ![c] = "finished"]
        /\ completions' = [completions EXCEPT ![c] = @ + 1]
        BY <1>6 DEF Finish
  <2>2. CompletedOnce' /\ StageKinds'
        BY <1>1, <2>1 DEF CompletedOnce, StageKinds, TypeOK
  <2>3. QueuedWait'
        BY <1>4, <1>6, <2>1, QueueTypes DEF QueuedWait, TypeOK
  <2>4. QueuedOnce'
        BY <1>4, <1>6 DEF QueuedOnce
  <2>5. SyncBufferOwned'
        BY <1>1, <1>2, <1>6, <2>1 DEF SyncBufferOwned, TypeOK
  <2> QED
      BY <2>2, <2>3, <2>4, <2>5
<1> QED
    BY <1>5, <1>6 DEF HandleWrite, c

(* A read handler takes the oldest read off the queue.                     *)
LEMMA ReadPopped ==
  ASSUME TypeOK, CallInv, reads # <<>>, reads' = Tail(reads), writes' = writes
  PROVE  /\ Head(reads) \in Calls
         /\ stage[Head(reads)] \in {"polling", "pending"}
         /\ \A i \in 1..Len(reads') : reads'[i] # Head(reads) /\ reads'[i] \in Calls
         /\ \A i \in 1..Len(writes') : writes'[i].call # Head(reads)
         /\ \A i \in 1..Len(reads') : \E j \in 1..Len(reads) : reads'[i] = reads[j]
         /\ QueuedOnce'
<1> USE DEF CallInv
<1>1. /\ Len(reads) >= 1 /\ Head(reads) = reads[1]
      /\ Len(reads') = Len(reads) - 1
      /\ \A i \in 1..Len(reads') : reads'[i] = reads[i + 1] /\ i + 1 \in 1..Len(reads)
      BY DEF TypeOK
<1>2. 1 \in 1..Len(reads) /\ Len(reads) \in Nat
      BY <1>1 DEF TypeOK
<1>3. /\ Head(reads) \in Calls
      /\ stage[Head(reads)] \in {"polling", "pending"}
      BY <1>1, <1>2, QueueTypes DEF QueuedWait
<1>4. \A i \in 1..Len(reads') : reads'[i] # Head(reads) /\ reads'[i] \in Calls
      BY <1>1, <1>2, QueueTypes DEF QueuedOnce
<1>5. \A i \in 1..Len(writes') : writes'[i].call # Head(reads)
      BY <1>1, <1>2 DEF QueuedOnce
<1>6. QueuedOnce'
  <2>1. \A i, j \in 1..Len(reads') : reads'[i] = reads'[j] => i = j
        BY <1>1, <1>2 DEF QueuedOnce
  <2>2. \A i \in 1..Len(writes'), j \in 1..Len(reads') : writes'[i].call # reads'[j]
        BY <1>1 DEF QueuedOnce
  <2> QED
      BY <2>1, <2>2 DEF QueuedOnce
<1> QED
    BY <1>1, <1>3, <1>4, <1>5, <1>6

(* ... and ends its call, if the call is asynchronous.                     *)
LEMMA AsyncReadCall ==
  ASSUME TypeOK, CallInv, reads # <<>>, reads' = Tail(reads), writes' = writes,
         Head(reads) \notin SyncCalls,
         stage' = [stage EXCEPT ![Head(reads)] = "finished"],
         completions' = [completions EXCEPT ![Head(reads)] = @ + 1],
         UNCHANGED <<pollOwner, response_received_>>
  PROVE  CallInv'
<1> USE DEF CallInv
<1> DEFINE c == Head(reads)
<1>1. /\ c \in Calls /\ stage[c] = "pending"
      BY ReadPopped DEF StageKinds
<1>2. CompletedOnce' /\ StageKinds'
      BY <1>1 DEF CompletedOnce, StageKinds, TypeOK
<1>3. QueuedWait'
      BY <1>1, ReadPopped, QueueTypes DEF QueuedWait, TypeOK
<1>4. QueuedOnce'
      BY ReadPopped
<1>5. SyncBufferOwned'
  <2>1. \A d \in Calls : stage'[d] = "polling" <=> stage[d] = "polling"
        BY <1>1 DEF TypeOK
  <2> QED
      BY <2>1, ReadPopped DEF SyncBufferOwned
<1> QED
    BY <1>2, <1>3, <1>4, <1>5

(* ... or leaves it to Send, if the call is synchronous.                   *)
LEMMA SyncReadCall ==
  ASSUME TypeOK, CallInv, reads # <<>>, reads' = Tail(reads), writes' = writes,
         Head(reads) \in SyncCalls,
         UNCHANGED <<stage, completions, pollOwner>>
  PROVE  CallInv'
<1> USE DEF CallInv
<1>1. CompletedOnce' /\ StageKinds'
      BY DEF CompletedOnce, StageKinds
<1>2. QueuedWait'
      BY ReadPopped DEF QueuedWait
<1>3. QueuedOnce'
      BY ReadPopped
<1>4. SyncBufferOwned'
  <2>1. Head(reads) = pollOwner
    <3>1. 1 \in 1..Len(reads) /\ Head(reads) = reads[1]
          BY DEF TypeOK
    <3> QED
        BY <3>1 DEF SyncBufferOwned
  <2>2. \A i \in 1..Len(reads') : reads'[i] \notin SyncCalls
        BY <2>1, ReadPopped DEF SyncBufferOwned
  <2> QED
      BY <2>2 DEF SyncBufferOwned
<1> QED
    BY <1>1, <1>2, <1>3, <1>4

(* Every step keeps the invariant.                                         *)
LEMMA NextCall == TypeOK /\ CallInv /\ [Next]_vars => CallInv'
<1> SUFFICES ASSUME TypeOK, CallInv, [Next]_vars
             PROVE  CallInv'
    OBVIOUS
<1> USE DEF callVars, userVars, linkVars, pollVars, netVars
<1>s. ASSUME UNCHANGED <<stage, completions, pollOwner, response_received_, writes, reads>>
      PROVE  CallInv'
      BY <1>s DEF CallInv, CompletedOnce, SyncBufferOwned, StageKinds, QueuedWait, QueuedOnce
<1>1. ASSUME NEW c \in Calls, GetServiceAddress(c)
      PROVE  CallInv'
      BY <1>1, CallerStep DEF GetServiceAddress, MayStart, Advance, Finish
<1>2. ASSUME NEW c \in Calls, Connect(c)
      PROVE  CallInv'
      BY <1>2, CallerStep DEF Connect, Advance, Finish
<1>3. ASSUME NEW c \in Calls, CheckCanceled(c)
      PROVE  CallInv'
      BY <1>3, CallerStep DEF CheckCanceled, Advance, Finish
<1>4. ASSUME NEW c \in Calls, SendAsync(c)
      PROVE  CallInv'
      BY <1>4, SendAsyncCall
<1>5. ASSUME NEW c \in Calls, Send(c)
      PROVE  CallInv'
      BY <1>5, SendCall
<1>6. ASSUME NEW c \in Calls, SendReturns(c)
      PROVE  CallInv'
      BY <1>6, SendReturnsCall
<1>7. CASE RunWriteHandler
      BY <1>7, HandleWriteCall DEF RunWriteHandler, Runnable
<1>8. CASE HandleClientRead
      BY <1>8, SyncReadCall DEF HandleClientRead, TakeChunk
<1>9. CASE HandleClientAsyncRead
  <2>1. PICK chunk \in Chunks(s2c) :
          /\ TakeChunk(chunk)
          /\ Head(reads) \notin SyncCalls
          /\ IF canceled[Head(reads)]
               THEN Finish(Head(reads), "canceled", NoCall)
               ELSE FinishWith(Head(reads), chunk)
          /\ UNCHANGED pollVars
        BY <1>9 DEF HandleClientAsyncRead
  <2>2. reads # <<>> /\ reads' = Tail(reads) /\ writes' = writes
        BY <2>1 DEF TakeChunk
  <2>3. /\ stage' = [stage EXCEPT ![Head(reads)] = "finished"]
        /\ completions' = [completions EXCEPT ![Head(reads)] = @ + 1]
        BY <2>1, <2>2, ReadPopped, FinishFacts DEF Finish
  <2> QED
      BY <2>1, <2>2, <2>3, AsyncReadCall
<1>10. CASE HandleReadError
  <2>1. CASE Head(reads) \in SyncCalls
        BY <1>10, <2>1, SyncReadCall DEF HandleReadError
  <2>2. CASE Head(reads) \notin SyncCalls
        BY <1>10, <2>2, AsyncReadCall DEF HandleReadError, Finish
  <2> QED
      BY <2>1, <2>2
<1>11. ASSUME NEW c \in Calls, StartCancel(c)
       PROVE  CallInv'
       BY <1>11, <1>s DEF StartCancel
<1>12. CASE Close
       BY <1>12, <1>s DEF Close
<1>13. CASE StopIo
       BY <1>13, <1>s DEF StopIo
<1>14. CASE Serve
       BY <1>14, <1>s DEF Serve
<1>15. ASSUME NEW s \in Servers, ServerCrash(s) \/ ServerRestart(s)
       PROVE  CallInv'
       BY <1>15, <1>s DEF ServerCrash, ServerRestart
<1>16. CASE UNCHANGED vars
       BY <1>16, <1>s DEF vars
<1> QED
    BY <1>1, <1>2, <1>3, <1>4, <1>5, <1>6, <1>7, <1>8, <1>9, <1>10, <1>11, <1>12,
       <1>13, <1>14, <1>15, <1>16
       DEF Next, CallStep, HandlerStep

(* Every call ends at most once: no done closure runs twice, whatever      *)
(* calls, cancellations, crashes, splits of messages and the destruction   *)
(* of the channel interleave.                                              *)
THEOREM CompletionSafety == Spec => []CompletedOnce
<1>1. CallInv => CompletedOnce
      BY DEF CallInv
<1> QED
    BY <1>1, InitCall, NextCall, TypeCorrect, PTL DEF Spec

(* The single response buffer is only ever written for the Send that       *)
(* polls, and only before it looks.                                        *)
THEOREM BufferSafety == Spec => []SyncBufferOwned
<1>1. CallInv => SyncBufferOwned
      BY DEF CallInv
<1> QED
    BY <1>1, InitCall, NextCall, TypeCorrect, PTL DEF Spec

-----------------------------------------------------------------------------
(* Why a refused call reaches no server: only SendAsync and Send put a     *)
(* request on the wire, and behind them no ending counts as a refusal.     *)
Early == {"idle", "resolved", "connected", "ready"}
Refusals == {"notFound", "connectionFailed", "canceledBeforeSending"}

Untouched(c) == c \notin served /\ \A i \in 1..Len(c2s) : c2s[i].msg # c

RefusalInv ==
  \A c \in Calls :
    /\ stage[c] # "finished" => result[c] = "none"
    /\ stage[c] \in Early \/ result[c] \in Refusals => Untouched(c)

(* How a call goes on in one step: not at all, further on, or to its end.  *)
Proceeds(c) ==
  \/ stage'[c] = stage[c] /\ result'[c] = result[c]
  \/ /\ stage[c] # "finished" /\ stage'[c] # "finished" /\ result'[c] = result[c]
     /\ stage'[c] \in Early => stage[c] \in Early
  \/ stage'[c] = "finished" /\ (result'[c] \in Refusals => stage[c] \in Early)

(* No call is refused once it has left its thread.                         *)
LEMMA AllProceed ==
  ASSUME TypeOK, [Next]_vars
  PROVE  \A d \in Calls : Proceeds(d)
<1> USE DEF callVars, userVars, linkVars, pollVars, netVars
<1>s. ASSUME UNCHANGED <<stage, result>> PROVE \A d \in Calls : Proceeds(d)
  BY <1>s DEF Proceeds
<1>a. ASSUME NEW c, NEW t \in {"resolved", "connected", "ready", "polling", "pending"},
             Advance(c, t), stage[c] \in Early
      PROVE  \A d \in Calls : Proceeds(d)
  BY <1>a DEF Advance, Proceeds, Early, TypeOK
<1>f. ASSUME NEW c, NEW r, NEW from, Finish(c, r, from), r \in Refusals => stage[c] \in Early
      PROVE  \A d \in Calls : Proceeds(d)
  <2>1. \A d \in Calls : d # c => stage'[d] = stage[d] /\ result'[d] = result[d]
    BY <1>f DEF Finish, TypeOK
  <2>2. c \in Calls => stage'[c] = "finished" /\ result'[c] = r
    BY <1>f DEF Finish, TypeOK
  <2> QED BY <1>f, <2>1, <2>2 DEF Proceeds
<1>w. ASSUME NEW c, NEW buffer, FinishWith(c, buffer)
      PROVE  \A d \in Calls : Proceeds(d)
  <2>1. PICK r \in {"undecodable", "ok", "serviceError"},
             from \in {NoCall, Decoded(buffer).call} : Finish(c, r, from)
    BY <1>w DEF FinishWith
  <2> QED BY <1>f, <2>1 DEF Refusals
<1>1. ASSUME NEW c \in Calls, CallStep(c) PROVE \A d \in Calls : Proceeds(d)
  <2>1. CASE GetServiceAddress(c)
    <3>1. stage[c] \in Early
      BY <2>1 DEF GetServiceAddress, MayStart, Early
    <3>2. Advance(c, "resolved") \/ Finish(c, "notFound", NoCall)
      BY <2>1 DEF GetServiceAddress
    <3> QED BY <1>a, <1>f, <3>1, <3>2
  <2>2. CASE Connect(c)
    <3>1. stage[c] \in Early
      BY <2>2 DEF Connect, Early
    <3>2. Advance(c, "connected") \/ Finish(c, "connectionFailed", NoCall)
      BY <2>2 DEF Connect
    <3> QED BY <1>a, <1>f, <3>1, <3>2
  <2>3. CASE CheckCanceled(c)
    <3>1. stage[c] \in Early
      BY <2>3 DEF CheckCanceled, Early
    <3>2. Advance(c, "ready") \/ Finish(c, "canceledBeforeSending", NoCall)
      BY <2>3 DEF CheckCanceled
    <3> QED BY <1>a, <1>f, <3>1, <3>2
  <2>4. CASE SendAsync(c)
    BY <1>a, <2>4 DEF SendAsync, Early
  <2>5. CASE Send(c)
    <3>1. stage[c] \in Early
      BY <2>5 DEF Send, Early
    <3>2. Advance(c, "polling") \/ Finish(c, "sendFailed", NoCall)
      BY <2>5 DEF Send
    <3> QED BY <1>a, <1>f, <3>1, <3>2
  <2>6. CASE SendReturns(c)
    BY <1>w, <2>6 DEF SendReturns
  <2> QED BY <1>1, <2>1, <2>2, <2>3, <2>4, <2>5, <2>6 DEF CallStep
<1>2. CASE RunWriteHandler
  <2>1. PICK i \in Runnable(writes) : HandleWrite(i)
    BY <1>2 DEF RunWriteHandler
  <2>2. CASE UNCHANGED callVars
    BY <1>s, <2>2
  <2>3. CASE Finish(writes[i].call, "sendFailed", NoCall)
    BY <1>f, <2>3 DEF Refusals
  <2> QED BY <2>1, <2>2, <2>3 DEF HandleWrite
<1>3. CASE HandleClientRead
  BY <1>3, <1>s DEF HandleClientRead
<1>4. CASE HandleClientAsyncRead
  <2>1. CASE Finish(Head(reads), "canceled", NoCall)
    BY <1>f, <2>1 DEF Refusals
  <2>2. CASE \E chunk \in Chunks(s2c) : FinishWith(Head(reads), chunk)
    BY <1>w, <2>2
  <2> QED BY <1>4, <2>1, <2>2 DEF HandleClientAsyncRead
<1>5. CASE HandleReadError
  <2>1. CASE UNCHANGED callVars
    BY <1>s, <2>1
  <2>2. CASE Finish(Head(reads), "sendFailed", NoCall)
    BY <1>f, <2>2 DEF Refusals
  <2> QED BY <1>5, <2>1, <2>2 DEF HandleReadError
<1>6. ASSUME \/ \E c \in Calls : StartCancel(c)
             \/ Close \/ StopIo \/ Serve
             \/ \E s \in Servers : ServerCrash(s) \/ ServerRestart(s)
             \/ UNCHANGED vars
      PROVE  \A d \in Calls : Proceeds(d)
  BY <1>6, <1>s DEF StartCancel, Close, StopIo, Serve, ServerCrash, ServerRestart, vars
<1> QED
  BY <1>1, <1>2, <1>3, <1>4, <1>5, <1>6 DEF Next, HandlerStep

(* A server sees a call only after its own SendAsync or Send.              *)
LEMMA StaysUntouched ==
  ASSUME TypeOK, [Next]_vars, NEW d \in Calls, Untouched(d)
  PROVE  Untouched(d)' \/ SendAsync(d) \/ Send(d)
<1> USE DEF callVars, userVars, linkVars, pollVars, netVars
<1>0. c2s \in Seq(Fragment(Calls))
  BY DEF TypeOK
<1>s. ASSUME UNCHANGED <<c2s, served>> PROVE Untouched(d)'
  BY <1>s DEF Untouched
<1>p. ASSUME NEW c \in Calls, c # d, PutOnWire(c), UNCHANGED served PROVE Untouched(d)'
  <2>1. CASE c2s' = c2s
    BY <1>p, <1>s, <2>1
  <2>2. CASE c2s' = c2s \o Fragments(c)
    <3>1. Fragments(c) \in Seq(Fragment({c}))
      BY FragmentsType
    <3>2. \A f \in Fragment({c}) : f.msg = c
      BY DEF Fragment
    <3>3. ASSUME NEW i \in 1..Len(c2s') PROVE c2s'[i].msg # d
      <4>1. CASE i <= Len(c2s)
        BY <1>0, <2>2, <3>1, <4>1 DEF Untouched
      <4>2. CASE i > Len(c2s)
        <5>1. i - Len(c2s) \in 1..Len(Fragments(c)) /\ c2s'[i] = Fragments(c)[i - Len(c2s)]
          BY <1>0, <2>2, <3>1, <4>2
        <5>2. c2s'[i] \in Fragment({c})
          BY <3>1, <5>1
        <5> QED BY <1>p, <3>2, <5>2
      <4> QED BY <1>0, <2>2, <3>1, <4>1, <4>2
    <3> QED BY <1>p, <3>3 DEF Untouched
  <2> QED BY <1>p, <2>1, <2>2 DEF PutOnWire
<1>1. CASE \E c \in Calls : CallStep(c) \/ StartCancel(c)
  <2>1. PICK c \in Calls : CallStep(c) \/ StartCancel(c)
    BY <1>1
  <2>2. CASE SendAsync(c)
    BY <1>p, <2>2 DEF SendAsync
  <2>3. CASE Send(c)
    BY <1>p, <2>3 DEF Send
  <2>4. CASE GetServiceAddress(c) \/ Connect(c) \/ CheckCanceled(c) \/ SendReturns(c)
             \/ StartCancel(c)
    BY <1>s, <2>4 DEF GetServiceAddress, Connect, CheckCanceled, SendReturns, StartCancel
  <2> QED BY <2>1, <2>2, <2>3, <2>4 DEF CallStep
<1>2. CASE HandlerStep
  BY <1>2, <1>s DEF HandlerStep, RunWriteHandler, HandleWrite, HandleClientRead,
     HandleClientAsyncRead, HandleReadError, TakeChunk
<1>3. CASE Close \/ StopIo \/ UNCHANGED vars
  BY <1>3, <1>s DEF Close, StopIo, vars
<1>4. CASE Serve
  <2>1. PICK chunk \in Chunks(c2s) :
          /\ c2s' = After(c2s, chunk)
          /\ served' = IF Decodes(chunk) THEN served \union {Decoded(chunk)} ELSE served
    BY <1>4 DEF Serve
  <2>2. /\ Len(c2s) >= 1 /\ Len(chunk) >= 1 /\ chunk[1] = c2s[1]
        /\ \A j \in 1..Len(c2s') : \E i \in 1..Len(c2s) : c2s'[j] = c2s[i]
    BY <1>0, <2>1, ChunkElements
  <2>3. Decoded(chunk) # d
    <3>1. 1 \in 1..Len(c2s)
      BY <1>0, <2>2
    <3> QED BY <2>2, <3>1 DEF Decoded, Untouched
  <2> QED BY <2>1, <2>2, <2>3 DEF Untouched
<1>5. CASE \E s \in Servers : ServerCrash(s) \/ ServerRestart(s)
  <2>1. served' = served /\ (c2s' = c2s \/ c2s' = <<>>)
    BY <1>5 DEF ServerCrash, ServerRestart
  <2> QED BY <2>1 DEF Untouched
<1> QED
  BY <1>1, <1>2, <1>3, <1>4, <1>5 DEF Next

(* A call that no server may have seen stays so until its own thread sends.*)
LEMMA RefusalInvariant == Spec => []RefusalInv
<1>1. Init => RefusalInv
  BY DEF Init, RefusalInv, Untouched, Refusals
<1>2. TypeOK /\ RefusalInv /\ [Next]_vars => RefusalInv'
  <2> SUFFICES ASSUME TypeOK, RefusalInv, [Next]_vars, NEW c \in Calls
               PROVE  /\ stage'[c] # "finished" => result'[c] = "none"
                      /\ stage'[c] \in Early \/ result'[c] \in Refusals => Untouched(c)'
    BY DEF RefusalInv
  <2>1. Proceeds(c)
    BY AllProceed
  <2>2. stage'[c] # "finished" => result'[c] = "none"
    BY <2>1 DEF Proceeds, RefusalInv
  <2>3. CASE SendAsync(c) \/ Send(c)
    <3>1. stage[c] = "ready" /\ result[c] = "none"
      BY <2>3 DEF SendAsync, Send, RefusalInv
    <3>2. Advance(c, "pending") \/ Advance(c, "polling") \/ Finish(c, "sendFailed", NoCall)
      BY <2>3 DEF SendAsync, Send
    <3>3. stage'[c] \notin Early /\ result'[c] \notin Refusals
      BY <3>1, <3>2 DEF Advance, Finish, Early, Refusals, TypeOK
    <3> QED BY <2>2, <3>3
  <2>4. CASE ~(SendAsync(c) \/ Send(c))
    <3>1. ASSUME stage'[c] \in Early \/ result'[c] \in Refusals
          PROVE  stage[c] \in Early \/ result[c] \in Refusals
      BY <2>1, <3>1 DEF Proceeds, RefusalInv, Early, Refusals
    <3>2. Untouched(c) => Untouched(c)'
      BY <2>4, StaysUntouched
    <3> QED BY <2>2, <3>1, <3>2 DEF RefusalInv
  <2> QED BY <2>3, <2>4
<1> QED BY <1>1, <1>2, TypeCorrect, PTL DEF Spec

(* A call that was refused, for want of an address or of a connection or   *)
(* because it was cancelled in time, has not been seen by any server and   *)
(* never will be, for any mix of concurrent calls.                         *)
THEOREM RefusalSafety == Spec => []RefusedNeverServed
<1>1. RefusalInv => RefusedNeverServed
  BY DEF RefusalInv, RefusedNeverServed, Refusals, Untouched
<1> QED BY <1>1, RefusalInvariant, PTL

-----------------------------------------------------------------------------
(* Why a success is earned: a response that says ok answers a request that *)
(* a server has served, on the wire and in the buffer of Send.             *)
Earned(stream) == \A i \in 1..Len(stream) : stream[i].msg.ok => stream[i].msg.call \in served

Genuine == Earned(s2c) /\ Earned(response_)

(* The fragments of a response all say the same.                           *)
LEMMA ResponseFragments ==
  ASSUME NEW m \in Response
  PROVE  /\ Fragments(m) \in Seq(Fragment(Response))
         /\ \A i \in 1..Len(Fragments(m)) : Fragments(m)[i].msg = m
<1>1. /\ Fragments(m) \in Seq(Fragment(Response)) /\ Len(Fragments(m)) = Parts
      /\ \A i \in 1..Parts : Fragments(m)[i] = [msg |-> m, part |-> i]
  BY FragmentsIndex
<1> QED BY <1>1

(* Only Serve makes responses, and what reads take was there before.       *)
LEMMA NextGenuine == TypeOK /\ Genuine /\ [Next]_vars => Genuine'
<1> SUFFICES ASSUME TypeOK, Genuine, [Next]_vars PROVE Genuine'
  OBVIOUS
<1> USE DEF callVars, userVars, linkVars, pollVars, netVars
<1>0. s2c \in Seq(Fragment(Response)) /\ c2s \in Seq(Fragment(Calls))
  BY DEF TypeOK
<1>s. ASSUME served' = served, response_' = response_, s2c' \in {s2c, <<>>} PROVE Genuine'
  BY <1>s DEF Genuine, Earned
<1>1. CASE \E c \in Calls : CallStep(c) \/ StartCancel(c)
  BY <1>1, <1>s DEF CallStep, GetServiceAddress, Connect, CheckCanceled, SendAsync, Send,
     SendReturns, StartCancel
<1>2. CASE RunWriteHandler \/ HandleReadError \/ Close \/ StopIo \/ UNCHANGED vars
  BY <1>2, <1>s DEF RunWriteHandler, HandleWrite, HandleReadError, Close, StopIo, vars
<1>3. ASSUME NEW chunk \in Chunks(s2c), TakeChunk(chunk), response_' \in {response_, chunk}
      PROVE  Genuine'
  <2>1. served' = served /\ s2c' = After(s2c, chunk)
    BY <1>3 DEF TakeChunk
  <2>2. \A j \in 1..Len(s2c') : \E i \in 1..Len(s2c) : s2c'[j] = s2c[i]
    BY <1>0, <2>1, ChunkElements
  <2>3. \A j \in 1..Len(chunk) : \E i \in 1..Len(s2c) : chunk[j] = s2c[i]
    <3>1. Len(chunk) \in 1..Len(s2c) /\ \A j \in 1..Len(chunk) : chunk[j] = s2c[j]
      BY <1>0, ChunkIndex
    <3> QED BY <1>0, <3>1
  <2>4. Earned(s2c)' /\ Earned(chunk)
    BY <2>1, <2>2, <2>3 DEF Genuine, Earned
  <2> QED BY <1>3, <2>1, <2>4 DEF Genuine, Earned
<1>4. CASE HandleClientRead \/ HandleClientAsyncRead
  BY <1>3, <1>4 DEF HandleClientRead, HandleClientAsyncRead
<1>5. CASE Serve
  <2>1. PICK chunk \in Chunks(c2s), ok \in BOOLEAN :
          /\ served' = IF Decodes(chunk) THEN served \union {Decoded(chunk)} ELSE served
          /\ s2c' = IF socket = "connected"
                      THEN s2c \o Fragments(OnMessage(chunk, ok)) ELSE s2c
    BY <1>5 DEF Serve
  <2> DEFINE m == OnMessage(chunk, ok)
  <2>2. m \in Response /\ (m.ok => m.call \in served') /\ served \subseteq served'
    <3>1. CASE Decodes(chunk)
      <4>1. Decoded(chunk) \in Calls
        BY <1>0, <3>1, ChunkType, DecodedType
      <4> QED BY <2>1, <3>1, <4>1 DEF OnMessage, Response
    <3>2. CASE ~Decodes(chunk)
      BY <2>1, <3>2 DEF OnMessage, Response
    <3> QED BY <3>1, <3>2
  <2> HIDE DEF m
  <2>3. CASE s2c' = s2c
    BY <1>5, <2>2, <2>3 DEF Serve, Genuine, Earned
  <2>4. CASE s2c' = s2c \o Fragments(m)
    <3> DEFINE new == Fragments(m)
    <3>1. new \in Seq(Fragment(Response)) /\ \A i \in 1..Len(new) : new[i].msg = m
      BY <2>2, ResponseFragments
    <3>2. Len(s2c) \in Nat /\ Len(new) \in Nat
      BY <1>0, <3>1
    <3> HIDE DEF new
    <3>3. /\ Len(s2c \o new) = Len(s2c) + Len(new)
          /\ \A i \in 1..Len(s2c) + Len(new) :
               (s2c \o new)[i] = IF i <= Len(s2c) THEN s2c[i] ELSE new[i - Len(s2c)]
      BY <1>0, <3>1, ConcatProperties
    <3>4. ASSUME NEW i \in 1..Len(s2c \o new)
          PROVE  \/ i \in 1..Len(s2c) /\ (s2c \o new)[i] = s2c[i]
                 \/ i - Len(s2c) \in 1..Len(new) /\ (s2c \o new)[i] = new[i - Len(s2c)]
      BY <3>2, <3>3
    <3>5. \A i \in 1..Len(s2c \o new) :
            (s2c \o new)[i].msg.ok => (s2c \o new)[i].msg.call \in served'
      BY <2>2, <3>1, <3>4 DEF Genuine, Earned
    <3>6. s2c' = s2c \o new /\ response_' = response_
      BY <1>5, <2>4 DEF Serve, new
    <3> QED BY <2>2, <3>5, <3>6 DEF Genuine, Earned
  <2> QED BY <2>1, <2>3, <2>4 DEF m
<1>6. CASE \E s \in Servers : ServerCrash(s) \/ ServerRestart(s)
  <2>1. CASE s2c' \in {s2c, <<>>}
    BY <1>6, <1>s, <2>1 DEF ServerCrash, ServerRestart
  <2>2. ASSUME NEW n \in 0..Len(s2c), s2c' = SubSeq(s2c, 1, n) PROVE Genuine'
    <3>1. Len(s2c') = n /\ \A j \in 1..n : s2c'[j] = s2c[j]
      BY <1>0, <2>2, SubSeqProperties
    <3>2. n \in 0..Len(s2c) /\ Len(s2c) \in Nat
      BY <1>0, <2>2
    <3>3. \A j \in 1..n : j \in 1..Len(s2c)
      BY <3>2
    <3>4. served' = served /\ response_' = response_
      BY <1>6 DEF ServerCrash, ServerRestart
    <3> QED BY <3>1, <3>3, <3>4 DEF Genuine, Earned
  <2> QED BY <1>6, <2>1, <2>2 DEF ServerCrash, ServerRestart
<1> QED BY <1>1, <1>2, <1>4, <1>5, <1>6 DEF Next, HandlerStep

-----------------------------------------------------------------------------
(* What a step does to the calls: nothing, or it starts one, takes one a   *)
(* step further, or ends one that had not ended, with "ok" only when a     *)
(* server has served what it is answered with.                             *)
Begins(c) == MayStart(c) /\ Advance(c, "resolved")

GoesOn(c) ==
  /\ stage[c] \in {"resolved", "connected", "ready"}
  /\ \E s \in {"connected", "ready", "polling", "pending"} : Advance(c, s)

Fails(c) ==
  /\ stage[c] # "finished"
  /\ stage[c] = "idle" => MayStart(c)
  /\ \E r \in Failures, from \in Calls \union {NoCall} : Finish(c, r, from)

Succeeds(c) ==
  /\ stage[c] \in {"polling", "pending"}
  /\ \E from \in served : Finish(c, "ok", from)

Moves ==
  \/ UNCHANGED <<stage, result, answer>>
  \/ \E c \in Calls :
       /\ UNCHANGED served
       /\ Begins(c) \/ GoesOn(c) \/ Fails(c) \/ Succeeds(c)

(* A response buffer ends its call with what a server has served.          *)
LEMMA FinishMoves ==
  ASSUME NEW c \in Calls, NEW buffer \in Seq(Fragment(Response)), Earned(buffer),
         stage[c] \in {"polling", "pending"}, FinishWith(c, buffer)
  PROVE  Fails(c) \/ Succeeds(c)
<1>1. CASE ~Decodes(buffer)
  BY <1>1 DEF FinishWith, Fails, Failures
<1>2. CASE Decodes(buffer)
  <2>1. 1 \in 1..Len(buffer) /\ Decoded(buffer) = buffer[1].msg /\ Decoded(buffer) \in Response
    BY <1>2, DecodedType, WireAssumption DEF WireAssumption, Decodes, Decoded
  <2>2. CASE Decoded(buffer).ok
    BY <1>2, <2>1, <2>2 DEF FinishWith, Succeeds, Earned
  <2>3. CASE ~Decoded(buffer).ok
    BY <1>2, <2>1, <2>3 DEF FinishWith, Fails, Failures, Response
  <2> QED BY <2>2, <2>3
<1> QED BY <1>1, <1>2

(* Every step moves one call at most.                                      *)
LEMMA NextMoves ==
  ASSUME TypeOK, CallInv, Genuine, [Next]_vars
  PROVE  Moves
<1> USE DEF callVars, userVars, linkVars, pollVars, netVars
<1>s. ASSUME UNCHANGED <<stage, result, answer>> PROVE Moves
  BY <1>s DEF Moves
<1>m. ASSUME NEW c \in Calls, Begins(c) \/ GoesOn(c) \/ Fails(c) \/ Succeeds(c),
             UNCHANGED served
      PROVE  Moves
  BY <1>m DEF Moves
<1>f. ASSUME NEW c \in Calls, NEW r \in Failures, stage[c] # "finished",
             stage[c] = "idle" => MayStart(c), Finish(c, r, NoCall), UNCHANGED served
      PROVE  Moves
  <2>1. Fails(c)
    BY <1>f DEF Fails
  <2> QED BY <1>f, <1>m, <2>1
<1>1. ASSUME NEW c \in Calls, CallStep(c) PROVE Moves
  <2>1. CASE GetServiceAddress(c)
    <3>1. CASE Advance(c, "resolved")
      BY <1>m, <2>1, <3>1 DEF GetServiceAddress, Begins
    <3>2. CASE Finish(c, "notFound", NoCall)
      BY <1>f, <2>1, <3>2 DEF GetServiceAddress, MayStart, Failures
    <3> QED BY <2>1, <3>1, <3>2 DEF GetServiceAddress
  <2>2. CASE Connect(c)
    <3>1. CASE Advance(c, "connected")
      BY <1>m, <2>2, <3>1 DEF Connect, GoesOn
    <3>2. CASE Finish(c, "connectionFailed", NoCall)
      BY <1>f, <2>2, <3>2 DEF Connect, Failures
    <3> QED BY <2>2, <3>1, <3>2 DEF Connect
  <2>3. CASE CheckCanceled(c)
    <3>1. CASE Advance(c, "ready")
      BY <1>m, <2>3, <3>1 DEF CheckCanceled, GoesOn
    <3>2. CASE Finish(c, "canceledBeforeSending", NoCall)
      BY <1>f, <2>3, <3>2 DEF CheckCanceled, Failures
    <3> QED BY <2>3, <3>1, <3>2 DEF CheckCanceled
  <2>4. CASE SendAsync(c)
    BY <1>m, <2>4 DEF SendAsync, GoesOn
  <2>5. CASE Send(c)
    <3>1. CASE Advance(c, "polling")
      BY <1>m, <2>5, <3>1 DEF Send, GoesOn
    <3>2. CASE Finish(c, "sendFailed", NoCall)
      BY <1>f, <2>5, <3>2 DEF Send, Failures
    <3> QED BY <2>5, <3>1, <3>2 DEF Send
  <2>6. CASE SendReturns(c)
    <3>1. Fails(c) \/ Succeeds(c)
      BY <2>6, FinishMoves DEF SendReturns, TypeOK, Genuine
    <3> QED BY <1>m, <2>6, <3>1 DEF SendReturns
  <2> QED BY <1>1, <2>1, <2>2, <2>3, <2>4, <2>5, <2>6 DEF CallStep
<1>2. CASE RunWriteHandler
  <2>1. PICK i \in Runnable(writes) : HandleWrite(i)
    BY <1>2 DEF RunWriteHandler
  <2>2. i \in 1..Len(writes) /\ UNCHANGED served
    BY <2>1 DEF Runnable, HandleWrite
  <2>3. writes[i].call \in Calls /\ stage[writes[i].call] = "pending"
    BY <2>2, QueueTypes DEF CallInv, QueuedWait
  <2>4. CASE UNCHANGED callVars
    BY <1>s, <2>4
  <2>5. CASE Finish(writes[i].call, "sendFailed", NoCall)
    BY <1>f, <2>2, <2>3, <2>5 DEF Failures
  <2> QED BY <2>1, <2>4, <2>5 DEF HandleWrite
<1>h. ASSUME reads # <<>>
      PROVE  Head(reads) \in Calls /\ stage[Head(reads)] \in {"polling", "pending"}
  <2>1. reads \in Seq(Calls) /\ Head(reads) = reads[1] /\ 1 \in 1..Len(reads)
    BY <1>h DEF TypeOK
  <2> QED BY <2>1 DEF CallInv, QueuedWait
<1>3. CASE HandleClientRead
  BY <1>3, <1>s DEF HandleClientRead
<1>4. CASE HandleClientAsyncRead
  <2>1. PICK chunk \in Chunks(s2c) :
          /\ TakeChunk(chunk)
          /\ IF canceled[Head(reads)]
               THEN Finish(Head(reads), "canceled", NoCall)
               ELSE FinishWith(Head(reads), chunk)
    BY <1>4 DEF HandleClientAsyncRead
  <2>2. reads # <<>> /\ UNCHANGED served
    BY <2>1 DEF TakeChunk
  <2>3. chunk \in Seq(Fragment(Response)) /\ Earned(chunk)
    <3>1. s2c \in Seq(Fragment(Response))
      BY DEF TypeOK
    <3>2. chunk \in Seq(Fragment(Response))
      BY <3>1, ChunkType
    <3>3. Len(chunk) \in 1..Len(s2c) /\ \A j \in 1..Len(chunk) : chunk[j] = s2c[j]
      BY <3>1, ChunkIndex
    <3>4. \A j \in 1..Len(chunk) : j \in 1..Len(s2c)
      BY <3>1, <3>3
    <3> QED BY <3>2, <3>3, <3>4 DEF Genuine, Earned
  <2>4. CASE Finish(Head(reads), "canceled", NoCall)
    BY <1>f, <1>h, <2>2, <2>4 DEF Failures
  <2>5. CASE FinishWith(Head(reads), chunk)
    <3>1. Fails(Head(reads)) \/ Succeeds(Head(reads))
      BY <1>h, <2>2, <2>3, <2>5, FinishMoves
    <3> QED BY <1>h, <1>m, <2>2, <3>1
  <2> QED BY <2>1, <2>4, <2>5
<1>5. CASE HandleReadError
  <2>1. CASE UNCHANGED callVars
    BY <1>s, <2>1
  <2>2. CASE Finish(Head(reads), "sendFailed", NoCall)
    BY <1>5, <1>f, <1>h, <2>2 DEF HandleReadError, Failures
  <2> QED BY <1>5, <2>1, <2>2 DEF HandleReadError
<1>6. ASSUME \/ \E c \in Calls : StartCancel(c)
             \/ Close \/ StopIo \/ Serve
             \/ \E s \in Servers : ServerCrash(s) \/ ServerRestart(s)
             \/ UNCHANGED vars
      PROVE  Moves
  BY <1>6, <1>s DEF StartCancel, Close, StopIo, Serve, ServerCrash, ServerRestart, vars
<1> QED
  BY <1>1, <1>2, <1>3, <1>4, <1>5, <1>6 DEF Next, HandlerStep

-----------------------------------------------------------------------------
(* The channel implements RpcCall wherever calls get their own answers:    *)
(* what its callers see of a call, and what becomes of it in a step.       *)
PhaseOf(c) ==
  CASE stage[c] = "idle"                           -> "idle"
    [] stage[c] = "finished" /\ result[c] = "ok"   -> "succeeded"
    [] stage[c] = "finished" /\ result[c] # "ok"   -> "failed"
    [] OTHER                                       -> "pending"

GivenTo(c) == IF result[c] = "ok" THEN answer[c] ELSE NoCall

(* The servers process a call that its caller has sent, once or again.     *)
LEMMA ServedStep ==
  ASSUME TypeOK, RefusalInv, [Next]_vars, served' # served
  PROVE  /\ UNCHANGED <<stage, result, answer>>
         /\ \E d \in Calls \ served : served' = served \union {d} /\ stage[d] # "idle"
<1>1. Serve
  BY DEF Next, vars, CallStep, GetServiceAddress, Connect, CheckCanceled, SendAsync, Send,
         SendReturns, StartCancel, HandlerStep, RunWriteHandler, HandleWrite, HandleClientRead,
         HandleClientAsyncRead, TakeChunk, HandleReadError, Close, StopIo, ServerCrash,
         ServerRestart, netVars
<1>2. UNCHANGED <<stage, result, answer>>
  BY <1>1 DEF Serve, callVars
<1>3. PICK chunk \in Chunks(c2s) :
        served' = IF Decodes(chunk) THEN served \union {Decoded(chunk)} ELSE served
  BY <1>1 DEF Serve
<1>4. Decodes(chunk) /\ served' = served \union {Decoded(chunk)} /\ Decoded(chunk) \notin served
  BY <1>3
<1>5. c2s \in Seq(Fragment(Calls))
  BY DEF TypeOK
<1>6. Decoded(chunk) \in Calls
  BY <1>4, <1>5, ChunkType, DecodedType
<1>7. 1 \in 1..Len(c2s) /\ Decoded(chunk) = c2s[1].msg
  BY <1>5, ChunkElements DEF Decoded
<1>8. ~Untouched(Decoded(chunk))
  BY <1>7 DEF Untouched
<1>9. stage[Decoded(chunk)] # "idle"
  BY <1>6, <1>8 DEF RefusalInv, Early
<1> QED BY <1>2, <1>4, <1>6, <1>9

(* What a step does to the calls, as their callers see it.                 *)
LEMMA CallerSees ==
  ASSUME TypeOK, CallInv, RefusalInv, Genuine, OwnResponse', [Next]_vars, served' = served
  PROVE  \/ \A d \in Calls : PhaseOf(d)' = PhaseOf(d) /\ GivenTo(d)' = GivenTo(d)
         \/ \E c \in Calls :
              /\ \A d \in Calls \ {c} : PhaseOf(d)' = PhaseOf(d) /\ GivenTo(d)' = GivenTo(d)
              /\ \/ /\ PhaseOf(c) = "idle" /\ PhaseOf(c)' = "pending"
                    /\ GivenTo(c)' = GivenTo(c)
                 \/ /\ PhaseOf(c) = "pending" /\ PhaseOf(c)' = "succeeded"
                    /\ c \in served /\ GivenTo(c)' = c
                 \/ /\ PhaseOf(c) \in {"idle", "pending"} /\ PhaseOf(c)' = "failed"
                    /\ GivenTo(c)' = GivenTo(c)
<1>1. CASE UNCHANGED <<stage, result, answer>>
  BY <1>1 DEF PhaseOf, GivenTo
<1>2. ASSUME NEW c \in Calls, NEW t, Advance(c, t)
      PROVE  /\ stage'[c] = t /\ GivenTo(c)' = GivenTo(c) /\ UNCHANGED result
             /\ \A d \in Calls \ {c} : PhaseOf(d)' = PhaseOf(d) /\ GivenTo(d)' = GivenTo(d)
  BY <1>2 DEF Advance, TypeOK, PhaseOf, GivenTo
<1>3. ASSUME NEW c \in Calls, NEW r, NEW from, Finish(c, r, from)
      PROVE  /\ stage'[c] = "finished" /\ result'[c] = r /\ answer'[c] = from
             /\ \A d \in Calls \ {c} : PhaseOf(d)' = PhaseOf(d) /\ GivenTo(d)' = GivenTo(d)
  BY <1>3 DEF Finish, TypeOK, PhaseOf, GivenTo
<1>4. ASSUME NEW c \in Calls, stage[c] # "finished"
      PROVE  /\ PhaseOf(c) = IF stage[c] = "idle" THEN "idle" ELSE "pending"
             /\ GivenTo(c) = NoCall
  BY <1>4 DEF RefusalInv, PhaseOf, GivenTo
<1>5. ASSUME NEW c \in Calls, Begins(c)
      PROVE  /\ PhaseOf(c) = "idle" /\ PhaseOf(c)' = "pending" /\ GivenTo(c)' = GivenTo(c)
             /\ \A d \in Calls \ {c} : PhaseOf(d)' = PhaseOf(d) /\ GivenTo(d)' = GivenTo(d)
  BY <1>2, <1>5 DEF Begins, MayStart, PhaseOf
<1>6. ASSUME NEW c \in Calls, GoesOn(c)
      PROVE  \A d \in Calls : PhaseOf(d)' = PhaseOf(d) /\ GivenTo(d)' = GivenTo(d)
  <2>1. PICK t \in {"connected", "ready", "polling", "pending"} : Advance(c, t)
    BY <1>6 DEF GoesOn
  <2>2. PhaseOf(c) = "pending" /\ PhaseOf(c)' = "pending"
    BY <1>2, <1>6, <2>1 DEF GoesOn, PhaseOf
  <2> QED BY <1>2, <2>1, <2>2
<1>7. ASSUME NEW c \in Calls, Fails(c)
      PROVE  /\ PhaseOf(c) \in {"idle", "pending"} /\ PhaseOf(c)' = "failed"
             /\ GivenTo(c)' = GivenTo(c)
             /\ \A d \in Calls \ {c} : PhaseOf(d)' = PhaseOf(d) /\ GivenTo(d)' = GivenTo(d)
  <2>1. PICK r \in Failures, from \in Calls \union {NoCall} : Finish(c, r, from)
    BY <1>7 DEF Fails
  <2>2. r # "ok"
    BY DEF Failures
  <2>3. PhaseOf(c)' = "failed" /\ GivenTo(c)' = NoCall
    BY <1>3, <2>1, <2>2 DEF PhaseOf, GivenTo
  <2> QED BY <1>3, <1>4, <1>7, <2>1, <2>3 DEF Fails
<1>8. ASSUME NEW c \in Calls, Succeeds(c)
      PROVE  /\ PhaseOf(c) = "pending" /\ PhaseOf(c)' = "succeeded"
             /\ c \in served /\ GivenTo(c)' = c
             /\ \A d \in Calls \ {c} : PhaseOf(d)' = PhaseOf(d) /\ GivenTo(d)' = GivenTo(d)
  <2>1. PICK from \in served : Finish(c, "ok", from)
    BY <1>8 DEF Succeeds
  <2>2. from = c
    BY <1>3, <2>1 DEF OwnResponse
  <2>3. PhaseOf(c)' = "succeeded" /\ GivenTo(c)' = c
    BY <1>3, <2>1, <2>2 DEF PhaseOf, GivenTo
  <2> QED BY <1>3, <1>4, <1>8, <2>1, <2>2, <2>3 DEF Succeeds
<1>9. Moves
  BY NextMoves
<1> QED BY <1>1, <1>5, <1>6, <1>7, <1>8, <1>9 DEF Moves

(* Nothing has been processed and nobody has been answered at first.       *)
LEMMA InitRefines == Init => Rpc!RpcInit
<1> SUFFICES ASSUME Init PROVE Rpc!RpcInit
  OBVIOUS
<1>1. \A c \in Calls : PhaseOf(c) = "idle" /\ GivenTo(c) = NoCall
  BY DEF Init, PhaseOf, GivenTo
<1>2. [c \in Calls |-> PhaseOf(c)] = [c \in Calls |-> "idle"]
  BY <1>1
<1>3. [c \in Calls |-> GivenTo(c)] = [c \in Calls |-> NoCall]
  BY <1>1
<1>4. served = {}
  BY DEF Init
<1> QED BY <1>2, <1>3, <1>4 DEF Rpc!RpcInit, PhaseOf, GivenTo

(* Every step of the channel is a step of RpcCall, or none at all.         *)
LEMMA NextRefines ==
  ASSUME TypeOK, CallInv, RefusalInv, Genuine, OwnResponse', [Next]_vars
  PROVE  [Rpc!RpcNext]_Rpc!rpcVars
<1> DEFINE P == [c \in Calls |-> PhaseOf(c)]
           A == [c \in Calls |-> GivenTo(c)]
           Same(d) == PhaseOf(d)' = PhaseOf(d) /\ GivenTo(d)' = GivenTo(d)
<1>p. P' = [c \in Calls |-> PhaseOf(c)'] /\ A' = [c \in Calls |-> GivenTo(c)']
  OBVIOUS
<1>s. ASSUME \A d \in Calls : Same(d) PROVE P' = P /\ A' = A
  BY <1>p, <1>s
<1>c. ASSUME NEW c \in Calls, \A d \in Calls \ {c} : Same(d)
      PROVE  P' = [P EXCEPT ![c] = PhaseOf(c)'] /\ A' = [A EXCEPT ![c] = GivenTo(c)']
  BY <1>p, <1>c
<1>k. ASSUME NEW c \in Calls, GivenTo(c)' = GivenTo(c) PROVE [A EXCEPT ![c] = GivenTo(c)'] = A
  BY <1>k
<1>v. \A c \in Calls : P[c] = PhaseOf(c)
  OBVIOUS
<1>r. /\ Rpc!RpcNext <=>
           \E c \in Calls :
             \/ P[c] = "idle" /\ P' = [P EXCEPT ![c] = "pending"] /\ UNCHANGED <<A, served>>
             \/ P[c] # "idle" /\ c \notin served /\ served' = served \union {c}
                /\ UNCHANGED <<P, A>>
             \/ P[c] = "pending" /\ c \in served /\ P' = [P EXCEPT ![c] = "succeeded"]
                /\ A' = [A EXCEPT ![c] = c] /\ UNCHANGED served
             \/ P[c] \in {"idle", "pending"} /\ P' = [P EXCEPT ![c] = "failed"]
                /\ UNCHANGED <<A, served>>
      /\ (UNCHANGED Rpc!rpcVars <=> P' = P /\ A' = A /\ served' = served)
  BY DEF Rpc!RpcNext, Rpc!Invoke, Rpc!Process, Rpc!Succeed, Rpc!Fail, Rpc!rpcVars, PhaseOf, GivenTo
<1> HIDE DEF P, A
<1>1. CASE served' # served
  <2>1. UNCHANGED <<stage, result, answer>>
    BY <1>1, ServedStep
  <2>2. P' = P /\ A' = A
    BY <1>s, <2>1 DEF PhaseOf, GivenTo
  <2>3. PICK d \in Calls \ served : served' = served \union {d} /\ stage[d] # "idle"
    BY <1>1, ServedStep
  <2>4. P[d] # "idle"
    BY <1>v, <2>3 DEF PhaseOf
  <2> QED BY <1>r, <2>2, <2>3, <2>4
<1>2. CASE served' = served
  <2>1. CASE \A d \in Calls : Same(d)
    BY <1>2, <1>r, <1>s, <2>1
  <2>2. ASSUME NEW c \in Calls, \A d \in Calls \ {c} : Same(d),
               \/ /\ PhaseOf(c) = "idle" /\ PhaseOf(c)' = "pending"
                  /\ GivenTo(c)' = GivenTo(c)
               \/ /\ PhaseOf(c) = "pending" /\ PhaseOf(c)' = "succeeded"
                  /\ c \in served /\ GivenTo(c)' = c
               \/ /\ PhaseOf(c) \in {"idle", "pending"} /\ PhaseOf(c)' = "failed"
                  /\ GivenTo(c)' = GivenTo(c)
        PROVE  Rpc!RpcNext
    <3>1. P' = [P EXCEPT ![c] = PhaseOf(c)'] /\ A' = [A EXCEPT ![c] = GivenTo(c)']
      BY <1>c, <2>2
    <3>2. P[c] = PhaseOf(c)
      BY <1>v
    <3>3. GivenTo(c)' = GivenTo(c) => A' = A
      BY <1>k, <3>1
    <3> QED BY <1>2, <1>r, <2>2, <3>1, <3>2, <3>3
  <2> QED BY <1>2, <1>r, <2>1, <2>2, CallerSees
<1> QED BY <1>1, <1>2

(* Wherever every call gets its own answer, the channel is the remote call *)
(* that its users see: each is invoked once and ends once, and succeeds    *)
(* only after a server has processed it, with that server's answer.        *)
THEOREM CallRefinement == Spec /\ []OwnResponse => ImplementsRpcCall
<1>1. Init => Genuine
  BY DEF Init, Genuine, Earned
<1>2. Spec => []Genuine
  BY <1>1, NextGenuine, TypeCorrect, PTL DEF Spec
<1>3. Spec => []CallInv
  BY InitCall, NextCall, TypeCorrect, PTL DEF Spec
<1>4. TypeOK /\ CallInv /\ RefusalInv /\ Genuine /\ OwnResponse' /\ [Next]_vars
        => [Rpc!RpcNext]_Rpc!rpcVars
  BY NextRefines
<1> QED
  BY <1>2, <1>3, <1>4, InitRefines, TypeCorrect, RefusalInvariant, PTL
     DEF Spec, ImplementsRpcCall, Rpc!RpcSpec
-----------------------------------------------------------------------------
(* Why no handler drops a call.  A handler takes one entry off a queue and *)
(* ends its call or queues it again; and the socket of a Send that polls   *)
(* can break but not be closed, because nobody destroys the channel around *)
(* a thread inside CallMethod, so no read of a Send fails before it breaks.*)
Queued(c) ==
  \/ \E i \in 1..Len(writes) : writes[i].call = c
  \/ \E i \in 1..Len(reads) : reads[i] = c

PollsLive == pollOwner # NoCall => socket \in {"connected", "broken"}

WaitInv == NobodyForgotten /\ PollsLive

(* The calls that stay behind when a write handler or a read handler has   *)
(* taken its entry.                                                        *)
LEMMA QueuedBehind ==
  ASSUME TypeOK, NEW c
  PROVE  /\ \A i \in 1..Len(writes) :
              /\ writes' = Without(writes, i)
              /\ writes[i].call # c
              /\ \E j \in 1..Len(writes) : writes[j].call = c
              => \E j \in 1..Len(writes') : writes'[j].call = c
         /\ /\ reads # <<>>
            /\ reads' = Tail(reads)
            /\ Head(reads) # c
            /\ \E j \in 1..Len(reads) : reads[j] = c
            => \E j \in 1..Len(reads') : reads'[j] = c
<1>1. ASSUME NEW i \in 1..Len(writes), writes' = Without(writes, i), writes[i].call # c,
             NEW j \in 1..Len(writes), writes[j].call = c
      PROVE  \E k \in 1..Len(writes') : writes'[k].call = c
  <2> DEFINE W == [call : Calls, ok : BOOLEAN]
  <2>1. writes \in Seq(W)
    BY DEF TypeOK
  <2> HIDE DEF W
  <2>0. /\ Len(Without(writes, i)) = Len(writes) - 1
        /\ \A k \in 1..(Len(writes) - 1) :
             Without(writes, i)[k] = IF k < i THEN writes[k] ELSE writes[k + 1]
    BY <2>1, WithoutFacts
  <2>2. /\ Len(writes') = Len(writes) - 1 /\ Len(writes) \in Nat
        /\ \A k \in 1..(Len(writes) - 1) :
             writes'[k] = IF k < i THEN writes[k] ELSE writes[k + 1]
    BY <1>1, <2>0, <2>1
  <2>3. CASE j < i
    <3>1. j \in 1..(Len(writes) - 1)
      BY <2>2, <2>3
    <3> QED BY <1>1, <2>2, <2>3, <3>1
  <2>4. CASE j > i
    <3>1. j - 1 \in 1..(Len(writes) - 1) /\ ~(j - 1 < i) /\ (j - 1) + 1 = j
      BY <2>2, <2>4
    <3>2. writes'[j - 1] = writes[(j - 1) + 1]
      BY <2>2, <3>1
    <3> QED BY <1>1, <2>2, <3>1, <3>2
  <2>5. j # i
    BY <1>1
  <2> QED BY <2>3, <2>4, <2>5
<1>2. ASSUME reads # <<>>, reads' = Tail(reads), Head(reads) # c,
             NEW j \in 1..Len(reads), reads[j] = c
      PROVE  \E k \in 1..Len(reads') : reads'[k] = c
  <2>1. /\ Len(reads) \in Nat /\ Len(reads) >= 1 /\ Head(reads) = reads[1]
        /\ Len(reads') = Len(reads) - 1
        /\ \A k \in 1..Len(reads') : reads'[k] = reads[k + 1]
    BY <1>2 DEF TypeOK
  <2>2. j # 1
    BY <1>2, <2>1
  <2>3. j - 1 \in 1..Len(reads') /\ (j - 1) + 1 = j
    BY <2>1, <2>2
  <2>4. reads'[j - 1] = reads[(j - 1) + 1]
    BY <2>1, <2>3
  <2> QED BY <1>2, <2>3, <2>4
<1> QED BY <1>1, <1>2

(* A call that is put behind the others is queued, and so are the others.  *)
LEMMA QueuedLast ==
  ASSUME TypeOK, NEW c \in Calls, NEW d, d = c \/ Queued(d),
         \/ \E ok \in BOOLEAN : writes' = Append(writes, [call |-> c, ok |-> ok]) /\ reads' = reads
         \/ reads' = Append(reads, c) /\ writes' = writes
  PROVE  Queued(d)'
<1>0. Len(writes) \in Nat /\ Len(reads) \in Nat
  BY QueueTypes
<1>1. CASE \E ok \in BOOLEAN : writes' = Append(writes, [call |-> c, ok |-> ok]) /\ reads' = reads
  <2>1. PICK ok \in BOOLEAN : writes' = Append(writes, [call |-> c, ok |-> ok])
    BY <1>1
  <2>2. /\ Len(writes') = Len(writes) + 1
        /\ \A i \in 1..Len(writes) : writes'[i] = writes[i]
        /\ writes'[Len(writes) + 1].call = c
    BY <2>1 DEF TypeOK
  <2>3. /\ Len(writes) + 1 \in 1..Len(writes')
        /\ \A i \in 1..Len(writes) : i \in 1..Len(writes')
    BY <1>0, <2>2
  <2> QED BY <1>1, <2>2, <2>3 DEF Queued
<1>2. CASE reads' = Append(reads, c) /\ writes' = writes
  <2>1. /\ Len(reads') = Len(reads) + 1
        /\ \A i \in 1..Len(reads) : reads'[i] = reads[i]
        /\ reads'[Len(reads) + 1] = c
    BY <1>2 DEF TypeOK
  <2>2. /\ Len(reads) + 1 \in 1..Len(reads')
        /\ \A i \in 1..Len(reads) : i \in 1..Len(reads')
    BY <1>0, <2>1
  <2> QED BY <1>2, <2>1, <2>2 DEF Queued
<1> QED BY <1>1, <1>2

(* Steps that leave the queues and the Send that polls alone.              *)
LEMMA QuietWait ==
  ASSUME WaitInv, UNCHANGED <<writes, reads, pollOwner>>,
         \A c \in Calls : stage'[c] = "pending" => stage[c] = "pending",
         \/ pollOwner = NoCall
         \/ /\ response_received_' = response_received_
            /\ socket' = socket \/ socket' = "broken"
  PROVE  WaitInv'
  BY DEF WaitInv, NobodyForgotten, PollsLive

(* Nobody is queued, and nobody polls, at first.                           *)
LEMMA InitWait == Init => WaitInv
  BY DEF Init, WaitInv, NobodyForgotten, PollsLive

(* Every step keeps every waiting call queued.                             *)
LEMMA NextWait == TypeOK /\ CallInv /\ WaitInv /\ [Next]_vars => WaitInv'
<1> SUFFICES ASSUME TypeOK, CallInv, WaitInv, [Next]_vars PROVE WaitInv'
  OBVIOUS
<1> USE DEF callVars, userVars, linkVars, pollVars, netVars
<1>a. ASSUME NEW c \in Calls, NEW t \in Stages \ {"pending"}, stage' = [stage EXCEPT ![c] = t]
      PROVE  \A d \in Calls : stage'[d] = "pending" => d # c /\ stage[d] = "pending"
  BY <1>a DEF TypeOK
<1>w. \A d \in Calls : stage[d] = "pending" => Queued(d)
  BY DEF WaitInv, NobodyForgotten, Queued
<1>q. ASSUME \A d \in Calls : stage'[d] = "pending" => Queued(d)',
             pollOwner' # NoCall =>
               /\ socket' \in {"connected", "broken"}
               /\ socket' # "broken" =>
                    response_received_' \/ \E i \in 1..Len(reads') : reads'[i] = pollOwner'
      PROVE  WaitInv'
  BY <1>q DEF WaitInv, NobodyForgotten, PollsLive, Queued
<1>o. pollOwner # NoCall =>
        /\ socket \in {"connected", "broken"}
        /\ socket # "broken" =>
             response_received_ \/ \E i \in 1..Len(reads) : reads[i] = pollOwner
  BY DEF WaitInv, NobodyForgotten, PollsLive
<1>1. ASSUME NEW c \in Calls,
             GetServiceAddress(c) \/ Connect(c) \/ CheckCanceled(c)
      PROVE  WaitInv'
  <2>1. \E t \in {"resolved", "connected", "ready", "finished"} : stage' = [stage EXCEPT ![c] = t]
    BY <1>1 DEF GetServiceAddress, Connect, CheckCanceled, Advance, Finish
  <2>2. \A d \in Calls : stage'[d] = "pending" => stage[d] = "pending"
    BY <1>a, <2>1 DEF Stages
  <2>3. UNCHANGED <<writes, reads, pollOwner, response_received_>>
    BY <1>1 DEF GetServiceAddress, Connect, CheckCanceled
  <2>4. pollOwner = NoCall \/ socket' = socket
    BY <1>1 DEF GetServiceAddress, Connect, CheckCanceled
  <2> QED BY <2>2, <2>3, <2>4, QuietWait
<1>2. ASSUME NEW c \in Calls, SendAsync(c) PROVE WaitInv'
  <2>1. \E ok \in BOOLEAN : writes' = Append(writes, [call |-> c, ok |-> ok]) /\ reads' = reads
    BY <1>2 DEF SendAsync, WriteReports
  <2>2. \A d \in Calls : stage'[d] = "pending" => d = c \/ stage[d] = "pending"
    BY <1>2 DEF SendAsync, Advance, TypeOK
  <2>3. \A d \in Calls : stage'[d] = "pending" => Queued(d)'
    BY <1>w, <2>1, <2>2, QueuedLast
  <2>4. pollOwner' = NoCall
    BY <1>2 DEF SendAsync
  <2> QED BY <1>q, <2>3, <2>4
<1>3. ASSUME NEW c \in Calls, Send(c) PROVE WaitInv'
  <2>1. CASE Advance(c, "polling") /\ pollOwner' = c /\ reads' = Append(reads, c)
             /\ TRUE \in WriteReports
    <3>1. writes' = writes /\ socket' = socket
      BY <1>3 DEF Send
    <3>2. \A d \in Calls : stage'[d] = "pending" => stage[d] = "pending"
      BY <1>a, <2>1 DEF Advance, Stages
    <3>3. \A d \in Calls : stage'[d] = "pending" => Queued(d)'
      BY <1>w, <2>1, <3>1, <3>2, QueuedLast
    <3>4. socket' \in {"connected", "broken"}
      BY <2>1, <3>1 DEF WriteReports, TypeOK
    <3>5. Len(reads') = Len(reads) + 1 /\ reads'[Len(reads) + 1] = c /\ Len(reads) \in Nat
      BY <2>1 DEF TypeOK
    <3>6. \E i \in 1..Len(reads') : reads'[i] = pollOwner'
      BY <2>1, <3>5
    <3> QED BY <1>q, <3>3, <3>4, <3>6
  <2>2. CASE Finish(c, "sendFailed", NoCall) /\ UNCHANGED <<pollOwner, reads>>
    <3>1. \A d \in Calls : stage'[d] = "pending" => stage[d] = "pending"
      BY <1>a, <2>2 DEF Finish, Stages
    <3>2. UNCHANGED <<writes, reads, pollOwner>> /\ pollOwner = NoCall
      BY <1>3, <2>2 DEF Send
    <3> QED BY <3>1, <3>2, QuietWait
  <2> QED BY <1>3, <2>1, <2>2 DEF Send
<1>4. ASSUME NEW c \in Calls, SendReturns(c) PROVE WaitInv'
  <2>1. stage' = [stage EXCEPT ![c] = "finished"]
    BY <1>4 DEF SendReturns, FinishWith, Finish
  <2>2. \A d \in Calls : stage'[d] = "pending" => stage[d] = "pending"
    BY <1>a, <2>1 DEF Stages
  <2>3. pollOwner' = NoCall /\ UNCHANGED <<writes, reads>>
    BY <1>4 DEF SendReturns
  <2> QED BY <1>q, <1>w, <2>2, <2>3 DEF Queued
<1>5. CASE RunWriteHandler
  <2>1. PICK i \in 1..Len(writes) : HandleWrite(i)
    BY <1>5 DEF RunWriteHandler, Runnable
  <2>2. /\ writes' = Without(writes, i)
        /\ UNCHANGED <<pollOwner, response_received_, socket>>
    BY <2>1 DEF HandleWrite
  <2>c. PICK c \in Calls : c = writes[i].call /\ stage[c] = "pending"
    BY QueueTypes DEF CallInv, QueuedWait
  <2>3. ASSUME NEW d \in Calls, stage[d] = "pending", d # c,
               \A j \in 1..Len(reads) : reads[j] = d => \E k \in 1..Len(reads') : reads'[k] = d
        PROVE  Queued(d)'
    <3>1. CASE \E j \in 1..Len(writes) : writes[j].call = d
      <4>1. \E j \in 1..Len(writes') : writes'[j].call = d
        BY <2>2, <2>3, <2>c, <3>1, QueuedBehind
      <4> QED BY <4>1 DEF Queued
    <3>2. CASE \E j \in 1..Len(reads) : reads[j] = d
      BY <2>3, <3>2 DEF Queued
    <3> QED BY <1>w, <2>3, <3>1, <3>2 DEF Queued
  <2>4. CASE reads' = Append(reads, c) /\ UNCHANGED callVars
    <3>1. /\ Len(reads') = Len(reads) + 1 /\ Len(reads) \in Nat
          /\ \A j \in 1..Len(reads) : reads'[j] = reads[j]
          /\ reads'[Len(reads) + 1] = c
      BY <2>4, <2>c DEF TypeOK
    <3>2. /\ \A j \in 1..Len(reads) : j \in 1..Len(reads')
          /\ Len(reads) + 1 \in 1..Len(reads')
      BY <3>1
    <3>3. \A d \in Calls, j \in 1..Len(reads) :
            reads[j] = d => \E k \in 1..Len(reads') : reads'[k] = d
      BY <3>1, <3>2
    <3>4. Queued(c)'
      <4>1. \E k \in 1..Len(reads') : reads'[k] = c
        BY <3>1, <3>2
      <4> QED BY <4>1 DEF Queued
    <3>5. \A d \in Calls : stage'[d] = "pending" => Queued(d)'
      BY <2>3, <2>4, <3>3, <3>4
    <3>6. pollOwner \in Calls \/ pollOwner = NoCall
      BY ChannelAssumption DEF ChannelAssumption, TypeOK
    <3> QED BY <1>o, <1>q, <2>2, <3>3, <3>5, <3>6
  <2>5. CASE Finish(c, "sendFailed", NoCall) /\ UNCHANGED reads
    <3>1. \A d \in Calls : stage'[d] = "pending" => d # c /\ stage[d] = "pending"
      BY <1>a, <2>5, <2>c DEF Finish, Stages
    <3>2. \A d \in Calls : stage'[d] = "pending" => Queued(d)'
      BY <2>3, <2>5, <3>1
    <3> QED BY <1>o, <1>q, <2>2, <2>5, <3>2
  <2> QED BY <2>1, <2>4, <2>5, <2>c DEF HandleWrite
<1>h. ASSUME reads # <<>>, reads' = Tail(reads), writes' = writes,
             pollOwner' = pollOwner, socket' = socket,
             \/ /\ Head(reads) \in SyncCalls /\ UNCHANGED stage
                /\ response_received_' \/ socket = "broken" \/ socket = "closed"
             \/ /\ Head(reads) \notin SyncCalls
                /\ stage' = [stage EXCEPT ![Head(reads)] = "finished"]
                /\ response_received_' = response_received_
      PROVE  WaitInv'
  <2>1. Head(reads) \in Calls
    BY <1>h, ReadPopped
  <2>2. Head(reads) \in SyncCalls => stage[Head(reads)] # "pending"
    BY <2>1 DEF CallInv, StageKinds
  <2>3. \A d \in Calls : stage'[d] = "pending" => d # Head(reads) /\ stage[d] = "pending"
    BY <1>a, <1>h, <2>1, <2>2 DEF Stages
  <2>4. ASSUME NEW d \in Calls, d # Head(reads), Queued(d) PROVE Queued(d)'
    <3>1. CASE \E j \in 1..Len(reads) : reads[j] = d
      <4>1. \E j \in 1..Len(reads') : reads'[j] = d
        BY <1>h, <2>4, <3>1, QueuedBehind
      <4> QED BY <4>1 DEF Queued
    <3>2. CASE \E j \in 1..Len(writes) : writes[j].call = d
      BY <1>h, <3>2 DEF Queued
    <3> QED BY <2>4, <3>1, <3>2 DEF Queued
  <2>5. \A d \in Calls : stage'[d] = "pending" => Queued(d)'
    BY <1>w, <2>3, <2>4
  <2>6. ASSUME pollOwner # NoCall, socket # "broken"
        PROVE  response_received_' \/ \E i \in 1..Len(reads') : reads'[i] = pollOwner
    <3>1. socket = "connected"
      BY <1>o, <2>6
    <3>2. CASE Head(reads) \in SyncCalls
      BY <1>h, <3>1, <3>2
    <3>3. CASE Head(reads) \notin SyncCalls
      <4>1. pollOwner # Head(reads)
        BY <2>6, <3>3 DEF TypeOK
      <4>2. (\E i \in 1..Len(reads) : reads[i] = pollOwner)
              => \E i \in 1..Len(reads') : reads'[i] = pollOwner
        BY <1>h, <4>1, QueuedBehind
      <4> QED BY <1>h, <1>o, <2>6, <3>3, <4>2
    <3> QED BY <3>2, <3>3
  <2> QED BY <1>h, <1>o, <1>q, <2>5, <2>6
<1>6. CASE HandleClientRead
  BY <1>6, <1>h DEF HandleClientRead, TakeChunk
<1>7. CASE HandleClientAsyncRead
  BY <1>7, <1>h DEF HandleClientAsyncRead, TakeChunk, FinishWith, Finish
<1>8. CASE HandleReadError
  BY <1>8, <1>h DEF HandleReadError, Finish
<1>9. CASE Close
  <2>1. pollOwner = NoCall
    <3>1. \A c \in Calls : stage[c] # "polling"
      BY <1>9 DEF Close, InCallMethod
    <3>2. pollOwner \in Calls => stage[pollOwner] = "polling"
      BY DEF CallInv, SyncBufferOwned
    <3> QED BY <3>1, <3>2, ChannelAssumption DEF ChannelAssumption, TypeOK
  <2> QED BY <1>9, <2>1, QuietWait DEF Close
<1>10. ASSUME \/ \E c \in Calls : StartCancel(c)
              \/ StopIo \/ Serve
              \/ \E s \in Servers : ServerCrash(s) \/ ServerRestart(s)
              \/ UNCHANGED vars
       PROVE  WaitInv'
  <2>1. UNCHANGED <<writes, reads, pollOwner, response_received_, stage>>
    BY <1>10 DEF StartCancel, StopIo, Serve, ServerCrash, ServerRestart, vars
  <2>2. socket' = socket \/ socket' = "broken"
    BY <1>10 DEF StartCancel, StopIo, Serve, ServerCrash, ServerRestart, vars
  <2> QED BY <2>1, <2>2, QuietWait
<1> QED
  BY <1>1, <1>2, <1>3, <1>4, <1>5, <1>6, <1>7, <1>8, <1>9, <1>10
     DEF Next, CallStep, HandlerStep

(* No handler drops a call: one that waits always has a handler to come    *)
(* that will end it, and a Send that polls its read or its answer, as long *)
(* as the connection is not lost.                                          *)
THEOREM WaitSafety == Spec => []NobodyForgotten
<1>1. Spec => []CallInv
  BY InitCall, NextCall, TypeCorrect, PTL DEF Spec
<1>2. Spec => []WaitInv
  BY <1>1, InitWait, NextWait, TypeCorrect, PTL DEF Spec
<1>3. WaitInv => NobodyForgotten
  BY DEF WaitInv
<1> QED BY <1>2, <1>3, PTL
=============================================================================
