------------------------ MODULE XrpcPipelineProofs ------------------------
(***************************************************************************)
(* Calls on one connection get their own answers, whatever servers do and  *)
(* whoever cancels, in the two regimes that the assumption Orderly names:  *)
(* one call at a time, or asynchronous calls whose reads return one        *)
(* message each.  (Two calls whose answers one read returns, or a message  *)
(* longer than a read, refute it: see the run coalesced_replies.)          *)
(***************************************************************************)
EXTENDS XrpcChannelProofs

Orderly ==
  /\ Parts = 1
  /\ ~Concurrent \/ (ReadCap = 1 /\ SyncCalls = {})

-----------------------------------------------------------------------------
(* The wire when a message is one fragment.                                *)

(* A read that cannot take two takes the first, and it decodes.            *)
LEMMA OneMessageReads ==
  ASSUME Parts = 1, NEW M, NEW stream \in Seq(Fragment(M)), NEW chunk \in Chunks(stream),
         ReadCap = 1 \/ Len(stream) <= 1
  PROVE  /\ Len(stream) >= 1
         /\ Len(After(stream, chunk)) = Len(stream) - 1
         /\ \A i \in 1..(Len(stream) - 1) : After(stream, chunk)[i] = stream[i + 1]
         /\ Decodes(chunk) /\ Decoded(chunk) = stream[1].msg
<1>1. PICK n \in 1..Len(stream) : n <= 1 /\ chunk = SubSeq(stream, 1, n)
  BY DEF Chunks
<1>2. n = 1 /\ Len(stream) >= 1
  BY <1>1
<1>3. Len(chunk) = 1 /\ chunk[1] = stream[1]
  BY <1>1, <1>2
<1>4. After(stream, chunk) = SubSeq(stream, 2, Len(stream))
  BY <1>3 DEF After
<1>5. stream[1] \in Fragment(M)
  BY <1>2
<1>6. stream[1] = [msg |-> stream[1].msg, part |-> 1]
  BY <1>5 DEF Fragment
<1>7. Decodes(chunk) /\ Decoded(chunk) = stream[1].msg
  BY <1>3, <1>6 DEF Decodes, Decoded
<1>8. /\ Tail(stream) = SubSeq(stream, 2, Len(stream))
      /\ Len(Tail(stream)) = Len(stream) - 1
      /\ \A i \in 1..Len(Tail(stream)) : Tail(stream)[i] = stream[i + 1]
  <2>1. stream # <<>>
    BY <1>2
  <2> QED BY <2>1, TailIsSubSeq, HeadTailProperties, Zenon
<1>9. After(stream, chunk) = Tail(stream)
  BY <1>4, <1>8, Zenon
<1> QED BY <1>2, <1>7, <1>8, <1>9

(* And a write adds one fragment.                                          *)
LEMMA OneFragment ==
  ASSUME Parts = 1, NEW m
  PROVE  Fragments(m) = <<[msg |-> m, part |-> 1]>>
BY DEF Fragments

-----------------------------------------------------------------------------
(* The invariant.  Awaiting and InFlight of XrpcChannel are read by        *)
(* position: who will read as number i, and whose answer will be number i. *)

Readers == Len(reads) + Len(writes)
Answers == Len(s2c) + Len(c2s)
Reader(i) == IF i <= Len(reads) THEN reads[i] ELSE writes[i - Len(reads)].call
AnswerOf(i) == IF i <= Len(s2c) THEN s2c[i].msg.call ELSE c2s[i - Len(s2c)].msg

Live == socket \in {"connected", "broken"}

Aligned ==
  /\ Answers <= Readers
  /\ \A i \in 1..Answers : AnswerOf(i) = Reader(i)
  /\ socket = "connected" => Answers = Readers

(* The reader behind a write that failed has no answer to come.            *)
FailedBehind ==
  \A i \in 1..Len(writes) : ~writes[i].ok => Answers < Len(reads) + i

PipeInv ==
  /\ Live => Aligned /\ FailedBehind
  /\ socket = "broken" => c2s = <<>>
  /\ socket = "none" => Readers = 0 /\ Answers = 0

(* Calls that wait their turn run one at a time; so no read takes two      *)
(* answers and no handler overtakes another.                               *)
Busy(c) == stage[c] \notin {"idle", "finished"}
Turns == ~Concurrent => \A c, d \in Calls : Busy(c) /\ Busy(d) => c = d
OneTurn == Readers <= 1 \/ (ReadCap = 1 /\ pollOwner = NoCall)

(* What the handler left for the Send that polls is that Send's answer.    *)
BufferInv ==
  pollOwner # NoCall /\ response_received_ =>
    Decodes(response_) /\ Decoded(response_).call = pollOwner

StartedInv == \A c \in Calls : stage[c] \in {"connected", "ready", "pending"} => socket # "none"

Inv ==
  /\ TypeOK /\ CallInv /\ Genuine
  /\ Turns /\ PipeInv /\ StartedInv /\ BufferInv /\ OwnResponse

(* What the types say of the queues.                                       *)
LEMMA Queues ==
  ASSUME TypeOK
  PROVE  /\ reads \in Seq(Calls) /\ writes \in Seq([call : Calls, ok : BOOLEAN])
         /\ s2c \in Seq(Fragment(Response)) /\ c2s \in Seq(Fragment(Calls))
         /\ Len(reads) \in Nat /\ Len(writes) \in Nat /\ Len(s2c) \in Nat /\ Len(c2s) \in Nat
<1>1. /\ reads \in Seq(Calls) /\ writes \in Seq([call : Calls, ok : BOOLEAN])
      /\ s2c \in Seq(Fragment(Response)) /\ c2s \in Seq(Fragment(Calls))
  BY DEF TypeOK
<1> QED BY <1>1

(* The invariant by position is PipelineAligned.                           *)
LEMMA AlignedPipeline == TypeOK /\ PipeInv => PipelineAligned
<1> SUFFICES ASSUME TypeOK, PipeInv, Live PROVE
       /\ Len(InFlight) <= Len(Awaiting)
       /\ \A i \in 1..Len(InFlight) : InFlight[i] = Awaiting[i]
       /\ socket = "connected" => Len(InFlight) = Len(Awaiting)
  BY DEF PipelineAligned, Live
<1> DEFINE w == [i \in 1..Len(writes) |-> writes[i].call]
           s == [i \in 1..Len(s2c) |-> s2c[i].msg.call]
           q == [i \in 1..Len(c2s) |-> c2s[i].msg]
<1>1. /\ w \in Seq(Calls) /\ Len(w) = Len(writes)
      /\ \A i \in 1..Len(writes) : w[i] = writes[i].call
  BY Queues, QueueTypes
<1>2. /\ s \in Seq(Calls \union {NoCall}) /\ Len(s) = Len(s2c)
      /\ \A i \in 1..Len(s2c) : s[i] = s2c[i].msg.call
  <2>1. \A i \in 1..Len(s2c) : s2c[i] \in Fragment(Response)
    BY Queues
  <2>2. \A i \in 1..Len(s2c) : s2c[i].msg.call \in Calls \union {NoCall}
    BY <2>1 DEF Fragment, Response
  <2> QED BY <2>2, Queues
<1>3. /\ q \in Seq(Calls) /\ Len(q) = Len(c2s)
      /\ \A i \in 1..Len(c2s) : q[i] = c2s[i].msg
  <2>1. \A i \in 1..Len(c2s) : c2s[i] \in Fragment(Calls)
    BY Queues
  <2>2. \A i \in 1..Len(c2s) : c2s[i].msg \in Calls
    BY <2>1 DEF Fragment
  <2> QED BY <2>2, Queues
<1> HIDE DEF w, s, q
<1>4. /\ Len(reads \o w) = Len(reads) + Len(w)
      /\ \A i \in 1..(Len(reads) + Len(w)) :
           (reads \o w)[i] = IF i <= Len(reads) THEN reads[i] ELSE w[i - Len(reads)]
  BY <1>1, Queues, ConcatProperties
<1>5. /\ Len(s \o q) = Len(s) + Len(q)
      /\ \A i \in 1..(Len(s) + Len(q)) :
           (s \o q)[i] = IF i <= Len(s) THEN s[i] ELSE q[i - Len(s)]
  <2>1. s \in Seq(Calls \union {NoCall}) /\ q \in Seq(Calls \union {NoCall})
    BY <1>2, <1>3
  <2> QED BY <2>1, ConcatProperties
<1>6. Awaiting = reads \o w /\ InFlight = s \o q
  BY DEF Awaiting, InFlight, w, s, q
<1>7. Readers = Len(reads) + Len(w) /\ Answers = Len(s) + Len(q)
  BY <1>1, <1>2, <1>3 DEF Readers, Answers
<1>8. Readers \in Nat /\ Answers \in Nat /\ Aligned
  BY Queues DEF Readers, Answers, PipeInv
<1>9. ASSUME NEW i \in 1..Answers PROVE (s \o q)[i] = (reads \o w)[i]
  <2>1. i \in 1..Readers
    BY <1>8 DEF Aligned
  <2>2. (s \o q)[i] = AnswerOf(i)
    <3>1. CASE i <= Len(s2c)
      BY <3>1, <1>2, <1>5, <1>7, Queues DEF AnswerOf
    <3>2. CASE ~(i <= Len(s2c))
      <4>1. i - Len(s2c) \in 1..Len(c2s)
        BY <3>2, Queues DEF Answers
      <4> QED BY <3>2, <4>1, <1>2, <1>3, <1>5, <1>7 DEF AnswerOf
    <3> QED BY <3>1, <3>2
  <2>3. (reads \o w)[i] = Reader(i)
    <3>1. CASE i <= Len(reads)
      BY <2>1, <3>1, <1>4, <1>7 DEF Reader
    <3>2. CASE ~(i <= Len(reads))
      <4>1. i - Len(reads) \in 1..Len(writes)
        BY <2>1, <3>2, Queues DEF Readers
      <4> QED BY <2>1, <3>2, <4>1, <1>1, <1>4, <1>7 DEF Reader
    <3> QED BY <3>1, <3>2
  <2> QED BY <2>2, <2>3, <1>8 DEF Aligned
<1> QED BY <1>4, <1>5, <1>6, <1>7, <1>8, <1>9 DEF Aligned

-----------------------------------------------------------------------------
(* The steps.                                                              *)

(* The invariant holds of a channel without connection.                    *)
LEMMA InitPipe == Init => Turns /\ PipeInv /\ StartedInv /\ BufferInv /\ OwnResponse
<1> SUFFICES ASSUME Init PROVE Turns /\ PipeInv /\ StartedInv /\ BufferInv /\ OwnResponse
  OBVIOUS
<1>1. PipeInv
  BY DEF Init, PipeInv, Live, Readers, Answers
<1>2. Turns /\ StartedInv /\ BufferInv /\ OwnResponse
  BY DEF Init, Turns, Busy, StartedInv, BufferInv, OwnResponse
<1> QED BY <1>1, <1>2

(* A call starts when no other runs, and none takes another's turn.        *)
LEMMA NextTurns ==
  ASSUME TypeOK, CallInv, Genuine, Turns, [Next]_vars
  PROVE  Turns'
<1> SUFFICES ASSUME ~Concurrent, NEW a \in Calls, NEW b \in Calls, Busy(a)', Busy(b)'
             PROVE  a = b
  BY DEF Turns
<1>1. CASE UNCHANGED stage
  BY <1>1 DEF Turns, Busy
<1>2. ASSUME NEW c \in Calls, NEW t, stage' = [stage EXCEPT ![c] = t],
             \/ Busy(c)
             \/ \A d \in Calls \ {c} : ~Busy(d)
             \/ t = "finished"
      PROVE  a = b
  <2>1. \A d \in Calls : d # c => stage'[d] = stage[d]
    BY <1>2 DEF TypeOK
  <2>2. t = "finished" => ~Busy(c)'
    BY <1>2 DEF Busy, TypeOK
  <2> QED BY <1>2, <2>1, <2>2 DEF Turns, Busy
<1>3. ASSUME NEW c \in Calls, Begins(c) \/ GoesOn(c) \/ Fails(c) \/ Succeeds(c)
      PROVE  a = b
  <2>1. CASE Begins(c)
    BY <1>2, <2>1 DEF Begins, MayStart, Advance, Busy
  <2>2. CASE GoesOn(c)
    BY <1>2, <2>2 DEF GoesOn, Advance, Busy
  <2>3. CASE Fails(c) \/ Succeeds(c)
    BY <1>2, <2>3 DEF Fails, Succeeds, Finish
  <2> QED BY <1>3, <2>1, <2>2, <2>3
<1> QED BY <1>1, <1>3, NextMoves DEF Moves

(* So there is one reader, or no Send that polls.                          *)
LEMMA TurnsTaken ==
  ASSUME Orderly, TypeOK, CallInv, Turns
  PROVE  OneTurn
<1>1. CASE Concurrent
  BY <1>1, ChannelAssumption DEF ChannelAssumption, Orderly, TypeOK, OneTurn
<1>2. CASE ~Concurrent
  <2>1. \A i \in 1..Len(reads), j \in 1..Len(reads) : reads[i] = reads[j]
    BY <1>2, QueueTypes DEF CallInv, QueuedWait, Turns, Busy
  <2>2. \A i \in 1..Len(reads), j \in 1..Len(writes) : reads[i] = writes[j].call
    BY <1>2, QueueTypes DEF CallInv, QueuedWait, Turns, Busy
  <2>3. \A i \in 1..Len(writes), j \in 1..Len(writes) : writes[i].call = writes[j].call
    BY <1>2, QueueTypes DEF CallInv, QueuedWait, Turns, Busy
  <2>4. /\ \A i, j \in 1..Len(reads) : i = j
        /\ \A i, j \in 1..Len(writes) : i = j
        /\ \A i \in 1..Len(reads), j \in 1..Len(writes) : FALSE
    BY <2>1, <2>2, <2>3 DEF CallInv, QueuedOnce
  <2>5. Len(reads) <= 1 /\ Len(writes) <= 1
    <3>1. Len(reads) > 1 => 1 \in 1..Len(reads) /\ 2 \in 1..Len(reads)
      BY QueueTypes
    <3>2. Len(writes) > 1 => 1 \in 1..Len(writes) /\ 2 \in 1..Len(writes)
      BY QueueTypes
    <3> QED BY <2>4, <3>1, <3>2, QueueTypes
  <2>6. Len(reads) = 0 \/ Len(writes) = 0
    <3>1. Len(reads) # 0 /\ Len(writes) # 0 => 1 \in 1..Len(reads) /\ 1 \in 1..Len(writes)
      BY QueueTypes
    <3> QED BY <2>4, <3>1
  <2> QED BY <2>5, <2>6, QueueTypes DEF OneTurn, Readers
<1> QED BY <1>1, <1>2

(* Steps that leave the connection and its queues alone.                   *)
LEMMA SamePipe ==
  ASSUME PipeInv, UNCHANGED <<socket, reads, writes, c2s, s2c>>
  PROVE  PipeInv'
BY DEF PipeInv, Live, Aligned, FailedBehind, Readers, Answers, Reader, AnswerOf

(* What appending adds to a queue of requests.                             *)
LEMMA AppendFacts ==
  ASSUME NEW S, NEW q \in Seq(S), NEW e \in S
  PROVE  /\ Len(q) \in Nat
         /\ Len(Append(q, e)) = Len(q) + 1
         /\ \A i \in 1..Len(q) : Append(q, e)[i] = q[i]
         /\ Append(q, e)[Len(q) + 1] = e
BY AppendProperties

(* A new request is the last to be answered, and its call the last to read.*)
LEMMA SendAsyncPipe ==
  ASSUME Parts = 1, TypeOK, StartedInv, PipeInv, NEW c \in Calls, SendAsync(c)
  PROVE  PipeInv'
<1>1. socket # "none"
  BY DEF SendAsync, StartedInv
<1>2. PICK ok \in WriteReports : writes' = Append(writes, [call |-> c, ok |-> ok])
  BY DEF SendAsync
<1>3. UNCHANGED <<socket, reads, s2c>> /\ PutOnWire(c)
  BY DEF SendAsync, linkVars, pollVars, userVars
<1>4. /\ Len(writes') = Len(writes) + 1
      /\ \A i \in 1..Len(writes) : writes'[i] = writes[i]
      /\ writes'[Len(writes) + 1] = [call |-> c, ok |-> ok]
  <2>1. [call |-> c, ok |-> ok] \in [call : Calls, ok : BOOLEAN]
    BY DEF WriteReports
  <2> QED BY <1>2, <2>1, Queues, AppendFacts
<1>5. /\ Readers \in Nat /\ Readers' = Readers + 1
      /\ \A i \in 1..Readers' : Reader(i)' = IF i <= Readers THEN Reader(i) ELSE c
  <2>1. Readers \in Nat /\ Readers' = Readers + 1
    BY <1>3, <1>4, Queues DEF Readers
  <2>2. ASSUME NEW i \in 1..Readers' PROVE Reader(i)' = IF i <= Readers THEN Reader(i) ELSE c
    <3>1. CASE i <= Len(reads)
      BY <1>3, <3>1, Queues DEF Readers, Reader
    <3>2. CASE i > Len(reads) /\ i <= Readers
      <4>1. i - Len(reads) \in 1..Len(writes)
        BY <3>2, Queues DEF Readers
      <4> QED BY <1>3, <1>4, <3>2, <4>1, Queues DEF Reader
    <3>3. CASE i = Readers + 1
      <4>1. i - Len(reads) = Len(writes) + 1 /\ ~(i <= Len(reads)) /\ ~(i <= Readers)
        BY <3>3, Queues DEF Readers
      <4> QED BY <1>3, <1>4, <4>1 DEF Reader
    <3> QED BY <2>1, <3>1, <3>2, <3>3, Queues
  <2> QED BY <2>1, <2>2
<1>6. CASE socket = "connected"
  <2>1. ok = TRUE
    BY <1>6 DEF WriteReports
  <2>2. c2s' = Append(c2s, [msg |-> c, part |-> 1])
    <3>1. c2s' = c2s \o <<[msg |-> c, part |-> 1]>>
      BY <1>3, <1>6, OneFragment DEF PutOnWire
    <3> QED BY <3>1, Queues
  <2>3. /\ Len(c2s') = Len(c2s) + 1
        /\ \A i \in 1..Len(c2s) : c2s'[i] = c2s[i]
        /\ c2s'[Len(c2s) + 1] = [msg |-> c, part |-> 1]
    <3>1. [msg |-> c, part |-> 1] \in Fragment(Calls)
      BY DEF Fragment
    <3> QED BY <2>2, <3>1, Queues, AppendFacts
  <2>4. /\ Answers \in Nat /\ Answers' = Answers + 1
        /\ \A i \in 1..Answers' : AnswerOf(i)' = IF i <= Answers THEN AnswerOf(i) ELSE c
    <3>1. Answers \in Nat /\ Answers' = Answers + 1
      BY <1>3, <2>3, Queues DEF Answers
    <3>2. ASSUME NEW i \in 1..Answers'
          PROVE  AnswerOf(i)' = IF i <= Answers THEN AnswerOf(i) ELSE c
      <4>1. CASE i <= Len(s2c)
        BY <1>3, <4>1, Queues DEF Answers, AnswerOf
      <4>2. CASE i > Len(s2c) /\ i <= Answers
        <5>1. i - Len(s2c) \in 1..Len(c2s)
          BY <4>2, Queues DEF Answers
        <5> QED BY <1>3, <2>3, <4>2, <5>1, Queues DEF AnswerOf
      <4>3. CASE i = Answers + 1
        <5>1. i - Len(s2c) = Len(c2s) + 1 /\ ~(i <= Len(s2c)) /\ ~(i <= Answers)
          BY <4>3, Queues DEF Answers
        <5> QED BY <1>3, <2>3, <5>1 DEF AnswerOf
      <4> QED BY <3>1, <4>1, <4>2, <4>3, Queues
    <3> QED BY <3>1, <3>2
  <2>5. Aligned /\ FailedBehind /\ Answers = Readers
    BY <1>6 DEF PipeInv, Live, Aligned
  <2>6. Aligned'
    BY <1>5, <2>4, <2>5 DEF Aligned
  <2>7. FailedBehind'
    <3>1. ASSUME NEW i \in 1..Len(writes), ~writes[i].ok PROVE FALSE
      BY <2>5, <3>1, Queues DEF FailedBehind, Readers
    <3>2. ASSUME NEW i \in 1..Len(writes') PROVE writes'[i].ok
      <4>1. CASE i \in 1..Len(writes)
        BY <1>4, <3>1, <4>1
      <4>2. CASE i = Len(writes) + 1
        BY <1>4, <2>1, <4>2
      <4> QED BY <1>4, <4>1, <4>2, Queues
    <3> QED BY <3>2 DEF FailedBehind
  <2> QED BY <1>3, <1>6, <2>6, <2>7 DEF PipeInv
<1>7. CASE socket = "broken"
  <2>1. c2s' = c2s
    BY <1>3, <1>7 DEF PutOnWire
  <2>2. Answers \in Nat /\ Answers' = Answers /\ \A i \in 1..Answers : AnswerOf(i)' = AnswerOf(i)
    BY <1>3, <2>1, Queues DEF Answers, AnswerOf
  <2>3. Aligned /\ FailedBehind
    BY <1>7 DEF PipeInv, Live
  <2>4. Aligned'
    BY <1>3, <1>5, <1>7, <2>2, <2>3 DEF Aligned
  <2>5. FailedBehind'
    <3> SUFFICES ASSUME NEW i \in 1..Len(writes'), ~writes'[i].ok
                 PROVE  Answers' < Len(reads') + i
      BY DEF FailedBehind
    <3>1. CASE i \in 1..Len(writes)
      BY <3>1, <1>3, <1>4, <2>2, <2>3 DEF FailedBehind
    <3>2. CASE i = Len(writes) + 1
      BY <3>2, <1>3, <2>2, <2>3, Queues DEF Aligned, Readers
    <3> QED BY <3>1, <3>2, <1>4, Queues
  <2> QED BY <1>3, <1>7, <2>1, <2>4, <2>5 DEF PipeInv
<1>8. CASE ~Live
  BY <1>1, <1>3, <1>8 DEF PipeInv, Live
<1> QED BY <1>6, <1>7, <1>8 DEF Live

(* A Send that waits its turn finds the connection empty, and its request  *)
(* and its read are the only ones.                                         *)
LEMMA SendPipe ==
  ASSUME Orderly, TypeOK, CallInv, Turns, StartedInv, PipeInv, NEW c \in Calls, Send(c)
  PROVE  PipeInv'
<1>1. c \in SyncCalls /\ stage[c] = "ready" /\ UNCHANGED <<socket, writes, s2c>> /\ PutOnWire(c)
  BY DEF Send, linkVars
<1>2. ~Concurrent /\ Parts = 1 /\ socket # "none"
  BY <1>1 DEF Orderly, StartedInv
<1>3. Len(reads) = 0 /\ Len(writes) = 0
  <2>1. /\ \A i \in 1..Len(reads) : reads[i] = c
        /\ \A i \in 1..Len(writes) : writes[i].call = c
    BY <1>1, <1>2, QueueTypes DEF CallInv, QueuedWait, Turns, Busy
  <2>2. /\ \A i \in 1..Len(reads) : FALSE
        /\ \A i \in 1..Len(writes) : FALSE
    BY <1>1, <2>1 DEF CallInv, QueuedWait
  <2>3. /\ Len(reads) # 0 => 1 \in 1..Len(reads)
        /\ Len(writes) # 0 => 1 \in 1..Len(writes)
    BY QueueTypes
  <2> QED BY <2>2, <2>3
<1>4. CASE reads' = reads
  <2>1. CASE socket = "connected"
    <3>1. FALSE \notin WriteReports
      BY <2>1 DEF WriteReports
    <3>2. reads' = Append(reads, c)
      BY <3>1 DEF Send
    <3>3. Len(reads') = Len(reads) + 1
      BY <1>1, <3>2, Queues, AppendFacts
    <3> QED BY <1>3, <1>4, <3>3
  <2>2. CASE socket # "connected"
    BY <1>1, <1>4, <2>2, SamePipe DEF PutOnWire
  <2> QED BY <2>1, <2>2
<1>5. CASE reads' = Append(reads, c)
  <2>1. Len(reads') = 1 /\ reads'[1] = c /\ Len(writes') = 0
    BY <1>1, <1>3, <1>5, Queues, AppendFacts
  <2>2. Readers = 0 /\ Readers' = 1 /\ Reader(1)' = c /\ FailedBehind'
    BY <1>3, <2>1 DEF Readers, Reader, FailedBehind
  <2>3. Live => Len(s2c) = 0 /\ Len(c2s) = 0
    BY <2>2, Queues DEF PipeInv, Aligned, Answers
  <2>4. CASE socket = "connected"
    <3>1. c2s' = Append(c2s, [msg |-> c, part |-> 1])
      <4>1. c2s' = c2s \o <<[msg |-> c, part |-> 1]>>
        BY <1>1, <1>2, <2>4, OneFragment DEF PutOnWire
      <4> QED BY <4>1, Queues
    <3>2. Len(c2s') = 1 /\ c2s'[1] = [msg |-> c, part |-> 1]
      <4>1. [msg |-> c, part |-> 1] \in Fragment(Calls)
        BY <1>2 DEF Fragment
      <4> QED BY <2>3, <2>4, <3>1, <4>1, Queues, AppendFacts DEF Live
    <3>3. Answers' = 1 /\ AnswerOf(1)' = c
      BY <1>1, <2>3, <2>4, <3>2 DEF Answers, AnswerOf, Live
    <3>4. Aligned'
      BY <2>2, <3>3 DEF Aligned
    <3> QED BY <1>1, <2>2, <2>4, <3>4 DEF PipeInv
  <2>5. CASE socket = "broken"
    <3>1. c2s' = c2s
      BY <1>1, <2>5 DEF PutOnWire
    <3>2. Answers' = 0
      BY <1>1, <2>3, <2>5, <3>1 DEF Answers, Live
    <3>3. Aligned'
      BY <1>1, <2>2, <2>5, <3>2 DEF Aligned
    <3> QED BY <1>1, <2>2, <2>5, <3>1, <3>3 DEF PipeInv
  <2>6. CASE ~Live
    BY <1>1, <1>2, <2>6 DEF PipeInv, Live
  <2> QED BY <2>4, <2>5, <2>6 DEF Live
<1> QED BY <1>4, <1>5 DEF Send

(* The handler of the oldest write makes its call the last pending reader, *)
(* or drops it, and then nobody behind it has an answer to come.           *)
LEMMA HandleWritePipe ==
  ASSUME TypeOK, OneTurn, PipeInv, RunWriteHandler
  PROVE  PipeInv'
<1>1. PICK i \in Runnable(writes) : HandleWrite(i)
  BY DEF RunWriteHandler
<1>2. i = 1 /\ 1 \in 1..Len(writes)
  BY <1>1, Queues DEF Runnable, OneTurn, Readers
<1>3. UNCHANGED <<socket, c2s, s2c>> /\ writes' = Without(writes, 1)
  BY <1>1, <1>2 DEF HandleWrite, linkVars, pollVars, netVars
<1>4. /\ Len(writes') = Len(writes) - 1
      /\ \A j \in 1..(Len(writes) - 1) : writes'[j] = writes[j + 1]
  <2>1. \A j \in 1..(Len(writes) - 1) :
          Without(writes, 1)[j] = IF j < 1 THEN writes[j] ELSE writes[j + 1]
    BY <1>2, Queues, WithoutFacts
  <2>2. Len(Without(writes, 1)) = Len(writes) - 1
    BY <1>2, Queues, WithoutFacts
  <2> QED BY <1>3, <2>1, <2>2
<1>5. Answers \in Nat /\ Answers' = Answers /\ \A j \in 1..Answers : AnswerOf(j)' = AnswerOf(j)
  BY <1>3, Queues DEF Answers, AnswerOf
<1>6. Readers \in Nat
  BY Queues DEF Readers
<1>7. CASE ~Live
  <2>1. socket # "none"
    BY <1>2, Queues DEF PipeInv, Readers
  <2> QED BY <1>3, <1>7, <2>1 DEF PipeInv, Live
<1>8. CASE Live /\ writes[1].ok
  <2>1. reads' = Append(reads, writes[1].call)
    BY <1>1, <1>2, <1>8 DEF HandleWrite
  <2>2. /\ Len(reads') = Len(reads) + 1
        /\ \A j \in 1..Len(reads) : reads'[j] = reads[j]
        /\ reads'[Len(reads) + 1] = writes[1].call
    BY <1>2, <2>1, Queues, QueueTypes, AppendFacts
  <2>3. Readers' = Readers
    BY <1>4, <2>2, Queues DEF Readers
  <2>4. ASSUME NEW j \in 1..Readers PROVE Reader(j)' = Reader(j)
    <3>1. CASE j <= Len(reads)
      BY <2>2, <3>1, Queues DEF Reader
    <3>2. CASE j = Len(reads) + 1
      <4>1. j - Len(reads) = 1 /\ ~(j <= Len(reads)) /\ j <= Len(reads')
        BY <2>2, <3>2, Queues
      <4> QED BY <2>2, <3>2, <4>1 DEF Reader
    <3>3. CASE j > Len(reads) + 1
      <4>1. /\ j - (Len(reads) + 1) \in 1..(Len(writes) - 1)
            /\ (j - (Len(reads) + 1)) + 1 = j - Len(reads)
            /\ ~(j <= Len(reads)) /\ ~(j <= Len(reads) + 1)
        BY <3>3, Queues DEF Readers
      <4>2. writes'[j - (Len(reads) + 1)] = writes[j - Len(reads)]
        BY <1>4, <4>1
      <4> QED BY <2>2, <4>1, <4>2 DEF Reader
    <3> QED BY <3>1, <3>2, <3>3, Queues
  <2>5. Aligned'
    BY <1>3, <1>5, <1>6, <1>8, <2>3, <2>4 DEF PipeInv, Aligned
  <2>6. FailedBehind'
    <3> SUFFICES ASSUME NEW j \in 1..Len(writes'), ~writes'[j].ok
                 PROVE  Answers' < Len(reads') + j
      BY DEF FailedBehind
    <3>1. j + 1 \in 1..Len(writes) /\ ~writes[j + 1].ok
      BY <1>4, Queues
    <3>2. Answers < Len(reads) + (j + 1)
      BY <1>8, <3>1 DEF PipeInv, FailedBehind
    <3> QED BY <1>5, <2>2, <3>2, Queues
  <2> QED BY <1>3, <1>8, <2>5, <2>6 DEF PipeInv, Live
<1>9. CASE Live /\ ~writes[1].ok
  <2>1. reads' = reads
    BY <1>1, <1>2, <1>9 DEF HandleWrite
  <2>2. Answers < Len(reads) + 1
    BY <1>2, <1>9 DEF PipeInv, FailedBehind
  <2>3. socket = "broken"
    BY <1>2, <1>9, <2>2, Queues DEF PipeInv, Aligned, Readers, Live
  <2>4. ASSUME NEW j \in 1..Answers PROVE Reader(j)' = Reader(j)
    BY <1>5, <2>1, <2>2, Queues DEF Reader
  <2>5. Readers' = Len(reads) + Len(writes) - 1 /\ Answers <= Len(reads)
    BY <1>4, <1>5, <2>1, <2>2, Queues DEF Readers
  <2>6. Aligned'
    BY <1>2, <1>3, <1>5, <1>9, <2>3, <2>4, <2>5, Queues DEF PipeInv, Aligned
  <2>7. FailedBehind'
    BY <1>5, <2>1, <2>5, Queues DEF FailedBehind
  <2> QED BY <1>3, <2>3, <2>6, <2>7 DEF PipeInv, Live
<1> QED BY <1>7, <1>8, <1>9

(* The oldest reader takes the oldest answer, which is its own.            *)
LEMMA ReadPipe ==
  ASSUME Parts = 1, TypeOK, OneTurn, PipeInv, NEW chunk \in Chunks(s2c), TakeChunk(chunk)
  PROVE  /\ PipeInv'
         /\ Decodes(chunk) /\ Decoded(chunk).call = Head(reads) /\ Head(reads) \in Calls
<1>1. Live /\ UNCHANGED <<socket, writes, c2s>>
  BY DEF TakeChunk, linkVars, Live
<1>2. /\ Len(s2c) >= 1
      /\ Len(s2c') = Len(s2c) - 1
      /\ \A i \in 1..(Len(s2c) - 1) : s2c'[i] = s2c[i + 1]
      /\ Decodes(chunk) /\ Decoded(chunk) = s2c[1].msg
  <2>1. s2c' = After(s2c, chunk)
    BY DEF TakeChunk
  <2>2. ReadCap = 1 \/ Len(s2c) <= 1
    BY <1>1, Queues DEF OneTurn, PipeInv, Aligned, Answers, Readers
  <2> QED BY <2>1, <2>2, Queues, OneMessageReads
<1>3. /\ Len(reads) >= 1 /\ Head(reads) = reads[1] /\ reads[1] \in Calls
      /\ Len(reads') = Len(reads) - 1
      /\ \A i \in 1..(Len(reads) - 1) : reads'[i] = reads[i + 1]
  <2>1. reads # <<>> /\ reads' = Tail(reads)
    BY DEF TakeChunk
  <2> QED BY <2>1, Queues
<1>4. UNCHANGED <<socket, writes, c2s>> /\ Live
  BY <1>1
<1>5. /\ Readers \in Nat /\ Readers' = Readers - 1
      /\ Answers \in Nat /\ Answers' = Answers - 1 /\ 1 \in 1..Answers
  BY <1>2, <1>3, <1>4, Queues DEF Readers, Answers
<1>6. ASSUME NEW i \in 1..(Readers - 1) PROVE Reader(i)' = Reader(i + 1)
  <2>1. CASE i <= Len(reads) - 1
    BY <1>3, <2>1, Queues DEF Reader
  <2>2. CASE ~(i <= Len(reads) - 1)
    <3>1. i - (Len(reads) - 1) = (i + 1) - Len(reads) /\ ~(i + 1 <= Len(reads))
      BY <2>2, Queues
    <3> QED BY <1>3, <1>4, <2>2, <3>1 DEF Reader
  <2> QED BY <2>1, <2>2
<1>7. ASSUME NEW i \in 1..(Answers - 1) PROVE AnswerOf(i)' = AnswerOf(i + 1)
  <2>1. CASE i <= Len(s2c) - 1
    BY <1>2, <2>1, Queues DEF AnswerOf
  <2>2. CASE ~(i <= Len(s2c) - 1)
    <3>1. i - (Len(s2c) - 1) = (i + 1) - Len(s2c) /\ ~(i + 1 <= Len(s2c))
      BY <2>2, Queues
    <3> QED BY <1>2, <1>4, <2>2, <3>1 DEF AnswerOf
  <2> QED BY <2>1, <2>2
<1>8. Aligned /\ FailedBehind
  BY <1>4 DEF PipeInv
<1>9. Aligned'
  <2>1. Answers' <= Readers' /\ (socket' = "connected" => Answers' = Readers')
    BY <1>4, <1>5, <1>8 DEF Aligned
  <2>2. ASSUME NEW i \in 1..(Answers - 1) PROVE AnswerOf(i)' = Reader(i)'
    <3>1. i \in 1..(Readers - 1) /\ i + 1 \in 1..Answers
      BY <1>5, <1>8 DEF Aligned
    <3> QED BY <1>6, <1>7, <1>8, <3>1 DEF Aligned
  <2> QED BY <1>5, <2>1, <2>2 DEF Aligned
<1>10. FailedBehind'
  BY <1>3, <1>4, <1>5, <1>8, Queues DEF FailedBehind
<1>11. PipeInv'
  BY <1>4, <1>9, <1>10 DEF PipeInv, Live
<1>12. Decoded(chunk).call = reads[1]
  <2>1. AnswerOf(1) = Reader(1)
    BY <1>5, <1>8 DEF Aligned
  <2> QED BY <1>2, <1>3, <2>1 DEF AnswerOf, Reader
<1> QED BY <1>2, <1>3, <1>11, <1>12

(* A call that ends with its own response, or with none.                   *)
LEMMA FinishOwn ==
  ASSUME TypeOK, OwnResponse, NEW c \in Calls,
         \/ \E r \in Failures : Finish(c, r, NoCall)
         \/ \E r \in {"ok", "serviceError"} : Finish(c, r, c)
  PROVE  OwnResponse'
<1> SUFFICES ASSUME NEW d \in Calls
             PROVE  answer'[d] \in {d, NoCall} /\ (result'[d] = "ok" => answer'[d] = d)
  BY DEF OwnResponse
<1>1. DOMAIN answer = Calls /\ DOMAIN result = Calls
  BY DEF TypeOK
<1>2. PICK r \in Failures \union {"ok", "serviceError"}, from \in {c, NoCall} :
        Finish(c, r, from) /\ (r = "ok" => from = c)
  BY DEF Failures
<1>3. answer' = [answer EXCEPT ![c] = from] /\ result' = [result EXCEPT ![c] = r]
  BY <1>2 DEF Finish
<1>4. CASE d = c
  BY <1>1, <1>2, <1>3, <1>4
<1>5. CASE d # c
  BY <1>1, <1>3, <1>5 DEF OwnResponse
<1> QED BY <1>4, <1>5

(* A read fails when no answer is left: nobody loses one.                  *)
LEMMA ReadErrorPipe ==
  ASSUME TypeOK, PipeInv, HandleReadError
  PROVE  PipeInv'
<1>1. /\ reads # <<>> /\ reads' = Tail(reads)
      /\ socket = "closed" \/ (socket = "broken" /\ s2c = <<>>)
      /\ UNCHANGED <<socket, writes, c2s, s2c>>
  BY DEF HandleReadError, linkVars, pollVars, netVars
<1>2. Len(reads') = Len(reads) - 1 /\ Len(reads) >= 1
  BY <1>1, Queues
<1>3. CASE socket = "closed"
  BY <1>1, <1>3 DEF PipeInv, Live
<1>4. CASE socket = "broken" /\ s2c = <<>>
  <2>1. c2s = <<>>
    BY <1>4 DEF PipeInv
  <2>2. Answers' = 0 /\ Readers' \in Nat
    BY <1>1, <1>2, <1>4, <2>1, Queues DEF Answers, Readers
  <2>3. Aligned' /\ FailedBehind'
    BY <1>1, <1>2, <1>4, <2>2, Queues DEF Aligned, FailedBehind
  <2> QED BY <1>1, <1>4, <2>1, <2>3 DEF PipeInv
<1> QED BY <1>1, <1>3, <1>4

(* The answer takes the place of the oldest request.                       *)
LEMMA ServePipe ==
  ASSUME Parts = 1, TypeOK, OneTurn, PipeInv, Serve
  PROVE  PipeInv'
<1>1. PICK chunk \in Chunks(c2s), ok \in BOOLEAN :
        /\ c2s' = After(c2s, chunk)
        /\ s2c' = IF socket = "connected"
                    THEN s2c \o Fragments(OnMessage(chunk, ok))
                    ELSE s2c
  BY DEF Serve
<1>2. UNCHANGED <<socket, reads, writes>> /\ socket \in {"connected", "closed"}
  BY DEF Serve, linkVars, pollVars
<1>3. CASE socket = "closed"
  BY <1>2, <1>3 DEF PipeInv, Live
<1>4. CASE socket = "connected"
  <2>1. /\ Len(c2s) >= 1
        /\ Len(c2s') = Len(c2s) - 1
        /\ \A i \in 1..(Len(c2s) - 1) : c2s'[i] = c2s[i + 1]
        /\ Decodes(chunk) /\ Decoded(chunk) = c2s[1].msg
    <3>1. ReadCap = 1 \/ Len(c2s) <= 1
      BY <1>4, Queues DEF OneTurn, PipeInv, Live, Aligned, Answers, Readers
    <3> QED BY <1>1, <3>1, Queues, OneMessageReads
  <2> DEFINE m == [call |-> c2s[1].msg, ok |-> ok]
             f == [msg |-> m, part |-> 1]
  <2>2. f \in Fragment(Response) /\ f.msg.call = c2s[1].msg
    <3>1. c2s[1] \in Fragment(Calls)
      BY <2>1, Queues
    <3>2. c2s[1].msg \in Calls
      BY <3>1 DEF Fragment
    <3>3. m \in Response
      BY <3>2 DEF Response
    <3> QED BY <3>3 DEF Fragment
  <2>3. s2c' = Append(s2c, f)
    <3>1. OnMessage(chunk, ok) = m
      BY <2>1 DEF OnMessage
    <3>2. s2c' = s2c \o <<f>>
      BY <1>1, <1>4, <3>1, OneFragment
    <3> QED BY <2>2, <3>2, Queues
  <2> HIDE DEF f
  <2>4. /\ Len(s2c') = Len(s2c) + 1
        /\ \A i \in 1..Len(s2c) : s2c'[i] = s2c[i]
        /\ s2c'[Len(s2c) + 1] = f
    BY <2>2, <2>3, Queues, AppendFacts
  <2>5. Answers' = Answers /\ Answers \in Nat
    BY <2>1, <2>4, Queues DEF Answers
  <2>6. ASSUME NEW i \in 1..Answers PROVE AnswerOf(i)' = AnswerOf(i)
    <3>1. CASE i <= Len(s2c)
      BY <2>4, <3>1, Queues DEF AnswerOf
    <3>2. CASE i = Len(s2c) + 1
      <4>1. i - Len(s2c) = 1 /\ ~(i <= Len(s2c)) /\ i <= Len(s2c')
        BY <2>4, <3>2, Queues
      <4>2. AnswerOf(i)' = f.msg.call
        BY <2>4, <3>2, <4>1 DEF AnswerOf
      <4>3. AnswerOf(i) = c2s[1].msg
        BY <4>1 DEF AnswerOf
      <4> QED BY <2>2, <4>2, <4>3
    <3>3. CASE i > Len(s2c) + 1
      <4>1. /\ i - (Len(s2c) + 1) \in 1..(Len(c2s) - 1)
            /\ (i - (Len(s2c) + 1)) + 1 = i - Len(s2c)
            /\ ~(i <= Len(s2c)) /\ ~(i <= Len(s2c) + 1)
        BY <3>3, Queues DEF Answers
      <4>2. c2s'[i - (Len(s2c) + 1)] = c2s[i - Len(s2c)]
        BY <2>1, <4>1
      <4> QED BY <2>4, <4>1, <4>2 DEF AnswerOf
    <3> QED BY <3>1, <3>2, <3>3, Queues
  <2>7. Readers' = Readers /\ \A i \in 1..Readers : Reader(i)' = Reader(i)
    BY <1>2 DEF Readers, Reader
  <2>8. Aligned' /\ FailedBehind'
    BY <1>2, <1>4, <2>5, <2>6, <2>7 DEF PipeInv, Live, Aligned, FailedBehind
  <2> QED BY <1>2, <1>4, <2>8 DEF PipeInv, Live
<1> QED BY <1>2, <1>3, <1>4

(* A crash cuts off the end of the answers to come.                        *)
LEMMA CrashPipe ==
  ASSUME TypeOK, PipeInv, NEW s \in Servers, ServerCrash(s)
  PROVE  PipeInv'
<1>1. UNCHANGED <<reads, writes>> /\ c2s' \in {c2s, <<>>}
  BY DEF ServerCrash, pollVars
<1>2. CASE peer = s /\ socket = "connected"
  <2>0. c2s' = <<>> /\ socket' = "broken" /\ \E n \in 0..Len(s2c) : s2c' = SubSeq(s2c, 1, n)
    BY <1>2 DEF ServerCrash
  <2>1. /\ c2s' = <<>> /\ socket' = "broken"
        /\ Len(s2c') \in Nat /\ Len(s2c') <= Len(s2c)
        /\ \A i \in 1..Len(s2c') : s2c'[i] = s2c[i]
    BY <2>0, Queues
  <2>2. /\ Answers' \in Nat /\ Answers \in Nat /\ Answers' <= Answers
        /\ \A i \in 1..Answers' : AnswerOf(i)' = AnswerOf(i)
    BY <2>1, Queues DEF Answers, AnswerOf
  <2>3. Readers' = Readers /\ Readers \in Nat /\ \A i \in 1..Readers : Reader(i)' = Reader(i)
    BY <1>1, Queues DEF Readers, Reader
  <2>4. Aligned /\ FailedBehind
    BY <1>2 DEF PipeInv, Live
  <2>5. Aligned'
    BY <2>1, <2>2, <2>3, <2>4 DEF Aligned
  <2>6. FailedBehind'
    BY <1>1, <2>2, <2>4, Queues DEF FailedBehind
  <2> QED BY <1>1, <2>1, <2>5, <2>6 DEF PipeInv
<1>3. CASE ~(peer = s /\ socket = "connected")
  <2>1. UNCHANGED <<socket, s2c>> /\ (c2s' = c2s \/ peer = s)
    BY <1>3 DEF ServerCrash
  <2>2. CASE c2s' = c2s
    BY <1>1, <2>1, <2>2, SamePipe
  <2>3. CASE c2s' = <<>> /\ socket = "broken"
    <3>1. c2s' = c2s
      BY <2>3 DEF PipeInv
    <3> QED BY <1>1, <2>1, <3>1, SamePipe
  <2>4. CASE c2s' = <<>> /\ socket = "none"
    <3>1. Readers' = 0 /\ Answers' = 0
      BY <1>1, <2>1, <2>4, Queues DEF PipeInv, Readers, Answers
    <3> QED BY <1>1, <2>1, <2>4, <3>1 DEF PipeInv, Live
  <2>5. CASE socket \notin {"connected", "broken", "none"}
    BY <1>1, <2>1, <2>5 DEF PipeInv, Live
  <2> QED BY <1>1, <1>3, <2>1, <2>2, <2>3, <2>4, <2>5
<1> QED BY <1>2, <1>3

(* A new connection has nothing on it, and a closed one no longer counts.  *)
LEMMA LinkPipe ==
  ASSUME TypeOK, PipeInv, Close \/ \E c \in Calls : Connect(c)
  PROVE  PipeInv'
<1>1. UNCHANGED <<reads, writes, c2s>>
  BY DEF Close, Connect, pollVars, netVars
<1>2. CASE UNCHANGED <<socket, s2c>>
  BY <1>1, <1>2, SamePipe
<1>3. CASE socket = "none" /\ s2c' \in {s2c, <<>>} /\ socket' # "broken"
  <2>1. Readers = 0 /\ Answers = 0
    BY <1>3 DEF PipeInv
  <2>2. Readers' = 0 /\ Answers' = 0 /\ Len(writes) = 0
    BY <1>1, <1>3, <2>1, Queues DEF Readers, Answers
  <2>3. Aligned' /\ FailedBehind'
    BY <1>1, <2>2 DEF Aligned, FailedBehind
  <2> QED BY <1>1, <1>3, <2>2, <2>3 DEF PipeInv
<1>4. CASE socket' = "closed"
  BY <1>1, <1>4 DEF PipeInv, Live
<1> QED BY <1>2, <1>3, <1>4 DEF Close, Connect, linkVars, netVars

(* Every step keeps the queues aligned.                                    *)
LEMMA NextPipe ==
  ASSUME Orderly, TypeOK, CallInv, Turns, PipeInv, StartedInv, [Next]_vars
  PROVE  PipeInv'
<1>t. OneTurn /\ Parts = 1
  BY TurnsTaken DEF Orderly
<1>1. CASE UNCHANGED vars
  BY <1>1, SamePipe DEF vars, linkVars, netVars
<1>2. ASSUME NEW c \in Calls, CallStep(c) \/ StartCancel(c) PROVE PipeInv'
  <2>1. CASE GetServiceAddress(c) \/ CheckCanceled(c) \/ StartCancel(c)
    BY <2>1, SamePipe DEF GetServiceAddress, CheckCanceled, StartCancel, linkVars, pollVars, netVars
  <2>2. CASE Connect(c)
    BY <2>2, LinkPipe
  <2>3. CASE SendAsync(c)
    BY <1>t, <2>3, SendAsyncPipe
  <2>4. CASE Send(c)
    BY <2>4, SendPipe
  <2>5. CASE SendReturns(c)
    BY <2>5, SamePipe DEF SendReturns, linkVars, netVars
  <2> QED BY <1>2, <2>1, <2>2, <2>3, <2>4, <2>5 DEF CallStep
<1>3. CASE HandlerStep
  <2>1. CASE RunWriteHandler
    BY <1>t, <2>1, HandleWritePipe
  <2>2. CASE HandleClientRead
    BY <1>t, <2>2, ReadPipe DEF HandleClientRead
  <2>3. CASE HandleClientAsyncRead
    BY <1>t, <2>3, ReadPipe DEF HandleClientAsyncRead
  <2>4. CASE HandleReadError
    BY <2>4, ReadErrorPipe
  <2> QED BY <1>3, <2>1, <2>2, <2>3, <2>4 DEF HandlerStep
<1>4. CASE Close
  BY <1>4, LinkPipe
<1>5. CASE StopIo
  BY <1>5, SamePipe DEF StopIo, linkVars, pollVars, netVars
<1>6. CASE Serve
  BY <1>t, <1>6, ServePipe
<1>7. ASSUME NEW s \in Servers, ServerCrash(s) \/ ServerRestart(s) PROVE PipeInv'
  <2>1. CASE ServerCrash(s)
    BY <2>1, CrashPipe
  <2>2. CASE ServerRestart(s)
    BY <2>2, SamePipe DEF ServerRestart, linkVars, pollVars
  <2> QED BY <1>7, <2>1, <2>2
<1> QED BY <1>1, <1>2, <1>3, <1>4, <1>5, <1>6, <1>7 DEF Next

(* A call beyond Connect finds a socket, which never goes away.            *)
LEMMA NextStarted ==
  ASSUME TypeOK, StartedInv, [Next]_vars
  PROVE  StartedInv'
<1> SUFFICES ASSUME NEW c \in Calls, stage'[c] \in {"connected", "ready", "pending"}
             PROVE  socket' # "none"
  BY DEF StartedInv
<1>1. socket # "none" => socket' # "none"
  BY DEF Next, vars, CallStep, GetServiceAddress, Connect, CheckCanceled, SendAsync, Send,
         SendReturns, StartCancel, HandlerStep, RunWriteHandler, HandleWrite, HandleClientRead,
         HandleClientAsyncRead, TakeChunk, HandleReadError, Close, StopIo, Serve, ServerCrash,
         ServerRestart, linkVars
<1>2. ASSUME NEW d \in Calls, stage[d] \in {"connected", "ready"} PROVE socket' # "none"
  BY <1>1, <1>2 DEF StartedInv
<1>s. ASSUME UNCHANGED stage PROVE socket' # "none"
  BY <1>1, <1>s DEF StartedInv
<1>f. ASSUME NEW d, NEW r, NEW from, Finish(d, r, from) PROVE socket' # "none"
  <2>1. stage'[c] = stage[c]
    BY <1>f DEF Finish, TypeOK
  <2> QED BY <1>1, <2>1 DEF StartedInv
<1>w. ASSUME NEW d, NEW buffer, FinishWith(d, buffer) PROVE socket' # "none"
  <2>1. PICK r, from : Finish(d, r, from)
    BY <1>w DEF FinishWith
  <2> QED BY <1>f, <2>1
<1>3. ASSUME NEW d \in Calls, CallStep(d) PROVE socket' # "none"
  <2>1. CASE GetServiceAddress(d)
    <3>1. CASE Advance(d, "resolved")
      <4>1. stage'[c] = stage[c]
        BY <3>1 DEF Advance, TypeOK
      <4> QED BY <1>1, <4>1 DEF StartedInv
    <3> QED BY <1>f, <2>1, <3>1 DEF GetServiceAddress
  <2>2. CASE Connect(d)
    BY <2>2 DEF Connect, linkVars
  <2>3. CASE CheckCanceled(d) \/ SendAsync(d) \/ Send(d)
    BY <1>2, <2>3 DEF CheckCanceled, SendAsync, Send
  <2>4. CASE SendReturns(d)
    BY <1>w, <2>4 DEF SendReturns
  <2> QED BY <1>3, <2>1, <2>2, <2>3, <2>4 DEF CallStep
<1>4. CASE HandlerStep
  <2>1. CASE RunWriteHandler
    BY <1>s, <1>f, <2>1 DEF RunWriteHandler, HandleWrite, callVars
  <2>2. CASE HandleClientRead
    BY <1>s, <2>2 DEF HandleClientRead, callVars
  <2>3. CASE HandleClientAsyncRead
    BY <1>f, <1>w, <2>3 DEF HandleClientAsyncRead
  <2>4. CASE HandleReadError
    BY <1>s, <1>f, <2>4 DEF HandleReadError, callVars
  <2> QED BY <1>4, <2>1, <2>2, <2>3, <2>4 DEF HandlerStep
<1>5. ASSUME \/ \E d \in Calls : StartCancel(d)
             \/ Close \/ StopIo \/ Serve
             \/ \E s \in Servers : ServerCrash(s) \/ ServerRestart(s)
             \/ UNCHANGED vars
      PROVE  socket' # "none"
  BY <1>5, <1>s DEF StartCancel, Close, StopIo, Serve, ServerCrash, ServerRestart, vars, callVars
<1> QED BY <1>3, <1>4, <1>5 DEF Next

(* The handler of the one read that a Send waits for fills the buffer with *)
(* that Send's answer, and a new Send clears the flag.                     *)
LEMMA NextBuffer ==
  ASSUME Orderly, TypeOK, CallInv, Turns, PipeInv, BufferInv, [Next]_vars
  PROVE  BufferInv'
<1>s. ASSUME UNCHANGED pollVars PROVE BufferInv'
  BY <1>s DEF BufferInv, pollVars
<1>1. ASSUME NEW c \in Calls, CallStep(c) PROVE BufferInv'
  <2>1. CASE Send(c)
    BY <2>1 DEF Send, BufferInv
  <2>2. CASE SendReturns(c)
    BY <2>2 DEF SendReturns, BufferInv
  <2>3. CASE GetServiceAddress(c) \/ Connect(c) \/ CheckCanceled(c) \/ SendAsync(c)
    BY <1>s, <2>3 DEF GetServiceAddress, Connect, CheckCanceled, SendAsync
  <2> QED BY <1>1, <2>1, <2>2, <2>3 DEF CallStep
<1>2. CASE HandleClientRead
  <2>1. PICK chunk \in Chunks(s2c) :
          TakeChunk(chunk) /\ Head(reads) \in SyncCalls /\ response_' = chunk /\ UNCHANGED pollOwner
    BY <1>2 DEF HandleClientRead
  <2>2. Decodes(chunk) /\ Decoded(chunk).call = Head(reads)
    BY <2>1, TurnsTaken, ReadPipe DEF Orderly
  <2>3. Head(reads) = reads[1] /\ 1 \in 1..Len(reads)
    BY <2>1, Queues DEF TakeChunk
  <2>4. Head(reads) = pollOwner
    BY <2>1, <2>3 DEF CallInv, SyncBufferOwned
  <2> QED BY <2>1, <2>2, <2>4 DEF BufferInv
<1>3. ASSUME \/ RunWriteHandler \/ HandleClientAsyncRead \/ HandleReadError
             \/ \E d \in Calls : StartCancel(d)
             \/ Close \/ StopIo \/ Serve
             \/ \E s \in Servers : ServerCrash(s) \/ ServerRestart(s)
             \/ UNCHANGED vars
      PROVE  BufferInv'
  BY <1>3, <1>s DEF RunWriteHandler, HandleWrite, HandleClientAsyncRead, HandleReadError,
     StartCancel, Close, StopIo, Serve, ServerCrash, ServerRestart, vars
<1> QED BY <1>1, <1>2, <1>3 DEF Next, HandlerStep

(* Only a response gives a call an answer: the one its handler has read,   *)
(* or the one its Send finds in the buffer.                                *)
LEMMA NextOwn ==
  ASSUME Orderly, TypeOK, CallInv, Turns, PipeInv, BufferInv, OwnResponse, [Next]_vars
  PROVE  OwnResponse'
<1> USE DEF callVars
<1>s. ASSUME UNCHANGED <<result, answer>> PROVE OwnResponse'
  BY <1>s DEF OwnResponse
<1>f. ASSUME NEW d \in Calls, NEW r \in Failures, Finish(d, r, NoCall) PROVE OwnResponse'
  BY <1>f, FinishOwn
<1>w. ASSUME NEW d \in Calls, NEW buffer, Decodes(buffer), Decoded(buffer).call = d,
             FinishWith(d, buffer)
      PROVE  OwnResponse'
  <2>1. \E r \in {"ok", "serviceError"} : Finish(d, r, d)
    BY <1>w DEF FinishWith
  <2> QED BY <2>1, FinishOwn
<1>1. ASSUME NEW d \in Calls, CallStep(d) PROVE OwnResponse'
  <2>1. CASE SendReturns(d)
    <3>1. stage[d] = "polling" /\ response_received_ /\ FinishWith(d, response_)
      BY <2>1 DEF SendReturns
    <3>2. pollOwner = d /\ d # NoCall
      BY <3>1, ChannelAssumption DEF ChannelAssumption, CallInv, SyncBufferOwned
    <3>3. Decodes(response_) /\ Decoded(response_).call = d
      BY <3>1, <3>2 DEF BufferInv
    <3> QED BY <1>w, <3>1, <3>3
  <2>2. CASE GetServiceAddress(d)
    BY <1>s, <1>f, <2>2 DEF GetServiceAddress, Advance, Failures
  <2>3. CASE Connect(d)
    BY <1>s, <1>f, <2>3 DEF Connect, Advance, Failures
  <2>4. CASE CheckCanceled(d)
    BY <1>s, <1>f, <2>4 DEF CheckCanceled, Advance, Failures
  <2>5. CASE SendAsync(d)
    BY <1>s, <2>5 DEF SendAsync, Advance
  <2>6. CASE Send(d)
    BY <1>s, <1>f, <2>6 DEF Send, Advance, Failures
  <2> QED BY <1>1, <2>1, <2>2, <2>3, <2>4, <2>5, <2>6 DEF CallStep
<1>2. CASE HandlerStep
  <2>1. CASE RunWriteHandler
    <3>1. PICK i \in 1..Len(writes) : HandleWrite(i)
      BY <2>1 DEF RunWriteHandler, Runnable
    <3>2. writes[i].call \in Calls
      BY QueueTypes
    <3> QED BY <1>s, <1>f, <3>1, <3>2 DEF HandleWrite, Failures
  <2>2. CASE HandleClientRead
    BY <1>s, <2>2 DEF HandleClientRead
  <2>3. CASE HandleClientAsyncRead
    <3>1. PICK chunk \in Chunks(s2c) :
            /\ TakeChunk(chunk)
            /\ IF canceled[Head(reads)]
                 THEN Finish(Head(reads), "canceled", NoCall)
                 ELSE FinishWith(Head(reads), chunk)
      BY <2>3 DEF HandleClientAsyncRead
    <3>2. Decodes(chunk) /\ Decoded(chunk).call = Head(reads) /\ Head(reads) \in Calls
      BY <3>1, TurnsTaken, ReadPipe DEF Orderly
    <3> QED BY <1>f, <1>w, <3>1, <3>2 DEF Failures
  <2>4. CASE HandleReadError
    <3>1. Head(reads) \in Calls
      BY <2>4, Queues DEF HandleReadError
    <3> QED BY <1>s, <1>f, <2>4, <3>1 DEF HandleReadError, Failures
  <2> QED BY <1>2, <2>1, <2>2, <2>3, <2>4 DEF HandlerStep
<1>3. ASSUME \/ \E d \in Calls : StartCancel(d)
             \/ Close \/ StopIo \/ Serve
             \/ \E s \in Servers : ServerCrash(s) \/ ServerRestart(s)
             \/ UNCHANGED vars
      PROVE  OwnResponse'
  BY <1>3, <1>s DEF StartCancel, Close, StopIo, Serve, ServerCrash, ServerRestart, vars
<1> QED BY <1>1, <1>2, <1>3 DEF Next

-----------------------------------------------------------------------------
(* The theorems.                                                           *)

(* The conjunction is inductive.                                           *)
LEMMA PipelineInvariant ==
  ASSUME Orderly
  PROVE  Spec => []Inv
<1>1. Init => Inv
  <2>1. Init => Genuine
    BY DEF Init, Genuine, Earned
  <2> QED BY <2>1, InitType, InitCall, InitPipe DEF Inv
<1>2. Inv /\ [Next]_vars => Inv'
  <2> SUFFICES ASSUME Inv, [Next]_vars PROVE Inv'
    OBVIOUS
  <2>1. TypeOK' /\ CallInv' /\ Genuine'
    BY NextType, NextCall, NextGenuine DEF Inv
  <2>2. Turns' /\ PipeInv' /\ StartedInv'
    BY NextTurns, NextPipe, NextStarted DEF Inv
  <2>3. BufferInv' /\ OwnResponse'
    BY NextBuffer, NextOwn DEF Inv
  <2> QED BY <2>1, <2>2, <2>3 DEF Inv
<1> QED BY <1>1, <1>2, PTL DEF Spec

(* Every call that is completed with a response is completed with its own: *)
(* CallMethod never compares an identity, the handlers of                  *)
(* asio_transport.cc keep requests, reads and responses in one order       *)
(* through cancellations, failed writes, crashes and the destruction of    *)
(* the channel, whether calls wait their turn, synchronous or not, or any  *)
(* number of asynchronous ones are in flight.                              *)
THEOREM ResponseSafety ==
  ASSUME Orderly
  PROVE  Spec => []OwnResponse
<1>1. Inv => OwnResponse
  BY DEF Inv
<1> QED BY <1>1, PipelineInvariant, PTL

(* The order itself: the answers to come are, one by one, the answers of   *)
(* the calls that will read next, and none is missing while the connection *)
(* lasts.                                                                  *)
THEOREM PipelineSafety ==
  ASSUME Orderly
  PROVE  Spec => []PipelineAligned
<1>1. Inv => PipelineAligned
  BY AlignedPipeline DEF Inv
<1> QED BY <1>1, PipelineInvariant, PTL

(* So a channel used in one of the two ways is the remote call that RpcCall*)
(* describes: a success was processed by a server, for that very call.     *)
THEOREM OrderlyRefinement ==
  ASSUME Orderly
  PROVE  Spec => ImplementsRpcCall
BY ResponseSafety, CallRefinement, PTL
=============================================================================
