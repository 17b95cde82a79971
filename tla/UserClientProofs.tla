-------------------------- MODULE UserClientProofs --------------------------
(* Safety of the example client, for any number of threads and attempts.   *)
EXTENDS UserClient, FiniteSetTheorems, TLAPS

(* What ties the io thread to the thread it works for.                     *)

(* Until OnCallback has set called_, nobody else has; behind it nobody     *)
(* runs but to notify.                                                     *)
CalledLast(t) ==
  /\ io[t] \in {"pending", "completing", "parsed", "locked"} => ~called_[t]
  /\ io[t] = "notifying" => called_[t]

(* Once the thread has left Wait, the io thread is through, unless the     *)
(* attempt timed out; and a channel that is gone has none.                 *)
IoThrough(t) ==
  /\ pc[t] \in {"calling", "deciding", "returned", "finished"} => io[t] = "none"
  /\ pc[t] \in {"unwinding", "callbackGone", "controllerGone", "stopped"} =>
       t \in timedOut \/ io[t] = "none"

(* An attempt without error has written the response itself.               *)
Wrote(t) ==
  ~error[t] /\ (\/ io[t] \in {"parsed", "locked", "notifying"}
                \/ pc[t] \in {"waiting", "deciding"} /\ called_[t])
    => response[t].by = attempt[t]

WaitDone(t) == pc[t] = "deciding" => called_[t]

ThreadInv(t) == CalledLast(t) /\ IoThrough(t) /\ Wrote(t) /\ WaitDone(t)

Inv ==
  /\ TypeOK
  /\ \A t \in Threads : ThreadInv(t)
  /\ LateOnlyAfterTimeout

-----------------------------------------------------------------------------
(* The initial states satisfy the invariant.                               *)
LEMMA InitInv == Init => Inv
BY ClientAssumption
   DEF ClientAssumption, Init, Inv, TypeOK, ThreadInv, CalledLast, IoThrough, Wrote, WaitDone,
       LateOnlyAfterTimeout, Outcomes

(* Every step of the client keeps every variable in its range.             *)
LEMMA TypeStep == TypeOK /\ [Next]_vars => TypeOK'
<1> SUFFICES ASSUME TypeOK, [Next]_vars PROVE TypeOK'
  OBVIOUS
<1> USE ClientAssumption DEF ClientAssumption, TypeOK, Outcomes
<1>1. ASSUME NEW t \in Threads, SyncLogin(t) PROVE TypeOK'
  BY <1>1 DEF SyncLogin, Verdict, ioVars, countVars
<1>2. ASSUME NEW t \in Threads, CallMethod(t) PROVE TypeOK'
  BY <1>2 DEF CallMethod, countVars
<1>3. ASSUME NEW t \in Threads, Wakes(t) PROVE TypeOK'
  BY <1>3 DEF Wakes, ioVars, countVars
<1>4. ASSUME NEW t \in Threads, TimesOut(t) PROVE TypeOK'
  BY <1>4 DEF TimesOut, ioVars, countVars
<1>5. ASSUME NEW t \in Threads, Decide(t) PROVE TypeOK'
  BY <1>5 DEF Decide, Verdict, ioVars, countVars
<1>6. ASSUME NEW t \in Threads, Unwind(t) PROVE TypeOK'
  BY <1>6 DEF Unwind, Destroys, ioVars, countVars
<1>7. ASSUME NEW t \in Threads, JoinIo(t) PROVE TypeOK'
  <2>1. attempt' \in [Threads -> 1..max_retries]
    <3>1. CASE Again(t) /\ attempt' = [attempt EXCEPT ![t] = @ + 1]
      <4>1. attempt[t] \in 1..max_retries /\ attempt[t] < max_retries
        BY <3>1 DEF Again
      <4>2. attempt[t] + 1 \in 1..max_retries
        BY <4>1
      <4> QED BY <3>1, <4>2
    <3>2. CASE attempt' = attempt
      BY <3>2
    <3> QED BY <1>7, <3>1, <3>2 DEF JoinIo
  <2> QED BY <1>7, <2>1 DEF JoinIo, countVars
<1>8. ASSUME NEW t \in Threads, HandlerStarts(t) PROVE TypeOK'
  BY <1>8 DEF HandlerStarts, Touches, countVars
<1>9. ASSUME NEW t \in Threads, HandlerStep(t) PROVE TypeOK'
  <2>1. CASE Completes(t)
    <3>1. response' \in [Threads -> [by : 0..max_retries, success : BOOLEAN]]
      BY <2>1 DEF Completes
    <3>2. error' \in [Threads -> BOOLEAN] /\ undefined' \subseteq Threads
      BY <2>1 DEF Completes, Touches
    <3> QED BY <2>1, <3>1, <3>2 DEF Completes, countVars
  <2>2. CASE OnCallback(t)
    BY <2>2 DEF OnCallback, Touches, countVars
  <2>3. CASE SetsCalled(t)
    BY <2>3 DEF SetsCalled, countVars
  <2>4. CASE Notifies(t)
    BY <2>4 DEF Notifies, Touches, countVars
  <2> QED BY <1>9, <2>1, <2>2, <2>3, <2>4 DEF HandlerStep
<1>10. ASSUME NEW t \in Threads, Count(t) PROVE TypeOK'
  BY <1>10 DEF Count, ioVars
<1>11. CASE JoinThreads
  BY <1>11 DEF JoinThreads, ioVars
<1>12. ASSUME NEW t \in Threads, ChannelThrows(t) PROVE TypeOK'
  BY <1>12 DEF ChannelThrows, ioVars
<1>13. CASE UNCHANGED vars
  BY <1>13 DEF vars, ioVars, countVars
<1> QED
  BY <1>1, <1>2, <1>3, <1>4, <1>5, <1>6, <1>7, <1>8, <1>9, <1>10, <1>11, <1>12, <1>13
     DEF Next, AsyncStep

-----------------------------------------------------------------------------
(* A step of one thread, or of its io thread, leaves what ThreadInv says   *)
(* of the others alone.                                                    *)
OthersKept(t) ==
  \A u \in Threads \ {t} :
    /\ pc'[u] = pc[u] /\ attempt'[u] = attempt[u] /\ io'[u] = io[u]
    /\ error'[u] = error[u] /\ called_'[u] = called_[u] /\ response'[u] = response[u]
    /\ (u \in timedOut => u \in timedOut')

LEMMA OthersInv ==
  ASSUME NEW t \in Threads, OthersKept(t), NEW u \in Threads \ {t}, ThreadInv(u)
  PROVE  ThreadInv(u)'
BY DEF OthersKept, ThreadInv, CalledLast, IoThrough, Wrote, WaitDone

(* Every step of the client keeps ThreadInv and the promise that only a    *)
(* timeout lets an io thread meet a destroyed object.                      *)
LEMMA ThreadStep ==
  ASSUME Inv, NEW t \in Threads,
         \/ SyncLogin(t) \/ CallMethod(t) \/ Wakes(t) \/ TimesOut(t) \/ Decide(t)
         \/ Unwind(t) \/ JoinIo(t) \/ HandlerStarts(t) \/ HandlerStep(t) \/ Count(t)
  PROVE  OthersKept(t) /\ ThreadInv(t)' /\ LateOnlyAfterTimeout'
<1> USE DEF Inv, TypeOK, Outcomes
<1>t. ThreadInv(t)
  OBVIOUS
<1>1. CASE SyncLogin(t)
  BY <1>1, <1>t DEF SyncLogin, ioVars, countVars, OthersKept, ThreadInv, CalledLast, IoThrough,
     Wrote, WaitDone, LateOnlyAfterTimeout
<1>2. CASE CallMethod(t)
  <2>1. /\ pc'[t] = "waiting" /\ OthersKept(t) /\ UNCHANGED <<undefined, timedOut>>
        /\ \/ io'[t] = "pending" /\ error'[t] = FALSE /\ called_'[t] = FALSE
           \/ io'[t] = "none" /\ error'[t] = TRUE /\ called_'[t] = TRUE
    <3>1. PICK sent \in BOOLEAN :
            /\ io' = [io EXCEPT ![t] = IF sent THEN "pending" ELSE "none"]
            /\ error' = [error EXCEPT ![t] = ~sent]
            /\ called_' = [called_ EXCEPT ![t] = ~sent]
      BY <1>2 DEF CallMethod
    <3>2. \/ io'[t] = "pending" /\ error'[t] = FALSE /\ called_'[t] = FALSE
          \/ io'[t] = "none" /\ error'[t] = TRUE /\ called_'[t] = TRUE
      <4>1. CASE sent = TRUE
        BY <3>1, <4>1
      <4>2. CASE sent = FALSE
        BY <3>1, <4>2
      <4> QED BY <4>1, <4>2
    <3>3. pc'[t] = "waiting" /\ UNCHANGED <<undefined, timedOut, attempt, response>>
      BY <1>2 DEF CallMethod
    <3>4. OthersKept(t)
      BY <1>2, <3>1, <3>3 DEF CallMethod, OthersKept
    <3> QED BY <3>2, <3>3, <3>4
  <2>2. ThreadInv(t)'
    BY <2>1 DEF ThreadInv, CalledLast, IoThrough, Wrote, WaitDone
  <2> QED BY <2>1, <2>2 DEF LateOnlyAfterTimeout
<1>3. CASE Wakes(t)
  BY <1>3, <1>t DEF Wakes, Held, ioVars, countVars, OthersKept, ThreadInv, CalledLast, IoThrough,
     Wrote, WaitDone, LateOnlyAfterTimeout
<1>4. CASE TimesOut(t)
  BY <1>4, <1>t DEF TimesOut, ioVars, countVars, OthersKept, ThreadInv, CalledLast, IoThrough,
     Wrote, WaitDone, LateOnlyAfterTimeout
<1>5. CASE Decide(t)
  BY <1>5, <1>t DEF Decide, ioVars, countVars, OthersKept, ThreadInv, CalledLast, IoThrough,
     Wrote, WaitDone, LateOnlyAfterTimeout
<1>6. CASE Unwind(t)
  BY <1>6, <1>t DEF Unwind, Destroys, ioVars, countVars, OthersKept, ThreadInv, CalledLast,
     IoThrough, Wrote, WaitDone, LateOnlyAfterTimeout
<1>7. CASE JoinIo(t)
  BY <1>7, <1>t DEF JoinIo, countVars, OthersKept, ThreadInv, CalledLast, IoThrough,
     Wrote, WaitDone, LateOnlyAfterTimeout
<1>8. CASE HandlerStarts(t)
  <2>1. ~ControllerAlive(t) => t \in timedOut
    BY <1>8, <1>t DEF HandlerStarts, ThreadInv, IoThrough, CallbackAlive, ControllerAlive
  <2>2. LateOnlyAfterTimeout'
    BY <1>8, <2>1 DEF HandlerStarts, Touches, LateOnlyAfterTimeout
  <2>3. OthersKept(t)
    BY <1>8 DEF HandlerStarts, OthersKept
  <2>4. ThreadInv(t)'
    BY <1>8, <1>t DEF HandlerStarts, ThreadInv, CalledLast, IoThrough, Wrote, WaitDone
  <2> QED BY <2>2, <2>3, <2>4
<1>9. CASE HandlerStep(t)
  <2>0. io[t] # "none" /\ ~CallbackAlive(t) => t \in timedOut
    BY <1>t DEF ThreadInv, IoThrough, CallbackAlive
  <2>1. CASE Completes(t)
    <3>1. LateOnlyAfterTimeout'
      BY <2>0, <2>1 DEF Completes, Touches, ControllerAlive, LateOnlyAfterTimeout
    <3>2. OthersKept(t)
      BY <2>1 DEF Completes, OthersKept, countVars
    <3>3. Wrote(t)'
      BY <1>t, <2>1 DEF Completes, Wrote, ThreadInv, CalledLast
    <3>4. CalledLast(t)' /\ IoThrough(t)' /\ WaitDone(t)'
      BY <1>t, <2>1 DEF Completes, ThreadInv, CalledLast, IoThrough, WaitDone
    <3> QED BY <3>1, <3>2, <3>3, <3>4 DEF ThreadInv
  <2>2. CASE OnCallback(t)
    BY <1>t, <2>0, <2>2 DEF OnCallback, Touches, countVars, OthersKept, ThreadInv, CalledLast,
       IoThrough, Wrote, WaitDone, LateOnlyAfterTimeout
  <2>3. CASE SetsCalled(t)
    BY <1>t, <2>3 DEF SetsCalled, countVars, OthersKept, ThreadInv, CalledLast,
       IoThrough, Wrote, WaitDone, LateOnlyAfterTimeout
  <2>4. CASE Notifies(t)
    BY <1>t, <2>0, <2>4 DEF Notifies, Touches, countVars, OthersKept, ThreadInv, CalledLast,
       IoThrough, Wrote, WaitDone, LateOnlyAfterTimeout
  <2> QED BY <1>9, <2>1, <2>2, <2>3, <2>4 DEF HandlerStep
<1>10. CASE Count(t)
  BY <1>10, <1>t DEF Count, ioVars, OthersKept, ThreadInv, CalledLast, IoThrough,
     Wrote, WaitDone, LateOnlyAfterTimeout
<1> QED
  BY <1>1, <1>2, <1>3, <1>4, <1>5, <1>6, <1>7, <1>8, <1>9, <1>10

(* Every step keeps the invariant.                                         *)
LEMMA StepInv == Inv /\ [Next]_vars => Inv'
<1> SUFFICES ASSUME Inv, [Next]_vars PROVE Inv'
  OBVIOUS
<1>1. TypeOK'
  BY TypeStep DEF Inv
<1>2. ASSUME NEW t \in Threads,
             OthersKept(t) /\ ThreadInv(t)' /\ LateOnlyAfterTimeout'
      PROVE  Inv'
  <2>1. \A u \in Threads \ {t} : ThreadInv(u)'
    BY <1>2, OthersInv DEF Inv
  <2> QED BY <1>1, <1>2, <2>1 DEF Inv
<1>3. ASSUME NEW t \in Threads, SyncLogin(t) \/ AsyncStep(t) \/ HandlerStarts(t)
                                  \/ HandlerStep(t) \/ Count(t)
      PROVE  Inv'
  <2>1. OthersKept(t) /\ ThreadInv(t)' /\ LateOnlyAfterTimeout'
    BY <1>3, ThreadStep DEF AsyncStep
  <2> QED BY <1>2, <2>1
<1>4. CASE JoinThreads \/ UNCHANGED vars \/ \E t \in Threads : ChannelThrows(t)
  <2>1. UNCHANGED <<pc, attempt, io, error, called_, response, timedOut, undefined>>
    BY <1>4 DEF JoinThreads, ChannelThrows, vars, ioVars, countVars
  <2> QED
    BY <1>1, <2>1 DEF Inv, ThreadInv, CalledLast, IoThrough, Wrote, WaitDone,
       LateOnlyAfterTimeout
<1> QED BY <1>3, <1>4 DEF Next

-----------------------------------------------------------------------------
(* The client is type correct, for any threads and number of attempts.     *)
THEOREM TypeCorrect == Spec => []TypeOK
<1>1. Inv => TypeOK
  BY DEF Inv
<1> QED BY InitInv, StepInv, <1>1, PTL DEF Spec

(* Without a timeout no io thread touches a destroyed AsyncCallback or     *)
(* XrpcController.                                                         *)
THEOREM LateSafety == Spec => []LateOnlyAfterTimeout
<1>1. Inv => LateOnlyAfterTimeout
  BY DEF Inv
<1> QED BY InitInv, StepInv, <1>1, PTL DEF Spec

(* A verdict is reached from what this attempt's answer has finished       *)
(* writing.                                                                *)
THEOREM VerdictSafety == Spec => []VerdictSettled
<1>1. Inv => VerdictSettled
  BY DEF Inv, VerdictSettled, ThreadInv, IoThrough, Wrote, WaitDone
<1> QED BY InitInv, StepInv, <1>1, PTL DEF Spec
-----------------------------------------------------------------------------
(* The statistics.  A success can be traced back to the answer: from the   *)
(* verdict to the response it was read from, from there to the io thread   *)
(* that parsed it.                                                         *)
Traced(t) ==
  /\ io[t] = "completing" /\ outcome[t] = "ok" => t \in accepted
  /\ response[t].success => t \in accepted
  /\ verdict[t] = "success" => t \in accepted

(* Nobody returns without a verdict.                                       *)
Judged(t) == pc[t] \notin {"calling", "waiting", "deciding"} => verdict[t] # "none"

Counted(v) == {t \in Threads : pc[t] = "finished" /\ verdict[t] = v}

Tally ==
  /\ success_count = Cardinality(Counted("success"))
  /\ fail_count = Cardinality(Counted("failure"))
  /\ main = "done" => \A t \in Threads : pc[t] = "finished"

StatsInv == TypeOK /\ Tally /\ \A t \in Threads : Traced(t) /\ Judged(t)

(* The initial states have counted nobody.                                 *)
LEMMA InitStats == Init => StatsInv
<1> SUFFICES ASSUME Init PROVE StatsInv
  OBVIOUS
<1>1. TypeOK
  BY InitInv DEF Inv
<1>2. Counted("success") = {} /\ Counted("failure") = {}
  BY DEF Init, Counted
<1>3. Tally
  BY <1>2, FS_EmptySet DEF Init, Tally
<1>4. \A t \in Threads : Traced(t) /\ Judged(t)
  BY DEF Init, Traced, Judged
<1> QED BY <1>1, <1>3, <1>4 DEF StatsInv

(* Whoever succeeds was answered so, and nobody returns unjudged.          *)
LEMMA NextTraced ==
  ASSUME StatsInv, [Next]_vars, NEW u \in Threads
  PROVE  Traced(u)' /\ Judged(u)'
<1> USE DEF StatsInv, TypeOK, Outcomes, ioVars, countVars
<1>0. Traced(u) /\ Judged(u)
  OBVIOUS
<1> USE DEF Traced, Judged
<1>1. ASSUME NEW t \in Threads, SyncLogin(t) PROVE Traced(u)' /\ Judged(u)'
  <2>1. PICK o \in Outcomes :
          /\ verdict' = [verdict EXCEPT ![t] = Verdict(o \in {"failed", "lost"}, o = "ok")]
          /\ accepted' = IF o = "ok" THEN accepted \union {t} ELSE accepted
    BY <1>1 DEF SyncLogin
  <2>2. /\ pc' = [pc EXCEPT ![t] = "returned"]
        /\ UNCHANGED <<io, outcome, response>>
    BY <1>1 DEF SyncLogin
  <2>3. /\ verdict'[t] \in {"success", "failure"}
        /\ verdict'[t] = "success" => t \in accepted'
    <3>1. CASE o = "ok"
      BY <2>1, <3>1 DEF Verdict
    <3>2. CASE o # "ok"
      BY <2>1, <3>2 DEF Verdict
    <3> QED BY <3>1, <3>2
  <2>4. accepted \subseteq accepted' /\ (u # t => verdict'[u] = verdict[u])
    BY <2>1
  <2> QED BY <1>0, <2>2, <2>3, <2>4
<1>2. ASSUME NEW t \in Threads, AsyncStep(t) PROVE Traced(u)' /\ Judged(u)'
  <2>0. UNCHANGED <<outcome, response, accepted>>
    BY <1>2 DEF AsyncStep, CallMethod, Wakes, TimesOut, Decide, Unwind, Destroys, JoinIo
  <2>1. CASE Decide(t)
    <3>1. /\ pc' = [pc EXCEPT ![t] = "unwinding"] /\ io' = io
          /\ verdict' = [verdict EXCEPT ![t] = Verdict(error[t], response[t].success)]
      BY <2>1 DEF Decide
    <3>2. /\ verdict'[t] \in {"success", "failure"}
          /\ verdict'[t] = "success" => response[t].success
      BY <3>1 DEF Verdict
    <3> QED BY <1>0, <2>0, <3>1, <3>2
  <2>2. CASE CallMethod(t)
    <3>1. /\ pc' = [pc EXCEPT ![t] = "waiting"] /\ verdict' = verdict
          /\ io'[t] # "completing" /\ (u # t => io'[u] = io[u])
      BY <2>2 DEF CallMethod
    <3> QED BY <1>0, <2>0, <3>1
  <2>3. CASE TimesOut(t)
    BY <1>0, <2>0, <2>3 DEF TimesOut
  <2>4. CASE Wakes(t) \/ Unwind(t)
    BY <1>0, <2>0, <2>4 DEF Wakes, Unwind, Destroys
  <2>5. CASE JoinIo(t)
    BY <1>0, <2>0, <2>5 DEF JoinIo
  <2> QED BY <1>2, <2>1, <2>2, <2>3, <2>4, <2>5 DEF AsyncStep
<1>3. ASSUME NEW t \in Threads, HandlerStarts(t) PROVE Traced(u)' /\ Judged(u)'
  <2>1. PICK o \in Outcomes :
          /\ outcome' = [outcome EXCEPT ![t] = o]
          /\ accepted' = IF o = "ok" THEN accepted \union {t} ELSE accepted
    BY <1>3 DEF HandlerStarts
  <2>2. UNCHANGED <<pc, response, verdict>> /\ io' = [io EXCEPT ![t] = "completing"]
    BY <1>3 DEF HandlerStarts
  <2> QED BY <1>0, <2>1, <2>2
<1>4. ASSUME NEW t \in Threads, HandlerStep(t) PROVE Traced(u)' /\ Judged(u)'
  <2>1. UNCHANGED <<pc, verdict, accepted, outcome>>
    BY <1>4 DEF HandlerStep, Completes, OnCallback, SetsCalled, Notifies
  <2>2. io'[t] # "completing" /\ (u # t => io'[u] = io[u])
    BY <1>4 DEF HandlerStep, Completes, OnCallback, SetsCalled, Notifies
  <2>3. CASE Completes(t)
    <3>1. response'[u].success => u \in accepted
      <4>1. CASE u = t /\ outcome[t] # "lost"
        BY <1>0, <2>3, <4>1 DEF Completes
      <4>2. CASE ~(u = t /\ outcome[t] # "lost")
        <5>1. response'[u] = response[u]
          BY <2>3, <4>2 DEF Completes
        <5> QED BY <1>0, <5>1
      <4> QED BY <4>1, <4>2
    <3> QED BY <1>0, <2>1, <2>2, <3>1
  <2>4. CASE response' = response
    BY <1>0, <2>1, <2>2, <2>4
  <2> QED BY <1>4, <2>3, <2>4 DEF HandlerStep, OnCallback, SetsCalled, Notifies
<1>5. ASSUME NEW t \in Threads, Count(t) PROVE Traced(u)' /\ Judged(u)'
  BY <1>0, <1>5 DEF Count
<1>6. CASE JoinThreads \/ UNCHANGED vars \/ \E t \in Threads : ChannelThrows(t)
  BY <1>0, <1>6 DEF JoinThreads, ChannelThrows, vars
<1> QED BY <1>1, <1>2, <1>3, <1>4, <1>5, <1>6 DEF Next

(* Only Count changes who is counted, and what the counters say.           *)
LEMMA NextTally == StatsInv /\ [Next]_vars => Tally'
<1> SUFFICES ASSUME StatsInv, [Next]_vars PROVE Tally'
  OBVIOUS
<1> USE DEF StatsInv, TypeOK, ioVars, countVars
<1>1. ASSUME NEW t \in Threads, Count(t) PROVE Tally'
  <2>1. /\ pc[t] = "returned" /\ pc' = [pc EXCEPT ![t] = "finished"]
        /\ UNCHANGED <<verdict, main>>
    BY <1>1 DEF Count
  <2>2. ASSUME NEW v \in {"success", "failure"}
        PROVE  /\ t \notin Counted(v) /\ IsFiniteSet(Counted(v))
               /\ Counted(v)' = IF verdict[t] = v THEN Counted(v) \union {t} ELSE Counted(v)
    <3>1. IsFiniteSet(Counted(v))
      BY ClientAssumption, FS_Subset DEF ClientAssumption, Counted
    <3>2. t \notin Counted(v)
      BY <2>1 DEF Counted
    <3>3. CASE verdict[t] = v
      BY <2>1, <3>1, <3>2, <3>3 DEF Counted
    <3>4. CASE verdict[t] # v
      BY <2>1, <3>1, <3>2, <3>4 DEF Counted
    <3> QED BY <3>3, <3>4, <3>1, <3>2
  <2>3. ASSUME NEW v \in {"success", "failure"}
        PROVE  Cardinality(Counted(v))' = IF verdict[t] = v THEN Cardinality(Counted(v)) + 1
                                          ELSE Cardinality(Counted(v))
    <3> DEFINE S == Counted(v)
    <3>1. t \notin S /\ IsFiniteSet(S)
      BY <2>2
    <3>2. Cardinality(S \union {t}) = Cardinality(S) + 1
      BY <3>1, FS_AddElement
    <3>3. Counted(v)' = IF verdict[t] = v THEN S \union {t} ELSE S
      BY <2>2
    <3> HIDE DEF S
    <3>4. Cardinality(Counted(v)') = IF verdict[t] = v THEN Cardinality(S) + 1
                                     ELSE Cardinality(S)
      BY <3>2, <3>3
    <3> QED BY <3>4 DEF S
  <2>4. main' = "done" => \A u \in Threads : pc'[u] = "finished"
    BY <2>1 DEF Tally
  <2>5. /\ success_count' = Cardinality(Counted("success"))'
        /\ fail_count' = Cardinality(Counted("failure"))'
    <3>1. CASE verdict[t] = "success"
      BY <1>1, <2>3, <3>1 DEF Count, Tally
    <3>2. CASE verdict[t] = "failure"
      BY <1>1, <2>3, <3>2 DEF Count, Tally
    <3> QED BY <1>1, <3>1, <3>2 DEF Count
  <2> QED BY <2>4, <2>5 DEF Tally
<1>2. CASE JoinThreads
  <2>1. UNCHANGED <<pc, verdict, success_count, fail_count>> /\ main' = "done"
        /\ \A t \in Threads : pc[t] = "finished"
    BY <1>2 DEF JoinThreads
  <2>2. Counted("success")' = Counted("success") /\ Counted("failure")' = Counted("failure")
    BY <2>1 DEF Counted
  <2> QED BY <2>1, <2>2 DEF Tally
<1>3. ASSUME NEW t \in Threads,
             SyncLogin(t) \/ AsyncStep(t) \/ HandlerStarts(t) \/ HandlerStep(t)
      PROVE  Tally'
  <2>1. UNCHANGED <<success_count, fail_count, main>>
    BY <1>3 DEF SyncLogin, AsyncStep, CallMethod, Wakes, TimesOut, Decide, Unwind, Destroys,
       JoinIo, HandlerStarts, HandlerStep, Completes, OnCallback, SetsCalled, Notifies
  <2>2. ASSUME NEW u \in Threads
        PROVE  /\ pc'[u] = "finished" <=> pc[u] = "finished"
               /\ pc[u] = "finished" => verdict'[u] = verdict[u]
    <3>1. CASE SyncLogin(t)
      BY <3>1 DEF SyncLogin
    <3>2. CASE AsyncStep(t)
      BY <3>2 DEF AsyncStep, CallMethod, Wakes, TimesOut, Decide, Unwind, Destroys, JoinIo
    <3>3. CASE HandlerStarts(t) \/ HandlerStep(t)
      BY <3>3 DEF HandlerStarts, HandlerStep, Completes, OnCallback, SetsCalled, Notifies
    <3> QED BY <1>3, <3>1, <3>2, <3>3
  <2>3. Counted("success")' = Counted("success") /\ Counted("failure")' = Counted("failure")
    BY <2>2 DEF Counted
  <2> QED BY <2>1, <2>2, <2>3 DEF Tally
<1>4. CASE UNCHANGED vars \/ \E t \in Threads : ChannelThrows(t)
  <2>1. /\ UNCHANGED <<pc, verdict, success_count, fail_count>>
        /\ main' = main \/ main' = "terminated"
    BY <1>4 DEF vars, ChannelThrows
  <2>2. Counted("success")' = Counted("success") /\ Counted("failure")' = Counted("failure")
    BY <2>1 DEF Counted
  <2> QED BY <2>1, <2>2 DEF Tally
<1> QED BY <1>1, <1>2, <1>3, <1>4 DEF Next

(* The statistics are true: there are no more successes than threads whose *)
(* login a server has accepted, and in the end every thread is counted     *)
(* once.                                                                   *)
THEOREM StatsSafety == Spec => []StatsTrue
<1>1. StatsInv /\ [Next]_vars => StatsInv'
  BY TypeStep, NextTraced, NextTally DEF StatsInv
<1>2. StatsInv => StatsTrue
  <2> SUFFICES ASSUME StatsInv PROVE StatsTrue
    OBVIOUS
  <2>1. /\ IsFiniteSet(Threads) /\ IsFiniteSet(accepted)
        /\ IsFiniteSet(Counted("success")) /\ IsFiniteSet(Counted("failure"))
    BY ClientAssumption, FS_Subset DEF ClientAssumption, StatsInv, TypeOK, Counted
  <2>2. Counted("success") \subseteq accepted
    BY DEF StatsInv, Traced, Counted
  <2>3. success_count <= Cardinality(accepted)
    BY <2>1, <2>2, FS_Subset DEF StatsInv, Tally
  <2>4. ASSUME main = "done" PROVE success_count + fail_count = Cardinality(Threads)
    <3>1. Counted("success") \union Counted("failure") = Threads
      BY <2>4 DEF StatsInv, TypeOK, Tally, Judged, Counted
    <3>2. Counted("success") \intersect Counted("failure") = {}
      BY DEF Counted
    <3>3. /\ Cardinality(Counted("success")) \in Nat /\ Cardinality(Counted("failure")) \in Nat
          /\ Cardinality({}) = 0
      BY <2>1, FS_CardinalityType, FS_EmptySet
    <3>4. Cardinality(Threads) = Cardinality(Counted("success"))
            + Cardinality(Counted("failure"))
      <4> DEFINE S == Counted("success")  F == Counted("failure")
      <4>1. IsFiniteSet(S) /\ IsFiniteSet(F)
        BY <2>1
      <4> HIDE DEF S, F
      <4>2. Cardinality(S \union F) = Cardinality(S) + Cardinality(F) - Cardinality(S \intersect F)
        BY <4>1, FS_Union
      <4>3. Cardinality(S) \in Nat /\ Cardinality(F) \in Nat
        BY <3>3 DEF S, F
      <4>4. S \union F = Threads /\ S \intersect F = {}
        BY <3>1, <3>2 DEF S, F
      <4>5. Cardinality(Threads) = Cardinality(S) + Cardinality(F)
        <5>1. Cardinality(S \union F) = Cardinality(Threads) /\ Cardinality(S \intersect F) = 0
          BY <3>3, <4>4
        <5> QED BY <4>2, <4>3, <5>1
      <4> QED BY <4>5 DEF S, F
    <3> QED BY <3>4 DEF StatsInv, Tally
  <2> QED BY <2>3, <2>4 DEF StatsTrue
<1> QED BY InitStats, <1>1, <1>2, PTL DEF Spec
=============================================================================
