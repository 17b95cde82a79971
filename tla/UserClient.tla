----------------------------- MODULE UserClient -----------------------------
(***************************************************************************)
(* The example client (examples/client/user_client.cc): threads that each  *)
(* log in once, synchronously or with an AsyncCallback, a timeout of 8     *)
(* seconds and a second attempt.                                           *)
(*                                                                         *)
(* Every attempt has its own XrpcChannel with its own io thread (io[t]),   *)
(* which runs the lambda of SendRequestAsync and then OnCallback.  At the  *)
(* end of an attempt the locals go in the reverse of their order: the      *)
(* AsyncCallback, the XrpcController, then the channel, whose destructor   *)
(* stops and joins the io thread.  The response belongs to the thread and  *)
(* outlives them.                                                          *)
(***************************************************************************)
EXTENDS Naturals, FiniteSets

CONSTANTS
  Threads,
  max_retries

ASSUME ClientAssumption ==
  /\ max_retries \in Nat \ {0}
  /\ IsFiniteSet(Threads)

VARIABLES
  mode,       \* the option given: "sync" or "async"
  pc,         \* position of each thread
  attempt,
  io,         \* position of the io thread of the attempt's channel
  outcome,    \* what the io thread is completing the call with
  error,      \* the attempt failed: ErrorText() is not empty
  called_,
  response,   \* the attempt that last wrote response, and success()
  verdict,    \* what the attempt came to
  timedOut,   \* threads of which an attempt has timed out
  accepted,   \* threads that an answer with success() was sent to
  undefined,  \* threads whose io thread touched an object already destroyed
  success_count, fail_count,
  main

ioVars == <<io, outcome>>
countVars == <<success_count, fail_count, main>>
vars == <<mode, pc, attempt, ioVars, error, called_, response, verdict, timedOut, accepted,
          undefined, countVars>>

(* The answer is a login, a refusal with status 0, an error, or none: the  *)
(* connection is lost or the bytes do not decode.                          *)
Outcomes == {"ok", "denied", "failed", "lost"}

TypeOK ==
  /\ mode \in {"sync", "async"}
  /\ pc \in [Threads -> {"calling", "waiting", "deciding", "unwinding", "callbackGone",
                         "controllerGone", "stopped", "returned", "finished"}]
  /\ attempt \in [Threads -> 1..max_retries]
  /\ io \in [Threads -> {"none", "pending", "completing", "parsed", "locked", "notifying"}]
  /\ outcome \in [Threads -> Outcomes]
  /\ error \in [Threads -> BOOLEAN] /\ called_ \in [Threads -> BOOLEAN]
  /\ response \in [Threads -> [by : 0..max_retries, success : BOOLEAN]]
  /\ verdict \in [Threads -> {"none", "success", "failure"}]
  /\ timedOut \subseteq Threads /\ accepted \subseteq Threads
  /\ undefined \subseteq Threads
  /\ success_count \in Nat /\ fail_count \in Nat
  /\ main \in {"joining", "done", "terminated"}

Init ==
  /\ mode \in {"sync", "async"}
  /\ pc = [t \in Threads |-> "calling"] /\ attempt = [t \in Threads |-> 1]
  /\ io = [t \in Threads |-> "none"] /\ outcome = [t \in Threads |-> "lost"]
  /\ error = [t \in Threads |-> FALSE] /\ called_ = [t \in Threads |-> FALSE]
  /\ response = [t \in Threads |-> [by |-> 0, success |-> FALSE]]
  /\ verdict = [t \in Threads |-> "none"]
  /\ timedOut = {} /\ accepted = {} /\ undefined = {}
  /\ success_count = 0 /\ fail_count = 0 /\ main = "joining"

CallbackAlive(t) == pc[t] \in {"calling", "waiting", "deciding", "unwinding"}
ControllerAlive(t) == CallbackAlive(t) \/ pc[t] = "callbackGone"
Touches(t, alive) == undefined' = IF alive THEN undefined ELSE undefined \union {t}

(* OnCallback holds the mutex of the AsyncCallback until it has notified.  *)
(* HeldUntilCalled: mutant that unlocks before it notifies.                *)
HeldUntilCalled(t) == io[t] = "locked"
Held(t) == io[t] \in {"locked", "notifying"}

-----------------------------------------------------------------------------
(* The constructor of the channel of an attempt connects to ZooKeeper and  *)
(* throws when it cannot.  Nothing in the thread catches that, and the     *)
(* process terminates.                                                     *)
ChannelThrows(t) ==
  /\ pc[t] = "calling"
  /\ main' = "terminated"
  /\ UNCHANGED <<mode, pc, attempt, ioVars, error, called_, response, verdict, timedOut,
                 accepted, undefined, success_count, fail_count>>

-----------------------------------------------------------------------------
(* The thread in SyncLogin: Send may never return.                         *)

Verdict(failed, success) == IF ~failed /\ success THEN "success" ELSE "failure"

SyncLogin(t) ==
  /\ mode = "sync"
  /\ pc[t] = "calling"
  /\ pc' = [pc EXCEPT ![t] = "returned"]
  /\ \E o \in Outcomes :
       /\ verdict' = [verdict EXCEPT ![t] = Verdict(o \in {"failed", "lost"}, o = "ok")]
       /\ accepted' = IF o = "ok" THEN accepted \union {t} ELSE accepted
  /\ UNCHANGED <<mode, attempt, ioVars, error, called_, response, timedOut, undefined, countVars>>

-----------------------------------------------------------------------------
(* The thread in AsyncLogin                                                *)

(* Behind the constructor Login either hands the request to the io thread, *)
(* or fails (no instance, no connection), which CallMethod catches, and    *)
(* runs done at once, on this thread.                                      *)
CallMethod(t) ==
  /\ mode = "async"
  /\ pc[t] = "calling"
  /\ pc' = [pc EXCEPT ![t] = "waiting"]
  /\ \E sent \in BOOLEAN :
       /\ io' = [io EXCEPT ![t] = IF sent THEN "pending" ELSE "none"]
       /\ error' = [error EXCEPT ![t] = ~sent]
       /\ called_' = [called_ EXCEPT ![t] = ~sent]
  /\ UNCHANGED <<mode, attempt, outcome, response, verdict, timedOut, accepted, undefined,
                 countVars>>

Wakes(t) ==
  /\ pc[t] = "waiting"
  /\ called_[t] /\ ~Held(t)
  /\ pc' = [pc EXCEPT ![t] = "deciding"]
  /\ UNCHANGED <<mode, attempt, ioVars, error, called_, response, verdict, timedOut, accepted,
                 undefined, countVars>>

(* wait_for takes the mutex again and looks once more before it gives up.  *)
(* TimeoutIgnored: mutant that does not look at what Wait returns.         *)
(* WaitForever: mutant, a wait without a timeout.                          *)
TimeoutIgnored(t) ==
  /\ pc[t] = "waiting"
  /\ ~called_[t] /\ ~Held(t)
  /\ pc' = [pc EXCEPT ![t] = "deciding"]
  /\ UNCHANGED <<mode, attempt, ioVars, error, called_, response, verdict, timedOut, accepted,
                 undefined, countVars>>

WaitForever(t) == FALSE /\ UNCHANGED vars

TimesOut(t) ==
  /\ pc[t] = "waiting"
  /\ ~called_[t] /\ ~Held(t)
  /\ pc' = [pc EXCEPT ![t] = "unwinding"]
  /\ verdict' = [verdict EXCEPT ![t] = "failure"]
  /\ timedOut' = timedOut \union {t}
  /\ UNCHANGED <<mode, attempt, ioVars, error, called_, response, accepted, undefined, countVars>>

(* DecideByError: mutant that takes an answer without error for a login.   *)
DecideByError(t) ==
  /\ pc[t] = "deciding"
  /\ pc' = [pc EXCEPT ![t] = "unwinding"]
  /\ verdict' = [verdict EXCEPT ![t] = Verdict(error[t], TRUE)]
  /\ UNCHANGED <<mode, attempt, ioVars, error, called_, response, timedOut, accepted, undefined,
                 countVars>>

Decide(t) ==
  /\ pc[t] = "deciding"
  /\ pc' = [pc EXCEPT ![t] = "unwinding"]
  /\ verdict' = [verdict EXCEPT ![t] = Verdict(error[t], response[t].success)]
  /\ UNCHANGED <<mode, attempt, ioVars, error, called_, response, timedOut, accepted, undefined,
                 countVars>>

(* The end of the scope, one object after the other.                       *)
Destroys(t, from, to) ==
  /\ pc[t] = from
  /\ pc' = [pc EXCEPT ![t] = to]
  /\ UNCHANGED <<mode, attempt, ioVars, error, called_, response, verdict, timedOut, accepted,
                 undefined, countVars>>

Unwind(t) ==
  \/ Destroys(t, "unwinding", "callbackGone")
  \/ Destroys(t, "callbackGone", "controllerGone")
  \/ Destroys(t, "controllerGone", "stopped")

(* AgainForLast: mutant, an off-by-one in the retries.                     *)
AgainForLast(t) == verdict[t] = "failure" /\ attempt[t] <= max_retries
Again(t) == verdict[t] = "failure" /\ attempt[t] < max_retries

(* A handler that runs is waited for, one that does not never will.        *)
JoinIo(t) ==
  /\ pc[t] = "stopped"
  /\ io[t] \in {"none", "pending"}
  /\ io' = [io EXCEPT ![t] = "none"]
  /\ \/ /\ ~Again(t)
        /\ pc' = [pc EXCEPT ![t] = "returned"]
        /\ UNCHANGED attempt
     \/ /\ Again(t)
        /\ pc' = [pc EXCEPT ![t] = "calling"]
        /\ attempt' = [attempt EXCEPT ![t] = @ + 1]
  /\ UNCHANGED <<mode, outcome, error, called_, response, verdict, timedOut, accepted, undefined,
                 countVars>>

-----------------------------------------------------------------------------
(* The io thread: the lambda of SendRequestAsync and OnCallback            *)

(* The answer comes, or the connection is lost or closed by Stop; nothing  *)
(* starts once the io_context is stopped.  IsCanceled asks the controller. *)
HandlerStarts(t) ==
  /\ io[t] = "pending"
  /\ pc[t] # "stopped"
  /\ io' = [io EXCEPT ![t] = "completing"]
  /\ \E o \in Outcomes :
       /\ outcome' = [outcome EXCEPT ![t] = o]
       /\ accepted' = IF o = "ok" THEN accepted \union {t} ELSE accepted
  /\ Touches(t, ControllerAlive(t))
  /\ UNCHANGED <<mode, pc, attempt, error, called_, response, verdict, timedOut, countVars>>

Completes(t) ==
  LET failed == outcome[t] \in {"failed", "lost"} IN
  /\ io[t] = "completing"
  /\ io' = [io EXCEPT ![t] = "parsed"]
  /\ response' = [response EXCEPT ![t] =
       IF outcome[t] = "lost" THEN @ ELSE [by |-> attempt[t], success |-> outcome[t] = "ok"]]
  /\ error' = [error EXCEPT ![t] = failed]
  /\ Touches(t, failed => ControllerAlive(t))
  /\ UNCHANGED <<mode, pc, attempt, outcome, called_, verdict, timedOut, accepted, countVars>>

(* done->Run(): OnCallback locks and copies the error text, ...            *)
OnCallback(t) ==
  /\ io[t] = "parsed"
  /\ io' = [io EXCEPT ![t] = "locked"]
  /\ Touches(t, CallbackAlive(t))
  /\ UNCHANGED <<mode, pc, attempt, outcome, error, called_, response, verdict, timedOut,
                 accepted, countVars>>

(* ... sets called_, ...                                                   *)
SetsCalled(t) ==
  /\ io[t] = "locked"
  /\ io' = [io EXCEPT ![t] = "notifying"]
  /\ called_' = [called_ EXCEPT ![t] = TRUE]
  /\ UNCHANGED <<mode, pc, attempt, outcome, error, response, verdict, timedOut, accepted,
                 undefined, countVars>>

(* ... notifies, and unlocks.                                              *)
Notifies(t) ==
  /\ io[t] = "notifying"
  /\ io' = [io EXCEPT ![t] = "none"]
  /\ Touches(t, CallbackAlive(t))
  /\ UNCHANGED <<mode, pc, attempt, outcome, error, called_, response, verdict, timedOut,
                 accepted, countVars>>

-----------------------------------------------------------------------------
(* main                                                                    *)

Count(t) ==
  /\ pc[t] = "returned"
  /\ pc' = [pc EXCEPT ![t] = "finished"]
  /\ \/ /\ verdict[t] = "success"
        /\ success_count' = success_count + 1
        /\ UNCHANGED fail_count
     \/ /\ verdict[t] = "failure"
        /\ fail_count' = fail_count + 1
        /\ UNCHANGED success_count
  /\ UNCHANGED <<mode, attempt, ioVars, error, called_, response, verdict, timedOut, accepted,
                 undefined, main>>

JoinThreads ==
  /\ main = "joining"
  /\ \A t \in Threads : pc[t] = "finished"
  /\ main' = "done"
  /\ UNCHANGED <<mode, pc, attempt, ioVars, error, called_, response, verdict, timedOut,
                 accepted, undefined, success_count, fail_count>>

-----------------------------------------------------------------------------
(* Steps that a thread takes in the end, whatever the servers do.          *)
AsyncStep(t) ==
  \/ CallMethod(t) \/ Wakes(t) \/ TimesOut(t) \/ Decide(t) \/ Unwind(t) \/ JoinIo(t)

HandlerStep(t) == Completes(t) \/ OnCallback(t) \/ SetsCalled(t) \/ Notifies(t)

Alive == undefined = {} /\ main # "terminated"

Next ==
  /\ Alive
  /\ \/ \E t \in Threads :
          \/ ChannelThrows(t) \/ SyncLogin(t) \/ AsyncStep(t)
          \/ HandlerStarts(t) \/ HandlerStep(t) \/ Count(t)
     \/ JoinThreads

(* No fairness for SyncLogin and HandlerStarts: answers may never come.    *)
Fairness ==
  /\ \A t \in Threads :
       /\ WF_vars(Alive /\ AsyncStep(t))
       /\ WF_vars(Alive /\ HandlerStep(t))
       /\ WF_vars(Alive /\ Count(t))
  /\ WF_vars(Alive /\ JoinThreads)

Spec == Init /\ [][Next]_vars
FairSpec == Spec /\ Fairness
-----------------------------------------------------------------------------
(* An io thread touches a destroyed AsyncCallback or XrpcController only   *)
(* behind a timeout: when Wait returns with the answer, the io thread has  *)
(* finished with both, because OnCallback notifies before it unlocks.      *)
LateOnlyAfterTimeout == undefined \subseteq timedOut

(* A thread that reads the error text and the response of its attempt      *)
(* reads what the io thread has finished writing, in this attempt.         *)
VerdictSettled ==
  \A t \in Threads :
    pc[t] = "deciding" =>
      /\ io[t] = "none"
      /\ ~error[t] => response[t].by = attempt[t]

(* The statistics are true: there are no more successes than threads whose *)
(* login a server has accepted, and in the end every thread is counted     *)
(* once.                                                                   *)
StatsTrue ==
  /\ success_count <= Cardinality(accepted)
  /\ main = "done" => success_count + fail_count = Cardinality(Threads)

(* Asynchronous logins end, and the program with them, whatever becomes of *)
(* servers and connections, unless a late answer meets a destroyed object, *)
(* or ZooKeeper is out of reach at the start of an attempt: then the       *)
(* exception of the channel's constructor terminates the process, the      *)
(* threads that were about to end with it.                                 *)
AsyncEnds == mode = "async" ~> main \in {"done", "terminated"} \/ undefined # {}
=============================================================================
