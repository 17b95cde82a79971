--------------------------- MODULE XrpcController ---------------------------
(***************************************************************************)
(* One XrpcController object (src/src/core/controller): the failure and    *)
(* cancellation state of one RPC.                                          *)
(*                                                                         *)
(* Every method locks mutex_ for its whole body, so a method is one step,  *)
(* except that StartCancel, NotifyOnCancel and the destructor Run the      *)
(* cancel closure while they hold the (non recursive) mutex: the step that *)
(* calls the closure and the step in which it returns are separate, and    *)
(* mutex_ names the method in between.                                     *)
(*                                                                         *)
(* A closure is a google::protobuf::NewCallback, which deletes itself when *)
(* it has run: running it a second time is a use after free.  The user     *)
(* hands every closure to NotifyOnCancel at most once.                     *)
(***************************************************************************)
EXTENDS Naturals

CONSTANTS
  Closures,   \* the closures the user may register
  Reentrant,  \* those whose Run calls a method of this same controller
  NoClosure   \* the null closure

ASSUME ControllerAssumption ==
  /\ Reentrant \subseteq Closures
  /\ NoClosure \notin Closures

VARIABLES
  failed_, canceled_, cancel_callback_,
  mutex_,      \* "free", or the method that holds it while its closure runs
  alive,       \* the destructor has not started
  runs,        \* runs[cl]: how often closure cl was Run
  registered,  \* closures handed to NotifyOnCancel so far
  discarded    \* history: closures dropped unrun by Reset or by a replacement

vars == <<failed_, canceled_, cancel_callback_, mutex_, alive,
          runs, registered, discarded>>

Methods == {"StartCancel", "NotifyOnCancel", "Destructor"}

TypeOK ==
  /\ failed_ \in BOOLEAN
  /\ canceled_ \in BOOLEAN
  /\ cancel_callback_ \in Closures \union {NoClosure}
  /\ mutex_ \in Methods \union {"free"}
  /\ alive \in BOOLEAN
  /\ runs \in [Closures -> Nat]
  /\ registered \subseteq Closures
  /\ discarded \subseteq Closures

(* InitDangling: mutant, a constructor that leaves cancel_callback_ as it  *)
(* found the memory.                                                       *)
InitDangling ==
  /\ failed_ = FALSE
  /\ canceled_ = FALSE
  /\ cancel_callback_ \in Closures \union {NoClosure, "dangling"}
  /\ mutex_ = "free"
  /\ alive = TRUE
  /\ runs = [cl \in Closures |-> 0]
  /\ registered = {}
  /\ discarded = {}

Init ==
  /\ failed_ = FALSE
  /\ canceled_ = FALSE
  /\ cancel_callback_ = NoClosure
  /\ mutex_ = "free"
  /\ alive = TRUE
  /\ runs = [cl \in Closures |-> 0]
  /\ registered = {}
  /\ discarded = {}

-----------------------------------------------------------------------------
(* A method can be entered: the object exists and nobody holds its mutex.  *)
Enter == alive /\ mutex_ = "free"

(* cancel_callback_->Run() inside method m, if cl is not null.             *)
RunUnderLock(cl, m) ==
  IF cl = NoClosure
    THEN UNCHANGED <<mutex_, runs>>
    ELSE /\ mutex_' = m
         /\ runs' = [runs EXCEPT ![cl] = @ + 1]

(* For the history discarded: the closure still owed a run, if any.        *)
Unrun == {cl \in Closures : cl = cancel_callback_ /\ runs[cl] = 0}

SetFailed ==
  /\ Enter
  /\ failed_' = TRUE
  /\ UNCHANGED <<canceled_, cancel_callback_, mutex_, alive, runs, registered, discarded>>

Reset ==
  /\ Enter
  /\ failed_' = FALSE
  /\ canceled_' = FALSE
  /\ cancel_callback_' = NoClosure
  /\ discarded' = discarded \union Unrun
  /\ UNCHANGED <<mutex_, alive, runs, registered>>

(* A second StartCancel returns at its first test.                         *)
(* StartCancelNoGuard: mutant without that test and without the reset of   *)
(* cancel_callback_ behind the Run.                                        *)
StartCancelNoGuard ==
  /\ Enter
  /\ canceled_' = TRUE
  /\ IF cancel_callback_ = NoClosure
       THEN UNCHANGED runs
       ELSE runs' = [runs EXCEPT ![cancel_callback_] = @ + 1]
  /\ UNCHANGED <<failed_, cancel_callback_, mutex_, alive, registered, discarded>>

StartCancel ==
  /\ Enter
  /\ ~canceled_
  /\ canceled_' = TRUE
  /\ RunUnderLock(cancel_callback_, "StartCancel")
  /\ UNCHANGED <<failed_, cancel_callback_, alive, registered, discarded>>

NotifyOnCancel(callback) ==
  /\ Enter
  /\ callback \notin registered
  /\ cancel_callback_' = callback
  /\ registered' = registered \union ({callback} \ {NoClosure})
  /\ discarded' = discarded \union Unrun
  /\ IF canceled_
       THEN RunUnderLock(callback, "NotifyOnCancel")
       ELSE UNCHANGED <<mutex_, runs>>
  /\ UNCHANGED <<failed_, canceled_, alive>>

(* ~XrpcController: an RPC that was never cancelled runs its closure now.  *)
(* DestroySilently: mutant, the default destructor.                        *)
DestroySilently ==
  /\ Enter
  /\ alive' = FALSE
  /\ UNCHANGED <<failed_, canceled_, cancel_callback_, mutex_, runs, registered, discarded>>

Destroy ==
  /\ Enter
  /\ alive' = FALSE
  /\ IF ~canceled_
       THEN RunUnderLock(cancel_callback_, "Destructor")
       ELSE UNCHANGED <<mutex_, runs>>
  /\ UNCHANGED <<failed_, canceled_, cancel_callback_, registered, discarded>>

(* The closure returns and its method finishes.  A reentrant closure is    *)
(* itself waiting for mutex_, and never returns.                           *)
(* ClosureReturnsKept: mutant that keeps the pointer to the closure.       *)
ClosureReturnsKept ==
  /\ mutex_ # "free"
  /\ cancel_callback_ \notin Reentrant
  /\ mutex_' = "free"
  /\ UNCHANGED <<failed_, canceled_, cancel_callback_, alive, runs, registered, discarded>>

ClosureReturns ==
  /\ mutex_ # "free"
  /\ cancel_callback_ \notin Reentrant
  /\ mutex_' = "free"
  /\ cancel_callback_' = IF mutex_ = "Destructor" THEN cancel_callback_ ELSE NoClosure
  /\ UNCHANGED <<failed_, canceled_, alive, runs, registered, discarded>>

Next ==
  \/ SetFailed
  \/ Reset
  \/ StartCancel
  \/ \E callback \in Closures \union {NoClosure} : NotifyOnCancel(callback)
  \/ Destroy
  \/ ClosureReturns

Spec == Init /\ [][Next]_vars

-----------------------------------------------------------------------------
(* No closure runs twice (it deletes itself in Run), in whatever order     *)
(* cancellations, registrations, resets and the destructor come.           *)
ClosureRunAtMostOnce == \A cl \in Closures : runs[cl] <= 1

(* Between two method calls a cancelled controller holds no closure: that  *)
(* is what lets the destructor skip cancelled objects, and what keeps a    *)
(* later StartCancel or Reset away from a closure that has deleted itself. *)
CanceledHoldsNoClosure ==
  mutex_ = "free" /\ canceled_ => cancel_callback_ = NoClosure

(* Once the object is gone, every closure that was neither replaced nor    *)
(* reset has run exactly once, cancelled or not.                           *)
NoClosureLost ==
  ~alive /\ mutex_ = "free" =>
    \A cl \in registered \ discarded : runs[cl] = 1
=============================================================================
