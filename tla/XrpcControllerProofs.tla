------------------------ MODULE XrpcControllerProofs ------------------------
(***************************************************************************)
(* The safety properties of XrpcController for any set of closures, any    *)
(* of them reentrant.                                                      *)
(*                                                                         *)
(* None of the three is inductive alone: that a closure is not run twice   *)
(* depends on what cancel_callback_ may point to between two methods, and  *)
(* this on why a method holds the lock.  Inv states both.                  *)
(***************************************************************************)
EXTENDS XrpcController, TLAPS

(* The closure the controller points to has been registered; only a        *)
(* registered closure has ever run.                                        *)
OnlyRegistered ==
  /\ cancel_callback_ # NoClosure => cancel_callback_ \in registered
  /\ \A cl \in Closures : cl \notin registered => runs[cl] = 0

(* Between methods of a live object the pointer is null or unrun.          *)
PointerFresh ==
  alive /\ mutex_ = "free" /\ cancel_callback_ # NoClosure => runs[cancel_callback_] = 0

(* Why the lock is held while a closure runs.                              *)
LockReason ==
  /\ mutex_ # "free" => cancel_callback_ # NoClosure /\ runs[cancel_callback_] = 1
  /\ mutex_ = "Destructor" => ~alive /\ ~canceled_
  /\ mutex_ \in {"StartCancel", "NotifyOnCancel"} => alive

(* A closure is accounted for: it ran, or was dropped, or is still owed.   *)
Accounted ==
  \A cl \in registered \ discarded : runs[cl] = 1 \/ cl = cancel_callback_

Inv ==
  /\ TypeOK
  /\ ClosureRunAtMostOnce
  /\ CanceledHoldsNoClosure
  /\ NoClosureLost
  /\ OnlyRegistered
  /\ PointerFresh
  /\ LockReason
  /\ Accounted

-----------------------------------------------------------------------------
(* The constructor establishes the invariant.                              *)
LEMMA InitInv == Init => Inv
<1> SUFFICES ASSUME Init PROVE Inv
    OBVIOUS
<1> USE ControllerAssumption DEF ControllerAssumption, Init
<1>1. TypeOK
      BY DEF TypeOK, Methods
<1>2. ClosureRunAtMostOnce /\ CanceledHoldsNoClosure /\ NoClosureLost
      BY DEF ClosureRunAtMostOnce, CanceledHoldsNoClosure, NoClosureLost
<1>3. OnlyRegistered /\ PointerFresh /\ LockReason /\ Accounted
      BY DEF OnlyRegistered, PointerFresh, LockReason, Accounted
<1> QED
    BY <1>1, <1>2, <1>3 DEF Inv

(* Every method, and the return of a closure, preserves it.                *)
LEMMA NextInv == Inv /\ [Next]_vars => Inv'
<1> SUFFICES ASSUME Inv, [Next]_vars
             PROVE  Inv'
    OBVIOUS
<1> USE ControllerAssumption
        DEF ControllerAssumption, Inv, TypeOK, Methods, ClosureRunAtMostOnce, CanceledHoldsNoClosure,
            NoClosureLost, OnlyRegistered, PointerFresh, LockReason, Accounted
<1>1. CASE SetFailed
      BY <1>1 DEF SetFailed, Enter
<1>2. CASE Reset
      BY <1>2 DEF Reset, Enter, Unrun
<1>3. CASE StartCancel
  <2>1. CASE cancel_callback_ = NoClosure
        BY <1>3, <2>1 DEF StartCancel, Enter, RunUnderLock
  <2>2. CASE cancel_callback_ # NoClosure
    <3>1. runs' = [runs EXCEPT ![cancel_callback_] = 1] /\ mutex_' = "StartCancel"
          BY <1>3, <2>2 DEF StartCancel, Enter, RunUnderLock
    <3> QED
        BY <1>3, <2>2, <3>1 DEF StartCancel, Enter
  <2> QED
      BY <2>1, <2>2
<1>4. ASSUME NEW callback \in Closures \union {NoClosure}, NotifyOnCancel(callback)
      PROVE  Inv'
  <2>1. CASE canceled_ /\ callback # NoClosure
    <3>1. runs[callback] = 0
          BY <1>4, <2>1 DEF NotifyOnCancel
    <3>2. runs' = [runs EXCEPT ![callback] = 1] /\ mutex_' = "NotifyOnCancel"
          BY <1>4, <2>1, <3>1 DEF NotifyOnCancel, RunUnderLock
    <3> QED
        BY <1>4, <2>1, <3>1, <3>2 DEF NotifyOnCancel, Enter, Unrun
  <2>2. CASE ~(canceled_ /\ callback # NoClosure)
    <3>1. UNCHANGED <<mutex_, runs>>
          BY <1>4, <2>2 DEF NotifyOnCancel, RunUnderLock
    <3> QED
        BY <1>4, <2>2, <3>1 DEF NotifyOnCancel, Enter, Unrun
  <2> QED
      BY <2>1, <2>2
<1>5. CASE Destroy
  <2>1. CASE canceled_ \/ cancel_callback_ = NoClosure
    <3>1. UNCHANGED <<mutex_, runs>>
          BY <1>5, <2>1 DEF Destroy, RunUnderLock
    <3>2. cancel_callback_ = NoClosure
          BY <1>5, <2>1 DEF Destroy, Enter
    <3>3. \A cl \in registered \ discarded : runs[cl] = 1
          BY <3>2
    <3> QED
      <4>1. /\ UNCHANGED <<failed_, canceled_, cancel_callback_, mutex_, runs, registered, discarded>>
            /\ alive' = FALSE /\ mutex_ = "free"
            BY <1>5, <3>1 DEF Destroy, Enter
      <4>2. TypeOK' /\ ClosureRunAtMostOnce' /\ OnlyRegistered'
            BY <4>1
      <4>3. CanceledHoldsNoClosure' /\ NoClosureLost' /\ Accounted'
            BY <4>1, <3>2, <3>3
      <4>4. PointerFresh' /\ LockReason'
            BY <4>1
      <4> QED
          BY <4>2, <4>3, <4>4
  <2>2. CASE ~canceled_ /\ cancel_callback_ # NoClosure
    <3>1. runs' = [runs EXCEPT ![cancel_callback_] = 1] /\ mutex_' = "Destructor"
          BY <1>5, <2>2 DEF Destroy, Enter, RunUnderLock
    <3>2. /\ UNCHANGED <<failed_, canceled_, cancel_callback_, registered, discarded>>
          /\ alive' = FALSE /\ alive /\ mutex_ = "free"
          BY <1>5 DEF Destroy, Enter
    <3>3. runs[cancel_callback_] = 0 /\ runs'[cancel_callback_] = 1
          BY <2>2, <3>1, <3>2
    <3>4. TypeOK' /\ ClosureRunAtMostOnce' /\ OnlyRegistered' /\ Accounted'
      <4>1. \A cl \in Closures :
              runs'[cl] = IF cl = cancel_callback_ THEN 1 ELSE runs[cl]
            BY <2>2, <3>1
      <4>2. TypeOK'
            BY <3>1, <3>2
      <4>3. ClosureRunAtMostOnce' /\ OnlyRegistered'
            BY <2>2, <3>2, <4>1
      <4>4. Accounted'
            BY <2>2, <3>2, <4>1
      <4> QED
          BY <4>2, <4>3, <4>4
    <3>5. ~canceled_'
          BY <2>2, <3>2
    <3>6. LockReason' /\ PointerFresh' /\ CanceledHoldsNoClosure' /\ NoClosureLost'
          BY <2>2, <3>1, <3>2, <3>3, <3>5
    <3> QED
        BY <3>4, <3>6
  <2> QED
      BY <2>1, <2>2
<1>6. CASE ClosureReturns
      BY <1>6 DEF ClosureReturns
<1>7. CASE UNCHANGED vars
      BY <1>7 DEF vars
<1> QED
    BY <1>1, <1>2, <1>3, <1>4, <1>5, <1>6, <1>7 DEF Next

THEOREM Invariance == Spec => []Inv
  BY InitInv, NextInv, PTL DEF Spec

(* The fields of a controller keep their types.                            *)
THEOREM TypeCorrect == Spec => []TypeOK
<1>1. Inv => TypeOK
      BY DEF Inv
<1> QED
    BY <1>1, Invariance, PTL

(* No cancel closure runs twice: the delete-this closure of NotifyOnCancel *)
(* is never used after free by StartCancel, NotifyOnCancel, Reset or the   *)
(* destructor.                                                             *)
THEOREM ClosureSafety == Spec => []ClosureRunAtMostOnce
<1>1. Inv => ClosureRunAtMostOnce
      BY DEF Inv
<1> QED
    BY <1>1, Invariance, PTL

(* A cancelled controller holds no closure once the method has returned.   *)
THEOREM CanceledIsClean == Spec => []CanceledHoldsNoClosure
<1>1. Inv => CanceledHoldsNoClosure
      BY DEF Inv
<1> QED
    BY <1>1, Invariance, PTL

(* When the object is gone, each closure not replaced or reset has run.    *)
THEOREM NothingLost == Spec => []NoClosureLost
<1>1. Inv => NoClosureLost
      BY DEF Inv
<1> QED
    BY <1>1, Invariance, PTL
=============================================================================
