------------------------------ MODULE RpcCall ------------------------------
(***************************************************************************)
(* What XrpcChannel::CallMethod promises its callers, without sockets,     *)
(* queues and threads: a call is invoked once and ends once, and an answer *)
(* handed to the caller is the one the service computed for that call.  A  *)
(* call that fails may or may not have been served: nobody tells.          *)
(***************************************************************************)
CONSTANTS Calls, NoCall

VARIABLES
  phase,   \* phase[c]: idle, pending, succeeded or failed
  answer,  \* the call whose answer c was given
  served   \* the calls the service has processed

rpcVars == <<phase, answer, served>>

RpcInit ==
  /\ phase = [c \in Calls |-> "idle"]
  /\ answer = [c \in Calls |-> NoCall]
  /\ served = {}

Invoke(c) ==
  /\ phase[c] = "idle"
  /\ phase' = [phase EXCEPT ![c] = "pending"]
  /\ UNCHANGED <<answer, served>>

Process(c) ==
  /\ phase[c] # "idle"
  /\ c \notin served
  /\ served' = served \union {c}
  /\ UNCHANGED <<phase, answer>>

Succeed(c) ==
  /\ phase[c] = "pending"
  /\ c \in served
  /\ phase' = [phase EXCEPT ![c] = "succeeded"]
  /\ answer' = [answer EXCEPT ![c] = c]
  /\ UNCHANGED served

(* A failure before the request leaves has no "pending" in between.        *)
Fail(c) ==
  /\ phase[c] \in {"idle", "pending"}
  /\ phase' = [phase EXCEPT ![c] = "failed"]
  /\ UNCHANGED <<answer, served>>

RpcNext == \E c \in Calls : Invoke(c) \/ Process(c) \/ Succeed(c) \/ Fail(c)

RpcSpec == RpcInit /\ [][RpcNext]_rpcVars
=============================================================================
