---------------------------- MODULE MCUserClient ----------------------------
(* Two threads of the example client, with its two attempts.               *)
EXTENDS UserClient, TLC

CONSTANTS t1, t2

MCThreads == {t1, t2}
=============================================================================
