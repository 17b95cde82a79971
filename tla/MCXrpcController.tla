-------------------------- MODULE MCXrpcController --------------------------
(* Instances of XrpcController for TLC: three closures, one of which calls *)
(* back into the controller.                                               *)
EXTENDS XrpcController, TLC

CONSTANTS plain1, plain2, reentrant

MCClosures  == {plain1, plain2, reentrant}
MCReentrant == {reentrant}
=============================================================================
