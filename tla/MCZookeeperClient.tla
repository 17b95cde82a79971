-------------------------- MODULE MCZookeeperClient --------------------------
(* Instances of ZookeeperClient for TLC: one or two instances of the       *)
(* service, one or two values of their data.                               *)
EXTENDS ZookeeperClient, TLC

CONSTANTS p1, p2, login, register

MCOne    == {p1}
MCTwo    == {p1, p2}
MCNone   == {}
MCData   == {login}
MCData2  == {login, register}
=============================================================================
