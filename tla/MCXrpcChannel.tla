--------------------------- MODULE MCXrpcChannel ---------------------------
(* Instances of XrpcChannel for TLC: three calls, asynchronous,            *)
(* synchronous or mixed, and one or two servers.                           *)
EXTENDS XrpcChannel, TLC

CONSTANTS a1, a2, a3, s1, s2, server1, server2

MCAsync     == {a1, a2, a3}
MCMixed     == {a1, a2, s1}
MCTwoSync   == {a1, s1, s2}
MCPair      == {a1, s1}
MCSync      == {s1, s2} \intersect Calls
MCOne       == {server1}
MCTwo       == {server1, server2}
=============================================================================
