---------------------------- MODULE MCXrpcServer ----------------------------
(* One server with two connections and one service for TLC.  The kinds are *)
(* one that OnMessage refuses, and a success, a failure and a call of the  *)
(* server itself behind it.                                                *)
EXTENDS XrpcServer, TLC

CONSTANTS k1, k2, user

MCConns    == {k1, k2}
MCServices == {user}
MCKinds    == {"ok", "fails", "nested"}

(* The codec of both ends, around the threshold of 100 bytes and around    *)
(* 128, where a varint gains a byte: texts that pack well, hardly, not at  *)
(* all, or grow.                                                           *)
Codec == INSTANCE XrpcCodec

MCSizes == {0, 1, 99, 100, 101, 124, 127, 128, 129}

ASSUME CodecHolds ==
  \A size, packed \in MCSizes, compressed \in BOOLEAN, rest \in {1, 120, 122, 124, 126} :
    LET text == [size |-> size, packed |-> packed] IN
    /\ Codec!RoundTrips(rest, compressed, text)
    /\ Codec!CostsLittle(rest, compressed, text)
    /\ \A arrived \in 0..270 : Codec!ExactLength(rest, compressed, text, arrived)
=============================================================================
