------------------------------- MODULE Wire -------------------------------
(***************************************************************************)
(* One direction of a TCP connection as the two read handlers of           *)
(* AsioTransport and the two decoders of XrpcCodec see it.                 *)
(*                                                                         *)
(* An encoded message is Parts consecutive fragments.  Parts = 1: every    *)
(* message is short and arrives whole.  Parts = 2: a message may be split, *)
(* because it is longer than a segment or than the 8192 byte buffer.       *)
(* A single async_read_some delivers a non-empty prefix of what has        *)
(* arrived, ReadCap fragments at most.                                     *)
(*                                                                         *)
(* The header length is the only length on the wire.  A decoder reads one  *)
(* message from the front of its buffer and ignores what follows; a buffer *)
(* that starts in the middle of a message, or stops before its end, is     *)
(* rejected.  (That random bytes parse as a message by chance is left out.)*)
(***************************************************************************)
EXTENDS Naturals, Sequences

CONSTANTS
  Parts,    \* fragments of one encoded message
  ReadCap   \* fragments one read can return

ASSUME WireAssumption ==
  /\ Parts \in Nat \ {0}
  /\ ReadCap \in Nat \ {0}

Fragment(M) == [msg : M, part : 1..Parts]

(* FragmentsFromZero: mutant, an off-by-one in the framing.                *)
FragmentsFromZero(m) == [i \in 1..Parts |-> [msg |-> m, part |-> i - 1]]
Fragments(m) == [i \in 1..Parts |-> [msg |-> m, part |-> i]]

(* What one async_read_some may return of stream, and what it leaves.      *)
Chunks(stream) ==
  {SubSeq(stream, 1, n) : n \in {k \in 1..Len(stream) : k <= ReadCap}}

After(stream, chunk) == SubSeq(stream, Len(chunk) + 1, Len(stream))

(* The decoder accepts the buffer, and the message it then returns.        *)
Decodes(buffer) ==
  /\ Len(buffer) >= Parts
  /\ \A i \in 1..Parts : buffer[i] = [msg |-> buffer[1].msg, part |-> i]

Decoded(buffer) == buffer[1].msg
=============================================================================
