----------------------------- MODULE WireProofs -----------------------------
(* Facts about the framing operators of Wire, for any number of fragments  *)
(* and any size of a read.                                                 *)
EXTENDS Wire, SequenceTheorems, TLAPS

(* An encoded message is a sequence of fragments.                          *)
LEMMA FragmentsType ==
  ASSUME NEW M, NEW m \in M
  PROVE  Fragments(m) \in Seq(Fragment(M))
  BY WireAssumption DEF WireAssumption, Fragments, Fragment

(* What a read takes and what it leaves are parts of the stream.           *)
LEMMA ChunkType ==
  ASSUME NEW S, NEW stream \in Seq(S), NEW chunk \in Chunks(stream)
  PROVE  /\ chunk \in Seq(S)
         /\ After(stream, chunk) \in Seq(S)
<1>1. PICK n \in 1..Len(stream) : chunk = SubSeq(stream, 1, n)
      BY DEF Chunks
<1>2. chunk \in Seq(S) /\ Len(chunk) = n
      BY <1>1
<1> QED
    BY <1>2 DEF After

(* A decoded buffer holds a message of the stream it was read from.        *)
LEMMA DecodedType ==
  ASSUME NEW M, NEW buffer \in Seq(Fragment(M)), Decodes(buffer)
  PROVE  Decoded(buffer) \in M
<1>1. 1 \in 1..Len(buffer)
      BY WireAssumption DEF WireAssumption, Decodes
<1>2. buffer[1] \in Fragment(M)
      BY <1>1
<1> QED
    BY <1>2 DEF Decoded, Fragment

(* A read takes from the front, and what it leaves was there before.       *)
LEMMA ChunkElements ==
  ASSUME NEW S, NEW stream \in Seq(S), NEW chunk \in Chunks(stream)
  PROVE  /\ Len(stream) >= 1 /\ Len(chunk) >= 1 /\ chunk[1] = stream[1]
         /\ \A j \in 1..Len(After(stream, chunk)) :
              \E i \in 1..Len(stream) : After(stream, chunk)[j] = stream[i]
<1>1. PICK n \in 1..Len(stream) : chunk = SubSeq(stream, 1, n)
  BY DEF Chunks
<1>2. Len(chunk) = n /\ chunk[1] = stream[1] /\ Len(stream) >= 1
  BY <1>1
<1>3. After(stream, chunk) = SubSeq(stream, n + 1, Len(stream))
  BY <1>2 DEF After
<1>4. ASSUME NEW j \in 1..Len(After(stream, chunk))
      PROVE  \E i \in 1..Len(stream) : After(stream, chunk)[j] = stream[i]
  <2>1. Len(After(stream, chunk)) = Len(stream) - n
    BY <1>3
  <2>2. j + n \in 1..Len(stream) /\ After(stream, chunk)[j] = stream[j + n]
    BY <1>3, <2>1
  <2> QED BY <2>2
<1> QED BY <1>2, <1>4
(* A read takes the first fragments of the stream and leaves the others,   *)
(* at their places.                                                        *)
LEMMA ChunkIndex ==
  ASSUME NEW S, NEW stream \in Seq(S), NEW chunk \in Chunks(stream)
  PROVE  LET n == Len(chunk)  rest == After(stream, chunk) IN
         /\ n \in 1..Len(stream)
         /\ \A i \in 1..n : chunk[i] = stream[i]
         /\ Len(rest) = Len(stream) - n
         /\ \A j \in 1..Len(rest) : j + n \in 1..Len(stream) /\ rest[j] = stream[j + n]
<1>1. PICK n \in 1..Len(stream) : chunk = SubSeq(stream, 1, n)
  BY DEF Chunks
<1>2. Len(chunk) = n /\ \A i \in 1..n : chunk[i] = stream[i]
  BY <1>1
<1>3. After(stream, chunk) = SubSeq(stream, n + 1, Len(stream))
  BY <1>2 DEF After
<1>4. Len(After(stream, chunk)) = Len(stream) - n
  BY <1>3
<1>5. \A j \in 1..Len(After(stream, chunk)) :
        j + n \in 1..Len(stream) /\ After(stream, chunk)[j] = stream[j + n]
  BY <1>3, <1>4
<1> QED BY <1>2, <1>4, <1>5

(* The places of an encoded message.                                       *)
LEMMA FragmentsIndex ==
  ASSUME NEW M, NEW m \in M
  PROVE  /\ Fragments(m) \in Seq(Fragment(M)) /\ Len(Fragments(m)) = Parts
         /\ \A i \in 1..Parts : Fragments(m)[i] = [msg |-> m, part |-> i]
BY FragmentsType, WireAssumption DEF WireAssumption, Fragments
=============================================================================
