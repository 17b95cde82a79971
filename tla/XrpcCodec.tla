------------------------------ MODULE XrpcCodec ------------------------------
(***************************************************************************)
(* The compression of core/codec/xrpc_codec.cc: when Encode and            *)
(* EncodeResponse compress, what the header then says, and what Decode and *)
(* DecodeResponse make of it.  (Wire has the framing of many messages on   *)
(* one connection; here is one message.)                                   *)
(*                                                                         *)
(* A serialized text is known by its size and by the size that zlib packs  *)
(* it to, which may be larger.                                             *)
(***************************************************************************)
EXTENDS Naturals, TLAPS

Text == [size : Nat, packed : Nat]

Threshold == 100

(* A protobuf varint: seven bits a byte, five bytes for 32 bits.           *)
Varint(n) == IF n < 128 THEN 1 ELSE IF n < 16384 THEN 2
             ELSE IF n < 2097152 THEN 3 ELSE IF n < 268435456 THEN 4 ELSE 5

(* The bytes of the header, with the varint in front of it: rest are those *)
(* of the fields Encode leaves alone.  A field that is 0 or false is not   *)
(* written; args_size has a tag and a varint, compressed a tag and a byte. *)
HeaderSize(rest, args_size, compressed) ==
  rest + (IF args_size = 0 THEN 0 ELSE 1 + Varint(args_size))
       + (IF compressed THEN 2 ELSE 0)
HeaderLength(rest, args_size, compressed) ==
  LET size == HeaderSize(rest, args_size, compressed) IN Varint(size) + size

(* What travels: the length of the header with its varint, the two header  *)
(* fields, and the text in one of its forms.                               *)
Encoded == [header : Nat, compressed : BOOLEAN, args_size : Nat,
            text : Text, zipped : BOOLEAN]

Worth(compressed, text) ==
  compressed /\ text.size > Threshold /\ text.packed < text.size

(* compressed: the flag of the header the caller passes.  It stays on only *)
(* if the text is replaced by its packed form.                             *)
Encode(rest, compressed, text) ==
  LET zip == Worth(compressed, text)
      args_size == IF zip THEN text.packed ELSE text.size IN
  [header |-> HeaderLength(rest, args_size, zip), compressed |-> zip,
   args_size |-> args_size, text |-> text, zipped |-> zip]

Length(e) == e.header + (IF e.zipped THEN e.text.packed ELSE e.text.size)

(* The decoders' answers: nothing, a text, or what inflate makes of bytes  *)
(* that are no zlib stream: it reports an error that Decompress takes for  *)
(* the end.                                                                *)
Rejected == [accepted |-> FALSE]
Accepted(text) == [accepted |-> TRUE, text |-> text]
Garbled == [accepted |-> TRUE, text |-> [size |-> 0, packed |-> 0]]

Decompress(e) == IF e.zipped THEN Accepted(e.text) ELSE Garbled

(* Decode of the first arrived bytes of e, with e.args_size what the       *)
(* sender wrote.                                                           *)
Decode(e, arrived) ==
  IF arrived < e.header + e.args_size THEN Rejected
  ELSE IF e.compressed THEN Decompress(e)
  ELSE Accepted(e.text)

-----------------------------------------------------------------------------
(* A message that arrived whole is decoded to the text it was made from,   *)
(* whatever the caller asked for and however it packs: the flag on the     *)
(* wire never disagrees with the form of the text.                         *)
RoundTrips(rest, compressed, text) ==
  LET e == Encode(rest, compressed, text) IN
  Decode(e, Length(e)) = Accepted(text)

(* Encode weighs the packed text against the text alone and forgets the    *)
(* two bytes of the flag: a text that packs by one byte travels in a       *)
(* longer message.  The loss is at most two bytes, and there is none when  *)
(* three bytes were saved.                                                 *)
CostsLittle(rest, compressed, text) ==
  LET asked == Length(Encode(rest, compressed, text))
      plain == Length(Encode(rest, FALSE, text)) IN
  /\ asked <= plain + 2
  /\ text.packed + 3 <= text.size => asked <= plain

(* A message of which bytes are missing is rejected, and what follows a    *)
(* whole one changes nothing: args_size is the length of what was written. *)
ExactLength(rest, compressed, text, arrived) ==
  LET e == Encode(rest, compressed, text) IN
  (Decode(e, arrived) = Accepted(text)) <=> (arrived >= Length(e))

-----------------------------------------------------------------------------
(* The length of a header is a number.                                     *)
LEMMA HeaderIsNat ==
  ASSUME NEW rest \in Nat, NEW a \in Nat, NEW flag \in BOOLEAN
  PROVE  /\ HeaderSize(rest, a, flag) \in Nat
         /\ HeaderLength(rest, a, flag) \in Nat
<1>1. \A n \in Nat : Varint(n) \in Nat
  BY DEF Varint
<1>2. HeaderSize(rest, a, flag) \in Nat
  BY <1>1 DEF HeaderSize
<1> DEFINE size == HeaderSize(rest, a, flag)
<1>3. HeaderLength(rest, a, flag) = Varint(size) + size
  BY DEF HeaderLength
<1> HIDE DEF size
<1>4. size \in Nat
  BY <1>2 DEF size
<1>5. Varint(size) + size \in Nat
  BY <1>1, <1>4
<1> QED BY <1>2, <1>3, <1>5

(* A header that gains the flag for no longer a text grows by two bytes,   *)
(* or three if its own varint grows.                                       *)
LEMMA HeaderGrows ==
  ASSUME NEW rest \in Nat, NEW a \in Nat, NEW b \in Nat, a <= b
  PROVE  HeaderLength(rest, a, TRUE) <= HeaderLength(rest, b, FALSE) + 3
<1> DEFINE old == HeaderSize(rest, b, FALSE)
           new == HeaderSize(rest, a, TRUE)
<1>1. /\ \A n \in Nat : Varint(n) \in 1..5
      /\ \A n, k \in Nat : n <= k => Varint(n) <= Varint(k)
      /\ \A n \in Nat : Varint(n + 2) <= Varint(n) + 1
  BY DEF Varint
<1>2. old \in Nat /\ new \in Nat
  BY HeaderIsNat
<1>3. new <= old + 2
  <2>1. CASE b = 0
    BY <2>1 DEF HeaderSize
  <2>2. CASE a = 0 /\ b # 0
    <3>1. Varint(b) \in Nat
      BY <1>1
    <3> QED BY <2>2, <3>1 DEF HeaderSize
  <2>3. CASE a # 0 /\ b # 0
    <3>1. Varint(a) \in Nat /\ Varint(b) \in Nat /\ Varint(a) <= Varint(b)
      BY <1>1
    <3> QED BY <2>3, <3>1 DEF HeaderSize
  <2> QED BY <2>1, <2>2, <2>3
<1>4. /\ HeaderLength(rest, a, TRUE) = Varint(new) + new
      /\ HeaderLength(rest, b, FALSE) = Varint(old) + old
  BY DEF HeaderLength
<1> HIDE DEF old, new
<1>5. /\ Varint(old) \in Nat /\ Varint(new) \in Nat
      /\ Varint(new) <= Varint(old) + 1
  <2>1. old + 2 \in Nat
    BY <1>2
  <2>2. Varint(new) <= Varint(old + 2) /\ Varint(old + 2) <= Varint(old) + 1
    BY <1>1, <1>2, <1>3, <2>1
  <2>3. Varint(old + 2) \in Nat /\ Varint(old) \in Nat /\ Varint(new) \in Nat
    BY <1>1, <1>2, <2>1
  <2> QED BY <2>2, <2>3
<1>6. Varint(new) + new <= Varint(old) + old + 3
  BY <1>2, <1>3, <1>5
<1> QED BY <1>4, <1>6

(* What Encode writes has the fields of Encoded, and its length is exactly *)
(* what its header announces.                                              *)
LEMMA EncodeType ==
  ASSUME NEW rest \in Nat, NEW compressed \in BOOLEAN, NEW text \in Text
  PROVE  LET e == Encode(rest, compressed, text) IN
           /\ e \in Encoded
           /\ Length(e) = e.header + e.args_size
           /\ e.zipped = e.compressed
           /\ e.text = text
<1>1. text.size \in Nat /\ text.packed \in Nat
  BY DEF Text
<1>2. /\ HeaderLength(rest, text.packed, TRUE) \in Nat
      /\ HeaderLength(rest, text.size, FALSE) \in Nat
  BY <1>1, HeaderIsNat
<1>3. CASE Worth(compressed, text) = TRUE
  BY <1>1, <1>2, <1>3 DEF Encode, Encoded, Length
<1>4. CASE Worth(compressed, text) = FALSE
  BY <1>1, <1>2, <1>4 DEF Encode, Encoded, Length
<1> QED BY <1>3, <1>4 DEF Worth

(* For every text, every header and either wish of the caller, decoding    *)
(* what Encode wrote gives the text back.                                  *)
THEOREM RoundTrip ==
  ASSUME NEW rest \in Nat, NEW compressed \in BOOLEAN, NEW text \in Text
  PROVE  RoundTrips(rest, compressed, text)
<1> DEFINE e == Encode(rest, compressed, text)
<1>1. /\ e \in Encoded /\ Length(e) = e.header + e.args_size
      /\ e.zipped = e.compressed /\ e.text = text
  BY EncodeType
<1> HIDE DEF e
<1>2. ~(Length(e) < e.header + e.args_size)
  BY <1>1 DEF Encoded
<1>3. Decode(e, Length(e)) = Accepted(text)
  BY <1>1, <1>2 DEF Decode, Decompress
<1> QED BY <1>3 DEF RoundTrips, e

(* For every text, asking for compression costs two bytes at most, and     *)
(* none when the text packs by three bytes or more.                        *)
THEOREM CompressionCost ==
  ASSUME NEW rest \in Nat, NEW compressed \in BOOLEAN, NEW text \in Text
  PROVE  CostsLittle(rest, compressed, text)
<1> DEFINE zippedHeader == HeaderLength(rest, text.packed, TRUE)
           plainHeader  == HeaderLength(rest, text.size, FALSE)
           asked == Length(Encode(rest, compressed, text))
           plain == Length(Encode(rest, FALSE, text))
<1>1. text.size \in Nat /\ text.packed \in Nat
  BY DEF Text
<1>2. plain = plainHeader + text.size
  BY DEF Length, Encode, Worth
<1>3. plainHeader \in Nat
  BY <1>1, HeaderIsNat
<1>4. CASE Worth(compressed, text) = TRUE
  <2>1. text.packed < text.size
    BY <1>4 DEF Worth
  <2>2. asked = zippedHeader + text.packed
    BY <1>4 DEF Length, Encode
  <2>3. zippedHeader \in Nat
    BY <1>1, HeaderIsNat
  <2>4. text.packed <= text.size
    BY <1>1, <2>1
  <2>5. zippedHeader <= plainHeader + 3
    BY <1>1, <2>4, HeaderGrows
  <2>6. asked <= plain + 2 /\ (text.packed + 3 <= text.size => asked <= plain)
    <3> HIDE DEF zippedHeader, plainHeader, asked, plain
    <3> QED BY <1>1, <1>2, <1>3, <2>1, <2>2, <2>3, <2>5
  <2> QED BY <2>6 DEF CostsLittle
<1>5. CASE Worth(compressed, text) = FALSE
  <2>1. asked = plainHeader + text.size
    BY <1>5 DEF Length, Encode
  <2>2. asked <= plain + 2 /\ asked <= plain
    <3> HIDE DEF plainHeader, asked, plain
    <3> QED BY <1>1, <1>2, <1>3, <2>1
  <2> QED BY <2>2 DEF CostsLittle
<1> QED BY <1>4, <1>5 DEF Worth

(* A message is accepted, and right, exactly when all of it has arrived.   *)
THEOREM AcceptsExactly ==
  ASSUME NEW rest \in Nat, NEW compressed \in BOOLEAN, NEW text \in Text,
         NEW arrived \in Nat
  PROVE  ExactLength(rest, compressed, text, arrived)
<1> DEFINE e == Encode(rest, compressed, text)
<1>1. /\ e \in Encoded /\ Length(e) = e.header + e.args_size
      /\ e.zipped = e.compressed /\ e.text = text
  BY EncodeType
<1> HIDE DEF e
<1>2. Length(e) \in Nat
  BY <1>1 DEF Encoded
<1>3. CASE arrived < Length(e)
  <2>1. Decode(e, arrived) = Rejected
    BY <1>1, <1>3 DEF Decode
  <2>2. Rejected.accepted # Accepted(text).accepted
    BY DEF Rejected, Accepted
  <2> QED BY <1>2, <1>3, <2>1, <2>2 DEF ExactLength, e
<1>4. CASE ~(arrived < Length(e))
  <2>1. Decode(e, arrived) = Accepted(text)
    BY <1>1, <1>4 DEF Decode, Decompress
  <2> QED BY <1>2, <1>4, <2>1 DEF ExactLength, e
<1> QED BY <1>3, <1>4
=============================================================================
