--------------------------------- MODULE Der ---------------------------------
(***************************************************************************)
(* The DER encoders of src/x509.ts, and a strict reader as the verifiers   *)
(* of LocalSend peers and Node itself have one.  A buffer is a sequence of *)
(* bytes.                                                                  *)
(***************************************************************************)
EXTENDS Integers, Sequences, SequencesExt

Byte == 0 .. 255

Buffer == Seq(Byte)

\* The digits of n, the most significant first.
Digits(n, base) ==
  LET of[k \in Nat] == IF k < base THEN <<k>> ELSE Append(of[k \div base], k % base)
  IN  of[n]

\* Buffers one after the other.
Concat[parts \in Seq(Buffer)] ==
  IF parts = <<>> THEN <<>> ELSE Head(parts) \o Concat[Tail(parts)]

-----------------------------------------------------------------------------
(* Encoding *)

\* Faulty: the short form goes one too far.
EncodeLengthShort(length) ==
  IF length <= 128 THEN <<length>>
  ELSE LET bytes == Digits(length, 256) IN <<128 + Len(bytes)>> \o bytes

\* The short form below 0x80, else the number of length bytes and these.
EncodeLength(length) ==
  IF length < 128 THEN <<length>>
  ELSE LET bytes == Digits(length, 256) IN <<128 + Len(bytes)>> \o bytes

Tagged(tag, content) == <<tag>> \o EncodeLength(Len(content)) \o content

SequenceOf(parts) == Tagged(48, Concat[parts])

\* A leading 1 bit would make the integer negative.  Leading zeros of a buffer
\* are kept.
Padded(bytes) == IF bytes[1] >= 128 THEN <<0>> \o bytes ELSE bytes

Integer(bytes) == Tagged(2, Padded(bytes))

BitString(content, unusedBits) == Tagged(3, <<unusedBits>> \o content)

OctetString(content) == Tagged(4, content)

\* One arc in base 128, every byte but the last marked.
Arc(n) ==
  LET digits == Digits(n, 128)
  IN  [i \in DOMAIN digits |-> IF i < Len(digits) THEN 128 + digits[i] ELSE digits[i]]

\* The first two arcs share a byte.
Oid(arcs) ==
  Tagged(6, <<40 * arcs[1] + arcs[2]>> \o Concat[[i \in 1 .. Len(arcs) - 2 |-> Arc(arcs[i + 2])]])

\* YYMMDDHHMMSSZ for <<year, month, day, hour, minute, second>>.
UtcTime(date) ==
  LET Two(i) == date[(i + 1) \div 2] % 100
  IN  Tagged(23, [i \in 1 .. 13 |-> IF i = 13 THEN 90
                                    ELSE 48 + (IF i % 2 = 1 THEN Two(i) \div 10 ELSE Two(i) % 10)])

-----------------------------------------------------------------------------
(* Reading *)

Part == [tag : Byte, content : Buffer]

Malformed == [tag |-> 0, content |-> <<>>]

Number[bytes \in Buffer] ==
  IF bytes = <<>> THEN 0 ELSE 256 * Number[Front(bytes)] + Last(bytes)

\* How many length bytes the part at the start of b has after the first one,
\* and the length they tell.
Count(b) == IF Len(b) > 1 /\ b[2] > 128 THEN b[2] - 128 ELSE 0

Size(b) == IF Count(b) = 0 THEN b[2] ELSE Number[SubSeq(b, 3, 2 + Count(b))]

\* All of it is there, and the length bytes are as few as possible.
WellFormed(b) ==
  /\ Count(b) <= 3
  /\ 2 + Count(b) <= Len(b)
  /\ 2 + Count(b) + Size(b) <= Len(b)
  /\ IF Count(b) = 0 THEN Size(b) < 128 ELSE Size(b) >= 128 /\ b[3] > 0

Content(b) == SubSeq(b, 3 + Count(b), 2 + Count(b) + Size(b))

Rest(b) == SubSeq(b, 3 + Count(b) + Size(b), Len(b))

\* The parts that follow each other in b, up to the first malformed one.
Parts[b \in Buffer] ==
  IF b = <<>> THEN <<>>
  ELSE IF ~WellFormed(b) THEN <<Malformed>>
  ELSE <<[tag |-> b[1], content |-> Content(b)]>> \o Parts[Rest(b)]

\* The content of the part at a position.
Inside(b, k) == IF k <= Len(Parts[b]) THEN Parts[b][k].content ELSE <<>>

\* Nine equal leading bits are one too many.
Minimal(content) ==
  /\ content # <<>>
  /\ Len(content) > 1 =>
       /\ ~(content[1] = 0 /\ content[2] < 128)
       /\ ~(content[1] = 255 /\ content[2] >= 128)

\* The arcs in what is left of an identifier, and what has been read of the
\* first of them.
ArcsIn[p \in Buffer \X Nat] ==
  IF p[1] = <<>> THEN <<>>
  ELSE IF p[1][1] >= 128 THEN ArcsIn[<<Tail(p[1]), p[2] * 128 + p[1][1] - 128>>]
  ELSE <<p[2] * 128 + p[1][1]>> \o ArcsIn[<<Tail(p[1]), 0>>]

\* The arcs of an object identifier.
Arcs(content) ==
  IF content = <<>> THEN <<>>
  ELSE <<content[1] \div 40, content[1] % 40>> \o ArcsIn[<<Tail(content), 0>>]

\* RFC 5280: years from 50 on are in the 20th century.
Date(content) ==
  IF Len(content) # 13 THEN <<>> ELSE
  LET Two(i) == 10 * (content[2 * i - 1] - 48) + content[2 * i] - 48
  IN  [i \in 1 .. 6 |-> IF i > 1 THEN Two(i) ELSE IF Two(1) >= 50 THEN 1900 + Two(1) ELSE 2000 + Two(1)]
=============================================================================
