----------------------------- MODULE Certificate -----------------------------
(***************************************************************************)
(* The certificate that generateSelfSignedCertificate (src/x509.ts)        *)
(* assembles, what a reader sees in it, and whether isUsableCertificate    *)
(* (src/tls.ts) accepts it.  A certificate is asked for with a record o of *)
(* its serial number, names, addresses and validity; key and signature are *)
(* opaque, with the lengths they have for RSA-2048.                        *)
(***************************************************************************)
EXTENDS Der

Sha256Rsa        == <<1, 2, 840, 113549, 1, 1, 11>>
CommonName       == <<2, 5, 4, 3>>
BasicConstraints == <<2, 5, 29, 19>>
KeyUsage         == <<2, 5, 29, 15>>
ExtKeyUsage      == <<2, 5, 29, 37>>
SubjectAltName   == <<2, 5, 29, 17>>
ServerAuth       == <<1, 3, 6, 1, 5, 5, 7, 3, 1>>
ClientAuth       == <<1, 3, 6, 1, 5, 5, 7, 3, 2>>

True == <<1, 1, 255>>
Null == <<5, 0>>

PublicKey == [i \in 1 .. 290 |-> 7]
Spki      == Tagged(48, PublicKey)
Signature == [i \in 1 .. 256 |-> 9]

\* Date, to the second: a date's minutes since the year 0 of our calendar, and
\* its seconds.
MonthStart == <<0, 31, 59, 90, 120, 151, 181, 212, 243, 273, 304, 334>>

LeapDays(year) == year \div 4 - year \div 100 + year \div 400

DayNumber(date) ==
  LET leap == date[2] > 2 /\ LeapDays(date[1]) > LeapDays(date[1] - 1)
  IN  365 * date[1] + LeapDays(date[1] - 1) + MonthStart[date[2]] + (IF leap THEN 1 ELSE 0) + date[3]

Moment(date) ==
  [minute |-> 1440 * DayNumber(date) + 60 * date[4] + date[5], second |-> date[6]]

\* Not less than RENEW_BEFORE_MS from now.
LongEnough(until, now) ==
  LET expiry == Moment(until)
      left   == expiry.minute - now.minute
  IN  \/ left > 14 * 1440
      \/ left = 14 * 1440 /\ expiry.second >= now.second

\* The validity of a new certificate starts a minute ago.
Now(o) == [Moment(o.from) EXCEPT !.minute = @ + 1]

\* What a certificate is asked for with.  The limits are far above what the
\* program asks for, and below those of a length of three bytes.
Request == [
  serial    : Seq(Byte),
  name      : Buffer,
  from      : [1 .. 6 -> Nat],
  until     : [1 .. 6 -> Nat],
  dnsNames  : Seq(Buffer),
  addresses : Seq(Buffer)]

TextCap == 500
NamesCap == 100

\* A serial number of 16 random bytes, and some name or address.
Sized(o) ==
  /\ Len(o.serial) = 16
  /\ Len(o.name) <= TextCap
  /\ Len(o.dnsNames) + Len(o.addresses) \in 1 .. NamesCap
  /\ \A i \in DOMAIN o.dnsNames : Len(o.dnsNames[i]) <= TextCap
  /\ \A i \in DOMAIN o.addresses : Len(o.addresses[i]) <= TextCap

\* From some time after 1970 on, until the next year or the one after it, and
\* for at least two weeks.
Dated(o) ==
  /\ \A date \in {o.from, o.until} :
       date[2] \in 1 .. 12 /\ date[3] \in 1 .. 31 /\ date[4] < 24 /\ date[5] < 60 /\ date[6] < 60
  /\ o.from[1] >= 1970 /\ o.until[1] <= o.from[1] + 2
  /\ LongEnough(o.until, Now(o))

Permitted(o) == o \in Request /\ Sized(o) /\ Dated(o)

-----------------------------------------------------------------------------

SignatureAlgorithm == SequenceOf(<<Oid(Sha256Rsa), Null>>)

\* The only attribute is a UTF8String in a SEQUENCE in a SET.
DistinguishedName(name) ==
  SequenceOf(<<Tagged(49, SequenceOf(<<Oid(CommonName), Tagged(12, name)>>))>>)

Extension(id, critical, value) ==
  SequenceOf(<<Oid(id)>> \o (IF critical THEN <<True>> ELSE <<>>) \o <<OctetString(value)>>)

\* Faulty: as openssl's defaults have it, a CA.
ExtensionsOfCa(dnsNames, addresses) ==
  LET names == [i \in DOMAIN dnsNames |-> Tagged(130, dnsNames[i])]
               \o [i \in DOMAIN addresses |-> Tagged(135, addresses[i])]
  IN  SequenceOf(<<
        Extension(BasicConstraints, TRUE, SequenceOf(<<True>>)),
        Extension(KeyUsage, TRUE, BitString(<<160>>, 5)),
        Extension(ExtKeyUsage, FALSE, SequenceOf(<<Oid(ClientAuth), Oid(ServerAuth)>>)),
        Extension(SubjectAltName, FALSE, SequenceOf(names))>>)

\* An end entity (no cA), digitalSignature and keyEncipherment, both
\* authentications, [2] dNSNames and [7] iPAddresses.
Extensions(dnsNames, addresses) ==
  LET names == [i \in DOMAIN dnsNames |-> Tagged(130, dnsNames[i])]
               \o [i \in DOMAIN addresses |-> Tagged(135, addresses[i])]
  IN  SequenceOf(<<
        Extension(BasicConstraints, TRUE, SequenceOf(<<>>)),
        Extension(KeyUsage, TRUE, BitString(<<160>>, 5)),
        Extension(ExtKeyUsage, FALSE, SequenceOf(<<Oid(ClientAuth), Oid(ServerAuth)>>)),
        Extension(SubjectAltName, FALSE, SequenceOf(names))>>)

\* generateSelfSignedCertificate: version 3, the 16 random bytes of the serial
\* number as they are.
Generated(o) ==
  LET tbs == SequenceOf(<<
        Tagged(160, Integer(<<2>>)),
        Integer(o.serial),
        SignatureAlgorithm,
        DistinguishedName(o.name),
        SequenceOf(<<UtcTime(o.from), UtcTime(o.until)>>),
        DistinguishedName(o.name),
        Spki,
        Tagged(163, Extensions(o.dnsNames, o.addresses))>>)
  IN  SequenceOf(<<tbs, SignatureAlgorithm, BitString(Signature, 0)>>)

-----------------------------------------------------------------------------
(* What a reader sees *)

\* What is signed, and the content of one of its parts.
Signed(cert) == Inside(Inside(cert, 1), 1)

Field(cert, k) == Inside(Signed(cert), k)

\* The value of the extension with this identifier.
ExtensionIn(cert, id) ==
  LET extensions == Parts[Inside(Field(cert, 8), 1)]
      named      == {i \in DOMAIN extensions : Arcs(Inside(extensions[i].content, 1)) = id}
  IN  IF named = {} THEN <<>> ELSE Last(Parts[extensions[Max(named)].content]).content

\* The alternative names, a dNSName tagged with 130, an iPAddress with 135.
Names(cert) == Parts[Inside(ExtensionIn(cert, SubjectAltName), 1)]

Usages(cert) ==
  LET usages == Parts[Inside(ExtensionIn(cert, ExtKeyUsage), 1)]
  IN  [i \in DOMAIN usages |-> Arcs(usages[i].content)]

\* The bytes of a number that is not negative, without leading zeros.
Magnitude(bytes) ==
  LET first == SelectInSeq(bytes, LAMBDA b : b # 0)
  IN  IF first = 0 THEN <<>> ELSE SubSeq(bytes, first, Len(bytes))

SerialIn(cert) ==
  LET content == Field(cert, 2)
  IN  IF content = <<>> \/ Head(content) >= 128 THEN <<"negative">> ELSE Magnitude(content)

\* The common name in the issuer (field 4) or the subject (field 6).
NameIn(cert, k) == Inside(Inside(Inside(Field(cert, k), 1), 1), 2)

Seen(cert) == [
  serial    |-> SerialIn(cert),
  version   |-> Inside(Field(cert, 1), 1),
  signedBy  |-> Arcs(Inside(Inside(Inside(cert, 1), 2), 1)),
  issuer    |-> NameIn(cert, 4),
  subject   |-> NameIn(cert, 6),
  from      |-> Date(Inside(Field(cert, 5), 1)),
  until     |-> Date(Inside(Field(cert, 5), 2)),
  key       |-> Field(cert, 7),
  names     |-> Names(cert),
  usages    |-> Usages(cert),
  signature |-> Inside(Inside(cert, 1), 3)]

Meant(o) == [
  serial    |-> Magnitude(o.serial),
  version   |-> <<2>>,
  signedBy  |-> Sha256Rsa,
  issuer    |-> o.name,
  subject   |-> o.name,
  from      |-> o.from,
  until     |-> o.until,
  key       |-> PublicKey,
  names     |-> [i \in DOMAIN o.dnsNames |-> [tag |-> 130, content |-> o.dnsNames[i]]]
                \o [i \in DOMAIN o.addresses |-> [tag |-> 135, content |-> o.addresses[i]]],
  usages    |-> <<ClientAuth, ServerAuth>>,
  signature |-> <<0>> \o Signature]

\* The parser of Node's X509Certificate accepts it.
Parses(cert) ==
  /\ Len(Parts[cert]) = 1
  /\ Len(Parts[Inside(cert, 1)]) = 3
  /\ Len(Parts[Signed(cert)]) = 8
  /\ Minimal(Field(cert, 2))

\* isUsableCertificate.
Usable(cert, now) ==
  /\ Parses(cert)
  /\ Inside(ExtensionIn(cert, BasicConstraints), 1) = <<>>
  /\ Names(cert) # <<>>
  /\ LongEnough(Date(Inside(Field(cert, 5), 2)), now)
  /\ Usages(cert) # <<>> => ClientAuth \in ToSet(Usages(cert))

-----------------------------------------------------------------------------
(* What decides about a generated certificate *)

\* The serial number does not start with a zero byte that DER has no room for.
SerialFits(o) == ~(o.serial[1] = 0 /\ o.serial[2] < 128)

\* UTCTime can tell the year.
YearsFit(o) == o.from[1] >= 1950 /\ o.until[1] < 2050
=============================================================================
