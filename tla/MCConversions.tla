---------------------------- MODULE MCConversions ----------------------------
(***************************************************************************)
(* Names of up to 5 characters with caps of 4 and 2; common names whose    *)
(* length takes the enclosing lengths across 127/128 and 255/256; serial   *)
(* numbers and years on both sides of every limit; up to two devices with  *)
(* aliases of up to two characters, blanks included.                       *)
(***************************************************************************)
EXTENDS Conversions

Characters == {".", "/", "\\", "space", "control", "x"}

SomeNames == UNION {[1 .. n -> Characters] : n \in 0 .. 5}

Filled(n, byte) == [i \in 1 .. n |-> byte]

Ask(serial, length, year) ==
  [serial    |-> serial \o Filled(14, 1),
   name      |-> Filled(length, 65),
   from      |-> <<year, 3, 7, 23, 59, 0>>,
   until     |-> <<year + 1, 3, 7, 23, 59, 0>>,
   dnsNames  |-> <<Filled(9, 66), Filled(length, 67)>>,
   addresses |-> <<<<127, 0, 0, 1>>>>]

Serials == {0, 127, 128, 255} \X {0, 127, 128, 255}
Lengths == {9} \cup 105 .. 129 \cup 233 .. 257

SomeRequests ==
  {Ask(s, 9, y) : s \in Serials, y \in {2026, 2048, 2049, 2050}}
    \cup {Ask(<<128, 0>>, n, 2026) : n \in Lengths}

\* What is asked for nowadays, with serial numbers of every kind.
RequestsOfToday == {Ask(s, 9, 2026) : s \in Serials}

\* Texts, and one of the form of an address.
SomeTexts == UNION {[1 .. n -> {"p", "P", "q", "space"}] : n \in 0 .. 2}
Address1  == <<"1">>
Hosts     == {Address1}

SomePeers ==
  [alias : SomeTexts \cup Hosts, print : {<<"p">>, <<"p", "q">>},
   host : {Address1, <<"q">>}, port : {"a", "b"}]

SomeLists ==
  {<<p>> : p \in SomePeers}
    \cup {<<p, q>> : p \in {r \in SomePeers : r.port = "a"}, q \in {r \in SomePeers : r.port = "b"}}
=============================================================================
