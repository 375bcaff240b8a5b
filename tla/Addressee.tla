------------------------------ MODULE Addressee ------------------------------
(***************************************************************************)
(* Whom localsend_send sends to: looksLikeHost                             *)
(* (src/tools/localsend-send.ts) and findPeer (src/discovery.ts).  Texts   *)
(* are sequences of characters; upper case is "P" for "p".                 *)
(***************************************************************************)
EXTENDS Texts

CONSTANT HostTexts  \* the texts of the form of an address or of a .local name

Lower(text) == [i \in DOMAIN text |-> IF text[i] = "P" THEN "p" ELSE text[i]]

Includes(text, part) ==
  \E i \in 1 .. Len(text) - Len(part) + 1 : SubSeq(text, i, i + Len(part) - 1) = part

Nobody == 0

\* Faulty: any partial match will do.
FindPeerByPart(peers, needle) ==
  LET target == Lower(Trim(needle))
      found  == {i \in DOMAIN peers : \/ Includes(Lower(peers[i].alias), target)
                                      \/ Lower(peers[i].print) = target
                                      \/ peers[i].host = Trim(needle)}
  IN  IF found = {} THEN Nobody ELSE Min(found)

\* The first peer of that alias, else of that fingerprint, else at that host,
\* else with an alias that contains it.  Only what is looked for is trimmed.
FindPeer(peers, needle) ==
  LET target == Lower(Trim(needle))
      Matches(way, peer) ==
        CASE way = 1 -> Lower(peer.alias) = target
          [] way = 2 -> Lower(peer.print) = target
          [] way = 3 -> peer.host = Trim(needle)
          [] way = 4 -> Includes(Lower(peer.alias), target)
      ways == {w \in 1 .. 4 : \E i \in DOMAIN peers : Matches(w, peers[i])}
  IN  IF ways = {} THEN Nobody ELSE Min({i \in DOMAIN peers : Matches(Min(ways), peers[i])})

NoTarget == [host |-> <<>>, port |-> "none"]

\* execute: nothing but white space is refused, an address is used as it is,
\* anything else is looked for.
Addressee(peers, to) ==
  LET target == Trim(to)
      i      == FindPeer(peers, target)
  IN  CASE target = <<>>        -> NoTarget
        [] target \in HostTexts -> [host |-> target, port |-> "default"]
        [] OTHER -> IF i = Nobody THEN NoTarget
                    ELSE [host |-> peers[i].host, port |-> peers[i].port]
=============================================================================
