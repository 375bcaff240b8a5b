----------------------------- MODULE Conversions -----------------------------
(***************************************************************************)
(* The pure functions on which the rest relies for what it takes from      *)
(* others and shows to them: the names of received files, the certificate, *)
(* the choice of a device.  A behaviour is one call of one of them.        *)
(***************************************************************************)
EXTENDS Certificate, FileNames, Addressee

CONSTANTS
  RawNames,   \* names a peer may declare
  Requested,  \* certificates that may be asked for, with their serial numbers
  PeerLists   \* results a scan may have, as sequences

Peer == [alias : Seq(STRING), print : Seq(STRING), host : Seq(STRING), port : STRING]

ASSUME InputsAssumption ==
  /\ RawNames \subseteq Seq(STRING)
  /\ \A o \in Requested : Permitted(o)
  /\ PeerLists \subseteq Seq(Peer)

VARIABLES
  call,    \* the function
  given,   \* its argument
  result   \* its value; <<>> before, and for a name that is refused

vars == <<call, given, result>>

Init ==
  /\ \/ call = "safeFileName" /\ given \in RawNames
     \/ call = "generateSelfSignedCertificate" /\ given \in Requested
     \/ call = "findPeer" /\ given \in PeerLists
  /\ result = <<>>

Name ==
  /\ call = "safeFileName"
  /\ SafeFileName(given) # Refused
  /\ result' = Candidates(SafeFileName(given))

Certify ==
  /\ call = "generateSelfSignedCertificate"
  /\ result' = Generated(given)

\* Every device is asked for by the alias it shows.
Find ==
  /\ call = "findPeer"
  /\ result' = [i \in DOMAIN given |-> Addressee(given, given[i].alias)]

Next == (Name \/ Certify \/ Find) /\ UNCHANGED <<call, given>>

Spec == Init /\ [][Next]_vars

-----------------------------------------------------------------------------
(* What the callers rely on *)

Named     == call = "safeFileName" /\ result # <<>>
Certified == call = "generateSelfSignedCertificate" /\ result # <<>>
Found     == call = "findPeer" /\ result # <<>>

\* Whatever a peer declares, each name uniquePath may settle on is an entry of
\* the download directory itself: what safeFileName lets through needs no help
\* from the check in uniquePath, which does not look at the names it forms
\* with a suffix.
StaysInside ==
  Named => \A k \in DOMAIN result :
    /\ result[k] \notin {<<>>, <<".">>, <<".", ".">>}
    /\ ToSet(result[k]) \cap {"/", "\\", "control"} = {}

\* Cutting a long name and adding a suffix keep what the name is opened by.
KeepsExtension ==
  Named =>
    /\ Len(result[1]) <= NameCap
    /\ Len(ExtName(Cleaned(given))) <= ExtCap => ExtName(result[1]) = ExtName(Cleaned(given))
    /\ \A k \in DOMAIN result : ExtName(result[k]) = ExtName(result[1])

\* A strict reader finds in a certificate what was put into it, whatever the
\* lengths of its parts.
ReadsBack ==
  Certified /\ SerialFits(given) /\ YearsFit(given) =>
    Parses(result) /\ Seen(result) = Meant(given)

\* The one who generates a certificate accepts it, unless the serial number or
\* the year has no valid encoding, and then does not.
AcceptedExactly ==
  Certified => (Usable(result, Now(given)) <=> SerialFits(given) /\ YearsFit(given))

\* "accepts a freshly generated certificate"
FreshIsAccepted == Certified => Usable(result, Now(given))

\* The device at this position is the one its alias leads to.
Reached(i) == result[i] = [host |-> given[i].host, port |-> given[i].port]

\* No other device of the scan has this alias, in whatever case.
Unshared(i) ==
  \A j \in DOMAIN given \ {i} : Lower(given[j].alias) # Lower(given[i].alias)

\* A device that formatPeerList shows is reached by its alias ("using its alias
\* as 'to'"), whoever else answered and in whatever order, unless the alias is
\* shared, has the form of an address, is empty or has blanks around it.
AliasReaches ==
  Found => \A i \in DOMAIN given :
    LET alias == given[i].alias
    IN  alias \notin HostTexts \cup {<<>>} /\ Trim(alias) = alias /\ Unshared(i) => Reached(i)

\* "Send to one with localsend_send, using its alias as 'to'": so even if the
\* alias has blanks around it.
ShownAliasReaches ==
  Found => \A i \in DOMAIN given :
    Trim(given[i].alias) \notin HostTexts \cup {<<>>} /\ Unshared(i) => Reached(i)
=============================================================================
