----------------------------- MODULE TlsIdentity -----------------------------
(***************************************************************************)
(* ensureTlsMaterial (src/tls.ts) in several processes that share           *)
(* ~/.pi/localsend: the two files are looked at, read, and written one      *)
(* after the other, a process may be killed between any two of these steps, *)
(* and a certificate that was good becomes useless with time.  A generated  *)
(* key and its certificate are one Pair; a file holds a pair's half, "torn" *)
(* bytes while it is being written, or is not there.  Reading a file that   *)
(* is there does not fail.                                                  *)
(***************************************************************************)
CONSTANTS
  Processes,
  Pairs,     \* bound: key pairs that can be generated
  Overlap,   \* whether several processes may be in here at the same time
  OldPair,   \* the pair of an earlier installation, if there was one
  None

ASSUME PairsAssumption ==
  /\ OldPair \in Pairs /\ None \notin Pairs /\ "torn" \notin Pairs /\ None # "torn"
  /\ Overlap \in BOOLEAN

VARIABLES
  keyFile, certFile,  \* what key.pem and cert.pem hold
  useless,            \* pairs whose certificate a peer rejects, or soon will
  minted,             \* pairs generated so far
  tls,                \* process -> the step of ensureTlsMaterial it is about to take
  hand,               \* process -> the certificate it read or the pair it generated
  material            \* process -> what ensureTlsMaterial returned last

tlsVars == <<keyFile, certFile, useless, minted, tls, hand, material>>

Content == Pairs \cup {None, "torn"}

TlsTypeOK ==
  /\ keyFile \in Content /\ certFile \in Content
  /\ useless \subseteq Pairs
  /\ minted \subseteq Pairs
  /\ tls \in [Processes -> {"idle", "look", "readCert", "readKey", "generate",
                            "writeKey", "openCert", "writeCert"}]
  /\ hand \in [Processes -> Content]
  /\ material \in [Processes -> [key : Content, cert : Content] \cup {None}]

\* A first start, or an earlier installation whose certificate is useless or not.
TlsInit ==
  /\ \/ keyFile = None /\ certFile = None /\ useless = {}
     \/ keyFile = OldPair /\ certFile = OldPair /\ useless \in {{}, {OldPair}}
  /\ minted = {OldPair}
  /\ tls = [p \in Processes |-> "idle"]
  /\ hand = [p \in Processes |-> None]
  /\ material = [p \in Processes |-> None]

\* Faulty: being there is enough.
UsableIfPresent(cert) == cert # None

\* isUsableCertificate: it parses, and no peer would reject it.
Usable(cert) == cert \in Pairs \ useless

-----------------------------------------------------------------------------
(* The steps of ensureTlsMaterial *)

\* The process goes on to its next step; what it holds may change.
Goes(p, from, to, holds) ==
  /\ tls[p] = from
  /\ tls' = [tls EXCEPT ![p] = to]
  /\ hand' = [hand EXCEPT ![p] = holds]

Returns(p, result) ==
  /\ tls' = [tls EXCEPT ![p] = "idle"]
  /\ hand' = [hand EXCEPT ![p] = None]
  /\ material' = [material EXCEPT ![p] = result]

\* ensureTlsMaterial is called.
Ensure(p) ==
  /\ Overlap \/ \A q \in Processes : tls[q] = "idle"
  /\ Goes(p, "idle", "look", None)
  /\ UNCHANGED <<keyFile, certFile, useless, minted, material>>

\* Faulty: the stored pair is never found.
LookElsewhere(p) ==
  /\ Goes(p, "look", "generate", None)
  /\ UNCHANGED <<keyFile, certFile, useless, minted, material>>

\* Both files have to exist.
Look(p) ==
  /\ Goes(p, "look", IF certFile # None /\ keyFile # None THEN "readCert" ELSE "generate", None)
  /\ UNCHANGED <<keyFile, certFile, useless, minted, material>>

ReadCert(p) ==
  /\ Goes(p, "readCert", "readKey", certFile)
  /\ UNCHANGED <<keyFile, certFile, useless, minted, material>>

\* The key is taken as it is; only the certificate is examined.
ReadKey(p) ==
  /\ tls[p] = "readKey"
  /\ IF Usable(hand[p])
     THEN Returns(p, [key |-> keyFile, cert |-> hand[p]])
     ELSE Goes(p, "readKey", "generate", None) /\ UNCHANGED material
  /\ UNCHANGED <<keyFile, certFile, useless, minted>>

\* A new pair, whose certificate may be refused at once (SerialFits in
\* Certificate); key.pem is opened, which truncates it.
Generate(p) ==
  /\ \E pair \in Pairs \ minted :
       /\ Goes(p, "generate", "writeKey", pair)
       /\ minted' = minted \cup {pair}
       /\ useless' \in {useless, useless \cup {pair}}
  /\ keyFile' = "torn"
  /\ UNCHANGED <<certFile, material>>

\* Faulty: stops after the key.
WriteKeyLast(p) ==
  /\ Goes(p, "writeKey", "done", hand[p])
  /\ keyFile' = hand[p]
  /\ UNCHANGED <<certFile, useless, minted, material>>

\* The key is complete.
WriteKey(p) ==
  /\ Goes(p, "writeKey", "openCert", hand[p])
  /\ keyFile' = hand[p]
  /\ UNCHANGED <<certFile, useless, minted, material>>

\* cert.pem is opened and truncated.
OpenCert(p) ==
  /\ Goes(p, "openCert", "writeCert", hand[p])
  /\ certFile' = "torn"
  /\ UNCHANGED <<keyFile, useless, minted, material>>

\* The certificate is complete; the chmod that follows may still fail.
WriteCert(p) ==
  /\ tls[p] = "writeCert"
  /\ certFile' = hand[p]
  /\ \E result \in {[key |-> hand[p], cert |-> hand[p]], None} : Returns(p, result)
  /\ UNCHANGED <<keyFile, useless, minted>>

\* The directory cannot be made, a file not be opened, or not be written to the
\* end: null.
EnsureFails(p) ==
  /\ tls[p] \in {"generate", "writeKey", "openCert", "writeCert"}
  /\ Returns(p, None)
  /\ UNCHANGED <<keyFile, certFile, useless, minted>>

\* The process is killed or ends; what it held is gone.
TlsEnds(p) ==
  /\ Returns(p, None)
  /\ UNCHANGED <<keyFile, certFile, useless, minted>>

\* Time passes: less than RENEW_BEFORE_MS of validity is left.
Expire ==
  /\ \E pair \in minted \ useless : useless' = useless \cup {pair}
  /\ UNCHANGED <<keyFile, certFile, minted, tls, hand, material>>

TlsStep(p) ==
  \/ Look(p) \/ ReadCert(p) \/ ReadKey(p)
  \/ Generate(p) \/ WriteKey(p) \/ OpenCert(p) \/ WriteCert(p) \/ EnsureFails(p)

-----------------------------------------------------------------------------
(* What the identity promises *)

\* The key a process presents belongs to its certificate, through kills between
\* any two writes, failing disks, restarts and renewals ("A corrupt or
\* unreadable pair is regenerated"), although only the certificate is examined.
PairsMatch ==
  \A p \in Processes : material[p] # None => material[p].key = material[p].cert

\* Peers know this device by its certificate: one that is still good is not
\* replaced.
GoodCertKept ==
  [][Usable(certFile) => certFile' = certFile]_tlsVars
=============================================================================
