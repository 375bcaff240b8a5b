------------------------------ MODULE Discovery ------------------------------
(***************************************************************************)
(* One scan: discoverPeers, joinMulticast and PeerCollector                 *)
(* (src/discovery.ts).  A scan opens an HTTP server for registrations, a    *)
(* UDP socket to announce itself and, if the port is free, one that hears   *)
(* multicast; it waits, closes all three and returns what it collected.     *)
(* A device stands for the "host:port" the collector keys it by, and may    *)
(* register on one connection and multicast as often as it likes.  A packet *)
(* that is lost is one that no action delivers.                             *)
(***************************************************************************)
EXTENDS Naturals

CONSTANTS
  Devices,  \* other devices on the network
  Self,     \* this scan, as its own multicast shows it
  Prints,   \* fingerprints of devices
  ConfigPrint, CertPrint,  \* our fingerprint over http and over https
  Bursts,   \* announcements that fit into the scan (3 in the code)
  None

ASSUME PrintsAssumption ==
  /\ {ConfigPrint, CertPrint} \subseteq Prints /\ ConfigPrint # CertPrint
  /\ None \notin Prints
ASSUME SelfAssumption   == Self \notin Devices
ASSUME BurstsAssumption == Bursts \in Nat

VARIABLES
  phase,    \* the await discoverPeers is in, or how it ended
  aborted,  \* the caller's AbortSignal has fired
  https,    \* what resolveTransport decided
  open,     \* what it has open: "server", "sender", "listener"
  sent,     \* announcements so far
  peers,    \* the collector: device -> fingerprint, or None
  result,   \* what discoverPeers returned, or None
  conn,     \* device -> its connection to the server
  step,     \* device -> what the handler of its request waits for
  says      \* device -> the fingerprint it registers, None if the body is unusable

scan    == <<phase, aborted, https, open, sent>>
answers == <<conn, step, says>>
vars    == <<scan, peers, result, answers>>

Listed == [Devices \cup {Self} -> Prints \cup {None}]

TypeOK ==
  /\ phase \in {"starting", "binding", "joining", "scanning", "closing", "failing",
                "done", "failed"}
  /\ aborted \in BOOLEAN
  /\ https \in BOOLEAN
  /\ open \subseteq {"server", "sender", "listener"}
  /\ sent \in 0 .. Bursts
  /\ peers \in Listed
  /\ result \in Listed \cup {None}
  /\ conn \in [Devices -> {"none", "open", "lost", "destroyed"}]
  /\ step \in [Devices -> {"idle", "body", "replying", "answered", "dropped"}]
  /\ says \in [Devices -> Prints \cup {None}]

Init ==
  /\ phase = "starting"
  /\ aborted \in BOOLEAN
  /\ https \in BOOLEAN
  /\ open = {}
  /\ sent = 0
  /\ peers = [d \in Devices \cup {Self} |-> None]
  /\ result = None
  /\ conn = [d \in Devices |-> "none"]
  /\ step = [d \in Devices |-> "idle"]
  /\ says = [d \in Devices |-> None]

-----------------------------------------------------------------------------
(* The collector *)

\* transport.fingerprint: what we announce.
OwnPrint == IF https THEN CertPrint ELSE ConfigPrint

\* Faulty: compares with the fingerprint of the settings.
AddConfigured(d, print) ==
  peers' = IF print \in {None, ConfigPrint} THEN peers ELSE [peers EXCEPT ![d] = print]

\* PeerCollector.add: what is no device information is ignored, and so are we;
\* the last word of an address counts.
Add(d, print) ==
  peers' = IF print \in {None, OwnPrint} THEN peers ELSE [peers EXCEPT ![d] = print]

-----------------------------------------------------------------------------
(* discoverPeers *)

\* The server listens and the sender is created, not bound yet.
StartServer ==
  /\ phase = "starting"
  /\ phase' = "binding"
  /\ open' = {"server", "sender"}
  /\ UNCHANGED <<aborted, https, sent, peers, result, answers>>

\* The port is taken: discoverPeers throws with nothing open.
StartFails ==
  /\ phase = "starting"
  /\ phase' = "failed"
  /\ UNCHANGED <<aborted, https, open, sent, peers, result, answers>>

Bind ==
  /\ phase = "binding"
  /\ phase' = "joining"
  /\ UNCHANGED <<aborted, https, open, sent, peers, result, answers>>

\* joinMulticast: the second socket hears multicast, or is closed again because
\* its port is taken.  Then the timers are set.
Join ==
  /\ phase = "joining"
  /\ phase' = "scanning"
  /\ open' \in {open, open \cup {"listener"}}
  /\ UNCHANGED <<aborted, https, sent, peers, result, answers>>

\* Faulty: one burst too many.
AnnounceOnceMore ==
  /\ phase = "scanning"
  /\ sent <= Bursts
  /\ sent' = sent + 1
  /\ UNCHANGED <<phase, aborted, https, open, peers, result, answers>>

\* One of the bursts is due.
Announce ==
  /\ phase = "scanning"
  /\ sent < Bursts
  /\ sent' = sent + 1
  /\ UNCHANGED <<phase, aborted, https, open, peers, result, answers>>

\* Faulty: connections are left to their peers.
CleanupPolitely(next) ==
  /\ phase' = next
  /\ open' = {"server"}
  /\ UNCHANGED conn

\* Faulty: the multicast socket is forgotten.
CleanupOwnSockets(next) ==
  /\ phase' = next
  /\ open' = open \ {"sender"}
  /\ conn' = [d \in Devices |-> IF conn[d] = "open" THEN "destroyed" ELSE conn[d]]

\* cleanup() up to its await: both UDP sockets are closed, the connections
\* destroyed, the server stops listening and waits for them.
Cleanup(next) ==
  /\ phase' = next
  /\ open' = {"server"}
  /\ conn' = [d \in Devices |-> IF conn[d] = "open" THEN "destroyed" ELSE conn[d]]

BindFails ==
  /\ phase = "binding"
  /\ Cleanup("failing")
  /\ UNCHANGED <<aborted, https, sent, peers, result, step, says>>

\* The timers of the bursts were due before.
TimeoutFires ==
  /\ phase = "scanning"
  /\ sent = Bursts
  /\ Cleanup("closing")
  /\ UNCHANGED <<aborted, https, sent, peers, result, step, says>>

\* The signal ends every delay() at once: the remaining bursts leave, then the
\* scan ends.  A signal that fired before the delays began is not looked at.
Abort ==
  /\ ~aborted
  /\ aborted' = TRUE
  /\ IF phase = "scanning"
     THEN sent' = Bursts /\ Cleanup("closing")
     ELSE UNCHANGED <<phase, open, sent, conn>>
  /\ UNCHANGED <<https, peers, result, step, says>>

\* server.close() has called back.
ServerClosed ==
  /\ phase \in {"closing", "failing"}
  /\ \A d \in Devices : conn[d] # "open"
  /\ open' = open \ {"server"}
  /\ IF phase = "closing" THEN phase' = "done" /\ result' = peers
                          ELSE phase' = "failed" /\ UNCHANGED result
  /\ UNCHANGED <<aborted, https, sent, peers, answers>>

-----------------------------------------------------------------------------
(* Answers over HTTP *)

\* The server accepts.  Before the scan only microtasks run.
Connect(d) ==
  /\ phase = "scanning"
  /\ conn[d] = "none"
  /\ conn' = [conn EXCEPT ![d] = "open"]
  /\ UNCHANGED <<scan, peers, result, step, says>>

Disconnect(d) ==
  /\ conn[d] = "open"
  /\ conn' = [conn EXCEPT ![d] = "lost"]
  /\ UNCHANGED <<scan, peers, result, step, says>>

Reply(d) ==
  step' = [step EXCEPT ![d] = IF conn[d] = "open" THEN "replying" ELSE "dropped"]

\* info, or a path that does not exist.
Inform(d) ==
  /\ step[d] = "idle" /\ conn[d] = "open"
  /\ Reply(d)
  /\ UNCHANGED <<scan, peers, result, conn, says>>

\* Faulty: answers before it has read.
RegisterAnsweringFirst(d, print) ==
  /\ step[d] = "idle" /\ conn[d] = "open"
  /\ says' = [says EXCEPT ![d] = print]
  /\ Reply(d)
  /\ UNCHANGED <<scan, peers, result, conn>>

\* register, up to the await of its body.
Register(d, print) ==
  /\ step[d] = "idle" /\ conn[d] = "open"
  /\ says' = [says EXCEPT ![d] = print]
  /\ step' = [step EXCEPT ![d] = "body"]
  /\ UNCHANGED <<scan, peers, result, conn>>

\* The body is there.
Registered(d) ==
  /\ step[d] = "body" /\ conn[d] = "open"
  /\ Add(d, says[d])
  /\ Reply(d)
  /\ UNCHANGED <<scan, result, conn, says>>

\* The connection ended first.
BodyFails(d) ==
  /\ step[d] = "body" /\ conn[d] # "open"
  /\ Reply(d)
  /\ UNCHANGED <<scan, peers, result, conn, says>>

Flush(d) ==
  /\ step[d] = "replying"
  /\ step' = [step EXCEPT ![d] = IF conn[d] = "open" THEN "answered" ELSE "dropped"]
  /\ UNCHANGED <<scan, peers, result, conn, says>>

-----------------------------------------------------------------------------
(* Answers over multicast, ours among them *)

Hear(d, print) ==
  /\ phase = "scanning"
  /\ "listener" \in open
  /\ d = Self => sent > 0 /\ print = OwnPrint
  /\ Add(d, print)
  /\ UNCHANGED <<scan, result, answers>>

-----------------------------------------------------------------------------

Scan == StartServer \/ Bind \/ Join \/ Announce \/ TimeoutFires \/ ServerClosed

Trouble == StartFails \/ BindFails \/ Abort

AnyRegister(d) == \E print \in Prints \cup {None} : Register(d, print)
AnyPacket(d)   == \E print \in Prints \cup {None} : Hear(d, print)

Device(d) ==
  \/ Connect(d) \/ Disconnect(d) \/ Inform(d) \/ AnyRegister(d)
  \/ Registered(d) \/ Flush(d)

Next ==
  \/ Scan \/ Trouble
  \/ \E d \in Devices : Device(d) \/ BodyFails(d)
  \/ \E d \in Devices \cup {Self} : AnyPacket(d)

Spec == Init /\ [][Next]_vars

\* Sockets open or fail, timers fire and the server closes; devices promise
\* nothing.
FairSpec == Spec /\ WF_vars(Scan \/ StartFails \/ BindFails)

-----------------------------------------------------------------------------

\* "Every one of them closes what it opened before it returns" (index.ts),
\* however the scan ends.
NothingLeftOpen ==
  phase \in {"done", "failed"} =>
    open = {} /\ \A d \in Devices : conn[d] # "open"

\* A device that was told 200 for a registration that makes sense is in the
\* result, whatever the scan's end did to connections and handlers.
AnsweredIsListed ==
  phase = "done" =>
    \A d \in Devices :
      step[d] = "answered" /\ says[d] \notin {None, OwnPrint} => result[d] # None

\* Our own multicast never makes us a peer of our own, over http or https.
NeverOurselves == peers[Self] = None

\* A scan returns, whatever the devices do with their connections.
ScanEnds == phase = "starting" ~> phase \in {"done", "failed"}
=============================================================================
