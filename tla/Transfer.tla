------------------------------ MODULE Transfer ------------------------------
(***************************************************************************)
(* Senders (SendClient) and a receive window (ReceiveServer) over a network *)
(* that may delay a request for as long as it likes, lose it or its answer, *)
(* and break a connection at either end first.  A sender that gave up has   *)
(* no way to call its request back.                                         *)
(***************************************************************************)
EXTENDS SendClient

CONSTANTS
  Home,     \* sender -> the address it sends from
  Abroad,   \* the sets of senders that may be talking to some other device
  MaxLost,  \* bound: connections that break
  MaxPinAttempts, PinRequired

ASSUME AbroadAssumption == Abroad \subseteq SUBSET Senders
ASSUME PinAssumption    == MaxPinAttempts \in Nat /\ PinRequired \in BOOLEAN

VARIABLES
  elsewhere  \* the senders that talk to some other LocalSend device

\* The window, as in ReceiveServer.
VARIABLES phase, aborted, outcome, session, received, pinAttempts, files,
          socket, step, status, ask, closes

Addresses == {Home[s] : s \in Senders}

\* Every call is a request of its own at the window, and a session is named
\* after the prepare-upload that opened it.
Receiver == INSTANCE ReceiveServer WITH Requests <- Calls

receiverVars == <<phase, aborted, outcome, session, received, pinAttempts, files,
                  socket, step, status, ask, closes>>
vars == <<elsewhere, clientVars, receiverVars>>

TypeOK == elsewhere \in Abroad /\ ClientTypeOK /\ Receiver!TypeOK

\* The receiving side does not abort: a sender cannot tell that from a timeout.
Init == elsewhere \in Abroad /\ ClientInit /\ Receiver!Init /\ ~aborted

-----------------------------------------------------------------------------

Owner(r) == r[1]

\* What is on the wire reaches the window or stays away; the connection of an
\* upload may break at the window's end too.  The PIN a user types may be wrong.
Network(r) ==
  /\ wire[r] # None
  /\ \/ Receiver!ConnectFrom(r, Home[Owner(r)])
     \/ Receiver!Flush(r)
     \/ /\ wire[r].op = "prepare"
        /\ \/ \E pinMatches \in BOOLEAN : Receiver!Prepare(r, pinMatches)
           \/ Receiver!OpenSession(r, wire[r].files)
     \/ /\ wire[r].op = "upload"
        /\ \/ \E f \in wire[r].files : Receiver!Upload(r, wire[r].session, f, TRUE)
           \/ Receiver!EndBody(r)
           \/ Receiver!WriteFails(r)
           \/ /\ Cardinality({q \in Calls : socket[q] = "lost"}) < MaxLost
              /\ Receiver!Disconnect(r)
     \/ /\ wire[r].op = "cancel"
        /\ Receiver!Cancel(r, wire[r].session)
  /\ UNCHANGED clientVars

Process ==
  /\ \/ Receiver!Start \/ Receiver!StartFails
     \/ Receiver!TimeoutFires \/ Receiver!ServerClosed
     \/ \E r \in Calls : Receiver!Handler(r)
  /\ UNCHANGED clientVars

\* A sender reads the answer to its current call, as far as the window got it
\* onto the wire.
Answered(s) ==
  LET r == Current(s)
  IN  /\ Waiting(s)
      /\ step[r] = "answered"
      /\ \/ HearPrepared(s, status[r], ask[r].session, ask[r].files)
         \/ HearUploaded(s, status[r])
         \/ AfterCancel(s)
      /\ UNCHANGED receiverVars

Alone(s) == SenderAlone(s) /\ UNCHANGED receiverVars

Elsewhere(s) == AnyPeer(s) /\ UNCHANGED receiverVars

Here == Senders \ elsewhere

Next ==
  /\ \/ \E s \in Senders : Alone(s)
     \/ \E s \in Here : Answered(s)
     \/ \E s \in elsewhere : Elsewhere(s)
     \/ \E r \in Calls : Owner(r) \in Here /\ Network(r)
     \/ Process
  /\ UNCHANGED elsewhere

Spec == Init /\ [][Next]_vars

-----------------------------------------------------------------------------
(* What both sides may rely on *)

\* A file that a sender reports as sent is one the window recorded, in the
\* session of that sender, whatever was lost, repeated or cut off in between.
ReportedIsRecorded ==
  \A s \in Here : \A f \in sent[s] :
    \E r \in files : ask[r].session = known[s] /\ ask[r].files = {f}

\* If sendFiles returns with nothing refused, the window ended as "completed",
\* as long as no second session replaced the sender's: the two sides never both
\* return with different ideas of a transfer that went well.
WholeMeansCompleted ==
  \A s \in Here :
    stage[s] = "returned" /\ refused[s] = {} /\ Receiver!SingleSession
      => outcome = "completed" /\ session = known[s]

\* A cancel that was answered has ended the window, however late it arrived
\* (sendFiles: "so the peer does not sit on a half-open transfer").
CancelSettles ==
  Receiver!SingleSession =>
    \A r \in Calls :
      wire[r] # None /\ step[r] = "answered" =>
        (wire[r].op = "cancel" => outcome # "pending")

\* A window that reports "completed" has refused its sender nothing: every file
\* is counted as sent, or its answer was lost on the way.
CompletedRefusedNothing ==
  outcome = "completed" /\ Receiver!SingleSession =>
    \A s \in Here : known[s] = session => refused[s] = {}

-----------------------------------------------------------------------------
(* What the repository says and the code does not keep *)

\* send-client.ts: "Anything that goes wrong after a session exists is followed
\* by a best-effort cancel".
TroubleIsCancelled ==
  \A s \in Here :
    stage[s] = "thrown" /\ (\E r \in Calls : Owner(r) = s /\ Receiver!Opened(r)) =>
      \E r \in Calls : Owner(r) = s /\ wire[r] # None /\ wire[r].op = "cancel"
=============================================================================
