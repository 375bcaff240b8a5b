----------------------------- MODULE SendClient -----------------------------
(***************************************************************************)
(* sendFiles and cancelSession (src/clients/send-client.ts): one            *)
(* prepare-upload, one upload per token, a cancel when something went wrong *)
(* after that.  Each call is one send(): it is made, and later either       *)
(* answered or failed (refused, reset, timed out, aborted), which is when   *)
(* the code after the await runs.  What a peer answers is a parameter of    *)
(* the actions; Transfer lets a receive window answer.                      *)
(***************************************************************************)
EXTENDS Naturals, FiniteSets

CONSTANTS
  Senders,  \* runs of sendFiles
  FileIds,  \* the random ids buildFileDescriptors gives to payloads
  Offers,   \* what there may be to send: functions from senders to sets of ids
  None      \* no session id, nothing asked yet

ASSUME OffersAssumption ==
  /\ IsFiniteSet(FileIds)
  /\ Offers \subseteq [Senders -> SUBSET FileIds]
  /\ \A o \in Offers : \A s, t \in Senders : s # t => o[s] \cap o[t] = {}

\* A sender makes at most one prepare-upload, an upload per file and a cancel.
Calls == Senders \X (1 .. Cardinality(FileIds) + 2)

VARIABLES
  offer,    \* sender -> the ids of its payloads
  stage,    \* the call sendFiles awaits, or how it ended
  calls,    \* calls made so far
  wire,     \* call -> what it asks of the peer, or None
  known,    \* sessionId
  todo,     \* the files of tokens that the loop has not reached
  sent,     \* results with ok: true
  refused,  \* results with ok: false
  broken    \* an error waits to be thrown again after the cancel

clientVars == <<offer, stage, calls, wire, known, todo, sent, refused, broken>>

Message == [op : {"prepare", "upload", "cancel"}, session : Calls \cup {None},
            files : SUBSET FileIds]

ASSUME CallsAssumption == None \notin Calls /\ None \notin Message

Waiting(s) == stage[s] \in {"preparing", "uploading", "cancelling"}
Ended(s)   == stage[s] \in {"returned", "thrown"}

\* The call a sender is waiting for.
Current(s) == <<s, calls[s]>>

\* The files of the current upload, whose result is still open.
Underway(s) == IF stage[s] = "uploading" THEN wire[Current(s)].files ELSE {}

ClientTypeOK ==
  /\ offer \in Offers
  /\ stage \in [Senders -> {"idle", "preparing", "uploading", "cancelling",
                            "returned", "thrown"}]
  /\ calls \in [Senders -> Nat]
  /\ wire \in [Calls -> Message \cup {None}]
  /\ known \in [Senders -> Calls \cup {None}]
  /\ todo \in [Senders -> SUBSET FileIds]
  /\ sent \in [Senders -> SUBSET FileIds]
  /\ refused \in [Senders -> SUBSET FileIds]
  /\ broken \in [Senders -> BOOLEAN]
  /\ \A s \in Senders : Waiting(s) => Current(s) \in Calls /\ wire[Current(s)] # None

ClientInit ==
  /\ offer \in Offers
  /\ stage = [s \in Senders |-> "idle"]
  /\ calls = [s \in Senders |-> 0]
  /\ wire = [c \in Calls |-> None]
  /\ known = [s \in Senders |-> None]
  /\ todo = [s \in Senders |-> {}]
  /\ sent = [s \in Senders |-> {}]
  /\ refused = [s \in Senders |-> {}]
  /\ broken = [s \in Senders |-> FALSE]

-----------------------------------------------------------------------------

\* send(): a request leaves for the peer.
Make(s, next, op, sid, about) ==
  /\ stage' = [stage EXCEPT ![s] = next]
  /\ calls' = [calls EXCEPT ![s] = @ + 1]
  /\ wire' = [wire EXCEPT ![<<s, calls[s] + 1>>] =
                [op |-> op, session |-> sid, files |-> about]]

\* sendFiles settles.
End(s, how) ==
  /\ stage' = [stage EXCEPT ![s] = how]
  /\ UNCHANGED <<calls, wire>>

CancelSession(s, sid) == Make(s, "cancelling", "cancel", sid, {})

\* Faulty: the file stays in the list.
LoopAgain(s, sid, left, bad) ==
  \/ \E f \in left :
       /\ Make(s, "uploading", "upload", sid, {f})
       /\ todo' = [todo EXCEPT ![s] = left]
  \/ /\ left = {}
     /\ IF bad = {} THEN End(s, "returned") ELSE CancelSession(s, sid)
     /\ todo' = [todo EXCEPT ![s] = {}]

\* The head of the upload loop, and what follows the loop: the next token, or a
\* cancel if a file was refused, or the result.
Loop(s, sid, left, bad) ==
  \/ \E f \in left :
       /\ Make(s, "uploading", "upload", sid, {f})
       /\ todo' = [todo EXCEPT ![s] = left \ {f}]
  \/ /\ left = {}
     /\ IF bad = {} THEN End(s, "returned") ELSE CancelSession(s, sid)
     /\ todo' = [todo EXCEPT ![s] = {}]

\* sendFiles up to its first await.
Begin(s) ==
  /\ stage[s] = "idle"
  /\ offer[s] # {}
  /\ Make(s, "preparing", "prepare", None, offer[s])
  /\ UNCHANGED <<offer, known, todo, sent, refused, broken>>

\* There is nothing to send, or no certificate can be made for an encrypted peer.
CannotBegin(s) ==
  /\ stage[s] = "idle"
  /\ End(s, "thrown")
  /\ UNCHANGED <<offer, known, todo, sent, refused, broken>>

\* prepare-upload was answered: nothing wanted, declined, unusable (no session
\* id), or a session with tokens.  Tokens for unknown ids are skipped.
HearPrepared(s, code, sid, tokens) ==
  /\ stage[s] = "preparing"
  /\ \/ /\ code = 204
        /\ End(s, "returned")
        /\ UNCHANGED <<known, todo>>
     \/ /\ code \notin {200, 204} \/ (code = 200 /\ sid = None)
        /\ End(s, "thrown")
        /\ UNCHANGED <<known, todo>>
     \/ /\ code = 200 /\ sid # None
        /\ known' = [known EXCEPT ![s] = sid]
        /\ Loop(s, sid, tokens \cap offer[s], {})
  /\ UNCHANGED <<offer, sent, refused, broken>>

\* Faulty: "already uploaded" passes for uploaded.
HearUploadedLeniently(s, code) ==
  /\ stage[s] = "uploading"
  /\ LET good == code \in {200, 409}
     IN  /\ sent' = [sent EXCEPT ![s] = IF good THEN @ \cup Underway(s) ELSE @]
         /\ refused' = [refused EXCEPT ![s] = IF good THEN @ ELSE @ \cup Underway(s)]
  /\ Loop(s, known[s], todo[s], refused'[s])
  /\ UNCHANGED <<offer, known, broken>>

\* Faulty: a file that was refused is forgotten.
HearUploadedForgetful(s, code) ==
  /\ stage[s] = "uploading"
  /\ sent' = [sent EXCEPT ![s] = IF code = 200 THEN @ \cup Underway(s) ELSE @]
  /\ Loop(s, known[s], todo[s], {})
  /\ UNCHANGED <<offer, known, refused, broken>>

\* An upload was answered: its result is noted, the loop goes on.
HearUploaded(s, code) ==
  /\ stage[s] = "uploading"
  /\ LET good == code >= 200 /\ code < 300
     IN  /\ sent' = [sent EXCEPT ![s] = IF good THEN @ \cup Underway(s) ELSE @]
         /\ refused' = [refused EXCEPT ![s] = IF good THEN @ ELSE @ \cup Underway(s)]
  /\ Loop(s, known[s], todo[s], refused'[s])
  /\ UNCHANGED <<offer, known, broken>>

\* After the cancel, whatever became of it: the error or the partial result.
AfterCancel(s) ==
  /\ stage[s] = "cancelling"
  /\ End(s, IF broken[s] THEN "thrown" ELSE "returned")
  /\ UNCHANGED <<offer, known, todo, sent, refused, broken>>

\* The current call fails: the peer refuses or resets the connection, the
\* request's timeout runs out, the caller aborts, the file cannot be read.
CallFails(s) ==
  \/ /\ stage[s] = "preparing"
     /\ End(s, "thrown")
     /\ UNCHANGED <<offer, known, todo, sent, refused, broken>>
  \/ /\ stage[s] = "uploading"
     /\ broken' = [broken EXCEPT ![s] = TRUE]
     /\ CancelSession(s, known[s])
     /\ UNCHANGED <<offer, known, todo, sent, refused>>
  \/ AfterCancel(s)

-----------------------------------------------------------------------------

\* Any LocalSend peer: whatever it answers.
AnyPeer(s) ==
  \/ \E code \in {200, 204, 403}, sid \in {None, Current(s)}, tokens \in SUBSET FileIds :
       HearPrepared(s, code, sid, tokens)
  \/ \E code \in {200, 409, 500} : HearUploaded(s, code)
  \/ AfterCancel(s)

SenderAlone(s) == Begin(s) \/ CannotBegin(s) \/ CallFails(s)
=============================================================================
