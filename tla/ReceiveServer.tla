---------------------------- MODULE ReceiveServer ----------------------------
(***************************************************************************)
(* One receive window: receiveOnce (src/server/receive-server.ts) on top   *)
(* of the listener (src/server/listener.ts).                               *)
(*                                                                         *)
(* The program is single-threaded; a handler runs without interruption     *)
(* from one await to the next, so every action below is the code between   *)
(* two points where other handlers, the timer or the abort signal may run. *)
(* A request stands for one run of the HTTP handler on a connection of its *)
(* own.  What is written to disk is the subject of UploadStore; here an    *)
(* upload either ends up stored or is discarded.                           *)
(***************************************************************************)
EXTENDS Naturals, FiniteSets

CONSTANTS
  Requests,        \* HTTP requests that may reach the window
  Addresses,       \* remote addresses, as normalizeRemoteAddress gives them; it may
                   \* hold None, for a connection of which none is known
  FileIds,         \* keys of the "files" object of a prepare-upload
  MaxPinAttempts,  \* MAX_PIN_ATTEMPTS
  PinRequired,     \* whether options.pin is set
  None             \* no session, no address, no parameter

ASSUME RequestsAssumption == None \notin Requests
ASSUME FilesAssumption    == IsFiniteSet(FileIds)
ASSUME PinAssumption      == MaxPinAttempts \in Nat /\ PinRequired \in BOOLEAN

VARIABLES
  \* the window
  phase,        \* where receiveOnce and its shutdown are
  aborted,      \* the caller's AbortSignal has fired
  outcome,      \* "pending" until complete() settles the window
  \* the variables the handlers share
  session,      \* None, or the request that opened the current session
  received,     \* session.received: the file ids the session counts as stored
  pinAttempts,  \* wrong PINs so far
  files,        \* the uploads recorded in the result
  \* one entry per request
  socket,       \* its connection
  step,         \* the await its handler is suspended in
  status,       \* the HTTP status it was answered with, 0 before
  ask,          \* what it asks for, as far as it was let in
  closes        \* the outcome its response reports once flushed, or "pending"

window   == <<phase, aborted, outcome>>
shared   == <<session, received, pinAttempts, files>>
requests == <<socket, step, status, ask, closes>>
vars     == <<window, shared, requests>>

Outcomes == {"completed", "timeout", "cancelled"}

TypeOK ==
  /\ phase \in {"starting", "failed", "listening", "closing", "done"}
  /\ aborted \in BOOLEAN
  /\ outcome \in Outcomes \cup {"pending"}
  /\ session \in Requests \cup {None}
  /\ received \subseteq FileIds
  /\ pinAttempts \in Nat
  /\ files \subseteq Requests
  /\ socket \in [Requests -> {"none", "open", "lost", "destroyed"}]
  /\ step \in [Requests -> {"idle", "hello", "body", "writing", "ending",
                            "discarding", "replying", "answered", "dropped"}]
  /\ status \in [Requests -> {0, 200, 400, 401, 403, 404, 409, 429, 500}]
  /\ ask \in [Requests -> [from    : Addresses \cup {None},
                           session : Requests \cup {None},
                           files   : SUBSET FileIds]]
  /\ closes \in [Requests -> {"pending", "completed", "cancelled"}]

Init ==
  /\ phase = "starting"
  /\ aborted \in BOOLEAN
  /\ outcome = "pending"
  /\ session = None
  /\ received = {}
  /\ pinAttempts = 0
  /\ files = {}
  /\ socket = [r \in Requests |-> "none"]
  /\ step = [r \in Requests |-> "idle"]
  /\ status = [r \in Requests |-> 0]
  /\ ask = [r \in Requests |-> [from |-> None, session |-> None, files |-> {}]]
  /\ closes = [r \in Requests |-> "pending"]

-----------------------------------------------------------------------------
(* Helpers of the handlers *)

\* Every prepare-upload that was answered with a session id.
Opened(r) == ask[r].session = r

\* Faulty: complete() without its settled flag.
CompleteAgain(result) ==
  /\ outcome' = result
  /\ phase' = "closing"
  /\ socket' = [r \in Requests |->
                  IF socket[r] = "open" THEN "destroyed" ELSE socket[r]]

\* Faulty: server.close() without the sockets set.
CompleteKeepingSockets(result) ==
  IF outcome = "pending"
  THEN /\ outcome' = result
       /\ phase' = "closing"
       /\ UNCHANGED socket
  ELSE UNCHANGED <<outcome, phase, socket>>

\* complete() and the synchronous part of shutdown(): the first outcome wins,
\* timers and the abort listener go, every open socket is destroyed.
Complete(result) ==
  IF outcome = "pending"
  THEN /\ outcome' = result
       /\ phase' = "closing"
       /\ socket' = [r \in Requests |->
                       IF socket[r] = "open" THEN "destroyed" ELSE socket[r]]
  ELSE UNCHANGED <<outcome, phase, socket>>

\* The 'finish' listener a handler put on its response.
Finished(r) ==
  IF closes[r] = "pending" THEN UNCHANGED <<outcome, phase, socket>>
                           ELSE Complete(closes[r])

\* sendJson: the response waits to be flushed, or goes nowhere when the
\* connection is already gone (then 'finish' never fires).
Reply(r, code) ==
  /\ step' = [step EXCEPT ![r] = IF socket[r] = "open" THEN "replying" ELSE "dropped"]
  /\ status' = [status EXCEPT ![r] = code]

\* The handler goes on to its next await.
Await(r, what) ==
  /\ step' = [step EXCEPT ![r] = what]
  /\ UNCHANGED status

\* From here on the request counts as one of session sid, about the given files.
Admit(r, sid, about) ==
  ask' = [ask EXCEPT ![r] = [from |-> ask[r].from, session |-> sid, files |-> about]]

\* A request arrives whole on its connection.
Arrives(r) == step[r] = "idle" /\ socket[r] = "open"

GoOn == 0  \* no early return applies

\* Faulty: one guess too many.
PrepareVerdictOffByOne(pinMatches) ==
  IF session # None THEN 409
  ELSE IF PinRequired /\ pinAttempts > MaxPinAttempts THEN 429
  ELSE IF PinRequired /\ ~pinMatches THEN 401
  ELSE GoOn

\* The early returns of prepare-upload, in their order.
PrepareVerdict(pinMatches) ==
  IF session # None THEN 409
  ELSE IF PinRequired /\ pinAttempts >= MaxPinAttempts THEN 429
  ELSE IF PinRequired /\ ~pinMatches THEN 401
  ELSE GoOn

\* Faulty: the session is not bound to the address that opened it.
UploadVerdictAnyAddress(from, sid, file, tokenMatches) ==
  IF sid = None THEN 400
  ELSE IF session # sid THEN 409
  ELSE IF file \notin ask[session].files \/ ~tokenMatches THEN 403
  ELSE IF file \in received THEN 409
  ELSE GoOn

\* The early returns of upload, in their order: a missing parameter, a session
\* that is not the current one, a foreign address (if the session has one), a file
\* that was not offered or the wrong token, a file the session already has.
UploadVerdict(from, sid, file, tokenMatches) ==
  IF sid = None THEN 400
  ELSE IF session # sid THEN 409
  ELSE IF ask[session].from \notin {None, from} THEN 403
  ELSE IF file \notin ask[session].files \/ ~tokenMatches THEN 403
  ELSE IF file \in received THEN 409
  ELSE GoOn

-----------------------------------------------------------------------------
(* The window: start, abort, timeout, end of shutdown *)

\* startServer resolved and the announcer is bound: the timer runs and the
\* abort listener is attached.
Start ==
  /\ phase = "starting"
  /\ phase' = "listening"
  /\ UNCHANGED <<aborted, outcome, shared, requests>>

\* The port is taken or the download directory cannot be made.
StartFails ==
  /\ phase = "starting"
  /\ phase' = "failed"
  /\ UNCHANGED <<aborted, outcome, shared, requests>>

\* Faulty: an outcome that ReceiveResult does not have.
AbortNamedAborted ==
  /\ ~aborted
  /\ aborted' = TRUE
  /\ IF phase = "listening" THEN Complete("aborted")
                            ELSE UNCHANGED <<outcome, phase, socket>>
  /\ UNCHANGED <<shared, step, status, ask, closes>>

\* The caller aborts.  Only the listener attached at the end of receiveOnce
\* reacts; nothing looks at signal.aborted.
Abort ==
  /\ ~aborted
  /\ aborted' = TRUE
  /\ IF phase = "listening" THEN Complete("cancelled")
                            ELSE UNCHANGED <<outcome, phase, socket>>
  /\ UNCHANGED <<shared, step, status, ask, closes>>

\* The timer set once at the start, whatever the session is doing.
TimeoutFires ==
  /\ phase = "listening"
  /\ Complete("timeout")
  /\ UNCHANGED <<aborted, shared, step, status, ask, closes>>

\* server.close() calls back once the last connection is gone; done resolves
\* with the files, the sender and the outcome.
ServerClosed ==
  /\ phase = "closing"
  /\ \A r \in Requests : socket[r] # "open"
  /\ phase' = "done"
  /\ UNCHANGED <<aborted, outcome, shared, requests>>

-----------------------------------------------------------------------------
(* Connections *)

\* A peer connects; the listener adds the socket to its set.  Between listen()
\* and the timer only the announcer's bind is awaited, which gives way to
\* microtasks and to no connection.
ConnectFrom(r, a) ==
  /\ phase = "listening"
  /\ socket[r] = "none"
  /\ socket' = [socket EXCEPT ![r] = "open"]
  /\ ask' = [ask EXCEPT ![r].from = a]
  /\ UNCHANGED <<window, shared, step, status, closes>>

\* The peer goes away, or the network does.
Disconnect(r) ==
  /\ socket[r] = "open"
  /\ socket' = [socket EXCEPT ![r] = "lost"]
  /\ UNCHANGED <<window, shared, step, status, ask, closes>>

\* Faulty: writeBody does not listen for the request's error.
ReadFailsUnheard(r) ==
  /\ socket[r] \in {"lost", "destroyed"}
  /\ \/ step[r] = "hello" /\ Reply(r, 200)
     \/ step[r] = "body" /\ Reply(r, 500)
  /\ UNCHANGED <<window, shared, socket, ask, closes>>

\* A handler still reading when its connection ends gets the request's error.
\* readJsonBody rejects, writeBody starts to discard its partial file.
ReadFails(r) ==
  /\ socket[r] \in {"lost", "destroyed"}
  /\ \/ /\ step[r] = "hello"
        /\ Reply(r, 200)
     \/ /\ step[r] = "body"
        /\ Reply(r, 500)
     \/ /\ step[r] = "writing"
        /\ Await(r, "discarding")
  /\ UNCHANGED <<window, shared, socket, ask, closes>>

\* The response has been handed to the operating system.
Flush(r) ==
  /\ step[r] = "replying"
  /\ socket[r] = "open"
  /\ step' = [step EXCEPT ![r] = "answered"]
  /\ Finished(r)
  /\ UNCHANGED <<aborted, shared, status, ask, closes>>

\* The connection ended with the response in flight: Node may still emit
\* 'finish' for it, or not.
FlushFails(r) ==
  /\ step[r] = "replying"
  /\ socket[r] \in {"lost", "destroyed"}
  /\ step' = [step EXCEPT ![r] = "dropped"]
  /\ Finished(r) \/ UNCHANGED <<outcome, phase, socket>>
  /\ UNCHANGED <<aborted, shared, status, ask, closes>>

-----------------------------------------------------------------------------
(* info, register and unknown paths *)

Inform(r) ==
  /\ Arrives(r)
  /\ \E code \in {200, 404} : Reply(r, code)
  /\ UNCHANGED <<window, shared, socket, ask, closes>>

Register(r) ==
  /\ Arrives(r)
  /\ Await(r, "hello")
  /\ UNCHANGED <<window, shared, socket, ask, closes>>

\* The body is read, readable or not.
Registered(r) ==
  /\ step[r] = "hello"
  /\ socket[r] = "open"
  /\ Reply(r, 200)
  /\ UNCHANGED <<window, shared, socket, ask, closes>>

-----------------------------------------------------------------------------
(* prepare-upload *)

\* The part before the await: the session check and the PIN, or on to the body.
Prepare(r, pinMatches) ==
  /\ Arrives(r)
  /\ LET verdict == PrepareVerdict(pinMatches)
     IN  /\ IF verdict = GoOn THEN Await(r, "body") ELSE Reply(r, verdict)
         /\ pinAttempts' = IF verdict = 401 THEN pinAttempts + 1 ELSE pinAttempts
  /\ UNCHANGED <<window, session, received, files, socket, ask, closes>>

\* The part after it: the body offers files and becomes the session, which is
\* not looked at again.
OpenSession(r, offered) ==
  /\ step[r] = "body"
  /\ socket[r] = "open"
  /\ Admit(r, r, offered)
  /\ session' = r
  /\ received' = {}
  /\ Reply(r, 200)
  /\ UNCHANGED <<window, pinAttempts, files, socket, closes>>

\* The body offers nothing (400), is not JSON (500) or is too large (500, and
\* readJsonBody destroys the connection).
RejectBody(r) ==
  /\ step[r] = "body"
  /\ socket[r] = "open"
  /\ \/ /\ Reply(r, 400)
        /\ UNCHANGED socket
     \/ /\ Reply(r, 500)
        /\ socket' \in {socket, [socket EXCEPT ![r] = "destroyed"]}
  /\ UNCHANGED <<window, shared, ask, closes>>

-----------------------------------------------------------------------------
(* upload *)

\* The part before the await: the checks and the choice of a target, whose
\* failure is a 500, or on to writing the body.
Upload(r, sid, file, tokenMatches) ==
  /\ Arrives(r)
  /\ LET verdict == UploadVerdict(ask[r].from, sid, file, tokenMatches)
     IN  \/ /\ verdict = GoOn
            /\ Await(r, "writing")
            /\ Admit(r, sid, {file})
         \/ /\ verdict = GoOn        \* uniquePath throws
            /\ Reply(r, 500)
            /\ UNCHANGED ask
         \/ /\ verdict # GoOn
            /\ Reply(r, verdict)
            /\ UNCHANGED ask
  /\ UNCHANGED <<window, shared, socket, closes>>

\* The request's 'end': the file stream is told to flush and close.
EndBody(r) ==
  /\ step[r] = "writing"
  /\ socket[r] = "open"
  /\ Await(r, "ending")
  /\ UNCHANGED <<window, shared, socket, ask, closes>>

\* The body outgrows the declared size, which destroys the connection, or the
\* file stream fails.
WriteFails(r) ==
  /\ step[r] = "writing"
  /\ Await(r, "discarding")
  /\ socket' \in {socket, [socket EXCEPT ![r] =
                             IF socket[r] = "open" THEN "destroyed" ELSE socket[r]]}
  /\ UNCHANGED <<window, shared, ask, closes>>

\* Faulty: counts records instead of file ids.
StoredCountingRecords(r) ==
  /\ step[r] = "ending"
  /\ received' = received \cup ask[r].files
  /\ files' = files \cup {r}
  /\ closes' = [closes EXCEPT ![r] =
                  IF Cardinality(files') >= Cardinality(ask[session].files)
                  THEN "completed" ELSE "pending"]
  /\ Reply(r, 200)
  /\ UNCHANGED <<window, session, pinAttempts, socket, ask>>

\* Faulty: settles before the last answer is flushed.
StoredSettlingFirst(r) ==
  /\ step[r] = "ending"
  /\ received' = received \cup ask[r].files
  /\ files' = files \cup {r}
  /\ closes' = [closes EXCEPT ![r] =
                  IF Cardinality(received') >= Cardinality(ask[session].files)
                  THEN "completed" ELSE "pending"]
  /\ IF closes'[r] = "completed" THEN Complete("completed")
                                 ELSE UNCHANGED <<outcome, phase, socket>>
  /\ Reply(r, 200)
  /\ UNCHANGED <<aborted, session, pinAttempts, ask>>

\* Faulty: settles one file early.
StoredOneShort(r) ==
  /\ step[r] = "ending"
  /\ received' = received \cup ask[r].files
  /\ files' = files \cup {r}
  /\ closes' = [closes EXCEPT ![r] =
                  IF Cardinality(received') >= Cardinality(ask[session].files) - 1
                  THEN "completed" ELSE "pending"]
  /\ Reply(r, 200)
  /\ UNCHANGED <<window, session, pinAttempts, socket, ask>>

\* The stream is closed and the file has its final name.  The handler counts
\* it in the session of now, which need not be the one that let it in.
Stored(r) ==
  /\ step[r] = "ending"
  /\ received' = received \cup ask[r].files
  /\ files' = files \cup {r}
  /\ closes' = [closes EXCEPT ![r] =
                  IF Cardinality(received') >= Cardinality(ask[session].files)
                  THEN "completed" ELSE "pending"]
  /\ Reply(r, 200)
  /\ UNCHANGED <<window, session, pinAttempts, socket, ask>>

\* The rename fails.
StoreFails(r) ==
  /\ step[r] = "ending"
  /\ Await(r, "discarding")
  /\ UNCHANGED <<window, shared, socket, ask, closes>>

\* Faulty: the failure is answered like a success.
DiscardedQuietly(r) ==
  /\ step[r] = "discarding"
  /\ Reply(r, 200)
  /\ UNCHANGED <<window, shared, socket, ask, closes>>

\* Faulty: writeBody resolves after a failure, and the handler records the file.
DiscardedRecorded(r) ==
  /\ step[r] = "discarding"
  /\ files' = files \cup {r}
  /\ Reply(r, 200)
  /\ UNCHANGED <<window, session, received, pinAttempts, socket, ask, closes>>

\* The partial file is gone and writeBody rejects.
Discarded(r) ==
  /\ step[r] = "discarding"
  /\ Reply(r, 500)
  /\ UNCHANGED <<window, shared, socket, ask, closes>>

-----------------------------------------------------------------------------
(* cancel *)

\* Faulty: no session needed.
CancelWithoutSession(r, sid) ==
  /\ Arrives(r)
  /\ closes' = [closes EXCEPT ![r] =
                  IF sid \in {session, None} THEN "cancelled" ELSE "pending"]
  /\ Reply(r, 200)
  /\ UNCHANGED <<window, shared, socket, ask>>

\* Faulty: a cancel has no effect while a file is being written.
CancelBetweenFiles(r, sid) ==
  /\ Arrives(r)
  /\ closes' = [closes EXCEPT ![r] =
                  IF /\ session # None /\ sid \in {session, None}
                     /\ \A q \in Requests : step[q] # "writing"
                  THEN "cancelled" ELSE "pending"]
  /\ Reply(r, 200)
  /\ UNCHANGED <<window, shared, socket, ask>>

\* A missing sessionId stands for the session there is.
Cancel(r, sid) ==
  /\ Arrives(r)
  /\ closes' = [closes EXCEPT ![r] =
                  IF session # None /\ sid \in {session, None}
                  THEN "cancelled" ELSE "pending"]
  /\ Reply(r, 200)
  /\ UNCHANGED <<window, shared, socket, ask>>

-----------------------------------------------------------------------------

\* A peer may send anything that has a meaning to the handler.
AnyConnect(r) == \E a \in Addresses : ConnectFrom(r, a)
AnyPrepare(r) == \E pinMatches \in BOOLEAN : Prepare(r, pinMatches)
AnyOpening(r) == \E offered \in (SUBSET FileIds) \ {{}} : OpenSession(r, offered)
AnyUpload(r)  ==
  \E sid \in Requests \cup {None}, file \in FileIds, tokenMatches \in BOOLEAN :
    Upload(r, sid, file, tokenMatches)
AnyCancel(r)  == \E sid \in Requests \cup {None} : Cancel(r, sid)

\* What a peer does: connecting, sending, reading and going away.
Peer(r) ==
  \/ AnyConnect(r) \/ Disconnect(r)
  \/ Inform(r) \/ Register(r) \/ Registered(r)
  \/ AnyPrepare(r) \/ AnyOpening(r) \/ RejectBody(r)
  \/ AnyUpload(r) \/ EndBody(r) \/ WriteFails(r)
  \/ AnyCancel(r) \/ Flush(r)

\* What the process does by itself once no peer can hold it up.
Handler(r) ==
  \/ ReadFails(r) \/ FlushFails(r)
  \/ Stored(r) \/ StoreFails(r) \/ Discarded(r)

Window == Start \/ StartFails \/ Abort \/ TimeoutFires \/ ServerClosed

Next == Window \/ \E r \in Requests : Peer(r) \/ Handler(r)

Spec == Init /\ [][Next]_vars

-----------------------------------------------------------------------------
(* What the window promises *)

\* No session has replaced another one.
SingleSession == \A r, s \in Requests : Opened(r) /\ Opened(s) => r = s

\* "completed" means the transfer is whole: every file the session offered is
\* recorded.  It holds as long as one prepare-upload opened a session (see
\* OneSession for when that fails).
CompletedMeansAll ==
  outcome = "completed" /\ SingleSession =>
    \A f \in ask[session].files : \E r \in files : ask[r].files = {f}

\* A recorded file was offered by the session it named, and came from the
\* address that opened that session if that one is known, however sessions, uploads and connection
\* losses interleave.
RecordedBelongs ==
  \A r \in files :
    LET opener == ask[r].session
    IN  /\ opener \in Requests
        /\ Opened(opener)
        /\ ask[opener].from \in {None, ask[r].from}
        /\ ask[r].files \subseteq ask[opener].files

\* A sender that is told 200 finds its file in the result, one that is told
\* anything else does not.
AnswerMatchesRecord ==
  \A r \in Requests :
    r \in files <=> status[r] = 200 /\ ask[r].session \notin {None, r}

\* The window never cuts off the answer that completes the transfer: it was
\* flushed first, unless the peer itself went away (the comment above
\* "finished" in the upload handler).
LastAnswerFirst ==
  outcome = "completed" =>
    \E r \in Requests :
      closes[r] = "completed" /\ (step[r] = "answered" \/ socket[r] = "lost")

\* At most MaxPinAttempts guesses are answered with "wrong PIN", over all peers
\* and connections of the window.
GuessesBounded ==
  PinRequired => Cardinality({r \in Requests : status[r] = 401}) <= MaxPinAttempts

\* A peer cannot cancel a transfer that was never opened.
CancelNeedsSession ==
  outcome = "cancelled" /\ ~aborted => session # None

\* The first outcome is the outcome: timer, abort, a cancel and the last upload
\* race, and late 'finish' events arrive after the window was settled.
OutcomeStable == [][outcome # "pending" => outcome' = outcome]_vars

\* Once settled nothing new is let in: the session whose sender the result
\* names is final, and no handler starts to read a body.
SettledTakesNothingNew ==
  [][outcome # "pending" =>
       /\ session' = session
       /\ \A r \in Requests :
            step'[r] \in {"hello", "body", "writing"} => step'[r] = step[r]]_vars

-----------------------------------------------------------------------------
(* What the repository says of the window and the code does not keep *)

\* README.md: "accepts exactly one session and then shuts down".
OneSession == [][session # None => session' = session]_vars

\* ReceiveOptions.timeoutMs: "Give up if nobody sends anything within this
\* window", so a window that timed out has received nothing.
TimeoutMeansNobodySent == outcome = "timeout" => files = {}
=============================================================================
