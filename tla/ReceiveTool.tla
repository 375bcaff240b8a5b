----------------------------- MODULE ReceiveTool -----------------------------
(***************************************************************************)
(* A call of localsend_receive (src/tools/localsend-receive.ts): the window *)
(* (ReceiveServer) with the download directory behind it (UploadStore), and *)
(* what formatReceiveResult makes of its end.  A handler in writeBody takes *)
(* its steps together with the stream and the directory; the file system    *)
(* goes on by itself, also after the call has returned.                     *)
(***************************************************************************)
EXTENDS Naturals, FiniteSets

CONSTANTS
  Uploads,   \* requests that upload
  Others,    \* requests that prepare an upload
  Addresses, FileIds, MaxPinAttempts, PinRequired,
  Stems, Names, OldPaths, Sizes, MaxChunks, MaxSuffix, Rough, Old,
  Offers,    \* the sets of files a prepare-upload may offer
  None

Requests == Uploads \cup Others

ASSUME RequestsAssumption == Uploads \cap Others = {} /\ None \notin Requests
ASSUME OffersAssumption ==
  Offers \subseteq (SUBSET FileIds) \ {{}} /\ IsFiniteSet(FileIds)
ASSUME PinAssumption == MaxPinAttempts \in Nat /\ PinRequired \in BOOLEAN

VARIABLES
  \* the window, as in ReceiveServer
  phase, aborted, outcome, session, received, pinAttempts, files,
  socket, step, status, ask, closes,
  \* the directory, as in UploadStore; name and declared are what the
  \* descriptors say of the file an upload is for
  dir, data, name, declared, stage, target, fd, got, put, error,
  \* the text of the tool's result, or None while the call runs
  told

Window == INSTANCE ReceiveServer
Store  == INSTANCE UploadStore

ASSUME DirectoryAssumption ==
  /\ Names \subseteq Stems \X {0, 1}
  /\ MaxChunks \in Nat \ {0} /\ MaxSuffix \in Nat \ {0}
  /\ Sizes \subseteq Nat
  /\ OldPaths \subseteq Store!Paths
  /\ Rough \subseteq Stems
ASSUME NoneAssumption ==
  /\ None \notin Store!Paths \cup {"received"}
  /\ Old \notin Uploads \cup {None}
  /\ Uploads \cap Store!Paths = {}

window == <<phase, aborted, outcome, session, received, pinAttempts, files,
            socket, step, status, ask, closes>>
store  == <<dir, data, name, declared, stage, target, fd, got, put, error>>
vars   == <<window, store, told>>

\* Where a handler is and where its writeBody is.
InStep ==
  /\ \A u \in Uploads :
       /\ step[u] = "writing" <=> stage[u] = "reading"
       /\ step[u] = "ending" <=> stage[u] = "ending"
       /\ step[u] = "discarding" <=> stage[u] \in {"discarding", "removing"}
  /\ files = {u \in Uploads : stage[u] = "stored"}

TypeOK ==
  /\ Window!TypeOK /\ Store!TypeOK /\ InStep
  /\ told \in {"nothing arrived", "cancelled before any file", "finished without any",
               "cancelled partway", "received", None}

\* An abort that comes before or after the window listens changes nothing.
Init == Window!Init /\ ~aborted /\ Store!Init /\ told = None

-----------------------------------------------------------------------------
(* One upload: the handler with its stream *)

\* The descriptor of the file gives the name and the size, for every upload of it.
SameDescriptor(u, file) ==
  \A v \in Uploads :
    file \in ask[v].files => name[v] = name[u] /\ declared[v] = declared[u]

\* The checks, uniquePath, and writeBody up to its first await.
Upload(u, file) ==
  /\ SameDescriptor(u, file)
  /\ Window!Upload(u, session, file, TRUE)
  /\ \/ step'[u] = "writing" /\ Store!Begin(u)
     \/ status'[u] = 500 /\ Store!Refuse(u)
     \/ step'[u] # "writing" /\ UNCHANGED store

\* A chunk arrives, within the declared size or beyond it.
Data(u) ==
  /\ socket[u] = "open"
  /\ Store!Data(u)
  /\ \/ stage'[u] = "reading" /\ UNCHANGED window
     \/ stage'[u] = "discarding" /\ Window!WriteFails(u) /\ socket'[u] = "destroyed"

EndBody(u)     == Window!EndBody(u) /\ Store!End(u)
Lose(u)        == Window!ReadFails(u) /\ Store!Lose(u)
StreamError(u) == Window!WriteFails(u) /\ Store!StreamError(u) /\ socket' = socket
Stored(u)      == Window!Stored(u) /\ (Store!Store(u) \/ Store!StoreUnwritten(u))
StoreFails(u)  == Window!StoreFails(u) /\ Store!RenameFails(u)
Discarded(u)   == Window!Discarded(u) /\ Store!Remove(u)
Disk(u)        == (Store!Open(u) \/ Store!Write(u) \/ Store!Close(u)) /\ UNCHANGED window
LateError(u)   == Store!LateError(u) /\ UNCHANGED window

\* While its handler awaits the end of the stream, or its removal already.
OpenFails(u) ==
  /\ Store!OpenFails(u)
  /\ \/ stage[u] = "ending" /\ Window!StoreFails(u)
     \/ stage[u] = "discarding" /\ UNCHANGED window

-----------------------------------------------------------------------------
(* The call *)

\* Faulty: files that arrived are all that counts.
TextByFiles(result, some) ==
  CASE some                  -> "received"
    [] result = "timeout"    -> "nothing arrived"
    [] result = "cancelled"  -> "cancelled before any file"
    [] OTHER                 -> "finished without any"

\* formatReceiveResult
Text(result, some) ==
  CASE result = "timeout"   -> "nothing arrived"
    [] result = "cancelled" -> IF some THEN "cancelled partway" ELSE "cancelled before any file"
    [] OTHER                -> IF some THEN "received" ELSE "finished without any"

\* done resolves, execute formats the result as it is now and returns.
Return ==
  /\ Window!ServerClosed
  /\ told' = Text(outcome, files # {})
  /\ UNCHANGED store

Alone == UNCHANGED <<store, told>>

Begin  == (Window!Start \/ Window!StartFails) /\ Alone
Expire == Window!TimeoutFires /\ Alone
Abort  == Window!Abort /\ phase = "listening" /\ Alone

-----------------------------------------------------------------------------

\* The session's sender uploads.
Send(u) ==
  /\ (\E file \in FileIds : Upload(u, file)) \/ Data(u) \/ EndBody(u)
  /\ UNCHANGED told

\* Peers connect, to upload only once an answer named the session, and go away,
\* which changes nothing before a request and after its answer; the others
\* prepare an upload.
Talk(r) ==
  /\ \/ Window!AnyConnect(r) /\ (r \in Uploads => \E p \in Others : step[p] = "answered")
     \/ Window!Disconnect(r) /\ step[r] \notin {"idle", "answered"}
     \/ Window!Flush(r)
     \/ r \in Others /\ (Window!AnyPrepare(r) \/ Window!RejectBody(r))
     \/ r \in Others /\ \E offered \in Offers : Window!OpenSession(r, offered)
  /\ Alone

\* A handler goes on with its stream, and the file system with both.
Serve(u) ==
  /\ Lose(u) \/ Stored(u) \/ StoreFails(u) \/ Discarded(u) \/ Disk(u)
  /\ UNCHANGED told

\* The disk fails, at a time of its own.
Fault(u) ==
  /\ StreamError(u) \/ OpenFails(u) \/ LateError(u)
  /\ UNCHANGED told

\* A handler goes on by itself.
React(r) ==
  /\ Window!FlushFails(r) \/ (r \in Others /\ Window!ReadFails(r))
  /\ Alone

Next ==
  \/ Begin \/ Expire \/ Abort \/ Return
  \/ \E u \in Uploads : Send(u) \/ Serve(u) \/ Fault(u)
  \/ \E r \in Requests : Talk(r) \/ React(r)

Spec == Init /\ [][Next]_vars

\* The event loop runs and the file system answers; peers, the caller's abort
\* and the disk's errors promise nothing.  A handler has finitely many steps to
\* take, so that it is enough if some handler that can go on does.
FairSpec ==
  /\ Spec
  /\ WF_vars(Begin \/ Expire \/ Return)
  /\ WF_vars(\E u \in Uploads : Serve(u))
  /\ WF_vars(\E r \in Requests : React(r))

-----------------------------------------------------------------------------
(* What a call of localsend_receive promises *)

\* Whatever ends the window, and whenever: a file in the result is on disk
\* under the path the result gives, with all its sender sent, unless another
\* upload was given the same path (FinishedFilesKept) or its stream failed at the end.
RecordedOnDisk ==
  \A u \in files :
    (error[u] = "none" /\ \A v \in Uploads \ {u} : target[v] # target[u]) => Store!Intact(u)

\* When the user reads "Received ..." every file the session offered arrived:
\* a transfer that the timer or an abort cut off is never reported that way.
ReceivedIsWhole ==
  told = "received" /\ Window!SingleSession =>
    \A f \in ask[session].files : \E u \in files : ask[u].files = {f}

\* No upload that was cut off, by its sender, the disk or the end of the
\* window, leaves a partial file, once all that were let in are settled.
NoStrayPart ==
  (\A u \in Uploads : stage[u] # "waiting" => Store!Settled(u)) =>
    \A p \in Store!Paths :
      dir[p] \in Uploads => \E u \in files : target[u] = p

\* A listening window makes the call return, whatever its peers do.
CallReturns == phase = "listening" ~> told # None

\* An upload whose body ended or was cut off is stored or discarded, and its
\* handler returns, also when the call returned before.
UploadsSettle ==
  \A u \in Uploads :
    (stage[u] \in {"ending", "discarding", "removing"} \/ (phase = "done" /\ stage[u] = "reading"))
      ~> (Store!Settled(u) /\ step[u] \in {"replying", "answered", "dropped"})
=============================================================================
