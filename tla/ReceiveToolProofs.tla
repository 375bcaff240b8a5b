-------------------------- MODULE ReceiveToolProofs --------------------------
(***************************************************************************)
(* ReceiveTool, proved for any uploads, other requests, files, names, old  *)
(* files, sizes and disk errors.  A call is a run of the window and a run  *)
(* of the directory, so what is proved of each (ReceiveServerProofs,       *)
(* UploadStoreProofs) holds here; InStep ties the two together.            *)
(***************************************************************************)
EXTENDS ReceiveTool, TLAPS

\* The theorems about a window and about a directory, for those of this call.
WindowP == INSTANCE ReceiveServerProofs
StoreP  == INSTANCE UploadStoreProofs

LEMMA WindowAssumptions ==
  WindowP!RequestsAssumption /\ WindowP!FilesAssumption /\ WindowP!PinAssumption
  <1>1. WindowP!RequestsAssumption
    BY RequestsAssumption DEF WindowP!RequestsAssumption
  <1>2. WindowP!FilesAssumption
    BY OffersAssumption DEF WindowP!FilesAssumption, WindowP!IsFiniteSet, IsFiniteSet
  <1>3. WindowP!PinAssumption
    BY PinAssumption DEF WindowP!PinAssumption
  <1>4. QED
    BY <1>1, <1>2, <1>3

LEMMA StoreAssumptions ==
  /\ StoreP!NamesAssumption /\ StoreP!PathsAssumption /\ StoreP!BoundsAssumption
  /\ StoreP!SizesAssumption /\ StoreP!RoughAssumption
  /\ StoreP!NoneAssumption
  <1>1. Store!Paths = StoreP!Paths
    BY DEF Store!Paths, StoreP!Paths
  <1>2. None \notin Uploads
    BY RequestsAssumption DEF Requests
  <1>3. QED
    BY <1>1, <1>2, DirectoryAssumption, NoneAssumption
    DEF StoreP!NamesAssumption, StoreP!PathsAssumption, StoreP!BoundsAssumption,
        StoreP!SizesAssumption, StoreP!RoughAssumption, StoreP!NoneAssumption

-----------------------------------------------------------------------------
(* The two instances of each component say the same *)

LEMMA SameWindow ==
  /\ Window!Init <=> WindowP!Init
  /\ Window!TypeOK <=> WindowP!TypeOK
  /\ UNCHANGED window <=> UNCHANGED WindowP!vars
  /\ UNCHANGED window <=> UNCHANGED Window!vars
  BY DEF Window!Init, WindowP!Init, Window!TypeOK, WindowP!TypeOK, Window!Outcomes, WindowP!Outcomes,
    window, WindowP!vars, WindowP!window, WindowP!shared, WindowP!requests,
    Window!vars, Window!window, Window!shared, Window!requests

LEMMA SameWindowNext == Window!Next <=> WindowP!Next
  BY DEF Window!Next, Window!Window, Window!Peer, Window!Handler, Window!AnyConnect, Window!AnyPrepare,
    Window!AnyOpening, Window!AnyUpload, Window!AnyCancel, Window!Start, Window!StartFails, Window!Abort, Window!TimeoutFires,
    Window!ServerClosed, Window!ConnectFrom, Window!Disconnect, Window!ReadFails, Window!Flush, Window!FlushFails,
    Window!Inform, Window!Register, Window!Registered, Window!Prepare, Window!OpenSession, Window!RejectBody,
    Window!Upload, Window!EndBody, Window!WriteFails, Window!Stored, Window!StoreFails, Window!Discarded, Window!Cancel,
    Window!Complete, Window!Finished, Window!Reply, Window!Await, Window!Admit, Window!Arrives, Window!GoOn, Window!PrepareVerdict,
    Window!UploadVerdict, Window!window, Window!shared, Window!requests, Window!Cardinality,
    WindowP!Next, WindowP!Window, WindowP!Peer, WindowP!Handler, WindowP!AnyConnect, WindowP!AnyPrepare,
    WindowP!AnyOpening, WindowP!AnyUpload, WindowP!AnyCancel, WindowP!Start, WindowP!StartFails, WindowP!Abort, WindowP!TimeoutFires,
    WindowP!ServerClosed, WindowP!ConnectFrom, WindowP!Disconnect, WindowP!ReadFails, WindowP!Flush, WindowP!FlushFails,
    WindowP!Inform, WindowP!Register, WindowP!Registered, WindowP!Prepare, WindowP!OpenSession, WindowP!RejectBody,
    WindowP!Upload, WindowP!EndBody, WindowP!WriteFails, WindowP!Stored, WindowP!StoreFails, WindowP!Discarded, WindowP!Cancel,
    WindowP!Complete, WindowP!Finished, WindowP!Reply, WindowP!Await, WindowP!Admit, WindowP!Arrives, WindowP!GoOn, WindowP!PrepareVerdict,
    WindowP!UploadVerdict, WindowP!window, WindowP!shared, WindowP!requests, WindowP!Cardinality

LEMMA SameStore ==
  /\ Store!Init <=> StoreP!Init
  /\ Store!TypeOK <=> StoreP!TypeOK
  /\ UNCHANGED store <=> UNCHANGED StoreP!vars
  /\ UNCHANGED store <=> UNCHANGED Store!vars
  BY DEF Store!Init, StoreP!Init, Store!TypeOK, StoreP!TypeOK, store, StoreP!vars, Store!vars,
    Store!Paths, StoreP!Paths, Store!Inodes, StoreP!Inodes, Store!Chunks, StoreP!Chunks,
    Store!Empty, StoreP!Empty, Store!OldData, StoreP!OldData

LEMMA SameStoreNext == Store!Next <=> StoreP!Next
  BY DEF Store!Next, Store!Sender, Store!Stream, Store!Begin, Store!Refuse, Store!Data, Store!Lose, Store!End,
    Store!Open, Store!Write, Store!Store, Store!StoreUnwritten, Store!Rename, Store!RenameFails, Store!Close,
    Store!Remove, Store!Fault, Store!StreamError, Store!OpenFails, Store!LateError, Store!disk, Store!offer, Store!Part, Store!Candidate, Store!FreeSuffixes,
    Store!Begun, Store!Settled, Store!Empty, Store!Chunks, Store!Stem,
    StoreP!Next, StoreP!Sender, StoreP!Stream, StoreP!Begin, StoreP!Refuse, StoreP!Data, StoreP!Lose, StoreP!End,
    StoreP!Open, StoreP!Write, StoreP!Store, StoreP!StoreUnwritten, StoreP!Rename, StoreP!RenameFails, StoreP!Close,
    StoreP!Remove, StoreP!Fault, StoreP!StreamError, StoreP!OpenFails, StoreP!LateError, StoreP!disk, StoreP!offer, StoreP!Part, StoreP!Candidate, StoreP!FreeSuffixes,
    StoreP!Begun, StoreP!Settled, StoreP!Empty, StoreP!Chunks, StoreP!Stem

-----------------------------------------------------------------------------
(* A step of the call is a step of the window and a step of the directory *)

\* One upload as the window sees it: the current session's, with the right token.
LEMMA UploadOfSession ==
  ASSUME WindowP!TypeOK, NEW u \in Uploads, NEW file \in FileIds, Upload(u, file)
  PROVE  Window!AnyUpload(u)
  BY DEF Upload, Window!AnyUpload, WindowP!TypeOK

LEMMA WindowStep == WindowP!TypeOK /\ [Next]_vars => [WindowP!Next]_(WindowP!vars)
  <1> SUFFICES ASSUME WindowP!TypeOK, [Next]_vars PROVE Window!Next \/ UNCHANGED window
    BY SameWindow, SameWindowNext
  <1>1. CASE UNCHANGED vars
    BY <1>1 DEF vars
  <1>2. CASE Begin \/ Expire \/ Abort \/ Return
    BY <1>2 DEF Begin, Expire, Abort, Return, Window!Next, Window!Window
  <1>3. ASSUME NEW r \in Requests, Window!Peer(r) \/ Window!Handler(r)
        PROVE  Window!Next
    BY <1>3 DEF Window!Next
  <1>4. ASSUME NEW u \in Uploads, Send(u) \/ Serve(u) \/ Fault(u)
        PROVE  Window!Next \/ UNCHANGED window
    <2>1. u \in Requests
      BY DEF Requests
    <2>2. (\E file \in FileIds : Upload(u, file)) => Window!Peer(u)
      BY UploadOfSession DEF Window!Peer
    <2>3. Data(u) \/ EndBody(u) \/ StreamError(u) => Window!Peer(u) \/ UNCHANGED window
      BY DEF Data, EndBody, StreamError, Window!Peer
    <2>4. Serve(u) \/ OpenFails(u) \/ LateError(u) => Window!Handler(u) \/ UNCHANGED window
      BY DEF Serve, Lose, Stored, StoreFails, Discarded, Disk, OpenFails, LateError, Window!Handler
    <2>5. QED
      BY <1>3, <1>4, <2>1, <2>2, <2>3, <2>4 DEF Send, Fault
  <1>5. ASSUME NEW r \in Requests, Talk(r) \/ React(r)
        PROVE  Window!Next
    <2>1. (\E offered \in Offers : Window!OpenSession(r, offered)) => Window!AnyOpening(r)
      BY OffersAssumption DEF Window!AnyOpening
    <2>2. Talk(r) => Window!Peer(r)
      BY <2>1 DEF Talk, Window!Peer
    <2>3. React(r) => Window!Handler(r)
      BY DEF React, Window!Handler
    <2>4. QED
      BY <1>3, <1>5, <2>2, <2>3
  <1>6. QED
    BY <1>1, <1>2, <1>4, <1>5 DEF Next

LEMMA StoreStep == [Next]_vars => [StoreP!Next]_(StoreP!vars)
  <1> SUFFICES ASSUME [Next]_vars PROVE Store!Next \/ UNCHANGED store
    BY SameStore, SameStoreNext
  <1>1. CASE UNCHANGED vars
    BY <1>1 DEF vars
  <1>2. CASE Begin \/ Expire \/ Abort \/ Return
    BY <1>2 DEF Begin, Expire, Abort, Return, Alone
  <1>3. ASSUME NEW u \in Uploads, Send(u) \/ Serve(u) \/ Fault(u)
        PROVE  Store!Next \/ UNCHANGED store
    BY <1>3 DEF Send, Serve, Fault, Upload, Data, EndBody, StreamError, OpenFails, LateError, Lose, Stored,
                StoreFails, Discarded, Disk, Store!Next, Store!Sender, Store!Stream, Store!Fault
  <1>4. CASE \E r \in Requests : Talk(r) \/ React(r)
    BY <1>4 DEF Talk, React, Alone
  <1>5. QED
    BY <1>1, <1>2, <1>3, <1>4 DEF Next

-----------------------------------------------------------------------------
(* What ties the two together *)

\* The text was written after the window ended, and says "received" of a
\* completed one only.
Telling ==
  /\ told \in {"nothing arrived", "cancelled before any file", "finished without any",
               "cancelled partway", "received", None}
  /\ told = "received" => outcome = "completed"

LEMMA TellingStep == WindowP!TypeOK /\ WindowP!Settling /\ Telling /\ [Next]_vars => Telling'
  <1> SUFFICES ASSUME WindowP!TypeOK, WindowP!Settling, Telling, [Next]_vars PROVE Telling'
    OBVIOUS
  <1>1. outcome # "pending" => outcome' = outcome
    BY WindowAssumptions, WindowP!OutcomeStep, WindowStep
  <1>2. CASE Return
    <2>1. phase = "closing" /\ outcome' = outcome /\ told' = Text(outcome, files # {})
      BY <1>2 DEF Return, Window!ServerClosed
    <2>2. outcome \in {"completed", "timeout", "cancelled"}
      BY <2>1 DEF WindowP!Settling, WindowP!TypeOK, WindowP!Outcomes
    <2>3. QED
      BY <2>1, <2>2 DEF Text, Telling
  <1>3. CASE ~Return
    <2>1. told' = told
      BY <1>3 DEF Next, vars, Begin, Expire, Abort, Alone, Send, Serve, Fault, Talk, React
    <2>2. QED
      BY <1>1, <2>1 DEF Telling
  <1>4. QED
    BY <1>2, <1>3

\* InStep, for one upload.
Paired(u) ==
  /\ step[u] = "writing" <=> stage[u] = "reading"
  /\ step[u] = "ending" <=> stage[u] = "ending"
  /\ step[u] = "discarding" <=> stage[u] \in {"discarding", "removing"}
  /\ u \in files <=> stage[u] = "stored"

\* Nothing happens to an upload that keeps its step, its stage and its record.
LEMMA PairedKept ==
  ASSUME NEW v \in Uploads, Paired(v), step'[v] = step[v], stage'[v] = stage[v],
         v \in files' <=> v \in files
  PROVE  Paired(v)'
  BY DEF Paired

\* A step that leaves the directory alone moves no upload between two awaits of
\* writeBody.
Aside(v) ==
  /\ step'[v] # step[v] => {step[v], step'[v]} \cap {"writing", "ending", "discarding"} = {}
  /\ stage'[v] = stage[v]
  /\ v \in files' <=> v \in files

LEMMA PairedAside ==
  ASSUME NEW v \in Uploads, Paired(v), Aside(v)
  PROVE  Paired(v)'
  BY DEF Paired, Aside

\* Where an upload is let in or refused: with the window's Life no answer was
\* given before.
LEMMA UploadPaired ==
  ASSUME WindowP!TypeOK, WindowP!Life, StoreP!TypeOK, NEW u \in Uploads, NEW file \in FileIds,
         Upload(u, file), NEW v \in Uploads, Paired(v)
  PROVE  Paired(v)'
  <1>1. step[u] = "idle" /\ status[u] = 0 /\ files' = files
    BY DEF Upload, Window!Upload, Window!Arrives, Window!shared, WindowP!Life, WindowP!LifeOf, Requests
  <1>2. /\ \A w \in Requests \ {u} : step'[w] = step[w]
        /\ \/ step'[u] = "writing" /\ status' = status
           \/ step'[u] \in {"replying", "dropped"}
    <2>1. \/ Window!Await(u, "writing")
          \/ \E code \in {400, 403, 409, 500} : Window!Reply(u, code)
      BY DEF Upload, Window!Upload, Window!UploadVerdict, Window!GoOn
    <2>2. QED
      BY <2>1 DEF Window!Await, Window!Reply, WindowP!TypeOK, Requests
  <1>3. \/ step'[u] = "writing" /\ stage[u] = "waiting" /\ stage' = [stage EXCEPT ![u] = "reading"]
        \/ status'[u] = 500 /\ stage[u] = "waiting" /\ stage' = [stage EXCEPT ![u] = "failed"]
        \/ step'[u] # "writing" /\ stage' = stage
    BY DEF Upload, Store!Begin, Store!Refuse, store
  <1>4. CASE v # u
    BY <1>1, <1>2, <1>3, <1>4, PairedKept DEF Requests, StoreP!TypeOK
  <1>5. CASE v = u
    BY <1>1, <1>2, <1>3, <1>5 DEF Paired, StoreP!TypeOK
  <1>6. QED
    BY <1>4, <1>5

\* Every other step of writeBody moves the handler and the stream alike.
LEMMA BodyPaired ==
  ASSUME WindowP!TypeOK, StoreP!TypeOK, NEW u \in Uploads,
         \/ Data(u) \/ EndBody(u) \/ Serve(u) \/ Fault(u),
         NEW v \in Uploads, Paired(v), Paired(u)
  PROVE  Paired(v)'
  <1> USE DEF WindowP!TypeOK, StoreP!TypeOK, Requests
  <1>1. CASE \/ Data(u) \/ StreamError(u)
    <2>1. /\ files' = files /\ stage[u] = "reading"
          /\ \/ stage' = stage /\ step' = step
             \/ /\ step' = [step EXCEPT ![u] = "discarding"]
                /\ \E after \in {"discarding", "removing"} : stage' = [stage EXCEPT ![u] = after]
      BY <1>1 DEF Data, StreamError, Store!Data, Store!StreamError, Window!WriteFails, Window!Await,
                  Window!shared, window
    <2>2. QED
      BY <2>1 DEF Paired
  <1>2. CASE EndBody(u)
    <2>1. /\ files' = files /\ stage[u] = "reading"
          /\ step' = [step EXCEPT ![u] = "ending"] /\ stage' = [stage EXCEPT ![u] = "ending"]
      BY <1>2 DEF EndBody, Window!EndBody, Store!End, Window!Await, Window!shared
    <2>2. QED
      BY <2>1 DEF Paired
  <1>3. CASE Lose(u)
    <2>1. stage[u] = "reading" /\ step[u] = "writing"
      BY <1>3 DEF Lose, Store!Lose, Paired
    <2>2. /\ files' = files
          /\ step' = [step EXCEPT ![u] = "discarding"] /\ stage' = [stage EXCEPT ![u] = "discarding"]
      BY <1>3, <2>1 DEF Lose, Window!ReadFails, Store!Lose, Window!Await, Window!shared
    <2>3. QED
      BY <2>1, <2>2 DEF Paired
  <1>4. CASE Stored(u)
    <2>1. /\ files' = files \cup {u} /\ step[u] = "ending" /\ step'[u] \in {"replying", "dropped"}
          /\ \A w \in Requests \ {u} : step'[w] = step[w]
      BY <1>4 DEF Stored, Window!Stored, Window!Reply
    <2>2. stage' = [stage EXCEPT ![u] = "stored"]
      BY <1>4 DEF Stored, Store!Store, Store!StoreUnwritten, Store!Rename
    <2>3. QED
      BY <2>1, <2>2 DEF Paired
  <1>5. CASE StoreFails(u)
    <2>1. /\ files' = files /\ stage[u] = "ending"
          /\ step' = [step EXCEPT ![u] = "discarding"] /\ stage' = [stage EXCEPT ![u] = "discarding"]
      BY <1>5 DEF StoreFails, Window!StoreFails, Store!RenameFails, Window!Await, Window!shared
    <2>2. QED
      BY <2>1 DEF Paired
  <1>6. CASE Discarded(u)
    <2>1. /\ files' = files /\ stage[u] = "removing" /\ step'[u] \in {"replying", "dropped"}
          /\ \A w \in Requests \ {u} : step'[w] = step[w]
          /\ stage' = [stage EXCEPT ![u] = "failed"]
      BY <1>6 DEF Discarded, Window!Discarded, Window!Reply, Window!shared, Store!Remove
    <2>2. QED
      BY <2>1 DEF Paired
  <1>7. CASE Disk(u)
    <2>1. /\ files' = files /\ step' = step
          /\ \/ stage' = stage
             \/ stage[u] = "discarding" /\ stage' = [stage EXCEPT ![u] = "removing"]
      BY <1>7 DEF Disk, window, Store!Open, Store!Write, Store!Close
    <2>2. QED
      BY <2>1 DEF Paired
  <1>8. CASE OpenFails(u)
    <2>1. /\ files' = files /\ stage' = [stage EXCEPT ![u] = "removing"]
          /\ \/ stage[u] = "ending" /\ step' = [step EXCEPT ![u] = "discarding"]
             \/ stage[u] = "discarding" /\ step' = step
      BY <1>8 DEF OpenFails, Store!OpenFails, Window!StoreFails, Window!Await, Window!shared, window
    <2>2. QED
      BY <2>1 DEF Paired
  <1>9. CASE LateError(u)
    <2>1. UNCHANGED <<files, step, stage>>
      BY <1>9 DEF LateError, Store!LateError, window
    <2>2. QED
      BY <2>1, PairedKept
  <1>10. QED
    BY <1>1, <1>2, <1>3, <1>4, <1>5, <1>6, <1>7, <1>8, <1>9 DEF Serve, Fault

\* Whoever talks to the window beside the uploads records nothing.
LEMMA FilesAside ==
  ASSUME NEW r \in Requests, Talk(r) \/ React(r)
  PROVE  files' = files
  <1>1. /\ Window!AnyConnect(r) => files' = files
        /\ Window!Disconnect(r) => files' = files
        /\ Window!AnyPrepare(r) => files' = files
        /\ Window!RejectBody(r) => files' = files
        /\ Window!Flush(r) => files' = files
        /\ Window!FlushFails(r) => files' = files
        /\ Window!ReadFails(r) => files' = files
    BY Zenon DEF Window!AnyConnect, Window!ConnectFrom, Window!Disconnect, Window!AnyPrepare, Window!Prepare,
      Window!RejectBody, Window!Flush, Window!FlushFails, Window!ReadFails, Window!shared
  <1>2. (\E offered \in Offers : Window!OpenSession(r, offered)) => files' = files
    BY Zenon DEF Window!OpenSession
  <1>3. QED
    BY <1>1, <1>2 DEF Talk, React

\* Whoever talks to the window beside them leaves the uploads in their streams.
LEMMA OthersAside ==
  ASSUME WindowP!TypeOK, NEW r \in Requests, Talk(r) \/ React(r), NEW v \in Uploads
  PROVE  Aside(v)
  <1> USE DEF WindowP!TypeOK, Requests, Aside
  <1>1. stage' = stage /\ files' = files
    BY FilesAside DEF Talk, React, Alone, store
  <1>2. CASE Window!AnyConnect(r) \/ Window!Disconnect(r)
    BY <1>1, <1>2 DEF Window!AnyConnect, Window!ConnectFrom, Window!Disconnect
  <1>3. CASE Window!Flush(r) \/ Window!FlushFails(r)
    BY <1>1, <1>3 DEF Window!Flush, Window!FlushFails
  <1>4. CASE r \in Others
    <2>1. r # v
      BY <1>4, RequestsAssumption
    <2>2. CASE Talk(r)
      BY <1>1, <1>2, <1>3, <2>1, <2>2 DEF Talk, Window!AnyPrepare, Window!Prepare, Window!RejectBody, Window!OpenSession,
        Window!Await, Window!Reply
    <2>3. CASE React(r)
      BY <1>1, <1>3, <2>1, <2>3 DEF React, Window!ReadFails, Window!Await, Window!Reply
    <2>4. QED
      BY <2>2, <2>3
  <1>5. QED
    BY <1>2, <1>3, <1>4 DEF Talk, React

\* Only an upload is recorded.
LEMMA FilesStep == files \subseteq Uploads /\ [Next]_vars => files' \subseteq Uploads
  <1> SUFFICES ASSUME files \subseteq Uploads, [Next]_vars PROVE files' \subseteq Uploads
    OBVIOUS
  <1>1. CASE UNCHANGED vars
    BY <1>1 DEF vars, window
  <1>2. CASE Begin \/ Expire \/ Abort \/ Return
    BY <1>2 DEF Begin, Expire, Abort, Return, Window!Start, Window!StartFails, Window!TimeoutFires,
      Window!Abort, Window!ServerClosed, Window!shared
  <1>3. ASSUME NEW u \in Uploads, Stored(u)
        PROVE  files' \subseteq Uploads
    BY <1>3 DEF Stored, Window!Stored
  <1>4. ASSUME NEW u \in Uploads, ~Stored(u), Send(u) \/ Serve(u) \/ Fault(u)
        PROVE  files' = files
    <2>1. ASSUME NEW file \in FileIds, Upload(u, file)
          PROVE  files' = files
      BY <2>1, Zenon DEF Upload, Window!Upload, Window!shared
    <2>2. /\ Window!WriteFails(u) => files' = files
          /\ Window!EndBody(u) => files' = files
          /\ Window!ReadFails(u) => files' = files
          /\ Window!StoreFails(u) => files' = files
          /\ Window!Discarded(u) => files' = files
          /\ UNCHANGED window => files' = files
      BY Zenon DEF Window!WriteFails, Window!EndBody, Window!ReadFails, Window!StoreFails, Window!Discarded,
        Window!shared, window
    <2>3. QED
      BY <1>4, <2>1, <2>2, Zenon DEF Send, Serve, Fault, Data, EndBody, StreamError, OpenFails, LateError, Lose,
        StoreFails, Discarded, Disk
  <1>5. ASSUME NEW r \in Requests, Talk(r) \/ React(r)
        PROVE  files' = files
    BY <1>5, FilesAside
  <1>6. QED
    BY <1>1, <1>2, <1>3, <1>4, <1>5 DEF Next

LEMMA InStepStep ==
  WindowP!TypeOK /\ WindowP!Life /\ StoreP!TypeOK /\ InStep /\ [Next]_vars => InStep'
  <1>0. files \subseteq Uploads /\ [Next]_vars => files' \subseteq Uploads
    BY FilesStep
  <1> SUFFICES ASSUME WindowP!TypeOK, WindowP!Life, StoreP!TypeOK, InStep, [Next]_vars, NEW v \in Uploads
               PROVE  Paired(v)'
    BY <1>0 DEF InStep, Paired
  <1>1. files \subseteq Uploads /\ \A u \in Uploads : Paired(u)
    BY DEF InStep, Paired
  <1>2. CASE UNCHANGED vars
    BY <1>1, <1>2, PairedKept DEF vars, window, store
  <1>3. CASE Begin \/ Expire \/ Abort \/ Return
    <2>1. UNCHANGED <<step, files, stage>>
      BY <1>3 DEF Begin, Expire, Abort, Return, Alone, store, Window!Start, Window!StartFails, Window!TimeoutFires,
        Window!Abort, Window!ServerClosed, Window!shared, Window!requests
    <2>2. QED
      BY <1>1, <2>1, PairedKept
  <1>4. ASSUME NEW u \in Uploads, Send(u) \/ Serve(u) \/ Fault(u)
        PROVE  Paired(v)'
    BY <1>1, <1>4, UploadPaired, BodyPaired DEF Send
  <1>5. ASSUME NEW r \in Requests, Talk(r) \/ React(r)
        PROVE  Paired(v)'
    BY <1>1, <1>5, OthersAside, PairedAside
  <1>6. QED
    BY <1>2, <1>3, <1>4, <1>5 DEF Next

-----------------------------------------------------------------------------
(* The inductive invariant, and what follows from it *)

Inv == WindowP!Inv /\ StoreP!Types /\ StoreP!Accounted /\ InStep /\ Telling

LEMMA InvInit == Init => Inv
  <1> SUFFICES ASSUME Init PROVE Inv
    OBVIOUS
  <1>1. WindowP!Init /\ StoreP!Init
    BY SameWindow, SameStore DEF Init
  <1>2. WindowP!Inv
    BY <1>1, WindowAssumptions, WindowP!InvInit
  <1>3. StoreP!Types /\ StoreP!Accounted
    BY <1>1, StoreAssumptions, StoreP!TypesInit, StoreP!AccountedInit
  <1>4. InStep
    BY <1>1 DEF WindowP!Init, StoreP!Init, InStep, Requests
  <1>5. Telling
    <2>1. told = None /\ outcome = "pending"
      BY <1>1 DEF Init, WindowP!Init
    <2>2. QED
      BY <2>1, NoneAssumption DEF Telling
  <1>6. QED
    BY <1>2, <1>3, <1>4, <1>5 DEF Inv

LEMMA InvStep == Inv /\ [Next]_vars => Inv'
  <1> SUFFICES ASSUME Inv, [Next]_vars PROVE Inv'
    OBVIOUS
  <1>1. /\ WindowP!Inv /\ WindowP!TypeOK /\ WindowP!Life /\ WindowP!Settling
        /\ StoreP!Types /\ StoreP!TypeOK /\ StoreP!Accounted /\ InStep /\ Telling
    BY DEF Inv, WindowP!Inv, StoreP!Types
  <1>2. [WindowP!Next]_(WindowP!vars) /\ [StoreP!Next]_(StoreP!vars)
    BY <1>1, WindowStep, StoreStep
  <1>3. WindowP!Inv'
    BY <1>1, <1>2, WindowAssumptions, WindowP!InvStep
  <1>4. StoreP!Types' /\ StoreP!Accounted'
    BY <1>1, <1>2, StoreAssumptions, StoreP!TypesStep, StoreP!AccountedStep
  <1>5. InStep' /\ Telling'
    BY <1>1, InStepStep, TellingStep
  <1>6. QED
    BY <1>3, <1>4, <1>5 DEF Inv

LEMMA InvHolds == Spec => []Inv
  BY InvInit, InvStep, PTL DEF Spec

\* A call of localsend_receive is a window with a directory behind it: nothing
\* the two do together is beyond what each does alone.
THEOREM CallIsWindowAndStore == Spec => Window!Spec /\ Store!Spec
  <1>1. Inv => WindowP!TypeOK
    BY DEF Inv, WindowP!Inv
  <1>2. Inv /\ [Next]_vars => [Window!Next]_(Window!vars)
    BY <1>1, WindowStep, SameWindow, SameWindowNext
  <1>3. [Next]_vars => [Store!Next]_(Store!vars)
    BY StoreStep, SameStore, SameStoreNext
  <1>4. QED
    BY <1>2, <1>3, InvHolds, PTL DEF Spec, Init, Window!Spec, Store!Spec

\* Types, and writeBody is where its handler waits for it: a file is in the
\* result exactly if it is stored.
THEOREM ToolTypes == Spec => []TypeOK
  <1>1. Inv => TypeOK
    BY SameWindow, SameStore DEF Inv, WindowP!Inv, StoreP!Types, TypeOK, Telling
  <1>2. QED
    BY <1>1, InvHolds, PTL

\* A user who reads "Received ..." of a single session has every file it offered.
THEOREM ReceivedWhole == Spec => []ReceivedIsWhole
  <1>1. Inv /\ told = "received" /\ Window!SingleSession =>
          \A f \in ask[session].files : \E u \in files : ask[u].files = {f}
    <2> SUFFICES ASSUME Inv, told = "received", Window!SingleSession
                 PROVE  \A f \in ask[session].files : \E u \in files : ask[u].files = {f}
      OBVIOUS
    <2>1. outcome = "completed" /\ WindowP!Counting
      BY DEF Inv, WindowP!Inv, Telling
    <2>2. WindowP!SingleSession
      BY DEF Window!SingleSession, Window!Opened, WindowP!SingleSession, WindowP!Opened
    <2>3. QED
      BY <2>1, <2>2 DEF WindowP!Counting, WindowP!HasAll
  <1>2. Inv => ReceivedIsWhole
    BY <1>1 DEF ReceivedIsWhole
  <1>3. QED
    BY <1>2, InvHolds, PTL

\* Whatever cut an upload off, it leaves no partial file behind: what is left of
\* all uploads are the files of the result.
THEOREM NoPartIsLeft == Spec => []NoStrayPart
  <1>1. Inv => NoStrayPart
    <2> SUFFICES ASSUME Inv, \A u \in Uploads : stage[u] # "waiting" => Store!Settled(u),
                        NEW p \in Store!Paths, dir[p] \in Uploads
                 PROVE  \E u \in files : target[u] = p
      BY DEF NoStrayPart
    <2>1. p \in StoreP!Paths
      BY DEF Store!Paths, StoreP!Paths
    <2>2. PICK u \in Uploads :
             \/ stage[u] = "stored" /\ target[u] = p
             \/ StoreP!Responsible(u)
      BY <2>1 DEF Inv, StoreP!Accounted
    <2>3. stage[u] = "stored" /\ target[u] = p
      BY <2>2 DEF StoreP!Responsible, Store!Settled
    <2>4. QED
      BY <2>3 DEF Inv, InStep
  <1>2. QED
    BY <1>1, InvHolds, PTL

\* Where no name ends in ".part": a file in the result that has its path to
\* itself is on disk with all its sender sent, whatever ended the window and
\* whenever, unless its own stream failed at the end.
THEOREM RecordedIsOnDisk ==
  ASSUME \A n \in Names : n[2] = 0
  PROVE  Spec => []RecordedOnDisk
  <1>1. StoreP!Plain
    BY DEF StoreP!Plain
  <1> DEFINE Disks == StoreP!Linked /\ StoreP!SoleKept
  <1>2. Init => Disks
    BY SameStore, StoreAssumptions, StoreP!LinkedInit DEF Init, StoreP!Init, StoreP!SoleKept, StoreP!Sole
  <1>3. Disks /\ [Next]_vars => Disks'
    BY <1>1, StoreStep, StoreAssumptions, StoreP!LinkedStep, StoreP!SoleStep
  <1>4. Inv /\ Disks => RecordedOnDisk
    <2> SUFFICES ASSUME Inv, Disks, NEW u \in files, error[u] = "none",
                        \A v \in Uploads \ {u} : target[v] # target[u]
                 PROVE  Store!Intact(u)
      BY DEF RecordedOnDisk
    <2>1. u \in Uploads /\ stage[u] = "stored"
      BY DEF Inv, InStep
    <2>2. StoreP!Sole(u)
      BY <2>1 DEF Inv, StoreP!Types, StoreP!Targets, StoreP!Sole
    <2>3. StoreP!Intact(u)
      BY <2>1, <2>2 DEF StoreP!SoleKept, StoreP!Keeps
    <2>4. QED
      BY <2>3 DEF StoreP!Intact, Store!Intact, Store!Body, StoreP!Body, Store!Chunks, StoreP!Chunks
  <1> HIDE DEF Disks
  <1>5. Spec => []Disks
    BY <1>2, <1>3, PTL DEF Spec
  <1>6. QED
    BY <1>4, <1>5, InvHolds, PTL
=============================================================================
