------------------------ MODULE ReceiveServerProofs ------------------------
(***************************************************************************)
(* What holds of a receive window for any number of requests, addresses    *)
(* and files, any PIN limit, with and without a PIN.                       *)
(***************************************************************************)
EXTENDS ReceiveServer, FiniteSetTheorems, TLAPS

\* The types survive every step.
LEMMA TypeStep == TypeOK /\ [Next]_vars => TypeOK'
  <1> SUFFICES ASSUME TypeOK, [Next]_vars PROVE TypeOK'
    OBVIOUS
  <1> USE RequestsAssumption, PinAssumption DEF TypeOK, Outcomes
  <1>1. CASE Window
    <2>1. CASE Start
      BY <2>1 DEF Start, shared, requests
    <2>2. CASE StartFails
      BY <2>2 DEF StartFails, shared, requests
    <2>3. CASE Abort
      BY <2>3 DEF Abort, Complete, shared
    <2>4. CASE TimeoutFires
      BY <2>4 DEF TimeoutFires, Complete, shared
    <2>5. CASE ServerClosed
      BY <2>5 DEF ServerClosed, shared, requests
    <2>6. QED
      BY <1>1, <2>1, <2>2, <2>3, <2>4, <2>5 DEF Window
  <1>2. ASSUME NEW r \in Requests, Peer(r) PROVE TypeOK'
    <2>1. CASE AnyConnect(r)
      BY <2>1 DEF AnyConnect, ConnectFrom, window, shared
    <2>2. CASE Disconnect(r)
      BY <2>2 DEF Disconnect, window, shared
    <2>3. CASE Inform(r)
      BY <2>3 DEF Inform, Reply, window, shared
    <2>4. CASE Register(r)
      BY <2>4 DEF Register, Await, window, shared
    <2>5. CASE Registered(r)
      BY <2>5 DEF Registered, Reply, window, shared
    <2>6. CASE AnyPrepare(r)
      BY <2>6 DEF AnyPrepare, Prepare, PrepareVerdict, GoOn, Await, Reply, window
    <2>7. CASE AnyOpening(r)
      BY <2>7 DEF AnyOpening, OpenSession, Admit, Reply, window
    <2>8. CASE RejectBody(r)
      BY <2>8 DEF RejectBody, Reply, window, shared
    <2>9. CASE AnyUpload(r)
      BY <2>9 DEF AnyUpload, Upload, UploadVerdict, Admit, GoOn, Await, Reply, window, shared
    <2>10. CASE EndBody(r)
      BY <2>10 DEF EndBody, Await, window, shared
    <2>11. CASE WriteFails(r)
      BY <2>11 DEF WriteFails, Await, window, shared
    <2>12. CASE AnyCancel(r)
      BY <2>12 DEF AnyCancel, Cancel, Reply, window, shared
    <2>13. CASE Flush(r)
      BY <2>13 DEF Flush, Finished, Complete, shared
    <2>14. QED
      BY <1>2, <2>1, <2>2, <2>3, <2>4, <2>5, <2>6, <2>7, <2>8, <2>9,
         <2>10, <2>11, <2>12, <2>13 DEF Peer
  <1>3. ASSUME NEW r \in Requests, Handler(r) PROVE TypeOK'
    <2>1. CASE ReadFails(r)
      BY <2>1 DEF ReadFails, Await, Reply, window, shared
    <2>2. CASE FlushFails(r)
      BY <2>2 DEF FlushFails, Finished, Complete, shared
    <2>3. CASE Stored(r)
      BY <2>3 DEF Stored, Reply, window
    <2>4. CASE StoreFails(r)
      BY <2>4 DEF StoreFails, Await, window, shared
    <2>5. CASE Discarded(r)
      BY <2>5 DEF Discarded, Reply, window, shared
    <2>6. QED
      BY <1>3, <2>1, <2>2, <2>3, <2>4, <2>5 DEF Handler
  <1>4. CASE UNCHANGED vars
    BY <1>4 DEF vars, window, shared, requests
  <1>5. QED
    BY <1>1, <1>2, <1>3, <1>4 DEF Next

\* Every variable of the window keeps its type.
THEOREM TypeCorrect == Spec => []TypeOK
  <1>1. Init => TypeOK
    BY DEF Init, TypeOK
  <1>2. QED
    BY <1>1, TypeStep, PTL DEF Spec

-----------------------------------------------------------------------------
(* The life of a request: what its handler has not done yet, it has not done *)

\* Before it is answered a request has no status, reports no outcome and is not
\* recorded; before it is let in it names no session; an upload names another
\* request's session.
LifeOf(r) ==
  /\ socket[r] = "none" => step[r] = "idle"
  /\ step[r] \in {"idle", "hello", "body"} => ask[r].session = None
  /\ step[r] \in {"writing", "ending", "discarding"} => ask[r].session \notin {None, r}
  /\ step[r] \in {"idle", "hello", "body", "writing", "ending", "discarding"} =>
       status[r] = 0 /\ closes[r] = "pending"
  /\ r \in files <=> status[r] = 200 /\ ask[r].session \notin {None, r}

Life == \A r \in Requests : LifeOf(r)

\* The shared session is one that was opened; no session, no answer opened one.
SessionOpened ==
  /\ session # None => session \in Requests /\ Opened(session)
  /\ \A r \in Requests : Opened(r) => session # None

LEMMA LifeStep == TypeOK /\ Life /\ SessionOpened /\ [Next]_vars => Life' /\ SessionOpened'
  <1> SUFFICES ASSUME TypeOK, Life, SessionOpened, [Next]_vars
               PROVE Life' /\ SessionOpened'
    OBVIOUS
  <1> USE RequestsAssumption DEF TypeOK, Life, LifeOf, SessionOpened, Opened
  <1>1. CASE Window
    BY <1>1 DEF Window, Start, StartFails, Abort, TimeoutFires, ServerClosed,
                Complete, shared, requests
  <1>2. ASSUME NEW r \in Requests, Peer(r) PROVE Life' /\ SessionOpened'
    <2>1. CASE AnyConnect(r)
      BY <2>1 DEF AnyConnect, ConnectFrom, window, shared
    <2>2. CASE Disconnect(r)
      BY <2>2 DEF Disconnect, window, shared
    <2>3. CASE Inform(r)
      BY <2>3 DEF Inform, Arrives, Reply, window, shared
    <2>4. CASE Register(r)
      BY <2>4 DEF Register, Arrives, Await, window, shared
    <2>5. CASE Registered(r)
      BY <2>5 DEF Registered, Reply, window, shared
    <2>6. CASE AnyPrepare(r)
      BY <2>6 DEF AnyPrepare, Prepare, PrepareVerdict, GoOn, Arrives, Await, Reply, window
    <2>7. CASE AnyOpening(r)
      BY <2>7 DEF AnyOpening, OpenSession, Admit, Reply, window
    <2>8. CASE RejectBody(r)
      BY <2>8 DEF RejectBody, Reply, window, shared
    <2>9. CASE AnyUpload(r)
      BY <2>9 DEF AnyUpload, Upload, UploadVerdict, GoOn, Arrives, Admit, Await, Reply,
                  window, shared
    <2>10. CASE EndBody(r)
      BY <2>10 DEF EndBody, Await, window, shared
    <2>11. CASE WriteFails(r)
      BY <2>11 DEF WriteFails, Await, window, shared
    <2>12. CASE AnyCancel(r)
      BY <2>12 DEF AnyCancel, Cancel, Arrives, Reply, window, shared
    <2>13. CASE Flush(r)
      BY <2>13 DEF Flush, Finished, Complete, shared
    <2>14. QED
      BY <1>2, <2>1, <2>2, <2>3, <2>4, <2>5, <2>6, <2>7, <2>8, <2>9,
         <2>10, <2>11, <2>12, <2>13 DEF Peer
  <1>3. ASSUME NEW r \in Requests, Handler(r) PROVE Life' /\ SessionOpened'
    <2>1. CASE ReadFails(r)
      BY <2>1 DEF ReadFails, Await, Reply, window, shared
    <2>2. CASE FlushFails(r)
      BY <2>2 DEF FlushFails, Finished, Complete, shared
    <2>3. CASE Stored(r)
      BY <2>3 DEF Stored, Reply, window
    <2>4. CASE StoreFails(r)
      BY <2>4 DEF StoreFails, Await, window, shared
    <2>5. CASE Discarded(r)
      BY <2>5 DEF Discarded, Reply, window, shared
    <2>6. QED
      BY <1>3, <2>1, <2>2, <2>3, <2>4, <2>5 DEF Handler
  <1>4. CASE UNCHANGED vars
    BY <1>4 DEF vars, window, shared, requests
  <1>5. QED
    BY <1>1, <1>2, <1>3, <1>4 DEF Next

-----------------------------------------------------------------------------
(* Settling: connections live exactly as long as the window listens *)

Settling ==
  /\ outcome = "pending" <=> phase \in {"starting", "failed", "listening"}
  /\ phase # "listening" => \A r \in Requests : socket[r] # "open"

LEMMA SettlingStep == TypeOK /\ Settling /\ [Next]_vars => Settling'
  <1> SUFFICES ASSUME TypeOK, Settling, [Next]_vars
               PROVE  Settling'
    OBVIOUS
  <1> USE DEF TypeOK, Outcomes, Settling
  <1>1. CASE Window
    BY <1>1 DEF Window, Start, StartFails, Abort, TimeoutFires, ServerClosed,
                Complete, shared, requests
  <1>2. ASSUME NEW r \in Requests, Peer(r) PROVE Settling'
    <2>1. CASE AnyConnect(r)
      BY <2>1 DEF AnyConnect, ConnectFrom, window, shared
    <2>2. CASE Disconnect(r)
      BY <2>2 DEF Disconnect, window, shared
    <2>3. CASE Inform(r)
      BY <2>3 DEF Inform, Arrives, Reply, window, shared
    <2>4. CASE Register(r)
      BY <2>4 DEF Register, Arrives, Await, window, shared
    <2>5. CASE Registered(r)
      BY <2>5 DEF Registered, Reply, window, shared
    <2>6. CASE AnyPrepare(r)
      BY <2>6 DEF AnyPrepare, Prepare, PrepareVerdict, GoOn, Arrives, Await, Reply, window
    <2>7. CASE AnyOpening(r)
      BY <2>7 DEF AnyOpening, OpenSession, Admit, Reply, window
    <2>8. CASE RejectBody(r)
      BY <2>8 DEF RejectBody, Reply, window, shared
    <2>9. CASE AnyUpload(r)
      BY <2>9 DEF AnyUpload, Upload, UploadVerdict, GoOn, Arrives, Admit, Await, Reply,
              window, shared
    <2>10. CASE EndBody(r)
      BY <2>10 DEF EndBody, Await, window, shared
    <2>11. CASE WriteFails(r)
      BY <2>11 DEF WriteFails, Await, window, shared
    <2>12. CASE AnyCancel(r)
      BY <2>12 DEF AnyCancel, Cancel, Arrives, Reply, window, shared
    <2>13. CASE Flush(r)
      BY <2>13 DEF Flush, Finished, Complete, shared
    <2>14. QED
      BY <1>2, <2>1, <2>2, <2>3, <2>4, <2>5, <2>6, <2>7, <2>8, <2>9,
         <2>10, <2>11, <2>12, <2>13 DEF Peer
  <1>3. ASSUME NEW r \in Requests, Handler(r) PROVE Settling'
    <2>1. CASE ReadFails(r)
      BY <2>1 DEF ReadFails, Await, Reply, window, shared
    <2>2. CASE FlushFails(r)
      BY <2>2 DEF FlushFails, Finished, Complete, shared
    <2>3. CASE Stored(r)
      BY <2>3 DEF Stored, Reply, window
    <2>4. CASE StoreFails(r)
      BY <2>4 DEF StoreFails, Await, window, shared
    <2>5. CASE Discarded(r)
      BY <2>5 DEF Discarded, Reply, window, shared
    <2>6. QED
      BY <1>3, <2>1, <2>2, <2>3, <2>4, <2>5 DEF Handler
  <1>4. CASE UNCHANGED vars
    BY <1>4 DEF vars, window, shared, requests
  <1>5. QED
    BY <1>1, <1>2, <1>3, <1>4 DEF Next

-----------------------------------------------------------------------------
(* Where recorded uploads come from *)

\* An upload that was let in belongs to the session it named.
Belongs(r) ==
  /\ ask[r].session \in Requests
  /\ Opened(ask[r].session)
  /\ ask[ask[r].session].from \in {None, ask[r].from}
  /\ \E f \in ask[ask[r].session].files : ask[r].files = {f}

Belonging ==
  \A r \in Requests : step[r] \in {"writing", "ending"} \/ r \in files => Belongs(r)

\* An upload is let in without an early return or answered and forgotten.
UploadTaken(r, sid, file, tokenMatches) ==
  \/ /\ UploadVerdict(ask[r].from, sid, file, tokenMatches) = GoOn
     /\ Await(r, "writing")
     /\ Admit(r, sid, {file})
  \/ /\ UNCHANGED ask
     /\ \E code \in Nat : Reply(r, code)

LEMMA UploadCases ==
  ASSUME NEW r \in Requests, AnyUpload(r)
  PROVE  \E sid \in Requests \cup {None}, file \in FileIds, tokenMatches \in BOOLEAN :
           UploadTaken(r, sid, file, tokenMatches)
  <1>1. ASSUME NEW sid, NEW file, NEW tokenMatches
        PROVE  UploadVerdict(ask[r].from, sid, file, tokenMatches) \in Nat
    BY DEF UploadVerdict, GoOn
  <1>2. QED
    BY <1>1 DEF AnyUpload, Upload, UploadTaken, Await, Reply, Admit

LEMMA BelongingStep == TypeOK /\ Life /\ SessionOpened /\ Belonging /\ [Next]_vars => Belonging'
  <1> SUFFICES ASSUME TypeOK, Life, SessionOpened, Belonging, [Next]_vars
               PROVE  Belonging'
    OBVIOUS
  <1> USE RequestsAssumption DEF TypeOK, Life, LifeOf, SessionOpened, Opened, Belonging, Belongs
  <1>1. CASE Window
    BY <1>1 DEF Window, Start, StartFails, Abort, TimeoutFires, ServerClosed,
                Complete, shared, requests
  <1>2. ASSUME NEW r \in Requests, Peer(r) PROVE Belonging'
    <2>1. CASE AnyConnect(r)
      BY <2>1 DEF AnyConnect, ConnectFrom, window, shared
    <2>2. CASE Disconnect(r)
      BY <2>2 DEF Disconnect, window, shared
    <2>3. CASE Inform(r)
      BY <2>3 DEF Inform, Arrives, Reply, window, shared
    <2>4. CASE Register(r)
      BY <2>4 DEF Register, Arrives, Await, window, shared
    <2>5. CASE Registered(r)
      BY <2>5 DEF Registered, Reply, window, shared
    <2>6. CASE AnyPrepare(r)
      BY <2>6 DEF AnyPrepare, Prepare, PrepareVerdict, GoOn, Arrives, Await, Reply, window
    <2>7. CASE AnyOpening(r)
      BY <2>7 DEF AnyOpening, OpenSession, Admit, Reply, window
    <2>8. CASE RejectBody(r)
      BY <2>8 DEF RejectBody, Reply, window, shared
    <2>9. CASE AnyUpload(r)
      <3>1. PICK sid \in Requests \cup {None}, file \in FileIds, token \in BOOLEAN :
              UploadTaken(r, sid, file, token)
        BY <2>9, UploadCases
      <3>2. step[r] = "idle" /\ UNCHANGED <<files, session>>
        BY <2>9 DEF AnyUpload, Upload, Arrives, shared
      <3>3. CASE UploadVerdict(ask[r].from, sid, file, token) = GoOn
                  /\ Await(r, "writing") /\ Admit(r, sid, {file})
        <4>1. sid = session /\ sid # None /\ ask[sid].from \in {None, ask[r].from}
                            /\ file \in ask[sid].files
          BY <3>3 DEF UploadVerdict, GoOn
        <4>2. sid \in Requests /\ sid # r /\ Opened(sid)
          BY <4>1, <3>2
        <4>3. ask'[r] = [from |-> ask[r].from, session |-> sid, files |-> {file}]
              /\ \A q \in Requests \ {r} : ask'[q] = ask[q] /\ step'[q] = step[q]
          BY <3>3 DEF Admit, Await
        <4>4. Belongs(r)'
          BY <4>1, <4>2, <4>3
        <4>5. ASSUME NEW q \in Requests \ {r}, step'[q] \in {"writing", "ending"} \/ q \in files'
              PROVE  Belongs(q)'
          <5>1. Belongs(q)
            BY <4>3, <4>5, <3>2
          <5>2. ask[q].session # r
            BY <5>1, <3>2
          <5>3. QED
            BY <5>1, <5>2, <4>3
        <4>6. \A q \in Requests :
                step'[q] \in {"writing", "ending"} \/ q \in files' => Belongs(q)'
          <5> HIDE DEF Belongs
          <5> QED
            BY <4>4, <4>5
        <4>7. QED
          BY <4>6
      <3>4. CASE UNCHANGED ask /\ \E code \in Nat : Reply(r, code)
        BY <3>2, <3>4 DEF Reply
      <3>5. QED
        BY <3>1, <3>3, <3>4 DEF UploadTaken
    <2>10. CASE EndBody(r)
      BY <2>10 DEF EndBody, Await, window, shared
    <2>11. CASE WriteFails(r)
      BY <2>11 DEF WriteFails, Await, window, shared
    <2>12. CASE AnyCancel(r)
      BY <2>12 DEF AnyCancel, Cancel, Arrives, Reply, window, shared
    <2>13. CASE Flush(r)
      BY <2>13 DEF Flush, Finished, Complete, shared
    <2>14. QED
      BY <1>2, <2>1, <2>2, <2>3, <2>4, <2>5, <2>6, <2>7, <2>8, <2>9,
         <2>10, <2>11, <2>12, <2>13 DEF Peer
  <1>3. ASSUME NEW r \in Requests, Handler(r) PROVE Belonging'
    <2>1. CASE ReadFails(r)
      BY <2>1 DEF ReadFails, Await, Reply, window, shared
    <2>2. CASE FlushFails(r)
      BY <2>2 DEF FlushFails, Finished, Complete, shared
    <2>3. CASE Stored(r)
      BY <2>3 DEF Stored, Reply, window
    <2>4. CASE StoreFails(r)
      BY <2>4 DEF StoreFails, Await, window, shared
    <2>5. CASE Discarded(r)
      BY <2>5 DEF Discarded, Reply, window, shared
    <2>6. QED
      BY <1>3, <2>1, <2>2, <2>3, <2>4, <2>5 DEF Handler
  <1>4. CASE UNCHANGED vars
    BY <1>4 DEF vars, window, shared, requests
  <1>5. QED
    BY <1>1, <1>2, <1>3, <1>4 DEF Next

-----------------------------------------------------------------------------
(* The PIN counter *)

WrongPins == {r \in Requests : status[r] = 401}

SameGuesses == WrongPins' = WrongPins /\ pinAttempts' = pinAttempts

Guesses ==
  /\ IsFiniteSet(WrongPins)
  /\ Cardinality(WrongPins) = pinAttempts
  /\ PinRequired => pinAttempts <= MaxPinAttempts

\* Only prepare-upload touches the counter or answers 401.
LEMMA GuessesKept ==
  TypeOK /\ Life /\ [Next]_vars => SameGuesses \/ \E r \in Requests : AnyPrepare(r)
  <1> SUFFICES ASSUME TypeOK, Life, [Next]_vars
               PROVE  SameGuesses \/ \E r \in Requests : AnyPrepare(r)
    OBVIOUS
  <1> USE DEF TypeOK, Life, LifeOf, WrongPins, SameGuesses
  <1>1. CASE Window
    BY <1>1 DEF Window, Start, StartFails, Abort, TimeoutFires, ServerClosed,
                Complete, shared, requests
  <1>2. ASSUME NEW r \in Requests, Peer(r) PROVE SameGuesses \/ AnyPrepare(r)
    <2>1. CASE AnyConnect(r)
      BY <2>1 DEF AnyConnect, ConnectFrom, window, shared
    <2>2. CASE Disconnect(r)
      BY <2>2 DEF Disconnect, window, shared
    <2>3. CASE Inform(r)
      BY <2>3 DEF Inform, Arrives, Reply, window, shared
    <2>4. CASE Register(r)
      BY <2>4 DEF Register, Arrives, Await, window, shared
    <2>5. CASE Registered(r)
      BY <2>5 DEF Registered, Reply, window, shared
    <2>6. CASE AnyPrepare(r)
      BY <2>6
    <2>7. CASE AnyOpening(r)
      BY <2>7 DEF AnyOpening, OpenSession, Admit, Reply, window
    <2>8. CASE RejectBody(r)
      BY <2>8 DEF RejectBody, Reply, window, shared
    <2>9. CASE AnyUpload(r)
      BY <2>9 DEF AnyUpload, Upload, UploadVerdict, GoOn, Arrives, Admit, Await, Reply,
              window, shared
    <2>10. CASE EndBody(r)
      BY <2>10 DEF EndBody, Await, window, shared
    <2>11. CASE WriteFails(r)
      BY <2>11 DEF WriteFails, Await, window, shared
    <2>12. CASE AnyCancel(r)
      BY <2>12 DEF AnyCancel, Cancel, Arrives, Reply, window, shared
    <2>13. CASE Flush(r)
      BY <2>13 DEF Flush, Finished, Complete, shared
    <2>14. QED
      BY <1>2, <2>1, <2>2, <2>3, <2>4, <2>5, <2>6, <2>7, <2>8, <2>9,
         <2>10, <2>11, <2>12, <2>13 DEF Peer
  <1>3. ASSUME NEW r \in Requests, Handler(r) PROVE SameGuesses \/ AnyPrepare(r)
    <2>1. CASE ReadFails(r)
      BY <2>1 DEF ReadFails, Await, Reply, window, shared
    <2>2. CASE FlushFails(r)
      BY <2>2 DEF FlushFails, Finished, Complete, shared
    <2>3. CASE Stored(r)
      BY <2>3 DEF Stored, Reply, window
    <2>4. CASE StoreFails(r)
      BY <2>4 DEF StoreFails, Await, window, shared
    <2>5. CASE Discarded(r)
      BY <2>5 DEF Discarded, Reply, window, shared
    <2>6. QED
      BY <1>3, <2>1, <2>2, <2>3, <2>4, <2>5 DEF Handler
  <1>4. CASE UNCHANGED vars
    BY <1>4 DEF vars, window, shared, requests
  <1>5. QED
    BY <1>1, <1>2, <1>3, <1>4 DEF Next

LEMMA GuessesStep == TypeOK /\ Life /\ Guesses /\ [Next]_vars => Guesses'
  <1> SUFFICES ASSUME TypeOK, Life, Guesses, [Next]_vars PROVE Guesses'
    OBVIOUS
  <1> USE DEF TypeOK, Life, LifeOf
  <1>1. ASSUME NEW r \in Requests, AnyPrepare(r) PROVE Guesses'
    <2>1. PICK pinMatches \in BOOLEAN :
            /\ IF PrepareVerdict(pinMatches) = GoOn
               THEN Await(r, "body") ELSE Reply(r, PrepareVerdict(pinMatches))
            /\ pinAttempts' = IF PrepareVerdict(pinMatches) = 401
                              THEN pinAttempts + 1 ELSE pinAttempts
      BY <1>1 DEF AnyPrepare, Prepare
    <2>2. CASE PrepareVerdict(pinMatches) = 401
      <3>1. r \notin WrongPins
        BY <1>1 DEF AnyPrepare, Prepare, Arrives, WrongPins
      <3>2. WrongPins' = WrongPins \cup {r} /\ pinAttempts' = pinAttempts + 1
        BY <2>1, <2>2 DEF Reply, GoOn, WrongPins
      <3>3. PinRequired => pinAttempts < MaxPinAttempts
        BY <2>2, PinAssumption DEF PrepareVerdict, GoOn
      <3>4. IsFiniteSet(WrongPins') /\ Cardinality(WrongPins') = pinAttempts'
        BY <3>1, <3>2, FS_AddElement DEF Guesses
      <3>5. QED
        BY <3>2, <3>3, <3>4, PinAssumption DEF Guesses
    <2>3. CASE PrepareVerdict(pinMatches) # 401
      <3>1. SameGuesses
        BY <1>1, <2>1, <2>3 DEF AnyPrepare, Prepare, Arrives, Reply, Await, SameGuesses, WrongPins
      <3>2. QED
        BY <3>1 DEF Guesses, SameGuesses
    <2>4. QED
      BY <2>2, <2>3
  <1>2. CASE SameGuesses
    BY <1>2 DEF Guesses, SameGuesses
  <1>3. QED
    BY <1>1, <1>2, GuessesKept

-----------------------------------------------------------------------------
(* Answers in flight *)

\* While the window is open it destroys no connection whose answer would settle
\* it, so the answer that completed it was flushed or lost by the peer.
Delivering ==
  /\ outcome = "pending" =>
       \A r \in Requests :
         socket[r] = "destroyed" => closes[r] = "pending" /\ step[r] # "ending"
  /\ LastAnswerFirst

LEMMA DeliveringStep == TypeOK /\ Life /\ Delivering /\ [Next]_vars => Delivering'
  <1> SUFFICES ASSUME TypeOK, Life, Delivering, [Next]_vars
               PROVE  Delivering'
    OBVIOUS
  <1> USE DEF TypeOK, Outcomes, Life, LifeOf, Delivering, LastAnswerFirst
  <1>1. CASE Window
    BY <1>1 DEF Window, Start, StartFails, Abort, TimeoutFires, ServerClosed,
                Complete, shared, requests
  <1>2. ASSUME NEW r \in Requests, Peer(r) PROVE Delivering'
    <2>1. CASE AnyConnect(r)
      BY <2>1 DEF AnyConnect, ConnectFrom, window, shared
    <2>2. CASE Disconnect(r)
      BY <2>2 DEF Disconnect, window, shared
    <2>3. CASE Inform(r)
      BY <2>3 DEF Inform, Arrives, Reply, window, shared
    <2>4. CASE Register(r)
      BY <2>4 DEF Register, Arrives, Await, window, shared
    <2>5. CASE Registered(r)
      BY <2>5 DEF Registered, Reply, window, shared
    <2>6. CASE AnyPrepare(r)
      BY <2>6 DEF AnyPrepare, Prepare, PrepareVerdict, GoOn, Arrives, Await, Reply, window
    <2>7. CASE AnyOpening(r)
      BY <2>7 DEF AnyOpening, OpenSession, Admit, Reply, window
    <2>8. CASE RejectBody(r)
      BY <2>8 DEF RejectBody, Reply, window, shared
    <2>9. CASE AnyUpload(r)
      BY <2>9 DEF AnyUpload, Upload, UploadVerdict, GoOn, Arrives, Admit, Await, Reply,
              window, shared
    <2>10. CASE EndBody(r)
      BY <2>10 DEF EndBody, Await, window, shared
    <2>11. CASE WriteFails(r)
      BY <2>11 DEF WriteFails, Await, window, shared
    <2>12. CASE AnyCancel(r)
      BY <2>12 DEF AnyCancel, Cancel, Arrives, Reply, window, shared
    <2>13. CASE Flush(r)
      BY <2>13 DEF Flush, Finished, Complete, shared
    <2>14. QED
      BY <1>2, <2>1, <2>2, <2>3, <2>4, <2>5, <2>6, <2>7, <2>8, <2>9,
         <2>10, <2>11, <2>12, <2>13 DEF Peer
  <1>3. ASSUME NEW r \in Requests, Handler(r) PROVE Delivering'
    <2>1. CASE ReadFails(r)
      BY <2>1 DEF ReadFails, Await, Reply, window, shared
    <2>2. CASE FlushFails(r)
      BY <2>2 DEF FlushFails, Finished, Complete, shared
    <2>3. CASE Stored(r)
      BY <2>3 DEF Stored, Reply, window
    <2>4. CASE StoreFails(r)
      BY <2>4 DEF StoreFails, Await, window, shared
    <2>5. CASE Discarded(r)
      BY <2>5 DEF Discarded, Reply, window, shared
    <2>6. QED
      BY <1>3, <2>1, <2>2, <2>3, <2>4, <2>5 DEF Handler
  <1>4. CASE UNCHANGED vars
    BY <1>4 DEF vars, window, shared, requests
  <1>5. QED
    BY <1>1, <1>2, <1>3, <1>4 DEF Next

\* Only an opened session can be cancelled by a peer.
Cancelling ==
  /\ \A r \in Requests : closes[r] = "cancelled" => session # None
  /\ CancelNeedsSession

LEMMA CancellingStep == TypeOK /\ Cancelling /\ [Next]_vars => Cancelling'
  <1> SUFFICES ASSUME TypeOK, Cancelling, [Next]_vars
               PROVE  Cancelling'
    OBVIOUS
  <1> USE RequestsAssumption DEF TypeOK, Outcomes, Cancelling, CancelNeedsSession
  <1>1. CASE Window
    BY <1>1 DEF Window, Start, StartFails, Abort, TimeoutFires, ServerClosed,
                Complete, shared, requests
  <1>2. ASSUME NEW r \in Requests, Peer(r) PROVE Cancelling'
    <2>1. CASE AnyConnect(r)
      BY <2>1 DEF AnyConnect, ConnectFrom, window, shared
    <2>2. CASE Disconnect(r)
      BY <2>2 DEF Disconnect, window, shared
    <2>3. CASE Inform(r)
      BY <2>3 DEF Inform, Arrives, Reply, window, shared
    <2>4. CASE Register(r)
      BY <2>4 DEF Register, Arrives, Await, window, shared
    <2>5. CASE Registered(r)
      BY <2>5 DEF Registered, Reply, window, shared
    <2>6. CASE AnyPrepare(r)
      BY <2>6 DEF AnyPrepare, Prepare, PrepareVerdict, GoOn, Arrives, Await, Reply, window
    <2>7. CASE AnyOpening(r)
      BY <2>7 DEF AnyOpening, OpenSession, Admit, Reply, window
    <2>8. CASE RejectBody(r)
      BY <2>8 DEF RejectBody, Reply, window, shared
    <2>9. CASE AnyUpload(r)
      BY <2>9 DEF AnyUpload, Upload, UploadVerdict, GoOn, Arrives, Admit, Await, Reply,
              window, shared
    <2>10. CASE EndBody(r)
      BY <2>10 DEF EndBody, Await, window, shared
    <2>11. CASE WriteFails(r)
      BY <2>11 DEF WriteFails, Await, window, shared
    <2>12. CASE AnyCancel(r)
      BY <2>12 DEF AnyCancel, Cancel, Arrives, Reply, window, shared
    <2>13. CASE Flush(r)
      BY <2>13 DEF Flush, Finished, Complete, shared
    <2>14. QED
      BY <1>2, <2>1, <2>2, <2>3, <2>4, <2>5, <2>6, <2>7, <2>8, <2>9,
         <2>10, <2>11, <2>12, <2>13 DEF Peer
  <1>3. ASSUME NEW r \in Requests, Handler(r) PROVE Cancelling'
    <2>1. CASE ReadFails(r)
      BY <2>1 DEF ReadFails, Await, Reply, window, shared
    <2>2. CASE FlushFails(r)
      BY <2>2 DEF FlushFails, Finished, Complete, shared
    <2>3. CASE Stored(r)
      BY <2>3 DEF Stored, Reply, window
    <2>4. CASE StoreFails(r)
      BY <2>4 DEF StoreFails, Await, window, shared
    <2>5. CASE Discarded(r)
      BY <2>5 DEF Discarded, Reply, window, shared
    <2>6. QED
      BY <1>3, <2>1, <2>2, <2>3, <2>4, <2>5 DEF Handler
  <1>4. CASE UNCHANGED vars
    BY <1>4 DEF vars, window, shared, requests
  <1>5. QED
    BY <1>1, <1>2, <1>3, <1>4 DEF Next

-----------------------------------------------------------------------------
(* A completed transfer is whole *)

HasAll == ask[session].files \subseteq received

\* What the session counts is offered by it and recorded, and a handler that is
\* to report "completed" has seen the count reach the offer.
Counting ==
  /\ \A f \in received : \E r \in files : ask[r].files = {f}
  /\ \A r \in Requests : closes[r] = "completed" => session # None
  /\ outcome = "completed" => session # None
  /\ session = None => received = {}
  /\ SingleSession /\ session # None => received \subseteq ask[session].files
  /\ \A r \in Requests : SingleSession /\ closes[r] = "completed" => HasAll
  /\ SingleSession /\ outcome = "completed" => HasAll

\* What every step but the opening of a session and the storing of a file keeps.
CountingKept ==
  /\ UNCHANGED <<received, files, session>>
  /\ \A q \in Requests : closes'[q] = "completed" => closes[q] = "completed"
  /\ outcome' = "completed" =>
       outcome = "completed" \/ \E q \in Requests : closes[q] = "completed"
  /\ \A q \in Requests : Opened(q) => ask'[q] = ask[q]
  /\ \A q \in Requests : Opened(q)' => Opened(q)
  /\ \A q \in files : ask'[q] = ask[q] /\ closes'[q] = closes[q]

LEMMA CountingKeptStep == TypeOK /\ Life /\ SessionOpened /\ [Next]_vars =>
        CountingKept \/ \E r \in Requests : AnyOpening(r) \/ Stored(r)
  <1> SUFFICES ASSUME TypeOK, Life, SessionOpened, [Next]_vars
               PROVE  CountingKept \/ \E r \in Requests : AnyOpening(r) \/ Stored(r)
    OBVIOUS
  <1> USE RequestsAssumption DEF TypeOK, Outcomes, Life, LifeOf,
      SessionOpened, Opened, CountingKept
  <1>1. CASE Window
    BY <1>1 DEF Window, Start, StartFails, Abort, TimeoutFires, ServerClosed,
                Complete, shared, requests
  <1>2. ASSUME NEW r \in Requests, Peer(r) PROVE CountingKept \/ AnyOpening(r)
    <2>1. CASE AnyConnect(r)
      BY <2>1 DEF AnyConnect, ConnectFrom, window, shared
    <2>2. CASE Disconnect(r)
      BY <2>2 DEF Disconnect, window, shared
    <2>3. CASE Inform(r)
      BY <2>3 DEF Inform, Arrives, Reply, window, shared
    <2>4. CASE Register(r)
      BY <2>4 DEF Register, Arrives, Await, window, shared
    <2>5. CASE Registered(r)
      BY <2>5 DEF Registered, Reply, window, shared
    <2>6. CASE AnyPrepare(r)
      BY <2>6 DEF AnyPrepare, Prepare, PrepareVerdict, GoOn, Arrives, Await, Reply, window
    <2>7. CASE AnyOpening(r)
      BY <2>7
    <2>8. CASE RejectBody(r)
      BY <2>8 DEF RejectBody, Reply, window, shared
    <2>9. CASE AnyUpload(r)
      <3>1. step[r] = "idle" /\ UNCHANGED <<received, files, session, outcome, closes>>
        BY <2>9 DEF AnyUpload, Upload, Arrives, window, shared
      <3>2. PICK sid \in Requests \cup {None}, file \in FileIds, token \in BOOLEAN :
              UploadTaken(r, sid, file, token)
        BY <2>9, UploadCases
      <3>3. CASE UNCHANGED ask
        BY <3>1, <3>3
      <3>4. CASE UploadVerdict(ask[r].from, sid, file, token) = GoOn /\ Admit(r, sid, {file})
        <4>1. sid = session /\ sid # None
          BY <3>4 DEF UploadVerdict, GoOn
        <4>2. ask'[r].session = sid /\ \A q \in Requests \ {r} : ask'[q] = ask[q]
          BY <3>4 DEF Admit
        <4>3. ~Opened(r) /\ r \notin files
          BY <3>1
        <4>4. sid # r
          BY <4>1, <4>3
        <4>5. QED
          BY <3>1, <4>2, <4>3, <4>4
      <3>5. QED
        BY <3>2, <3>3, <3>4 DEF UploadTaken, Await, Admit
    <2>10. CASE EndBody(r)
      BY <2>10 DEF EndBody, Await, window, shared
    <2>11. CASE WriteFails(r)
      BY <2>11 DEF WriteFails, Await, window, shared
    <2>12. CASE AnyCancel(r)
      BY <2>12 DEF AnyCancel, Cancel, Arrives, Reply, window, shared
    <2>13. CASE Flush(r)
      BY <2>13 DEF Flush, Finished, Complete, shared
    <2>14. QED
      BY <1>2, <2>1, <2>2, <2>3, <2>4, <2>5, <2>6, <2>7, <2>8, <2>9,
         <2>10, <2>11, <2>12, <2>13 DEF Peer
  <1>3. ASSUME NEW r \in Requests, Handler(r) PROVE CountingKept \/ Stored(r)
    <2>1. CASE ReadFails(r)
      BY <2>1 DEF ReadFails, Await, Reply, window, shared
    <2>2. CASE FlushFails(r)
      BY <2>2 DEF FlushFails, Finished, Complete, shared
    <2>3. CASE Stored(r)
      BY <2>3
    <2>4. CASE StoreFails(r)
      BY <2>4 DEF StoreFails, Await, window, shared
    <2>5. CASE Discarded(r)
      BY <2>5 DEF Discarded, Reply, window, shared
    <2>6. QED
      BY <1>3, <2>1, <2>2, <2>3, <2>4, <2>5 DEF Handler
  <1>4. CASE UNCHANGED vars
    BY <1>4 DEF vars, window, shared, requests
  <1>5. QED
    BY <1>1, <1>2, <1>3, <1>4 DEF Next

LEMMA CountingStep ==
  ASSUME TypeOK, Life, SessionOpened, Belonging, Counting, [Next]_vars
  PROVE  Counting'
  <1>1. CASE CountingKept
    <2>1. (session \in Requests /\ Opened(session)) \/ session = None
      BY DEF SessionOpened
    <2>2. session # None => ask'[session] = ask[session]
      BY <1>1, <2>1 DEF CountingKept
    <2>3. SingleSession' => SingleSession
      BY <1>1 DEF CountingKept, SingleSession, Opened
    <2>4. \A f \in received' : \E r \in files' : ask'[r].files = {f}
      BY <1>1 DEF CountingKept, Counting
    <2>5. session # None => (HasAll' <=> HasAll)
      BY <1>1, <2>2 DEF CountingKept, HasAll
    <2>6. QED
      BY <1>1, <2>2, <2>3, <2>4, <2>5 DEF CountingKept, Counting
  <1>2. ASSUME NEW r \in Requests, AnyOpening(r) PROVE Counting'
    <2>1. /\ received' = {} /\ files' = files /\ session' = r
          /\ closes' = closes /\ outcome' = outcome /\ step[r] = "body"
      BY <1>2 DEF AnyOpening, OpenSession, window
    <2>2. PICK offered \in SUBSET FileIds :
            ask' = [ask EXCEPT ![r] = [from |-> ask[r].from, session |-> r,
                                       files |-> offered]]
      BY <1>2 DEF AnyOpening, OpenSession, Admit
    <2>3. ask'[r].session = r /\ \A q \in Requests \ {r} : ask'[q] = ask[q]
      BY <2>2 DEF TypeOK
    <2>4. r # None /\ ask[r].session # r
      BY <2>1, RequestsAssumption DEF Life, LifeOf
    <2>5. SingleSession' => session = None
      BY <2>3, <2>4 DEF SessionOpened, SingleSession, Opened
    <2>6. QED
      BY <2>1, <2>4, <2>5 DEF Counting
  <1>3. ASSUME NEW r \in Requests, Stored(r) PROVE Counting'
    <2>1. /\ received' = received \cup ask[r].files
          /\ files' = files \cup {r}
          /\ session' = session /\ ask' = ask /\ outcome' = outcome
          /\ step[r] = "ending"
      BY <1>3 DEF Stored, window
    <2>2. \A q \in Requests : closes'[q] = "completed" =>
            \/ closes[q] = "completed"
            \/ q = r /\ Cardinality(received') >= Cardinality(ask[session].files)
      BY <1>3 DEF Stored, TypeOK
    <2>3. PICK f \in ask[ask[r].session].files : ask[r].files = {f}
      BY <2>1 DEF Belonging, Belongs
    <2>4. session # None /\ session \in Requests
      BY <2>1 DEF Belonging, Belongs, SessionOpened
    <2>5. SingleSession => ask[r].session = session
      BY <2>1, <2>4 DEF Belonging, Belongs, SessionOpened, SingleSession
    <2>6. SingleSession => received' \subseteq ask[session].files
      BY <2>1, <2>3, <2>4, <2>5 DEF Counting
    <2>7. \A g \in received' : \E q \in files' : ask[q].files = {g}
      BY <2>1, <2>3 DEF Counting
    <2>8. ASSUME SingleSession, Cardinality(received') >= Cardinality(ask[session].files)
          PROVE  ask[session].files \subseteq received'
      <3>1. IsFiniteSet(ask[session].files)
        BY <2>4, FilesAssumption, FS_Subset DEF TypeOK
      <3>2. received' \in SUBSET ask[session].files
        BY <2>6, <2>8
      <3>3. /\ Cardinality(received') <= Cardinality(ask[session].files)
            /\ Cardinality(received') \in Nat
            /\ Cardinality(ask[session].files) \in Nat
        BY <3>1, <3>2, FS_Subset, FS_CardinalityType
      <3>4. Cardinality(ask[session].files) = Cardinality(received')
        BY <2>8, <3>3
      <3>5. QED
        BY <3>1, <3>2, <3>4, FS_Subset
    <2>9. SingleSession' <=> SingleSession
      BY <2>1 DEF SingleSession, Opened
    <2>10. HasAll => HasAll'
      BY <2>1 DEF HasAll
    <2>11. \A q \in Requests : SingleSession' /\ closes'[q] = "completed" => HasAll'
      BY <2>1, <2>2, <2>8, <2>9, <2>10 DEF Counting, HasAll
    <2>12. QED
      BY <2>1, <2>2, <2>4, <2>6, <2>7, <2>9, <2>10, <2>11 DEF Counting
  <1>4. QED
    BY <1>1, <1>2, <1>3, CountingKeptStep

-----------------------------------------------------------------------------
(* What a sender was told has come true *)

\* An answer that reached its peer has settled the window as it was to do.
Telling == \A r \in Requests :
             step[r] = "answered" /\ closes[r] # "pending" => outcome = closes[r]

LEMMA TellingStep == TypeOK /\ Life /\ Settling /\ Telling /\ [Next]_vars => Telling'
  <1> SUFFICES ASSUME TypeOK, Life, Settling, Telling, [Next]_vars PROVE Telling'
    OBVIOUS
  <1> USE DEF TypeOK, Outcomes, Life, LifeOf, Settling, Telling
  <1>1. CASE Window
    BY <1>1 DEF Window, Start, StartFails, Abort, TimeoutFires, ServerClosed,
                Complete, shared, requests
  <1>2. ASSUME NEW r \in Requests, Peer(r) PROVE Telling'
    <2>1. CASE AnyConnect(r)
      BY <2>1 DEF AnyConnect, ConnectFrom, window, shared
    <2>2. CASE Disconnect(r)
      BY <2>2 DEF Disconnect, window, shared
    <2>3. CASE Inform(r)
      BY <2>3 DEF Inform, Arrives, Reply, window, shared
    <2>4. CASE Register(r)
      BY <2>4 DEF Register, Arrives, Await, window, shared
    <2>5. CASE Registered(r)
      BY <2>5 DEF Registered, Reply, window, shared
    <2>6. CASE AnyPrepare(r)
      BY <2>6 DEF AnyPrepare, Prepare, PrepareVerdict, GoOn, Arrives, Await, Reply, window
    <2>7. CASE AnyOpening(r)
      BY <2>7 DEF AnyOpening, OpenSession, Admit, Reply, window
    <2>8. CASE RejectBody(r)
      BY <2>8 DEF RejectBody, Reply, window, shared
    <2>9. CASE AnyUpload(r)
      BY <2>9 DEF AnyUpload, Upload, UploadVerdict, GoOn, Arrives, Admit, Await, Reply,
              window, shared
    <2>10. CASE EndBody(r)
      BY <2>10 DEF EndBody, Await, window, shared
    <2>11. CASE WriteFails(r)
      BY <2>11 DEF WriteFails, Await, window, shared
    <2>12. CASE AnyCancel(r)
      BY <2>12 DEF AnyCancel, Cancel, Arrives, Reply, window, shared
    <2>13. CASE Flush(r)
      BY <2>13 DEF Flush, Finished, Complete, shared
    <2>14. QED
      BY <1>2, <2>1, <2>2, <2>3, <2>4, <2>5, <2>6, <2>7, <2>8, <2>9,
         <2>10, <2>11, <2>12, <2>13 DEF Peer
  <1>3. ASSUME NEW r \in Requests, Handler(r) PROVE Telling'
    <2>1. CASE ReadFails(r)
      BY <2>1 DEF ReadFails, Await, Reply, window, shared
    <2>2. CASE FlushFails(r)
      BY <2>2 DEF FlushFails, Finished, Complete, shared
    <2>3. CASE Stored(r)
      BY <2>3 DEF Stored, Reply, window
    <2>4. CASE StoreFails(r)
      BY <2>4 DEF StoreFails, Await, window, shared
    <2>5. CASE Discarded(r)
      BY <2>5 DEF Discarded, Reply, window, shared
    <2>6. QED
      BY <1>3, <2>1, <2>2, <2>3, <2>4, <2>5 DEF Handler
  <1>4. CASE UNCHANGED vars
    BY <1>4 DEF vars, window, shared, requests
  <1>5. QED
    BY <1>1, <1>2, <1>3, <1>4 DEF Next

\* A session that has all its files has an upload that is to report it, and in a
\* single session every recorded file counts.
AllTold ==
  /\ session # None /\ HasAll => \E r \in files : closes[r] = "completed"
  /\ SingleSession => \A r \in files : ask[r].files \subseteq received

LEMMA AllToldStep ==
  ASSUME TypeOK, Life, SessionOpened, Belonging, AllTold, [Next]_vars
  PROVE  AllTold'
  <1>1. CASE CountingKept
    <2>1. session # None => session \in Requests /\ ask'[session] = ask[session]
      BY <1>1 DEF CountingKept, SessionOpened
    <2>2. SingleSession' => SingleSession
      BY <1>1 DEF CountingKept, SingleSession, Opened
    <2>3. QED
      BY <1>1, <2>1, <2>2 DEF CountingKept, AllTold, HasAll
  <1>2. ASSUME NEW r \in Requests, AnyOpening(r) PROVE AllTold'
    <2>1. received' = {} /\ files' = files /\ session' = r /\ step[r] = "body"
      BY <1>2 DEF AnyOpening, OpenSession
    <2>2. PICK offered \in (SUBSET FileIds) \ {{}} :
            ask' = [ask EXCEPT ![r] = [from |-> ask[r].from, session |-> r,
                                       files |-> offered]]
      BY <1>2 DEF AnyOpening, OpenSession, Admit
    <2>3. /\ ask'[r].session = r /\ ask'[r].files = offered
          /\ \A q \in Requests \ {r} : ask'[q] = ask[q]
      BY <2>2 DEF TypeOK
    <2>4. r # None /\ ask[r].session # r
      BY <2>1, RequestsAssumption DEF Life, LifeOf
    <2>5. SingleSession' => session = None
      BY <2>3, <2>4 DEF SessionOpened, SingleSession, Opened
    <2>6. session = None => files = {}
      BY DEF TypeOK, Belonging, Belongs, SessionOpened
    <2>7. ~HasAll'
      BY <2>1, <2>3 DEF HasAll
    <2>8. QED
      BY <2>1, <2>5, <2>6, <2>7 DEF AllTold
  <1>3. ASSUME NEW r \in Requests, Stored(r) PROVE AllTold'
    <2>1. /\ received' = received \cup ask[r].files /\ files' = files \cup {r}
          /\ session' = session /\ ask' = ask /\ step[r] = "ending"
      BY <1>3 DEF Stored
    <2>2. SingleSession' <=> SingleSession
      BY <2>1 DEF SingleSession, Opened
    <2>3. ASSUME session # None, ask[session].files \subseteq received'
          PROVE  closes'[r] = "completed"
      <3>1. IsFiniteSet(received')
        BY <2>1, FilesAssumption, FS_Subset DEF TypeOK
      <3>2. Cardinality(ask[session].files) <= Cardinality(received')
        BY <2>3, <3>1, FS_Subset
      <3>3. IsFiniteSet(ask[session].files)
        BY <2>3, <3>1, FS_Subset
      <3>4. Cardinality(ask[session].files) \in Nat /\ Cardinality(received') \in Nat
        BY <3>1, <3>3, FS_CardinalityType
      <3>5. Cardinality(received') >= Cardinality(ask[session].files)
        BY <3>2, <3>4
      <3>6. QED
        BY <1>3, <3>5 DEF Stored, TypeOK
    <2>4. QED
      BY <2>1, <2>2, <2>3 DEF AllTold, HasAll
  <1>4. QED
    BY <1>1, <1>2, <1>3, CountingKeptStep

-----------------------------------------------------------------------------
(* What is recorded, opened or answered stays so *)

Staying ==
  /\ files \subseteq files'
  /\ \A r \in Requests :
       /\ r \in files \/ Opened(r) => ask'[r] = ask[r]
       /\ step[r] = "answered" =>
            step'[r] = "answered" /\ status'[r] = status[r] /\ closes'[r] = closes[r]

LEMMA StayingStep == TypeOK /\ Life /\ [Next]_vars => Staying
  <1> SUFFICES ASSUME TypeOK, Life, [Next]_vars PROVE Staying
    OBVIOUS
  <1> USE RequestsAssumption DEF TypeOK, Outcomes, Life, LifeOf, Opened, Staying
  <1>1. CASE Window
    BY <1>1 DEF Window, Start, StartFails, Abort, TimeoutFires, ServerClosed,
                Complete, shared, requests
  <1>2. ASSUME NEW r \in Requests, Peer(r) PROVE Staying
    <2>1. CASE AnyConnect(r)
      BY <2>1 DEF AnyConnect, ConnectFrom, window, shared
    <2>2. CASE Disconnect(r)
      BY <2>2 DEF Disconnect, window, shared
    <2>3. CASE Inform(r)
      BY <2>3 DEF Inform, Arrives, Reply, window, shared
    <2>4. CASE Register(r)
      BY <2>4 DEF Register, Arrives, Await, window, shared
    <2>5. CASE Registered(r)
      BY <2>5 DEF Registered, Reply, window, shared
    <2>6. CASE AnyPrepare(r)
      BY <2>6 DEF AnyPrepare, Prepare, PrepareVerdict, GoOn, Arrives, Await, Reply, window
    <2>7. CASE AnyOpening(r)
      BY <2>7 DEF AnyOpening, OpenSession, Admit, Reply, window
    <2>8. CASE RejectBody(r)
      BY <2>8 DEF RejectBody, Reply, window, shared
    <2>9. CASE AnyUpload(r)
      BY <2>9 DEF AnyUpload, Upload, UploadVerdict, GoOn, Arrives, Admit, Await, Reply,
              window, shared
    <2>10. CASE EndBody(r)
      BY <2>10 DEF EndBody, Await, window, shared
    <2>11. CASE WriteFails(r)
      BY <2>11 DEF WriteFails, Await, window, shared
    <2>12. CASE AnyCancel(r)
      BY <2>12 DEF AnyCancel, Cancel, Arrives, Reply, window, shared
    <2>13. CASE Flush(r)
      BY <2>13 DEF Flush, Finished, Complete, shared
    <2>14. QED
      BY <1>2, <2>1, <2>2, <2>3, <2>4, <2>5, <2>6, <2>7, <2>8, <2>9,
         <2>10, <2>11, <2>12, <2>13 DEF Peer
  <1>3. ASSUME NEW r \in Requests, Handler(r) PROVE Staying
    <2>1. CASE ReadFails(r)
      BY <2>1 DEF ReadFails, Await, Reply, window, shared
    <2>2. CASE FlushFails(r)
      BY <2>2 DEF FlushFails, Finished, Complete, shared
    <2>3. CASE Stored(r)
      BY <2>3 DEF Stored, Reply, window
    <2>4. CASE StoreFails(r)
      BY <2>4 DEF StoreFails, Await, window, shared
    <2>5. CASE Discarded(r)
      BY <2>5 DEF Discarded, Reply, window, shared
    <2>6. QED
      BY <1>3, <2>1, <2>2, <2>3, <2>4, <2>5 DEF Handler
  <1>4. CASE UNCHANGED vars
    BY <1>4 DEF vars, window, shared, requests
  <1>5. QED
    BY <1>1, <1>2, <1>3, <1>4 DEF Next

-----------------------------------------------------------------------------
(* The inductive invariant, and what follows from it *)

Inv ==
  /\ TypeOK
  /\ Life
  /\ SessionOpened
  /\ Settling
  /\ Belonging
  /\ Guesses
  /\ Delivering
  /\ Cancelling
  /\ Counting
  /\ Telling
  /\ AllTold

LEMMA InvInit == Init => Inv
  <1> SUFFICES ASSUME Init PROVE Inv
    OBVIOUS
  <1> USE RequestsAssumption, PinAssumption DEF Init
  <1>1. TypeOK /\ Life /\ SessionOpened /\ Settling
    BY DEF TypeOK, Life, LifeOf, SessionOpened, Opened, Settling
  <1>2. Belonging /\ Delivering /\ Cancelling /\ Counting /\ Telling /\ AllTold
    BY DEF Belonging, Delivering, LastAnswerFirst, Cancelling, CancelNeedsSession,
           Counting, Telling, AllTold
  <1>3. Guesses
    <2>1. WrongPins = {}
      BY DEF WrongPins
    <2>2. QED
      BY <2>1, FS_EmptySet DEF Guesses
  <1>4. QED
    BY <1>1, <1>2, <1>3 DEF Inv

LEMMA InvStep == Inv /\ [Next]_vars => Inv'
  BY TypeStep, LifeStep, SettlingStep, BelongingStep, GuessesStep, DeliveringStep,
     CancellingStep, CountingStep, TellingStep, AllToldStep DEF Inv

LEMMA InvHolds == Spec => []Inv
  BY InvInit, InvStep, PTL DEF Spec

\* A sender that is told 200 has its file in the result, any other has not:
\* no interleaving, connection loss or failed rename separates the two.
THEOREM AnswersMatchRecords == Spec => []AnswerMatchesRecord
  <1>1. Inv => AnswerMatchesRecord
    BY DEF Inv, Life, LifeOf, AnswerMatchesRecord
  <1>2. QED
    BY <1>1, InvHolds, PTL

\* No device gets a file into a session that another, known address opened, and no
\* file that the session did not offer.
THEOREM RecordsBelong == Spec => []RecordedBelongs
  <1>1. ASSUME Inv, NEW r \in files
        PROVE  /\ ask[r].session \in Requests
               /\ Opened(ask[r].session)
               /\ ask[ask[r].session].from \in {None, ask[r].from}
               /\ ask[r].files \subseteq ask[ask[r].session].files
    <2>1. Belongs(r)
      BY <1>1 DEF Inv, TypeOK, Belonging
    <2>2. QED
      BY <2>1 DEF Belongs
  <1>2. Inv => RecordedBelongs
    BY <1>1 DEF RecordedBelongs
  <1>3. QED
    BY <1>2, InvHolds, PTL

\* No schedule of peers gets more than MaxPinAttempts wrong PINs answered.
THEOREM GuessesAreBounded == Spec => []GuessesBounded
  <1>1. Inv => GuessesBounded
    BY DEF Inv, Guesses, WrongPins, GuessesBounded
  <1>2. QED
    BY <1>1, InvHolds, PTL

\* The window does not cut off the answer that completes it.
THEOREM LastAnswerIsFirst == Spec => []LastAnswerFirst
  <1>1. Inv => LastAnswerFirst
    BY DEF Inv, Delivering
  <1>2. QED
    BY <1>1, InvHolds, PTL

\* A window reported as cancelled was aborted or had a session to cancel.
THEOREM CancelsNeedSession == Spec => []CancelNeedsSession
  <1>1. Inv => CancelNeedsSession
    BY DEF Inv, Cancelling
  <1>2. QED
    BY <1>1, InvHolds, PTL

\* With a single session, "completed" means that every offered file is recorded.
THEOREM CompletedIsWhole == Spec => []CompletedMeansAll
  <1>1. Inv => CompletedMeansAll
    BY DEF Inv, Counting, HasAll, CompletedMeansAll
  <1>2. QED
    BY <1>1, InvHolds, PTL

LEMMA OutcomeStep ==
  TypeOK /\ Settling /\ [Next]_vars => (outcome # "pending" => outcome' = outcome)
  <1> SUFFICES ASSUME TypeOK, Settling, [Next]_vars, outcome # "pending"
               PROVE  UNCHANGED outcome
    OBVIOUS
  <1>1. CASE Window
    BY <1>1 DEF Window, Start, StartFails, Abort, TimeoutFires, ServerClosed, Complete
  <1>2. ASSUME NEW r \in Requests, AnyConnect(r) \/ AnyPrepare(r) \/ AnyOpening(r)
                                    \/ AnyUpload(r) \/ AnyCancel(r)
        PROVE  UNCHANGED outcome
    BY <1>2 DEF AnyConnect, ConnectFrom, AnyPrepare, Prepare, AnyOpening, OpenSession,
                AnyUpload, Upload, AnyCancel, Cancel, window
  <1>3. ASSUME NEW r \in Requests, Peer(r)
        PROVE  UNCHANGED outcome
    BY <1>2, <1>3 DEF Peer, Disconnect, Inform, Register, Registered, RejectBody,
                      EndBody, WriteFails, Flush, Finished, Complete, window
  <1>4. ASSUME NEW r \in Requests, Handler(r)
        PROVE  UNCHANGED outcome
    BY <1>4 DEF Handler, ReadFails, FlushFails, Stored, StoreFails, Discarded,
                Finished, Complete, window
  <1>5. CASE UNCHANGED vars
    BY <1>5 DEF vars, window
  <1>6. QED
    BY <1>1, <1>3, <1>4, <1>5 DEF Next

\* The outcome of a window never changes once it has one.
THEOREM OutcomeIsStable == Spec => OutcomeStable
  <1>1. Inv => TypeOK /\ Settling
    BY DEF Inv
  <1>2. QED
    BY <1>1, OutcomeStep, InvHolds, PTL DEF Spec, OutcomeStable

\* A settled window lets nothing new in: its session is final and no handler
\* starts to read.
THEOREM SettledIsClosed == Spec => SettledTakesNothingNew
  <1>1. TypeOK /\ Settling /\ [Next]_vars =>
          (outcome # "pending" =>
             /\ session' = session
             /\ \A r \in Requests :
                  step'[r] \in {"hello", "body", "writing"} => step'[r] = step[r])
    <2> SUFFICES ASSUME TypeOK, Settling, [Next]_vars, outcome # "pending"
                 PROVE  /\ session' = session
                        /\ \A r \in Requests :
                             step'[r] \in {"hello", "body", "writing"} => step'[r] = step[r]
      OBVIOUS
    <2>1. \A q \in Requests : socket[q] # "open"
      BY DEF Settling
    <2>2. phase \notin {"starting", "failed", "listening"}
      BY DEF Settling
    <2> USE <2>1, <2>2 DEF TypeOK, Arrives
    <2>3. CASE Window
      BY <2>3 DEF Window, Start, StartFails, Abort, TimeoutFires, ServerClosed,
                  shared, requests
    <2>4. ASSUME NEW r \in Requests, Peer(r)
          PROVE  UNCHANGED session /\ \A q \in Requests :
                   step'[q] \in {"hello", "body", "writing"} => step'[q] = step[q]
      <3>1. CASE AnyConnect(r) \/ AnyPrepare(r) \/ AnyUpload(r) \/ AnyCancel(r)
        BY <3>1 DEF AnyConnect, ConnectFrom, AnyPrepare, Prepare, AnyUpload, Upload,
                    AnyCancel, Cancel, shared
      <3>2. CASE AnyOpening(r)
        BY <3>2 DEF AnyOpening, OpenSession
      <3>3. CASE Disconnect(r) \/ Inform(r) \/ Register(r) \/ Registered(r) \/ RejectBody(r)
        BY <3>3 DEF Disconnect, Inform, Register, Registered, RejectBody, shared
      <3>4. CASE EndBody(r) \/ WriteFails(r) \/ Flush(r)
        BY <3>4 DEF EndBody, WriteFails, Flush, Await, shared
      <3>5. QED
        BY <2>4, <3>1, <3>2, <3>3, <3>4 DEF Peer
    <2>5. ASSUME NEW r \in Requests, Handler(r)
          PROVE  UNCHANGED session /\ \A q \in Requests :
                   step'[q] \in {"hello", "body", "writing"} => step'[q] = step[q]
      BY <2>5 DEF Handler, ReadFails, FlushFails, Stored, StoreFails, Discarded,
                  Await, Reply, shared
    <2>6. CASE UNCHANGED vars
      BY <2>6 DEF vars, shared, requests
    <2>7. QED
      BY <2>3, <2>4, <2>5, <2>6 DEF Next
  <1>2. Inv => TypeOK /\ Settling
    BY DEF Inv
  <1>3. QED
    BY <1>1, <1>2, InvHolds, PTL DEF Spec, SettledTakesNothingNew
=============================================================================
