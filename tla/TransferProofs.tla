--------------------------- MODULE TransferProofs ---------------------------
(***************************************************************************)
(* Transfer, proved for any number of senders, files and losses: the       *)
(* window among the senders is the window of ReceiveServer, so all that is *)
(* proved of that one (ReceiveServerProofs) holds here, and what a sender  *)
(* reports is what the window recorded.                                    *)
(***************************************************************************)
EXTENDS Transfer, FiniteSetTheorems, TLAPS

\* The theorems about a window, for the window of this transfer.
Window == INSTANCE ReceiveServerProofs WITH Requests <- Calls

LEMMA WindowAssumptions ==
  Window!RequestsAssumption /\ Window!FilesAssumption /\ Window!PinAssumption
  <1>1. Window!RequestsAssumption
    BY CallsAssumption DEF Window!RequestsAssumption
  <1>2. Window!FilesAssumption
    BY OffersAssumption DEF Window!FilesAssumption, Window!IsFiniteSet, IsFiniteSet
  <1>3. Window!PinAssumption
    BY PinAssumption DEF Window!PinAssumption
  <1>4. QED
    BY <1>1, <1>2, <1>3

-----------------------------------------------------------------------------
(* The two instances of ReceiveServer say the same *)

LEMMA SameVars == UNCHANGED receiverVars <=> UNCHANGED Window!vars
  BY DEF receiverVars, Window!vars, Window!window, Window!shared, Window!requests

LEMMA SameNext == Receiver!Next <=> Window!Next
  BY DEF Receiver!Next, Receiver!Window, Receiver!Peer, Receiver!Handler, Receiver!AnyConnect, Receiver!AnyPrepare,
    Receiver!AnyOpening, Receiver!AnyUpload, Receiver!AnyCancel, Receiver!Start, Receiver!StartFails, Receiver!Abort, Receiver!TimeoutFires,
    Receiver!ServerClosed, Receiver!ConnectFrom, Receiver!Disconnect, Receiver!ReadFails, Receiver!Flush, Receiver!FlushFails,
    Receiver!Inform, Receiver!Register, Receiver!Registered, Receiver!Prepare, Receiver!OpenSession, Receiver!RejectBody,
    Receiver!Upload, Receiver!EndBody, Receiver!WriteFails, Receiver!Stored, Receiver!StoreFails, Receiver!Discarded, Receiver!Cancel,
    Receiver!Complete, Receiver!Finished, Receiver!Reply, Receiver!Await, Receiver!Admit, Receiver!Arrives, Receiver!GoOn, Receiver!PrepareVerdict,
    Receiver!UploadVerdict, Receiver!window, Receiver!shared, Receiver!requests, Receiver!Cardinality,
    Window!Next, Window!Window, Window!Peer, Window!Handler, Window!AnyConnect, Window!AnyPrepare,
    Window!AnyOpening, Window!AnyUpload, Window!AnyCancel, Window!Start, Window!StartFails, Window!Abort, Window!TimeoutFires,
    Window!ServerClosed, Window!ConnectFrom, Window!Disconnect, Window!ReadFails, Window!Flush, Window!FlushFails,
    Window!Inform, Window!Register, Window!Registered, Window!Prepare, Window!OpenSession, Window!RejectBody,
    Window!Upload, Window!EndBody, Window!WriteFails, Window!Stored, Window!StoreFails, Window!Discarded, Window!Cancel,
    Window!Complete, Window!Finished, Window!Reply, Window!Await, Window!Admit, Window!Arrives, Window!GoOn, Window!PrepareVerdict,
    Window!UploadVerdict, Window!window, Window!shared, Window!requests, Window!Cardinality

-----------------------------------------------------------------------------
(* Senders, whatever they are answered *)

New(s) == <<s, calls[s] + 1>>

\* A sender has calls left for what it may still ask.
Budget(s) ==
  /\ stage[s] = "idle" => calls[s] = 0
  /\ stage[s] = "preparing" => calls[s] = 1
  /\ stage[s] = "uploading" => calls[s] + Cardinality(todo[s]) <= Cardinality(FileIds) + 1
  /\ stage[s] \in {"uploading", "cancelling"} => known[s] # None

\* What the calls made so far asked.
Wired(c) ==
  wire[c] # None =>
    /\ c[2] <= calls[c[1]]
    /\ wire[c].op = "prepare" <=> c[2] = 1
    /\ wire[c].op = "prepare" => wire[c].files = offer[c[1]] /\ offer[c[1]] # {}
    /\ wire[c].op = "upload" => \E f \in FileIds : wire[c].files = {f}
    /\ wire[c].op # "prepare" => wire[c].session = known[c[1]] /\ known[c[1]] # None

\* A sender in its upload loop waits for an upload.
Asked(s) == stage[s] = "uploading" => wire[Current(s)].op = "upload"

ClientInv ==
  /\ ClientTypeOK
  /\ \A s \in Senders : Budget(s) /\ Asked(s)
  /\ \A c \in Calls : Wired(c)

\* The sender asks m and awaits the answer.
Asks(s, next, m) ==
  /\ New(s) \in Calls
  /\ m \in Message
  /\ stage' = [stage EXCEPT ![s] = next]
  /\ calls' = [calls EXCEPT ![s] = calls[s] + 1]
  /\ wire' = [wire EXCEPT ![New(s)] = m]

LEMMA FilesFinite ==
  /\ Cardinality(FileIds) \in Nat
  /\ \A S \in SUBSET FileIds : /\ IsFiniteSet(S) /\ Cardinality(S) \in Nat
                               /\ Cardinality(S) <= Cardinality(FileIds)
                               /\ \A f \in S : Cardinality(S \ {f}) = Cardinality(S) - 1
  BY OffersAssumption, FS_Subset, FS_CardinalityType, FS_RemoveElement

LEMMA MakeAsks ==
  ASSUME ClientTypeOK, NEW s \in Senders, calls[s] <= Cardinality(FileIds) + 1,
         NEW next, NEW op \in {"prepare", "upload", "cancel"}, NEW sid \in Calls \cup {None},
         NEW about \in SUBSET FileIds, Make(s, next, op, sid, about)
  PROVE  Asks(s, next, [op |-> op, session |-> sid, files |-> about])
  <1>1. calls[s] \in Nat /\ New(s) \in Calls
    BY FilesFinite DEF ClientTypeOK, New, Calls
  <1>2. QED
    BY <1>1 DEF Make, Asks, New, Message

\* The two ways on from the loop: another call, or the end.
LEMMA LoopCases ==
  ASSUME ClientTypeOK, NEW s \in Senders, NEW sid \in Calls, NEW left \in SUBSET FileIds, NEW bad,
         calls[s] + Cardinality(left) <= Cardinality(FileIds) + 1, Loop(s, sid, left, bad)
  PROVE  \/ \E f \in left :
              /\ Asks(s, "uploading", [op |-> "upload", session |-> sid, files |-> {f}])
              /\ todo' = [todo EXCEPT ![s] = left \ {f}]
              /\ calls[s] + 1 + Cardinality(left \ {f}) <= Cardinality(FileIds) + 1
         \/ /\ left = {} /\ bad = {} /\ todo' = [todo EXCEPT ![s] = {}]
            /\ stage' = [stage EXCEPT ![s] = "returned"] /\ UNCHANGED <<calls, wire>>
         \/ /\ left = {} /\ bad # {} /\ todo' = [todo EXCEPT ![s] = {}]
            /\ Asks(s, "cancelling", [op |-> "cancel", session |-> sid, files |-> {}])
  <1>1. /\ calls[s] \in Nat /\ Cardinality(left) \in Nat /\ Cardinality(FileIds) \in Nat
        /\ \A f \in left : Cardinality(left \ {f}) = Cardinality(left) - 1
    BY FilesFinite DEF ClientTypeOK
  <1>2. calls[s] <= Cardinality(FileIds) + 1
    BY <1>1
  <1>3. CASE \E f \in left : Make(s, "uploading", "upload", sid, {f}) /\ todo' = [todo EXCEPT ![s] = left \ {f}]
    <2>1. PICK f \in left : Make(s, "uploading", "upload", sid, {f}) /\ todo' = [todo EXCEPT ![s] = left \ {f}]
      BY <1>3
    <2>2. Asks(s, "uploading", [op |-> "upload", session |-> sid, files |-> {f}])
      BY <1>2, <2>1, MakeAsks
    <2>3. calls[s] + 1 + Cardinality(left \ {f}) <= Cardinality(FileIds) + 1
      BY <1>1
    <2>4. QED
      BY <2>1, <2>2, <2>3
  <1>4. CASE left = {} /\ bad = {} /\ End(s, "returned") /\ todo' = [todo EXCEPT ![s] = {}]
    BY <1>4 DEF End
  <1>5. CASE left = {} /\ bad # {} /\ CancelSession(s, sid) /\ todo' = [todo EXCEPT ![s] = {}]
    BY <1>2, <1>5, MakeAsks DEF CancelSession
  <1>6. QED
    BY <1>3, <1>4, <1>5 DEF Loop

\* What the rest of a sender may do in a step that asks something.
Rest(s) ==
  /\ offer' = offer
  /\ known' \in [Senders -> Calls \cup {None}]
  /\ todo' \in [Senders -> SUBSET FileIds]
  /\ sent' \in [Senders -> SUBSET FileIds]
  /\ refused' \in [Senders -> SUBSET FileIds]
  /\ broken' \in [Senders -> BOOLEAN]
  /\ \A t \in Senders \ {s} : known'[t] = known[t] /\ todo'[t] = todo[t]
  /\ known'[s] = known[s] \/ (stage[s] = "preparing" /\ known'[s] # None)

LEMMA AsksKeep ==
  ASSUME ClientInv, NEW s \in Senders, NEW next \in {"preparing", "uploading", "cancelling"},
         NEW m, Asks(s, next, m), Rest(s),
         next = "preparing" => calls[s] = 0,
         next = "uploading" =>
           calls[s] + 1 + Cardinality(todo'[s]) <= Cardinality(FileIds) + 1,
         next # "preparing" => known'[s] # None,
         next = "uploading" => m.op = "upload",
         m.op = "prepare" <=> calls[s] = 0,
         m.op = "prepare" => m.files = offer[s] /\ offer[s] # {},
         m.op = "upload" => \E f \in FileIds : m.files = {f},
         m.op # "prepare" => m.session = known'[s] /\ known'[s] # None
  PROVE  ClientInv'
  <1> USE CallsAssumption DEF ClientInv
  <1>1. calls \in [Senders -> Nat] /\ wire \in [Calls -> Message \cup {None}] /\ None \notin Message
    BY DEF ClientTypeOK
  <1>2. /\ calls'[s] = calls[s] + 1 /\ stage'[s] = next
        /\ \A t \in Senders \ {s} : calls'[t] = calls[t] /\ stage'[t] = stage[t]
    BY <1>1 DEF Asks, ClientTypeOK
  <1>3. /\ New(s) \in Calls /\ m \in Message
        /\ wire'[New(s)] = m
        /\ \A c \in Calls \ {New(s)} : wire'[c] = wire[c]
    BY <1>1 DEF Asks
  <1>4. ClientTypeOK'
    <2>1. /\ offer' \in Offers
          /\ stage' \in [Senders -> {"idle", "preparing", "uploading", "cancelling",
                                     "returned", "thrown"}]
          /\ calls' \in [Senders -> Nat]
          /\ wire' \in [Calls -> Message \cup {None}]
      BY <1>1 DEF Asks, Rest, ClientTypeOK
    <2>2. Current(s)' = New(s)
      BY <1>2 DEF Current, New
    <2>3. \A t \in Senders \ {s} : Waiting(t)' => Current(t)' \in Calls /\ wire'[Current(t)'] # None
      <3> SUFFICES ASSUME NEW t \in Senders \ {s}, Waiting(t)'
                   PROVE  Current(t)' \in Calls /\ wire'[Current(t)'] # None
        OBVIOUS
      <3>1. Waiting(t) /\ Current(t)' = Current(t) /\ Current(t) # New(s)
        BY <1>2 DEF Waiting, Current, New
      <3>2. QED
        BY <1>3, <3>1 DEF ClientTypeOK
    <2>4. \A t \in Senders : Waiting(t)' => Current(t)' \in Calls /\ wire'[Current(t)'] # None
      BY <1>1, <1>3, <2>2, <2>3
    <2>5. QED
      BY <2>1, <2>4 DEF ClientTypeOK, Rest
  <1>5. \A t \in Senders : Budget(t)' /\ Asked(t)'
    <2>a. Asked(s)' /\ \A t \in Senders \ {s} : Asked(t)'
      <3>1. Current(s)' = New(s) /\ \A t \in Senders \ {s} : Current(t)' = Current(t)
        BY <1>2 DEF Current, New
      <3>2. \A t \in Senders \ {s} : stage[t] = "uploading" => Current(t) \in Calls /\ Current(t) # New(s)
        BY DEF ClientTypeOK, Waiting, Current, New
      <3>3. QED
        BY <1>2, <1>3, <3>1, <3>2 DEF Asked
    <2>1. Budget(s)'
      BY <1>1, <1>2 DEF Budget
    <2>2. \A t \in Senders \ {s} : Budget(t)'
      BY <1>2 DEF Budget, Rest
    <2>3. QED
      BY <2>a, <2>1, <2>2
  <1>6. ASSUME NEW c \in Calls PROVE Wired(c)'
    <2>1. c[1] \in Senders /\ c[2] \in Nat /\ c[2] >= 1 /\ c = <<c[1], c[2]>>
      BY FilesFinite DEF Calls
    <2>2. CASE c = New(s)
      <3>1. c[1] = s /\ c[2] = calls[s] + 1
        BY <2>2 DEF New
      <3>2. c[2] <= calls'[c[1]] /\ (c[2] = 1 <=> calls[s] = 0) /\ wire'[c] = m
        BY <1>1, <1>2, <1>3, <2>2, <3>1
      <3>3. QED
        BY <3>1, <3>2 DEF Wired, Rest
    <2>3. CASE c # New(s)
      <3>1. wire'[c] = wire[c] /\ calls[c[1]] <= calls'[c[1]] /\ offer' = offer
        BY <1>1, <1>2, <1>3, <2>1, <2>3 DEF Rest
      <3>2. wire[c] # None /\ wire[c].op # "prepare" => known'[c[1]] = known[c[1]]
        <4> SUFFICES ASSUME wire[c] # None, wire[c].op # "prepare", c[1] = s, stage[s] = "preparing"
                     PROVE  FALSE
          BY <2>1 DEF Rest
        <4>1. c[2] <= 1 /\ c[2] # 1
          BY DEF Wired, Budget
        <4>2. QED
          BY <2>1, <4>1
      <3>3. calls[c[1]] \in Nat /\ calls'[c[1]] \in Nat
        BY <1>1, <1>2, <2>1
      <3>4. wire[c] # None => c[2] <= calls'[c[1]]
        BY <2>1, <3>1, <3>3 DEF Wired
      <3>5. QED
        BY <3>1, <3>2, <3>4 DEF Wired
    <2>4. QED
      BY <2>2, <2>3
  <1>7. QED
    BY <1>4, <1>5, <1>6

LEMMA EndsKeep ==
  ASSUME ClientInv, NEW s \in Senders, NEW how \in {"returned", "thrown"}, Rest(s),
         stage' = [stage EXCEPT ![s] = how], UNCHANGED <<calls, wire>>
  PROVE  ClientInv'
  <1> USE DEF ClientInv
  <1>1. stage'[s] = how /\ \A t \in Senders \ {s} : stage'[t] = stage[t]
    BY DEF ClientTypeOK
  <1>2. ClientTypeOK'
    BY <1>1 DEF ClientTypeOK, Rest, Waiting, Current
  <1>3. \A t \in Senders : Budget(t)' /\ Asked(t)'
    BY <1>1 DEF Budget, Asked, Current, Rest
  <1>4. ASSUME NEW c \in Calls PROVE Wired(c)'
    <2>1. c[1] \in Senders /\ c[2] \in Nat /\ c[2] >= 1
      BY FilesFinite DEF Calls
    <2>2. wire[c] # None /\ wire[c].op # "prepare" => known'[c[1]] = known[c[1]]
      <3> SUFFICES ASSUME wire[c] # None, wire[c].op # "prepare", c[1] = s, stage[s] = "preparing"
                   PROVE  FALSE
        BY <2>1 DEF Rest
      <3>1. c[2] <= 1 /\ c[2] # 1
        BY DEF Wired, Budget
      <3>2. QED
        BY <2>1, <3>1
    <2>3. QED
      BY <2>2 DEF Wired, Rest
  <1>5. QED
    BY <1>2, <1>3, <1>4

\* The loop goes on, or ends.
LEMMA LoopKeeps ==
  ASSUME ClientInv, NEW s \in Senders, NEW left \in SUBSET FileIds, NEW bad,
         calls[s] + Cardinality(left) <= Cardinality(FileIds) + 1, calls[s] >= 1,
         stage[s] \in {"preparing", "uploading"},
         known'[s] \in Calls, Loop(s, known'[s], left, bad),
         offer' = offer, broken' = broken,
         known' \in [Senders -> Calls \cup {None}],
         sent' \in [Senders -> SUBSET FileIds], refused' \in [Senders -> SUBSET FileIds],
         \A t \in Senders \ {s} : known'[t] = known[t],
         known'[s] = known[s] \/ stage[s] = "preparing"
  PROVE  ClientInv'
  <1> DEFINE sid == known'[s]
  <1>1. ClientTypeOK /\ sid # None /\ calls[s] \in Nat
    BY CallsAssumption DEF ClientInv, ClientTypeOK
  <1>2. \/ \E f \in left :
             /\ Asks(s, "uploading", [op |-> "upload", session |-> sid, files |-> {f}])
             /\ todo' = [todo EXCEPT ![s] = left \ {f}]
             /\ calls[s] + 1 + Cardinality(left \ {f}) <= Cardinality(FileIds) + 1
        \/ /\ left = {} /\ bad = {} /\ todo' = [todo EXCEPT ![s] = {}]
           /\ stage' = [stage EXCEPT ![s] = "returned"] /\ UNCHANGED <<calls, wire>>
        \/ /\ left = {} /\ bad # {} /\ todo' = [todo EXCEPT ![s] = {}]
           /\ Asks(s, "cancelling", [op |-> "cancel", session |-> sid, files |-> {}])
    BY <1>1, LoopCases
  <1>3. ASSUME NEW rest \in SUBSET FileIds, todo' = [todo EXCEPT ![s] = rest]
        PROVE  Rest(s) /\ todo'[s] = rest
    BY <1>1, <1>3 DEF Rest, ClientTypeOK
  <1>4. ASSUME NEW f \in left,
               Asks(s, "uploading", [op |-> "upload", session |-> sid, files |-> {f}]),
               todo' = [todo EXCEPT ![s] = left \ {f}],
               calls[s] + 1 + Cardinality(left \ {f}) <= Cardinality(FileIds) + 1
        PROVE  ClientInv'
    <2> DEFINE rest == left \ {f}
    <2>a. rest \in SUBSET FileIds /\ todo' = [todo EXCEPT ![s] = rest]
      BY <1>4
    <2> HIDE DEF rest
    <2>1. Rest(s) /\ todo'[s] = rest
      BY <1>3, <2>a
    <2> USE DEF rest
    <2> DEFINE m == [op |-> "upload", session |-> sid, files |-> {f}]
    <2>2. m.op = "upload" /\ m.session = sid /\ m.files = {f} /\ calls[s] # 0
      BY <1>1
    <2>3. Asks(s, "uploading", m)
      BY <1>4
    <2> HIDE DEF m
    <2>4. QED
      BY <1>1, <1>4, <2>1, <2>2, <2>3, AsksKeep
  <1>5. ASSUME Asks(s, "cancelling", [op |-> "cancel", session |-> sid, files |-> {}]),
               todo' = [todo EXCEPT ![s] = {}]
        PROVE  ClientInv'
    <2>1. Rest(s)
      <3>1. {} \in SUBSET FileIds
        OBVIOUS
      <3>2. QED
        BY <1>3, <1>5, <3>1
    <2> DEFINE m == [op |-> "cancel", session |-> sid, files |-> {}]
    <2>2. m.op = "cancel" /\ m.session = sid /\ calls[s] # 0
      BY <1>1
    <2>3. Asks(s, "cancelling", m)
      BY <1>5
    <2> HIDE DEF m
    <2>4. QED
      BY <1>1, <2>1, <2>2, <2>3, AsksKeep
  <1>6. ASSUME todo' = [todo EXCEPT ![s] = {}], stage' = [stage EXCEPT ![s] = "returned"],
               UNCHANGED <<calls, wire>>
        PROVE  ClientInv'
    <2>1. {} \in SUBSET FileIds
      OBVIOUS
    <2>2. Rest(s)
      BY <1>3, <1>6, <2>1
    <2>3. QED
      BY <1>6, <2>2, EndsKeep
  <1>7. QED
    BY <1>2, <1>4, <1>5, <1>6

\* What a sender may hear.
Hears(s) ==
  \/ \E code \in Nat, sid \in Calls \cup {None}, tokens \in SUBSET FileIds :
       HearPrepared(s, code, sid, tokens)
  \/ \E code \in Nat : HearUploaded(s, code)
  \/ AfterCancel(s)

LEMMA ClientStep ==
  ASSUME ClientInv, NEW s \in Senders, SenderAlone(s) \/ Hears(s)
  PROVE  ClientInv'
  <1>1. ClientTypeOK /\ Budget(s) /\ calls[s] \in Nat
    BY DEF ClientInv, ClientTypeOK
  <1>2. UNCHANGED <<offer, known, todo, sent, refused, broken>> => Rest(s)
    BY <1>1 DEF Rest, ClientTypeOK
  <1>3. offer[s] \in SUBSET FileIds
    BY <1>1, OffersAssumption DEF ClientTypeOK
  <1>4. Waiting(s) => calls[s] >= 1 /\ Underway(s) \subseteq FileIds
    BY <1>1, FilesFinite DEF ClientTypeOK, Current, Calls, Underway, Message, Waiting
  <1>5. CASE Begin(s)
    <2> DEFINE m == [op |-> "prepare", session |-> None, files |-> offer[s]]
    <2>1. calls[s] = 0 /\ offer[s] # {} /\ Rest(s)
      BY <1>1, <1>2, <1>5 DEF Begin, Budget
    <2>2. Asks(s, "preparing", m)
      BY <1>1, <1>3, <1>5, <2>1, FilesFinite, MakeAsks DEF Begin
    <2>3. m.op = "prepare" /\ m.files = offer[s]
      OBVIOUS
    <2> HIDE DEF m
    <2>4. QED
      BY <1>1, <2>1, <2>2, <2>3, AsksKeep
  <1>6. CASE CannotBegin(s) \/ AfterCancel(s) \/ (stage[s] = "preparing" /\ CallFails(s))
    <2>1. PICK how \in {"returned", "thrown"} : stage' = [stage EXCEPT ![s] = how]
      BY <1>6 DEF CannotBegin, AfterCancel, CallFails, End
    <2>2. Rest(s) /\ UNCHANGED <<calls, wire>>
      BY <1>2, <1>6 DEF CannotBegin, AfterCancel, CallFails, End
    <2>3. QED
      BY <2>1, <2>2, EndsKeep
  <1>7. CASE stage[s] = "uploading" /\ CallFails(s)
    <2> DEFINE m == [op |-> "cancel", session |-> known[s], files |-> {}]
    <2>1. CancelSession(s, known[s]) /\ Rest(s)
      BY <1>1, <1>7 DEF CallFails, AfterCancel, Rest, ClientTypeOK
    <2>2. known[s] \in Calls /\ known[s] # None /\ known'[s] = known[s] /\ calls[s] # 0
      BY <1>1, <1>4, <1>7, CallsAssumption DEF Budget, ClientTypeOK, CallFails, AfterCancel, Waiting
    <2>3. calls[s] <= Cardinality(FileIds) + 1
      BY <1>1, <1>7, FilesFinite DEF Budget, ClientTypeOK
    <2>4. Asks(s, "cancelling", m)
      BY <1>1, <2>1, <2>2, <2>3, MakeAsks DEF CancelSession
    <2>5. m.op = "cancel" /\ m.session = known[s]
      OBVIOUS
    <2> HIDE DEF m
    <2>6. QED
      BY <2>1, <2>2, <2>4, <2>5, AsksKeep
  <1>8. ASSUME NEW code \in Nat, NEW sid \in Calls \cup {None}, NEW tokens \in SUBSET FileIds,
               HearPrepared(s, code, sid, tokens)
        PROVE  ClientInv'
    <2>1. CASE code = 200 /\ sid # None
      <3>1. /\ known' = [known EXCEPT ![s] = sid] /\ Loop(s, sid, tokens \cap offer[s], {})
            /\ UNCHANGED <<offer, sent, refused, broken>> /\ stage[s] = "preparing"
        BY <1>8, <2>1 DEF HearPrepared
      <3>2. calls[s] = 1 /\ known'[s] = sid
        BY <1>1, <3>1 DEF Budget, ClientTypeOK
      <3>3. tokens \cap offer[s] \in SUBSET FileIds
        OBVIOUS
      <3>4. calls[s] + Cardinality(tokens \cap offer[s]) <= Cardinality(FileIds) + 1
        BY <3>2, <3>3, FilesFinite
      <3>5. QED
        BY <1>1, <2>1, <3>1, <3>2, <3>3, <3>4, LoopKeeps DEF ClientTypeOK
    <2>2. CASE ~(code = 200 /\ sid # None)
      <3>1. PICK how \in {"returned", "thrown"} : stage' = [stage EXCEPT ![s] = how]
        BY <1>8, <2>2 DEF HearPrepared, End
      <3>2. Rest(s) /\ UNCHANGED <<calls, wire>>
        BY <1>2, <1>8, <2>2 DEF HearPrepared, End
      <3>3. QED
        BY <3>1, <3>2, EndsKeep
    <2>3. QED
      BY <2>1, <2>2
  <1>9. ASSUME NEW code \in Nat, HearUploaded(s, code)
        PROVE  ClientInv'
    <2>1. /\ stage[s] = "uploading" /\ Loop(s, known[s], todo[s], refused'[s])
          /\ UNCHANGED <<offer, known, broken>>
      BY <1>9 DEF HearUploaded
    <2>2. sent' \in [Senders -> SUBSET FileIds] /\ refused' \in [Senders -> SUBSET FileIds]
      BY <1>1, <1>4, <1>9 DEF HearUploaded, ClientTypeOK, Waiting
    <2>3. known[s] \in Calls /\ todo[s] \in SUBSET FileIds /\ calls[s] >= 1
      BY <1>1, <1>4, <2>1 DEF Budget, ClientTypeOK, Waiting
    <2>4. calls[s] + Cardinality(todo[s]) <= Cardinality(FileIds) + 1
      BY <1>1, <2>1 DEF Budget
    <2>5. QED
      BY <1>1, <2>1, <2>2, <2>3, <2>4, LoopKeeps DEF ClientTypeOK
  <1>10. QED
    BY <1>5, <1>6, <1>7, <1>8, <1>9 DEF SenderAlone, Hears, CallFails, AfterCancel

LEMMA ClientSame == ClientInv /\ UNCHANGED clientVars => ClientInv'
  BY DEF ClientInv, ClientTypeOK, Budget, Asked, Wired, Waiting, Current, clientVars

-----------------------------------------------------------------------------
(* Types, and the window *)

Shape == elsewhere \in Abroad /\ ClientInv /\ Window!TypeOK

LEMMA SameTypes == Window!TypeOK <=> Receiver!TypeOK
  BY DEF Window!TypeOK, Receiver!TypeOK, Window!Outcomes, Receiver!Outcomes

LEMMA SameInit == Window!Init <=> Receiver!Init
  BY DEF Window!Init, Receiver!Init

\* The network brings a window nothing that a window may not meet.
LEMMA NetworkMoves ==
  ASSUME ClientInv, NEW r \in Calls, Network(r)
  PROVE  Receiver!Next
  <1>1. /\ wire[r] \in Message /\ Owner(r) \in Senders
        /\ wire[r].op = "prepare" => wire[r].files \in (SUBSET FileIds) \ {{}}
        /\ wire[r].session \in Calls \cup {None} /\ wire[r].files \subseteq FileIds
    BY FilesFinite DEF Network, ClientInv, ClientTypeOK, Wired, Owner, Calls, Message
  <1>2. CASE Receiver!ConnectFrom(r, Home[Owner(r)])
    BY <1>1, <1>2 DEF Addresses, Receiver!AnyConnect, Receiver!Peer, Receiver!Next
  <1>3. CASE \/ Receiver!Flush(r) \/ Receiver!EndBody(r) \/ Receiver!WriteFails(r)
             \/ Receiver!Disconnect(r)
    BY <1>3 DEF Receiver!Peer, Receiver!Next
  <1>4. CASE \E pinMatches \in BOOLEAN : Receiver!Prepare(r, pinMatches)
    BY <1>4 DEF Receiver!AnyPrepare, Receiver!Peer, Receiver!Next
  <1>5. CASE wire[r].op = "prepare" /\ Receiver!OpenSession(r, wire[r].files)
    BY <1>1, <1>5 DEF Receiver!AnyOpening, Receiver!Peer, Receiver!Next
  <1>6. CASE \E f \in wire[r].files : Receiver!Upload(r, wire[r].session, f, TRUE)
    BY <1>1, <1>6 DEF Receiver!AnyUpload, Receiver!Peer, Receiver!Next
  <1>7. CASE Receiver!Cancel(r, wire[r].session)
    BY <1>1, <1>7 DEF Receiver!AnyCancel, Receiver!Peer, Receiver!Next
  <1>8. QED
    BY <1>2, <1>3, <1>4, <1>5, <1>6, <1>7 DEF Network

LEMMA WindowMoves == Shape /\ [Next]_vars => [Window!Next]_(Window!vars)
  <1> SUFFICES ASSUME Shape, [Next]_vars PROVE Window!Next \/ UNCHANGED Window!vars
    OBVIOUS
  <1>1. CASE UNCHANGED receiverVars
    BY <1>1, SameVars
  <1>2. CASE \E r \in Calls : Network(r)
    BY <1>2, NetworkMoves, SameNext DEF Shape
  <1>3. CASE Process
    BY <1>3, SameNext DEF Process, Receiver!Window, Receiver!Next
  <1>4. QED
    BY <1>1, <1>2, <1>3 DEF Next, vars, Alone, Answered, Elsewhere

\* What the window answers is something a sender may hear.
LEMMA AnswersAreHeard ==
  ASSUME Shape, NEW s \in Senders, Answered(s) \/ Elsewhere(s)
  PROVE  Hears(s)
  <1>1. ClientTypeOK
    BY DEF Shape, ClientInv
  <1>2. CASE Answered(s)
    <2>1. Current(s) \in Calls
      BY <1>1, <1>2 DEF Answered, ClientTypeOK
    <2>2. /\ status[Current(s)] \in Nat
          /\ ask[Current(s)].session \in Calls \cup {None}
          /\ ask[Current(s)].files \subseteq FileIds
      BY <2>1 DEF Shape, Window!TypeOK
    <2>3. QED
      BY <1>2, <2>2 DEF Answered, Hears
  <1>3. CASE Elsewhere(s)
    <2>1. \A code, sid, tokens : HearPrepared(s, code, sid, tokens) => Current(s) \in Calls
      BY <1>1 DEF HearPrepared, ClientTypeOK, Waiting
    <2>2. QED
      BY <1>3, <2>1 DEF Elsewhere, AnyPeer, Hears
  <1>4. QED
    BY <1>2, <1>3

\* Seen from the senders, a step is one of a sender's or none.
LEMMA SenderMoves ==
  ASSUME Shape, [Next]_vars
  PROVE  \/ UNCHANGED clientVars
         \/ \E s \in Senders : Alone(s) \/ (s \in Here /\ Answered(s)) \/ (s \in elsewhere /\ Elsewhere(s))
  BY AbroadAssumption DEF Shape, Next, vars, Network, Process, Here

LEMMA ShapeInit == Init => Shape
  <1> SUFFICES ASSUME Init PROVE Shape
    OBVIOUS
  <1>1. Window!TypeOK
    BY SameInit, CallsAssumption DEF Init, Window!Init, Window!TypeOK
  <1>2. ClientInv
    BY DEF Init, ClientInit, ClientInv, ClientTypeOK, Budget, Asked, Wired, Waiting
  <1>3. QED
    BY <1>1, <1>2 DEF Init, Shape

LEMMA ShapeStep == Shape /\ [Next]_vars => Shape'
  <1> SUFFICES ASSUME Shape, [Next]_vars PROVE Shape'
    OBVIOUS
  <1>1. Window!TypeOK'
    BY WindowMoves, WindowAssumptions, Window!TypeStep DEF Shape
  <1>2. elsewhere' \in Abroad
    BY DEF Shape, Next, vars
  <1>3. ClientInv'
    <2>1. CASE UNCHANGED clientVars
      BY <2>1, ClientSame DEF Shape
    <2>2. ASSUME NEW s \in Senders, Alone(s) \/ Answered(s) \/ Elsewhere(s)
          PROVE  ClientInv'
      BY <2>2, AnswersAreHeard, ClientStep DEF Shape, Alone
    <2>3. QED
      BY <2>1, <2>2, SenderMoves
  <1>4. QED
    BY <1>1, <1>2, <1>3 DEF Shape

LEMMA ShapeHolds == Spec => []Shape
  BY ShapeInit, ShapeStep, PTL DEF Spec

\* Every variable of a transfer keeps its type; no sender runs out of calls.
THEOREM TransferTypes == Spec => []TypeOK
  <1>1. Shape => TypeOK
    BY SameTypes DEF Shape, TypeOK, ClientInv
  <1>2. QED
    BY <1>1, ShapeHolds, PTL

\* Among any senders and whatever the network does to their calls, the window
\* behaves as ReceiveServer says.
THEOREM WindowInside == Spec => Receiver!Spec
  <1>1. Init => Receiver!Init
    BY DEF Init
  <1>2. Shape /\ [Next]_vars => [Receiver!Next]_(Receiver!vars)
    <2>1. UNCHANGED Receiver!vars <=> UNCHANGED Window!vars
      BY DEF Receiver!vars, Receiver!window, Receiver!shared, Receiver!requests,
             Window!vars, Window!window, Window!shared, Window!requests
    <2>2. QED
      BY <2>1, WindowMoves, SameNext
  <1>3. QED
    BY <1>1, <1>2, ShapeHolds, PTL DEF Spec, Receiver!Spec

\* What is proved of a window holds of this one.
LEMMA WindowInv == Spec => []Window!Inv
  <1>1. Init => Window!Init
    BY SameInit DEF Init
  <1>2. Spec => Window!Spec
    BY <1>1, ShapeHolds, WindowMoves, PTL DEF Spec, Window!Spec
  <1>3. Window!Spec => []Window!Inv
    BY WindowAssumptions, Window!InvHolds
  <1>4. QED
    BY <1>2, <1>3

-----------------------------------------------------------------------------
(* The window's handlers do what their calls ask *)

PrepareMatch(c) ==
  /\ step[c] \in {"idle", "body", "replying", "answered", "dropped"}
  /\ ask[c].session = None \/ (ask[c].session = c /\ ask[c].files = wire[c].files)
  /\ status[c] = 200 => ask[c].session = c

UploadMatch(c) ==
  /\ step[c] \notin {"hello", "body"}
  /\ ask[c].session = None \/ (ask[c].session = wire[c].session /\ ask[c].files = wire[c].files)
  /\ status[c] = 200 => c \in files

\* A cancel that is answered names the one session there was.
CancelMatch(c) ==
  /\ step[c] \in {"idle", "replying", "answered", "dropped"}
  /\ ask[c].session = None
  /\ Window!SingleSession /\ step[c] \in {"replying", "answered"} => closes[c] = "cancelled"

Match(c) ==
  /\ step[c] # "idle" => wire[c] # None /\ Owner(c) \in Here
  /\ wire[c] # None =>
       \/ wire[c].op = "prepare" /\ PrepareMatch(c)
       \/ wire[c].op = "upload" /\ UploadMatch(c)
       \/ wire[c].op = "cancel" /\ CancelMatch(c)

\* A sender that talks to the window knows the session that its first call
\* opened there, and nothing before.
Knows(s) ==
  /\ known[s] # None => known[s] = <<s, 1>> /\ known[s] \in Calls /\ Window!Opened(known[s])
  /\ stage[s] \in {"idle", "preparing"} => known[s] = None /\ sent[s] = {} /\ refused[s] = {}

Matching == (\A c \in Calls : Match(c)) /\ (\A s \in Here : Knows(s))

\* A step of a sender gives at most one call, a new one, something to ask.
LEMMA WireGrows ==
  ASSUME ClientInv, NEW s \in Senders, SenderAlone(s) \/ Hears(s)
  PROVE  \A c \in Calls : wire'[c] = wire[c] \/ (wire[c] = None /\ c = New(s))
  <1>1. New(s) \in Calls => wire[New(s)] = None
    BY FilesFinite DEF ClientInv, ClientTypeOK, Wired, New
  <1>2. wire' = wire \/ \E m : wire' = [wire EXCEPT ![New(s)] = m]
    BY DEF SenderAlone, Hears, Begin, CannotBegin, CallFails, HearPrepared, HearUploaded,
           AfterCancel, Loop, CancelSession, Make, End, New
  <1>3. QED
    BY <1>1, <1>2 DEF ClientInv, ClientTypeOK

LEMMA SinglesStay ==
  Window!TypeOK /\ Window!Staying /\ Window!SingleSession' => Window!SingleSession
  BY DEF Window!TypeOK, Window!Staying, Window!SingleSession, Window!Opened

\* What the window does not touch still matches.
LEMMA MatchKept ==
  ASSUME NEW c \in Calls, Match(c), Window!TypeOK, Window!Staying,
         wire'[c] = wire[c], Here' = Here,
         step'[c] = step[c], ask'[c] = ask[c], status'[c] = status[c], closes'[c] = closes[c]
  PROVE  Match(c)'
  BY SinglesStay DEF Match, PrepareMatch, UploadMatch, CancelMatch, Window!Staying, Owner

\* A request touches its own entries only.
OwnOnly(r) ==
  \A c \in Calls \ {r} :
    step'[c] = step[c] /\ ask'[c] = ask[c] /\ status'[c] = status[c] /\ closes'[c] = closes[c]

LEMMA TouchesOwn ==
  ASSUME Window!TypeOK, NEW r \in Calls, Network(r) \/ Receiver!Handler(r)
  PROVE  OwnOnly(r)
  <1> USE DEF OwnOnly, Window!TypeOK
  <1>1. CASE \/ Receiver!ConnectFrom(r, Home[Owner(r)]) \/ Receiver!Flush(r)
             \/ Receiver!EndBody(r) \/ Receiver!WriteFails(r) \/ Receiver!Disconnect(r)
    <2>1. CASE Receiver!ConnectFrom(r, Home[Owner(r)])
      <3>1. UNCHANGED <<step, status, closes>> /\ \A c \in Calls \ {r} : ask'[c] = ask[c]
        BY <2>1 DEF Receiver!ConnectFrom
      <3>2. QED
        BY <3>1
    <2>2. CASE Receiver!Flush(r) \/ Receiver!EndBody(r) \/ Receiver!WriteFails(r) \/ Receiver!Disconnect(r)
      <3>1. /\ UNCHANGED <<ask, status, closes>>
            /\ step' = step \/ \E next : step' = [step EXCEPT ![r] = next]
        BY <2>2 DEF Receiver!Flush, Receiver!EndBody, Receiver!WriteFails,
                    Receiver!Disconnect, Receiver!Await
      <3>2. QED
        BY <3>1
    <2>3. QED
      BY <1>1, <2>1, <2>2
  <1>2. CASE \/ \E pinMatches \in BOOLEAN : Receiver!Prepare(r, pinMatches)
             \/ Receiver!OpenSession(r, wire[r].files)
             \/ Receiver!Cancel(r, wire[r].session)
    <2>1. CASE \E pinMatches \in BOOLEAN : Receiver!Prepare(r, pinMatches)
      BY <2>1 DEF Receiver!Prepare, Receiver!Await, Receiver!Reply
    <2>2. CASE Receiver!OpenSession(r, wire[r].files)
      BY <2>2 DEF Receiver!OpenSession, Receiver!Admit, Receiver!Reply
    <2>3. CASE Receiver!Cancel(r, wire[r].session)
      BY <2>3 DEF Receiver!Cancel, Receiver!Reply
    <2>4. QED
      BY <1>2, <2>1, <2>2, <2>3
  <1>3. CASE \E f \in wire[r].files : Receiver!Upload(r, wire[r].session, f, TRUE)
    <2>1. PICK f \in wire[r].files : Receiver!Upload(r, wire[r].session, f, TRUE)
      BY <1>3
    <2>2. \/ Receiver!Await(r, "writing") /\ Receiver!Admit(r, wire[r].session, {f})
          \/ ask' = ask /\ \E code : Receiver!Reply(r, code)
      BY <2>1 DEF Receiver!Upload
    <2>3. closes' = closes
      BY <2>1 DEF Receiver!Upload
    <2>4. QED
      BY <2>2, <2>3 DEF Receiver!Await, Receiver!Reply, Receiver!Admit
  <1>4. CASE Receiver!Handler(r)
    BY <1>4 DEF Receiver!Handler, Receiver!ReadFails, Receiver!FlushFails, Receiver!Stored,
                Receiver!StoreFails, Receiver!Discarded, Receiver!Await, Receiver!Reply,
                Receiver!window, Receiver!shared
  <1>5. QED
    BY <1>1, <1>2, <1>3, <1>4 DEF Network

\* The entries of one call.
Entries(r) ==
  /\ step[r] \in {"idle", "hello", "body", "writing", "ending", "discarding", "replying",
                  "answered", "dropped"}
  /\ step[r] \in {"idle", "hello", "body"} => ask[r].session = None
  /\ step[r] \in {"idle", "hello", "body", "writing", "ending", "discarding"} =>
       status[r] = 0 /\ closes[r] = "pending"

LEMMA NetworkMatch ==
  ASSUME Shape, Window!Life, Window!SessionOpened, Window!Staying, Matching,
         NEW r \in Calls, Owner(r) \in Here, Network(r), wire' = wire, Here' = Here
  PROVE  Match(r)'
  <1>1. /\ Entries(r) /\ r # None
        /\ wire[r] \in Message /\ wire[r] # None
        /\ wire[r].op = "upload" => \E g \in FileIds : wire[r].files = {g}
    BY CallsAssumption
    DEF Entries, Shape, ClientInv, ClientTypeOK, Wired, Window!Life, Window!LifeOf, Window!TypeOK, Network
  <1>2. Match(r) /\ Knows(Owner(r))
    BY DEF Matching
  <1> USE DEF Window!TypeOK, Shape, Match, PrepareMatch, UploadMatch, CancelMatch, Entries, Owner
  <1>3. CASE \/ Receiver!ConnectFrom(r, Home[Owner(r)]) \/ Receiver!Disconnect(r)
    <2>1. /\ step' = step /\ status' = status /\ closes' = closes /\ files' = files
          /\ ask'[r].session = ask[r].session /\ ask'[r].files = ask[r].files
      BY <1>3 DEF Receiver!ConnectFrom, Receiver!Disconnect, Receiver!window, Receiver!shared
    <2>2. QED
      BY <1>1, <1>2, <2>1, SinglesStay
  <1>4. CASE Receiver!Flush(r)
    <2>1. /\ step[r] = "replying" /\ step'[r] = "answered"
          /\ UNCHANGED <<ask, status, closes, files>>
      BY <1>4 DEF Receiver!Flush, Receiver!shared
    <2>2. QED
      BY <1>1, <1>2, <2>1, SinglesStay
  <1>5. CASE wire[r].op = "prepare" /\ \E pinMatches \in BOOLEAN : Receiver!Prepare(r, pinMatches)
    BY <1>1, <1>2, <1>5
    DEF Receiver!Prepare, Receiver!Arrives, Receiver!PrepareVerdict, Receiver!GoOn, Receiver!Await,
        Receiver!Reply, Receiver!window
  <1>6. CASE wire[r].op = "prepare" /\ Receiver!OpenSession(r, wire[r].files)
    BY <1>1, <1>2, <1>6
    DEF Receiver!OpenSession, Receiver!Admit, Receiver!Reply, Receiver!window
  <1>7. CASE wire[r].op = "upload" /\ \E f \in wire[r].files : Receiver!Upload(r, wire[r].session, f, TRUE)
    <2>1. PICK f \in wire[r].files : Receiver!Upload(r, wire[r].session, f, TRUE)
      BY <1>7
    <2>2. wire[r].files = {f}
      BY <1>1, <1>7
    <2>3. step[r] = "idle" /\ UNCHANGED <<files, closes>>
      BY <2>1 DEF Receiver!Upload, Receiver!Arrives, Receiver!shared
    <2>4. \/ /\ ask'[r].session = wire[r].session /\ ask'[r].files = {f}
             /\ step'[r] = "writing" /\ status'[r] = 0
          \/ /\ ask'[r] = ask[r] /\ step'[r] \in {"replying", "dropped"} /\ status'[r] # 200
      BY <1>1, <2>1, <2>3
      DEF Receiver!Upload, Receiver!UploadVerdict, Receiver!GoOn, Receiver!Await, Receiver!Reply,
          Receiver!Admit
    <2>5. QED
      BY <1>1, <1>7, <2>2, <2>3, <2>4
  <1>8. CASE /\ wire[r].op = "upload"
             /\ Receiver!EndBody(r) \/ Receiver!WriteFails(r)
    BY <1>1, <1>2, <1>8 DEF Receiver!EndBody, Receiver!WriteFails, Receiver!Await,
                            Receiver!window, Receiver!shared
  <1>9. CASE wire[r].op = "cancel" /\ Receiver!Cancel(r, wire[r].session)
    <2>1. /\ step[r] = "idle" /\ UNCHANGED <<ask, files>> /\ step'[r] \in {"replying", "dropped"}
          /\ closes'[r] = IF session # None /\ wire[r].session \in {session, None}
                          THEN "cancelled" ELSE "pending"
      BY <1>9 DEF Receiver!Cancel, Receiver!Arrives, Receiver!Reply, Receiver!window, Receiver!shared
    <2>2. wire[r].session = known[Owner(r)] /\ known[Owner(r)] # None
      BY <1>1, <1>9 DEF ClientInv, Wired
    <2>3. Window!Opened(known[Owner(r)]) /\ known[Owner(r)] \in Calls
      BY <1>2, <2>2 DEF Knows
    <2>4. session # None /\ session \in Calls /\ Window!Opened(session)
      BY <2>3 DEF Window!SessionOpened
    <2>5. Window!SingleSession => closes'[r] = "cancelled"
      BY <2>1, <2>2, <2>3, <2>4 DEF Window!SingleSession
    <2>6. QED
      BY <1>1, <1>9, <2>1, <2>5, SinglesStay
  <1>10. QED
    BY <1>3, <1>4, <1>5, <1>6, <1>7, <1>8, <1>9 DEF Network

LEMMA HandlerMatch ==
  ASSUME Shape, Window!Life, Window!Staying, Matching,
         NEW r \in Calls, Receiver!Handler(r), wire' = wire, Here' = Here
  PROVE  Match(r)'
  <1>1. Entries(r) /\ Match(r) /\ step[r] # "idle"
    BY DEF Entries, Shape, Window!Life, Window!LifeOf, Window!TypeOK, Matching, Receiver!Handler,
           Receiver!ReadFails, Receiver!FlushFails, Receiver!Stored, Receiver!StoreFails,
           Receiver!Discarded
  <1> USE DEF Window!TypeOK, Shape, Match, PrepareMatch, UploadMatch, CancelMatch, Entries, Owner
  <1>2. CASE Receiver!ReadFails(r)
    BY <1>1, <1>2 DEF Receiver!ReadFails, Receiver!Reply, Receiver!Await, Receiver!window, Receiver!shared
  <1>3. CASE Receiver!FlushFails(r)
    BY <1>1, <1>3 DEF Receiver!FlushFails, Receiver!shared
  <1>4. CASE Receiver!Stored(r)
    BY <1>1, <1>4 DEF Receiver!Stored, Receiver!Reply, Receiver!window
  <1>5. CASE Receiver!StoreFails(r) \/ Receiver!Discarded(r)
    BY <1>1, <1>5 DEF Receiver!StoreFails, Receiver!Discarded, Receiver!Reply, Receiver!Await,
                      Receiver!window, Receiver!shared
  <1>6. QED
    BY <1>2, <1>3, <1>4, <1>5 DEF Receiver!Handler

\* A sender's step is its own.
OthersSame(s) ==
  /\ offer' = offer
  /\ \A t \in Senders \ {s} :
       /\ stage'[t] = stage[t] /\ calls'[t] = calls[t] /\ known'[t] = known[t]
       /\ todo'[t] = todo[t] /\ sent'[t] = sent[t] /\ refused'[t] = refused[t]
       /\ broken'[t] = broken[t]

LEMMA LoopIsOwn ==
  ASSUME ClientTypeOK, NEW s \in Senders, NEW sid, NEW left, NEW bad, Loop(s, sid, left, bad)
  PROVE  \A t \in Senders \ {s} :
           stage'[t] = stage[t] /\ calls'[t] = calls[t] /\ todo'[t] = todo[t]
  BY DEF Loop, Make, End, CancelSession, ClientTypeOK

LEMMA LoopMovesOn ==
  ASSUME ClientTypeOK, NEW s \in Senders, NEW sid, NEW left, NEW bad, Loop(s, sid, left, bad)
  PROVE  stage'[s] \in {"uploading", "cancelling", "returned"}
  BY DEF Loop, Make, End, CancelSession, ClientTypeOK

LEMMA SenderIsOwn ==
  ASSUME ClientTypeOK, NEW s \in Senders, SenderAlone(s) \/ Hears(s)
  PROVE  OthersSame(s)
  <1> USE DEF ClientTypeOK, OthersSame
  <1>1. CASE SenderAlone(s) \/ AfterCancel(s)
    BY <1>1 DEF SenderAlone, Begin, CannotBegin, CallFails, AfterCancel, CancelSession, Make, End
  <1>2. ASSUME NEW code, NEW sid, NEW tokens, HearPrepared(s, code, sid, tokens)
        PROVE  OthersSame(s)
    BY <1>2, LoopIsOwn DEF HearPrepared, End
  <1>3. ASSUME NEW code, HearUploaded(s, code)
        PROVE  OthersSame(s)
    BY <1>3, LoopIsOwn DEF HearUploaded
  <1>4. QED
    BY <1>1, <1>2, <1>3 DEF Hears

\* The step of a sender, whether the window answers it or another device.
SenderStep(s) ==
  /\ Alone(s) \/ (s \in Here /\ Answered(s)) \/ (s \in elsewhere /\ Elsewhere(s))
  /\ UNCHANGED elsewhere

LEMMA StepCases ==
  ASSUME Shape, [Next]_vars
  PROVE  \/ \E s \in Senders : SenderStep(s)
         \/ \E r \in Calls : Owner(r) \in Here /\ Network(r) /\ UNCHANGED elsewhere
         \/ Process /\ UNCHANGED elsewhere
         \/ UNCHANGED vars
  BY AbroadAssumption DEF Shape, Next, SenderStep, Here

LEMMA SenderStepFacts ==
  ASSUME Shape, NEW s \in Senders, SenderStep(s)
  PROVE  /\ SenderAlone(s) \/ Hears(s)
         /\ UNCHANGED receiverVars /\ Here' = Here
         /\ \A c \in Calls : wire'[c] = wire[c] \/ (wire[c] = None /\ c = New(s))
         /\ OthersSame(s)
  <1>1. SenderAlone(s) \/ Hears(s)
    BY AnswersAreHeard DEF SenderStep, Alone
  <1>2. UNCHANGED receiverVars /\ Here' = Here
    BY DEF SenderStep, Alone, Answered, Elsewhere, Here
  <1>3. QED
    BY <1>1, <1>2, WireGrows, SenderIsOwn DEF Shape, ClientInv

LEMMA MatchStep ==
  ASSUME Shape, Window!Inv, Window!Staying, Matching, [Next]_vars
  PROVE  \A c \in Calls : Match(c)'
  <1> USE DEF Matching
  <1>1. Window!TypeOK /\ Window!Life /\ Window!SessionOpened
    BY DEF Window!Inv
  <1>2. ASSUME NEW s \in Senders, SenderStep(s), NEW c \in Calls PROVE Match(c)'
    <2>1. UNCHANGED <<step, ask, status, closes, files>> /\ Here' = Here
      BY <1>2, SenderStepFacts DEF receiverVars
    <2>2. CASE wire'[c] = wire[c]
      BY <1>1, <2>1, <2>2, MatchKept
    <2>3. CASE wire[c] = None
      <3>1. step[c] = "idle" /\ Window!LifeOf(c)
        BY <1>1, <2>3 DEF Match, Window!Life
      <3>2. ask[c].session = None /\ status[c] = 0
        BY <3>1 DEF Window!LifeOf
      <3>3. wire'[c] # None => wire'[c].op \in {"prepare", "upload", "cancel"}
        BY <1>2, ShapeStep DEF Shape, ClientInv, ClientTypeOK, Message, SenderStep, Next
      <3>4. QED
        BY <2>1, <3>1, <3>2, <3>3 DEF Match, PrepareMatch, UploadMatch, CancelMatch
    <2>4. QED
      BY <1>2, <2>2, <2>3, SenderStepFacts
  <1>3. ASSUME NEW r \in Calls, Owner(r) \in Here, Network(r), UNCHANGED elsewhere,
               NEW c \in Calls
        PROVE  Match(c)'
    <2>1. wire' = wire /\ Here' = Here
      BY <1>3 DEF Network, Here, clientVars
    <2>2. CASE c = r
      BY <1>1, <1>3, <2>1, <2>2, NetworkMatch
    <2>3. CASE c # r
      BY <1>1, <1>3, <2>1, <2>3, TouchesOwn, MatchKept DEF OwnOnly
    <2>4. QED
      BY <2>2, <2>3
  <1>4. ASSUME Process, UNCHANGED elsewhere, NEW c \in Calls PROVE Match(c)'
    <2>1. wire' = wire /\ Here' = Here
      BY <1>4 DEF Process, Here, clientVars
    <2>2. ASSUME NEW r \in Calls, Receiver!Handler(r) PROVE Match(c)'
      <3>1. CASE c = r
        BY <1>1, <2>1, <2>2, <3>1, HandlerMatch
      <3>2. CASE c # r
        BY <1>1, <2>1, <2>2, <3>2, TouchesOwn, MatchKept DEF OwnOnly
      <3>3. QED
        BY <3>1, <3>2
    <2>3. CASE \/ Receiver!Start \/ Receiver!StartFails \/ Receiver!TimeoutFires
               \/ Receiver!ServerClosed
      <3>1. UNCHANGED <<step, ask, status, closes>>
        BY <2>3 DEF Receiver!Start, Receiver!StartFails, Receiver!TimeoutFires,
                    Receiver!ServerClosed, Receiver!requests
      <3>2. QED
        BY <1>1, <2>1, <3>1, MatchKept
    <2>4. QED
      BY <1>4, <2>2, <2>3 DEF Process
  <1>5. CASE UNCHANGED vars
    BY <1>1, <1>5, MatchKept DEF vars, clientVars, receiverVars, Here
  <1>6. QED
    BY <1>2, <1>3, <1>4, <1>5, StepCases

-----------------------------------------------------------------------------
(* A sender's books *)

Uploads(c) == wire[c] # None /\ wire[c].op = "upload"

\* Every file is sent once.
Once(s) ==
  /\ \A c \in Calls : Uploads(c) /\ Owner(c) = s => wire[c].files \cap todo[s] = {}
  /\ \A c, d \in Calls :
       Uploads(c) /\ Uploads(d) /\ Owner(c) = s /\ Owner(d) = s
         /\ wire[c].files = wire[d].files => c = d

\* What it notes about a file is what the window answered.
Ledger(s) ==
  /\ \A f \in sent[s] : \E r \in files :
       Owner(r) = s /\ step[r] = "answered" /\ ask[r].session = known[s] /\ ask[r].files = {f}
  /\ \A f \in refused[s] : \E c \in Calls :
       /\ Owner(c) = s /\ Uploads(c) /\ wire[c].files = {f}
       /\ step[c] = "answered" /\ status[c] # 200

\* No file is forgotten.
Covered(s) ==
  /\ stage[s] = "uploading" =>
       offer[s] \subseteq todo[s] \cup Underway(s) \cup sent[s] \cup refused[s]
  /\ stage[s] = "cancelling" /\ ~broken[s] => refused[s] # {}
  /\ stage[s] = "returned" /\ refused[s] = {} =>
       offer[s] # {} /\ offer[s] \subseteq sent[s] /\ known[s] # None

LEMMA KnowsStep ==
  ASSUME Shape, Window!Inv, Window!Staying, Matching, [Next]_vars, NEW s \in Here
  PROVE  Knows(s)'
  <1> USE DEF Knows, Matching
  <1>1. Window!TypeOK /\ Window!Life /\ ClientTypeOK /\ s \in Senders /\ Knows(s)
    BY DEF Window!Inv, Shape, ClientInv, Here
  <1>2. \A c \in Calls : Window!Opened(c) => Window!Opened(c)'
    BY DEF Window!Staying, Window!Opened
  <1>3. CASE UNCHANGED clientVars
    BY <1>1, <1>2, <1>3 DEF clientVars
  <1>4. ASSUME NEW t \in Senders \ {s}, SenderStep(t) PROVE Knows(s)'
    <2>1. stage'[s] = stage[s] /\ known'[s] = known[s] /\ sent'[s] = sent[s] /\ refused'[s] = refused[s]
      BY <1>1, <1>4, SenderStepFacts DEF OthersSame
    <2>2. QED
      BY <1>1, <1>2, <2>1
  <1>5. ASSUME SenderStep(s) PROVE Knows(s)'
    <2>1. CASE Alone(s)
      BY <1>1, <1>2, <2>1
      DEF Alone, SenderAlone, Begin, CannotBegin, CallFails, AfterCancel, CancelSession, Make,
          End, ClientTypeOK
    <2>2. CASE Answered(s)
      <3> DEFINE r == Current(s)
      <3>1. r \in Calls /\ step[r] = "answered" /\ r = <<s, calls[s]>>
        BY <1>1, <2>2 DEF Answered, ClientTypeOK, Current
      <3>2. CASE HearPrepared(s, status[r], ask[r].session, ask[r].files)
        <4>1. calls[s] = 1 /\ stage[s] = "preparing"
          BY <1>1, <3>2 DEF HearPrepared, Shape, ClientInv, Budget
        <4>2. /\ stage'[s] \notin {"idle", "preparing"}
              /\ known'[s] = known[s] \/ (known'[s] = ask[r].session /\ status[r] = 200)
          <5>1. CASE status[r] = 200 /\ ask[r].session # None
            BY <1>1, <3>2, <5>1, LoopMovesOn DEF HearPrepared, ClientTypeOK
          <5>2. CASE ~(status[r] = 200 /\ ask[r].session # None)
            BY <1>1, <3>2, <5>2 DEF HearPrepared, End, ClientTypeOK
          <5>3. QED
            BY <5>1, <5>2
        <4>3. wire[r] # None /\ wire[r].op = "prepare"
          BY <1>1, <3>1, <4>1 DEF Shape, ClientInv, ClientTypeOK, Waiting, Wired
        <4>4. status[r] = 200 => ask[r].session = r
          BY <3>1, <4>3 DEF Match, PrepareMatch
        <4>5. status[r] = 200 => Window!Opened(r)
          BY <4>4 DEF Window!Opened
        <4>6. QED
          BY <1>1, <1>2, <3>1, <4>1, <4>2, <4>4, <4>5
      <3>3. CASE HearUploaded(s, status[r]) \/ AfterCancel(s)
        <4>1. known' = known /\ stage'[s] \notin {"idle", "preparing"}
          BY <1>1, <3>3 DEF HearUploaded, AfterCancel, Loop, Make, CancelSession, End, ClientTypeOK
        <4>2. QED
          BY <1>1, <1>2, <4>1
      <3>4. QED
        BY <2>2, <3>2, <3>3 DEF Answered
    <2>3. QED
      BY <1>5, <2>1, <2>2 DEF SenderStep, Here
  <1>6. QED
    BY <1>3, <1>4, <1>5, SenderMoves, StepCases DEF Network, Process, vars

LEMMA MatchingStep ==
  ASSUME Shape, Window!Inv, Window!Staying, Matching, [Next]_vars
  PROVE  Matching'
  <1>1. Here' = Here
    BY DEF Next, vars, Here
  <1>2. QED
    BY <1>1, MatchStep, KnowsStep DEF Matching

-----------------------------------------------------------------------------
(* Every file is sent once *)

\* What Loop does to the sender, as far as its books go.
LoopResult(s, sid, left, bad) ==
  \/ \E f \in left :
       /\ New(s) \in Calls
       /\ wire' = [wire EXCEPT ![New(s)] = [op |-> "upload", session |-> sid, files |-> {f}]]
       /\ todo'[s] = left \ {f} /\ stage'[s] = "uploading" /\ Current(s)' = New(s)
  \/ left = {} /\ bad = {} /\ todo'[s] = {} /\ stage'[s] = "returned" /\ wire' = wire
  \/ /\ left = {} /\ bad # {} /\ New(s) \in Calls
     /\ wire' = [wire EXCEPT ![New(s)] = [op |-> "cancel", session |-> sid, files |-> {}]]
     /\ todo'[s] = {} /\ stage'[s] = "cancelling"

LEMMA LoopResults ==
  ASSUME ClientTypeOK, NEW s \in Senders, NEW sid \in Calls, NEW left \in SUBSET FileIds, NEW bad,
         calls[s] + Cardinality(left) <= Cardinality(FileIds) + 1, Loop(s, sid, left, bad)
  PROVE  LoopResult(s, sid, left, bad)
  <1>1. \/ \E f \in left :
             /\ Asks(s, "uploading", [op |-> "upload", session |-> sid, files |-> {f}])
             /\ todo' = [todo EXCEPT ![s] = left \ {f}]
             /\ calls[s] + 1 + Cardinality(left \ {f}) <= Cardinality(FileIds) + 1
        \/ /\ left = {} /\ bad = {} /\ todo' = [todo EXCEPT ![s] = {}]
           /\ stage' = [stage EXCEPT ![s] = "returned"] /\ UNCHANGED <<calls, wire>>
        \/ /\ left = {} /\ bad # {} /\ todo' = [todo EXCEPT ![s] = {}]
           /\ Asks(s, "cancelling", [op |-> "cancel", session |-> sid, files |-> {}])
    BY LoopCases
  <1>2. \A next, m : Asks(s, next, m) =>
          /\ New(s) \in Calls /\ wire' = [wire EXCEPT ![New(s)] = m]
          /\ stage'[s] = next /\ Current(s)' = New(s)
    BY DEF Asks, ClientTypeOK, Current, New
  <1>3. \A x : todo' = [todo EXCEPT ![s] = x] => todo'[s] = x
    BY DEF ClientTypeOK
  <1>4. stage' = [stage EXCEPT ![s] = "returned"] => stage'[s] = "returned"
    BY DEF ClientTypeOK
  <1>5. CASE \E f \in left :
               /\ Asks(s, "uploading", [op |-> "upload", session |-> sid, files |-> {f}])
               /\ todo' = [todo EXCEPT ![s] = left \ {f}]
    <2>1. PICK f \in left :
               /\ Asks(s, "uploading", [op |-> "upload", session |-> sid, files |-> {f}])
               /\ todo' = [todo EXCEPT ![s] = left \ {f}]
      BY <1>5
    <2> DEFINE m == [op |-> "upload", session |-> sid, files |-> {f}]
               rest == left \ {f}
    <2>2. Asks(s, "uploading", m) /\ todo' = [todo EXCEPT ![s] = rest]
      BY <2>1
    <2> HIDE DEF m, rest
    <2>3. /\ New(s) \in Calls /\ wire' = [wire EXCEPT ![New(s)] = m]
          /\ stage'[s] = "uploading" /\ Current(s)' = New(s) /\ todo'[s] = rest
      BY <1>2, <1>3, <2>2
    <2>4. QED
      BY <2>3 DEF LoopResult, m, rest
  <1>6. CASE /\ left = {} /\ bad = {} /\ todo' = [todo EXCEPT ![s] = {}]
             /\ stage' = [stage EXCEPT ![s] = "returned"] /\ UNCHANGED <<calls, wire>>
    BY <1>3, <1>4, <1>6 DEF LoopResult
  <1>7. CASE /\ left = {} /\ bad # {} /\ todo' = [todo EXCEPT ![s] = {}]
             /\ Asks(s, "cancelling", [op |-> "cancel", session |-> sid, files |-> {}])
    BY <1>2, <1>3, <1>7 DEF LoopResult
  <1>8. QED
    BY <1>1, <1>5, <1>6, <1>7

\* The answer to a prepare-upload that opened a session.
LEMMA PreparedResult ==
  ASSUME ClientInv, NEW s \in Senders, NEW sid \in Calls, NEW tokens \in SUBSET FileIds,
         HearPrepared(s, 200, sid, tokens)
  PROVE  /\ stage[s] = "preparing" /\ UNCHANGED <<offer, sent, refused, broken>>
         /\ known'[s] = sid
         /\ \A c \in Calls : Owner(c) = s => ~Uploads(c)
         /\ LoopResult(s, sid, tokens \cap offer[s], {})
  <1>1. sid # None /\ ClientTypeOK
    BY CallsAssumption DEF ClientInv
  <1>2. /\ stage[s] = "preparing" /\ UNCHANGED <<offer, sent, refused, broken>>
        /\ known' = [known EXCEPT ![s] = sid] /\ Loop(s, sid, tokens \cap offer[s], {})
    BY <1>1 DEF HearPrepared
  <1>3. calls[s] = 1
    BY <1>2 DEF ClientInv, Budget
  <1>4. \A c \in Calls : Owner(c) = s => ~Uploads(c)
    BY <1>3, FilesFinite DEF ClientInv, Wired, Owner, Uploads, Calls
  <1>5. tokens \cap offer[s] \in SUBSET FileIds
    OBVIOUS
  <1>6. calls[s] + Cardinality(tokens \cap offer[s]) <= Cardinality(FileIds) + 1
    BY <1>3, <1>5, FilesFinite
  <1>7. LoopResult(s, sid, tokens \cap offer[s], {})
    BY <1>1, <1>2, <1>5, <1>6, LoopResults
  <1>8. QED
    BY <1>1, <1>2, <1>4, <1>7 DEF ClientTypeOK

\* The answer to an upload.
LEMMA UploadedResult ==
  ASSUME ClientInv, NEW s \in Senders, NEW code \in Nat, HearUploaded(s, code)
  PROVE  /\ stage[s] = "uploading" /\ UNCHANGED <<offer, known, broken>>
         /\ Current(s) \in Calls /\ Uploads(Current(s))
         /\ Underway(s) = wire[Current(s)].files /\ known[s] # None
         /\ code \in 200 .. 299 =>
              sent'[s] = sent[s] \cup Underway(s) /\ refused'[s] = refused[s]
         /\ code \notin 200 .. 299 =>
              sent'[s] = sent[s] /\ refused'[s] = refused[s] \cup Underway(s)
         /\ LoopResult(s, known[s], todo[s], refused'[s])
  <1>1. ClientTypeOK /\ Budget(s) /\ Asked(s)
    BY DEF ClientInv
  <1>2. /\ stage[s] = "uploading" /\ UNCHANGED <<offer, known, broken>>
        /\ Loop(s, known[s], todo[s], refused'[s])
    BY DEF HearUploaded
  <1>3. /\ Current(s) \in Calls /\ Uploads(Current(s)) /\ Underway(s) = wire[Current(s)].files
    BY <1>1, <1>2 DEF ClientTypeOK, Waiting, Asked, Uploads, Underway
  <1>4. /\ code \in 200 .. 299 =>
             sent'[s] = sent[s] \cup Underway(s) /\ refused'[s] = refused[s]
        /\ code \notin 200 .. 299 =>
             sent'[s] = sent[s] /\ refused'[s] = refused[s] \cup Underway(s)
    BY <1>1 DEF HearUploaded, ClientTypeOK
  <1>5. /\ known[s] \in Calls /\ known[s] # None /\ todo[s] \in SUBSET FileIds
        /\ calls[s] + Cardinality(todo[s]) <= Cardinality(FileIds) + 1
    BY <1>1, <1>2 DEF Budget, ClientTypeOK
  <1>6. LoopResult(s, known[s], todo[s], refused'[s])
    BY <1>1, <1>2, <1>5, LoopResults
  <1>7. QED
    BY <1>2, <1>3, <1>4, <1>5, <1>6

LEMMA LoopOnce ==
  ASSUME ClientInv, NEW s \in Senders, Once(s), NEW sid, NEW left, NEW bad,
         LoopResult(s, sid, left, bad),
         \A c \in Calls : Uploads(c) /\ Owner(c) = s => wire[c].files \cap left = {}
  PROVE  Once(s)'
  <1>1. wire \in [Calls -> Message \cup {None}] /\ (New(s) \in Calls => wire[New(s)] = None)
    BY FilesFinite DEF ClientInv, ClientTypeOK, Wired, New
  <1>2. CASE \E f \in left :
               /\ New(s) \in Calls
               /\ wire' = [wire EXCEPT ![New(s)] = [op |-> "upload", session |-> sid, files |-> {f}]]
               /\ todo'[s] = left \ {f}
    <2>1. PICK f \in left :
               /\ New(s) \in Calls
               /\ wire' = [wire EXCEPT ![New(s)] = [op |-> "upload", session |-> sid, files |-> {f}]]
               /\ todo'[s] = left \ {f}
      BY <1>2
    <2>2. /\ wire'[New(s)].files = {f}
          /\ \A c \in Calls : c # New(s) => wire'[c] = wire[c]
      BY <1>1, <2>1
    <2>3. QED
      BY <2>1, <2>2 DEF Once, Uploads, Owner
  <1>3. CASE /\ todo'[s] = {}
             /\ \A c \in Calls : Uploads(c)' => Uploads(c) /\ wire'[c] = wire[c]
    BY <1>3 DEF Once, Owner
  <1>4. ASSUME New(s) \in Calls,
               wire' = [wire EXCEPT ![New(s)] = [op |-> "cancel", session |-> sid, files |-> {}]]
        PROVE  \A c \in Calls : Uploads(c)' => Uploads(c) /\ wire'[c] = wire[c]
    BY <1>1, <1>4 DEF Uploads
  <1>5. wire' = wire => \A c \in Calls : Uploads(c)' => Uploads(c) /\ wire'[c] = wire[c]
    BY DEF Uploads
  <1>6. QED
    BY <1>2, <1>3, <1>4, <1>5 DEF LoopResult

\* The steps of a sender that leave the loop alone.
Aside(s) ==
  /\ UNCHANGED <<known, todo, sent, refused>>
  /\ \A c \in Calls : Uploads(c)' => Uploads(c)

LEMMA SenderCases ==
  ASSUME ClientInv, NEW s \in Senders, SenderAlone(s) \/ Hears(s)
  PROVE  \/ Aside(s)
         \/ \E sid \in Calls, tokens \in SUBSET FileIds : HearPrepared(s, 200, sid, tokens)
         \/ \E code \in Nat : HearUploaded(s, code)
  <1>1. wire \in [Calls -> Message \cup {None}]
    BY DEF ClientInv, ClientTypeOK
  <1>2. ASSUME NEW op \in {"prepare", "cancel"}, NEW sid, NEW about, NEW next, Make(s, next, op, sid, about)
        PROVE  \A c \in Calls : Uploads(c)' => Uploads(c)
    <2> DEFINE m == [op |-> op, session |-> sid, files |-> about]
    <2>1. wire' = [wire EXCEPT ![New(s)] = m] /\ m.op # "upload"
      BY <1>2 DEF Make, New
    <2> HIDE DEF m
    <2>2. QED
      BY <1>1, <2>1 DEF Uploads
  <1>3. CASE Begin(s)
    BY <1>2, <1>3 DEF Begin, Aside
  <1>4. CASE CannotBegin(s) \/ AfterCancel(s)
    BY <1>4 DEF CannotBegin, AfterCancel, End, Aside, Uploads
  <1>5. CASE CallFails(s)
    BY <1>2, <1>4, <1>5 DEF CallFails, CancelSession, End, Aside, Uploads
  <1>6. ASSUME NEW code \in Nat, NEW sid \in Calls \cup {None}, NEW tokens \in SUBSET FileIds,
               HearPrepared(s, code, sid, tokens), ~(code = 200 /\ sid # None)
        PROVE  Aside(s)
    BY <1>6 DEF HearPrepared, End, Aside, Uploads
  <1>7. QED
    BY <1>3, <1>4, <1>5, <1>6 DEF SenderAlone, Hears

LEMMA OnceStep ==
  ASSUME ClientInv, NEW s \in Senders, SenderAlone(s) \/ Hears(s), NEW t \in Senders, Once(t)
  PROVE  Once(t)'
  <1>1. \A c \in Calls : wire'[c] = wire[c] \/ (wire[c] = None /\ c = New(s))
    BY WireGrows
  <1>2. CASE t # s
    <2>1. todo'[t] = todo[t]
      BY <1>2, SenderIsOwn DEF ClientInv, OthersSame
    <2>2. \A c \in Calls : Owner(c) = t => wire'[c] = wire[c]
      BY <1>1, <1>2 DEF Owner, New
    <2>3. QED
      BY <2>1, <2>2 DEF Once, Uploads, Owner
  <1>3. CASE t = s
    <2>1. CASE Aside(s)
      <3>1. todo'[s] = todo[s] /\ \A c \in Calls : Uploads(c)' => Uploads(c)
        BY <2>1 DEF Aside
      <3>2. \A c \in Calls : Uploads(c) => wire'[c] = wire[c]
        BY <1>1 DEF Uploads
      <3>3. QED
        BY <1>3, <3>1, <3>2 DEF Once, Owner
    <2>2. ASSUME NEW sid \in Calls, NEW tokens \in SUBSET FileIds, HearPrepared(s, 200, sid, tokens)
          PROVE  Once(s)'
      <3>1. /\ LoopResult(s, sid, tokens \cap offer[s], {})
            /\ \A c \in Calls : Owner(c) = s => ~Uploads(c)
        BY <1>3, <2>2, PreparedResult
      <3>2. Once(s)
        BY <1>3
      <3>3. QED
        BY <3>1, <3>2, LoopOnce
    <2>3. ASSUME NEW code \in Nat, HearUploaded(s, code)
          PROVE  Once(s)'
      BY <1>3, <2>3, UploadedResult, LoopOnce DEF Once
    <2>4. QED
      BY <1>3, <2>1, <2>2, <2>3, SenderCases
  <1>4. QED
    BY <1>2, <1>3

\* The books of a sender that is not at work stay true.
LEMMA LedgerKept ==
  ASSUME Window!TypeOK, Window!Staying, NEW s \in Senders, Ledger(s),
         known'[s] = known[s], sent'[s] = sent[s], refused'[s] = refused[s],
         \A c \in Calls : Uploads(c) => wire'[c] = wire[c]
  PROVE  Ledger(s)'
  <1>1. ASSUME NEW f \in sent'[s]
        PROVE  \E r \in files' : /\ Owner(r) = s /\ step'[r] = "answered"
                                 /\ ask'[r].session = known'[s] /\ ask'[r].files = {f}
    <2>1. PICK r \in files :
            Owner(r) = s /\ step[r] = "answered" /\ ask[r].session = known[s] /\ ask[r].files = {f}
      BY <1>1 DEF Ledger
    <2>2. r \in Calls
      BY DEF Window!TypeOK
    <2>3. QED
      BY <2>1, <2>2 DEF Window!Staying
  <1>2. ASSUME NEW f \in refused'[s]
        PROVE  \E c \in Calls : /\ Owner(c) = s /\ Uploads(c)' /\ wire'[c].files = {f}
                                /\ step'[c] = "answered" /\ status'[c] # 200
    <2>1. PICK c \in Calls : /\ Owner(c) = s /\ Uploads(c) /\ wire[c].files = {f}
                             /\ step[c] = "answered" /\ status[c] # 200
      BY <1>2 DEF Ledger
    <2>2. QED
      BY <2>1 DEF Window!Staying, Uploads
  <1>3. QED
    BY <1>1, <1>2 DEF Ledger, Owner

LEMMA LedgerStep ==
  ASSUME Shape, Window!Inv, Window!Staying, Matching, [Next]_vars, NEW s \in Here, Ledger(s)
  PROVE  Ledger(s)'
  <1>1. Window!TypeOK /\ Window!Life /\ ClientTypeOK /\ ClientInv /\ s \in Senders /\ Knows(s)
    BY DEF Window!Inv, Shape, ClientInv, Here, Matching
  <1>2. CASE UNCHANGED clientVars
    BY <1>1, <1>2, LedgerKept DEF clientVars
  <1>3. ASSUME NEW t \in Senders \ {s}, SenderStep(t) PROVE Ledger(s)'
    <2>1. known'[s] = known[s] /\ sent'[s] = sent[s] /\ refused'[s] = refused[s]
      BY <1>1, <1>3, SenderStepFacts DEF OthersSame
    <2>2. \A c \in Calls : Uploads(c) => wire'[c] = wire[c]
      BY <1>3, SenderStepFacts DEF Uploads
    <2>3. QED
      BY <1>1, <2>1, <2>2, LedgerKept
  <1>4. ASSUME SenderStep(s) PROVE Ledger(s)'
    <2>1. \A c \in Calls : Uploads(c) => wire'[c] = wire[c]
      BY <1>1, <1>4, SenderStepFacts DEF Uploads
    <2>2. CASE UNCHANGED <<known, sent, refused>>
      BY <1>1, <2>1, <2>2, LedgerKept
    <2>3. CASE \E code, sid, tokens : HearPrepared(s, code, sid, tokens)
      <3>1. stage[s] = "preparing" /\ UNCHANGED <<sent, refused>>
        BY <2>3 DEF HearPrepared
      <3>2. sent'[s] = {} /\ refused'[s] = {}
        BY <1>1, <3>1 DEF Knows
      <3>3. QED
        BY <3>2 DEF Ledger
    <2>4. CASE Answered(s) /\ HearUploaded(s, status[Current(s)])
      <3>a. PICK r \in Calls : r = Current(s)
        BY <1>1, <2>4 DEF Answered, ClientTypeOK
      <3>1. step[r] = "answered" /\ status[r] \in Nat /\ r \in Calls /\ (status[r] \in 200 .. 299 => status[r] = 200)
        <4>1. Waiting(s) /\ step[r] = "answered" /\ r \in Calls
          BY <2>4, <3>a DEF Answered
        <4>2. status[r] \in {0, 200, 400, 401, 403, 404, 409, 429, 500}
          BY <1>1, <4>1 DEF Window!TypeOK
        <4>3. QED
          BY <4>1, <4>2
      <3>2. /\ Uploads(r) /\ Underway(s) = wire[r].files /\ UNCHANGED known /\ Owner(r) = s
            /\ status[r] \in 200 .. 299 =>
                 sent'[s] = sent[s] \cup Underway(s) /\ refused'[s] = refused[s]
            /\ status[r] \notin 200 .. 299 =>
                 sent'[s] = sent[s] /\ refused'[s] = refused[s] \cup Underway(s)
        BY <1>1, <2>4, <3>a, <3>1, UploadedResult DEF Owner, Current
      <3>3. /\ wire[r].session = known[s] /\ UploadMatch(r) /\ Window!LifeOf(r)
            /\ \E f \in FileIds : wire[r].files = {f}
        BY <1>1, <3>1, <3>2 DEF ClientInv, Wired, Uploads, Owner, Matching, Match, Window!Life
      <3>4. /\ UNCHANGED <<files, step, ask, status>> /\ wire'[r] = wire[r]
        BY <1>1, <1>4, <2>1, <3>1, <3>2, SenderStepFacts DEF receiverVars
      <3>5. CASE status[r] = 200
        <4>1. r \in files /\ ask[r].session = known[s] /\ ask[r].files = wire[r].files
          BY <3>3, <3>5 DEF UploadMatch, Window!LifeOf
        <4>2. \A f \in sent'[s] : f \in sent[s] \/ ask[r].files = {f}
          BY <3>2, <3>3, <3>5, <4>1
        <4>3. refused'[s] = refused[s]
          BY <3>2, <3>5
        <4>4. r \in files' /\ ask'[r].session = known'[s] /\ step'[r] = "answered" /\ ask' = ask /\ Owner(r) = s
          BY <3>1, <3>2, <3>3, <3>4, <4>1
        <4>5. ASSUME NEW f \in sent'[s]
              PROVE  \E q \in files' : /\ Owner(q) = s /\ step'[q] = "answered"
                                       /\ ask'[q].session = known'[s] /\ ask'[q].files = {f}
          <5>1. CASE f \in sent[s]
            <6>1. PICK q \in files : /\ Owner(q) = s /\ step[q] = "answered"
                                     /\ ask[q].session = known[s] /\ ask[q].files = {f}
              BY <5>1 DEF Ledger
            <6>2. QED
              BY <3>2, <3>4, <6>1
          <5>2. CASE f \notin sent[s]
            BY <4>2, <4>4, <5>2
          <5>3. QED
            BY <5>1, <5>2
        <4>6. \A f \in refused'[s] : \E c \in Calls :
                /\ Owner(c) = s /\ Uploads(c)' /\ wire'[c].files = {f}
                /\ step'[c] = "answered" /\ status'[c] # 200
          BY <2>1, <3>4, <4>3 DEF Ledger, Uploads
        <4>7. QED
          BY <4>5, <4>6 DEF Ledger, Owner
      <3>6. CASE status[r] # 200
        <4>1. sent'[s] = sent[s] /\ \A f \in refused'[s] : f \in refused[s] \/ wire[r].files = {f}
          BY <3>1, <3>2, <3>3, <3>6
        <4>2. known'[s] = known[s] /\ files' = files /\ step' = step /\ ask' = ask
          BY <3>2, <3>4
        <4>3. Uploads(r)' /\ wire'[r].files = wire[r].files /\ step'[r] = "answered" /\ status'[r] # 200
          BY <3>1, <3>2, <3>4, <3>6 DEF Uploads
        <4>4. ASSUME NEW f \in refused'[s]
              PROVE  \E c \in Calls : /\ Owner(c) = s /\ Uploads(c)' /\ wire'[c].files = {f}
                                      /\ step'[c] = "answered" /\ status'[c] # 200
          <5>1. CASE f \in refused[s]
            BY <2>1, <3>4, <5>1 DEF Ledger, Uploads
          <5>2. CASE f \notin refused[s]
            BY <3>1, <3>2, <4>1, <4>3, <5>2
          <5>3. QED
            BY <5>1, <5>2
        <4>5. QED
          BY <4>1, <4>2, <4>4 DEF Ledger, Owner
      <3>7. QED
        BY <3>5, <3>6
    <2>5. QED
      BY <1>4, <2>2, <2>3, <2>4
      DEF SenderStep, Here, Alone, SenderAlone, Answered, Begin, CannotBegin, CallFails, AfterCancel
  <1>5. QED
    BY <1>2, <1>3, <1>4, StepCases DEF Network, Process, vars

\* What is sent was offered.
Within(s) ==
  /\ todo[s] \subseteq offer[s]
  /\ \A c \in Calls : Uploads(c) /\ Owner(c) = s => wire[c].files \subseteq offer[s]

LEMMA LoopWithin ==
  ASSUME ClientInv, NEW s \in Senders, Within(s), NEW sid, NEW left, NEW bad,
         LoopResult(s, sid, left, bad), left \subseteq offer[s], offer' = offer
  PROVE  Within(s)'
  <1>1. wire \in [Calls -> Message \cup {None}]
    BY DEF ClientInv, ClientTypeOK
  <1>2. CASE \E f \in left :
               /\ New(s) \in Calls
               /\ wire' = [wire EXCEPT ![New(s)] = [op |-> "upload", session |-> sid, files |-> {f}]]
               /\ todo'[s] = left \ {f}
    <2>1. PICK f \in left :
               /\ New(s) \in Calls
               /\ wire' = [wire EXCEPT ![New(s)] = [op |-> "upload", session |-> sid, files |-> {f}]]
               /\ todo'[s] = left \ {f}
      BY <1>2
    <2>2. /\ wire'[New(s)].files = {f}
          /\ \A c \in Calls : c # New(s) => wire'[c] = wire[c]
      BY <1>1, <2>1
    <2>3. QED
      BY <2>1, <2>2 DEF Within, Uploads, Owner
  <1>3. ASSUME New(s) \in Calls,
               wire' = [wire EXCEPT ![New(s)] = [op |-> "cancel", session |-> sid, files |-> {}]]
        PROVE  \A c \in Calls : Uploads(c)' => Uploads(c) /\ wire'[c] = wire[c]
    BY <1>1, <1>3 DEF Uploads
  <1>4. wire' = wire => \A c \in Calls : Uploads(c)' => Uploads(c) /\ wire'[c] = wire[c]
    BY DEF Uploads
  <1>5. CASE /\ todo'[s] = {}
             /\ \A c \in Calls : Uploads(c)' => Uploads(c) /\ wire'[c] = wire[c]
    BY <1>5 DEF Within, Owner
  <1>6. QED
    BY <1>2, <1>3, <1>4, <1>5 DEF LoopResult

LEMMA WithinStep ==
  ASSUME ClientInv, NEW s \in Senders, SenderAlone(s) \/ Hears(s), NEW t \in Senders, Within(t)
  PROVE  Within(t)'
  <1>1. /\ \A c \in Calls : wire'[c] = wire[c] \/ (wire[c] = None /\ c = New(s))
        /\ OthersSame(s)
    BY WireGrows, SenderIsOwn DEF ClientInv
  <1>2. CASE t # s
    <2>1. todo'[t] = todo[t] /\ offer' = offer
      BY <1>1, <1>2 DEF OthersSame
    <2>2. \A c \in Calls : Owner(c) = t => wire'[c] = wire[c]
      BY <1>1, <1>2 DEF Owner, New
    <2>3. QED
      BY <2>1, <2>2 DEF Within, Uploads, Owner
  <1>3. CASE t = s
    <2>1. CASE Aside(s)
      <3>1. todo'[s] = todo[s] /\ \A c \in Calls : Uploads(c)' => Uploads(c)
        BY <2>1 DEF Aside
      <3>2. \A c \in Calls : Uploads(c) => wire'[c] = wire[c]
        BY <1>1 DEF Uploads
      <3>3. QED
        BY <1>1, <1>3, <3>1, <3>2 DEF Within, Owner, OthersSame
    <2>2. ASSUME NEW sid \in Calls, NEW tokens \in SUBSET FileIds, HearPrepared(s, 200, sid, tokens)
          PROVE  Within(s)'
      <3>1. LoopResult(s, sid, tokens \cap offer[s], {}) /\ offer' = offer
        BY <1>3, <2>2, PreparedResult
      <3>2. Within(s) /\ tokens \cap offer[s] \subseteq offer[s]
        BY <1>3
      <3>3. QED
        BY <3>1, <3>2, LoopWithin
    <2>3. ASSUME NEW code \in Nat, HearUploaded(s, code)
          PROVE  Within(s)'
      <3>1. LoopResult(s, known[s], todo[s], refused'[s]) /\ offer' = offer
        BY <1>3, <2>3, UploadedResult
      <3>2. Within(s) /\ todo[s] \subseteq offer[s]
        BY <1>3 DEF Within
      <3>3. QED
        BY <3>1, <3>2, LoopWithin
    <2>4. QED
      BY <1>3, <2>1, <2>2, <2>3, SenderCases
  <1>4. QED
    BY <1>2, <1>3

-----------------------------------------------------------------------------
(* No file is forgotten *)

\* The books of a sender that is not at work still cover its files.
LEMMA CoveredKept ==
  ASSUME ClientTypeOK, NEW s \in Senders, Covered(s),
         offer' = offer, stage'[s] = stage[s], calls'[s] = calls[s], known'[s] = known[s],
         todo'[s] = todo[s], sent'[s] = sent[s], refused'[s] = refused[s], broken'[s] = broken[s],
         \A c \in Calls : wire[c] # None => wire'[c] = wire[c]
  PROVE  Covered(s)'
  <1>1. stage[s] = "uploading" => Current(s) \in Calls /\ wire[Current(s)] # None
    BY DEF ClientTypeOK, Waiting
  <1>2. Underway(s)' = Underway(s)
    BY <1>1 DEF Underway, Current
  <1>3. QED
    BY <1>2 DEF Covered

\* A sender that works without the window, or that the window refuses.
LEMMA CoveredAlone ==
  ASSUME ClientTypeOK, NEW s \in Senders, Covered(s),
         SenderAlone(s) \/ AfterCancel(s)
  PROVE  Covered(s)'
  <1>1. CASE Begin(s) \/ CannotBegin(s)
    <2>1. stage'[s] \in {"preparing", "thrown"}
      BY <1>1 DEF Begin, CannotBegin, Make, End, ClientTypeOK
    <2>2. QED
      BY <2>1 DEF Covered
  <1>2. CASE AfterCancel(s)
    <2>1. /\ UNCHANGED refused /\ stage[s] = "cancelling"
          /\ stage'[s] = IF broken[s] THEN "thrown" ELSE "returned"
      BY <1>2 DEF AfterCancel, End, ClientTypeOK
    <2>2. QED
      BY <2>1 DEF Covered
  <1>3. CASE stage[s] = "preparing" /\ CallFails(s)
    <2>1. stage'[s] = "thrown"
      BY <1>3 DEF CallFails, AfterCancel, End, ClientTypeOK
    <2>2. QED
      BY <2>1 DEF Covered
  <1>4. CASE stage[s] = "uploading" /\ CallFails(s)
    <2>1. stage'[s] = "cancelling" /\ broken'[s]
      BY <1>4 DEF CallFails, AfterCancel, CancelSession, Make, ClientTypeOK
    <2>2. QED
      BY <2>1 DEF Covered
  <1>5. QED
    BY <1>1, <1>2, <1>3, <1>4 DEF SenderAlone, CallFails, AfterCancel

\* The loop covers what it is left with and what it has.
LEMMA LoopCovers ==
  ASSUME ClientInv, NEW s \in Senders, NEW sid, NEW left, NEW bad,
         LoopResult(s, sid, left, bad), offer' = offer, offer[s] # {},
         offer[s] \subseteq left \cup sent'[s] \cup refused'[s], bad = refused'[s],
         known'[s] # None
  PROVE  Covered(s)'
  <1>1. wire \in [Calls -> Message \cup {None}]
    BY DEF ClientInv, ClientTypeOK
  <1>2. CASE \E f \in left :
               /\ New(s) \in Calls
               /\ wire' = [wire EXCEPT ![New(s)] = [op |-> "upload", session |-> sid, files |-> {f}]]
               /\ todo'[s] = left \ {f} /\ stage'[s] = "uploading" /\ Current(s)' = New(s)
    <2>1. PICK f \in left :
               /\ New(s) \in Calls
               /\ wire' = [wire EXCEPT ![New(s)] = [op |-> "upload", session |-> sid, files |-> {f}]]
               /\ todo'[s] = left \ {f} /\ stage'[s] = "uploading" /\ Current(s)' = New(s)
      BY <1>2
    <2>2. wire'[New(s)].files = {f}
      BY <1>1, <2>1
    <2>3. Underway(s)' = {f}
      BY <2>1, <2>2 DEF Underway
    <2>4. QED
      BY <2>1, <2>3 DEF Covered
  <1>3. CASE left = {} /\ bad = {} /\ stage'[s] = "returned"
    BY <1>3 DEF Covered
  <1>4. CASE bad # {} /\ stage'[s] = "cancelling"
    BY <1>4 DEF Covered
  <1>5. QED
    BY <1>2, <1>3, <1>4 DEF LoopResult

LEMMA CoveredStep ==
  ASSUME Shape, Matching, [Next]_vars, NEW s \in Here, Covered(s), Within(s)
  PROVE  Covered(s)'
  <1>1. ClientTypeOK /\ ClientInv /\ s \in Senders /\ Knows(s)
    BY DEF Shape, ClientInv, Here, Matching
  <1>2. CASE UNCHANGED clientVars
    BY <1>1, <1>2, CoveredKept DEF clientVars
  <1>3. ASSUME NEW t \in Senders \ {s}, SenderStep(t) PROVE Covered(s)'
    <2>1. OthersSame(t) /\ \A c \in Calls : wire[c] # None => wire'[c] = wire[c]
      BY <1>3, SenderStepFacts
    <2>2. QED
      BY <1>1, <2>1, CoveredKept DEF OthersSame
  <1>4. ASSUME SenderStep(s) PROVE Covered(s)'
    <2>1. CASE SenderAlone(s) \/ AfterCancel(s)
      BY <1>1, <2>1, CoveredAlone
    <2>2. CASE Answered(s) /\ ~AfterCancel(s)
      <3>1. PICK r \in Calls : r = Current(s)
        BY <1>1, <2>2 DEF Answered, ClientTypeOK
      <3>2. wire[r] # None /\ Match(r) /\ step[r] = "answered" /\ Owner(r) = s
        BY <1>1, <2>2, <3>1 DEF Answered, ClientTypeOK, Matching, Current, Owner
      <3>3. status[r] \in {0, 200, 400, 401, 403, 404, 409, 429, 500}
        BY DEF Shape, Window!TypeOK
      <3>4. CASE HearPrepared(s, status[r], ask[r].session, ask[r].files)
        <4>1. stage[s] = "preparing" /\ wire[r].op = "prepare"
          BY <1>1, <3>1, <3>2, <3>4 DEF HearPrepared, ClientInv, Budget, Wired, Current
        <4>2. /\ status[r] = 200 => ask[r].session = r
              /\ ask[r].session = r => ask[r].files = offer[s]
              /\ offer[s] # {}
          <5>1. PrepareMatch(r) /\ r # None
            BY <3>2, <4>1, CallsAssumption DEF Match
          <5>2. wire[r].files = offer[s] /\ offer[s] # {}
            BY <1>1, <3>2, <4>1 DEF ClientInv, Wired, Owner
          <5>3. QED
            BY <5>1, <5>2 DEF PrepareMatch
        <4>3. CASE status[r] = 200
          <5>1. r # None /\ offer[s] \in SUBSET FileIds
            BY CallsAssumption, OffersAssumption, <1>1 DEF ClientTypeOK
          <5>2. HearPrepared(s, 200, r, offer[s])
            BY <3>4, <4>2, <4>3
          <5>3. /\ known'[s] = r /\ UNCHANGED <<offer, sent, refused>>
                /\ LoopResult(s, r, offer[s] \cap offer[s], {})
            BY <1>1, <5>1, <5>2, PreparedResult
          <5>4. refused'[s] = {} /\ offer[s] \cap offer[s] = offer[s]
            BY <1>1, <4>1, <5>3 DEF Knows
          <5>5. LoopResult(s, r, offer[s], {})
            BY <5>3, <5>4
          <5>6. QED
            BY <1>1, <4>2, <5>1, <5>3, <5>4, <5>5, LoopCovers
        <4>4. CASE status[r] # 200
          <5>1. stage'[s] = "thrown"
            BY <1>1, <3>3, <3>4, <4>4 DEF HearPrepared, End, ClientTypeOK
          <5>2. QED
            BY <5>1 DEF Covered
        <4>5. QED
          BY <4>3, <4>4
      <3>5. CASE HearUploaded(s, status[r])
        <4>1. status[r] \in Nat
          BY <3>3
        <4>2. /\ stage[s] = "uploading" /\ UNCHANGED <<offer, known>>
              /\ Uploads(r) /\ Underway(s) = wire[r].files /\ known[s] # None
              /\ \/ sent'[s] = sent[s] \cup Underway(s) /\ refused'[s] = refused[s]
                 \/ sent'[s] = sent[s] /\ refused'[s] = refused[s] \cup Underway(s)
              /\ LoopResult(s, known[s], todo[s], refused'[s])
          BY <1>1, <3>1, <3>5, <4>1, UploadedResult
        <4>3. offer[s] # {}
          BY <1>1, <3>2, <4>2 DEF Within, ClientInv, Wired, Uploads
        <4>4. offer[s] \subseteq todo[s] \cup sent'[s] \cup refused'[s]
          BY <4>2 DEF Covered
        <4>5. QED
          BY <1>1, <4>2, <4>3, <4>4, LoopCovers
      <3>6. QED
        BY <2>2, <3>1, <3>4, <3>5 DEF Answered
    <2>3. QED
      BY <1>4, <2>1, <2>2 DEF SenderStep, Alone, Here
  <1>5. QED
    BY <1>2, <1>3, <1>4, StepCases DEF Network, Process, vars

-----------------------------------------------------------------------------
(* The inductive invariant *)

Books(s) == Ledger(s) /\ Covered(s)

Inv ==
  /\ Shape
  /\ Window!Inv
  /\ Matching
  /\ \A s \in Senders : Once(s) /\ Within(s)
  /\ \A s \in Here : Books(s)

LEMMA BooksInit ==
  ASSUME Init
  PROVE  /\ Matching
         /\ \A s \in Senders : Once(s) /\ Within(s)
         /\ \A s \in Here : Books(s)
  <1> USE DEF Init, ClientInit
  <1>1. ASSUME NEW c \in Calls PROVE Match(c)
    <2>1. step[c] = "idle" /\ wire[c] = None
      BY DEF Receiver!Init
    <2>2. QED
      BY <2>1 DEF Match
  <1>2. \A s \in Here : Knows(s)
    BY DEF Knows, Here
  <1>3. \A c \in Calls : ~Uploads(c)
    BY DEF Uploads
  <1>4. \A s \in Senders : Once(s) /\ Within(s)
    BY <1>3 DEF Once, Within
  <1>5. \A s \in Here : Books(s)
    BY DEF Books, Ledger, Covered, Here
  <1>6. QED
    BY <1>1, <1>2, <1>4, <1>5 DEF Matching

LEMMA SinglesStep ==
  ASSUME Shape, [Next]_vars, \A s \in Senders : Once(s) /\ Within(s)
  PROVE  \A s \in Senders : Once(s)' /\ Within(s)'
  <1>1. CASE UNCHANGED clientVars
    <2>1. \A s \in Senders : Once(s)'
      BY <1>1 DEF Once, Uploads, clientVars, Owner
    <2>2. \A s \in Senders : Within(s)'
      BY <1>1 DEF Within, Uploads, clientVars, Owner
    <2>3. QED
      BY <2>1, <2>2
  <1>2. ASSUME NEW t \in Senders, SenderStep(t)
        PROVE  \A s \in Senders : Once(s)' /\ Within(s)'
    <2>1. (SenderAlone(t) \/ Hears(t)) /\ ClientInv
      BY <1>2, SenderStepFacts DEF Shape
    <2>2. QED
      BY <2>1, OnceStep, WithinStep
  <1>3. QED
    BY <1>1, <1>2, StepCases DEF Network, Process, vars

LEMMA InvStep == Inv /\ Window!Inv' /\ [Next]_vars => Inv'
  <1> SUFFICES ASSUME Inv, Window!Inv', [Next]_vars PROVE Inv'
    OBVIOUS
  <1>1. Shape /\ Window!Inv /\ Matching
    BY DEF Inv
  <1>2. Window!Staying
    BY <1>1, WindowAssumptions, WindowMoves, Window!StayingStep DEF Window!Inv
  <1>3. Shape' /\ Matching'
    BY <1>1, <1>2, ShapeStep, MatchingStep
  <1>4. \A s \in Senders : Once(s)' /\ Within(s)'
    BY <1>1, SinglesStep DEF Inv
  <1>5. Here' = Here /\ Here \subseteq Senders
    BY DEF Next, vars, Here
  <1>6. ASSUME NEW s \in Here PROVE Books(s)'
    <2>1. Books(s) /\ Within(s)
      BY <1>5 DEF Inv
    <2>2. Ledger(s)'
      BY <1>1, <1>2, <2>1, LedgerStep DEF Books
    <2>3. Covered(s)'
      BY <1>1, <2>1, CoveredStep DEF Books
    <2>4. QED
      BY <2>2, <2>3 DEF Books
  <1>7. QED
    BY <1>3, <1>4, <1>5, <1>6 DEF Inv

LEMMA InvHolds == Spec => []Inv
  <1>1. Init /\ Window!Inv => Inv
    BY ShapeInit, BooksInit DEF Inv
  <1>2. QED
    BY <1>1, WindowInv, InvStep, PTL DEF Spec

-----------------------------------------------------------------------------
(* What both sides may rely on *)

\* A recorded upload is one that a sender of this window made in its session.
LEMMA RecordOwner ==
  ASSUME Inv, NEW r \in files
  PROVE  /\ r \in Calls /\ status[r] = 200 /\ Uploads(r)
         /\ Owner(r) \in Here /\ ask[r].files = wire[r].files
         /\ ask[r].session = <<Owner(r), 1>> /\ ask[r].session \in Calls
         /\ Window!Opened(ask[r].session)
         /\ \E g \in FileIds : ask[r].files = {g}
  <1>1. r \in Calls
    BY DEF Inv, Shape, Window!TypeOK
  <1>2. Window!LifeOf(r) /\ Window!Belongs(r) /\ Match(r)
    BY <1>1 DEF Inv, Window!Inv, Window!Life, Window!Belonging, Matching
  <1>3. status[r] = 200 /\ ask[r].session \notin {None, r} /\ step[r] # "idle"
    BY <1>2 DEF Window!LifeOf
  <1>4. wire[r] # None /\ Owner(r) \in Here
    BY <1>2, <1>3 DEF Match
  <1>5. /\ wire[r].op = "upload" /\ ask[r].session = wire[r].session
        /\ ask[r].files = wire[r].files
    BY <1>2, <1>3, <1>4 DEF Match, PrepareMatch, UploadMatch, CancelMatch
  <1>6. /\ wire[r].session = known[Owner(r)] /\ known[Owner(r)] # None
        /\ \E g \in FileIds : wire[r].files = {g}
    BY <1>1, <1>4, <1>5 DEF Inv, Shape, ClientInv, Wired, Owner
  <1>7. known[Owner(r)] = <<Owner(r), 1>>
    BY <1>4, <1>6 DEF Inv, Matching, Knows
  <1>8. QED
    BY <1>1, <1>2, <1>3, <1>4, <1>5, <1>6, <1>7 DEF Uploads, Window!Belongs

\* The session of a sender offers what the sender has, and in a single session
\* it is the one the window has.
LEMMA SessionOfSender ==
  ASSUME Inv, NEW s \in Here, known[s] # None
  PROVE  /\ known[s] = <<s, 1>> /\ known[s] \in Calls /\ Window!Opened(known[s])
         /\ ask[known[s]].files = offer[s]
         /\ Window!SingleSession => session = known[s]
  <1>1. known[s] = <<s, 1>> /\ known[s] \in Calls /\ Window!Opened(known[s])
    BY DEF Inv, Matching, Knows
  <1> DEFINE k == known[s]
  <1>2. Window!LifeOf(k) /\ Match(k) /\ k # None
    BY <1>1 DEF Inv, Window!Inv, Window!Life, Matching
  <1>3. step[k] # "idle" /\ ask[k].session = k
    BY <1>1, <1>2 DEF Window!LifeOf, Window!Opened
  <1>4. wire[k] # None /\ Wired(k) /\ k[1] = s /\ k[2] = 1
    BY <1>1, <1>2, <1>3 DEF Match, Inv, Shape, ClientInv
  <1>5. wire[k].op = "prepare" /\ wire[k].files = offer[s]
    BY <1>4 DEF Wired
  <1>6. PrepareMatch(k)
    BY <1>2, <1>4, <1>5 DEF Match
  <1>7. ask[k].files = offer[s]
    BY <1>2, <1>3, <1>5, <1>6 DEF PrepareMatch
  <1>8. session # None /\ session \in Calls /\ Window!Opened(session)
    BY <1>1 DEF Inv, Window!Inv, Window!SessionOpened
  <1>9. QED
    BY <1>1, <1>7, <1>8 DEF Window!SingleSession

LEMMA SameSingles == Receiver!SingleSession <=> Window!SingleSession
  BY DEF Receiver!SingleSession, Receiver!Opened, Window!SingleSession, Window!Opened

\* A file reported as sent is recorded in the sender's session, whatever was
\* lost, delayed or cut off in between.
THEOREM ReportsAreRecorded == Spec => []ReportedIsRecorded
  <1>1. Inv => ReportedIsRecorded
    BY DEF Inv, Books, Ledger, ReportedIsRecorded
  <1>2. QED
    BY <1>1, InvHolds, PTL

\* A cancel that was answered has ended the window.
THEOREM CancelsSettle == Spec => []CancelSettles
  <1>1. ASSUME Inv, Receiver!SingleSession, NEW r \in Calls, wire[r] # None,
               step[r] = "answered", wire[r].op = "cancel"
        PROVE  outcome # "pending"
    <2>1. CancelMatch(r)
      BY <1>1 DEF Inv, Matching, Match
    <2>2. closes[r] = "cancelled"
      BY <1>1, <2>1, SameSingles DEF CancelMatch
    <2>3. QED
      BY <1>1, <2>2 DEF Inv, Window!Inv, Window!Telling
  <1>2. Inv => CancelSettles
    BY <1>1 DEF CancelSettles
  <1>3. QED
    BY <1>2, InvHolds, PTL

\* A completed window has refused nothing to the sender it names.
THEOREM NothingRefused == Spec => []CompletedRefusedNothing
  <1>1. ASSUME Inv, outcome = "completed", Receiver!SingleSession,
               NEW s \in Here, known[s] = session, NEW f \in refused[s]
        PROVE  FALSE
    <2>1. PICK c \in Calls : /\ Owner(c) = s /\ Uploads(c) /\ wire[c].files = {f}
                             /\ step[c] = "answered" /\ status[c] # 200
      BY <1>1 DEF Inv, Books, Ledger
    <2>2. s \in Senders /\ f \in offer[s]
      BY <1>1, <2>1 DEF Here, Inv, Within
    <2>3. session # None /\ Window!HasAll
      BY <1>1, SameSingles DEF Inv, Window!Inv, Window!Counting
    <2>4. known[s] = <<s, 1>> /\ ask[session].files = offer[s]
      BY <1>1, <2>3, SessionOfSender
    <2>5. PICK r \in files : ask[r].files = {f}
      BY <1>1, <2>2, <2>3, <2>4 DEF Inv, Window!Inv, Window!Counting, Window!HasAll
    <2>6. /\ r \in Calls /\ status[r] = 200 /\ Uploads(r) /\ wire[r].files = {f}
          /\ ask[r].session = <<Owner(r), 1>> /\ ask[r].session \in Calls
          /\ Window!Opened(ask[r].session)
      BY <1>1, <2>5, RecordOwner
    <2>7. ask[r].session = <<s, 1>>
      BY <1>1, <2>3, <2>4, <2>6, SameSingles, SessionOfSender DEF Window!SingleSession
    <2>8. Owner(r) = s
      BY <2>6, <2>7
    <2>9. r = c
      <3>1. Once(s)
        BY <1>1, <2>2 DEF Inv
      <3>2. wire[r].files = wire[c].files
        BY <2>1, <2>6
      <3>3. QED
        BY <2>1, <2>6, <2>8, <3>1, <3>2 DEF Once
    <2>10. QED
      BY <2>1, <2>6, <2>9
  <1>2. Inv => CompletedRefusedNothing
    BY <1>1 DEF CompletedRefusedNothing
  <1>3. QED
    BY <1>2, InvHolds, PTL

\* A sender that returns with nothing refused leaves a completed window.
THEOREM WholeIsCompleted == Spec => []WholeMeansCompleted
  <1>1. ASSUME Inv, NEW s \in Here, stage[s] = "returned", refused[s] = {},
               Receiver!SingleSession
        PROVE  outcome = "completed" /\ session = known[s]
    <2>1. offer[s] \subseteq sent[s] /\ known[s] # None /\ s \in Senders
      BY <1>1 DEF Inv, Books, Covered, Here
    <2>2. /\ session = known[s] /\ known[s] = <<s, 1>> /\ known[s] \in Calls
          /\ Window!Opened(known[s]) /\ ask[session].files = offer[s]
      BY <1>1, <2>1, SameSingles, SessionOfSender
    <2>3. \A f \in sent[s] : \E r \in files :
            Owner(r) = s /\ step[r] = "answered" /\ ask[r].files = {f}
      BY <1>1 DEF Inv, Books, Ledger
    <2>4. Window!HasAll
      <3>1. \A r \in files : ask[r].files \subseteq received
        BY <1>1, SameSingles DEF Inv, Window!Inv, Window!AllTold
      <3>2. QED
        BY <2>1, <2>2, <2>3, <3>1 DEF Window!HasAll
    <2>5. PICK r \in files : closes[r] = "completed"
      BY <1>1, <2>1, <2>2, <2>4 DEF Inv, Window!Inv, Window!AllTold
    <2>6. /\ r \in Calls /\ Uploads(r) /\ ask[r].files = wire[r].files
          /\ ask[r].session = <<Owner(r), 1>> /\ ask[r].session \in Calls
          /\ Window!Opened(ask[r].session)
      BY <1>1, RecordOwner
    <2>7. Owner(r) = s
      <3>1. ask[r].session = known[s]
        BY <1>1, <2>2, <2>6, SameSingles DEF Window!SingleSession
      <3>2. QED
        BY <2>2, <2>6, <3>1
    <2>8. PICK g \in FileIds : wire[r].files = {g}
      BY <1>1, <2>6, RecordOwner
    <2>9. g \in sent[s]
      BY <1>1, <2>1, <2>6, <2>7, <2>8 DEF Inv, Within
    <2>10. PICK q \in files : Owner(q) = s /\ step[q] = "answered" /\ ask[q].files = {g}
      BY <2>3, <2>9
    <2>11. q \in Calls /\ Uploads(q) /\ wire[q].files = {g}
      BY <1>1, <2>10, RecordOwner
    <2>12. q = r
      BY <1>1, <2>1, <2>6, <2>7, <2>8, <2>10, <2>11 DEF Inv, Once
    <2>13. outcome = "completed"
      BY <1>1, <2>5, <2>6, <2>10, <2>12 DEF Inv, Window!Inv, Window!Telling
    <2>14. QED
      BY <2>2, <2>13
  <1>2. Inv => WholeMeansCompleted
    BY <1>1 DEF WholeMeansCompleted
  <1>3. QED
    BY <1>2, InvHolds, PTL
=============================================================================
