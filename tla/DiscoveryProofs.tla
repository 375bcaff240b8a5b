--------------------------- MODULE DiscoveryProofs ---------------------------
(***************************************************************************)
(* Discovery, proved for any devices, fingerprints and number of bursts:    *)
(* a scan closes what it opened, reports whoever it answered and never      *)
(* lists itself.                                                            *)
(***************************************************************************)
EXTENDS Discovery, TLAPS

\* What is open in each phase; a connection needs the scan to be on.
OpenByPhase ==
  /\ phase \in {"starting", "done", "failed"} => open = {}
  /\ phase \in {"closing", "failing"} => open = {"server"}
  /\ \A d \in Devices : conn[d] = "open" => phase = "scanning"

\* Whoever has been answered has been added before.
AnsweredIsKnown ==
  \A d \in Devices :
    step[d] \in {"replying", "answered"} /\ says[d] \notin {None, OwnPrint}
      => peers[d] # None

NothingSaidYet == \A d \in Devices : step[d] = "idle" => says[d] = None

\* After the end the collector stands still.
ResultIsList == phase = "done" => result = peers

Inv ==
  /\ TypeOK /\ OpenByPhase /\ AnsweredIsKnown /\ NothingSaidYet
  /\ NeverOurselves /\ ResultIsList

-----------------------------------------------------------------------------

LEMMA Initially == Init => Inv
  BY PrintsAssumption, BurstsAssumption, SelfAssumption
  DEF Init, Inv, TypeOK, Listed, OpenByPhase, AnsweredIsKnown, NothingSaidYet, NeverOurselves,
      ResultIsList, OwnPrint

\* The steps of the scan leave the collector alone.
LEMMA ScanSteps == Inv /\ (Scan \/ Trouble) => Inv'
  <1> SUFFICES ASSUME Inv, Scan \/ Trouble
               PROVE  Inv'
    OBVIOUS
  <1> USE BurstsAssumption DEF Inv, TypeOK, OpenByPhase, AnsweredIsKnown, NothingSaidYet,
                               NeverOurselves, ResultIsList, OwnPrint, answers
  <1>1. CASE StartServer
    BY <1>1 DEF StartServer
  <1>2. CASE StartFails
    BY <1>2 DEF StartFails
  <1>3. CASE Bind
    BY <1>3 DEF Bind
  <1>4. CASE BindFails
    BY <1>4 DEF BindFails, Cleanup
  <1>5. CASE Join
    BY <1>5 DEF Join
  <1>6. CASE Announce
    BY <1>6 DEF Announce
  <1>7. CASE TimeoutFires
    BY <1>7 DEF TimeoutFires, Cleanup
  <1>8. CASE Abort
    BY <1>8 DEF Abort, Cleanup
  <1>9. CASE ServerClosed
    BY <1>9 DEF ServerClosed
  <1>10. QED
    BY <1>1, <1>2, <1>3, <1>4, <1>5, <1>6, <1>7, <1>8, <1>9 DEF Scan, Trouble

\* The steps of the devices happen while the scan is on, or add nothing.
LEMMA DeviceSteps ==
  ASSUME Inv, NEW d \in Devices, Device(d) \/ BodyFails(d)
  PROVE  Inv'
  <1> USE PrintsAssumption, SelfAssumption
      DEF Inv, TypeOK, OpenByPhase, AnsweredIsKnown, NothingSaidYet, NeverOurselves,
          ResultIsList, OwnPrint, scan, Reply
  <1>1. CASE Connect(d)
    BY <1>1 DEF Connect
  <1>2. CASE Disconnect(d)
    BY <1>2 DEF Disconnect
  <1>3. CASE Inform(d)
    BY <1>3 DEF Inform
  <1>4. CASE AnyRegister(d)
    BY <1>4 DEF AnyRegister, Register
  <1>5. CASE Registered(d)
    BY <1>5 DEF Registered, Add, Listed
  <1>6. CASE Flush(d)
    BY <1>6 DEF Flush
  <1>7. CASE BodyFails(d)
    BY <1>7 DEF BodyFails
  <1>8. QED
    BY <1>1, <1>2, <1>3, <1>4, <1>5, <1>6, <1>7 DEF Device

LEMMA Inductive == Inv /\ [Next]_vars => Inv'
  <1> SUFFICES ASSUME Inv, [Next]_vars
               PROVE  Inv'
    OBVIOUS
  <1>1. CASE UNCHANGED vars
    BY <1>1 DEF Inv, TypeOK, OpenByPhase, AnsweredIsKnown, NothingSaidYet, NeverOurselves,
                ResultIsList, OwnPrint, vars, scan, answers
  <1>2. CASE Scan \/ Trouble
    BY <1>2, ScanSteps
  <1>3. ASSUME NEW d \in Devices, Device(d) \/ BodyFails(d)
        PROVE  Inv'
    BY <1>3, DeviceSteps
  <1>4. ASSUME NEW d \in Devices \cup {Self}, NEW print \in Prints \cup {None},
               Hear(d, print)
        PROVE  Inv'
    BY <1>4, PrintsAssumption, SelfAssumption
    DEF Hear, Add, Inv, TypeOK, Listed, OpenByPhase, AnsweredIsKnown, NothingSaidYet,
        NeverOurselves, ResultIsList, OwnPrint, scan, answers
  <1>5. QED
    BY <1>1, <1>2, <1>3, <1>4 DEF Next, AnyPacket

\* A scan that returned or threw has left no socket open.
THEOREM ClosesAll == Spec => []NothingLeftOpen
  <1>1. Inv => NothingLeftOpen
    BY DEF Inv, OpenByPhase, NothingLeftOpen
  <1>2. QED
    BY <1>1, Initially, Inductive, PTL DEF Spec

\* Whoever was told 200 for a usable registration is in the result.
THEOREM ListsAnswered == Spec => []AnsweredIsListed
  <1>1. Inv => AnsweredIsListed
    BY DEF Inv, AnsweredIsKnown, ResultIsList, AnsweredIsListed
  <1>2. QED
    BY <1>1, Initially, Inductive, PTL DEF Spec

\* A scan never lists itself.
THEOREM NotOurselves == Spec => []NeverOurselves
  <1>1. Inv => NeverOurselves
    BY DEF Inv
  <1>2. QED
    BY <1>1, Initially, Inductive, PTL DEF Spec

\* Every variable of a scan keeps its type.
THEOREM ScanTypes == Spec => []TypeOK
  <1>1. Inv => TypeOK
    BY DEF Inv
  <1>2. QED
    BY <1>1, Initially, Inductive, PTL DEF Spec
=============================================================================
