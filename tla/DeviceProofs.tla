---------------------------- MODULE DeviceProofs ----------------------------
(***************************************************************************)
(* Device, proved for any number of processes, pairs, settings and          *)
(* fingerprints: as long as one process runs at a time, kills, failing      *)
(* disks and renewals never leave a key that does not fit its certificate,  *)
(* never replace a good certificate, and never lose the fingerprint.        *)
(***************************************************************************)
EXTENDS Device, TLAPS

\* Nobody else is in ensureTlsMaterial.
OneWriter ==
  \A p, q \in Processes : tls[p] # "idle" /\ tls[q] # "idle" => p = q

\* What makes the order "key first" safe: a certificate on disk that is good has
\* its key beside it, and no new key is written before the certificate is known
\* to be useless.
DiskMatches == Usable(certFile) => keyFile = certFile

Held(p) ==
  /\ tls[p] = "readKey" => hand[p] = certFile
  /\ tls[p] \in {"generate", "writeKey", "openCert", "writeCert"} => ~Usable(certFile)
  /\ tls[p] \in {"openCert", "writeCert"} => keyFile = hand[p]

IdentityInv ==
  /\ TlsTypeOK
  /\ OneWriter
  /\ DiskMatches
  /\ \A p \in Processes : Held(p)
  /\ PairsMatch

-----------------------------------------------------------------------------

\* Seen from the identity, a step of the device is one of its own or none.
LEMMA DeviceSteps ==
  [Next]_vars =>
    \/ UNCHANGED tlsVars
    \/ Expire
    \/ \E p \in Processes : Ensure(p) \/ TlsStep(p) \/ TlsEnds(p)
  BY DEF Next, vars, Start, Tool, Identify, Stop

LEMMA IdentityInit == Init => IdentityInv
  BY PairsAssumption
  DEF Init, TlsInit, IdentityInv, TlsTypeOK, Content, OneWriter, DiskMatches, Usable,
      Held, PairsMatch

LEMMA IdentityStep == ~Overlap /\ IdentityInv /\ [Next]_vars => IdentityInv'
  <1> SUFFICES ASSUME ~Overlap, IdentityInv, [Next]_vars
               PROVE  IdentityInv'
    OBVIOUS
  <1> USE PairsAssumption DEF IdentityInv, TlsTypeOK, Content, OneWriter, DiskMatches,
                              Usable, Held, PairsMatch
  <1>1. CASE UNCHANGED tlsVars
    BY <1>1 DEF tlsVars
  <1>2. CASE Expire
    BY <1>2 DEF Expire
  <1>3. ASSUME NEW p \in Processes, Ensure(p)
        PROVE  IdentityInv'
    BY <1>3 DEF Ensure, Goes
  <1>4. ASSUME NEW p \in Processes, TlsStep(p)
        PROVE  IdentityInv'
    <2>1. CASE Look(p)
      BY <2>1 DEF Look, Goes
    <2>2. CASE ReadCert(p)
      BY <2>2 DEF ReadCert, Goes
    <2>3. CASE ReadKey(p)
      BY <2>3 DEF ReadKey, Goes, Returns
    <2>4. CASE Generate(p)
      BY <2>4 DEF Generate, Goes
    <2>5. CASE WriteKey(p)
      BY <2>5 DEF WriteKey, Goes
    <2>6. CASE OpenCert(p)
      BY <2>6 DEF OpenCert, Goes
    <2>7. CASE WriteCert(p)
      BY <2>7 DEF WriteCert, Returns
    <2>8. CASE EnsureFails(p)
      BY <2>8 DEF EnsureFails, Returns
    <2>9. QED
      BY <1>4, <2>1, <2>2, <2>3, <2>4, <2>5, <2>6, <2>7, <2>8 DEF TlsStep
  <1>5. ASSUME NEW p \in Processes, TlsEnds(p)
        PROVE  IdentityInv'
    BY <1>5 DEF TlsEnds, Returns
  <1>6. QED
    BY <1>1, <1>2, <1>3, <1>4, <1>5, DeviceSteps

\* While one process runs at a time, whatever key and certificate
\* ensureTlsMaterial returns belong together.
THEOREM KeysMatch == ~Overlap => (Spec => []PairsMatch)
  <1>1. IdentityInv => PairsMatch
    BY DEF IdentityInv
  <1>2. ~Overlap /\ IdentityInv /\ [Next]_vars => IdentityInv'
    BY IdentityStep
  <1>3. CASE Overlap
    BY <1>3
  <1>4. CASE ~Overlap
    <2>1. IdentityInv /\ [Next]_vars => IdentityInv'
      BY <1>2, <1>4
    <2>2. QED
      BY <1>1, <2>1, IdentityInit, PTL DEF Spec
  <1>5. QED
    BY <1>3, <1>4

\* While one process runs at a time, a certificate that is still good is never
\* replaced: whoever writes has found it useless before.
THEOREM CertKept == ~Overlap => (Spec => GoodCertKept)
  <1>1. ~Overlap /\ IdentityInv /\ [Next]_vars => IdentityInv'
    BY IdentityStep
  <1>2. IdentityInv /\ [Next]_vars => [Usable(certFile) => certFile' = certFile]_tlsVars
    <2> SUFFICES ASSUME IdentityInv, [Next]_vars, Usable(certFile)
                 PROVE  certFile' = certFile
      OBVIOUS
    <2>1. CASE UNCHANGED tlsVars
      BY <2>1 DEF tlsVars
    <2>2. CASE Expire
      BY <2>2 DEF Expire
    <2>3. ASSUME NEW p \in Processes, Ensure(p) \/ TlsStep(p) \/ TlsEnds(p)
          PROVE  certFile' = certFile
      <3> Held(p)
        BY <2>3 DEF IdentityInv
      <3> QED
        BY <2>3 DEF Held, Ensure, TlsStep, TlsEnds, Look, ReadCert, ReadKey, Generate,
                    WriteKey, OpenCert, WriteCert, EnsureFails, Goes
    <2>4. QED
      BY <2>1, <2>2, <2>3, DeviceSteps
  <1>3. CASE Overlap
    BY <1>3
  <1>4. CASE ~Overlap
    <2>1. IdentityInv /\ [Next]_vars => IdentityInv'
      BY <1>1, <1>4
    <2>2. QED
      BY <1>2, <2>1, IdentityInit, PTL DEF Spec, GoodCertKept
  <1>5. QED
    BY <1>3, <1>4

-----------------------------------------------------------------------------
(* The settings *)

\* One process holds settings, and they have the fingerprint of the file.
OneHolder ==
  \A p, q \in Processes : memory[p] # None /\ memory[q] # None => p = q

SamePrint ==
  \A p \in Processes :
    memory[p] # None /\ saved # None /\ saved.print # None => memory[p].print = saved.print

SettingsInv == Config!ConfigTypeOK /\ OneHolder /\ SamePrint

\* What a step may do to the fingerprint in the file.
Keeps ==
  saved # None /\ saved.print # None => saved' # None /\ saved'.print = saved.print

LEMMA SettingsSteps ==
  [Next]_vars =>
    \/ UNCHANGED configVars
    \/ \E p \in Processes :
         \/ Start(p) \/ Config!GetConfig(p) \/ Config!Ends(p)
         \/ \E value \in Values : Config!UpdateConfig(p, value)
  BY DEF Next, vars, Tool, Identify, Stop

LEMMA SettingsInit == Init => SettingsInv
  BY DEF Init, Config!ConfigInit, SettingsInv, Config!ConfigTypeOK, OneHolder, SamePrint

\* getConfig over overrides with the fingerprint in memory keeps it.
LEMMA EffectiveKeeps ==
  ASSUME SettingsInv, NEW p \in Processes, memory[p] # None,
         NEW next \in Config!Overrides, next.print = memory[p].print,
         NEW file \in {saved, next}, Config!Effective(p, next, file)
  PROVE  SettingsInv' /\ Keeps
  <1> USE SettingsAssumption DEF SettingsInv, Config!ConfigTypeOK, OneHolder, SamePrint, Keeps
  <1>1. CASE next.print # None
    BY <1>1 DEF Config!Effective, Config!Overrides
  <1>2. CASE next.print = None
    <2>1. PICK print \in Prints \ drawn :
            LET complete == [next EXCEPT !.print = print]
            IN  /\ memory' = [memory EXCEPT ![p] = complete]
                /\ saved' \in {complete, file}
                /\ drawn' = drawn \cup {print}
      BY <1>2 DEF Config!Effective, Config!Persist
    <2> DEFINE complete == [next EXCEPT !.print = print]
    <2>2. complete \in Config!Overrides /\ complete.print = print
      BY DEF Config!Overrides
    <2>3. memory' = [memory EXCEPT ![p] = complete] /\ saved' \in {complete, file}
      BY <2>1
    <2>4. saved = None \/ saved.print = None
      BY <1>2
    <2>5. drawn' \subseteq Prints
      BY <2>1
    <2> HIDE DEF complete
    <2>6. saved' = complete \/ saved' = saved \/ saved' = next
      BY <2>3
    <2>7. QED
      BY <1>2, <2>2, <2>3, <2>4, <2>5, <2>6
  <1>3. QED
    BY <1>1, <1>2

LEMMA SettingsStep == ~Overlap /\ SettingsInv /\ [Next]_vars => SettingsInv' /\ Keeps
  <1> SUFFICES ASSUME ~Overlap, SettingsInv, [Next]_vars
               PROVE  SettingsInv' /\ Keeps
    OBVIOUS
  <1> USE SettingsAssumption DEF SettingsInv, Config!ConfigTypeOK, OneHolder, SamePrint,
                                 Keeps, Config!Overrides
  <1>1. CASE UNCHANGED configVars
    BY <1>1 DEF configVars
  <1>2. ASSUME NEW p \in Processes, Start(p)
        PROVE  SettingsInv' /\ Keeps
    BY <1>2 DEF Start, Config!Load, Config!Running, Config!NoOverrides
  <1>3. ASSUME NEW p \in Processes, Config!GetConfig(p)
        PROVE  SettingsInv' /\ Keeps
    BY <1>3, EffectiveKeeps DEF Config!GetConfig, Config!Running
  <1>4. ASSUME NEW p \in Processes, NEW value \in Values, Config!UpdateConfig(p, value)
        PROVE  SettingsInv' /\ Keeps
    <2> DEFINE next == [memory[p] EXCEPT !.value = value]
    <2>1. memory[p] # None
      BY <1>4 DEF Config!UpdateConfig, Config!Running
    <2>2. next \in Config!Overrides /\ next.print = memory[p].print
      BY <2>1
    <2>3. \/ Config!Effective(p, next, next)
          \/ memory' = [memory EXCEPT ![p] = next] /\ UNCHANGED <<saved, drawn>>
      BY <1>4 DEF Config!UpdateConfig
    <2> HIDE DEF next
    <2>4. CASE Config!Effective(p, next, next)
      BY <2>1, <2>2, <2>4, EffectiveKeeps
    <2>5. CASE memory' = [memory EXCEPT ![p] = next] /\ UNCHANGED <<saved, drawn>>
      BY <2>1, <2>2, <2>5
    <2>6. QED
      BY <2>3, <2>4, <2>5
  <1>5. ASSUME NEW p \in Processes, Config!Ends(p)
        PROVE  SettingsInv' /\ Keeps
    BY <1>5 DEF Config!Ends
  <1>6. QED
    BY <1>1, <1>2, <1>3, <1>4, <1>5, SettingsSteps

\* While one process runs at a time, the fingerprint that is once in the file
\* stays there, even when writing it fails or a process is killed.
THEOREM PrintIsKept == ~Overlap => (Spec => PrintKept)
  <1>1. ~Overlap /\ SettingsInv /\ [Next]_vars => SettingsInv' /\ Keeps
    BY SettingsStep
  <1>2. Keeps => [(saved # None /\ saved.print # None) =>
                    saved' # None /\ saved'.print = saved.print]_(Config!configVars)
    BY DEF Keeps
  <1>3. CASE Overlap
    BY <1>3
  <1>4. CASE ~Overlap
    <2>1. SettingsInv /\ [Next]_vars => SettingsInv' /\ Keeps
      BY <1>1, <1>4
    <2>2. QED
      BY <1>2, <2>1, SettingsInit, PTL DEF Spec, PrintKept, Config!PrintKept
  <1>5. QED
    BY <1>3, <1>4

-----------------------------------------------------------------------------
(* Types, also for processes that overlap *)

LEMMA TlsTypesStep == TlsTypeOK /\ [Next]_vars => TlsTypeOK'
  <1> SUFFICES ASSUME TlsTypeOK, [Next]_vars PROVE TlsTypeOK'
    OBVIOUS
  <1> USE PairsAssumption DEF TlsTypeOK, Content
  <1>1. CASE UNCHANGED tlsVars
    BY <1>1 DEF tlsVars
  <1>2. CASE Expire
    BY <1>2 DEF Expire
  <1>3. ASSUME NEW p \in Processes, Ensure(p) \/ TlsEnds(p)
        PROVE  TlsTypeOK'
    BY <1>3 DEF Ensure, TlsEnds, Goes, Returns
  <1>4. ASSUME NEW p \in Processes, TlsStep(p)
        PROVE  TlsTypeOK'
    <2>1. CASE Look(p) \/ ReadCert(p) \/ ReadKey(p)
      BY <2>1 DEF Look, ReadCert, ReadKey, Goes, Returns
    <2>2. CASE Generate(p) \/ WriteKey(p) \/ OpenCert(p)
      BY <2>2 DEF Generate, WriteKey, OpenCert, Goes
    <2>3. CASE WriteCert(p) \/ EnsureFails(p)
      BY <2>3 DEF WriteCert, EnsureFails, Returns
    <2>4. QED
      BY <1>4, <2>1, <2>2, <2>3 DEF TlsStep
  <1>5. QED
    BY <1>1, <1>2, <1>3, <1>4, DeviceSteps

LEMMA EffectiveTypes ==
  ASSUME Config!ConfigTypeOK, NEW p \in Processes, NEW next \in Config!Overrides,
         NEW file \in Config!Overrides \cup {None}, Config!Effective(p, next, file)
  PROVE  Config!ConfigTypeOK'
  <1> USE DEF Config!ConfigTypeOK
  <1>1. CASE next.print # None
    BY <1>1 DEF Config!Effective
  <1>2. CASE next.print = None
    <2>1. PICK print \in Prints \ drawn :
            LET complete == [next EXCEPT !.print = print]
            IN  /\ memory' = [memory EXCEPT ![p] = complete]
                /\ saved' \in {complete, file}
                /\ drawn' = drawn \cup {print}
      BY <1>2 DEF Config!Effective, Config!Persist
    <2> DEFINE complete == [next EXCEPT !.print = print]
    <2>2. complete \in Config!Overrides
      BY DEF Config!Overrides
    <2>3. /\ memory' = [memory EXCEPT ![p] = complete] /\ saved' \in {complete, file}
          /\ drawn' \subseteq Prints
      BY <2>1
    <2> HIDE DEF complete
    <2>4. QED
      BY <2>2, <2>3
  <1>3. QED
    BY <1>1, <1>2

LEMMA ConfigTypesStep == Config!ConfigTypeOK /\ [Next]_vars => Config!ConfigTypeOK'
  <1> SUFFICES ASSUME Config!ConfigTypeOK, [Next]_vars PROVE Config!ConfigTypeOK'
    OBVIOUS
  <1> USE DEF Config!ConfigTypeOK
  <1>1. CASE UNCHANGED configVars
    BY <1>1 DEF configVars
  <1>2. ASSUME NEW p \in Processes, Start(p) \/ Config!Ends(p)
        PROVE  Config!ConfigTypeOK'
    BY <1>2 DEF Start, Config!Load, Config!Ends, Config!NoOverrides, Config!Overrides
  <1>3. ASSUME NEW p \in Processes, Config!GetConfig(p)
        PROVE  Config!ConfigTypeOK'
    BY <1>3, EffectiveTypes DEF Config!GetConfig, Config!Running
  <1>4. ASSUME NEW p \in Processes, NEW value \in Values, Config!UpdateConfig(p, value)
        PROVE  Config!ConfigTypeOK'
    <2> DEFINE next == [memory[p] EXCEPT !.value = value]
    <2>1. next \in Config!Overrides
      BY <1>4 DEF Config!UpdateConfig, Config!Running, Config!Overrides
    <2>2. \/ Config!Effective(p, next, next)
          \/ memory' = [memory EXCEPT ![p] = next] /\ UNCHANGED <<saved, drawn>>
      BY <1>4 DEF Config!UpdateConfig
    <2> HIDE DEF next
    <2>3. QED
      BY <2>1, <2>2, EffectiveTypes
  <1>5. QED
    BY <1>1, <1>2, <1>3, <1>4, SettingsSteps

\* Every variable of the device keeps its type, whether or not processes overlap.
THEOREM DeviceTypes == Spec => []TypeOK
  <1>1. Init => TypeOK
    BY IdentityInit, SettingsInit DEF Init, TypeOK, IdentityInv, SettingsInv
  <1>2. TypeOK /\ [Next]_vars => TypeOK'
    BY TlsTypesStep, ConfigTypesStep DEF TypeOK
  <1>3. QED
    BY <1>1, <1>2, PTL DEF Spec
=============================================================================
