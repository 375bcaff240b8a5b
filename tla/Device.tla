------------------------------- MODULE Device -------------------------------
(***************************************************************************)
(* What stays on a machine between tool calls: the settings (ConfigStore)   *)
(* and the TLS identity (TlsIdentity), used by processes that start, run    *)
(* the tools and end or are killed at any moment.                           *)
(***************************************************************************)
EXTENDS TlsIdentity

CONSTANTS Values, Prints

VARIABLES saved, memory, drawn

Config == INSTANCE ConfigStore

ASSUME SettingsAssumption == None \notin Config!Overrides

configVars == <<saved, memory, drawn>>

vars == <<tlsVars, configVars>>

TypeOK == TlsTypeOK /\ Config!ConfigTypeOK

Init == TlsInit /\ Config!ConfigInit

\* A process starts and reads the settings, in the absence of others unless
\* processes may overlap.
Start(p) ==
  /\ Overlap \/ \A q \in Processes : ~Config!Running(q)
  /\ Config!Load(p)
  /\ UNCHANGED tlsVars

\* localsend_setup updates the settings, every other tool reads them; then they
\* ask for the TLS identity, except where resolveTransport finds "http".
Tool(p) ==
  /\ tls[p] = "idle"
  /\ Config!GetConfig(p) \/ \E value \in Values : Config!UpdateConfig(p, value)
  /\ Ensure(p) \/ UNCHANGED tlsVars

Identify(p) == TlsStep(p) /\ UNCHANGED configVars

\* The process is killed or ends.
Stop(p) == Config!Ends(p) /\ TlsEnds(p)

Next ==
  \/ \E p \in Processes : Start(p) \/ Tool(p) \/ Identify(p) \/ Stop(p)
  \/ Expire /\ UNCHANGED configVars

Spec == Init /\ [][Next]_vars

PrintKept == Config!PrintKept
=============================================================================
