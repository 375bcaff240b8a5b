----------------------------- MODULE ConfigStore -----------------------------
(***************************************************************************)
(* The settings (src/config.ts) of several processes that share one file:   *)
(* each keeps its own copy of the overrides, read once at its start, and    *)
(* writes all of it back.  persist() writes a file of its own and renames   *)
(* it, so the shared one is replaced as a whole or not at all; a kill in    *)
(* between is a persist() that failed.                                      *)
(***************************************************************************)
CONSTANTS
  Processes,
  Values,  \* what the user may set (the settings other than the fingerprint)
  Prints,  \* bound: fingerprints that can be generated
  None

VARIABLES
  saved,   \* the settings file: overrides, or None if it is absent or unreadable
  memory,  \* process -> its overrides, or None while it does not run
  drawn    \* fingerprints generated so far

configVars == <<saved, memory, drawn>>

Overrides == [value : Values \cup {None}, print : Prints \cup {None}]
NoOverrides == [value |-> None, print |-> None]

ConfigTypeOK ==
  /\ saved \in Overrides \cup {None}
  /\ memory \in [Processes -> Overrides \cup {None}]
  /\ drawn \subseteq Prints

ConfigInit ==
  /\ saved = None
  /\ memory = [p \in Processes |-> None]
  /\ drawn = {}

Running(p) == memory[p] # None

-----------------------------------------------------------------------------

\* loadConfig at the start of the extension.
Load(p) ==
  /\ ~Running(p)
  /\ memory' = [memory EXCEPT ![p] = IF saved # None THEN saved ELSE NoOverrides]
  /\ UNCHANGED <<saved, drawn>>

\* persist(): what the file may hold afterwards, the new settings as a whole or
\* what was there before.
Persist(new, file) == {new, file}

\* getConfig with the given overrides in memory and the given file: without a
\* fingerprint one is generated and saved, if the file can be written.
Effective(p, overrides, file) ==
  \/ /\ overrides.print # None
     /\ memory' = [memory EXCEPT ![p] = overrides]
     /\ saved' = file
     /\ UNCHANGED drawn
  \/ /\ overrides.print = None
     /\ \E print \in Prints \ drawn :
          LET complete == [overrides EXCEPT !.print = print]
          IN  /\ memory' = [memory EXCEPT ![p] = complete]
              /\ saved' \in Persist(complete, file)
              /\ drawn' = drawn \cup {print}

GetConfig(p) ==
  /\ Running(p)
  /\ Effective(p, memory[p], saved)

\* Faulty: starts from nothing instead of the overrides there are.
UpdateConfigAfresh(p, value) ==
  /\ Running(p)
  /\ LET next == [NoOverrides EXCEPT !.value = value]
     IN  \/ Effective(p, next, next)
         \/ memory' = [memory EXCEPT ![p] = next] /\ UNCHANGED <<saved, drawn>>

\* updateConfig with a valid patch: the copy in memory changes first, and stays
\* changed when persist() throws.
UpdateConfig(p, value) ==
  /\ Running(p)
  /\ LET next == [memory[p] EXCEPT !.value = value]
     IN  \/ Effective(p, next, next)
         \/ memory' = [memory EXCEPT ![p] = next] /\ UNCHANGED <<saved, drawn>>

\* The process ends.
Ends(p) ==
  /\ Running(p)
  /\ memory' = [memory EXCEPT ![p] = None]
  /\ UNCHANGED <<saved, drawn>>

-----------------------------------------------------------------------------

\* "The fingerprint is generated once and persisted, so peers keep recognising
\* this device across sessions": once in the file it stays.
PrintKept ==
  [][(saved # None /\ saved.print # None) =>
       saved' # None /\ saved'.print = saved.print]_configVars
=============================================================================
