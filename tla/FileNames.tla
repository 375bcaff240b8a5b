------------------------------ MODULE FileNames ------------------------------
(***************************************************************************)
(* From the name a peer declares to the names uniquePath tries:            *)
(* safeFileName and uniquePath (src/net.ts), with Node's path.extname and  *)
(* path.basename.  A name is a sequence of characters; "control", "space"  *)
(* and "x" stand for all control characters, all white space and all       *)
(* ordinary characters.                                                    *)
(***************************************************************************)
EXTENDS Texts, SequencesExt

CONSTANTS
  NameCap,  \* 200
  ExtCap    \* 20

\* A cut name of up to two characters could consist of dots again.
ASSUME CapsAssumption ==
  NameCap \in Nat /\ ExtCap \in Nat /\ ExtCap + 2 <= NameCap /\ NameCap > 2

Refused == <<>>

Cut(name, n) == SubSeq(name, 1, IF Len(name) < n THEN Len(name) ELSE n)

\* path.extname: from the last dot on, unless it is the first character or the
\* name is "..".
ExtName(name) ==
  LET dot == SelectLastInSeq(name, LAMBDA c : c = ".")
  IN  IF dot <= 1 \/ name = <<".", ".">> THEN <<>> ELSE SubSeq(name, dot, Len(name))

\* path.basename without that extension.
BaseName(name) == SubSeq(name, 1, Len(name) - Len(ExtName(name)))

\* The name without its control characters.
Printed(name) ==
  LET upto[n \in 0 .. Len(name)] ==
        IF n = 0 THEN <<>>
        ELSE IF name[n] = "control" THEN upto[n - 1] ELSE Append(upto[n - 1], name[n])
  IN  upto[Len(name)]

\* What is left of a declared name: the last component of either kind of path,
\* without control characters, emptied if it is all dots, trimmed.
Cleaned(raw) ==
  LET slash   == SelectLastInSeq(raw, LAMBDA c : c \in {"/", "\\"})
      printed == Printed(SubSeq(raw, slash + 1, Len(raw)))
  IN  IF ToSet(printed) \subseteq {"."} THEN <<>> ELSE Trim(printed)

\* Faulty: cut at the end.
CappedAtTheEnd(name) == Cut(name, NameCap)

\* A long name keeps the first characters of its extension.
Capped(name) ==
  LET ext == Cut(ExtName(name), ExtCap)
  IN  IF Len(name) > NameCap THEN Cut(name, NameCap - Len(ext)) \o ext ELSE name

\* Faulty: trimming is taken to leave dots alone.
SafeFileNameOnce(raw) ==
  IF Cleaned(raw) = <<>> THEN Refused ELSE Capped(Cleaned(raw))

\* Trimming may have left dots again.
SafeFileName(raw) ==
  IF Cleaned(raw) \in {<<>>, <<".">>, <<".", ".">>} THEN Refused ELSE Capped(Cleaned(raw))

\* The first names uniquePath tries.
Candidates(safe) ==
  <<safe>> \o [k \in 1 .. 2 |->
                 BaseName(safe) \o <<"space", IF k = 1 THEN "(2)" ELSE "(3)">> \o ExtName(safe)]
=============================================================================
