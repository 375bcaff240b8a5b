-------------------------- MODULE ConversionsProofs --------------------------
(***************************************************************************)
(* The calls of Conversions, proved for arguments of any length: no        *)
(* declared name leads out of the download directory, none loses its       *)
(* extension on the way there, a certificate reads back as what was asked  *)
(* for, and an alias that only one device shows leads to that device.      *)
(***************************************************************************)
EXTENDS Conversions, CertificateProofs

-----------------------------------------------------------------------------
(* Characters, and names made of them *)

\* The provers do not know of any given string that it belongs to STRING.
Character == STRING \cup {"space", "(2)", "(3)"}

\* The strings with which uniquePath numbers a name are characters, and harmless ones.
LEMMA Characters ==
  /\ "space" \in Character /\ "(2)" \in Character /\ "(3)" \in Character
  /\ "(2)" \notin {".", "/", "\\", "control"} /\ "(3)" \notin {".", "/", "\\", "control"}
  BY Zenon DEF Character

\* A sequence of two characters.
LEMMA Pair ==
  ASSUME NEW a \in Character, NEW b \in Character
  PROVE  /\ <<a, b>> \in Seq(Character)
         /\ Len(<<a, b>>) = 2
         /\ <<a, b>>[1] = a
         /\ <<a, b>>[2] = b
  OBVIOUS

\* Made of characters that may be part of the name of a directory entry.
Harmless(s) == s \in Seq(Character) /\ \A k \in 1 .. Len(s) : s[k] \notin {"/", "\\", "control"}

\* What is not an entry of its own: nothing, the directory itself, the one above.
Dots == {<<>>, <<".">>, <<".", ".">>}

\* Where path.extname finds the last dot.
LEMMA LastDot ==
  ASSUME NEW name \in Seq(Character)
  PROVE  LET dot == SelectLastInSeq(name, LAMBDA c : c = ".")
         IN  /\ dot \in 0 .. Len(name)
             /\ dot > 0 => name[dot] = "."
             /\ \A i \in 1 .. Len(name) : i > dot => name[i] # "."
  <1> DEFINE I == {i \in 1 .. Len(name) : name[i] = "."}
             dot == IF I # {} THEN Max(I) ELSE 0
  <1>1. SelectLastInSeq(name, LAMBDA c : c = ".") = dot
    BY DEF SelectLastInSeq
  <1>2. Len(name) \in Nat /\ I \in SUBSET (1 .. Len(name))
    OBVIOUS
  <1>3. /\ dot \in 0 .. Len(name)
        /\ dot > 0 => dot \in I
        /\ \A i \in I : i <= dot
    <2> HIDE DEF I
    <2> QED BY <1>2, LastPosition
  <1> HIDE DEF dot
  <1> QED BY <1>1, <1>2, <1>3

\* Where safeFileName finds the last separator of either kind.
LEMMA LastSlash ==
  ASSUME NEW name \in Seq(Character)
  PROVE  LET slash == SelectLastInSeq(name, LAMBDA c : c \in {"/", "\\"})
         IN  /\ slash \in 0 .. Len(name)
             /\ \A i \in 1 .. Len(name) : i > slash => name[i] \notin {"/", "\\"}
  <1> DEFINE I == {i \in 1 .. Len(name) : name[i] \in {"/", "\\"}}
             slash == IF I # {} THEN Max(I) ELSE 0
  <1>1. SelectLastInSeq(name, LAMBDA c : c \in {"/", "\\"}) = slash
    BY DEF SelectLastInSeq
  <1>2. Len(name) \in Nat /\ I \in SUBSET (1 .. Len(name))
    OBVIOUS
  <1>3. slash \in 0 .. Len(name) /\ \A i \in I : i <= slash
    <2> HIDE DEF I
    <2> QED BY <1>2, LastPosition
  <1> HIDE DEF slash
  <1> QED BY <1>1, <1>2, <1>3

\* Printed drops the control characters and adds none.
LEMMA PrintedChars ==
  ASSUME NEW name \in Seq(Character)
  PROVE  /\ Printed(name) \in Seq(Character)
         /\ \A k \in 1 .. Len(Printed(name)) :
              Printed(name)[k] # "control" /\ \E i \in 1 .. Len(name) : Printed(name)[k] = name[i]
  <1> DEFINE n == Len(name)
             V == Seq(Character)
             base == <<>>
             Step == [p \in (1 .. n) \X V |->
                        IF name[p[1]] = "control" THEN p[2] ELSE Append(p[2], name[p[1]])]
             Is(f) == f = [k \in 0 .. Len(name) |->
                     IF k = 0 THEN <<>>
                     ELSE IF name[k] = "control" THEN f[k - 1] ELSE Append(f[k - 1], name[k])]
             upto == CHOOSE f : Is(f)
  <1>0. n \in Nat /\ base \in V
    OBVIOUS
  <1>1. Step \in [(1 .. n) \X V -> V]
    <2>1. ASSUME NEW p \in (1 .. n) \X V PROVE Step[p] \in V
      <3>1. p[1] \in 1 .. n /\ p[2] \in V /\ name[p[1]] \in Character
        OBVIOUS
      <3>2. Append(p[2], name[p[1]]) \in V
        BY <3>1
      <3> QED BY <3>1, <3>2
    <2> QED BY <2>1
  <1>2. PICK f \in [0 .. n -> V] : f[0] = base /\ \A k \in 1 .. n : f[k] = Step[<<k, f[k - 1]>>]
    <2> HIDE DEF n, V, Step, base
    <2>1. Counted(n, V, base, Step)
      BY <1>0, <1>1, Counting DEF StepsUp
    <2> QED BY <2>1 DEF Counted
  <1>3. Is(f)
    <2>1. \A k \in 0 .. n : k # 0 => k \in 1 .. n /\ k - 1 \in 0 .. n
      BY <1>0
    <2>2. \A k \in 1 .. n : Step[<<k, f[k - 1]>>] =
            IF name[k] = "control" THEN f[k - 1] ELSE Append(f[k - 1], name[k])
      <3> SUFFICES ASSUME NEW k \in 1 .. n
                   PROVE Step[<<k, f[k - 1]>>] =
                            IF name[k] = "control" THEN f[k - 1] ELSE Append(f[k - 1], name[k])
        OBVIOUS
      <3>1. f[k - 1] \in V
        BY <1>0
      <3> HIDE DEF V
      <3> QED BY <3>1
    <2> HIDE DEF Step
    <2> QED BY <1>2, <2>1, <2>2
  <1>4. Is(upto)
    <2> HIDE DEF Is
    <2> QED BY <1>3
  <1>5. Printed(name) = upto[n]
    BY DEF Printed
  <1> DEFINE Clean(k) == /\ upto[k] \in V
                         /\ \A j \in 1 .. Len(upto[k]) :
                              upto[k][j] # "control" /\ \E i \in 1 .. n : upto[k][j] = name[i]
             Bad == {k \in 0 .. n : ~Clean(k)}
  <1>6. upto[0] = <<>> /\ \A k \in 1 .. n :
          upto[k] = IF name[k] = "control" THEN upto[k - 1] ELSE Append(upto[k - 1], name[k])
    <2>1. Is(upto)
      BY <1>4
    <2>2. 0 \in 0 .. n /\ \A k \in 1 .. n : k \in 0 .. n /\ k # 0
      BY <1>0
    <2> HIDE DEF upto
    <2> QED BY <2>1, <2>2
  <1> HIDE DEF upto
  <1>7. ASSUME NEW k \in 1 .. n, Clean(k - 1) PROVE Clean(k)
    <2>1. CASE name[k] = "control"
      BY <1>6, <1>7, <2>1
    <2>2. CASE name[k] # "control"
      <3>1. /\ upto[k] = Append(upto[k - 1], name[k]) /\ name[k] \in Character
            /\ upto[k - 1] \in Seq(Character)
        <4>1. name[k] \in Character
          OBVIOUS
        <4>2. upto[k - 1] \in Seq(Character)
          BY <1>7
        <4> QED BY <1>6, <2>2, <4>1, <4>2
      <3>2. /\ upto[k] \in Seq(Character)
            /\ Len(upto[k]) = Len(upto[k - 1]) + 1
            /\ upto[k][Len(upto[k])] = name[k]
            /\ \A j \in 1 .. Len(upto[k - 1]) : upto[k][j] = upto[k - 1][j]
        BY <3>1
      <3>3. Len(upto[k - 1]) \in Nat
        BY <3>1
      <3>4. ASSUME NEW j \in 1 .. Len(upto[k])
            PROVE  upto[k][j] # "control" /\ \E i \in 1 .. n : upto[k][j] = name[i]
        <4>1. j \in 1 .. Len(upto[k - 1]) \/ j = Len(upto[k])
          BY <3>2, <3>3
        <4> QED BY <4>1, <3>2, <1>7, <2>2
      <3> QED BY <3>2, <3>4
    <2> QED BY <2>1, <2>2
  <1>8. Bad = {}
    <2> SUFFICES ASSUME Bad # {} PROVE FALSE
      OBVIOUS
    <2>1. PICK k \in Bad : \A j \in Bad : k <= j
      <3>1. Bad \in SUBSET Nat
        BY <1>0
      <3> HIDE DEF Bad
      <3> QED BY <3>1, Least
    <2>2. k # 0
      <3>1. Clean(0)
        <4>1. upto[0] \in Seq(Character) /\ Len(upto[0]) = 0
          BY <1>6
        <4>2. \A j \in 1 .. Len(upto[0]) : FALSE
          BY <4>1
        <4> QED BY <4>1, <4>2
      <3>2. ~Clean(k)
        OBVIOUS
      <3> HIDE DEF Clean, Bad
      <3> QED BY <3>1, <3>2, Zenon
    <2>3. k \in 1 .. n /\ k - 1 \in 0 .. n /\ ~(k <= k - 1)
      BY <1>0, <2>2
    <2>4. Clean(k - 1)
      <3> HIDE DEF Clean
      <3> QED BY <2>1, <2>3
    <2> HIDE DEF Clean
    <2> QED BY <1>7, <2>3, <2>4
  <1>9. Clean(n)
    <2> HIDE DEF Clean
    <2> QED BY <1>8, <1>0
  <1> QED BY <1>5, <1>9

\* Part of a harmless name is harmless.
LEMMA PartHarmless ==
  ASSUME NEW s, Harmless(s), NEW a \in Nat \ {0}, NEW b \in Nat, b <= Len(s)
  PROVE  Harmless(SubSeq(s, a, b))
  <1>1. s \in Seq(Character)
    BY DEF Harmless
  <1>2. /\ SubSeq(s, a, b) \in Seq(Character)
        /\ \A k \in 1 .. Len(SubSeq(s, a, b)) : k + a - 1 \in 1 .. Len(s) /\ SubSeq(s, a, b)[k] = s[k + a - 1]
    BY <1>1
  <1> QED BY <1>2 DEF Harmless

\* Two harmless names joined are harmless.
LEMMA JoinHarmless ==
  ASSUME NEW s, NEW t, Harmless(s), Harmless(t)
  PROVE  Harmless(s \o t)
  <1>1. s \in Seq(Character) /\ t \in Seq(Character)
    BY DEF Harmless
  <1>2. s \o t \in Seq(Character) /\ Len(s \o t) = Len(s) + Len(t) /\ Len(s) \in Nat /\ Len(t) \in Nat
    BY <1>1
  <1>3. ASSUME NEW k \in 1 .. Len(s \o t) PROVE (s \o t)[k] \notin {"/", "\\", "control"}
    <2>1. CASE k <= Len(s)
      <3>1. k \in 1 .. Len(s) /\ (s \o t)[k] = s[k]
        BY <1>1, <2>1, <1>2
      <3> QED BY <3>1 DEF Harmless
    <2>2. CASE k > Len(s)
      <3>1. k - Len(s) \in 1 .. Len(t) /\ (s \o t)[k] = t[k - Len(s)]
        BY <1>1, <2>2, <1>2
      <3> QED BY <3>1 DEF Harmless
    <2> QED BY <2>1, <2>2, <1>2
  <1> QED BY <1>2, <1>3 DEF Harmless

\* A cut name is as long as it may be and starts as the name does.
LEMMA CutIs ==
  ASSUME NEW s \in Seq(Character), NEW n \in Nat
  PROVE  /\ Cut(s, n) \in Seq(Character)
         /\ Len(Cut(s, n)) = IF Len(s) < n THEN Len(s) ELSE n
         /\ \A k \in 1 .. Len(Cut(s, n)) : k \in 1 .. Len(s) /\ Cut(s, n)[k] = s[k]
         /\ Harmless(s) => Harmless(Cut(s, n))
  <1>1. Len(s) \in Nat
    OBVIOUS
  <1> DEFINE m == IF Len(s) < n THEN Len(s) ELSE n
  <1>2. m \in Nat /\ m <= Len(s) /\ Cut(s, n) = SubSeq(s, 1, m)
    BY <1>1 DEF Cut
  <1> HIDE DEF m
  <1>3. /\ SubSeq(s, 1, m) \in Seq(Character)
        /\ Len(SubSeq(s, 1, m)) = m
        /\ \A k \in 1 .. m : k \in 1 .. Len(s) /\ SubSeq(s, 1, m)[k] = s[k]
    BY <1>1, <1>2
  <1>4. Harmless(s) => Harmless(SubSeq(s, 1, m))
    BY <1>2, PartHarmless
  <1> QED BY <1>1, <1>2, <1>3, <1>4 DEF m

\* A trimmed harmless name is harmless.
LEMMA TrimHarmless ==
  ASSUME NEW s, Harmless(s)
  PROVE  Harmless(Trim(s))
  <1> DEFINE solid == {i \in DOMAIN s : s[i] # "space"}
  <1>0. s \in Seq(Character)
    BY DEF Harmless
  <1>1. Len(s) \in Nat /\ DOMAIN s = 1 .. Len(s)
    BY <1>0
  <1>4. \A i \in 1 .. Len(s) : i \in Nat \ {0} /\ i <= Len(s)
    BY <1>1
  <1>5. \A k \in solid : k \in Nat \ {0} /\ k <= Len(s)
    <2> SUFFICES ASSUME NEW k \in solid PROVE k \in Nat \ {0} /\ k <= Len(s)
      OBVIOUS
    <2>1. k \in 1 .. Len(s)
      BY <1>1
    <2> HIDE DEF solid
    <2> QED BY <2>1, <1>4
  <1>2. CASE solid = {}
    <2>1. Trim(s) = <<>>
      BY <1>2 DEF Trim
    <2> QED BY <2>1 DEF Harmless
  <1>3. CASE solid # {}
    <2>1. Trim(s) = SubSeq(s, Min(solid), Max(solid))
      BY <1>3 DEF Trim
    <2>2. Min(solid) \in solid /\ Max(solid) \in solid
      <3>1. solid \in SUBSET Nat /\ \A k \in solid : k <= Len(s)
        <4> HIDE DEF solid
        <4> QED BY <1>5
      <3> HIDE DEF solid
      <3> QED BY <1>1, <1>3, <3>1, MinIs, MaxIs
    <2>3. Min(solid) \in Nat \ {0} /\ Max(solid) \in Nat /\ Max(solid) <= Len(s)
      <3> HIDE DEF solid
      <3> QED BY <2>2, <1>5
    <2> QED BY <2>1, <2>3, PartHarmless
  <1> QED BY <1>2, <1>3

\* Neither kind of path separator and no control character is left of a name.
LEMMA CleanedHarmless ==
  ASSUME NEW raw \in Seq(Character)
  PROVE  Harmless(Cleaned(raw))
  <1> DEFINE slash == SelectLastInSeq(raw, LAMBDA c : c \in {"/", "\\"})
             part == SubSeq(raw, slash + 1, Len(raw))
  <1>1. slash \in 0 .. Len(raw) /\ \A i \in 1 .. Len(raw) : i > slash => raw[i] \notin {"/", "\\"}
    BY LastSlash
  <1>2. Cleaned(raw) = IF ToSet(Printed(part)) \subseteq {"."} THEN <<>> ELSE Trim(Printed(part))
    BY DEF Cleaned
  <1> HIDE DEF slash
  <1>3. Len(raw) \in Nat /\ slash \in Nat
    BY <1>1
  <1>4. /\ part \in Seq(Character)
        /\ \A k \in 1 .. Len(part) : k + slash \in 1 .. Len(raw) /\ part[k] = raw[k + slash]
    BY <1>1, <1>3
  <1>5. \A k \in 1 .. Len(part) : part[k] \notin {"/", "\\"}
    <2> SUFFICES ASSUME NEW k \in 1 .. Len(part) PROVE part[k] \notin {"/", "\\"}
      OBVIOUS
    <2>1. k + slash > slash /\ k + slash \in 1 .. Len(raw) /\ part[k] = raw[k + slash]
      BY <1>4, <1>3
    <2> HIDE DEF part
    <2> QED BY <2>1, <1>1
  <1> HIDE DEF part
  <1>6. Harmless(Printed(part))
    <2>1. /\ Printed(part) \in Seq(Character)
          /\ \A k \in 1 .. Len(Printed(part)) :
               Printed(part)[k] # "control" /\ \E i \in 1 .. Len(part) : Printed(part)[k] = part[i]
      BY <1>4, PrintedChars
    <2> QED BY <2>1, <1>5 DEF Harmless
  <1>7. Harmless(<<>>)
    BY DEF Harmless
  <1> QED BY <1>2, <1>6, <1>7, TrimHarmless

-----------------------------------------------------------------------------
(* Extensions *)

\* path.extname in terms of the last dot.
LEMMA ExtIs ==
  ASSUME NEW name \in Seq(Character)
  PROVE  \E dot \in 0 .. Len(name) :
           /\ dot > 0 => name[dot] = "."
           /\ \A i \in 1 .. Len(name) : i > dot => name[i] # "."
           /\ ExtName(name) =
                IF dot <= 1 \/ name = <<".", ".">> THEN <<>> ELSE SubSeq(name, dot, Len(name))
  <1> DEFINE dot == SelectLastInSeq(name, LAMBDA c : c = ".")
  <1>1. /\ dot \in 0 .. Len(name)
        /\ dot > 0 => name[dot] = "."
        /\ \A i \in 1 .. Len(name) : i > dot => name[i] # "."
    BY LastDot
  <1>2. ExtName(name) = IF dot <= 1 \/ name = <<".", ".">> THEN <<>> ELSE SubSeq(name, dot, Len(name))
    BY DEF ExtName
  <1> HIDE DEF dot
  <1> QED BY <1>1, <1>2

\* A name without a dot after its first character has no extension.
LEMMA NoExt ==
  ASSUME NEW name \in Seq(Character), \A i \in 2 .. Len(name) : name[i] # "."
  PROVE  ExtName(name) = <<>>
  <1>1. PICK dot \in 0 .. Len(name) :
           /\ dot > 0 => name[dot] = "."
           /\ ExtName(name) =
                IF dot <= 1 \/ name = <<".", ".">> THEN <<>> ELSE SubSeq(name, dot, Len(name))
    BY ExtIs
  <1>2. dot <= 1
    <2> SUFFICES ASSUME dot > 1 PROVE FALSE
      BY <1>1
    <2>1. dot \in 2 .. Len(name) /\ name[dot] = "."
      BY <1>1
    <2> QED BY <2>1
  <1> QED BY <1>1, <1>2

\* What an extension looks like: it starts with its only dot.
Ext(e) == e \in Seq(Character) /\ e # <<>> /\ e[1] = "." /\ \A i \in 2 .. Len(e) : e[i] # "."

\* What is joined to a base of two characters or more is the extension.
LEMMA JoinedExt ==
  ASSUME NEW base \in Seq(Character), Len(base) >= 2, NEW e, Ext(e)
  PROVE  ExtName(base \o e) = e
  <1> DEFINE name == base \o e
             b == Len(base)
  <1>1. /\ e \in Seq(Character) /\ Len(e) \in Nat /\ Len(e) >= 1 /\ b \in Nat /\ b >= 2
        /\ e[1] = "." /\ \A i \in 2 .. Len(e) : e[i] # "."
    BY DEF Ext
  <1>2. /\ name \in Seq(Character)
        /\ Len(name) = b + Len(e)
        /\ \A i \in 1 .. Len(e) : name[b + i] = e[i]
    BY <1>1
  <1> HIDE DEF name, b
  <1>3. PICK dot \in 0 .. Len(name) :
           /\ dot > 0 => name[dot] = "."
           /\ \A i \in 1 .. Len(name) : i > dot => name[i] # "."
           /\ ExtName(name) =
                IF dot <= 1 \/ name = <<".", ".">> THEN <<>> ELSE SubSeq(name, dot, Len(name))
    BY <1>2, ExtIs
  <1>4. dot = b + 1
    <2>1. name[b + 1] = "." /\ b + 1 \in 1 .. Len(name)
      BY <1>1, <1>2
    <2>2. ~(b + 1 > dot)
      BY <1>3, <2>1
    <2>3. CASE dot > b + 1
      <3>1. dot - b \in 2 .. Len(e) /\ name[b + (dot - b)] = e[dot - b] /\ b + (dot - b) = dot
        BY <1>1, <1>2, <2>3
      <3> QED BY <3>1, <1>1, <1>3
    <2> QED BY <2>2, <2>3, <1>1
  <1>5. name # <<".", ".">>
    <2>1. Len(name) # 2
      BY <1>1, <1>2
    <2> QED BY <2>1
  <1>6. ExtName(name) = SubSeq(name, b + 1, b + Len(e))
    <2>1. ~(dot <= 1)
      BY <1>1, <1>4
    <2>2. ExtName(name) = SubSeq(name, dot, Len(name))
      BY <1>3, <1>5, <2>1, Zenon
    <2> QED BY <2>2, <1>2, <1>4, Zenon
  <1>7. SubSeq(name, b + 1, b + Len(e)) = e
    <2>1. /\ SubSeq(name, b + 1, b + Len(e)) \in Seq(Character)
          /\ Len(SubSeq(name, b + 1, b + Len(e))) = Len(e)
          /\ \A i \in 1 .. Len(e) : SubSeq(name, b + 1, b + Len(e))[i] = name[b + i]
      BY <1>1, <1>2
    <2> QED BY <2>1, <1>1, <1>2, SeqEqual
  <1> QED BY <1>6, <1>7 DEF name

\* Every name but ".." is without an extension or is its base name, of one
\* character or more, and its extension.
LEMMA ExtCases ==
  ASSUME NEW name \in Seq(Character), name # <<".", ".">>
  PROVE  \/ ExtName(name) = <<>> /\ \A i \in 2 .. Len(name) : name[i] # "."
         \/ /\ Ext(ExtName(name))
            /\ Len(ExtName(name)) < Len(name)
            /\ \A i \in 1 .. Len(ExtName(name)) :
                 ExtName(name)[i] = name[Len(name) - Len(ExtName(name)) + i]
  <1>1. PICK dot \in 0 .. Len(name) :
           /\ dot > 0 => name[dot] = "."
           /\ \A i \in 1 .. Len(name) : i > dot => name[i] # "."
           /\ ExtName(name) =
                IF dot <= 1 \/ name = <<".", ".">> THEN <<>> ELSE SubSeq(name, dot, Len(name))
    BY ExtIs
  <1>2. Len(name) \in Nat
    OBVIOUS
  <1>3. CASE dot <= 1
    <2>1. \A i \in 2 .. Len(name) : name[i] # "."
      BY <1>1, <1>2, <1>3
    <2> QED BY <1>1, <1>3, <2>1
  <1>4. CASE dot > 1
    <2> DEFINE e == SubSeq(name, dot, Len(name))
    <2>1. ExtName(name) = e
      BY <1>1, <1>4
    <2>2. /\ e \in Seq(Character)
          /\ Len(e) = Len(name) - dot + 1
          /\ \A i \in 1 .. Len(e) : e[i] = name[dot + i - 1] /\ dot + i - 1 \in 1 .. Len(name)
      BY <1>1, <1>2, <1>4
    <2> HIDE DEF e
    <2>3. Len(e) \in 1 .. Len(name) - 1
      BY <2>2, <1>2, <1>4
    <2>4. e[1] = "."
      <3>1. 1 \in 1 .. Len(e) /\ dot + 1 - 1 = dot
        BY <2>3
      <3> QED BY <3>1, <2>2, <1>1, <1>4
    <2>5. \A i \in 2 .. Len(e) : e[i] # "."
      <3> SUFFICES ASSUME NEW i \in 2 .. Len(e) PROVE e[i] # "."
        OBVIOUS
      <3>1. dot + i - 1 > dot /\ i \in 1 .. Len(e)
        BY <2>3
      <3> QED BY <3>1, <2>2, <1>1
    <2>6. \A i \in 1 .. Len(e) : e[i] = name[Len(name) - Len(e) + i]
      <3> SUFFICES ASSUME NEW i \in 1 .. Len(e) PROVE e[i] = name[Len(name) - Len(e) + i]
        OBVIOUS
      <3>1. dot + i - 1 = Len(name) - Len(e) + i
        BY <2>2, <2>3, <1>2
      <3> QED BY <3>1, <2>2
    <2>7. e # <<>>
      BY <2>3
    <2> QED BY <2>1, <2>2, <2>3, <2>4, <2>5, <2>6, <2>7, <1>2 DEF Ext
  <1> QED BY <1>2, <1>3, <1>4

\* Three characters are too many to be an entry that is none.
LEMMA LongNotDots ==
  ASSUME NEW s \in Seq(Character), Len(s) > 2
  PROVE  s \notin Dots
  <1>1. CASE s = <<>>
    BY <1>1
  <1>2. CASE s = <<".">>
    BY <1>2
  <1>3. CASE s = <<".", ".">>
    BY <1>3
  <1> QED BY <1>1, <1>2, <1>3 DEF Dots

\* So is one space.
LEMMA SpaceNotDots ==
  ASSUME NEW s \in Seq(Character), NEW i \in 1 .. Len(s), s[i] = "space"
  PROVE  s \notin Dots
  <1> SUFFICES ASSUME s \in Dots PROVE FALSE
    OBVIOUS
  <1>1. CASE s = <<>>
    BY <1>1
  <1>2. CASE s = <<".">>
    <2>1. i = 1
      BY <1>2
    <2> QED BY <1>2, <2>1
  <1>3. CASE s = <<".", ".">>
    <2>1. i = 1 \/ i = 2
      BY <1>3
    <2> QED BY <1>3, <2>1
  <1> QED BY <1>1, <1>2, <1>3 DEF Dots

\* Cutting a long name leaves it harmless, makes it no name of dots, respects the
\* limit and keeps an extension that is not too long: the rest is two characters
\* or more, so that its dot is not taken for the first character.
LEMMA CappedIs ==
  ASSUME NEW name, Harmless(name), name \notin Dots
  PROVE  /\ Harmless(Capped(name))
         /\ Capped(name) \notin Dots
         /\ Len(Capped(name)) <= NameCap
         /\ Len(ExtName(name)) <= ExtCap => ExtName(Capped(name)) = ExtName(name)
  <1> DEFINE ext == Cut(ExtName(name), ExtCap)
             head == Cut(name, NameCap - Len(ext))
  <1>1. name \in Seq(Character) /\ Len(name) \in Nat
    BY DEF Harmless
  <1>2. CASE Len(name) <= NameCap
    <2>1. Capped(name) = name
      BY <1>1, <1>2, CapsAssumption DEF Capped
    <2> QED BY <2>1, <1>2
  <1>3. CASE Len(name) > NameCap
    <2>1. Capped(name) = head \o ext
      BY <1>3 DEF Capped
    <2>2. name # <<".", ".">>
      BY DEF Dots
    <2>3. ExtName(name) \in Seq(Character) /\ Harmless(ExtName(name))
      <3>1. CASE ExtName(name) = <<>>
        BY <3>1 DEF Harmless
      <3>2. CASE Ext(ExtName(name)) /\ Len(ExtName(name)) < Len(name)
                 /\ \A i \in 1 .. Len(ExtName(name)) :
                      ExtName(name)[i] = name[Len(name) - Len(ExtName(name)) + i]
        <4>1. ExtName(name) \in Seq(Character) /\ Len(ExtName(name)) \in Nat
          BY <3>2 DEF Ext
        <4>2. \A i \in 1 .. Len(ExtName(name)) : Len(name) - Len(ExtName(name)) + i \in 1 .. Len(name)
          BY <4>1, <3>2, <1>1
        <4> QED BY <4>1, <4>2, <3>2 DEF Harmless
      <3> QED BY <3>1, <3>2, <1>1, <2>2, ExtCases
    <2>4. /\ ext \in Seq(Character) /\ Len(ext) \in Nat /\ Len(ext) <= ExtCap /\ Harmless(ext)
          /\ Len(ext) = IF Len(ExtName(name)) < ExtCap THEN Len(ExtName(name)) ELSE ExtCap
          /\ \A k \in 1 .. Len(ext) : ext[k] = ExtName(name)[k]
      <3>1. ExtCap \in Nat /\ Len(ExtName(name)) \in Nat
        BY <2>3, CapsAssumption
      <3> QED BY <2>3, <3>1, CutIs
    <2> HIDE DEF ext
    <2>5. NameCap - Len(ext) \in Nat /\ NameCap - Len(ext) >= 2 /\ NameCap - Len(ext) <= Len(name)
      BY <2>4, <1>1, <1>3, CapsAssumption
    <2>6. /\ head \in Seq(Character) /\ Harmless(head) /\ Len(head) = NameCap - Len(ext)
          /\ \A k \in 1 .. Len(head) : k \in 1 .. Len(name) /\ head[k] = name[k]
      <3>1. Len(head) = NameCap - Len(ext)
        BY <2>5, <1>1, CutIs
      <3> QED BY <2>5, <3>1, <1>1, CutIs
    <2> HIDE DEF head
    <2>7. Len(head \o ext) = NameCap /\ NameCap \in Nat /\ NameCap > 2
      <3>1. Len(head \o ext) = Len(head) + Len(ext)
        BY <2>4, <2>6, Joined
      <3>2. NameCap \in Nat /\ NameCap > 2 /\ Len(ext) \in Nat
        BY <2>4, CapsAssumption
      <3> QED BY <2>6, <3>1, <3>2
    <2>8. head \o ext \notin Dots
      <3>1. head \o ext \in Seq(Character)
        BY <2>4, <2>6
      <3> QED BY <2>7, <3>1, LongNotDots
    <2>9. ASSUME Len(ExtName(name)) <= ExtCap PROVE ExtName(head \o ext) = ExtName(name)
      <3>1. ext = ExtName(name)
        <4>1. Len(ext) = Len(ExtName(name))
          BY <2>3, <2>4, <2>9, CapsAssumption
        <4> QED BY <4>1, <2>3, <2>4, SeqEqual
      <3>2. CASE ExtName(name) = <<>>
        <4>1. \A i \in 2 .. Len(name) : name[i] # "."
          BY <3>2, <1>1, <2>2, ExtCases DEF Ext
        <4>2. head \o ext = head
          BY <3>1, <3>2, <2>6
        <4>3. \A i \in 2 .. Len(head) : head[i] # "."
          <5> SUFFICES ASSUME NEW i \in 2 .. Len(head) PROVE head[i] # "."
            OBVIOUS
          <5>1. i \in 1 .. Len(head)
            OBVIOUS
          <5>2. i \in 2 .. Len(name) /\ head[i] = name[i]
            BY <5>1, <2>6
          <5> QED BY <5>2, <4>1
        <4> QED BY <4>2, <4>3, <2>6, <3>2, NoExt
      <3>3. CASE Ext(ExtName(name))
        <4>1. Len(head) >= 2 /\ Ext(ext)
          BY <2>5, <2>6, <3>1, <3>3
        <4> QED BY <4>1, <2>6, <3>1, JoinedExt
      <3> QED BY <3>2, <3>3, <1>1, <2>2, ExtCases
    <2>10. Harmless(head \o ext)
      BY <2>4, <2>6, JoinHarmless
    <2>11. Len(head \o ext) <= NameCap
      BY <2>7
    <2> QED BY <2>1, <2>8, <2>9, <2>10, <2>11, Zenon
  <1> QED BY <1>1, <1>2, <1>3, CapsAssumption

\* A number before the extension leaves a name harmless, makes it no name of dots
\* and keeps its extension, whatever its base name looks like.
LEMMA SuffixedIs ==
  ASSUME NEW safe, Harmless(safe), safe \notin Dots, NEW n \in Character, n \notin {".", "/", "\\", "control"}
  PROVE  LET name == BaseName(safe) \o <<"space", n>> \o ExtName(safe)
         IN  /\ Harmless(name)
             /\ name \notin Dots
             /\ ExtName(name) = ExtName(safe)
  <1> DEFINE e == ExtName(safe)
             base == BaseName(safe)
             head == base \o <<"space", n>>
             name == base \o <<"space", n>> \o e
  <1>1. safe \in Seq(Character) /\ Len(safe) \in Nat /\ safe # <<".", ".">> /\ safe # <<>>
    BY DEF Harmless, Dots
  <1>2. /\ e \in Seq(Character) /\ Len(e) \in Nat /\ Harmless(e) /\ (safe # <<>> => Len(e) < Len(safe))
        /\ \/ e = <<>> /\ \A i \in 2 .. Len(safe) : safe[i] # "."
           \/ Ext(e)
    <2>1. CASE e = <<>> /\ \A i \in 2 .. Len(safe) : safe[i] # "."
      <3>1. Len(e) = 0 /\ (safe # <<>> => Len(safe) > 0)
        BY <2>1, <1>1
      <3> QED BY <2>1, <3>1 DEF Harmless
    <2>2. CASE Ext(e) /\ Len(e) < Len(safe)
                 /\ \A i \in 1 .. Len(e) : e[i] = safe[Len(safe) - Len(e) + i]
      <3>1. e \in Seq(Character) /\ Len(e) \in Nat
        BY <2>2 DEF Ext
      <3>2. \A i \in 1 .. Len(e) : Len(safe) - Len(e) + i \in 1 .. Len(safe)
        BY <3>1, <2>2, <1>1
      <3> QED BY <3>1, <3>2, <2>2 DEF Harmless
    <2> QED BY <2>1, <2>2, <1>1, ExtCases
  <1>3. /\ base \in Seq(Character) /\ Len(base) \in Nat /\ Len(base) = Len(safe) - Len(e) /\ Harmless(base)
        /\ \A i \in 1 .. Len(base) : i \in 1 .. Len(safe) /\ base[i] = safe[i]
    <2>1. base = SubSeq(safe, 1, Len(safe) - Len(e))
      BY DEF BaseName
    <2>2. Len(safe) - Len(e) \in Nat /\ Len(safe) - Len(e) <= Len(safe)
      BY <1>1, <1>2
    <2> HIDE DEF e
    <2>3. Harmless(SubSeq(safe, 1, Len(safe) - Len(e)))
      BY <2>2, PartHarmless
    <2> DEFINE b == Len(safe) - Len(e)
    <2>4. b \in Nat /\ b <= Len(safe) /\ base = SubSeq(safe, 1, b) /\ Harmless(SubSeq(safe, 1, b))
      BY <2>1, <2>2, <2>3
    <2>5. b = Len(safe) - Len(e)
      OBVIOUS
    <2> HIDE DEF b
    <2>6. /\ SubSeq(safe, 1, b) \in Seq(Character)
          /\ Len(SubSeq(safe, 1, b)) = b
          /\ \A i \in 1 .. b : i \in 1 .. Len(safe) /\ SubSeq(safe, 1, b)[i] = safe[i]
      BY <1>1, <2>4
    <2> QED BY <2>4, <2>5, <2>6
  <1> HIDE DEF base, e
  <1>4. /\ head \in Seq(Character) /\ Harmless(head) /\ Len(head) = Len(base) + 2
        /\ \A i \in 1 .. Len(base) : head[i] = base[i]
        /\ head[Len(base) + 1] = "space" /\ head[Len(base) + 2] = n
    <2> DEFINE t == <<"space", n>>
    <2>1. t \in Seq(Character) /\ Len(t) = 2 /\ t[1] = "space" /\ t[2] = n
      <3>1. "space" \in Character
        BY Characters, Zenon
      <3> QED BY <3>1, Pair, Zenon
    <2>2. Harmless(t)
      <3>1. \A k \in 1 .. Len(t) : k = 1 \/ k = 2
        BY <2>1
      <3> QED BY <2>1, <3>1 DEF Harmless
    <2> HIDE DEF t
    <2>3. Harmless(base \o t)
      BY <2>2, <1>3, JoinHarmless
    <2>4. /\ base \o t \in Seq(Character) /\ Len(base \o t) = Len(base) + Len(t)
          /\ \A i \in 1 .. Len(base) : (base \o t)[i] = base[i]
          /\ \A i \in 1 .. Len(t) : (base \o t)[Len(base) + i] = t[i]
      <3>1. base \in Seq(Character)
        BY <1>3
      <3>2. t \in Seq(Character)
        BY <2>1
      <3> QED BY <3>1, <3>2, Joined
    <2>5. (base \o t)[Len(base) + 1] = t[1] /\ (base \o t)[Len(base) + 2] = t[2]
      <3>1. 1 \in 1 .. Len(t) /\ 2 \in 1 .. Len(t)
        BY <2>1
      <3> QED BY <2>4, <3>1
    <2> QED BY <2>1, <2>3, <2>4, <2>5 DEF t
  <1>5. name = head \o e
    OBVIOUS
  <1> HIDE DEF head, name
  <1>6. /\ Harmless(name) /\ name \in Seq(Character) /\ Len(name) = Len(head) + Len(e)
        /\ \A i \in 1 .. Len(head) : name[i] = head[i]
    <2>1. Harmless(head \o e)
      BY <1>2, <1>4, JoinHarmless
    <2>2. /\ head \o e \in Seq(Character) /\ Len(head \o e) = Len(head) + Len(e)
          /\ \A i \in 1 .. Len(head) : (head \o e)[i] = head[i]
      <3>1. head \in Seq(Character)
        BY <1>4
      <3>2. e \in Seq(Character)
        BY <1>2
      <3> QED BY <3>1, <3>2, Joined
    <2> QED BY <1>5, <2>1, <2>2
  <1>7. name \notin Dots
    <2>1. Len(base) + 1 \in 1 .. Len(head) /\ Len(base) + 1 \in 1 .. Len(name)
      BY <1>2, <1>3, <1>4, <1>6
    <2>2. name[Len(base) + 1] = "space"
      BY <2>1, <1>4, <1>6
    <2> QED BY <2>1, <2>2, <1>6, SpaceNotDots
  <1>8. ExtName(name) = e
    <2>1. CASE e = <<>>
      <3>1. name = head /\ base = safe
        <4>1. Len(base) = Len(safe)
          BY <2>1, <1>1, <1>3
        <4>2. base = safe
          BY <4>1, <1>1, <1>3, SeqEqual
        <4> QED BY <4>2, <2>1, <1>4, <1>5
      <3>2. \A i \in 2 .. Len(safe) : safe[i] # "."
        BY <2>1, <1>2 DEF Ext
      <3>3. ASSUME NEW i \in 2 .. Len(head) PROVE head[i] # "."
        <4>1. i \in 2 .. Len(base) \/ i = Len(base) + 1 \/ i = Len(base) + 2
          <5>1. Len(head) = Len(base) + 2 /\ Len(base) \in Nat
            BY <1>3, <1>4
          <5> QED BY <5>1
        <4>2. CASE i \in 2 .. Len(base)
          <5>1. i \in 1 .. Len(base) /\ i \in 2 .. Len(safe)
            BY <4>2, <3>1
          <5>2. head[i] = safe[i]
            BY <5>1, <1>4, <3>1
          <5> QED BY <5>1, <5>2, <3>2
        <4>3. head[Len(base) + 1] # "." /\ head[Len(base) + 2] # "."
          BY <1>4
        <4> QED BY <4>1, <4>2, <4>3
      <3> QED BY <3>1, <3>3, <2>1, <1>4, NoExt
    <2>2. CASE Ext(e)
      <3>1. Len(head) >= 2
        BY <1>3, <1>4
      <3> QED BY <3>1, <2>2, <1>4, <1>5, JoinedExt
    <2> QED BY <2>1, <2>2, <1>2
  <1> QED BY <1>6, <1>7, <1>8 DEF name, base, e

-----------------------------------------------------------------------------
(* What safeFileName lets through and uniquePath tries *)

\* What safeFileName lets through is harmless, no name of dots, within the limit,
\* and has the extension of what it was given if that is not too long.
LEMMA SafeIs ==
  ASSUME NEW raw \in Seq(Character), SafeFileName(raw) # Refused
  PROVE  /\ Harmless(SafeFileName(raw))
         /\ SafeFileName(raw) \notin Dots
         /\ Len(SafeFileName(raw)) <= NameCap
         /\ Len(ExtName(Cleaned(raw))) <= ExtCap =>
              ExtName(SafeFileName(raw)) = ExtName(Cleaned(raw))
  <1>1. Cleaned(raw) \notin Dots
    BY Zenon DEF SafeFileName, Dots
  <1>2. SafeFileName(raw) = Capped(Cleaned(raw))
    BY <1>1, Zenon DEF SafeFileName, Dots
  <1>3. Harmless(Cleaned(raw))
    BY CleanedHarmless
  <1> QED BY <1>1, <1>2, <1>3, CappedIs

\* A name with a number before its extension.
Suffixed(safe, n) == BaseName(safe) \o <<"space", n>> \o ExtName(safe)

\* The names uniquePath tries: as given, then with a number.
LEMMA CandidatesAre ==
  ASSUME NEW safe, Harmless(safe)
  PROVE  /\ Len(Candidates(safe)) = 3
         /\ DOMAIN Candidates(safe) = 1 .. 3
         /\ Candidates(safe)[1] = safe
         /\ Candidates(safe)[2] = Suffixed(safe, "(2)")
         /\ Candidates(safe)[3] = Suffixed(safe, "(3)")
  <1> DEFINE rest == [k \in 1 .. 2 |->
                 BaseName(safe) \o <<"space", IF k = 1 THEN "(2)" ELSE "(3)">> \o ExtName(safe)]
             V == {safe, Suffixed(safe, "(2)"), Suffixed(safe, "(3)")}
  <1>1. rest[1] = Suffixed(safe, "(2)") /\ rest[2] = Suffixed(safe, "(3)")
    <2>1. 1 \in 1 .. 2 /\ 2 \in 1 .. 2 /\ 2 # 1
      OBVIOUS
    <2> QED BY <2>1, Zenon DEF Suffixed
  <1>2. DOMAIN rest = 1 .. 2 /\ rest \in [1 .. 2 -> V]
    <2>1. \A k \in 1 .. 2 : k = 1 \/ k = 2
      OBVIOUS
    <2>2. \A k \in 1 .. 2 : rest[k] \in V
      <3> HIDE DEF rest
      <3> QED BY <1>1, <2>1
    <2>3. rest = [k \in 1 .. 2 |-> rest[k]]
      BY Zenon
    <2> HIDE DEF rest, V
    <2> QED BY <2>2, <2>3
  <1>3. Candidates(safe) = <<safe>> \o rest
    BY Zenon DEF Candidates
  <1> HIDE DEF rest
  <1>4. rest \in Seq(V) /\ Len(rest) = 2
    <2> HIDE DEF V
    <2>1. 2 \in Nat /\ rest \in [1 .. 2 -> V]
      BY <1>2
    <2> QED BY <2>1, Tabled, Zenon
  <1>5. <<safe>> \in Seq(V) /\ Len(<<safe>>) = 1 /\ <<safe>>[1] = safe
    <2>1. safe \in V
      BY Zenon
    <2> HIDE DEF V
    <2> QED BY <2>1
  <1> DEFINE one == <<safe>>
  <1>6. one \in Seq(V) /\ Len(one) = 1 /\ one[1] = safe
    BY <1>5
  <1> HIDE DEF one, V
  <1>7. /\ one \o rest \in Seq(V) /\ Len(one \o rest) = Len(one) + Len(rest)
        /\ \A i \in 1 .. Len(one) : (one \o rest)[i] = one[i]
        /\ \A i \in 1 .. Len(rest) : (one \o rest)[Len(one) + i] = rest[i]
    BY <1>4, <1>6, Joined
  <1>8. /\ Len(one \o rest) = 3 /\ (one \o rest)[1] = safe
        /\ (one \o rest)[2] = rest[1] /\ (one \o rest)[3] = rest[2]
    <2>1. 1 \in 1 .. Len(one) /\ 1 \in 1 .. Len(rest) /\ 2 \in 1 .. Len(rest)
      BY <1>4, <1>6
    <2>2. Len(one) + 1 = 2 /\ Len(one) + 2 = 3
      BY <1>6
    <2> QED BY <2>1, <2>2, <1>4, <1>6, <1>7
  <1>9. DOMAIN (one \o rest) = 1 .. 3
    BY <1>7, <1>8
  <1> QED BY <1>1, <1>3, <1>8, <1>9 DEF one

\* All of them are harmless, no name of dots, and with the same extension.
LEMMA CandidatesSafe ==
  ASSUME NEW raw \in Seq(Character), SafeFileName(raw) # Refused,
         NEW k \in DOMAIN Candidates(SafeFileName(raw))
  PROVE  LET c == Candidates(SafeFileName(raw))
         IN  Harmless(c[k]) /\ c[k] \notin Dots /\ ExtName(c[k]) = ExtName(c[1])
  <1> DEFINE safe == SafeFileName(raw)
             c == Candidates(safe)
  <1>1. Harmless(safe) /\ safe \notin Dots
    BY SafeIs
  <1> HIDE DEF safe
  <1>2. /\ DOMAIN c = 1 .. 3 /\ c[1] = safe
        /\ c[2] = Suffixed(safe, "(2)") /\ c[3] = Suffixed(safe, "(3)")
    BY <1>1, CandidatesAre
  <1>3. \A n \in {"(2)", "(3)"} :
          /\ Harmless(Suffixed(safe, n)) /\ Suffixed(safe, n) \notin Dots
          /\ ExtName(Suffixed(safe, n)) = ExtName(safe)
    BY <1>1, SuffixedIs, Characters, Zenon DEF Suffixed
  <1>4. k \in 1 .. 3
    BY <1>2 DEF safe
  <1> HIDE DEF c
  <1>5. k = 1 \/ k = 2 \/ k = 3
    BY <1>4
  <1>6. Harmless(c[k]) /\ c[k] \notin Dots /\ ExtName(c[k]) = ExtName(c[1])
    BY <1>1, <1>2, <1>3, <1>5, Zenon
  <1> QED BY <1>6, Zenon DEF c, safe

\* A declared name is a sequence of characters.
LEMMA RawCharacters ==
  ASSUME NEW raw \in RawNames
  PROVE  raw \in Seq(Character)
  <1>1. raw \in Seq(STRING)
    BY InputsAssumption
  <1>2. Len(raw) \in Nat /\ raw \in [1 .. Len(raw) -> STRING]
    BY <1>1, LenProperties
  <1>3. raw \in [1 .. Len(raw) -> Character]
    <2>1. \A i \in 1 .. Len(raw) : raw[i] \in Character
      BY <1>2, Zenon DEF Character
    <2> QED BY <2>1, <1>2
  <1> QED BY <1>2, <1>3, Tabled

-----------------------------------------------------------------------------
(* A call has the result of the function called *)

\* What is known of the result of safeFileName: it belongs to the name given.
NamesInv ==
  call = "safeFileName" =>
    /\ given \in RawNames
    /\ result # <<>> =>
         SafeFileName(given) # Refused /\ result = Candidates(SafeFileName(given))

\* What is known of the result of findPeer: it belongs to the list given.
FindInv ==
  call = "findPeer" =>
    /\ given \in PeerLists
    /\ result # <<>> => result = [i \in DOMAIN given |-> Addressee(given, given[i].alias)]

\* It is so before the call.
LEMMA ResultInit == Init => NamesInv /\ FindInv
  BY DEF Init, NamesInv, FindInv

\* Every step keeps it so.
LEMMA ResultNext == NamesInv /\ FindInv /\ [Next]_vars => (NamesInv /\ FindInv)'
  <1> SUFFICES ASSUME NamesInv, FindInv, [Next]_vars PROVE (NamesInv /\ FindInv)'
    OBVIOUS
  <1>1. CASE Name /\ UNCHANGED <<call, given>>
    <2>1. call = "safeFileName" /\ call' = "safeFileName" /\ given' = given /\ call' # "findPeer"
      BY <1>1 DEF Name
    <2> QED BY <1>1, <2>1, Zenon DEF Name, NamesInv, FindInv
  <1>2. CASE Certify /\ UNCHANGED <<call, given>>
    <2>1. call' = "generateSelfSignedCertificate" /\ call' # "safeFileName" /\ call' # "findPeer"
      BY <1>2 DEF Certify
    <2> QED BY <2>1, Zenon DEF NamesInv, FindInv
  <1>3. CASE Find /\ UNCHANGED <<call, given>>
    <2>1. call = "findPeer" /\ call' = "findPeer" /\ given' = given /\ call' # "safeFileName"
      BY <1>3 DEF Find
    <2> QED BY <1>3, <2>1, Zenon DEF Find, NamesInv, FindInv
  <1>4. CASE UNCHANGED vars
    <2>1. call' = call /\ given' = given /\ result' = result
      BY <1>4 DEF vars
    <2> QED BY <2>1, Zenon DEF NamesInv, FindInv
  <1> QED BY <1>1, <1>2, <1>3, <1>4 DEF Next

\* It is always so.
LEMMA ResultAlways == Spec => [](NamesInv /\ FindInv)
  BY ResultInit, ResultNext, PTL DEF Spec

-----------------------------------------------------------------------------
(* The results *)

\* Each name that uniquePath may settle on is an entry of the download directory
\* itself, for declared names of any length and for any limits of at least three
\* characters with room for two before the extension.
THEOREM NamesStayInside == Spec => []StaysInside
  <1>1. NamesInv => StaysInside
    <2> SUFFICES ASSUME NamesInv, Named, NEW k \in DOMAIN result
                 PROVE  /\ result[k] \notin {<<>>, <<".">>, <<".", ".">>}
                        /\ ToSet(result[k]) \cap {"/", "\\", "control"} = {}
      BY Zenon DEF StaysInside
    <2>1. /\ given \in Seq(Character) /\ SafeFileName(given) # Refused
          /\ result = Candidates(SafeFileName(given))
      BY RawCharacters, Zenon DEF Named, NamesInv
    <2>2. k \in DOMAIN Candidates(SafeFileName(given))
      BY <2>1, Zenon
    <2>3. Harmless(result[k]) /\ result[k] \notin Dots
      BY <2>1, <2>2, CandidatesSafe, Zenon
    <2>4. ToSet(result[k]) \cap {"/", "\\", "control"} = {}
      <3> DEFINE s == result[k]
      <3>1. Harmless(s)
        BY <2>3
      <3> HIDE DEF s
      <3>2. /\ s \in Seq(Character) /\ DOMAIN s = 1 .. Len(s)
            /\ \A i \in DOMAIN s : s[i] \notin {"/", "\\", "control"}
        BY <3>1 DEF Harmless
      <3>3. ToSet(s) \cap {"/", "\\", "control"} = {}
        BY <3>2 DEF ToSet
      <3> QED BY <3>3 DEF s
    <2> QED BY <2>3, <2>4, Zenon DEF Dots
  <1> QED BY <1>1, ResultAlways, PTL

\* Cutting a long name and adding a number keep its extension, for declared names
\* of any length and any such limits.
THEOREM NamesKeepExtension == Spec => []KeepsExtension
  <1>1. NamesInv => KeepsExtension
    <2> SUFFICES ASSUME NamesInv, Named
                 PROVE  /\ Len(result[1]) <= NameCap
                        /\ Len(ExtName(Cleaned(given))) <= ExtCap =>
                             ExtName(result[1]) = ExtName(Cleaned(given))
                        /\ \A k \in DOMAIN result : ExtName(result[k]) = ExtName(result[1])
      BY Zenon DEF KeepsExtension
    <2>1. /\ given \in Seq(Character) /\ SafeFileName(given) # Refused
          /\ result = Candidates(SafeFileName(given))
      BY RawCharacters, Zenon DEF Named, NamesInv
    <2>2. \A k \in DOMAIN result : ExtName(result[k]) = ExtName(result[1])
      BY <2>1, CandidatesSafe, Zenon
    <2>3. result[1] = SafeFileName(given)
      BY <2>1, SafeIs, CandidatesAre, Zenon
    <2> QED BY <2>1, <2>2, <2>3, SafeIs, Zenon
  <1> QED BY <1>1, ResultAlways, PTL

\* An alias that only one device has, in whatever case, is matched by no other
\* in the first of the four ways, and that way comes first.
LEMMA FoundByAlias ==
  ASSUME NEW peers \in Seq(Peer), NEW i \in DOMAIN peers,
         \A j \in DOMAIN peers \ {i} : Lower(peers[j].alias) # Lower(peers[i].alias),
         Trim(peers[i].alias) = peers[i].alias
  PROVE  FindPeer(peers, peers[i].alias) = i
  <1> DEFINE needle == peers[i].alias
             target == Lower(Trim(needle))
             Matches(way, peer) ==
               CASE way = 1 -> Lower(peer.alias) = target
                 [] way = 2 -> Lower(peer.print) = target
                 [] way = 3 -> peer.host = Trim(needle)
                 [] way = 4 -> Includes(Lower(peer.alias), target)
             ways == {w \in 1 .. 4 : \E j \in DOMAIN peers : Matches(w, peers[j])}
             found == {j \in DOMAIN peers : Matches(Min(ways), peers[j])}
  <1>1. FindPeer(peers, needle) = IF ways = {} THEN Nobody ELSE Min(found)
    BY Zenon DEF FindPeer
  <1>2. \A j \in DOMAIN peers : Matches(1, peers[j]) <=> Lower(peers[j].alias) = Lower(needle)
    <2>1. 1 # 2 /\ 1 # 3 /\ 1 # 4
      OBVIOUS
    <2> QED BY <2>1, Zenon
  <1> HIDE DEF Matches
  <1>3. 1 \in ways
    BY <1>2
  <1>4. Min(ways) = 1
    <2>1. ways \in SUBSET Nat /\ ways # {} /\ \A w \in ways : 1 <= w
      BY <1>3
    <2> HIDE DEF ways
    <2>2. Min(ways) \in ways /\ Min(ways) <= 1
      BY <2>1, <1>3, MinIs
    <2>3. Min(ways) \in Nat /\ 1 <= Min(ways)
      BY <2>1, <2>2, Zenon
    <2> QED BY <2>2, <2>3
  <1>5. found = {i}
    <2>1. found = {j \in DOMAIN peers : Matches(1, peers[j])}
      BY <1>4, Zenon
    <2> QED BY <2>1, <1>2
  <1>6. Min(found) = i
    <2>1. i \in Nat
      OBVIOUS
    <2> HIDE DEF found
    <2>2. Min({i}) \in {i}
      <3>1. {i} \in SUBSET Nat /\ {i} # {}
        BY <2>1
      <3> QED BY <3>1, MinIs
    <2> QED BY <1>5, <2>2
  <1>7. ways # {}
    BY <1>3
  <1> HIDE DEF ways, found
  <1> QED BY <1>1, <1>6, <1>7 DEF needle

\* A device is reached by the alias it shows if no other answered with it and it
\* has no blanks around it, for
\* results of a scan of any length, whatever the other devices call themselves.
THEOREM AliasFindsDevice == Spec => []AliasReaches
  <1>1. FindInv => AliasReaches
    <2> SUFFICES ASSUME FindInv, Found, NEW i \in DOMAIN given,
                        given[i].alias # <<>>, given[i].alias \notin HostTexts,
                        Trim(given[i].alias) = given[i].alias, Unshared(i)
                 PROVE  Reached(i)
      BY Zenon DEF AliasReaches
    <2>1. given \in Seq(Peer) /\ result = [j \in DOMAIN given |-> Addressee(given, given[j].alias)]
      BY InputsAssumption DEF Found, FindInv
    <2>2. FindPeer(given, given[i].alias) = i
      BY <2>1, FoundByAlias DEF Unshared
    <2>3. i # Nobody
      BY <2>1 DEF Nobody
    <2>4. result[i] = Addressee(given, given[i].alias)
      BY <2>1, Zenon
    <2> QED BY <2>2, <2>3, <2>4, Zenon DEF Addressee, Reached
  <1> QED BY <1>1, ResultAlways, PTL

\* A certificate that was generated is the one for its request.
CertInv ==
  call = "generateSelfSignedCertificate" =>
    /\ given \in Requested
    /\ result \in {<<>>, Generated(given)}

\* It always is.
LEMMA CertInvariant ==
  Spec => []CertInv
  <1>1. Init => CertInv
    BY DEF Init, CertInv
  <1>2. CertInv /\ [Next]_vars => CertInv'
    BY DEF CertInv, Next, Name, Certify, Find, vars
  <1> QED BY <1>1, <1>2, PTL DEF Spec

\* What is found in a certificate is what was put into it, for every request and
\* every length of its parts.
THEOREM CertificateReadsBack ==
  Spec => []ReadsBack
  <1>1. CertInv => ReadsBack
    <2> SUFFICES ASSUME CertInv, Certified, SerialFits(given), YearsFit(given)
                 PROVE  Parses(result) /\ Seen(result) = Meant(given)
      BY Zenon DEF ReadsBack
    <2>1. Permitted(given) /\ result = Generated(given)
      BY InputsAssumption, Zenon DEF CertInv, Certified
    <2> QED BY <2>1, ParsesExactly, SeenIsMeant, Zenon
  <1> QED BY <1>1, CertInvariant, PTL

\* The maker of a certificate accepts it exactly if its serial number and years
\* have an encoding.
THEOREM CertificateAcceptedExactly ==
  Spec => []AcceptedExactly
  <1>1. CertInv => AcceptedExactly
    <2> SUFFICES ASSUME CertInv, Certified
                 PROVE  Usable(result, Now(given)) <=> SerialFits(given) /\ YearsFit(given)
      BY Zenon DEF AcceptedExactly
    <2>1. Permitted(given) /\ result = Generated(given)
      BY InputsAssumption, Zenon DEF CertInv, Certified
    <2> QED BY <2>1, UsableExactly, Zenon
  <1> QED BY <1>1, CertInvariant, PTL

=============================================================================
