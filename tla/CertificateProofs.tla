-------------------------- MODULE CertificateProofs --------------------------
(***************************************************************************)
(* A strict reader finds in a generated certificate what was put into it,  *)
(* and the certificate is usable exactly if its serial number and years    *)
(* have an encoding: the encoders of Der, read back from the inside out,   *)
(* for contents of every length below 256^3.  The functions by recursion   *)
(* of Der are characterised first, by a recursion theorem that is proved   *)
(* here from the least element of a set of numbers.                        *)
(***************************************************************************)
EXTENDS Certificate, SequenceTheorems, WellFoundedInduction, TLAPS

-----------------------------------------------------------------------------
(* What the proofs need of numbers and of recursion *)

\* A set of natural numbers that is not empty has a least element.  What is
\* proved by induction here is proved with it: the least counterexample is not 0,
\* and the number before it is a counterexample too.
LEMMA Least ==
  ASSUME NEW S \in SUBSET Nat, S # {}
  PROVE  \E m \in S : \A k \in S : m <= k
  <1> DEFINE R == {p \in Nat \X Nat : p[1] < p[2]}
  <1>0. R = OpToRel(<, Nat)
    BY Zenon DEF OpToRel
  <1>1. IsWellFoundedOn(R, Nat)
    BY <1>0, NatLessThanWellFounded
  <1>4. \A x, y \in Nat : y < x => <<y, x>> \in R
    OBVIOUS
  <1> HIDE DEF R
  <1>2. \E x \in S : \A y \in S : ~ (<<y,x>> \in R)
    BY <1>1, WFMin
  <1>5. PICK x \in S : \A y \in S : ~ (<<y,x>> \in R) BY <1>2
  <1>6. \A y \in S : ~(y < x) BY <1>5, <1>4
  <1>3. QED BY <1>6

\* F gives a value in V at x from the values of a function where mu is smaller.
LooksDown(F, S, V, mu) ==
  /\ V # {}
  /\ mu \in [S -> Nat]
  /\ F \in [S \X [S -> V] -> V]
  /\ \A x \in S : \A g, h \in [S -> V] :
       (\A y \in S : mu[y] < mu[x] => g[y] = h[y]) => F[<<x, g>>] = F[<<x, h>>]

\* A function with these values exists.
Solved(F, S, V) == \E f \in [S -> V] : \A x \in S : f[x] = F[<<x, f>>]

\* Definition by recursion: the function is found up to any n, two of them agree
\* as far as both go, and the whole is put together from them.
LEMMA Recursion ==
  ASSUME NEW S, NEW V, NEW mu, NEW F, LooksDown(F, S, V, mu)
  PROVE  Solved(F, S, V)
  <1>h. /\ V # {} /\ mu \in [S -> Nat] /\ F \in [S \X [S -> V] -> V]
        /\ \A x \in S : \A g, h \in [S -> V] :
             (\A y \in S : mu[y] < mu[x] => g[y] = h[y]) => F[<<x, g>>] = F[<<x, h>>]
    BY DEF LooksDown
  <1> DEFINE Upto(g, n) == \A x \in S : mu[x] < n => g[x] = F[<<x, g>>]
             Bad == {n \in Nat : ~ \E g \in [S -> V] : Upto(g, n)}
  <1>0. \A g \in [S -> V], x \in S : F[<<x, g>>] \in V
    BY <1>h
  <1>m. \A x \in S : mu[x] \in Nat
    BY <1>h
  <1>1. Bad = {}
    <2>1. SUFFICES ASSUME Bad # {} PROVE FALSE
      OBVIOUS
    <2>2. PICK m \in Bad : \A k \in Bad : m <= k
      <3> Bad \in SUBSET Nat OBVIOUS
      <3> HIDE DEF Bad
      <3> QED BY <2>1, Least
    <2>3. m # 0
      <3>1. PICK v \in V : TRUE BY <1>h
      <3>2. [x \in S |-> v] \in [S -> V] OBVIOUS
      <3>3. Upto([x \in S |-> v], 0) BY <1>m
      <3> QED BY <3>2, <3>3
    <2>n. m \in Nat
      BY <2>2
    <2>4. m - 1 \in Nat /\ m - 1 \notin Bad
      <3>1. m \in Nat
        BY <2>2
      <3>2. m - 1 \in Nat /\ ~(m <= m - 1)
        BY <2>3, <3>1
      <3> HIDE DEF Bad
      <3> QED BY <2>2, <3>2
    <2>5. PICK g \in [S -> V] : Upto(g, m - 1)
      BY <2>4
    <2> DEFINE h == [x \in S |-> F[<<x, g>>]]
    <2>6. h \in [S -> V]
      BY <1>0
    <2>7. \A x \in S : mu[x] < m => F[<<x, h>>] = F[<<x, g>>]
      <3> SUFFICES ASSUME NEW x \in S, mu[x] < m PROVE F[<<x, h>>] = F[<<x, g>>]
        OBVIOUS
      <3>1. \A y \in S : mu[y] < mu[x] => g[y] = h[y]
        BY <2>5, <2>n, <1>m
      <3> QED BY <2>6, <3>1, <1>h
    <2>8. Upto(h, m)
      BY <2>7
    <2> QED BY <2>6, <2>8
  <1>2. \A n \in Nat : \A g, h \in [S -> V] : Upto(g, n) /\ Upto(h, n) =>
          \A x \in S : mu[x] < n => g[x] = h[x]
    <2> SUFFICES ASSUME NEW n \in Nat, NEW g \in [S -> V], NEW h \in [S -> V],
                        Upto(g, n), Upto(h, n), NEW z \in S, mu[z] < n, g[z] # h[z]
                 PROVE  FALSE
      OBVIOUS
    <2> DEFINE Off == {mu[x] : x \in {y \in S : mu[y] < n /\ g[y] # h[y]}}
    <2>1. Off \in SUBSET Nat /\ mu[z] \in Off
      BY <1>m
    <2>2. PICK m \in Off : \A k \in Off : m <= k
      <3> HIDE DEF Off
      <3> QED BY <2>1, Least
    <2>3. PICK x \in S : mu[x] < n /\ g[x] # h[x] /\ m = mu[x]
      BY <2>2
    <2>4. \A y \in S : mu[y] < mu[x] => g[y] = h[y]
      <3> SUFFICES ASSUME NEW y \in S, mu[y] < mu[x], g[y] # h[y] PROVE FALSE
        OBVIOUS
      <3>1. mu[y] \in Off
        BY <2>3, <1>m
      <3> HIDE DEF Off
      <3> QED BY <3>1, <2>2, <2>3, <1>m
    <2>5. F[<<x, g>>] = F[<<x, h>>]
      BY <2>4, <1>h
    <2> QED BY <2>3, <2>5
  <1> DEFINE G == [n \in Nat |-> CHOOSE g \in [S -> V] : Upto(g, n)]
             f == [x \in S |-> G[mu[x] + 1][x]]
  <1>3. \A n \in Nat : G[n] \in [S -> V] /\ Upto(G[n], n)
    <2> SUFFICES ASSUME NEW n \in Nat PROVE G[n] \in [S -> V] /\ Upto(G[n], n)
      OBVIOUS
    <2>1. \E g \in [S -> V] : Upto(g, n)
      BY <1>1
    <2> HIDE DEF Upto
    <2> QED BY <2>1
  <1> HIDE DEF G
  <1>4. f \in [S -> V]
    BY <1>3, <1>m
  <1>5. ASSUME NEW x \in S PROVE f[x] = F[<<x, f>>]
    <2> DEFINE g == G[mu[x] + 1]
    <2>0. mu[x] \in Nat /\ mu[x] + 1 \in Nat /\ mu[x] < mu[x] + 1
      BY <1>m
    <2>1. g \in [S -> V] /\ Upto(g, mu[x] + 1)
      <3> HIDE DEF Upto
      <3> QED BY <1>3, <2>0
    <2>2. ASSUME NEW y \in S, mu[y] < mu[x] PROVE g[y] = f[y]
      <3>0. mu[y] \in Nat /\ mu[y] + 1 \in Nat /\ mu[y] < mu[y] + 1
        BY <1>m
      <3>1. G[mu[y] + 1] \in [S -> V] /\ Upto(G[mu[y] + 1], mu[y] + 1)
        <4> HIDE DEF Upto
        <4> QED BY <1>3, <3>0
      <3>2. Upto(g, mu[y] + 1)
        <4> HIDE DEF g
        <4> QED BY <2>1, <2>2, <2>0, <3>0, <1>m
      <3>3. g[y] = G[mu[y] + 1][y]
        <4> HIDE DEF Upto, g
        <4> QED BY <3>0, <3>1, <3>2, <2>1, <1>2
      <3> QED BY <3>3
    <2>3. f[x] = F[<<x, g>>]
      BY <2>1, <2>0
    <2> HIDE DEF f, g
    <2> QED BY <2>1, <2>2, <2>3, <1>4, <1>h
  <1> QED BY <1>4, <1>5 DEF Solved

\* Step gives a value in V from a number up to n and the value before.
StepsUp(n, V, base, Step) == n \in Nat /\ base \in V /\ Step \in [(1 .. n) \X V -> V]

\* A function with these values exists.
Counted(n, V, base, Step) ==
  \E f \in [0 .. n -> V] : f[0] = base /\ \A k \in 1 .. n : f[k] = Step[<<k, f[k - 1]>>]

\* Recursion from 0 up to n, each value from the one before.
LEMMA Counting ==
  ASSUME NEW n, NEW V, NEW base, NEW Step, StepsUp(n, V, base, Step)
  PROVE  Counted(n, V, base, Step)
  <1> DEFINE S == 0 .. n
             mu == [k \in S |-> k]
             F == [p \in S \X [S -> V] |->
                     IF p[1] = 0 THEN base ELSE Step[<<p[1], p[2][p[1] - 1]>>]]
  <1>0. n \in Nat /\ base \in V /\ Step \in [(1 .. n) \X V -> V]
    BY DEF StepsUp
  <1>1. ASSUME NEW k \in S, NEW g \in [S -> V]
        PROVE  /\ F[<<k, g>>] = IF k = 0 THEN base ELSE Step[<<k, g[k - 1]>>]
               /\ F[<<k, g>>] \in V
    <2>1. F[<<k, g>>] = IF k = 0 THEN base ELSE Step[<<k, g[k - 1]>>]
      OBVIOUS
    <2>2. k # 0 => k - 1 \in S /\ k \in 1 .. n
      BY <1>0
    <2> QED BY <2>1, <2>2, <1>0
  <1>2. F \in [S \X [S -> V] -> V]
    <2>1. \A p \in S \X [S -> V] : F[p] \in V
      <3> SUFFICES ASSUME NEW p \in S \X [S -> V] PROVE F[p] \in V
        OBVIOUS
      <3>1. p = <<p[1], p[2]>> /\ p[1] \in S /\ p[2] \in [S -> V]
        OBVIOUS
      <3> HIDE DEF F
      <3> QED BY <3>1, <1>1
    <2>2. F = [p \in S \X [S -> V] |-> F[p]]
      OBVIOUS
    <2> HIDE DEF F
    <2> QED BY <2>1, <2>2
  <1>3. mu \in [S -> Nat]
    BY <1>0
  <1>4. \A x \in S : \A g, h \in [S -> V] :
          (\A y \in S : mu[y] < mu[x] => g[y] = h[y]) => F[<<x, g>>] = F[<<x, h>>]
    <2> SUFFICES ASSUME NEW x \in S, NEW g \in [S -> V], NEW h \in [S -> V],
                        \A y \in S : mu[y] < mu[x] => g[y] = h[y]
                 PROVE  F[<<x, g>>] = F[<<x, h>>]
      OBVIOUS
    <2>1. x # 0 => g[x - 1] = h[x - 1]
      <3>1. x # 0 => x - 1 \in S /\ mu[x - 1] < mu[x]
        BY <1>0
      <3> QED BY <3>1
    <2> HIDE DEF F
    <2>2. F[<<x, g>>] = IF x = 0 THEN base ELSE Step[<<x, g[x - 1]>>]
      BY <1>1, Zenon
    <2>3. F[<<x, h>>] = IF x = 0 THEN base ELSE Step[<<x, h[x - 1]>>]
      BY <1>1, Zenon
    <2> QED BY <2>1, <2>2, <2>3, Zenon
  <1>5. LooksDown(F, S, V, mu)
    <2>1. V # {}
      BY <1>0
    <2> HIDE DEF S, F, mu
    <2> QED BY <2>1, <1>2, <1>3, <1>4 DEF LooksDown
  <1>6. PICK f \in [S -> V] : \A x \in S : f[x] = F[<<x, f>>]
    <2> HIDE DEF S, F, mu
    <2>1. Solved(F, S, V)
      BY <1>5, Recursion
    <2> QED BY <2>1 DEF Solved
  <1>7. \A k \in S : f[k] = IF k = 0 THEN base ELSE Step[<<k, f[k - 1]>>]
    <2> HIDE DEF F
    <2> QED BY <1>1, <1>6
  <1>8. f[0] = base /\ \A k \in 1 .. n : f[k] = Step[<<k, f[k - 1]>>]
    <2>1. 0 \in S /\ \A k \in 1 .. n : k \in S /\ k # 0
      BY <1>0
    <2> HIDE DEF S
    <2> QED BY <1>7, <2>1
  <1> QED BY <1>8 DEF Counted

\* Min is the least element.
LEMMA MinIs ==
  ASSUME NEW S \in SUBSET Nat, S # {}
  PROVE  Min(S) \in S /\ \A k \in S : Min(S) <= k
  <1>1. \E m \in S : \A k \in S : m <= k
    BY Least
  <1> QED BY <1>1 DEF Min

\* Max is the greatest element, if there is a bound.
LEMMA MaxIs ==
  ASSUME NEW S \in SUBSET Nat, S # {}, NEW top \in Nat, \A k \in S : k <= top
  PROVE  Max(S) \in S /\ \A k \in S : k <= Max(S)
  <1> DEFINE T == {n \in Nat : \A k \in S : k <= n}
  <1>1. PICK m \in T : \A n \in T : m <= n
    <2>1. T \in SUBSET Nat /\ top \in T
      OBVIOUS
    <2> HIDE DEF T
    <2> QED BY <2>1, Least
  <1>2. m \in S
    <2> SUFFICES ASSUME m \notin S PROVE FALSE
      OBVIOUS
    <2>0. m \in Nat /\ \A k \in S : k \in Nat /\ k <= m
      OBVIOUS
    <2>1. \A k \in S : k # m /\ k <= m - 1
      BY <2>0
    <2>3. m - 1 \in Nat
      <3>1. PICK k \in S : TRUE
        OBVIOUS
      <3>2. k \in Nat /\ k <= m - 1
        BY <2>0, <2>1
      <3> QED BY <2>0, <3>2
    <2>2. m - 1 \in T
      BY <2>1, <2>3
    <2> HIDE DEF T
    <2> QED BY <1>1, <2>2, <2>0
  <1>3. \E n \in S : \A k \in S : n >= k
    BY <1>2
  <1>4. Max(S) \in S /\ \A k \in S : Max(S) >= k
    BY <1>3 DEF Max
  <1> QED BY <1>4

-----------------------------------------------------------------------------
(* Sequences *)

\* What is at which position of two sequences that are joined.
LEMMA Joined ==
  ASSUME NEW S, NEW s \in Seq(S), NEW t \in Seq(S)
  PROVE  /\ s \o t \in Seq(S)
         /\ Len(s \o t) = Len(s) + Len(t)
         /\ \A i \in 1 .. Len(s) : (s \o t)[i] = s[i]
         /\ \A i \in 1 .. Len(t) : (s \o t)[Len(s) + i] = t[i]
  <1>1. Len(s) \in Nat /\ Len(t) \in Nat
    OBVIOUS
  <1>2. /\ s \o t \in Seq(S)
        /\ Len(s \o t) = Len(s) + Len(t)
        /\ \A i \in 1 .. Len(s) + Len(t) :
             (s \o t)[i] = IF i <= Len(s) THEN s[i] ELSE t[i - Len(s)]
    BY ConcatProperties
  <1>3. \A i \in 1 .. Len(s) : i \in 1 .. Len(s) + Len(t) /\ i <= Len(s)
    BY <1>1
  <1>4. \A i \in 1 .. Len(t) : /\ Len(s) + i \in 1 .. Len(s) + Len(t) /\ ~(Len(s) + i <= Len(s))
                               /\ Len(s) + i - Len(s) = i
    BY <1>1
  <1> QED BY <1>2, <1>3, <1>4

\* A function on 1 .. n is a sequence of length n.
LEMMA Tabled ==
  ASSUME NEW V, NEW n \in Nat, NEW f \in [1 .. n -> V]
  PROVE  f \in Seq(V) /\ Len(f) = n
  <1>1. f \in Seq(V)
    OBVIOUS
  <1>2. DOMAIN f = 1 .. n /\ DOMAIN f = 1 .. Len(f) /\ Len(f) \in Nat
    BY <1>1, LenProperties
  <1>3. 1 .. n = 1 .. Len(f)
    BY <1>2
  <1> QED BY <1>1, <1>2, <1>3

\* The last position of a set of positions, 0 if there is none.
LEMMA LastPosition ==
  ASSUME NEW n \in Nat, NEW I \in SUBSET (1 .. n)
  PROVE  LET last == IF I # {} THEN Max(I) ELSE 0
         IN  /\ last \in 0 .. n
             /\ last > 0 => last \in I
             /\ \A i \in I : i <= last
  <1>1. CASE I = {}
    BY <1>1
  <1>2. CASE I # {}
    <2>1. I \in SUBSET Nat /\ \A k \in I : k <= n
      OBVIOUS
    <2>2. Max(I) \in I /\ \A k \in I : k <= Max(I)
      BY <1>2, <2>1, MaxIs
    <2>3. Max(I) \in 1 .. n
      BY <2>2
    <2> HIDE DEF Max
    <2> QED BY <1>2, <2>2, <2>3
  <1> QED BY <1>1, <1>2

\* A set that is not empty has an element with the least measure.
LEMMA LeastBy ==
  ASSUME NEW S, NEW mu \in [S -> Nat], NEW B \in SUBSET S, B # {}
  PROVE  \E x \in B : \A y \in S : mu[y] < mu[x] => y \notin B
  <1> DEFINE M == {mu[x] : x \in B}
  <1>1. M \in SUBSET Nat /\ M # {}
    OBVIOUS
  <1>2. PICK m \in M : \A k \in M : m <= k
    <2> HIDE DEF M
    <2> QED BY <1>1, Least
  <1>3. PICK x \in B : mu[x] = m
    BY <1>2
  <1>4. \A y \in B : ~(mu[y] < mu[x])
    <2>1. \A y \in B : mu[y] \in M /\ mu[y] \in Nat /\ mu[x] \in Nat
      OBVIOUS
    <2>2. m \in Nat
      BY <1>1, <1>2, Zenon
    <2> HIDE DEF M
    <2> QED BY <2>1, <2>2, <1>2, <1>3
  <1> QED BY <1>4

-----------------------------------------------------------------------------
(* The functions by recursion of Der *)

\* Outside End, a value is made of the value at next, where mu is smaller.
Unrolls(S, V, mu, End, base, next, comb) ==
  /\ V # {}
  /\ mu \in [S -> Nat]
  /\ base \in [S -> V]
  /\ next \in [S -> S]
  /\ comb \in [S \X V -> V]
  /\ \A x \in S \ End : mu[next[x]] < mu[x]

\* A function with these values exists.
Unrolled(S, V, End, base, next, comb) ==
  \E f \in [S -> V] : \A x \in S : f[x] = IF x \in End THEN base[x] ELSE comb[<<x, f[next[x]]>>]

\* Definition by recursion, with one recursive call.
LEMMA Unrolling ==
  ASSUME NEW S, NEW V, NEW mu, NEW End, NEW base, NEW next, NEW comb,
         Unrolls(S, V, mu, End, base, next, comb)
  PROVE  Unrolled(S, V, End, base, next, comb)
  <1> DEFINE F == [p \in S \X [S -> V] |->
                     IF p[1] \in End THEN base[p[1]] ELSE comb[<<p[1], p[2][next[p[1]]]>>]]
  <1>0. /\ V # {} /\ mu \in [S -> Nat] /\ base \in [S -> V] /\ next \in [S -> S]
        /\ comb \in [S \X V -> V] /\ \A x \in S \ End : mu[next[x]] < mu[x]
    BY DEF Unrolls
  <1>1. ASSUME NEW x \in S, NEW g \in [S -> V]
        PROVE  /\ F[<<x, g>>] = IF x \in End THEN base[x] ELSE comb[<<x, g[next[x]]>>]
               /\ F[<<x, g>>] \in V
    <2>1. F[<<x, g>>] = IF x \in End THEN base[x] ELSE comb[<<x, g[next[x]]>>]
      OBVIOUS
    <2>2. g[next[x]] \in V
      BY <1>0
    <2> QED BY <2>1, <2>2, <1>0
  <1>2. F \in [S \X [S -> V] -> V]
    <2>1. \A p \in S \X [S -> V] : F[p] \in V
      <3> SUFFICES ASSUME NEW p \in S \X [S -> V] PROVE F[p] \in V
        OBVIOUS
      <3>1. p = <<p[1], p[2]>> /\ p[1] \in S /\ p[2] \in [S -> V]
        OBVIOUS
      <3> HIDE DEF F
      <3> QED BY <3>1, <1>1
    <2>2. F = [p \in S \X [S -> V] |-> F[p]]
      OBVIOUS
    <2> HIDE DEF F
    <2> QED BY <2>1, <2>2
  <1>3. \A x \in S : \A g, h \in [S -> V] :
          (\A y \in S : mu[y] < mu[x] => g[y] = h[y]) => F[<<x, g>>] = F[<<x, h>>]
    <2> SUFFICES ASSUME NEW x \in S, NEW g \in [S -> V], NEW h \in [S -> V],
                        \A y \in S : mu[y] < mu[x] => g[y] = h[y]
                 PROVE  F[<<x, g>>] = F[<<x, h>>]
      OBVIOUS
    <2>1. x \notin End => g[next[x]] = h[next[x]]
      BY <1>0
    <2> HIDE DEF F
    <2>2. F[<<x, g>>] = IF x \in End THEN base[x] ELSE comb[<<x, g[next[x]]>>]
      BY <1>1, Zenon
    <2>3. F[<<x, h>>] = IF x \in End THEN base[x] ELSE comb[<<x, h[next[x]]>>]
      BY <1>1, Zenon
    <2> QED BY <2>1, <2>2, <2>3, Zenon
  <1>4. PICK f \in [S -> V] : \A x \in S : f[x] = F[<<x, f>>]
    <2> HIDE DEF F
    <2>1. LooksDown(F, S, V, mu)
      BY <1>0, <1>2, <1>3, Zenon DEF LooksDown
    <2>2. Solved(F, S, V)
      BY <2>1, Recursion
    <2> QED BY <2>2 DEF Solved
  <1> HIDE DEF F
  <1>5. \A x \in S : f[x] = IF x \in End THEN base[x] ELSE comb[<<x, f[next[x]]>>]
    BY <1>1, <1>4, Zenon
  <1> QED BY <1>5, Zenon DEF Unrolled

\* Concat joins the first part and the joined others.
LEMMA ConcatIs ==
  ASSUME NEW parts \in Seq(Buffer)
  PROVE  /\ Concat[parts] \in Buffer
         /\ Concat[parts] = IF parts = <<>> THEN <<>> ELSE Head(parts) \o Concat[Tail(parts)]
  <1> DEFINE S == Seq(Buffer)
             mu == [p \in S |-> Len(p)]
             End == {<<>>}
             base == [p \in S |-> <<>>]
             next == [p \in S |-> IF p = <<>> THEN p ELSE Tail(p)]
             comb == [q \in S \X Buffer |-> IF q[1] = <<>> THEN <<>> ELSE Head(q[1]) \o q[2]]
             Is(f) == f = [p \in Seq(Buffer) |-> IF p = <<>> THEN <<>> ELSE Head(p) \o f[Tail(p)]]
  <1>1. \A p \in S : Len(p) \in Nat /\
          (p # <<>> => Head(p) \in Buffer /\ Tail(p) \in S /\ Len(Tail(p)) < Len(p))
    <2> SUFFICES ASSUME NEW p \in S
                 PROVE  Len(p) \in Nat /\
                   (p # <<>> => Head(p) \in Buffer /\ Tail(p) \in S /\ Len(Tail(p)) < Len(p))
      OBVIOUS
    <2>1. Len(p) \in Nat
      OBVIOUS
    <2>2. p # <<>> => Head(p) \in Buffer /\ Tail(p) \in Seq(Buffer) /\ Len(Tail(p)) = Len(p) - 1
      BY HeadTailProperties
    <2> QED BY <2>1, <2>2
  <1>2. \A v \in Buffer, w \in Buffer : v \o w \in Buffer
    BY DEF Buffer
  <1>3. <<>> \in Buffer
    BY DEF Buffer
  <1> HIDE DEF S
  <1>4. comb \in [S \X Buffer -> Buffer]
    <2>1. ASSUME NEW q \in S \X Buffer PROVE (IF q[1] = <<>> THEN <<>> ELSE Head(q[1]) \o q[2]) \in Buffer
      <3>1. q[1] \in S /\ q[2] \in Buffer
        OBVIOUS
      <3> QED BY <3>1, <1>1, <1>2, <1>3, Zenon
    <2> QED BY <2>1, Zenon
  <1>5. next \in [S -> S]
    BY <1>1, Zenon
  <1>6. mu \in [S -> Nat] /\ base \in [S -> Buffer]
    BY <1>1, <1>3, Zenon
  <1>7. \A p \in S \ End : mu[next[p]] < mu[p]
    <2> SUFFICES ASSUME NEW p \in S, p # <<>> PROVE mu[next[p]] < mu[p]
      BY Zenon
    <2>1. next[p] = Tail(p) /\ Tail(p) \in S
      BY <1>1, Zenon
    <2>2. mu[next[p]] = Len(Tail(p)) /\ mu[p] = Len(p)
      BY <2>1, Zenon
    <2> QED BY <2>2, <1>1
  <1>8. Unrolled(S, Buffer, End, base, next, comb)
    <2>1. Buffer # {}
      BY <1>3, Zenon
    <2> HIDE DEF mu, End, base, next, comb
    <2>2. Unrolls(S, Buffer, mu, End, base, next, comb)
      BY <2>1, <1>4, <1>5, <1>6, <1>7, Zenon DEF Unrolls
    <2> QED BY <2>2, Unrolling
  <1>9. PICK f \in [S -> Buffer] : \A p \in S : f[p] = IF p \in End THEN base[p] ELSE comb[<<p, f[next[p]]>>]
    BY <1>8, Zenon DEF Unrolled
  <1>10. Is(f)
    <2>1. \A p \in S : f[p] = IF p = <<>> THEN <<>> ELSE Head(p) \o f[Tail(p)]
      <3> SUFFICES ASSUME NEW p \in S PROVE f[p] = IF p = <<>> THEN <<>> ELSE Head(p) \o f[Tail(p)]
        BY Zenon
      <3>1. CASE p = <<>>
        BY <3>1, <1>9, Zenon
      <3>2. CASE p # <<>>
        <4>1. next[p] = Tail(p) /\ Tail(p) \in S
          BY <3>2, <1>1, Zenon
        <4>2. f[p] = comb[<<p, f[Tail(p)]>>]
          BY <3>2, <4>1, <1>9, Zenon
        <4>3. <<p, f[Tail(p)]>> \in S \X Buffer
          BY <4>1
        <4>4. comb[<<p, f[Tail(p)]>>] = Head(p) \o f[Tail(p)]
          <5> DEFINE q == <<p, f[Tail(p)]>>
          <5>1. q \in S \X Buffer /\ q[1] = p /\ q[2] = f[Tail(p)]
            BY <4>3
          <5> HIDE DEF q
          <5>2. comb[q] = IF q[1] = <<>> THEN <<>> ELSE Head(q[1]) \o q[2]
            BY <5>1, Zenon
          <5>3. comb[q] = Head(p) \o f[Tail(p)]
            BY <5>1, <5>2, <3>2, Zenon
          <5> QED BY <5>3, Zenon DEF q
        <4> QED BY <3>2, <4>2, <4>4, Zenon
      <3> QED BY <3>1, <3>2
    <2>2. f = [p \in S |-> f[p]]
      OBVIOUS
    <2>3. f = [p \in S |-> IF p = <<>> THEN <<>> ELSE Head(p) \o f[Tail(p)]]
      BY <2>1, <2>2, Zenon
    <2> QED BY <2>3, Zenon DEF S
  <1>11. Concat = CHOOSE g : Is(g)
    BY DEF Concat
  <1>12. Is(Concat)
    <2> HIDE DEF Is
    <2> QED BY <1>10, <1>11, Zenon
  <1>13. \A p \in S : Concat[p] = IF p = <<>> THEN <<>> ELSE Head(p) \o Concat[Tail(p)]
    BY <1>12, Zenon DEF S
  <1>14. \A p \in S : Concat[p] \in Buffer
    <2> DEFINE B == {p \in S : Concat[p] \notin Buffer}
    <2> SUFFICES ASSUME B # {} PROVE FALSE
      BY Zenon
    <2>1. PICK p \in B : \A q \in S : mu[q] < mu[p] => q \notin B
      <3>1. B \in SUBSET S
        BY Zenon
      <3> HIDE DEF B, mu
      <3> QED BY <3>1, <1>6, LeastBy, Zenon
    <2>2. p \in S /\ Concat[p] \notin Buffer
      BY Zenon
    <2>3. p # <<>> => Tail(p) \in S /\ Concat[Tail(p)] \in Buffer
      <3>1. p # <<>> => Tail(p) \in S /\ mu[Tail(p)] < mu[p]
        BY <2>2, <1>1
      <3> HIDE DEF mu
      <3> QED BY <2>1, <3>1, Zenon
    <2> QED BY <2>2, <2>3, <1>1, <1>2, <1>3, <1>13, Zenon
  <1> QED BY <1>13, <1>14, Zenon DEF S

\* The bases in which Der writes numbers.
Base == {128, 256}

\* The digits of a number: those of what is left without the last one, and it.
LEMMA DigitsAre ==
  ASSUME NEW base \in Base, NEW n \in Nat
  PROVE  /\ Digits(n, base) \in Seq(0 .. base - 1)
         /\ n < base => Digits(n, base) = <<n>>
         /\ n >= base => Digits(n, base) = Append(Digits(n \div base, base), n % base)
  <1> DEFINE V == Seq(0 .. base - 1)
             mu == [k \in Nat |-> k]
             End == 0 .. base - 1
             first == [k \in Nat |-> IF k \in End THEN <<k>> ELSE <<>>]
             next == [k \in Nat |-> k \div base]
             comb == [q \in Nat \X V |-> Append(q[2], q[1] % base)]
             Is(f) == f = [k \in Nat |-> IF k < base THEN <<k>> ELSE Append(f[k \div base], k % base)]
             of == CHOOSE g : Is(g)
  <1>0. /\ \A k \in Nat : k < base <=> k \in End
        /\ \A k \in Nat : k % base \in End /\ k \div base \in Nat
        /\ \A k \in Nat \ End : k \div base < k
        /\ \A k \in Nat : k >= base <=> k \notin End
    <2>0. base = 128 \/ base = 256
      BY DEF Base
    <2>1. CASE base = 128
      <3>1. End = 0 .. 127
        BY <2>1
      <3> HIDE DEF End
      <3> QED BY <3>1, <2>1
    <2>2. CASE base = 256
      <3>1. End = 0 .. 255
        BY <2>2
      <3> HIDE DEF End
      <3> QED BY <3>1, <2>2
    <2> QED BY <2>0, <2>1, <2>2
  <1>1. \A k \in Nat : k % base \in End /\ k \div base \in Nat
    BY <1>0
  <1>2. V = Seq(End)
    OBVIOUS
  <1> HIDE DEF V, End
  <1>3. \A x \in End : <<x>> \in V
    BY <1>2
  <1>4. \A s \in V, x \in End : Append(s, x) \in V
    BY <1>2, AppendProperties
  <1>5. <<>> \in V
    BY <1>2
  <1>6. comb \in [Nat \X V -> V]
    <2>1. ASSUME NEW q \in Nat \X V PROVE Append(q[2], q[1] % base) \in V
      <3>1. q[1] \in Nat /\ q[2] \in V
        OBVIOUS
      <3> QED BY <3>1, <1>1, <1>4, Zenon
    <2> QED BY <2>1, Zenon
  <1>7. next \in [Nat -> Nat] /\ mu \in [Nat -> Nat] /\ first \in [Nat -> V]
    <2>1. first \in [Nat -> V]
      BY <1>3, <1>5, Zenon
    <2>2. next \in [Nat -> Nat] /\ mu \in [Nat -> Nat]
      BY <1>1, Zenon
    <2> QED BY <2>1, <2>2
  <1>8. \A k \in Nat \ End : mu[next[k]] < mu[k]
    <2> SUFFICES ASSUME NEW k \in Nat, k \notin End PROVE mu[next[k]] < mu[k]
      BY Zenon
    <2>1. next[k] = k \div base /\ k \div base \in Nat
      BY <1>1, Zenon
    <2>2. mu[next[k]] = k \div base /\ mu[k] = k
      BY <2>1, Zenon
    <2>3. k \div base < k
      BY <1>0
    <2> HIDE DEF mu, next
    <2> QED BY <2>2, <2>3
  <1>9. Unrolled(Nat, V, End, first, next, comb)
    <2>1. V # {}
      BY <1>5, Zenon
    <2> HIDE DEF mu, first, next, comb
    <2>2. Unrolls(Nat, V, mu, End, first, next, comb)
      BY <2>1, <1>6, <1>7, <1>8, Zenon DEF Unrolls
    <2> QED BY <2>2, Unrolling
  <1>10. PICK f \in [Nat -> V] : \A k \in Nat : f[k] = IF k \in End THEN first[k] ELSE comb[<<k, f[next[k]]>>]
    BY <1>9, Zenon DEF Unrolled
  <1>11. Is(f)
    <2>1. \A k \in Nat : f[k] = IF k < base THEN <<k>> ELSE Append(f[k \div base], k % base)
      <3> SUFFICES ASSUME NEW k \in Nat
                   PROVE  f[k] = IF k < base THEN <<k>> ELSE Append(f[k \div base], k % base)
        BY Zenon
      <3>1. CASE k \in End
        <4>1. f[k] = <<k>>
          BY <3>1, <1>10, Zenon
        <4>2. k < base
          BY <3>1, <1>0
        <4> QED BY <4>1, <4>2, Zenon
      <3>2. CASE k \notin End
        <4>1. next[k] = k \div base /\ k \div base \in Nat
          BY <1>1, Zenon
        <4> DEFINE q == <<k, f[k \div base]>>
        <4>2. q \in Nat \X V /\ q[1] = k /\ q[2] = f[k \div base]
          BY <4>1
        <4>3. f[k] = comb[q]
          BY <3>2, <4>1, <1>10, Zenon
        <4> HIDE DEF q
        <4>4. comb[q] = Append(q[2], q[1] % base)
          BY <4>2, Zenon
        <4>5. f[k] = Append(f[k \div base], k % base)
          BY <4>2, <4>3, <4>4, Zenon
        <4>6. ~(k < base)
          BY <3>2, <1>0
        <4> QED BY <4>5, <4>6, Zenon
      <3> QED BY <3>1, <3>2, Zenon
    <2>2. f = [k \in Nat |-> f[k]]
      OBVIOUS
    <2>3. f = [k \in Nat |-> IF k < base THEN <<k>> ELSE Append(f[k \div base], k % base)]
      BY <2>1, <2>2, Zenon
    <2> QED BY <2>3, Zenon
  <1>12. Is(of)
    <2> HIDE DEF Is
    <2> QED BY <1>11, Zenon
  <1>13. \A k \in Nat : Digits(k, base) = of[k]
    BY Zenon DEF Digits
  <1> HIDE DEF of
  <1>14. \A k \in Nat : /\ k \in End => of[k] = <<k>>
                        /\ k \notin End => of[k] = Append(of[k \div base], k % base)
    <2> SUFFICES ASSUME NEW k \in Nat
                 PROVE  /\ k \in End => of[k] = <<k>>
                        /\ k \notin End => of[k] = Append(of[k \div base], k % base)
      OBVIOUS
    <2>1. of[k] = IF k < base THEN <<k>> ELSE Append(of[k \div base], k % base)
      BY <1>12, Zenon
    <2>2. k < base <=> k \in End
      BY <1>0
    <2> HIDE DEF Is
    <2> QED BY <2>1, <2>2
  <1>15. \A k \in Nat : of[k] \in V
    <2> DEFINE B == {k \in Nat : of[k] \notin V}
    <2> SUFFICES ASSUME B # {} PROVE FALSE
      BY Zenon
    <2>1. PICK k \in B : \A j \in Nat : mu[j] < mu[k] => j \notin B
      <3>1. B \in SUBSET Nat
        BY Zenon
      <3>2. mu \in [Nat -> Nat]
        BY <1>7
      <3> HIDE DEF B, mu
      <3> QED BY <3>1, <3>2, LeastBy
    <2>2. k \in Nat /\ of[k] \notin V
      BY Zenon
    <2>3. CASE k \in End
      BY <2>2, <2>3, <1>3, <1>14, Zenon
    <2>4. CASE k \notin End
      <3>0. mu[k \div base] = k \div base /\ mu[k] = k /\ k \div base \in Nat
        BY <2>2, <1>1, Zenon
      <3>1. k \div base \in Nat /\ mu[k \div base] < mu[k]
        <4>1. k \div base < k
          BY <2>2, <2>4, <1>0
        <4> HIDE DEF mu
        <4> QED BY <3>0, <4>1
      <3> HIDE DEF mu
      <3>2. of[k \div base] \in V
        BY <2>1, <3>1, Zenon
      <3> QED BY <2>2, <2>4, <3>2, <1>1, <1>4, <1>14, Zenon
    <2> QED BY <2>3, <2>4, Zenon
  <1>16. /\ n < base => n \in End
         /\ n >= base => n \notin End
    BY <1>0
  <1>17. V = Seq(0 .. base - 1)
    BY DEF V
  <1> HIDE DEF Is
  <1> QED BY <1>13, <1>14, <1>15, <1>16, <1>17, <1>1, Zenon

\* All but the last element of a sequence, and the last one.
LEMMA FrontIs ==
  ASSUME NEW S, NEW s \in Seq(S), s # <<>>
  PROVE  /\ Last(s) \in S
         /\ Front(s) \in Seq(S)
         /\ Len(Front(s)) = Len(s) - 1
         /\ \A i \in 1 .. Len(s) - 1 : Front(s)[i] = s[i]
         /\ Last(s) = s[Len(s)]
  <1> DEFINE n == Len(s) - 1
             front == SubSeq(s, 1, n)
  <1>1. Len(s) \in Nat /\ Len(s) # 0
    BY EmptySeq
  <1>2. n \in Nat /\ n \in Int /\ 1 \in Int /\ n = Len(s) - 1 /\ n + 1 = Len(s)
    BY <1>1
  <1>3. \A i \in 1 .. n : s[i] \in S
    BY <1>1
  <1>4. Last(s) = s[Len(s)] /\ Front(s) = front
    BY Zenon DEF Last, Front
  <1>5. Len(s) \in 1 .. Len(s)
    BY <1>1
  <1>6. s[Len(s)] \in S
    BY <1>5, ElementOfSeq
  <1> HIDE DEF n
  <1>7. /\ front \in Seq(S)
        /\ Len(front) = IF 1 <= n THEN n - 1 + 1 ELSE 0
        /\ \A i \in 1 .. n - 1 + 1 : front[i] = s[1 + i - 1]
    BY <1>2, <1>3, SubSeqProperties
  <1> HIDE DEF front
  <1>8. Len(front) = n
    BY <1>7, <1>2
  <1>9. \A i \in 1 .. n : front[i] = s[i]
    BY <1>7, <1>2
  <1> QED BY <1>2, <1>4, <1>6, <1>7, <1>8, <1>9

\* Number is big-endian.
LEMMA NumberIs ==
  ASSUME NEW bytes \in Buffer
  PROVE  /\ Number[bytes] \in Nat
         /\ Number[bytes] = IF bytes = <<>> THEN 0 ELSE 256 * Number[Front(bytes)] + Last(bytes)
  <1> DEFINE S == Buffer
             mu == [b \in S |-> Len(b)]
             End == {<<>>}
             base == [b \in S |-> 0]
             next == [b \in S |-> IF b = <<>> THEN b ELSE Front(b)]
             comb == [q \in S \X Nat |-> IF q[1] = <<>> THEN 0 ELSE 256 * q[2] + Last(q[1])]
             Is(f) == f = [b \in Buffer |-> IF b = <<>> THEN 0 ELSE 256 * f[Front(b)] + Last(b)]
  <1>1. \A b \in S : Len(b) \in Nat /\
          (b # <<>> => Last(b) \in Nat /\ Front(b) \in S /\ Len(Front(b)) < Len(b))
    <2> SUFFICES ASSUME NEW b \in S
                 PROVE  Len(b) \in Nat /\
                   (b # <<>> => Last(b) \in Nat /\ Front(b) \in S /\ Len(Front(b)) < Len(b))
      OBVIOUS
    <2>1. b \in Seq(Byte) /\ Len(b) \in Nat
      BY DEF Buffer
    <2>2. ASSUME b # <<>> PROVE Last(b) \in Nat /\ Front(b) \in Seq(Byte) /\ Len(Front(b)) < Len(b)
      <3>1. /\ Last(b) \in Byte /\ Front(b) \in Seq(Byte)
            /\ Len(Front(b)) = Len(b) - 1
        BY <2>1, <2>2, FrontIs
      <3>2. \A k \in Byte : k \in Nat
        BY DEF Byte
      <3>3. Len(b) - 1 < Len(b)
        BY <2>1
      <3> QED BY <3>1, <3>2, <3>3
    <2> QED BY <2>1, <2>2 DEF Buffer
  <1> HIDE DEF S
  <1>2. \A n \in Nat, m \in Nat : 256 * n + m \in Nat
    OBVIOUS
  <1>4. comb \in [S \X Nat -> Nat]
    <2>1. ASSUME NEW q \in S \X Nat PROVE (IF q[1] = <<>> THEN 0 ELSE 256 * q[2] + Last(q[1])) \in Nat
      <3>1. q[1] \in S /\ q[2] \in Nat
        OBVIOUS
      <3>2. q[1] # <<>> => Last(q[1]) \in Nat
        BY <3>1, <1>1, Zenon
      <3> QED BY <3>1, <3>2
    <2> QED BY <2>1, Zenon
  <1>5. next \in [S -> S]
    BY <1>1, Zenon
  <1>6. mu \in [S -> Nat] /\ base \in [S -> Nat]
    BY <1>1
  <1>7. \A b \in S \ End : mu[next[b]] < mu[b]
    <2> SUFFICES ASSUME NEW b \in S, b # <<>> PROVE mu[next[b]] < mu[b]
      BY Zenon
    <2>1. next[b] = Front(b) /\ Front(b) \in S
      BY <1>1, Zenon
    <2>2. mu[next[b]] = Len(Front(b)) /\ mu[b] = Len(b)
      BY <2>1, Zenon
    <2> QED BY <2>2, <1>1
  <1>8. Unrolled(S, Nat, End, base, next, comb)
    <2>1. Nat # {}
      OBVIOUS
    <2> HIDE DEF mu, End, base, next, comb
    <2>2. Unrolls(S, Nat, mu, End, base, next, comb)
      BY <2>1, <1>4, <1>5, <1>6, <1>7, Zenon DEF Unrolls
    <2> QED BY <2>2, Unrolling
  <1>9. PICK f \in [S -> Nat] : \A b \in S : f[b] = IF b \in End THEN base[b] ELSE comb[<<b, f[next[b]]>>]
    BY <1>8, Zenon DEF Unrolled
  <1>10. Is(f)
    <2>1. \A b \in S : f[b] = IF b = <<>> THEN 0 ELSE 256 * f[Front(b)] + Last(b)
      <3> SUFFICES ASSUME NEW b \in S PROVE f[b] = IF b = <<>> THEN 0 ELSE 256 * f[Front(b)] + Last(b)
        BY Zenon
      <3>1. CASE b = <<>>
        BY <3>1, <1>9, Zenon
      <3>2. CASE b # <<>>
        <4>1. next[b] = Front(b) /\ Front(b) \in S
          BY <3>2, <1>1, Zenon
        <4>2. f[b] = comb[<<b, f[Front(b)]>>]
          <5>1. b \notin End
            BY <3>2, Zenon
          <5> HIDE DEF End, base, next, comb
          <5> QED BY <5>1, <4>1, <1>9, Zenon
        <4>3. <<b, f[Front(b)]>> \in S \X Nat
          BY <4>1
        <4>4. comb[<<b, f[Front(b)]>>] = 256 * f[Front(b)] + Last(b)
          <5> DEFINE q == <<b, f[Front(b)]>>
          <5>1. q \in S \X Nat /\ q[1] = b /\ q[2] = f[Front(b)]
            BY <4>3
          <5> HIDE DEF q
          <5>2. comb[q] = IF q[1] = <<>> THEN 0 ELSE 256 * q[2] + Last(q[1])
            BY <5>1, Zenon
          <5>3. comb[q] = 256 * f[Front(b)] + Last(b)
            BY <5>1, <5>2, <3>2, Zenon
          <5> QED BY <5>3, Zenon DEF q
        <4> QED BY <3>2, <4>2, <4>4, Zenon
      <3> QED BY <3>1, <3>2
    <2>2. f = [b \in S |-> f[b]]
      OBVIOUS
    <2>3. f = [b \in S |-> IF b = <<>> THEN 0 ELSE 256 * f[Front(b)] + Last(b)]
      BY <2>1, <2>2, Zenon
    <2> QED BY <2>3, Zenon DEF S
  <1>11. Number = CHOOSE g : Is(g)
    BY DEF Number
  <1>12. Is(Number)
    <2> HIDE DEF Is
    <2> QED BY <1>10, <1>11, Zenon
  <1>13. \A b \in S : Number[b] = IF b = <<>> THEN 0 ELSE 256 * Number[Front(b)] + Last(b)
    BY <1>12, Zenon DEF S
  <1>14. \A b \in S : Number[b] \in Nat
    <2> DEFINE B == {b \in S : Number[b] \notin Nat}
    <2> SUFFICES ASSUME B # {} PROVE FALSE
      BY Zenon
    <2>1. PICK b \in B : \A q \in S : mu[q] < mu[b] => q \notin B
      <3>1. B \in SUBSET S
        BY Zenon
      <3>2. B # {}
        OBVIOUS
      <3> HIDE DEF B, S, mu, End, base, next, comb, Is
      <3> QED BY <3>1, <3>2, <1>6, LeastBy
    <2>2. b \in S /\ Number[b] \notin Nat
      BY Zenon
    <2>3. b # <<>> => Front(b) \in S /\ Number[Front(b)] \in Nat
      <3>1. b # <<>> => Front(b) \in S /\ mu[Front(b)] < mu[b]
        BY <2>2, <1>1
      <3> HIDE DEF mu
      <3> QED BY <2>1, <3>1, Zenon
    <2>4. b # <<>> => Last(b) \in Nat
      BY <2>2, <1>1, Zenon
    <2>5. 0 \in Nat
      OBVIOUS
    <2>6. Number[b] = IF b = <<>> THEN 0 ELSE 256 * Number[Front(b)] + Last(b)
      BY <2>2, <1>13, Zenon
    <2> QED BY <2>2, <2>3, <2>4, <2>6
  <1> QED BY <1>13, <1>14, Zenon DEF S

\* What a reader takes for the first part is shorter than what it reads.
LEMMA ReadingIs ==
  ASSUME NEW b \in Buffer, b # <<>>, WellFormed(b)
  PROVE  /\ b[1] \in Byte
         /\ Content(b) \in Buffer
         /\ Rest(b) \in Buffer
         /\ Len(Rest(b)) < Len(b)
  <1>1. b \in Seq(Byte) /\ Len(b) \in Nat /\ Len(b) > 0
    BY DEF Buffer
  <1>2. Count(b) \in Nat
    <2>1. CASE Len(b) > 1 /\ b[2] > 128
      <3>1. b[2] \in Byte
        BY <1>1, <2>1
      <3>2. Count(b) = b[2] - 128
        BY <2>1, Zenon DEF Count
      <3>3. \A k \in Byte : k > 128 => k - 128 \in Nat
        BY DEF Byte
      <3>4. b[2] - 128 \in Nat
        BY <2>1, <3>1, <3>3
      <3> QED BY <3>2, <3>4, Zenon
    <2> QED BY <2>1 DEF Count
  <1>3. 2 + Count(b) <= Len(b) /\ 2 + Count(b) + Size(b) <= Len(b)
    BY DEF WellFormed
  <1>4. Size(b) \in Nat
    <2>1. CASE Count(b) = 0
      <3>1. b[2] \in Byte
        BY <1>1, <1>3, <2>1
      <3>2. Size(b) = b[2]
        BY <2>1, Zenon DEF Size
      <3>3. \A k \in Byte : k \in Nat
        BY DEF Byte
      <3> QED BY <3>1, <3>2, <3>3, Zenon
    <2>2. CASE Count(b) # 0
      <3>1. \A i \in 3 .. 2 + Count(b) : i \in 1 .. Len(b)
        BY <1>1, <1>2, <1>3
      <3>2. SubSeq(b, 3, 2 + Count(b)) \in Buffer
        BY <1>1, <1>2, <1>3, <3>1 DEF Buffer
      <3>3. Number[SubSeq(b, 3, 2 + Count(b))] \in Nat
        BY <3>2, NumberIs
      <3> QED BY <2>2, <3>3, Zenon DEF Size
    <2> QED BY <2>1, <2>2
  <1> DEFINE c == Count(b)
             n == Size(b)
  <1>5. c \in Nat /\ n \in Nat /\ 2 + c <= Len(b) /\ 2 + c + n <= Len(b)
    BY <1>2, <1>3, <1>4
  <1>6. Content(b) = SubSeq(b, 3 + c, 2 + c + n) /\ Rest(b) = SubSeq(b, 3 + c + n, Len(b))
    BY Zenon DEF Content, Rest
  <1> HIDE DEF c, n
  <1>7. /\ \A i \in 3 + c .. 2 + c + n : i \in 1 .. Len(b)
        /\ \A i \in 3 + c + n .. Len(b) : i \in 1 .. Len(b)
    BY <1>1, <1>5
  <1>8. SubSeq(b, 3 + c, 2 + c + n) \in Seq(Byte)
    BY <1>1, <1>5, <1>7
  <1>9. SubSeq(b, 3 + c + n, Len(b)) \in Seq(Byte) /\ Len(SubSeq(b, 3 + c + n, Len(b))) < Len(b)
    <2>1. \A i \in 3 + c + n .. Len(b) : b[i] \in Byte
      BY <1>1, <1>7
    <2>2. 3 + c + n \in Int /\ Len(b) \in Int
      BY <1>1, <1>5
    <2>3. /\ SubSeq(b, 3 + c + n, Len(b)) \in Seq(Byte)
          /\ Len(SubSeq(b, 3 + c + n, Len(b))) =
               IF 3 + c + n <= Len(b) THEN Len(b) - (3 + c + n) + 1 ELSE 0
      BY <2>1, <2>2, SubSeqProperties
    <2> QED BY <2>3, <1>1, <1>5
  <1>10. b[1] \in Byte
    BY <1>1
  <1> QED BY <1>6, <1>8, <1>9, <1>10 DEF Buffer

\* The part a reader takes for the first, and whether there is one.
FirstPart(b) == [tag |-> b[1], content |-> Content(b)]
HasFirst(b) == b # <<>> /\ WellFormed(b)

\* Parts reads the first part, then the others.
LEMMA PartsIs ==
  ASSUME NEW bytes \in Buffer
  PROVE  /\ Parts[bytes] \in Seq(Part)
         /\ Parts[bytes] =
              IF bytes = <<>> THEN <<>>
              ELSE IF ~WellFormed(bytes) THEN <<Malformed>>
              ELSE <<[tag |-> bytes[1], content |-> Content(bytes)]>> \o Parts[Rest(bytes)]
  <1> DEFINE S == Buffer
             V == Seq(Part)
             mu == [b \in S |-> Len(b)]
             End == {b \in S : ~HasFirst(b)}
             base == [b \in S |-> IF b = <<>> THEN <<>> ELSE <<Malformed>>]
             next == [b \in S |-> IF HasFirst(b) THEN Rest(b) ELSE b]
             comb == [q \in S \X V |-> IF HasFirst(q[1]) THEN <<FirstPart(q[1])>> \o q[2] ELSE <<>>]
             Is(f) == f = [b \in Buffer |->
                             IF b = <<>> THEN <<>>
                             ELSE IF ~WellFormed(b) THEN <<Malformed>>
                             ELSE <<[tag |-> b[1], content |-> Content(b)]>> \o f[Rest(b)]]
  <1>1. \A b \in S : Len(b) \in Nat /\
          (HasFirst(b) => FirstPart(b) \in Part /\ Rest(b) \in S /\ Len(Rest(b)) < Len(b))
    <2> SUFFICES ASSUME NEW b \in S
                 PROVE  Len(b) \in Nat /\
                   (HasFirst(b) => FirstPart(b) \in Part /\ Rest(b) \in S /\ Len(Rest(b)) < Len(b))
      OBVIOUS
    <2>1. Len(b) \in Nat
      BY DEF Buffer
    <2>2. HasFirst(b) => b[1] \in Byte /\ Content(b) \in Buffer /\ Rest(b) \in Buffer /\ Len(Rest(b)) < Len(b)
      BY ReadingIs, Zenon DEF HasFirst
    <2>3. b[1] \in Byte /\ Content(b) \in Buffer => FirstPart(b) \in Part
      BY DEF FirstPart, Part
    <2> QED BY <2>1, <2>2, <2>3
  <1>2. \A p \in Part, v \in V : <<p>> \o v \in V
    OBVIOUS
  <1>3. <<>> \in V /\ <<Malformed>> \in V
    <2>1. <<>> \in Buffer /\ 0 \in Byte
      BY DEF Buffer, Byte
    <2>2. Malformed \in Part
      BY <2>1 DEF Malformed, Part
    <2> QED BY <2>2
  <1> HIDE DEF S, V
  <1>4. comb \in [S \X V -> V]
    <2>1. ASSUME NEW q \in S \X V
          PROVE  (IF HasFirst(q[1]) THEN <<FirstPart(q[1])>> \o q[2] ELSE <<>>) \in V
      <3>1. q[1] \in S /\ q[2] \in V
        OBVIOUS
      <3> QED BY <3>1, <1>1, <1>2, <1>3, Zenon
    <2> QED BY <2>1, Zenon
  <1>5. next \in [S -> S]
    BY <1>1, Zenon
  <1>6. mu \in [S -> Nat] /\ base \in [S -> V]
    BY <1>1, <1>3, Zenon
  <1>7. \A b \in S \ End : mu[next[b]] < mu[b]
    <2> SUFFICES ASSUME NEW b \in S, HasFirst(b) PROVE mu[next[b]] < mu[b]
      BY Zenon
    <2>1. next[b] = Rest(b) /\ Rest(b) \in S
      BY <1>1, Zenon
    <2>2. mu[next[b]] = Len(Rest(b)) /\ mu[b] = Len(b)
      BY <2>1, Zenon
    <2> QED BY <2>2, <1>1
  <1>8. Unrolled(S, V, End, base, next, comb)
    <2>1. V # {}
      BY <1>3, Zenon
    <2> HIDE DEF mu, End, base, next, comb
    <2>2. Unrolls(S, V, mu, End, base, next, comb)
      BY <2>1, <1>4, <1>5, <1>6, <1>7, Zenon DEF Unrolls
    <2> QED BY <2>2, Unrolling
  <1>9. PICK f \in [S -> V] : \A b \in S : f[b] = IF b \in End THEN base[b] ELSE comb[<<b, f[next[b]]>>]
    BY <1>8, Zenon DEF Unrolled
  <1>10. Is(f)
    <2>1. \A b \in S : f[b] = IF b = <<>> THEN <<>>
                              ELSE IF ~WellFormed(b) THEN <<Malformed>>
                              ELSE <<[tag |-> b[1], content |-> Content(b)]>> \o f[Rest(b)]
      <3> SUFFICES ASSUME NEW b \in S
                   PROVE f[b] = IF b = <<>> THEN <<>>
                              ELSE IF ~WellFormed(b) THEN <<Malformed>>
                              ELSE <<[tag |-> b[1], content |-> Content(b)]>> \o f[Rest(b)]
        BY Zenon
      <3>1. CASE ~HasFirst(b)
        <4>1. b \in End
          BY <3>1, Zenon
        <4> QED BY <3>1, <4>1, <1>9, Zenon DEF HasFirst
      <3>2. CASE HasFirst(b)
        <4>1. next[b] = Rest(b) /\ Rest(b) \in S
          BY <3>2, <1>1, Zenon
        <4>2. f[b] = comb[<<b, f[Rest(b)]>>]
          BY <3>2, <4>1, <1>9, Zenon
        <4>3. <<b, f[Rest(b)]>> \in S \X V
          BY <4>1
        <4>4. comb[<<b, f[Rest(b)]>>] = <<FirstPart(b)>> \o f[Rest(b)]
          <5> DEFINE q == <<b, f[Rest(b)]>>
          <5>1. q \in S \X V /\ q[1] = b /\ q[2] = f[Rest(b)]
            BY <4>3
          <5> HIDE DEF q
          <5>2. comb[q] = IF HasFirst(q[1]) THEN <<FirstPart(q[1])>> \o q[2] ELSE <<>>
            BY <5>1, Zenon
          <5>3. comb[q] = <<FirstPart(b)>> \o f[Rest(b)]
            BY <5>1, <5>2, <3>2, Zenon
          <5> QED BY <5>3, Zenon DEF q
        <4> QED BY <3>2, <4>2, <4>4, Zenon DEF HasFirst, FirstPart
      <3> QED BY <3>1, <3>2
    <2>2. f = [b \in S |-> f[b]]
      OBVIOUS
    <2>3. f = [b \in S |-> IF b = <<>> THEN <<>>
                           ELSE IF ~WellFormed(b) THEN <<Malformed>>
                           ELSE <<[tag |-> b[1], content |-> Content(b)]>> \o f[Rest(b)]]
      BY <2>1, <2>2, Zenon
    <2> QED BY <2>3, Zenon DEF S
  <1>11. Parts = CHOOSE g : Is(g)
    BY DEF Parts
  <1>12. Is(Parts)
    <2> HIDE DEF Is
    <2> QED BY <1>10, <1>11, Zenon
  <1>13. \A b \in S : Parts[b] = IF b = <<>> THEN <<>>
                                 ELSE IF ~WellFormed(b) THEN <<Malformed>>
                                 ELSE <<[tag |-> b[1], content |-> Content(b)]>> \o Parts[Rest(b)]
    BY <1>12, Zenon DEF S
  <1>14. \A b \in S : Parts[b] \in V
    <2> DEFINE B == {b \in S : Parts[b] \notin V}
    <2> SUFFICES ASSUME B # {} PROVE FALSE
      BY Zenon
    <2>1. PICK b \in B : \A q \in S : mu[q] < mu[b] => q \notin B
      <3>1. B \in SUBSET S
        BY Zenon
      <3>2. mu \in [S -> Nat]
        BY <1>6, Zenon
      <3> HIDE DEF B, mu
      <3> QED BY <3>1, <3>2, LeastBy
    <2>2. b \in S /\ Parts[b] \notin V
      BY Zenon
    <2>3. HasFirst(b) => Rest(b) \in S /\ Parts[Rest(b)] \in V
      <3>1. HasFirst(b) => Rest(b) \in S /\ mu[Rest(b)] < mu[b]
        BY <2>2, <1>1
      <3> HIDE DEF mu
      <3> QED BY <2>1, <3>1, Zenon
    <2> QED BY <2>2, <2>3, <1>1, <1>2, <1>3, <1>13, Zenon DEF HasFirst, FirstPart
  <1> QED BY <1>13, <1>14, Zenon DEF S, V

\* What is left to read of an identifier after its first byte.
AfterByte(p) ==
  IF p[1][1] >= 128 THEN <<Tail(p[1]), p[2] * 128 + p[1][1] - 128>> ELSE <<Tail(p[1]), 0>>

\* ArcsIn reads a byte, then the others.
LEMMA ArcsInIs ==
  ASSUME NEW left \in Buffer \X Nat
  PROVE  /\ ArcsIn[left] \in Seq(Nat)
         /\ ArcsIn[left] =
              IF left[1] = <<>> THEN <<>>
              ELSE IF left[1][1] >= 128 THEN ArcsIn[<<Tail(left[1]), left[2] * 128 + left[1][1] - 128>>]
              ELSE <<left[2] * 128 + left[1][1]>> \o ArcsIn[<<Tail(left[1]), 0>>]
  <1> DEFINE S == Buffer \X Nat
             V == Seq(Nat)
             mu == [p \in S |-> Len(p[1])]
             End == {p \in S : p[1] = <<>>}
             base == [p \in S |-> <<>>]
             next == [p \in S |-> IF p[1] = <<>> THEN p ELSE AfterByte(p)]
             Made(p, v) == IF p[1][1] >= 128 THEN v ELSE <<p[2] * 128 + p[1][1]>> \o v
             comb == [q \in S \X V |-> IF q[1][1] = <<>> THEN <<>> ELSE Made(q[1], q[2])]
             Body(f, p) == IF p[1] = <<>> THEN <<>>
                           ELSE IF p[1][1] >= 128 THEN f[<<Tail(p[1]), p[2] * 128 + p[1][1] - 128>>]
                           ELSE <<p[2] * 128 + p[1][1]>> \o f[<<Tail(p[1]), 0>>]
             Is(f) == f = [p \in Buffer \X Nat |->
                             IF p[1] = <<>> THEN <<>>
                             ELSE IF p[1][1] >= 128 THEN f[<<Tail(p[1]), p[2] * 128 + p[1][1] - 128>>]
                             ELSE <<p[2] * 128 + p[1][1]>> \o f[<<Tail(p[1]), 0>>]]
  <1>1. \A p \in S : Len(p[1]) \in Nat /\
          (p[1] # <<>> => /\ AfterByte(p) \in S /\ Len(AfterByte(p)[1]) < Len(p[1])
                          /\ \A v \in V : Made(p, v) \in V)
    <2> SUFFICES ASSUME NEW p \in S
                 PROVE  Len(p[1]) \in Nat /\
                   (p[1] # <<>> => /\ AfterByte(p) \in S /\ Len(AfterByte(p)[1]) < Len(p[1])
                                   /\ \A v \in V : Made(p, v) \in V)
      OBVIOUS
    <2> DEFINE b == p[1]
               n == p[2]
    <2>1. b \in Seq(Byte) /\ Len(b) \in Nat /\ n \in Nat
      BY DEF Buffer
    <2> HIDE DEF b, n
    <2>2. ASSUME b # <<>>
          PROVE  /\ b[1] \in 0 .. 255 /\ Tail(b) \in Buffer /\ Len(Tail(b)) < Len(b)
                 /\ n * 128 + b[1] \in Nat
                 /\ b[1] >= 128 => n * 128 + b[1] - 128 \in Nat
      <3>1. Len(b) > 0 /\ b[1] \in Byte
        BY <2>1, <2>2
      <3>2. Tail(b) \in Seq(Byte) /\ Len(Tail(b)) = Len(b) - 1
        BY <2>1, <2>2, HeadTailProperties
      <3> DEFINE m == b[1]
      <3>3. m \in 0 .. 255
        BY <3>1 DEF Byte
      <3> HIDE DEF m
      <3>4. n * 128 + m \in Nat /\ (m >= 128 => n * 128 + m - 128 \in Nat)
        BY <2>1, <3>3
      <3> QED BY <2>1, <3>2, <3>3, <3>4 DEF Buffer, m
    <2>5. \A t, x : <<t, x>>[1] = t
      OBVIOUS
    <2>6. \A t \in Buffer, x \in Nat : <<t, x>> \in S
      OBVIOUS
    <2>3. ASSUME b # <<>>
          PROVE  AfterByte(p) \in S /\ Len(AfterByte(p)[1]) < Len(b)
      <3>1. CASE b[1] >= 128
        <4>1. AfterByte(p) = <<Tail(b), n * 128 + b[1] - 128>>
          BY <3>1, Zenon DEF AfterByte, b, n
        <4>2. n * 128 + b[1] - 128 \in Nat
          BY <2>2, <2>3, <3>1
        <4>3. Tail(b) \in Buffer /\ Len(Tail(b)) < Len(b)
          BY <2>2, <2>3
        <4> HIDE DEF S
        <4> QED BY <4>1, <4>2, <4>3, <2>5, <2>6, Zenon
      <3>2. CASE ~(b[1] >= 128)
        <4>1. AfterByte(p) = <<Tail(b), 0>>
          BY <3>2, Zenon DEF AfterByte, b
        <4>2. 0 \in Nat
          OBVIOUS
        <4>3. Tail(b) \in Buffer /\ Len(Tail(b)) < Len(b)
          BY <2>2, <2>3
        <4> HIDE DEF S
        <4> QED BY <4>1, <4>2, <4>3, <2>5, <2>6, Zenon
      <3> QED BY <3>1, <3>2
    <2>4. ASSUME b # <<>>, NEW v \in V PROVE Made(p, v) \in V
      <3>1. \A k \in Nat : <<k>> \o v \in V
        OBVIOUS
      <3>2. n * 128 + b[1] \in Nat
        BY <2>2, <2>4
      <3> QED BY <3>1, <3>2, <2>4, Zenon DEF b, n
    <2> QED BY <2>1, <2>3, <2>4, Zenon DEF b
  <1>3. <<>> \in V
    OBVIOUS
  <1>0. \A f, p : Body(f, p) = IF p[1] = <<>> THEN <<>> ELSE Made(p, f[AfterByte(p)])
    BY Zenon DEF AfterByte
  <1> HIDE DEF S, V, Made
  <1>4. comb \in [S \X V -> V]
    <2>1. ASSUME NEW q \in S \X V
          PROVE  (IF q[1][1] = <<>> THEN <<>> ELSE Made(q[1], q[2])) \in V
      <3>1. q[1] \in S /\ q[2] \in V
        OBVIOUS
      <3> QED BY <3>1, <1>1, <1>3, Zenon
    <2> QED BY <2>1, Zenon
  <1>5. next \in [S -> S]
    BY <1>1, Zenon
  <1>6. mu \in [S -> Nat] /\ base \in [S -> V]
    BY <1>1, <1>3, Zenon
  <1>7. \A p \in S \ End : mu[next[p]] < mu[p]
    <2> SUFFICES ASSUME NEW p \in S, p[1] # <<>> PROVE mu[next[p]] < mu[p]
      BY Zenon
    <2>1. next[p] = AfterByte(p) /\ AfterByte(p) \in S
      BY <1>1, Zenon
    <2>2. mu[next[p]] = Len(AfterByte(p)[1]) /\ mu[p] = Len(p[1])
      BY <2>1, Zenon
    <2> QED BY <2>2, <1>1
  <1>8. Unrolled(S, V, End, base, next, comb)
    <2>1. V # {}
      BY <1>3, Zenon
    <2> HIDE DEF mu, End, base, next, comb
    <2>2. Unrolls(S, V, mu, End, base, next, comb)
      BY <2>1, <1>4, <1>5, <1>6, <1>7, Zenon DEF Unrolls
    <2> QED BY <2>2, Unrolling
  <1>9. PICK f \in [S -> V] : \A p \in S : f[p] = IF p \in End THEN base[p] ELSE comb[<<p, f[next[p]]>>]
    BY <1>8, Zenon DEF Unrolled
  <1>10. Is(f)
    <2>1. \A p \in S : f[p] = Body(f, p)
      <3> SUFFICES ASSUME NEW p \in S PROVE f[p] = Body(f, p)
        BY Zenon
      <3>1. CASE p[1] = <<>>
        <4>1. p \in End
          BY <3>1, Zenon
        <4> QED BY <3>1, <4>1, <1>9, Zenon
      <3>2. CASE p[1] # <<>>
        <4>1. next[p] = AfterByte(p) /\ AfterByte(p) \in S
          BY <3>2, <1>1, Zenon
        <4>2. f[p] = comb[<<p, f[AfterByte(p)]>>]
          BY <3>2, <4>1, <1>9, Zenon
        <4>3. <<p, f[AfterByte(p)]>> \in S \X V
          BY <4>1
        <4>4. comb[<<p, f[AfterByte(p)]>>] = Made(p, f[AfterByte(p)])
          <5> DEFINE q == <<p, f[AfterByte(p)]>>
          <5>1. q \in S \X V /\ q[1] = p /\ q[2] = f[AfterByte(p)]
            BY <4>3
          <5> HIDE DEF q
          <5>2. comb[q] = IF q[1][1] = <<>> THEN <<>> ELSE Made(q[1], q[2])
            BY <5>1, Zenon
          <5>3. comb[q] = Made(p, f[AfterByte(p)])
            BY <5>1, <5>2, <3>2, Zenon
          <5> QED BY <5>3, Zenon DEF q
        <4> HIDE DEF Body, comb
        <4> QED BY <3>2, <4>2, <4>4, <1>0, Zenon
      <3> QED BY <3>1, <3>2
    <2>2. f = [p \in S |-> f[p]]
      OBVIOUS
    <2>3. f = [p \in S |-> Body(f, p)]
      <3> HIDE DEF Body
      <3> QED BY <2>1, <2>2, Zenon
    <2> QED BY <2>3, Zenon DEF S
  <1>11. ArcsIn = CHOOSE g : Is(g)
    BY DEF ArcsIn
  <1>12. Is(ArcsIn)
    <2> HIDE DEF Is
    <2> QED BY <1>10, <1>11, Zenon
  <1>13. \A p \in S : ArcsIn[p] = Body(ArcsIn, p)
    BY <1>12, Zenon DEF S
  <1>14. \A p \in S : ArcsIn[p] \in V
    <2> DEFINE B == {p \in S : ArcsIn[p] \notin V}
    <2> SUFFICES ASSUME B # {} PROVE FALSE
      BY Zenon
    <2>1. PICK p \in B : \A q \in S : mu[q] < mu[p] => q \notin B
      <3>1. B \in SUBSET S
        BY Zenon
      <3> HIDE DEF B, mu
      <3> QED BY <3>1, <1>6, LeastBy, Zenon
    <2>2. p \in S /\ ArcsIn[p] \notin V
      BY Zenon
    <2>3. p[1] # <<>> => AfterByte(p) \in S /\ ArcsIn[AfterByte(p)] \in V
      <3>1. p[1] # <<>> => AfterByte(p) \in S /\ mu[AfterByte(p)] < mu[p]
        <4>1. p[1] # <<>> => AfterByte(p) \in S /\ Len(AfterByte(p)[1]) < Len(p[1])
          BY <2>2, <1>1, Zenon
        <4>2. p[1] # <<>> => mu[AfterByte(p)] = Len(AfterByte(p)[1]) /\ mu[p] = Len(p[1])
          BY <2>2, <4>1, Zenon
        <4> QED BY <4>1, <4>2, Zenon
      <3> HIDE DEF mu
      <3> QED BY <2>1, <3>1, Zenon
    <2> HIDE DEF Body
    <2>4. ArcsIn[p] = IF p[1] = <<>> THEN <<>> ELSE Made(p, ArcsIn[AfterByte(p)])
      BY <2>2, <1>0, <1>13, Zenon
    <2> QED BY <2>2, <2>3, <2>4, <1>1, <1>3, Zenon
  <1> QED BY <1>13, <1>14, Zenon DEF S, V

-----------------------------------------------------------------------------
(* Digits, and the number they are *)

\* What is where in a sequence to which an element is appended.
LEMMA Appended ==
  ASSUME NEW V, NEW s \in Seq(V), NEW x \in V
  PROVE  /\ Append(s, x) \in Seq(V)
         /\ Len(Append(s, x)) = Len(s) + 1
         /\ Append(s, x) # <<>>
         /\ Last(Append(s, x)) = x
         /\ Front(Append(s, x)) = s
         /\ s # <<>> => Append(s, x)[1] = s[1]
  <1> DEFINE t == Append(s, x)
  <1>1. Len(s) \in Nat
    OBVIOUS
  <1>2. /\ t \in Seq(V) /\ Len(t) = Len(s) + 1 /\ t[Len(s) + 1] = x
        /\ \A i \in 1 .. Len(s) : t[i] = s[i]
    BY AppendProperties
  <1> HIDE DEF t
  <1>3. Len(t) \in Nat /\ Len(t) > 0
    BY <1>1, <1>2
  <1>4. t # <<>>
    BY <1>2, <1>3
  <1>5. Last(t) = x
    BY <1>2 DEF Last
  <1>6. Front(t) = s
    <2>1. Front(t) = SubSeq(t, 1, Len(s))
      <3>1. Len(t) - 1 = Len(s)
        BY <1>1, <1>2
      <3> QED BY <3>1 DEF Front
    <2>2. /\ SubSeq(t, 1, Len(s)) \in Seq(V)
          /\ Len(SubSeq(t, 1, Len(s))) = Len(s)
          /\ \A i \in 1 .. Len(s) : SubSeq(t, 1, Len(s))[i] = t[i]
      BY <1>1, <1>2
    <2> QED BY <2>1, <2>2, <1>2, SeqEqual
  <1>7. s # <<>> => t[1] = s[1]
    <2>1. s # <<>> => 1 \in 1 .. Len(s)
      BY <1>1
    <2> QED BY <2>1, <1>2
  <1> QED BY <1>2, <1>4, <1>5, <1>6, <1>7 DEF t

\* From 256 on there is a last digit and what is left without it.
LEMMA LastDigit ==
  ASSUME NEW n \in Nat, n >= 256
  PROVE  Digits(n, 256) = Append(Digits(n \div 256, 256), n % 256)
  <1>1. PICK base \in Base : base = 256
    BY DEF Base
  <1>2. n >= base => Digits(n, base) = Append(Digits(n \div base, base), n % base)
    BY DigitsAre
  <1> QED BY <1>1, <1>2, Zenon

\* The bytes of a number.
LEMMA BytesAre ==
  ASSUME NEW n \in Nat
  PROVE  /\ Digits(n, 256) \in Buffer
         /\ n < 256 => n \in Byte /\ Digits(n, 256) = <<n>>
         /\ n >= 256 => /\ n \div 256 \in Nat /\ n \div 256 < n /\ n % 256 \in Byte
                        /\ 256 * (n \div 256) + (n % 256) = n
                        /\ Digits(n, 256) = Append(Digits(n \div 256, 256), n % 256)
  <1>1. PICK base \in Base : base = 256
    BY DEF Base
  <1>2. /\ Digits(n, base) \in Seq(0 .. base - 1)
        /\ n < base => Digits(n, base) = <<n>>
        /\ n >= base => Digits(n, base) = Append(Digits(n \div base, base), n % base)
    BY DigitsAre
  <1>3. /\ Digits(n, 256) \in Seq(0 .. 256 - 1)
        /\ n < 256 => Digits(n, 256) = <<n>>
        /\ n >= 256 => Digits(n, 256) = Append(Digits(n \div 256, 256), n % 256)
    BY <1>1, <1>2, Zenon
  <1>4. 0 .. 256 - 1 = Byte
    BY DEF Byte
  <1>5. Digits(n, 256) \in Buffer
    BY <1>3, <1>4, Zenon DEF Buffer
  <1>6. n < 256 => n \in Byte
    BY DEF Byte
  <1>7. n >= 256 => /\ n \div 256 \in Nat /\ n \div 256 < n /\ n % 256 \in Byte
                    /\ 256 * (n \div 256) + (n % 256) = n
    <2>1. n % 256 \in 0 .. 255
      OBVIOUS
    <2>2. n >= 256 => n \div 256 \in Nat /\ n \div 256 < n
      OBVIOUS
    <2>3. 256 * (n \div 256) + (n % 256) = n
      OBVIOUS
    <2> QED BY <2>1, <2>2, <2>3, Zenon DEF Byte
  <1> QED BY <1>3, <1>5, <1>6, <1>7, Zenon

\* The digits of a number, read as one, are the number.
LEMMA NumberOfDigits ==
  ASSUME NEW n \in Nat
  PROVE  Digits(n, 256) \in Buffer /\ Number[Digits(n, 256)] = n
  <1> DEFINE D(k) == Digits(k, 256)
             Bad == {k \in Nat : Number[D(k)] # k}
  <1>1. <<>> \in Buffer /\ Number[<<>>] = 0
    <2>1. <<>> \in Buffer
      BY DEF Buffer
    <2> QED BY <2>1, NumberIs
  <1>2. \A b \in Buffer, x \in Byte : Number[Append(b, x)] = 256 * Number[b] + x
    <2> SUFFICES ASSUME NEW b \in Buffer, NEW x \in Byte
                 PROVE  Number[Append(b, x)] = 256 * Number[b] + x
      OBVIOUS
    <2>1. /\ Append(b, x) \in Seq(Byte) /\ Append(b, x) # <<>>
          /\ Front(Append(b, x)) = b /\ Last(Append(b, x)) = x
      BY Appended DEF Buffer
    <2>2. Append(b, x) \in Buffer
      BY <2>1, Zenon DEF Buffer
    <2> QED BY <2>1, <2>2, NumberIs, Zenon
  <1>3. \A x \in Byte : Number[<<x>>] = x
    <2> SUFFICES ASSUME NEW x \in Byte PROVE Number[<<x>>] = x
      OBVIOUS
    <2>1. Append(<<>>, x) = <<x>>
      OBVIOUS
    <2>2. Number[<<x>>] = 256 * 0 + x
      <3>1. Number[Append(<<>>, x)] = 256 * Number[<<>>] + x
        BY <1>1, <1>2
      <3> QED BY <3>1, <2>1, <1>1, Zenon
    <2>3. x \in Nat
      BY DEF Byte
    <2> HIDE DEF D
    <2> QED BY <2>2, <2>3
  <1>4. Bad = {}
    <2> SUFFICES ASSUME Bad # {} PROVE FALSE
      BY Zenon
    <2>1. PICK k \in Bad : \A j \in Bad : k <= j
      <3>1. Bad \in SUBSET Nat
        BY Zenon
      <3> HIDE DEF Bad
      <3> QED BY <3>1, Least
    <2>2. k \in Nat /\ Number[D(k)] # k
      BY Zenon
    <2> DEFINE j == k \div 256
               x == k % 256
    <2>3. CASE k < 256
      <3>1. k \in Byte /\ D(k) = <<k>>
        BY <2>2, <2>3, BytesAre
      <3> HIDE DEF D
      <3> QED BY <3>1, <2>2, <1>3, Zenon
    <2>4. CASE k >= 256
      <3>1. /\ j \in Nat /\ j < k /\ x \in Byte /\ 256 * j + x = k
            /\ D(k) = Append(D(j), x)
        <4>1. k >= 256 => /\ k \div 256 \in Nat /\ k \div 256 < k /\ k % 256 \in Byte
                          /\ 256 * (k \div 256) + (k % 256) = k
                          /\ Digits(k, 256) = Append(Digits(k \div 256, 256), k % 256)
          <5> HIDE DEF D, j, x
          <5> QED BY <2>2, BytesAre, Zenon
        <4> QED BY <4>1, <2>4, Zenon
      <3>2. D(j) \in Buffer
        BY <3>1, BytesAre
      <3> HIDE DEF j, x
      <3>3. Number[D(j)] = j
        <4>1. ~(k <= j)
          BY <3>1, <2>2
        <4> HIDE DEF D
        <4>2. j \notin Bad
          <5> HIDE DEF Bad
          <5> QED BY <4>1, <2>1, Zenon
        <4> QED BY <4>2, <3>1, Zenon
      <3> HIDE DEF D
      <3>4. Number[D(k)] = 256 * j + x
        <4>1. x \in Byte /\ D(k) = Append(D(j), x)
          BY <3>1, Zenon
        <4>2. Number[Append(D(j), x)] = 256 * Number[D(j)] + x
          BY <4>1, <3>2, <1>2
        <4> QED BY <4>1, <4>2, <3>3, Zenon
      <3> QED BY <3>1, <3>4, <2>2, Zenon
    <2>5. k < 256 \/ k >= 256
      BY <2>2
    <2> QED BY <2>3, <2>4, <2>5
  <1>5. Digits(n, 256) \in Buffer
    BY BytesAre
  <1> QED BY <1>4, <1>5, Zenon

\* 256^3: the reader takes up to three bytes of a length.
Limit == 16777216

\* The first digit of a number that is not zero.
LEMMA FirstDigit ==
  ASSUME NEW k \in Nat, k > 0
  PROVE  /\ Digits(k, 256) # <<>>
         /\ k < 256 => Len(Digits(k, 256)) = 1 /\ Digits(k, 256)[1] > 0
         /\ k >= 256 => /\ Len(Digits(k, 256)) = Len(Digits(k \div 256, 256)) + 1
                        /\ Digits(k \div 256, 256) # <<>> =>
                             Digits(k, 256)[1] = Digits(k \div 256, 256)[1]
  <1>1. CASE k < 256
    <2>1. Digits(k, 256) = <<k>>
      BY <1>1, BytesAre
    <2>2. <<k>> # <<>> /\ Len(<<k>>) = 1 /\ <<k>>[1] > 0
      OBVIOUS
    <2>3. ~(k >= 256)
      BY <1>1
    <2> QED BY <2>1, <2>2, <2>3, Zenon
  <1>2. CASE k >= 256
    <2> DEFINE j == k \div 256
               x == k % 256
               s == Digits(j, 256)
    <2>1. j \in Nat /\ x \in Byte /\ Digits(k, 256) = Append(s, x)
      <3>1. j \in Nat
        OBVIOUS
      <3>2. x \in Byte
        BY DEF Byte
      <3>3. Digits(k, 256) = Append(Digits(k \div 256, 256), k % 256)
        <4> HIDE DEF s, j, x
        <4> QED BY <1>2, LastDigit
      <3> QED BY <3>1, <3>2, <3>3, Zenon
    <2>2. s \in Seq(Byte)
      BY <2>1, BytesAre DEF Buffer
    <2> HIDE DEF s, x
    <2>3. Append(s, x) # <<>> /\ Len(Append(s, x)) = Len(s) + 1 /\ (s # <<>> => Append(s, x)[1] = s[1])
      BY <2>1, <2>2, Appended
    <2>4. ~(k < 256)
      BY <1>2
    <2> QED BY <2>1, <2>3, <2>4, Zenon DEF s
  <1>3. k < 256 \/ k >= 256
    OBVIOUS
  <1> QED BY <1>1, <1>2, <1>3

\* Below Limit a length takes up to three bytes, and the first one is not zero.
LEMMA FewDigits ==
  ASSUME NEW n \in Nat, n >= 128, n < Limit
  PROVE  Len(Digits(n, 256)) \in 1 .. 3 /\ Digits(n, 256)[1] > 0
  <1>1. ASSUME NEW k \in Nat, k > 0, k < 65536
        PROVE  /\ Len(Digits(k, 256)) \in 1 .. 2 /\ Digits(k, 256)[1] > 0
               /\ Digits(k, 256) # <<>>
    <2>1. CASE k < 256
      BY <2>1, <1>1, FirstDigit
    <2>2. CASE k >= 256
      <3> DEFINE j == k \div 256
      <3>1. j \in Nat /\ j > 0 /\ j < 256
        BY <1>1, <2>2
      <3> HIDE DEF j
      <3>2. Digits(j, 256) # <<>> /\ Len(Digits(j, 256)) = 1 /\ Digits(j, 256)[1] > 0
        BY <3>1, FirstDigit
      <3>3. /\ Digits(k, 256) # <<>> /\ Len(Digits(k, 256)) = Len(Digits(j, 256)) + 1
            /\ Digits(j, 256) # <<>> => Digits(k, 256)[1] = Digits(j, 256)[1]
        BY <1>1, <2>2, FirstDigit DEF j
      <3>4. Digits(k, 256)[1] > 0
        BY <3>2, <3>3, Zenon
      <3>5. Len(Digits(k, 256)) = 1 + 1
        BY <3>2, <3>3, Zenon
      <3>6. 1 + 1 \in 1 .. 2
        OBVIOUS
      <3> QED BY <3>3, <3>4, <3>5, <3>6, Zenon
    <2> QED BY <2>1, <2>2, <1>1
  <1>2. CASE n < 65536
    <2>1. n > 0
      OBVIOUS
    <2> QED BY <2>1, <1>1, <1>2
  <1>3. CASE n >= 65536
    <2> DEFINE j == n \div 256
    <2>1. j \in Nat /\ j > 0 /\ j < 65536
      BY <1>3 DEF Limit
    <2> HIDE DEF j
    <2>2. Digits(j, 256) # <<>> /\ Len(Digits(j, 256)) \in 1 .. 2 /\ Digits(j, 256)[1] > 0
      BY <2>1, <1>1
    <2>3. n > 0 /\ n >= 256
      BY <1>3
    <2>4. /\ Digits(n, 256) # <<>> /\ Len(Digits(n, 256)) = Len(Digits(j, 256)) + 1
          /\ Digits(j, 256) # <<>> => Digits(n, 256)[1] = Digits(j, 256)[1]
      BY <2>3, FirstDigit DEF j
    <2>5. Digits(n, 256)[1] > 0
      BY <2>2, <2>4, Zenon
    <2>6. \A m \in 1 .. 2 : m + 1 \in 1 .. 3
      OBVIOUS
    <2>7. Len(Digits(n, 256)) \in 1 .. 3
      BY <2>2, <2>4, <2>6, Zenon
    <2> QED BY <2>5, <2>7
  <1> QED BY <1>2, <1>3

-----------------------------------------------------------------------------
(* Lengths and tagged contents *)

\* A stretch of a sequence that is another one.
LEMMA Sliced ==
  ASSUME NEW S, NEW b \in Seq(S), NEW t \in Seq(S), NEW x \in Nat, NEW y \in Nat,
         x > 0, y = x + Len(t) - 1, y <= Len(b),
         \A i \in 1 .. Len(t) : b[x + i - 1] = t[i]
  PROVE  SubSeq(b, x, y) = t
  <1> DEFINE s == SubSeq(b, x, y)
             n == Len(t)
             m == Len(b)
  <1>1. n \in Nat /\ m \in Nat
    OBVIOUS
  <1>2. y = x + n - 1 /\ y <= m
    OBVIOUS
  <1>3. \A i \in 1 .. m : b[i] \in S
    BY ElementOfSeq
  <1>4. \A i \in 1 .. n : b[x + i - 1] = t[i]
    OBVIOUS
  <1> HIDE DEF n, m
  <1>5. \A i \in x .. y : i \in 1 .. m
    BY <1>1, <1>2
  <1>6. \A i \in x .. y : b[i] \in S
    BY <1>3, <1>5
  <1>7. x \in Int /\ y \in Int
    OBVIOUS
  <1>8. /\ s \in Seq(S)
        /\ Len(s) = IF x <= y THEN y - x + 1 ELSE 0
        /\ \A i \in 1 .. y - x + 1 : s[i] = b[x + i - 1]
    BY <1>6, <1>7, SubSeqProperties
  <1> HIDE DEF s
  <1>9. (IF x <= y THEN y - x + 1 ELSE 0) = n /\ y - x + 1 = n
    BY <1>1, <1>2
  <1>10. Len(s) = n
    BY <1>8, <1>9, Zenon
  <1>11. \A i \in 1 .. n : s[i] = t[i]
    BY <1>4, <1>8, <1>9
  <1>12. n = Len(t)
    BY DEF n
  <1>13. s = t
    BY <1>8, <1>10, <1>11, <1>12, SeqEqual
  <1> QED BY <1>13 DEF s

\* The two forms of a length n.
ShortForm(n, e) == n < 128 /\ Len(e) = 1 /\ e[1] = n
LongForm(n, e) ==
  /\ n >= 128 /\ Len(e) >= 2 /\ e[1] = 127 + Len(e) /\ e[2] > 0
  /\ \E d \in Buffer : /\ Len(d) = Len(e) - 1
                       /\ \A i \in 1 .. Len(d) : d[i] = e[i + 1]
                       /\ Number[d] = n

\* The first byte of a length tells how many follow, these are the length, and
\* they are as few as possible.
LEMMA LengthIs ==
  ASSUME NEW n \in Nat, n < Limit
  PROVE  /\ EncodeLength(n) \in Buffer
         /\ Len(EncodeLength(n)) \in 1 .. 4
         /\ ShortForm(n, EncodeLength(n)) \/ LongForm(n, EncodeLength(n))
  <1>1. CASE n < 128
    <2>1. n \in Byte
      BY <1>1 DEF Byte
    <2>2. EncodeLength(n) = <<n>>
      BY <1>1, Zenon DEF EncodeLength
    <2>3. <<n>> \in Seq(Byte) /\ Len(<<n>>) = 1 /\ <<n>>[1] = n /\ 1 \in 1 .. 4
      BY <2>1
    <2> QED BY <1>1, <2>2, <2>3, Zenon DEF Buffer, ShortForm
  <1>2. CASE ~(n < 128)
    <2> DEFINE d == Digits(n, 256)
               k == Len(d)
               h == <<128 + k>>
               e == h \o d
    <2>1. n >= 128
      BY <1>2
    <2>2. d \in Seq(Byte) /\ Number[d] = n /\ k \in 1 .. 3 /\ d[1] > 0
      BY <2>1, NumberOfDigits, FewDigits DEF Buffer
    <2>3. EncodeLength(n) = e
      BY <1>2, Zenon DEF EncodeLength
    <2>4. Len(d) = k
      OBVIOUS
    <2> HIDE DEF d, k
    <2>5. 128 + k \in 0 .. 255 /\ k \in Nat
      BY <2>2
    <2>6. 128 + k \in Byte
      BY <2>5, Zenon DEF Byte
    <2>7. h \in Seq(Byte) /\ Len(h) = 1 /\ h[1] = 128 + k
      BY <2>6
    <2> HIDE DEF h
    <2>8. h \in Seq(Byte) /\ d \in Seq(Byte)
      BY <2>2, <2>7
    <2>9. /\ e \in Seq(Byte) /\ Len(e) = Len(h) + Len(d)
          /\ \A i \in 1 .. Len(h) : e[i] = h[i]
          /\ \A i \in 1 .. Len(d) : e[Len(h) + i] = d[i]
      BY <2>8, Joined
    <2> HIDE DEF e
    <2>10. Len(e) = 1 + k /\ e[1] = 128 + k /\ \A i \in 1 .. k : e[1 + i] = d[i]
      <3>1. 1 \in 1 .. Len(h)
        BY <2>7
      <3> QED BY <3>1, <2>4, <2>7, <2>9
    <2>11. Len(e) \in 1 .. 4 /\ Len(e) >= 2 /\ 128 + k = 127 + Len(e) /\ k = Len(e) - 1
      BY <2>2, <2>10
    <2>12. e[2] > 0
      <3>1. 1 \in 1 .. k /\ 1 + 1 = 2
        BY <2>2
      <3>2. e[1 + 1] = d[1]
        BY <3>1, <2>10, Zenon
      <3> QED BY <3>1, <3>2, <2>2, Zenon
    <2>13. \A i \in 1 .. k : d[i] = e[i + 1]
      <3>1. \A i \in 1 .. k : i + 1 = 1 + i
        BY <2>5
      <3> QED BY <3>1, <2>10, Zenon
    <2>14. \E c \in Buffer : /\ Len(c) = Len(e) - 1 /\ (\A i \in 1 .. Len(c) : c[i] = e[i + 1])
                             /\ Number[c] = n
      <3>1. d \in Buffer /\ Len(d) = Len(e) - 1 /\ (\A i \in 1 .. Len(d) : d[i] = e[i + 1]) /\ Number[d] = n
        BY <2>2, <2>4, <2>11, <2>13, Zenon DEF Buffer
      <3> QED BY <3>1, Zenon
    <2>15. e[1] = 127 + Len(e)
      BY <2>10, <2>11, Zenon
    <2>16. LongForm(n, e)
      BY <2>1, <2>11, <2>12, <2>14, <2>15, Zenon DEF LongForm
    <2> QED BY <2>3, <2>9, <2>11, <2>16, Zenon DEF Buffer
  <1> QED BY <1>1, <1>2, Zenon

\* What is where in a part that others follow.
LEMMA TaggedIs ==
  ASSUME NEW tag \in Byte, NEW content \in Buffer, Len(content) < Limit, NEW rest \in Buffer
  PROVE  LET n == Len(content)
             e == EncodeLength(n)
             b == Tagged(tag, content) \o rest
         IN  /\ Tagged(tag, content) \in Buffer
             /\ Len(Tagged(tag, content)) = 1 + Len(e) + n
             /\ b \in Buffer
             /\ Len(b) = 1 + Len(e) + n + Len(rest)
             /\ b[1] = tag
             /\ \A i \in 1 .. Len(e) : b[1 + i] = e[i]
             /\ \A i \in 1 .. n : b[1 + Len(e) + i] = content[i]
             /\ \A i \in 1 .. Len(rest) : b[1 + Len(e) + n + i] = rest[i]
  <1> DEFINE n == Len(content)
             e == EncodeLength(n)
             a == <<tag>>
  <1>1. /\ content \in Seq(Byte) /\ n \in Nat /\ rest \in Seq(Byte) /\ Len(rest) \in Nat
        /\ a \in Seq(Byte) /\ Len(a) = 1 /\ a[1] = tag
    BY DEF Buffer
  <1>2. e \in Seq(Byte) /\ Len(e) \in Nat
    <2>1. n < Limit
      OBVIOUS
    <2>2. e \in Buffer
      BY <1>1, <2>1, LengthIs
    <2> HIDE DEF e
    <2> QED BY <2>2 DEF Buffer
  <1>3. Tagged(tag, content) = (a \o e) \o content
    BY Zenon DEF Tagged
  <1> HIDE DEF n, e, a
  <1>4. /\ a \o e \in Seq(Byte) /\ Len(a \o e) = Len(a) + Len(e)
        /\ \A i \in 1 .. Len(a) : (a \o e)[i] = a[i]
        /\ \A i \in 1 .. Len(e) : (a \o e)[Len(a) + i] = e[i]
    <2>1. a \in Seq(Byte) /\ e \in Seq(Byte)
      BY <1>1, <1>2
    <2> QED BY <2>1, Joined
  <1> DEFINE t == a \o e
  <1>5. t \in Seq(Byte) /\ Len(t) = 1 + Len(e) /\ t[1] = tag /\ \A i \in 1 .. Len(e) : t[1 + i] = e[i]
    <2>1. 1 \in 1 .. Len(a)
      BY <1>1
    <2> QED BY <2>1, <1>1, <1>4
  <1>6. Tagged(tag, content) = t \o content
    BY <1>3
  <1> HIDE DEF t
  <1>7. /\ t \o content \in Seq(Byte) /\ Len(t \o content) = Len(t) + Len(content)
        /\ \A i \in 1 .. Len(t) : (t \o content)[i] = t[i]
        /\ \A i \in 1 .. Len(content) : (t \o content)[Len(t) + i] = content[i]
    <2>1. t \in Seq(Byte) /\ content \in Seq(Byte)
      BY <1>1, <1>5
    <2> QED BY <2>1, Joined
  <1> DEFINE u == t \o content
  <1>8. /\ u \in Seq(Byte) /\ Len(u) = 1 + Len(e) + n /\ u[1] = tag
        /\ \A i \in 1 .. Len(e) : u[1 + i] = e[i]
        /\ \A i \in 1 .. n : u[1 + Len(e) + i] = content[i]
    <2>1. Len(u) = 1 + Len(e) + n
      BY <1>5, <1>7 DEF n
    <2>2. 1 \in 1 .. Len(t) /\ \A i \in 1 .. Len(e) : 1 + i \in 1 .. Len(t)
      BY <1>2, <1>5
    <2> QED BY <2>1, <2>2, <1>5, <1>7 DEF n
  <1>9. Tagged(tag, content) = u
    BY <1>6
  <1> HIDE DEF u
  <1>10. /\ u \o rest \in Seq(Byte) /\ Len(u \o rest) = Len(u) + Len(rest)
         /\ \A i \in 1 .. Len(u) : (u \o rest)[i] = u[i]
         /\ \A i \in 1 .. Len(rest) : (u \o rest)[Len(u) + i] = rest[i]
    <2>1. u \in Seq(Byte) /\ rest \in Seq(Byte)
      BY <1>1, <1>8
    <2> QED BY <2>1, Joined
  <1> DEFINE b == u \o rest
  <1>11. /\ b \in Seq(Byte) /\ Len(b) = 1 + Len(e) + n + Len(rest) /\ b[1] = tag
         /\ \A i \in 1 .. Len(e) : b[1 + i] = e[i]
         /\ \A i \in 1 .. n : b[1 + Len(e) + i] = content[i]
         /\ \A i \in 1 .. Len(rest) : b[1 + Len(e) + n + i] = rest[i]
    <2>1. /\ 1 \in 1 .. Len(u)
          /\ \A i \in 1 .. Len(e) : 1 + i \in 1 .. Len(u)
          /\ \A i \in 1 .. n : 1 + Len(e) + i \in 1 .. Len(u)
      <3>1. n \in Nat /\ Len(e) \in Nat /\ Len(u) = 1 + Len(e) + n
        BY <1>1, <1>2, <1>8
      <3> QED BY <3>1
    <2> QED BY <2>1, <1>8, <1>10
  <1>12. Tagged(tag, content) \o rest = b
    BY <1>9
  <1> HIDE DEF b
  <1> QED BY <1>8, <1>9, <1>11, <1>12, Zenon DEF n, e, Buffer

\* A reader finds what was tagged, and goes on after it.
LEMMA TaggedReads ==
  ASSUME NEW tag \in Byte, NEW content \in Buffer, Len(content) < Limit, NEW rest \in Buffer
  PROVE  Parts[Tagged(tag, content) \o rest] = <<[tag |-> tag, content |-> content]>> \o Parts[rest]
  <1> DEFINE n == Len(content)
             e == EncodeLength(n)
             b == Tagged(tag, content) \o rest
             k == Len(e)
             m == Len(rest)
  <1>1. n \in Nat /\ n < Limit /\ m \in Nat /\ Len(content) = n /\ Len(rest) = m /\ Len(e) = k
    BY DEF Buffer
  <1>2. /\ b \in Buffer
        /\ Len(b) = 1 + k + n + m
        /\ b[1] = tag
        /\ \A i \in 1 .. k : b[1 + i] = e[i]
        /\ \A i \in 1 .. n : b[1 + k + i] = content[i]
        /\ \A i \in 1 .. m : b[1 + k + n + i] = rest[i]
    BY TaggedIs
  <1>3. e \in Buffer /\ k \in 1 .. 4 /\ (ShortForm(n, e) \/ LongForm(n, e))
    <2> HIDE DEF n
    <2> QED BY <1>1, LengthIs
  <1>4. content \in Seq(Byte) /\ rest \in Seq(Byte) /\ b \in Seq(Byte)
    BY <1>2, Zenon DEF Buffer
  <1> HIDE DEF n, e, b, k, m
  <1>5. Len(b) \in Nat /\ Len(b) > 1 /\ k \in Nat
    BY <1>1, <1>2, <1>3
  <1>6. b # <<>>
    BY <1>4, <1>5
  <1>7. b[2] = e[1] /\ (k >= 2 => b[3] = e[2])
    <2>1. 1 \in 1 .. k /\ 1 + 1 = 2 /\ 1 + 2 = 3 /\ (k >= 2 => 2 \in 1 .. k)
      BY <1>3
    <2> QED BY <2>1, <1>2, Zenon
  <1>8. /\ Count(b) = k - 1 /\ Size(b) = n
        /\ IF Count(b) = 0 THEN n < 128 ELSE n >= 128 /\ b[3] > 0
    <2>1. CASE ShortForm(n, e)
      <3>1. n < 128 /\ k = 1 /\ b[2] = n
        BY <2>1, <1>1, <1>7, Zenon DEF ShortForm
      <3>2. ~(n > 128) /\ k - 1 = 0
        BY <3>1, <1>1
      <3>3. ~(b[2] > 128)
        BY <3>1, <3>2, Zenon
      <3>4. Count(b) = 0
        BY <3>3, Zenon DEF Count
      <3>5. Size(b) = n
        BY <3>1, <3>4, Zenon DEF Size
      <3> QED BY <3>1, <3>2, <3>4, <3>5, Zenon
    <2>2. CASE LongForm(n, e)
      <3>1. n >= 128 /\ k >= 2 /\ e[1] = 127 + k /\ e[2] > 0
        BY <2>2, <1>1, Zenon DEF LongForm
      <3>2. PICK d \in Buffer : Len(d) = k - 1 /\ (\A i \in 1 .. Len(d) : d[i] = e[i + 1]) /\ Number[d] = n
        BY <2>2, <1>1, Zenon DEF LongForm
      <3>3. 127 + k > 128 /\ 127 + k - 128 = k - 1 /\ k - 1 # 0 /\ 2 + (k - 1) = 1 + k
        BY <3>1, <1>5
      <3>4. b[2] = 127 + k
        BY <3>1, <1>7, Zenon
      <3>5. b[2] > 128 /\ b[2] - 128 = k - 1
        <4> DEFINE c == b[2]
        <4>1. c = 127 + k
          BY <3>4, Zenon
        <4> HIDE DEF c
        <4>2. c > 128 /\ c - 128 = k - 1
          BY <3>1, <4>1, <1>5
        <4> QED BY <4>2, Zenon DEF c
      <3>6. Count(b) = k - 1
        BY <3>5, <1>5, Zenon DEF Count
      <3>7. SubSeq(b, 3, 1 + k) = d
        <4>1. d \in Seq(Byte)
          BY Zenon DEF Buffer
        <4>2. 3 \in Nat /\ 1 + k \in Nat /\ 3 > 0 /\ 1 + k = 3 + (k - 1) - 1
          BY <1>5
        <4>3. 1 + k <= Len(b)
          BY <1>1, <1>2, <1>5
        <4>4. \A i \in 1 .. k - 1 : b[3 + i - 1] = d[i]
          <5> SUFFICES ASSUME NEW i \in 1 .. k - 1 PROVE b[3 + i - 1] = d[i]
            OBVIOUS
          <5>1. i + 1 \in 1 .. k /\ 3 + i - 1 = 1 + (i + 1)
            BY <1>5
          <5>2. b[1 + (i + 1)] = e[i + 1]
            BY <5>1, <1>2, Zenon
          <5>3. d[i] = e[i + 1]
            BY <3>2, Zenon
          <5> QED BY <5>1, <5>2, <5>3, Zenon
        <4>5. 1 + k = 3 + Len(d) - 1
          BY <4>2, <3>2, Zenon
        <4>6. \A i \in 1 .. Len(d) : b[3 + i - 1] = d[i]
          BY <4>4, <3>2, Zenon
        <4> QED BY <4>1, <4>2, <4>3, <4>5, <4>6, <1>4, Sliced
      <3>8. SubSeq(b, 3, 2 + Count(b)) = d
        BY <3>3, <3>6, <3>7, Zenon
      <3>9. Count(b) # 0
        BY <3>3, <3>6, Zenon
      <3>10. Size(b) = n
        BY <3>2, <3>8, <3>9, Zenon DEF Size
      <3>11. b[3] > 0
        BY <3>1, <1>7, Zenon
      <3> QED BY <3>1, <3>6, <3>9, <3>10, <3>11, Zenon
    <2> QED BY <2>1, <2>2, <1>3, Zenon
  <1>9. /\ Count(b) <= 3 /\ 2 + Count(b) <= Len(b) /\ 2 + Count(b) + Size(b) <= Len(b)
        /\ 3 + Count(b) = 2 + k /\ 2 + Count(b) + Size(b) = 1 + k + n
        /\ 3 + Count(b) + Size(b) = 2 + k + n
    <2>1. Count(b) = k - 1 /\ Size(b) = n /\ Len(b) = 1 + k + n + m
      BY <1>2, <1>8, Zenon
    <2>2. /\ k - 1 <= 3 /\ 2 + (k - 1) <= 1 + k + n + m /\ 2 + (k - 1) + n <= 1 + k + n + m
          /\ 3 + (k - 1) = 2 + k /\ 2 + (k - 1) + n = 1 + k + n
          /\ 3 + (k - 1) + n = 2 + k + n
      BY <1>1, <1>3
    <2> QED BY <2>1, <2>2
  <1>10. WellFormed(b)
    BY <1>8, <1>9, Zenon DEF WellFormed
  <1>11. Content(b) = content
    <2>1. Content(b) = SubSeq(b, 2 + k, 1 + k + n)
      BY <1>9, Zenon DEF Content
    <2>2. /\ 2 + k \in Nat /\ 1 + k + n \in Nat /\ 2 + k > 0 /\ 1 + k + n = 2 + k + n - 1
          /\ 1 + k + n <= 1 + k + n + m
      BY <1>1, <1>5
    <2>3. 1 + k + n = 2 + k + Len(content) - 1 /\ 1 + k + n <= Len(b)
      BY <2>2, <1>1, <1>2, Zenon
    <2>4. \A i \in 1 .. n : b[2 + k + i - 1] = content[i]
      <3>1. \A i \in 1 .. n : 2 + k + i - 1 = 1 + k + i
        BY <1>1, <1>5
      <3> QED BY <3>1, <1>2, Zenon
    <2>5. \A i \in 1 .. Len(content) : b[2 + k + i - 1] = content[i]
      BY <2>4, <1>1, Zenon
    <2> QED BY <2>1, <2>2, <2>3, <2>5, <1>4, Sliced
  <1>12. Rest(b) = rest
    <2>1. Rest(b) = SubSeq(b, 2 + k + n, 1 + k + n + m)
      BY <1>2, <1>9, Zenon DEF Rest
    <2>2. /\ 2 + k + n \in Nat /\ 1 + k + n + m \in Nat /\ 2 + k + n > 0
          /\ 1 + k + n + m = 2 + k + n + m - 1 /\ 1 + k + n + m <= 1 + k + n + m
      BY <1>1, <1>5
    <2>3. 1 + k + n + m = 2 + k + n + Len(rest) - 1 /\ 1 + k + n + m <= Len(b)
      BY <2>2, <1>1, <1>2, Zenon
    <2>4. \A i \in 1 .. m : b[2 + k + n + i - 1] = rest[i]
      <3>1. \A i \in 1 .. m : 2 + k + n + i - 1 = 1 + k + n + i
        BY <1>1, <1>5
      <3> QED BY <3>1, <1>2, Zenon
    <2>5. \A i \in 1 .. Len(rest) : b[2 + k + n + i - 1] = rest[i]
      BY <2>4, <1>1, Zenon
    <2> QED BY <2>1, <2>2, <2>3, <2>5, <1>4, Sliced
  <1>13. Parts[b] = <<[tag |-> b[1], content |-> Content(b)]>> \o Parts[Rest(b)]
    BY <1>2, <1>6, <1>10, PartsIs, Zenon
  <1>14. Parts[b] = <<[tag |-> tag, content |-> content]>> \o Parts[rest]
    BY <1>2, <1>11, <1>12, <1>13, Zenon
  <1> QED BY <1>14, Zenon DEF b

-----------------------------------------------------------------------------
(* Parts that follow each other *)

\* The parts are these items, tagged.
Encodes(parts, items) ==
  /\ parts \in Seq(Buffer)
  /\ items \in Seq(Part)
  /\ Len(parts) = Len(items)
  /\ \A i \in 1 .. Len(items) :
       Len(items[i].content) < Limit /\ parts[i] = Tagged(items[i].tag, items[i].content)

\* The first and the other parts.
LEMMA HeadTail ==
  ASSUME NEW V, NEW s \in Seq(V), s # <<>>
  PROVE  /\ Head(s) = s[1]
         /\ s[1] \in V
         /\ Tail(s) \in Seq(V)
         /\ Len(s) \in Nat
         /\ Len(Tail(s)) = Len(s) - 1
         /\ Len(Tail(s)) \in Nat
         /\ \A i \in 1 .. Len(Tail(s)) : Tail(s)[i] = s[i + 1]
         /\ <<s[1]>> \o Tail(s) = s
  <1>1. /\ Head(s) \in V /\ Tail(s) \in Seq(V) /\ Len(Tail(s)) = Len(s) - 1
        /\ \A i \in 1 .. Len(Tail(s)) : Tail(s)[i] = s[i + 1]
    BY HeadTailProperties
  <1>2. Head(s) = s[1]
    OBVIOUS
  <1>3. Len(s) \in Nat /\ Len(Tail(s)) \in Nat
    BY <1>1, LenProperties
  <1> DEFINE h == <<s[1]>>
             t == Tail(s)
  <1>4. h \in Seq(V) /\ Len(h) = 1 /\ h[1] = s[1]
    BY <1>1, <1>2
  <1>5. t \in Seq(V) /\ Len(t) = Len(s) - 1 /\ Len(t) \in Nat /\ \A i \in 1 .. Len(t) : t[i] = s[i + 1]
    BY <1>1, <1>3
  <1> HIDE DEF h, t
  <1>6. /\ h \o t \in Seq(V) /\ Len(h \o t) = Len(h) + Len(t)
        /\ \A i \in 1 .. Len(h) : (h \o t)[i] = h[i]
        /\ \A i \in 1 .. Len(t) : (h \o t)[Len(h) + i] = t[i]
    <2>1. h \in Seq(V) /\ t \in Seq(V)
      BY <1>4, <1>5, Zenon
    <2> QED BY <2>1, Joined
  <1>7. Len(h \o t) = Len(s)
    BY <1>3, <1>4, <1>5, <1>6
  <1>8. \A i \in 1 .. Len(h \o t) : (h \o t)[i] = s[i]
    <2> SUFFICES ASSUME NEW i \in 1 .. Len(h \o t) PROVE (h \o t)[i] = s[i]
      OBVIOUS
    <2>1. CASE i = 1
      <3>1. 1 \in 1 .. Len(h)
        BY <1>4
      <3> QED BY <3>1, <2>1, <1>4, <1>6
    <2>2. CASE i # 1
      <3>1. i - 1 \in 1 .. Len(t) /\ Len(h) + (i - 1) = i /\ (i - 1) + 1 = i
        BY <2>2, <1>3, <1>4, <1>5, <1>7
      <3>2. (h \o t)[Len(h) + (i - 1)] = t[i - 1]
        BY <3>1, <1>6
      <3>3. t[i - 1] = s[(i - 1) + 1]
        BY <3>1, <1>5
      <3> QED BY <3>1, <3>2, <3>3
    <2> QED BY <2>1, <2>2
  <1>9. h \o t = s
    BY <1>6, <1>7, <1>8, SeqEqual
  <1>10. <<s[1]>> \o Tail(s) = s
    BY <1>9, Zenon DEF h, t
  <1> QED BY <1>1, <1>2, <1>3, <1>10

\* A reader of tagged items finds these and nothing else.
LEMMA EncodedReads ==
  ASSUME NEW parts, NEW items, Encodes(parts, items)
  PROVE  Parts[Concat[parts]] = items
  <1> DEFINE Claim(n) == \A q, u : Encodes(q, u) /\ Len(q) = n => Parts[Concat[q]] = u
             B == {n \in Nat : ~Claim(n)}
  <1> SUFFICES B = {}
    <2>1. Len(parts) \in Nat
      BY LenProperties DEF Encodes
    <2>2. Claim(Len(parts))
      BY <2>1
    <2> QED BY <2>2
  <1> SUFFICES ASSUME B # {} PROVE FALSE
    OBVIOUS
  <1>1. B \in SUBSET Nat
    OBVIOUS
  <1> HIDE DEF B
  <1>2. PICK n \in B : \A k \in B : n <= k
    BY <1>1, Least
  <1>3. n \in Nat /\ ~Claim(n)
    BY DEF B
  <1>4. \A k \in Nat : k < n => Claim(k)
    <2> SUFFICES ASSUME NEW k \in Nat, k < n, ~Claim(k) PROVE FALSE
      OBVIOUS
    <2>1. k \in B
      BY Zenon DEF B
    <2> HIDE DEF Claim
    <2> QED BY <2>1, <1>2, <1>3
  <1>5. PICK q, u : Encodes(q, u) /\ Len(q) = n /\ Parts[Concat[q]] # u
    BY <1>3
  <1>6. /\ q \in Seq(Buffer) /\ u \in Seq(Part) /\ Len(q) = Len(u)
        /\ \A i \in 1 .. Len(u) : Len(u[i].content) < Limit /\ q[i] = Tagged(u[i].tag, u[i].content)
    BY <1>5, Zenon DEF Encodes
  <1> HIDE DEF Claim
  <1>7. CASE q = <<>>
    <2>1. Concat[q] = <<>>
      BY <1>7, ConcatIs, <1>6
    <2>2. <<>> \in Buffer
      BY DEF Buffer
    <2>3. Parts[<<>>] = <<>>
      BY <2>2, PartsIs
    <2>4. u = <<>>
      BY <1>6, <1>7
    <2> QED BY <2>1, <2>3, <2>4, <1>5
  <1>8. CASE q # <<>>
    <2> DEFINE a == Tail(q)
               w == Tail(u)
    <2>1. u # <<>>
      BY <1>6, <1>8
    <2>2. /\ Head(q) = q[1] /\ q[1] \in Buffer /\ a \in Seq(Buffer) /\ Len(q) \in Nat
          /\ Len(a) = Len(q) - 1 /\ Len(a) \in Nat
          /\ \A i \in 1 .. Len(a) : a[i] = q[i + 1]
      BY <1>6, <1>8, HeadTail
    <2>3. /\ u[1] \in Part /\ w \in Seq(Part) /\ Len(w) = Len(u) - 1 /\ Len(w) \in Nat
          /\ \A i \in 1 .. Len(w) : w[i] = u[i + 1]
          /\ <<u[1]>> \o w = u
      BY <1>6, <2>1, HeadTail
    <2> HIDE DEF a, w
    <2>4. Encodes(a, w)
      <3>1. Len(a) = Len(w)
        BY <2>2, <2>3, <1>6
      <3>2. ASSUME NEW i \in 1 .. Len(w)
            PROVE  Len(w[i].content) < Limit /\ a[i] = Tagged(w[i].tag, w[i].content)
        <4>1. i + 1 \in 1 .. Len(u) /\ i \in 1 .. Len(a)
          BY <2>3, <3>1, <1>6, <2>2
        <4>2. a[i] = q[i + 1] /\ w[i] = u[i + 1]
          BY <4>1, <2>2, <2>3
        <4>3. Len(u[i + 1].content) < Limit /\ q[i + 1] = Tagged(u[i + 1].tag, u[i + 1].content)
          BY <4>1, <1>6, Zenon
        <4> QED BY <4>2, <4>3, Zenon
      <3> QED BY <2>2, <2>3, <3>1, <3>2, Zenon DEF Encodes
    <2>5. Parts[Concat[a]] = w
      <3>1. Len(a) \in Nat /\ Len(a) < n
        BY <2>2, <1>5, <1>3
      <3>2. Claim(Len(a))
        BY <3>1, <1>4
      <3> QED BY <3>2, <2>4 DEF Claim
    <2>6. Concat[q] = q[1] \o Concat[a] /\ Concat[a] \in Buffer
      <3>1. Concat[q] = Head(q) \o Concat[Tail(q)]
        BY <1>6, <1>8, ConcatIs, Zenon
      <3>2. Concat[a] \in Buffer
        BY <2>2, ConcatIs, Zenon
      <3> QED BY <3>1, <3>2, <2>2, Zenon DEF a
    <2>7. /\ u[1].tag \in Byte /\ u[1].content \in Buffer
          /\ [tag |-> u[1].tag, content |-> u[1].content] = u[1]
      BY <2>3 DEF Part
    <2>8. 1 \in 1 .. Len(u)
      BY <2>2, <2>3, <1>6
    <2>9. Len(u[1].content) < Limit /\ q[1] = Tagged(u[1].tag, u[1].content)
      BY <2>8, <1>6, Zenon
    <2>10. Parts[Tagged(u[1].tag, u[1].content) \o Concat[a]] =
             <<[tag |-> u[1].tag, content |-> u[1].content]>> \o Parts[Concat[a]]
      BY <2>6, <2>7, <2>9, TaggedReads, Zenon
    <2>11. Parts[Concat[q]] = <<u[1]>> \o w
      BY <2>5, <2>6, <2>7, <2>9, <2>10, Zenon
    <2> QED BY <2>11, <2>3, <1>5, Zenon
  <1> QED BY <1>7, <1>8

\* Parts of limited length are together of limited length.
LEMMA ConcatLength ==
  ASSUME NEW parts \in Seq(Buffer), NEW m \in Nat, \A i \in 1 .. Len(parts) : Len(parts[i]) <= m
  PROVE  Concat[parts] \in Buffer /\ Len(Concat[parts]) <= Len(parts) * m
  <1> DEFINE Claim(n) == \A q \in Seq(Buffer) :
               (\A i \in 1 .. Len(q) : Len(q[i]) <= m) /\ Len(q) = n => Len(Concat[q]) <= n * m
             B == {n \in Nat : ~Claim(n)}
  <1>0. Concat[parts] \in Buffer
    BY ConcatIs
  <1> SUFFICES B = {}
    <2>1. Len(parts) \in Nat
      BY LenProperties
    <2>2. Claim(Len(parts))
      BY <2>1
    <2> QED BY <1>0, <2>2
  <1> SUFFICES ASSUME B # {} PROVE FALSE
    OBVIOUS
  <1>1. B \in SUBSET Nat
    OBVIOUS
  <1> HIDE DEF B
  <1>2. PICK n \in B : \A k \in B : n <= k
    BY <1>1, Least
  <1>3. n \in Nat /\ ~Claim(n)
    BY DEF B
  <1>4. \A k \in Nat : k < n => Claim(k)
    <2> SUFFICES ASSUME NEW k \in Nat, k < n, ~Claim(k) PROVE FALSE
      OBVIOUS
    <2>1. k \in B
      BY Zenon DEF B
    <2> HIDE DEF Claim
    <2> QED BY <2>1, <1>2, <1>3
  <1>5. PICK q \in Seq(Buffer) :
          (\A i \in 1 .. Len(q) : Len(q[i]) <= m) /\ Len(q) = n /\ ~(Len(Concat[q]) <= n * m)
    BY <1>3
  <1> HIDE DEF Claim
  <1>7. CASE q = <<>>
    <2>1. Concat[q] = <<>>
      BY <1>7, ConcatIs
    <2>2. n = 0 /\ Len(Concat[q]) = 0
      BY <2>1, <1>5, <1>7
    <2>3. n * m = 0
      BY <2>2
    <2> QED BY <2>2, <2>3, <1>5
  <1>8. CASE q # <<>>
    <2> DEFINE a == Tail(q)
    <2>2. /\ Head(q) = q[1] /\ q[1] \in Buffer /\ a \in Seq(Buffer) /\ Len(q) \in Nat
          /\ Len(a) = Len(q) - 1 /\ Len(a) \in Nat
          /\ \A i \in 1 .. Len(a) : a[i] = q[i + 1]
      BY <1>8, HeadTail
    <2>6. Concat[q] = q[1] \o Concat[a] /\ Concat[a] \in Buffer
      <3>1. Concat[q] = Head(q) \o Concat[Tail(q)]
        BY <1>8, ConcatIs, Zenon
      <3>2. Concat[a] \in Buffer
        BY <2>2, ConcatIs, Zenon
      <3> QED BY <3>1, <3>2, <2>2, Zenon
    <2> HIDE DEF a
    <2>3. \A i \in 1 .. Len(a) : Len(a[i]) <= m
      <3> SUFFICES ASSUME NEW i \in 1 .. Len(a) PROVE Len(a[i]) <= m
        OBVIOUS
      <3>1. i + 1 \in 1 .. Len(q)
        BY <2>2
      <3> QED BY <3>1, <2>2, <1>5
    <2>4. Len(Concat[a]) <= Len(a) * m
      <3>1. Len(a) \in Nat /\ Len(a) < n
        BY <2>2, <1>5, <1>3
      <3>2. Claim(Len(a))
        BY <3>1, <1>4
      <3> QED BY <3>2, <2>2, <2>3 DEF Claim
    <2>5. Len(q[1]) <= m
      <3>1. 1 \in 1 .. Len(q)
        BY <2>2
      <3> QED BY <3>1, <1>5
    <2> DEFINE x == q[1]
               y == Concat[a]
    <2>7. x \in Seq(Byte) /\ y \in Seq(Byte)
      BY <2>2, <2>6 DEF Buffer
    <2>8. Concat[q] = x \o y
      BY <2>6
    <2>9. Len(x) <= m /\ Len(y) <= Len(a) * m
      BY <2>4, <2>5
    <2> HIDE DEF x, y
    <2>10. Len(x \o y) = Len(x) + Len(y) /\ Len(x) \in Nat /\ Len(y) \in Nat
      BY <2>7, Joined, LenProperties
    <2>11. Len(a) = n - 1
      BY <2>2, <1>5
    <2>12. (n - 1) * m + m = n * m /\ (n - 1) * m \in Int /\ n * m \in Int
      BY <1>3
    <2>13. Len(y) <= (n - 1) * m
      BY <2>9, <2>11
    <2> DEFINE z == (n - 1) * m
               v == n * m
    <2>14. z + m = v /\ z \in Int /\ v \in Int /\ Len(y) <= z /\ ~(Len(Concat[q]) <= v)
      BY <2>12, <2>13, <1>5
    <2>15. Len(Concat[q]) = Len(x) + Len(y)
      BY <2>8, <2>10
    <2> HIDE DEF z, v
    <2> QED BY <2>9, <2>10, <2>14, <2>15
  <1> QED BY <1>7, <1>8

-----------------------------------------------------------------------------
(* Object identifiers *)

\* The digits of a number in base 128, all of them marked.
Marked(k) == [i \in DOMAIN Digits(k, 128) |-> 128 + Digits(k, 128)[i]]

\* A digit in base 128.
Digit == 0 .. 127

\* The digits in base 128.
LEMMA SmallDigits ==
  ASSUME NEW k \in Nat
  PROVE  /\ Digits(k, 128) \in Seq(Digit)
         /\ k < 128 => Digits(k, 128) = <<k>>
         /\ k >= 128 => /\ k \div 128 \in Nat
                        /\ k % 128 \in Digit
                        /\ k = 128 * (k \div 128) + (k % 128)
                        /\ k \div 128 < k
                        /\ Digits(k, 128) = Append(Digits(k \div 128, 128), k % 128)
  <1>1. Digit = 0 .. 128 - 1
    BY DEF Digit
  <1>2. /\ Digits(k, 128) \in Seq(Digit)
        /\ k < 128 => Digits(k, 128) = <<k>>
        /\ k >= 128 => Digits(k, 128) = Append(Digits(k \div 128, 128), k % 128)
    <2>1. PICK base \in Base : base = 128
      BY DEF Base
    <2>2. /\ Digits(k, base) \in Seq(0 .. base - 1)
          /\ k < base => Digits(k, base) = <<k>>
          /\ k >= base => Digits(k, base) = Append(Digits(k \div base, base), k % base)
      BY DigitsAre
    <2> QED BY <2>1, <2>2, <1>1, Zenon
  <1>3. k >= 128 => /\ k \div 128 \in Nat
                    /\ k % 128 \in Digit
                    /\ k = 128 * (k \div 128) + (k % 128)
                    /\ k \div 128 < k
    BY DEF Digit
  <1> QED BY <1>2, <1>3, Zenon

\* The marked digits of a number: those of what is left without the last one, and it.
LEMMA MarkedIs ==
  ASSUME NEW k \in Nat
  PROVE  /\ Marked(k) \in Buffer
         /\ k < 128 => Marked(k) = <<128 + k>>
         /\ k >= 128 => Marked(k) = Append(Marked(k \div 128), 128 + (k % 128))
  <1>1. ASSUME NEW j \in Nat
        PROVE  /\ Marked(j) \in Seq(Byte) /\ Len(Marked(j)) = Len(Digits(j, 128))
               /\ \A i \in 1 .. Len(Digits(j, 128)) : Marked(j)[i] = 128 + Digits(j, 128)[i]
    <2> DEFINE d == Digits(j, 128)
    <2>1. /\ d \in Seq(Digit) /\ Len(d) \in Nat
          /\ DOMAIN d = 1 .. Len(d) /\ \A i \in 1 .. Len(d) : d[i] \in Digit
      <3>1. d \in Seq(Digit)
        BY SmallDigits
      <3> HIDE DEF d
      <3> QED BY <3>1, LenProperties, ElementOfSeq
    <2>2. Marked(j) = [i \in DOMAIN d |-> 128 + d[i]]
      BY Zenon DEF Marked
    <2> HIDE DEF d
    <2>3. \A x \in Digit : 128 + x \in Byte
      BY DEF Byte, Digit
    <2>4. Marked(j) = [i \in 1 .. Len(d) |-> 128 + d[i]]
      BY <2>1, <2>2, Zenon
    <2>5. Marked(j) \in [1 .. Len(d) -> Byte]
      BY <2>1, <2>3, <2>4, Zenon
    <2>6. Marked(j) \in Seq(Byte) /\ Len(Marked(j)) = Len(d)
      BY <2>1, <2>5, Tabled
    <2>7. \A i \in 1 .. Len(d) : Marked(j)[i] = 128 + d[i]
      BY <2>4, Zenon
    <2> QED BY <2>6, <2>7 DEF d
  <1>2. CASE k < 128
    <2>1. Digits(k, 128) = <<k>> /\ Len(Digits(k, 128)) = 1 /\ Digits(k, 128)[1] = k
      BY <1>2, SmallDigits
    <2> DEFINE s == <<128 + k>>
    <2>2. s \in Seq(Byte) /\ Len(s) = 1 /\ s[1] = 128 + k
      <3>1. 128 + k \in Byte
        BY <1>2 DEF Byte
      <3> QED BY <3>1
    <2>3. Marked(k) \in Seq(Byte) /\ Len(Marked(k)) = 1 /\ Marked(k)[1] = 128 + k
      <3>0. 1 \in 1 .. 1
        OBVIOUS
      <3>1. 1 \in 1 .. Len(Digits(k, 128))
        BY <3>0, <2>1, Zenon
      <3> QED BY <3>1, <1>1, <2>1
    <2> HIDE DEF s
    <2>4. \A i \in 1 .. Len(s) : s[i] = Marked(k)[i]
      BY <2>2, <2>3
    <2>5. s = Marked(k)
      BY <2>2, <2>3, <2>4, SeqEqual
    <2> QED BY <2>3, <2>5, <1>2 DEF s, Buffer
  <1>3. CASE ~(k < 128)
    <2>1. k >= 128
      BY <1>3
    <2> DEFINE j == k \div 128
               x == k % 128
               d == Digits(j, 128)
               e == Digits(k, 128)
               m == Marked(j)
               s == Append(m, 128 + x)
    <2>2. j \in Nat /\ x \in Digit /\ e = Append(d, x) /\ d \in Seq(Digit)
      BY <2>1, SmallDigits
    <2> HIDE DEF j, x
    <2>3. 128 + x \in Byte
      BY <2>2 DEF Byte, Digit
    <2>4. m \in Seq(Byte) /\ Len(m) = Len(d) /\ \A i \in 1 .. Len(d) : m[i] = 128 + d[i]
      BY <2>2, <1>1
    <2>5. /\ Marked(k) \in Seq(Byte) /\ Len(Marked(k)) = Len(e)
          /\ \A i \in 1 .. Len(e) : Marked(k)[i] = 128 + e[i]
      BY <1>1
    <2>6. Len(d) \in Nat
      BY <2>2, LenProperties
    <2> HIDE DEF d, e, m
    <2>7. Len(e) = Len(d) + 1 /\ e[Len(d) + 1] = x /\ \A i \in 1 .. Len(d) : e[i] = d[i]
      BY <2>2, AppendProperties
    <2>8. /\ s \in Seq(Byte) /\ Len(s) = Len(m) + 1 /\ s[Len(m) + 1] = 128 + x
          /\ \A i \in 1 .. Len(m) : s[i] = m[i]
      <3>1. m \in Seq(Byte)
        BY <2>4, Zenon
      <3> DEFINE y == 128 + x
      <3>2. y \in Byte
        BY <2>3
      <3> HIDE DEF y
      <3>3. /\ Append(m, y) \in Seq(Byte) /\ Len(Append(m, y)) = Len(m) + 1
            /\ Append(m, y)[Len(m) + 1] = y
            /\ \A i \in 1 .. Len(m) : Append(m, y)[i] = m[i]
        BY <3>1, <3>2, AppendProperties
      <3> QED BY <3>3, Zenon DEF y
    <2> HIDE DEF s
    <2>9. Len(s) = Len(Marked(k))
      BY <2>4, <2>5, <2>7, <2>8
    <2>10. \A i \in 1 .. Len(s) : s[i] = Marked(k)[i]
      <3> SUFFICES ASSUME NEW i \in 1 .. Len(s) PROVE s[i] = Marked(k)[i]
        OBVIOUS
      <3>1. CASE i \in 1 .. Len(d)
        <4>1. i \in 1 .. Len(m) /\ i \in 1 .. Len(e)
          BY <3>1, <2>4, <2>6, <2>7
        <4> QED BY <4>1, <3>1, <2>4, <2>5, <2>7, <2>8
      <3>2. CASE i = Len(d) + 1
        <4>1. i = Len(m) + 1 /\ i \in 1 .. Len(e)
          BY <3>2, <2>4, <2>6, <2>7
        <4> QED BY <4>1, <3>2, <2>5, <2>7, <2>8
      <3> QED BY <3>1, <3>2, <2>4, <2>6, <2>8
    <2>11. s = Marked(k)
      BY <2>5, <2>8, <2>9, <2>10, SeqEqual
    <2>12. Marked(k) = Append(Marked(k \div 128), 128 + (k % 128))
      BY <2>11, Zenon DEF s, m, j, x
    <2> QED BY <2>5, <2>12, <1>3, Zenon DEF Buffer
  <1> QED BY <1>2, <1>3, Zenon

\* One arc: the marked digits of what is left without the last one, and it.
LEMMA ArcIs ==
  ASSUME NEW n \in Nat
  PROVE  /\ Arc(n) \in Buffer
         /\ n < 128 => Arc(n) = <<n>>
         /\ n >= 128 => Arc(n) = Append(Marked(n \div 128), n % 128)
  <1> DEFINE e == Digits(n, 128)
             a == Arc(n)
  <1>1. /\ e \in Seq(Digit) /\ Len(e) \in Nat
        /\ DOMAIN e = 1 .. Len(e) /\ \A i \in 1 .. Len(e) : e[i] \in Digit
    <2>1. e \in Seq(Digit)
      BY SmallDigits
    <2> HIDE DEF e
    <2> QED BY <2>1, LenProperties, ElementOfSeq
  <1>2. a = [i \in DOMAIN e |-> IF i < Len(e) THEN 128 + e[i] ELSE e[i]]
    BY Zenon DEF Arc
  <1> HIDE DEF e, a
  <1>3. \A x \in Digit : 128 + x \in Byte /\ x \in Byte
    BY DEF Byte, Digit
  <1>4. a = [i \in 1 .. Len(e) |-> IF i < Len(e) THEN 128 + e[i] ELSE e[i]]
    BY <1>1, <1>2, Zenon
  <1>5. a \in [1 .. Len(e) -> Byte]
    BY <1>1, <1>3, <1>4, Zenon
  <1>6. a \in Seq(Byte) /\ Len(a) = Len(e)
    BY <1>1, <1>5, Tabled
  <1>7. \A i \in 1 .. Len(e) : a[i] = IF i < Len(e) THEN 128 + e[i] ELSE e[i]
    BY <1>4, Zenon
  <1>8. CASE n < 128
    <2>1. e = <<n>> /\ Len(e) = 1 /\ e[1] = n
      BY <1>8, SmallDigits DEF e
    <2> DEFINE s == <<n>>
    <2>2. s \in Seq(Byte) /\ Len(s) = 1 /\ s[1] = n
      <3>1. n \in Byte
        BY <1>8 DEF Byte
      <3> QED BY <3>1
    <2>3. a[1] = n
      BY <2>1, <1>7
    <2> HIDE DEF s
    <2>4. \A i \in 1 .. Len(s) : s[i] = a[i]
      BY <2>2, <2>3
    <2>5. s = a
      BY <1>6, <2>1, <2>2, <2>4, SeqEqual
    <2> QED BY <1>6, <2>5, <1>8 DEF s, a, Buffer
  <1>9. CASE ~(n < 128)
    <2>1. n >= 128
      BY <1>9
    <2> DEFINE j == n \div 128
               x == n % 128
               d == Digits(j, 128)
               m == Marked(j)
               s == Append(m, x)
    <2>2. j \in Nat /\ x \in Digit /\ e = Append(d, x)
      BY <2>1, SmallDigits DEF e
    <2>3. d \in Seq(Digit)
      BY <2>2, SmallDigits
    <2> HIDE DEF j, x
    <2>4. Len(d) \in Nat /\ DOMAIN d = 1 .. Len(d)
      BY <2>3, LenProperties
    <2>5. m \in Seq(Byte) /\ m = [i \in DOMAIN d |-> 128 + d[i]]
      BY <2>2, MarkedIs, Zenon DEF Marked, Buffer
    <2> HIDE DEF d, m
    <2>6. Len(m) = Len(d) /\ \A i \in 1 .. Len(d) : m[i] = 128 + d[i]
      BY <2>4, <2>5
    <2>7. Len(e) = Len(d) + 1 /\ e[Len(d) + 1] = x /\ \A i \in 1 .. Len(d) : e[i] = d[i]
      BY <2>2, <2>3, AppendProperties
    <2>8. /\ s \in Seq(Byte) /\ Len(s) = Len(m) + 1 /\ s[Len(m) + 1] = x
          /\ \A i \in 1 .. Len(m) : s[i] = m[i]
      <3>1. x \in Byte
        BY <2>2, <1>3
      <3> QED BY <3>1, <2>5, AppendProperties
    <2> HIDE DEF s
    <2>9. Len(s) = Len(a)
      BY <1>6, <2>6, <2>7, <2>8
    <2>10. \A i \in 1 .. Len(s) : s[i] = a[i]
      <3> SUFFICES ASSUME NEW i \in 1 .. Len(s) PROVE s[i] = a[i]
        OBVIOUS
      <3>1. CASE i \in 1 .. Len(d)
        <4>1. i \in 1 .. Len(m) /\ i \in 1 .. Len(e) /\ i < Len(e)
          BY <3>1, <2>4, <2>6, <2>7
        <4> QED BY <4>1, <3>1, <1>7, <2>6, <2>7, <2>8
      <3>2. CASE i = Len(d) + 1
        <4>1. i = Len(m) + 1 /\ i \in 1 .. Len(e) /\ ~(i < Len(e))
          BY <3>2, <2>4, <2>6, <2>7
        <4> QED BY <4>1, <3>2, <1>7, <2>7, <2>8
      <3> QED BY <3>1, <3>2, <2>4, <2>6, <2>8
    <2>11. s = a
      BY <1>6, <2>8, <2>9, <2>10, SeqEqual
    <2>12. a = Append(Marked(n \div 128), n % 128)
      BY <2>11, Zenon DEF s, m, j, x
    <2> QED BY <1>6, <2>12, <1>9, Zenon DEF Buffer, a
  <1> QED BY <1>8, <1>9, Zenon

\* A byte more at the end.
LEMMA AppendJoin ==
  ASSUME NEW a \in Buffer, NEW x \in Byte, NEW rest \in Buffer
  PROVE  Append(a, x) \o rest = a \o (<<x>> \o rest) /\ <<x>> \o rest \in Buffer /\ <<x>> \in Buffer
  <1>1. a \in Seq(Byte) /\ rest \in Seq(Byte) /\ <<x>> \in Seq(Byte)
    BY DEF Buffer
  <1>2. Append(a, x) = a \o <<x>>
    BY <1>1, AppendIsConcat
  <1> DEFINE s == <<x>>
  <1>3. Append(a, x) = a \o s /\ s \in Seq(Byte)
    BY <1>1, <1>2
  <1> HIDE DEF s
  <1>4. (a \o s) \o rest = a \o (s \o rest)
    BY <1>1, <1>3, ConcatAssociative
  <1>5. s \o rest \in Seq(Byte)
    BY <1>1, <1>3, ConcatProperties
  <1> QED BY <1>1, <1>3, <1>4, <1>5, Zenon DEF s, Buffer

\* What has been read of an arc with a byte more, one that is marked and one
\* that is not.
Going(acc, x) == acc * 128 + x - 128
Done(acc, x) == acc * 128 + x

\* What a reader makes of a byte of an identifier.
LEMMA ByteReads ==
  ASSUME NEW x \in Byte, NEW rest \in Buffer, NEW acc \in Nat
  PROVE  ArcsIn[<<<<x>> \o rest, acc>>] =
           IF x >= 128 THEN ArcsIn[<<rest, Going(acc, x)>>]
           ELSE <<Done(acc, x)>> \o ArcsIn[<<rest, 0>>]
  <1> DEFINE s == <<x>>
             b == s \o rest
  <1>1. s \in Seq(Byte) /\ Len(s) = 1 /\ s[1] = x /\ rest \in Seq(Byte)
    BY DEF Buffer
  <1> HIDE DEF s
  <1>2. /\ b \in Seq(Byte) /\ Len(b) = Len(s) + Len(rest)
        /\ \A i \in 1 .. Len(s) : b[i] = s[i]
        /\ \A i \in 1 .. Len(rest) : b[Len(s) + i] = rest[i]
    <2>1. s \in Seq(Byte) /\ rest \in Seq(Byte)
      BY <1>1, Zenon
    <2> QED BY <2>1, Joined
  <1>3. 1 \in 1 .. Len(s) /\ Len(rest) \in Nat
    BY <1>1, LenProperties
  <1> HIDE DEF b
  <1>4. b[1] = x /\ b # <<>>
    BY <1>1, <1>2, <1>3
  <1>5. /\ Tail(b) \in Seq(Byte) /\ Len(Tail(b)) = Len(b) - 1
        /\ \A i \in 1 .. Len(Tail(b)) : Tail(b)[i] = b[i + 1]
    BY <1>2, <1>4, HeadTailProperties
  <1> DEFINE t == Tail(b)
  <1>6. t \in Seq(Byte) /\ Len(t) = Len(rest) /\ \A i \in 1 .. Len(t) : t[i] = b[i + 1]
    BY <1>1, <1>2, <1>3, <1>5
  <1> HIDE DEF t
  <1>7. \A i \in 1 .. Len(t) : t[i] = rest[i]
    <2> SUFFICES ASSUME NEW i \in 1 .. Len(t) PROVE t[i] = rest[i]
      OBVIOUS
    <2>1. Len(s) + i = i + 1 /\ i \in 1 .. Len(rest)
      BY <1>1, <1>6, <1>3
    <2> QED BY <2>1, <1>2, <1>6
  <1>8. t = rest
    BY <1>1, <1>6, <1>7, SeqEqual
  <1>9. Tail(b) = rest
    BY <1>8, Zenon DEF t
  <1> DEFINE p == <<b, acc>>
  <1>10. p \in Buffer \X Nat /\ p[1] = b /\ p[2] = acc
    BY <1>2 DEF Buffer
  <1> HIDE DEF p
  <1>11. ArcsIn[p] = IF p[1] = <<>> THEN <<>>
                     ELSE IF p[1][1] >= 128 THEN ArcsIn[<<Tail(p[1]), p[2] * 128 + p[1][1] - 128>>]
                     ELSE <<p[2] * 128 + p[1][1]>> \o ArcsIn[<<Tail(p[1]), 0>>]
    BY <1>10, ArcsInIs, Zenon
  <1>12. ArcsIn[p] = IF x >= 128 THEN ArcsIn[<<rest, acc * 128 + x - 128>>]
                     ELSE <<acc * 128 + x>> \o ArcsIn[<<rest, 0>>]
    BY <1>4, <1>9, <1>10, <1>11, Zenon
  <1>13. ArcsIn[p] = ArcsIn[<<<<x>> \o rest, acc>>]
    BY Zenon DEF p, b, s
  <1> QED BY <1>12, <1>13, Zenon DEF Going, Done

\* A byte that is marked, and one that is not.
LEMMA MarkedByte ==
  ASSUME NEW x \in Byte, NEW rest \in Buffer, NEW acc \in Nat, NEW sum,
         x >= 128, sum = Going(acc, x)
  PROVE  ArcsIn[<<<<x>> \o rest, acc>>] = ArcsIn[<<rest, sum>>]
  <1>1. ArcsIn[<<<<x>> \o rest, acc>>] =
          IF x >= 128 THEN ArcsIn[<<rest, Going(acc, x)>>]
          ELSE <<Done(acc, x)>> \o ArcsIn[<<rest, 0>>]
    BY ByteReads
  <1> QED BY <1>1, Zenon

\* A byte that is not marked ends the arc.
LEMMA LastByte ==
  ASSUME NEW x \in Byte, NEW rest \in Buffer, NEW acc \in Nat, NEW sum,
         x < 128, sum = Done(acc, x)
  PROVE  ArcsIn[<<<<x>> \o rest, acc>>] = <<sum>> \o ArcsIn[<<rest, 0>>]
  <1>1. ArcsIn[<<<<x>> \o rest, acc>>] =
          IF x >= 128 THEN ArcsIn[<<rest, Going(acc, x)>>]
          ELSE <<Done(acc, x)>> \o ArcsIn[<<rest, 0>>]
    BY ByteReads
  <1>2. ~(x >= 128)
    BY DEF Byte
  <1> QED BY <1>1, <1>2, Zenon

\* Marked digits are the beginning of an arc.
LEMMA MarkedReads ==
  ASSUME NEW n \in Nat, NEW r \in Buffer
  PROVE  ArcsIn[<<Marked(n) \o r, 0>>] = ArcsIn[<<r, n>>]
  <1> DEFINE Claim(k) == \A rest \in Buffer : ArcsIn[<<Marked(k) \o rest, 0>>] = ArcsIn[<<rest, k>>]
             B == {k \in Nat : ~Claim(k)}
  <1> SUFFICES B = {}
    OBVIOUS
  <1> SUFFICES ASSUME B # {} PROVE FALSE
    OBVIOUS
  <1>1. B \in SUBSET Nat
    OBVIOUS
  <1> HIDE DEF B
  <1>2. PICK k \in B : \A j \in B : k <= j
    BY <1>1, Least
  <1>3. k \in Nat /\ ~Claim(k)
    BY DEF B
  <1>4. \A j \in Nat : j < k => Claim(j)
    <2> SUFFICES ASSUME NEW j \in Nat, j < k, ~Claim(j) PROVE FALSE
      OBVIOUS
    <2>1. j \in B
      BY Zenon DEF B
    <2> HIDE DEF Claim
    <2> QED BY <2>1, <1>2, <1>3
  <1>5. PICK rest \in Buffer : ArcsIn[<<Marked(k) \o rest, 0>>] # ArcsIn[<<rest, k>>]
    BY <1>3
  <1> HIDE DEF Claim
  <1>6. CASE k < 128
    <2> DEFINE x == 128 + k
    <2>1. x \in Byte /\ x >= 128 /\ k = Going(0, x) /\ 0 \in Nat
      BY <1>3, <1>6 DEF Byte, Going
    <2>2. Marked(k) = <<x>>
      BY <1>3, <1>6, MarkedIs, Zenon
    <2> HIDE DEF x
    <2>3. ArcsIn[<<<<x>> \o rest, 0>>] = ArcsIn[<<rest, k>>]
      <3> QED BY <2>1, MarkedByte
    <2> QED BY <2>1, <2>2, <2>3, <1>5, Zenon
  <1>7. CASE ~(k < 128)
    <2>1. k >= 128
      BY <1>3, <1>7
    <2> DEFINE j == k \div 128
               x == 128 + (k % 128)
               more == <<x>> \o rest
    <2>2. j \in Nat /\ j < k /\ x \in Byte /\ x >= 128 /\ k = Going(j, x)
      <3>1. k \div 128 \in Nat /\ k % 128 \in Digit /\ k = 128 * (k \div 128) + (k % 128) /\ k \div 128 < k
        BY <1>3, <2>1, SmallDigits, Zenon
      <3> QED BY <3>1 DEF Digit, Byte, Going
    <2>3. Marked(k) = Append(Marked(j), x) /\ Marked(j) \in Buffer
      BY <1>3, <2>1, <2>2, MarkedIs, Zenon
    <2> HIDE DEF j, x
    <2>4. Marked(k) \o rest = Marked(j) \o more /\ more \in Buffer
      <3>1. Marked(j) \in Buffer /\ x \in Byte
        BY <2>2, <2>3
      <3>2. Append(Marked(j), x) \o rest = Marked(j) \o more /\ more \in Buffer
        BY <3>1, AppendJoin
      <3> HIDE DEF more
      <3> QED BY <2>3, <3>2, Zenon
    <2>5. ArcsIn[<<Marked(j) \o more, 0>>] = ArcsIn[<<more, j>>]
      BY <2>2, <2>4, <1>4, Zenon DEF Claim
    <2>6. ArcsIn[<<more, j>>] = ArcsIn[<<rest, k>>]
      BY <2>2, MarkedByte
    <2> QED BY <2>2, <2>4, <2>5, <2>6, <1>5, Zenon
  <1> QED BY <1>6, <1>7

\* A reader finds one arc and goes on after it.
LEMMA ArcReads ==
  ASSUME NEW n \in Nat, NEW rest \in Buffer
  PROVE  ArcsIn[<<Arc(n) \o rest, 0>>] = <<n>> \o ArcsIn[<<rest, 0>>]
  <1>1. CASE n < 128
    <2>1. n \in Byte /\ n = Done(0, n) /\ 0 \in Nat
      BY <1>1 DEF Byte, Done
    <2>2. Arc(n) = <<n>>
      BY <1>1, ArcIs, Zenon
    <2>3. ArcsIn[<<<<n>> \o rest, 0>>] = <<n>> \o ArcsIn[<<rest, 0>>]
      BY <2>1, <1>1, LastByte, Zenon
    <2> QED BY <2>1, <2>2, <2>3, Zenon
  <1>2. CASE ~(n < 128)
    <2>1. n >= 128
      BY <1>2
    <2> DEFINE j == n \div 128
               x == n % 128
               more == <<x>> \o rest
    <2>2. j \in Nat /\ x \in Byte /\ x < 128 /\ n = Done(j, x)
      <3>1. n \div 128 \in Nat /\ n % 128 \in Digit /\ n = 128 * (n \div 128) + (n % 128)
        BY <2>1, SmallDigits, Zenon
      <3> QED BY <3>1 DEF Digit, Byte, Done
    <2>3. Arc(n) = Append(Marked(j), x) /\ Marked(j) \in Buffer
      BY <2>1, <2>2, MarkedIs, ArcIs, Zenon
    <2> HIDE DEF j, x
    <2>4. Arc(n) \o rest = Marked(j) \o more /\ more \in Buffer
      <3>1. Marked(j) \in Buffer /\ x \in Byte
        BY <2>2, <2>3
      <3>2. Append(Marked(j), x) \o rest = Marked(j) \o more /\ more \in Buffer
        BY <3>1, AppendJoin
      <3> HIDE DEF more
      <3> QED BY <2>3, <3>2, Zenon
    <2>5. ArcsIn[<<Marked(j) \o more, 0>>] = ArcsIn[<<more, j>>]
      BY <2>2, <2>4, MarkedReads
    <2>6. ArcsIn[<<more, j>>] = <<n>> \o ArcsIn[<<rest, 0>>]
      BY <2>2, LastByte, Zenon
    <2> QED BY <2>2, <2>4, <2>5, <2>6, Zenon
  <1> QED BY <1>1, <1>2

\* The buffers are these arcs.
ArcsEncoded(parts, arcs) ==
  /\ parts \in Seq(Buffer)
  /\ arcs \in Seq(Nat)
  /\ Len(parts) = Len(arcs)
  /\ \A i \in 1 .. Len(arcs) : parts[i] = Arc(arcs[i])

\* A reader finds the arcs that were put together.
LEMMA ArcsRead ==
  ASSUME NEW parts, NEW arcs, ArcsEncoded(parts, arcs)
  PROVE  ArcsIn[<<Concat[parts], 0>>] = arcs
  <1> DEFINE Claim(n) == \A q, u : ArcsEncoded(q, u) /\ Len(q) = n => ArcsIn[<<Concat[q], 0>>] = u
             B == {n \in Nat : ~Claim(n)}
  <1> SUFFICES B = {}
    <2>1. Len(parts) \in Nat
      BY LenProperties DEF ArcsEncoded
    <2>2. Claim(Len(parts))
      BY <2>1
    <2> QED BY <2>2
  <1> SUFFICES ASSUME B # {} PROVE FALSE
    OBVIOUS
  <1>1. B \in SUBSET Nat
    OBVIOUS
  <1> HIDE DEF B
  <1>2. PICK n \in B : \A k \in B : n <= k
    BY <1>1, Least
  <1>3. n \in Nat /\ ~Claim(n)
    BY DEF B
  <1>4. \A k \in Nat : k < n => Claim(k)
    <2> SUFFICES ASSUME NEW k \in Nat, k < n, ~Claim(k) PROVE FALSE
      OBVIOUS
    <2>1. k \in B
      BY Zenon DEF B
    <2> HIDE DEF Claim
    <2> QED BY <2>1, <1>2, <1>3
  <1>5. PICK q, u : ArcsEncoded(q, u) /\ Len(q) = n /\ ArcsIn[<<Concat[q], 0>>] # u
    BY <1>3
  <1>6. /\ q \in Seq(Buffer) /\ u \in Seq(Nat) /\ Len(q) = Len(u)
        /\ \A i \in 1 .. Len(u) : q[i] = Arc(u[i])
    BY <1>5, Zenon DEF ArcsEncoded
  <1> HIDE DEF Claim
  <1>7. CASE q = <<>>
    <2>1. Concat[q] = <<>>
      BY <1>7, ConcatIs, <1>6
    <2> DEFINE p == <<<<>>, 0>>
    <2>2. p \in Buffer \X Nat /\ p[1] = <<>>
      <3>1. <<>> \in Buffer
        BY DEF Buffer
      <3> QED BY <3>1
    <2> HIDE DEF p
    <2>3. ArcsIn[p] = <<>>
      BY <2>2, ArcsInIs
    <2>4. u = <<>>
      BY <1>6, <1>7
    <2> QED BY <2>1, <2>3, <2>4, <1>5, Zenon DEF p
  <1>8. CASE q # <<>>
    <2> DEFINE a == Tail(q)
               w == Tail(u)
    <2>1. u # <<>>
      BY <1>6, <1>8
    <2>2. /\ Head(q) = q[1] /\ q[1] \in Buffer /\ a \in Seq(Buffer) /\ Len(q) \in Nat
          /\ Len(a) = Len(q) - 1 /\ Len(a) \in Nat
          /\ \A i \in 1 .. Len(a) : a[i] = q[i + 1]
      BY <1>6, <1>8, HeadTail
    <2>3. /\ u[1] \in Nat /\ w \in Seq(Nat) /\ Len(w) = Len(u) - 1 /\ Len(w) \in Nat
          /\ \A i \in 1 .. Len(w) : w[i] = u[i + 1]
          /\ <<u[1]>> \o w = u
      BY <1>6, <2>1, HeadTail
    <2> HIDE DEF a, w
    <2>4. ArcsEncoded(a, w)
      <3>1. Len(a) = Len(w)
        BY <2>2, <2>3, <1>6
      <3>2. ASSUME NEW i \in 1 .. Len(w) PROVE a[i] = Arc(w[i])
        <4>1. i + 1 \in 1 .. Len(u) /\ i \in 1 .. Len(a)
          BY <2>3, <3>1, <1>6, <2>2
        <4>2. a[i] = q[i + 1] /\ w[i] = u[i + 1]
          BY <4>1, <2>2, <2>3
        <4>3. q[i + 1] = Arc(u[i + 1])
          BY <4>1, <1>6, Zenon
        <4> QED BY <4>2, <4>3, Zenon
      <3> QED BY <2>2, <2>3, <3>1, <3>2, Zenon DEF ArcsEncoded
    <2>5. ArcsIn[<<Concat[a], 0>>] = w
      <3>1. Len(a) \in Nat /\ Len(a) < n
        BY <2>2, <1>5, <1>3
      <3>2. Claim(Len(a))
        BY <3>1, <1>4
      <3> QED BY <3>2, <2>4 DEF Claim
    <2>6. Concat[q] = q[1] \o Concat[a] /\ Concat[a] \in Buffer
      <3>1. Concat[q] = Head(q) \o Concat[Tail(q)]
        BY <1>6, <1>8, ConcatIs, Zenon
      <3>2. Concat[a] \in Buffer
        BY <2>2, ConcatIs, Zenon
      <3> QED BY <3>1, <3>2, <2>2, Zenon DEF a
    <2>7. 1 \in 1 .. Len(u)
      BY <2>2, <2>3, <1>6
    <2>8. q[1] = Arc(u[1])
      BY <2>7, <1>6, Zenon
    <2>9. ArcsIn[<<Arc(u[1]) \o Concat[a], 0>>] = <<u[1]>> \o ArcsIn[<<Concat[a], 0>>]
      BY <2>3, <2>6, ArcReads
    <2>10. ArcsIn[<<Concat[q], 0>>] = <<u[1]>> \o w
      BY <2>5, <2>6, <2>8, <2>9, Zenon
    <2> QED BY <2>10, <2>3, <1>5, Zenon
  <1> QED BY <1>7, <1>8

\* 128^2 and 128^3.
TwoDigits == 16384
ThreeDigits == 2097152

\* An arc below 128^3 takes up to three bytes.
LEMMA ArcLength ==
  ASSUME NEW n \in Nat, n < ThreeDigits
  PROVE  Len(Arc(n)) <= 3
  <1>1. ASSUME NEW k \in Nat
        PROVE  /\ k < 128 => Len(Marked(k)) = 1
               /\ k >= 128 => Len(Marked(k)) = Len(Marked(k \div 128)) + 1
    <2>1. CASE k < 128
      <3>1. Marked(k) = <<128 + k>>
        BY <2>1, MarkedIs, Zenon
      <3> QED BY <3>1, <2>1
    <2>2. CASE k >= 128
      <3>1. k \div 128 \in Nat /\ k % 128 \in Digit
        BY <2>2, SmallDigits, Zenon
      <3>2. Marked(k) = Append(Marked(k \div 128), 128 + (k % 128)) /\ Marked(k \div 128) \in Buffer
        BY <2>2, <3>1, MarkedIs, Zenon
      <3>3. 128 + (k % 128) \in Byte
        BY <3>1 DEF Digit, Byte
      <3> DEFINE m == Marked(k \div 128)
                 x == 128 + (k % 128)
      <3>4. m \in Seq(Byte) /\ x \in Byte /\ Marked(k) = Append(m, x)
        BY <3>2, <3>3, Zenon DEF Buffer
      <3> HIDE DEF m, x
      <3>5. Len(Append(m, x)) = Len(m) + 1
        BY <3>4, AppendProperties
      <3> QED BY <3>4, <3>5, <2>2 DEF m
    <2> QED BY <2>1, <2>2
  <1>2. ASSUME NEW k \in Nat, k < TwoDigits PROVE Len(Marked(k)) <= 2 /\ Len(Marked(k)) \in Nat
    <2>0. 1 <= 2 /\ 1 \in Nat /\ 1 + 1 <= 2 /\ 1 + 1 \in Nat /\ (k < 128 \/ k >= 128)
      BY <1>2
    <2>1. CASE k < 128
      BY <2>0, <2>1, <1>1, Zenon
    <2>2. CASE k >= 128
      <3>1. k \div 128 \in Nat /\ k \div 128 < 128
        BY <2>2, <1>2 DEF TwoDigits
      <3>2. Len(Marked(k \div 128)) = 1
        BY <3>1, <1>1
      <3>3. Len(Marked(k)) = Len(Marked(k \div 128)) + 1
        BY <2>2, <1>1
      <3> QED BY <2>0, <3>2, <3>3, Zenon
    <2> QED BY <2>0, <2>1, <2>2, Zenon
  <1>3. CASE n < 128
    <2>1. Arc(n) = <<n>>
      BY <1>3, ArcIs, Zenon
    <2> QED BY <2>1
  <1>4. CASE n >= 128
    <2> DEFINE j == n \div 128
               x == n % 128
               m == Marked(j)
    <2>1. j \in Nat /\ j < TwoDigits /\ x \in Byte
      BY <1>4 DEF Byte, TwoDigits, ThreeDigits
    <2>2. Arc(n) = Append(m, x)
      BY <1>4, ArcIs, Zenon
    <2> HIDE DEF j, x
    <2>3. m \in Seq(Byte) /\ Len(m) <= 2 /\ Len(m) \in Nat
      BY <2>1, <1>2, MarkedIs DEF Buffer
    <2> HIDE DEF m
    <2>4. Len(Append(m, x)) = Len(m) + 1
      BY <2>1, <2>3, AppendProperties
    <2> QED BY <2>2, <2>3, <2>4
  <1> QED BY <1>3, <1>4

\* An object identifier whose first two arcs fit into a byte, and the others in
\* three.
Identifier(arcs) ==
  /\ arcs \in Seq(Nat)
  /\ Len(arcs) \in 2 .. 20
  /\ arcs[1] <= 2
  /\ arcs[2] < 40
  /\ \A i \in 1 .. Len(arcs) : arcs[i] < ThreeDigits

\* What its encoding contains.
OidContent(arcs) ==
  <<40 * arcs[1] + arcs[2]>> \o Concat[[i \in 1 .. Len(arcs) - 2 |-> Arc(arcs[i + 2])]]

\* A reader finds the arcs of an identifier.
LEMMA OidReads ==
  ASSUME NEW arcs, Identifier(arcs)
  PROVE  /\ Oid(arcs) = Tagged(6, OidContent(arcs))
         /\ OidContent(arcs) \in Buffer
         /\ Len(OidContent(arcs)) <= 100
         /\ Arcs(OidContent(arcs)) = arcs
  <1>1. /\ arcs \in Seq(Nat) /\ Len(arcs) \in 2 .. 20 /\ arcs[1] <= 2 /\ arcs[2] < 40
        /\ \A i \in 1 .. Len(arcs) : arcs[i] < ThreeDigits
    BY Zenon DEF Identifier
  <1> DEFINE n == Len(arcs) - 2
             parts == [i \in 1 .. n |-> Arc(arcs[i + 2])]
             others == [i \in 1 .. n |-> arcs[i + 2]]
             x == 40 * arcs[1] + arcs[2]
             more == Concat[parts]
             h == <<x>>
  <1>2. n \in 0 .. 18 /\ \A i \in 1 .. n : i + 2 \in 1 .. Len(arcs)
    BY <1>1
  <1>3. Oid(arcs) = Tagged(6, OidContent(arcs)) /\ OidContent(arcs) = h \o more
    BY Zenon DEF Oid, OidContent
  <1>4. /\ x \in Byte /\ x \div 40 = arcs[1] /\ x % 40 = arcs[2]
        /\ arcs[1] \in Nat /\ arcs[2] \in Nat
    <2>1. arcs[1] \in Nat /\ arcs[2] \in Nat
      BY <1>1
    <2> DEFINE y == arcs[1]
               z == arcs[2]
    <2>2. y \in Nat /\ z \in Nat /\ y <= 2 /\ z < 40
      BY <2>1, <1>1
    <2> HIDE DEF y, z
    <2>3. 40 * y + z \in Byte /\ (40 * y + z) \div 40 = y /\ (40 * y + z) % 40 = z
      BY <2>2 DEF Byte
    <2> QED BY <2>1, <2>3 DEF y, z
  <1> HIDE DEF x, n
  <1>5. \A i \in 1 .. n : arcs[i + 2] \in Nat /\ arcs[i + 2] < ThreeDigits
    BY <1>1, <1>2, ElementOfSeq
  <1>6. others \in [1 .. n -> Nat] /\ parts \in [1 .. n -> Buffer]
    <2>1. \A i \in 1 .. n : Arc(arcs[i + 2]) \in Buffer
      BY <1>5, ArcIs, Zenon
    <2> QED BY <1>5, <2>1, Zenon
  <1>7. n \in Nat
    BY <1>2
  <1> HIDE DEF others, parts
  <1>8. others \in Seq(Nat) /\ Len(others) = n
    BY <1>6, <1>7, Tabled
  <1>9. parts \in Seq(Buffer) /\ Len(parts) = n
    BY <1>6, <1>7, Tabled
  <1>10. \A i \in 1 .. n : others[i] = arcs[i + 2] /\ parts[i] = Arc(arcs[i + 2])
    BY Zenon DEF others, parts
  <1>11. ArcsEncoded(parts, others)
    BY <1>8, <1>9, <1>10, Zenon DEF ArcsEncoded
  <1>12. ArcsIn[<<more, 0>>] = others
    BY <1>11, ArcsRead, Zenon
  <1>13. more \in Buffer /\ Len(more) <= 60
    <2>1. \A i \in 1 .. Len(parts) : Len(parts[i]) <= 3
      BY <1>5, <1>9, <1>10, ArcLength, Zenon
    <2>2. more \in Buffer /\ Len(more) <= Len(parts) * 3
      <3>1. 3 \in Nat
        OBVIOUS
      <3> QED BY <3>1, <2>1, <1>9, ConcatLength, Zenon
    <2> HIDE DEF more
    <2>3. Len(more) \in Nat
      BY <2>2, LenProperties DEF Buffer
    <2> QED BY <2>2, <2>3, <1>2, <1>9
  <1> HIDE DEF more
  <1>14. h \in Seq(Byte) /\ Len(h) = 1 /\ h[1] = x /\ more \in Seq(Byte) /\ Len(more) \in Nat
    BY <1>4, <1>13, LenProperties DEF Buffer
  <1> DEFINE c == h \o more
  <1> HIDE DEF h
  <1>15. /\ c \in Seq(Byte) /\ Len(c) = Len(h) + Len(more)
         /\ \A i \in 1 .. Len(h) : c[i] = h[i]
         /\ \A i \in 1 .. Len(more) : c[Len(h) + i] = more[i]
    <2>1. h \in Seq(Byte) /\ more \in Seq(Byte)
      BY <1>14, Zenon
    <2> QED BY <2>1, Joined
  <1> HIDE DEF c
  <1>16. c[1] = x /\ c # <<>> /\ Len(c) <= 100
    <2>1. 1 \in 1 .. Len(h)
      BY <1>14
    <2> QED BY <2>1, <1>13, <1>14, <1>15
  <1>17. /\ Tail(c) \in Seq(Byte) /\ Len(Tail(c)) = Len(c) - 1
         /\ \A i \in 1 .. Len(Tail(c)) : Tail(c)[i] = c[i + 1]
    BY <1>15, <1>16, HeadTailProperties
  <1>18. Tail(c) = more
    <2> DEFINE t == Tail(c)
    <2>1. t \in Seq(Byte) /\ Len(t) = Len(more) /\ \A i \in 1 .. Len(t) : t[i] = c[i + 1]
      BY <1>14, <1>15, <1>17
    <2> HIDE DEF t
    <2>2. \A i \in 1 .. Len(t) : t[i] = more[i]
      <3> SUFFICES ASSUME NEW i \in 1 .. Len(t) PROVE t[i] = more[i]
        OBVIOUS
      <3>1. Len(h) + i = i + 1 /\ i \in 1 .. Len(more)
        BY <1>14, <2>1
      <3> QED BY <3>1, <1>15, <2>1
    <2>3. t = more
      BY <1>14, <2>1, <2>2, SeqEqual
    <2> QED BY <2>3, Zenon DEF t
  <1>19. Arcs(c) = <<arcs[1], arcs[2]>> \o others
    BY <1>4, <1>12, <1>16, <1>18, Zenon DEF Arcs
  <1> DEFINE p == <<arcs[1], arcs[2]>>
  <1>20. p \in Seq(Nat) /\ Len(p) = 2 /\ p[1] = arcs[1] /\ p[2] = arcs[2]
    BY <1>4
  <1>21. Arcs(c) = p \o others
    BY <1>19
  <1> HIDE DEF p
  <1>22. /\ p \o others \in Seq(Nat) /\ Len(p \o others) = Len(p) + Len(others)
         /\ \A i \in 1 .. Len(p) : (p \o others)[i] = p[i]
         /\ \A i \in 1 .. Len(others) : (p \o others)[Len(p) + i] = others[i]
    <2>1. p \in Seq(Nat) /\ others \in Seq(Nat)
      BY <1>8, <1>20, Zenon
    <2> QED BY <2>1, Joined
  <1> DEFINE s == p \o others
  <1>23. s \in Seq(Nat) /\ Len(s) = Len(arcs)
    BY <1>1, <1>8, <1>20, <1>22 DEF n
  <1>24. \A i \in 1 .. Len(s) : s[i] = arcs[i]
    <2> SUFFICES ASSUME NEW i \in 1 .. Len(s) PROVE s[i] = arcs[i]
      OBVIOUS
    <2>1. CASE i \in 1 .. 2
      <3>1. i \in 1 .. Len(p)
        BY <2>1, <1>20
      <3>2. s[i] = p[i]
        BY <3>1, <1>22
      <3> QED BY <3>2, <2>1, <1>20
    <2>2. CASE i \notin 1 .. 2
      <3>1. i - 2 \in 1 .. n /\ i - 2 \in 1 .. Len(others) /\ Len(p) + (i - 2) = i /\ (i - 2) + 2 = i
        BY <2>2, <1>1, <1>8, <1>20, <1>23 DEF n
      <3>2. s[Len(p) + (i - 2)] = others[i - 2]
        BY <3>1, <1>22
      <3>3. others[i - 2] = arcs[(i - 2) + 2]
        BY <3>1, <1>10
      <3> QED BY <3>1, <3>2, <3>3
    <2> QED BY <2>1, <2>2
  <1> HIDE DEF s
  <1>25. s = arcs
    BY <1>1, <1>23, <1>24, SeqEqual
  <1>26. Arcs(c) = arcs
    BY <1>21, <1>25 DEF s
  <1>27. OidContent(arcs) = c
    BY <1>3, Zenon DEF c
  <1> QED BY <1>3, <1>15, <1>16, <1>26, <1>27, Zenon DEF Buffer

-----------------------------------------------------------------------------
(* Parts of which there are known ones *)

\* One part on its own.
LEMMA OneReads ==
  ASSUME NEW tag \in Byte, NEW content \in Buffer, Len(content) < Limit
  PROVE  /\ Tagged(tag, content) \in Buffer
         /\ Len(Tagged(tag, content)) \in Nat
         /\ Len(Tagged(tag, content)) <= Len(content) + 5
         /\ Parts[Tagged(tag, content)] = <<[tag |-> tag, content |-> content]>>
         /\ Inside(Tagged(tag, content), 1) = content
  <1> DEFINE t == Tagged(tag, content)
             item == [tag |-> tag, content |-> content]
  <1>1. <<>> \in Buffer
    BY DEF Buffer
  <1>2. t \in Buffer /\ Len(t) = 1 + Len(EncodeLength(Len(content))) + Len(content)
    BY <1>1, TaggedIs, Zenon
  <1>3. Len(content) \in Nat
    BY LenProperties DEF Buffer
  <1>4. Len(EncodeLength(Len(content))) \in 1 .. 4
    BY <1>3, LengthIs
  <1>5. Parts[t \o <<>>] = <<item>> \o Parts[<<>>]
    BY <1>1, TaggedReads, Zenon
  <1>6. Parts[<<>>] = <<>>
    BY <1>1, PartsIs
  <1>7. item \in Part /\ item.content = content
    BY DEF Part
  <1> HIDE DEF t, item
  <1>8. t \o <<>> = t
    BY <1>2, ConcatEmptySeq DEF Buffer
  <1>9. <<item>> \o <<>> = <<item>>
    <2>1. <<item>> \in Seq(Part)
      BY <1>7
    <2> QED BY <2>1, ConcatEmptySeq
  <1>10. Parts[t] = <<item>>
    BY <1>5, <1>6, <1>8, <1>9
  <1>11. Inside(t, 1) = content
    <2>1. Len(Parts[t]) = 1 /\ Parts[t][1] = item
      BY <1>10
    <2> QED BY <2>1, <1>7 DEF Inside
  <1>12. Len(t) \in Nat /\ Len(t) <= Len(content) + 5
    <2> DEFINE l == Len(EncodeLength(Len(content)))
               n == Len(content)
               u == Len(t)
    <2>1. l \in 1 .. 4 /\ n \in Nat /\ u = 1 + l + n
      BY <1>2, <1>3, <1>4, Zenon
    <2> HIDE DEF l, n, u
    <2>2. u \in Nat /\ u <= n + 5
      BY <2>1
    <2> QED BY <2>2, Zenon DEF u, n
  <1> QED BY <1>2, <1>10, <1>11, <1>12, Zenon DEF t, item

\* A reader finds in a SEQUENCE the items that were put into it, each at its
\* position.
LEMMA SequenceReads ==
  ASSUME NEW parts, NEW items, Encodes(parts, items), NEW m \in Nat,
         \A i \in 1 .. Len(items) : Len(items[i].content) <= m
  PROVE  /\ Concat[parts] \in Buffer
         /\ Len(Concat[parts]) \in Nat
         /\ Len(Concat[parts]) <= Len(items) * (m + 5)
         /\ Parts[Concat[parts]] = items
         /\ \A k \in 1 .. Len(items) : Inside(Concat[parts], k) = items[k].content
  <1>1. /\ parts \in Seq(Buffer) /\ items \in Seq(Part) /\ Len(parts) = Len(items)
        /\ \A i \in 1 .. Len(items) :
             Len(items[i].content) < Limit /\ parts[i] = Tagged(items[i].tag, items[i].content)
    BY Zenon DEF Encodes
  <1>2. Parts[Concat[parts]] = items
    BY EncodedReads, Zenon
  <1>3. \A i \in 1 .. Len(parts) : Len(parts[i]) <= m + 5
    <2> SUFFICES ASSUME NEW i \in 1 .. Len(parts) PROVE Len(parts[i]) <= m + 5
      OBVIOUS
    <2>1. i \in 1 .. Len(items)
      BY <1>1
    <2>2. items[i] \in Part
      BY <2>1, <1>1, ElementOfSeq
    <2> DEFINE t == items[i].tag
               c == items[i].content
    <2>3. t \in Byte /\ c \in Buffer /\ Len(c) < Limit /\ parts[i] = Tagged(t, c) /\ Len(c) <= m
      BY <2>1, <2>2, <1>1 DEF Part
    <2> HIDE DEF t, c
    <2>4. Len(parts[i]) \in Nat /\ Len(parts[i]) <= Len(c) + 5
      BY <2>3, OneReads
    <2>5. Len(c) \in Nat
      BY <2>3, LenProperties DEF Buffer
    <2> QED BY <2>3, <2>4, <2>5
  <1>4. Concat[parts] \in Buffer /\ Len(Concat[parts]) <= Len(parts) * (m + 5)
    <2> DEFINE l == m + 5
    <2>1. l \in Nat /\ \A i \in 1 .. Len(parts) : Len(parts[i]) <= l
      BY <1>3
    <2> HIDE DEF l
    <2>2. Concat[parts] \in Buffer /\ Len(Concat[parts]) <= Len(parts) * l
      BY <1>1, <2>1, ConcatLength
    <2> QED BY <2>2 DEF l
  <1>5. Len(Concat[parts]) \in Nat
    BY <1>4, LenProperties DEF Buffer
  <1>6. ASSUME NEW k \in 1 .. Len(items) PROVE Inside(Concat[parts], k) = items[k].content
    <2>1. k <= Len(Parts[Concat[parts]])
      <3>1. k <= Len(items)
        BY <1>1
      <3> QED BY <3>1, <1>2, Zenon
    <2> QED BY <2>1, <1>2, Zenon DEF Inside
  <1> QED BY <1>1, <1>2, <1>4, <1>5, <1>6

\* A part as a reader has it.
Item(tag, content) == [tag |-> tag, content |-> content]

\* What may be tagged.
Fit(tag, content, m) == tag \in Byte /\ content \in Buffer /\ Len(content) <= m

\* Nothing in it.
LEMMA NoneIn ==
  Concat[<<>>] = <<>> /\ <<>> \in Buffer /\ Len(<<>>) = 0
  <1>1. <<>> \in Seq(Buffer) /\ <<>> \in Buffer /\ Len(<<>>) = 0
    BY DEF Buffer
  <1> QED BY <1>1, ConcatIs

\* n parts whose contents are at most m long are together at most this long.
Room(n, m, most) == m \in Nat /\ m < Limit /\ most \in Nat /\ n * (m + 5) <= most

\* A part in a longer one.
LEMMA FitTagged ==
  ASSUME NEW m, NEW most, Room(1, m, most), NEW t, NEW c, Fit(t, c, m)
  PROVE  /\ \A u \in Byte : Fit(u, Tagged(t, c), most)
         /\ Inside(Tagged(t, c), 1) = c
  <1>1. t \in Byte /\ c \in Buffer /\ Len(c) <= m
    BY DEF Fit
  <1>2. m \in Nat /\ m < Limit /\ most \in Nat /\ m + 5 <= most
    BY DEF Room
  <1>3. Len(c) \in Nat
    BY <1>1, LenProperties DEF Buffer
  <1>4. Len(c) < Limit
    BY <1>1, <1>2, <1>3 DEF Limit
  <1>5. /\ Tagged(t, c) \in Buffer
        /\ Len(Tagged(t, c)) \in Nat
        /\ Len(Tagged(t, c)) <= Len(c) + 5
        /\ Inside(Tagged(t, c), 1) = c
    BY <1>1, <1>4, OneReads
  <1>6. Len(Tagged(t, c)) <= most
    BY <1>1, <1>2, <1>3, <1>5
  <1> QED BY <1>5, <1>6, Zenon DEF Fit

\* What fits into less fits into more.
LEMMA FitMore ==
  ASSUME NEW m \in Nat, NEW most \in Nat, m <= most, NEW t, NEW c, Fit(t, c, m)
  PROVE  Fit(t, c, most)
  <1>1. t \in Byte /\ c \in Buffer /\ Len(c) <= m
    BY DEF Fit
  <1>2. Len(c) \in Nat
    BY <1>1, LenProperties DEF Buffer
  <1>3. Len(c) <= most
    BY <1>1, <1>2
  <1> QED BY <1>1, <1>3, Zenon DEF Fit

\* What is known of an item that fits.
Ready(tag, content, m) ==
  /\ Tagged(tag, content) \in Buffer
  /\ Item(tag, content) \in Part
  /\ Len(content) <= m
  /\ Len(content) < Limit
  /\ Tagged(tag, content) = Tagged(Item(tag, content).tag, content)
  /\ Item(tag, content).content = content

\* An item that fits can be encoded.
LEMMA FitItem ==
  ASSUME NEW m \in Nat, m < Limit, NEW t, NEW c, Fit(t, c, m)
  PROVE  Ready(t, c, m)
  <1>1. t \in Byte /\ c \in Buffer /\ Len(c) <= m
    BY DEF Fit
  <1>2. Len(c) \in Nat
    BY <1>1, LenProperties DEF Buffer
  <1>3. Len(c) < Limit
    BY <1>1, <1>2 DEF Limit
  <1>4. Item(t, c) \in Part /\ Item(t, c).tag = t /\ Item(t, c).content = c
    BY <1>1 DEF Item, Part
  <1>5. Tagged(t, c) \in Buffer
    BY <1>1, <1>3, OneReads
  <1> QED BY <1>1, <1>3, <1>4, <1>5, Zenon DEF Ready

\* A reader finds the parts of which there are known ones: one,
LEMMA OneIn ==
  ASSUME NEW m, NEW most, Room(1, m, most),
         NEW t1, NEW c1, Fit(t1, c1, m),
         NEW c, c = Concat[<<Tagged(t1, c1)>>]
  PROVE  /\ \A t \in Byte : Fit(t, c, most)
         /\ Parts[c] = <<Item(t1, c1)>>
         /\ Inside(c, 1) = c1
  <1> DEFINE parts == <<Tagged(t1, c1)>>
             items == <<Item(t1, c1)>>
  <1>1. Ready(t1, c1, m)
    BY FitItem, Zenon DEF Room
  <1>2. Item(t1, c1).content = c1
    BY <1>1, Zenon DEF Ready
  <1>3. parts \in Seq(Buffer) /\ Len(parts) = 1 /\ parts[1] = Tagged(t1, c1)
    <2>1. Tagged(t1, c1) \in Buffer
      BY <1>1, Zenon DEF Ready
    <2> QED BY <2>1
  <1>4. items \in Seq(Part) /\ Len(items) = 1 /\ items[1] = Item(t1, c1)
    <2>1. Item(t1, c1) \in Part
      BY <1>1, Zenon DEF Ready
    <2> QED BY <2>1
  <1> HIDE DEF parts, items
  <1> DEFINE Good(i) == /\ Len(items[i].content) <= m
                        /\ Len(items[i].content) < Limit
                        /\ parts[i] = Tagged(items[i].tag, items[i].content)
  <1>5. Good(1)
    <2>1. Good(1)
      BY <1>1, <1>2, <1>3, <1>4, Zenon DEF Ready
    <2> QED BY <2>1, Zenon
  <1>6. ASSUME NEW i \in 1 .. Len(items)
        PROVE  Good(i)
    <2>1. i = 1
      BY <1>4
    <2> QED BY <2>1, <1>5, Zenon
  <1>7. Encodes(parts, items)
    BY <1>3, <1>4, <1>6, Zenon DEF Encodes
  <1>8. /\ Concat[parts] \in Buffer /\ Len(Concat[parts]) \in Nat
        /\ Len(Concat[parts]) <= Len(items) * (m + 5)
        /\ Parts[Concat[parts]] = items
        /\ \A k \in 1 .. Len(items) : Inside(Concat[parts], k) = items[k].content
    BY <1>6, <1>7, SequenceReads DEF Room
  <1>9. Len(Concat[parts]) <= 1 * (m + 5)
    BY <1>4, <1>8 DEF Room
  <1>10. Inside(Concat[parts], 1) = c1
    <2>1. Inside(Concat[parts], 1) = c1
      <3>1. 1 \in 1 .. Len(items)
        BY <1>4
      <3>2. items[1].content = c1
        BY <1>2, <1>4, Zenon
      <3> QED BY <3>1, <3>2, <1>8, Zenon
    <2> QED BY <2>1, Zenon
  <1>11. \A t \in Byte : Fit(t, Concat[parts], most)
    <2>1. m \in Nat /\ most \in Nat /\ 1 * (m + 5) <= most
      BY DEF Room
    <2>2. Len(Concat[parts]) <= most
      BY <1>8, <1>9, <2>1
    <2> QED BY <1>8, <2>2, Zenon DEF Fit
  <1>12. c = Concat[parts]
    BY Zenon DEF parts
  <1>13. Parts[Concat[parts]] = items
    BY <1>8, Zenon
  <1> QED BY <1>10, <1>11, <1>12, <1>13, Zenon DEF items

\* two,
LEMMA TwoIn ==
  ASSUME NEW m, NEW most, Room(2, m, most),
         NEW t1, NEW c1, Fit(t1, c1, m),
         NEW t2, NEW c2, Fit(t2, c2, m),
         NEW c, c = Concat[<<Tagged(t1, c1), Tagged(t2, c2)>>]
  PROVE  /\ \A t \in Byte : Fit(t, c, most)
         /\ Parts[c] = <<Item(t1, c1), Item(t2, c2)>>
         /\ Inside(c, 1) = c1 /\ Inside(c, 2) = c2
  <1> DEFINE parts == <<Tagged(t1, c1), Tagged(t2, c2)>>
             items == <<Item(t1, c1), Item(t2, c2)>>
  <1>1. Ready(t1, c1, m) /\ Ready(t2, c2, m)
    BY FitItem, Zenon DEF Room
  <1>2. Item(t1, c1).content = c1 /\ Item(t2, c2).content = c2
    BY <1>1, Zenon DEF Ready
  <1>3. parts \in Seq(Buffer) /\ Len(parts) = 2 /\ parts[1] = Tagged(t1, c1) /\
        parts[2] = Tagged(t2, c2)
    <2>1. Tagged(t1, c1) \in Buffer /\ Tagged(t2, c2) \in Buffer
      BY <1>1, Zenon DEF Ready
    <2> QED BY <2>1
  <1>4. items \in Seq(Part) /\ Len(items) = 2 /\ items[1] = Item(t1, c1) /\
        items[2] = Item(t2, c2)
    <2>1. Item(t1, c1) \in Part /\ Item(t2, c2) \in Part
      BY <1>1, Zenon DEF Ready
    <2> QED BY <2>1
  <1> HIDE DEF parts, items
  <1> DEFINE Good(i) == /\ Len(items[i].content) <= m
                        /\ Len(items[i].content) < Limit
                        /\ parts[i] = Tagged(items[i].tag, items[i].content)
  <1>5. Good(1) /\ Good(2)
    <2>1. Good(1)
      BY <1>1, <1>2, <1>3, <1>4, Zenon DEF Ready
    <2>2. Good(2)
      BY <1>1, <1>2, <1>3, <1>4, Zenon DEF Ready
    <2> QED BY <2>1, <2>2, Zenon
  <1>6. ASSUME NEW i \in 1 .. Len(items)
        PROVE  Good(i)
    <2>1. i = 1 \/ i = 2
      BY <1>4
    <2> QED BY <2>1, <1>5, Zenon
  <1>7. Encodes(parts, items)
    BY <1>3, <1>4, <1>6, Zenon DEF Encodes
  <1>8. /\ Concat[parts] \in Buffer /\ Len(Concat[parts]) \in Nat
        /\ Len(Concat[parts]) <= Len(items) * (m + 5)
        /\ Parts[Concat[parts]] = items
        /\ \A k \in 1 .. Len(items) : Inside(Concat[parts], k) = items[k].content
    BY <1>6, <1>7, SequenceReads DEF Room
  <1>9. Len(Concat[parts]) <= 2 * (m + 5)
    BY <1>4, <1>8 DEF Room
  <1>10. Inside(Concat[parts], 1) = c1 /\ Inside(Concat[parts], 2) = c2
    <2>1. Inside(Concat[parts], 1) = c1
      <3>1. 1 \in 1 .. Len(items)
        BY <1>4
      <3>2. items[1].content = c1
        BY <1>2, <1>4, Zenon
      <3> QED BY <3>1, <3>2, <1>8, Zenon
    <2>2. Inside(Concat[parts], 2) = c2
      <3>1. 2 \in 1 .. Len(items)
        BY <1>4
      <3>2. items[2].content = c2
        BY <1>2, <1>4, Zenon
      <3> QED BY <3>1, <3>2, <1>8, Zenon
    <2> QED BY <2>1, <2>2, Zenon
  <1>11. \A t \in Byte : Fit(t, Concat[parts], most)
    <2>1. m \in Nat /\ most \in Nat /\ 2 * (m + 5) <= most
      BY DEF Room
    <2>2. Len(Concat[parts]) <= most
      BY <1>8, <1>9, <2>1
    <2> QED BY <1>8, <2>2, Zenon DEF Fit
  <1>12. c = Concat[parts]
    BY Zenon DEF parts
  <1>13. Parts[Concat[parts]] = items
    BY <1>8, Zenon
  <1> QED BY <1>10, <1>11, <1>12, <1>13, Zenon DEF items

\* three,
LEMMA ThreeIn ==
  ASSUME NEW m, NEW most, Room(3, m, most),
         NEW t1, NEW c1, Fit(t1, c1, m),
         NEW t2, NEW c2, Fit(t2, c2, m),
         NEW t3, NEW c3, Fit(t3, c3, m),
         NEW c, c = Concat[<<Tagged(t1, c1), Tagged(t2, c2), Tagged(t3, c3)>>]
  PROVE  /\ \A t \in Byte : Fit(t, c, most)
         /\ Parts[c] = <<Item(t1, c1), Item(t2, c2), Item(t3, c3)>>
         /\ Inside(c, 1) = c1 /\ Inside(c, 2) = c2 /\ Inside(c, 3) = c3
  <1> DEFINE parts == <<Tagged(t1, c1), Tagged(t2, c2), Tagged(t3, c3)>>
             items == <<Item(t1, c1), Item(t2, c2), Item(t3, c3)>>
  <1>1. Ready(t1, c1, m) /\ Ready(t2, c2, m) /\ Ready(t3, c3, m)
    BY FitItem, Zenon DEF Room
  <1>2. Item(t1, c1).content = c1 /\ Item(t2, c2).content = c2 /\ Item(t3, c3).content = c3
    BY <1>1, Zenon DEF Ready
  <1>3. parts \in Seq(Buffer) /\ Len(parts) = 3 /\ parts[1] = Tagged(t1, c1) /\
        parts[2] = Tagged(t2, c2) /\ parts[3] = Tagged(t3, c3)
    <2>1. Tagged(t1, c1) \in Buffer /\ Tagged(t2, c2) \in Buffer /\ Tagged(t3, c3) \in Buffer
      BY <1>1, Zenon DEF Ready
    <2> QED BY <2>1
  <1>4. items \in Seq(Part) /\ Len(items) = 3 /\ items[1] = Item(t1, c1) /\
        items[2] = Item(t2, c2) /\ items[3] = Item(t3, c3)
    <2>1. Item(t1, c1) \in Part /\ Item(t2, c2) \in Part /\ Item(t3, c3) \in Part
      BY <1>1, Zenon DEF Ready
    <2> QED BY <2>1
  <1> HIDE DEF parts, items
  <1> DEFINE Good(i) == /\ Len(items[i].content) <= m
                        /\ Len(items[i].content) < Limit
                        /\ parts[i] = Tagged(items[i].tag, items[i].content)
  <1>5. Good(1) /\ Good(2) /\ Good(3)
    <2>1. Good(1)
      BY <1>1, <1>2, <1>3, <1>4, Zenon DEF Ready
    <2>2. Good(2)
      BY <1>1, <1>2, <1>3, <1>4, Zenon DEF Ready
    <2>3. Good(3)
      BY <1>1, <1>2, <1>3, <1>4, Zenon DEF Ready
    <2> QED BY <2>1, <2>2, <2>3, Zenon
  <1>6. ASSUME NEW i \in 1 .. Len(items)
        PROVE  Good(i)
    <2>1. i = 1 \/ i = 2 \/ i = 3
      BY <1>4
    <2> QED BY <2>1, <1>5, Zenon
  <1>7. Encodes(parts, items)
    BY <1>3, <1>4, <1>6, Zenon DEF Encodes
  <1>8. /\ Concat[parts] \in Buffer /\ Len(Concat[parts]) \in Nat
        /\ Len(Concat[parts]) <= Len(items) * (m + 5)
        /\ Parts[Concat[parts]] = items
        /\ \A k \in 1 .. Len(items) : Inside(Concat[parts], k) = items[k].content
    BY <1>6, <1>7, SequenceReads DEF Room
  <1>9. Len(Concat[parts]) <= 3 * (m + 5)
    BY <1>4, <1>8 DEF Room
  <1>10. Inside(Concat[parts], 1) = c1 /\ Inside(Concat[parts], 2) = c2 /\
        Inside(Concat[parts], 3) = c3
    <2>1. Inside(Concat[parts], 1) = c1
      <3>1. 1 \in 1 .. Len(items)
        BY <1>4
      <3>2. items[1].content = c1
        BY <1>2, <1>4, Zenon
      <3> QED BY <3>1, <3>2, <1>8, Zenon
    <2>2. Inside(Concat[parts], 2) = c2
      <3>1. 2 \in 1 .. Len(items)
        BY <1>4
      <3>2. items[2].content = c2
        BY <1>2, <1>4, Zenon
      <3> QED BY <3>1, <3>2, <1>8, Zenon
    <2>3. Inside(Concat[parts], 3) = c3
      <3>1. 3 \in 1 .. Len(items)
        BY <1>4
      <3>2. items[3].content = c3
        BY <1>2, <1>4, Zenon
      <3> QED BY <3>1, <3>2, <1>8, Zenon
    <2> QED BY <2>1, <2>2, <2>3, Zenon
  <1>11. \A t \in Byte : Fit(t, Concat[parts], most)
    <2>1. m \in Nat /\ most \in Nat /\ 3 * (m + 5) <= most
      BY DEF Room
    <2>2. Len(Concat[parts]) <= most
      BY <1>8, <1>9, <2>1
    <2> QED BY <1>8, <2>2, Zenon DEF Fit
  <1>12. c = Concat[parts]
    BY Zenon DEF parts
  <1>13. Parts[Concat[parts]] = items
    BY <1>8, Zenon
  <1> QED BY <1>10, <1>11, <1>12, <1>13, Zenon DEF items

\* All four may be tagged.
FourFit(t1, c1, t2, c2, t3, c3, t4, c4, m) ==
  /\ Fit(t1, c1, m) /\ Fit(t2, c2, m) /\ Fit(t3, c3, m) /\ Fit(t4, c4, m)

\* four,
LEMMA FourIn ==
  ASSUME NEW m, NEW most, Room(4, m, most),
         NEW t1, NEW c1, NEW t2, NEW c2, NEW t3, NEW c3, NEW t4, NEW c4,
         FourFit(t1, c1, t2, c2, t3, c3, t4, c4, m),
         NEW c, c = Concat[<<Tagged(t1, c1), Tagged(t2, c2), Tagged(t3, c3), Tagged(t4, c4)>>]
  PROVE  /\ \A t \in Byte : Fit(t, c, most)
         /\ Parts[c] = <<Item(t1, c1), Item(t2, c2), Item(t3, c3), Item(t4, c4)>>
         /\ Inside(c, 1) = c1 /\ Inside(c, 2) = c2 /\ Inside(c, 3) = c3 /\ Inside(c, 4) = c4
  <1> DEFINE parts == <<Tagged(t1, c1), Tagged(t2, c2), Tagged(t3, c3), Tagged(t4, c4)>>
             items == <<Item(t1, c1), Item(t2, c2), Item(t3, c3), Item(t4, c4)>>
  <1>1. Ready(t1, c1, m) /\ Ready(t2, c2, m) /\ Ready(t3, c3, m) /\ Ready(t4, c4, m)
    BY FitItem, Zenon DEF Room, FourFit
  <1>2. Item(t1, c1).content = c1 /\ Item(t2, c2).content = c2 /\ Item(t3, c3).content = c3 /\
        Item(t4, c4).content = c4
    BY <1>1, Zenon DEF Ready
  <1>3. parts \in Seq(Buffer) /\ Len(parts) = 4 /\ parts[1] = Tagged(t1, c1) /\
        parts[2] = Tagged(t2, c2) /\ parts[3] = Tagged(t3, c3) /\ parts[4] = Tagged(t4, c4)
    <2>1. Tagged(t1, c1) \in Buffer /\ Tagged(t2, c2) \in Buffer /\
          Tagged(t3, c3) \in Buffer /\ Tagged(t4, c4) \in Buffer
      BY <1>1, Zenon DEF Ready
    <2> QED BY <2>1
  <1>4. items \in Seq(Part) /\ Len(items) = 4 /\ items[1] = Item(t1, c1) /\
        items[2] = Item(t2, c2) /\ items[3] = Item(t3, c3) /\ items[4] = Item(t4, c4)
    <2>1. Item(t1, c1) \in Part /\ Item(t2, c2) \in Part /\ Item(t3, c3) \in Part /\
          Item(t4, c4) \in Part
      BY <1>1, Zenon DEF Ready
    <2> QED BY <2>1
  <1> HIDE DEF parts, items
  <1> DEFINE Good(i) == /\ Len(items[i].content) <= m
                        /\ Len(items[i].content) < Limit
                        /\ parts[i] = Tagged(items[i].tag, items[i].content)
  <1>5. Good(1) /\ Good(2) /\ Good(3) /\ Good(4)
    <2>1. Good(1)
      BY <1>1, <1>2, <1>3, <1>4, Zenon DEF Ready
    <2>2. Good(2)
      BY <1>1, <1>2, <1>3, <1>4, Zenon DEF Ready
    <2>3. Good(3)
      BY <1>1, <1>2, <1>3, <1>4, Zenon DEF Ready
    <2>4. Good(4)
      BY <1>1, <1>2, <1>3, <1>4, Zenon DEF Ready
    <2> QED BY <2>1, <2>2, <2>3, <2>4, Zenon
  <1>6. ASSUME NEW i \in 1 .. Len(items)
        PROVE  Good(i)
    <2>1. i = 1 \/ i = 2 \/ i = 3 \/ i = 4
      BY <1>4
    <2> QED BY <2>1, <1>5, Zenon
  <1>7. Encodes(parts, items)
    BY <1>3, <1>4, <1>6, Zenon DEF Encodes
  <1>8. /\ Concat[parts] \in Buffer /\ Len(Concat[parts]) \in Nat
        /\ Len(Concat[parts]) <= Len(items) * (m + 5)
        /\ Parts[Concat[parts]] = items
        /\ \A k \in 1 .. Len(items) : Inside(Concat[parts], k) = items[k].content
    BY <1>6, <1>7, SequenceReads DEF Room
  <1>9. Len(Concat[parts]) <= 4 * (m + 5)
    BY <1>4, <1>8 DEF Room
  <1>10. Inside(Concat[parts], 1) = c1 /\ Inside(Concat[parts], 2) = c2 /\
        Inside(Concat[parts], 3) = c3 /\ Inside(Concat[parts], 4) = c4
    <2>1. Inside(Concat[parts], 1) = c1
      <3>1. 1 \in 1 .. Len(items)
        BY <1>4
      <3>2. items[1].content = c1
        BY <1>2, <1>4, Zenon
      <3> QED BY <3>1, <3>2, <1>8, Zenon
    <2>2. Inside(Concat[parts], 2) = c2
      <3>1. 2 \in 1 .. Len(items)
        BY <1>4
      <3>2. items[2].content = c2
        BY <1>2, <1>4, Zenon
      <3> QED BY <3>1, <3>2, <1>8, Zenon
    <2>3. Inside(Concat[parts], 3) = c3
      <3>1. 3 \in 1 .. Len(items)
        BY <1>4
      <3>2. items[3].content = c3
        BY <1>2, <1>4, Zenon
      <3> QED BY <3>1, <3>2, <1>8, Zenon
    <2>4. Inside(Concat[parts], 4) = c4
      <3>1. 4 \in 1 .. Len(items)
        BY <1>4
      <3>2. items[4].content = c4
        BY <1>2, <1>4, Zenon
      <3> QED BY <3>1, <3>2, <1>8, Zenon
    <2> QED BY <2>1, <2>2, <2>3, <2>4, Zenon
  <1>11. \A t \in Byte : Fit(t, Concat[parts], most)
    <2>1. m \in Nat /\ most \in Nat /\ 4 * (m + 5) <= most
      BY DEF Room
    <2>2. Len(Concat[parts]) <= most
      BY <1>8, <1>9, <2>1
    <2> QED BY <1>8, <2>2, Zenon DEF Fit
  <1>12. c = Concat[parts]
    BY Zenon DEF parts
  <1>13. Parts[Concat[parts]] = items
    BY <1>8, Zenon
  <1> QED BY <1>10, <1>11, <1>12, <1>13, Zenon DEF items

\* All eight may be tagged.
EightFit(t1, c1, t2, c2, t3, c3, t4, c4, t5, c5, t6, c6, t7, c7, t8, c8, m) ==
  /\ Fit(t1, c1, m) /\ Fit(t2, c2, m) /\ Fit(t3, c3, m) /\ Fit(t4, c4, m) /\ Fit(t5, c5, m) /\
     Fit(t6, c6, m) /\ Fit(t7, c7, m) /\ Fit(t8, c8, m)

\* eight.
LEMMA EightIn ==
  ASSUME NEW m, NEW most, Room(8, m, most),
         NEW t1, NEW c1, NEW t2, NEW c2, NEW t3, NEW c3, NEW t4, NEW c4, NEW t5, NEW c5,
         NEW t6, NEW c6, NEW t7, NEW c7, NEW t8, NEW c8,
         EightFit(t1, c1, t2, c2, t3, c3, t4, c4, t5, c5, t6, c6, t7, c7, t8, c8, m),
         NEW c, c = Concat[<<Tagged(t1, c1), Tagged(t2, c2), Tagged(t3, c3), Tagged(t4, c4),
                               Tagged(t5, c5), Tagged(t6, c6), Tagged(t7, c7), Tagged(t8, c8)>>]
  PROVE  /\ \A t \in Byte : Fit(t, c, most)
         /\ Parts[c] = <<Item(t1, c1), Item(t2, c2), Item(t3, c3), Item(t4, c4), Item(t5, c5),
                        Item(t6, c6), Item(t7, c7), Item(t8, c8)>>
         /\ Inside(c, 1) = c1 /\ Inside(c, 2) = c2 /\ Inside(c, 3) = c3 /\ Inside(c, 4) = c4 /\
            Inside(c, 5) = c5 /\ Inside(c, 6) = c6 /\ Inside(c, 7) = c7 /\ Inside(c, 8) = c8
  <1> DEFINE parts == <<Tagged(t1, c1), Tagged(t2, c2), Tagged(t3, c3), Tagged(t4, c4),
                      Tagged(t5, c5), Tagged(t6, c6), Tagged(t7, c7), Tagged(t8, c8)>>
             items == <<Item(t1, c1), Item(t2, c2), Item(t3, c3), Item(t4, c4), Item(t5, c5),
                      Item(t6, c6), Item(t7, c7), Item(t8, c8)>>
  <1>1. Ready(t1, c1, m) /\ Ready(t2, c2, m) /\ Ready(t3, c3, m) /\ Ready(t4, c4, m) /\
        Ready(t5, c5, m) /\ Ready(t6, c6, m) /\ Ready(t7, c7, m) /\ Ready(t8, c8, m)
    BY FitItem, Zenon DEF Room, EightFit
  <1>2. Item(t1, c1).content = c1 /\ Item(t2, c2).content = c2 /\ Item(t3, c3).content = c3 /\
        Item(t4, c4).content = c4 /\ Item(t5, c5).content = c5 /\ Item(t6, c6).content = c6 /\
        Item(t7, c7).content = c7 /\ Item(t8, c8).content = c8
    BY <1>1, Zenon DEF Ready
  <1>3. parts \in Seq(Buffer) /\ Len(parts) = 8 /\ parts[1] = Tagged(t1, c1) /\
        parts[2] = Tagged(t2, c2) /\ parts[3] = Tagged(t3, c3) /\ parts[4] = Tagged(t4, c4) /\
        parts[5] = Tagged(t5, c5) /\ parts[6] = Tagged(t6, c6) /\ parts[7] = Tagged(t7, c7) /\
        parts[8] = Tagged(t8, c8)
    <2>1. Tagged(t1, c1) \in Buffer /\ Tagged(t2, c2) \in Buffer /\
          Tagged(t3, c3) \in Buffer /\ Tagged(t4, c4) \in Buffer /\
          Tagged(t5, c5) \in Buffer /\ Tagged(t6, c6) \in Buffer /\
          Tagged(t7, c7) \in Buffer /\ Tagged(t8, c8) \in Buffer
      BY <1>1, Zenon DEF Ready
    <2> QED BY <2>1
  <1>4. items \in Seq(Part) /\ Len(items) = 8 /\ items[1] = Item(t1, c1) /\
        items[2] = Item(t2, c2) /\ items[3] = Item(t3, c3) /\ items[4] = Item(t4, c4) /\
        items[5] = Item(t5, c5) /\ items[6] = Item(t6, c6) /\ items[7] = Item(t7, c7) /\
        items[8] = Item(t8, c8)
    <2>1. Item(t1, c1) \in Part /\ Item(t2, c2) \in Part /\ Item(t3, c3) \in Part /\
          Item(t4, c4) \in Part /\ Item(t5, c5) \in Part /\ Item(t6, c6) \in Part /\
          Item(t7, c7) \in Part /\ Item(t8, c8) \in Part
      BY <1>1, Zenon DEF Ready
    <2> QED BY <2>1
  <1> HIDE DEF parts, items
  <1> DEFINE Good(i) == /\ Len(items[i].content) <= m
                        /\ Len(items[i].content) < Limit
                        /\ parts[i] = Tagged(items[i].tag, items[i].content)
  <1>5. Good(1) /\ Good(2) /\ Good(3) /\ Good(4) /\ Good(5) /\ Good(6) /\ Good(7) /\ Good(8)
    <2>1. Good(1)
      BY <1>1, <1>2, <1>3, <1>4, Zenon DEF Ready
    <2>2. Good(2)
      BY <1>1, <1>2, <1>3, <1>4, Zenon DEF Ready
    <2>3. Good(3)
      BY <1>1, <1>2, <1>3, <1>4, Zenon DEF Ready
    <2>4. Good(4)
      BY <1>1, <1>2, <1>3, <1>4, Zenon DEF Ready
    <2>5. Good(5)
      BY <1>1, <1>2, <1>3, <1>4, Zenon DEF Ready
    <2>6. Good(6)
      BY <1>1, <1>2, <1>3, <1>4, Zenon DEF Ready
    <2>7. Good(7)
      BY <1>1, <1>2, <1>3, <1>4, Zenon DEF Ready
    <2>8. Good(8)
      BY <1>1, <1>2, <1>3, <1>4, Zenon DEF Ready
    <2> QED BY <2>1, <2>2, <2>3, <2>4, <2>5, <2>6, <2>7, <2>8, Zenon
  <1>6. ASSUME NEW i \in 1 .. Len(items)
        PROVE  Good(i)
    <2>1. i = 1 \/ i = 2 \/ i = 3 \/ i = 4 \/ i = 5 \/ i = 6 \/ i = 7 \/ i = 8
      BY <1>4
    <2> QED BY <2>1, <1>5, Zenon
  <1>7. Encodes(parts, items)
    BY <1>3, <1>4, <1>6, Zenon DEF Encodes
  <1>8. /\ Concat[parts] \in Buffer /\ Len(Concat[parts]) \in Nat
        /\ Len(Concat[parts]) <= Len(items) * (m + 5)
        /\ Parts[Concat[parts]] = items
        /\ \A k \in 1 .. Len(items) : Inside(Concat[parts], k) = items[k].content
    BY <1>6, <1>7, SequenceReads DEF Room
  <1>9. Len(Concat[parts]) <= 8 * (m + 5)
    BY <1>4, <1>8 DEF Room
  <1>10. Inside(Concat[parts], 1) = c1 /\ Inside(Concat[parts], 2) = c2 /\
        Inside(Concat[parts], 3) = c3 /\ Inside(Concat[parts], 4) = c4 /\
        Inside(Concat[parts], 5) = c5 /\ Inside(Concat[parts], 6) = c6 /\
        Inside(Concat[parts], 7) = c7 /\ Inside(Concat[parts], 8) = c8
    <2>1. Inside(Concat[parts], 1) = c1
      <3>1. 1 \in 1 .. Len(items)
        BY <1>4
      <3>2. items[1].content = c1
        BY <1>2, <1>4, Zenon
      <3> QED BY <3>1, <3>2, <1>8, Zenon
    <2>2. Inside(Concat[parts], 2) = c2
      <3>1. 2 \in 1 .. Len(items)
        BY <1>4
      <3>2. items[2].content = c2
        BY <1>2, <1>4, Zenon
      <3> QED BY <3>1, <3>2, <1>8, Zenon
    <2>3. Inside(Concat[parts], 3) = c3
      <3>1. 3 \in 1 .. Len(items)
        BY <1>4
      <3>2. items[3].content = c3
        BY <1>2, <1>4, Zenon
      <3> QED BY <3>1, <3>2, <1>8, Zenon
    <2>4. Inside(Concat[parts], 4) = c4
      <3>1. 4 \in 1 .. Len(items)
        BY <1>4
      <3>2. items[4].content = c4
        BY <1>2, <1>4, Zenon
      <3> QED BY <3>1, <3>2, <1>8, Zenon
    <2>5. Inside(Concat[parts], 5) = c5
      <3>1. 5 \in 1 .. Len(items)
        BY <1>4
      <3>2. items[5].content = c5
        BY <1>2, <1>4, Zenon
      <3> QED BY <3>1, <3>2, <1>8, Zenon
    <2>6. Inside(Concat[parts], 6) = c6
      <3>1. 6 \in 1 .. Len(items)
        BY <1>4
      <3>2. items[6].content = c6
        BY <1>2, <1>4, Zenon
      <3> QED BY <3>1, <3>2, <1>8, Zenon
    <2>7. Inside(Concat[parts], 7) = c7
      <3>1. 7 \in 1 .. Len(items)
        BY <1>4
      <3>2. items[7].content = c7
        BY <1>2, <1>4, Zenon
      <3> QED BY <3>1, <3>2, <1>8, Zenon
    <2>8. Inside(Concat[parts], 8) = c8
      <3>1. 8 \in 1 .. Len(items)
        BY <1>4
      <3>2. items[8].content = c8
        BY <1>2, <1>4, Zenon
      <3> QED BY <3>1, <3>2, <1>8, Zenon
    <2> QED BY <2>1, <2>2, <2>3, <2>4, <2>5, <2>6, <2>7, <2>8, Zenon
  <1>11. \A t \in Byte : Fit(t, Concat[parts], most)
    <2>1. m \in Nat /\ most \in Nat /\ 8 * (m + 5) <= most
      BY DEF Room
    <2>2. Len(Concat[parts]) <= most
      BY <1>8, <1>9, <2>1
    <2> QED BY <1>8, <2>2, Zenon DEF Fit
  <1>12. c = Concat[parts]
    BY Zenon DEF parts
  <1>13. Parts[Concat[parts]] = items
    BY <1>8, Zenon
  <1> QED BY <1>10, <1>11, <1>12, <1>13, Zenon DEF items

-----------------------------------------------------------------------------
(* Times and serial numbers *)

\* The years that two digits tell.
Years == 1950 .. 2049

\* The year of which these are the last two digits.
Year(y) == IF y >= 50 THEN 1900 + y ELSE 2000 + y

\* The digits of a number of which the last two matter.
Tens(n) == (n % 100) \div 10
Units(n) == (n % 100) % 10

\* The character at a position of a time.
Sign(date, i) ==
  IF i = 13 THEN 90
  ELSE 48 + (IF i % 2 = 1 THEN Tens(date[(i + 1) \div 2]) ELSE Units(date[(i + 1) \div 2]))

\* What the encoding of a time contains.
TimeContent(date) == [i \in 1 .. 13 |-> Sign(date, i)]

\* The two last digits, and what they are as characters.
LEMMA TensUnits ==
  ASSUME NEW n \in Nat
  PROVE  /\ Tens(n) \in 0 .. 9 /\ Units(n) \in 0 .. 9
         /\ 10 * Tens(n) + Units(n) = n % 100
         /\ 48 + Tens(n) \in Byte /\ 48 + Units(n) \in Byte
  <1> DEFINE x == n % 100
  <1>1. x \in 0 .. 99
    OBVIOUS
  <1>2. Tens(n) = x \div 10 /\ Units(n) = x % 10
    BY DEF Tens, Units
  <1> HIDE DEF x
  <1>3. /\ Tens(n) \in 0 .. 9 /\ Units(n) \in 0 .. 9 /\ 10 * Tens(n) + Units(n) = x
        /\ 48 + Tens(n) \in 0 .. 255 /\ 48 + Units(n) \in 0 .. 255
    BY <1>1, <1>2
  <1> QED BY <1>3, Zenon DEF x, Byte

\* A point in time, the year first.
Time(date) == date \in [1 .. 6 -> Nat] /\ \A i \in 2 .. 6 : date[i] < 100

\* A reader finds the time, in the years from 1950 to 2049.
LEMMA TimeReads ==
  ASSUME NEW date, Time(date)
  PROVE  /\ UtcTime(date) = Tagged(23, TimeContent(date))
         /\ TimeContent(date) \in Buffer
         /\ Len(TimeContent(date)) = 13
         /\ Date(TimeContent(date)) \in [1 .. 6 -> Nat]
         /\ Date(TimeContent(date))[1] \in Years
         /\ Date(TimeContent(date))[1] % 100 = date[1] % 100
         /\ \A i \in 2 .. 6 : Date(TimeContent(date))[i] = date[i]
         /\ date[1] \in Years => Date(TimeContent(date)) = date
  <1> DEFINE c == TimeContent(date)
             Two(i) == 10 * (c[2 * i - 1] - 48) + c[2 * i] - 48
             d == Date(c)
  <1>1. UtcTime(date) = Tagged(23, c)
    BY Zenon DEF UtcTime, TimeContent, Sign, Tens, Units
  <1>2. date \in [1 .. 6 -> Nat] /\ \A i \in 2 .. 6 : date[i] < 100
    BY Zenon DEF Time
  <1>3. ASSUME NEW k \in 1 .. 6
        PROVE  c[2 * k - 1] = 48 + Tens(date[k]) /\ c[2 * k] = 48 + Units(date[k])
    <2>1. /\ 2 * k - 1 \in 1 .. 13 /\ 2 * k - 1 # 13 /\ (2 * k - 1) % 2 = 1 /\ ((2 * k - 1) + 1) \div 2 = k
          /\ 2 * k \in 1 .. 13 /\ 2 * k # 13 /\ (2 * k) % 2 # 1 /\ (2 * k + 1) \div 2 = k
      <3>1. k = 1 \/ k = 2 \/ k = 3 \/ k = 4 \/ k = 5 \/ k = 6
        OBVIOUS
      <3> QED BY <3>1
    <2> DEFINE i == 2 * k - 1
               j == 2 * k
    <2>2. i \in 1 .. 13 /\ i # 13 /\ i % 2 = 1 /\ (i + 1) \div 2 = k
      BY <2>1
    <2>3. j \in 1 .. 13 /\ j # 13 /\ j % 2 # 1 /\ (j + 1) \div 2 = k
      BY <2>1
    <2> HIDE DEF i, j
    <2>4. c[i] = Sign(date, i) /\ c[j] = Sign(date, j)
      BY <2>2, <2>3, Zenon DEF TimeContent
    <2>5. Sign(date, i) = 48 + Tens(date[k]) /\ Sign(date, j) = 48 + Units(date[k])
      BY <2>2, <2>3, Zenon DEF Sign
    <2> QED BY <2>4, <2>5, Zenon DEF i, j
  <1>4. ASSUME NEW i \in 1 .. 13 PROVE c[i] \in Byte
    <2>1. CASE i = 13
      <3>1. c[i] = 90
        BY <2>1, Zenon DEF TimeContent, Sign
      <3> QED BY <3>1 DEF Byte
    <2>2. CASE i # 13
      <3>1. PICK k \in 1 .. 6 : i = 2 * k - 1 \/ i = 2 * k
        <4>1. (i + 1) \div 2 \in 1 .. 6 /\ (i = 2 * ((i + 1) \div 2) - 1 \/ i = 2 * ((i + 1) \div 2))
          BY <2>2
        <4> QED BY <4>1, Zenon
      <3>2. date[k] \in Nat
        BY <1>2
      <3>3. 48 + Tens(date[k]) \in Byte /\ 48 + Units(date[k]) \in Byte
        BY <3>2, TensUnits, Zenon
      <3>4. c[2 * k - 1] \in Byte /\ c[2 * k] \in Byte
        BY <1>3, <3>3, Zenon
      <3> QED BY <3>1, <3>4, Zenon
    <2> QED BY <2>1, <2>2
  <1>5. c \in Buffer /\ Len(c) = 13
    <2>1. c \in [1 .. 13 -> Byte]
      BY <1>4, Zenon DEF TimeContent
    <2> HIDE DEF c
    <2> QED BY <2>1, Tabled DEF Buffer
  <1> HIDE DEF c
  <1>6. ASSUME NEW k \in 1 .. 6
        PROVE  Two(k) = date[k] % 100 /\ Two(k) \in 0 .. 99 /\ date[k] \in Nat
    <2> DEFINE a == c[2 * k - 1]
               b == c[2 * k]
               x == Tens(date[k])
               y == Units(date[k])
               z == date[k] % 100
    <2>1. date[k] \in Nat
      BY <1>2
    <2>2. x \in 0 .. 9 /\ y \in 0 .. 9 /\ 10 * x + y = z
      BY <2>1, TensUnits, Zenon
    <2>3. z \in 0 .. 99
      BY <2>1
    <2>4. a = 48 + x /\ b = 48 + y
      BY <1>3, Zenon
    <2>5. Two(k) = 10 * (a - 48) + b - 48
      OBVIOUS
    <2> HIDE DEF x, y, z, a, b, Two
    <2>6. Two(k) = z
      BY <2>2, <2>4, <2>5
    <2> QED BY <2>1, <2>3, <2>6, Zenon DEF z
  <1>7. d = [i \in 1 .. 6 |-> IF i > 1 THEN Two(i) ELSE Year(Two(1))]
    BY <1>5, Zenon DEF Date, Year
  <1> HIDE DEF d, Two
  <1>8. ASSUME NEW i \in 1 .. 6
        PROVE  /\ d[i] \in Nat
               /\ i > 1 => d[i] = date[i]
               /\ i = 1 => /\ d[i] \in Years
                           /\ d[i] % 100 = date[i] % 100
                           /\ date[i] \in Years => d[i] = date[i]
    <2> DEFINE x == date[i]
               y == Two(i)
    <2>1. x \in Nat /\ y = x % 100 /\ y \in 0 .. 99
      BY <1>6
    <2>2. CASE i > 1
      <3>1. x < 100
        BY <2>2, <1>2
      <3>2. d[i] = y
        BY <2>2, <1>7
      <3> HIDE DEF x, y
      <3> QED BY <2>1, <2>2, <3>1, <3>2 DEF x
    <2>3. CASE i = 1
      <3>1. d[i] = Year(y)
        BY <2>3, <1>7
      <3> HIDE DEF x, y
      <3>2. /\ d[i] \in Nat
            /\ d[i] \in Years
            /\ d[i] % 100 = x % 100
            /\ x \in Years => d[i] = x
        BY <2>1, <3>1 DEF Years, Year
      <3> QED BY <2>3, <3>2 DEF x
    <2> QED BY <2>2, <2>3
  <1>9. d \in [1 .. 6 -> Nat]
    <2>1. \A i \in 1 .. 6 : d[i] \in Nat
      BY <1>8, Zenon
    <2> QED BY <1>7, <2>1, Zenon
  <1>10. date[1] \in Years => d = date
    <2> SUFFICES ASSUME date[1] \in Years PROVE d = date
      OBVIOUS
    <2>1. \A i \in 1 .. 6 : d[i] = date[i]
      <3> SUFFICES ASSUME NEW i \in 1 .. 6 PROVE d[i] = date[i]
        OBVIOUS
      <3>1. i > 1 \/ i = 1
        OBVIOUS
      <3> QED BY <3>1, <1>8
    <2> HIDE DEF d
    <2>2. date \in [1 .. 6 -> Nat]
      BY <1>2, Zenon
    <2> QED BY <1>9, <2>1, <2>2
  <1>11. 1 \in 1 .. 6
    OBVIOUS
  <1>12. d[1] \in Years /\ d[1] % 100 = date[1] % 100
    BY <1>8, <1>11, Zenon
  <1>13. \A i \in 2 .. 6 : d[i] = date[i]
    <2> SUFFICES ASSUME NEW i \in 2 .. 6 PROVE d[i] = date[i]
      OBVIOUS
    <2>1. i \in 1 .. 6 /\ i > 1
      OBVIOUS
    <2> QED BY <1>8, <2>1, Zenon
  <1> QED BY <1>1, <1>5, <1>9, <1>10, <1>12, <1>13, Zenon DEF d, c

\* Without its leading zeros a number starts with its first other byte.
LEMMA MagnitudeFrom ==
  ASSUME NEW b \in Seq(Byte), NEW k \in 1 .. Len(b), b[k] # 0, \A i \in 1 .. k - 1 : b[i] = 0
  PROVE  Magnitude(b) = SubSeq(b, k, Len(b))
  <1> DEFINE I == {i \in 1 .. Len(b) : b[i] # 0}
             first == SelectInSeq(b, LAMBDA x : x # 0)
  <1>1. Len(b) \in Nat
    BY LenProperties
  <1>2. I \in SUBSET Nat /\ I # {} /\ k \in I
    BY <1>1
  <1>3. \A i \in I : k <= i
    BY <1>1
  <1>4. first = IF I # {} THEN Min(I) ELSE 0
    BY Zenon DEF SelectInSeq
  <1>5. Magnitude(b) = IF first = 0 THEN <<>> ELSE SubSeq(b, first, Len(b))
    BY Zenon DEF Magnitude
  <1> HIDE DEF I, first
  <1>6. Min(I) \in I /\ Min(I) <= k
    BY <1>2, MinIs
  <1>7. Min(I) = k
    <2>1. Min(I) \in Nat /\ k <= Min(I) /\ k \in Nat
      BY <1>1, <1>2, <1>3, <1>6
    <2> QED BY <2>1, <1>6
  <1>8. first = k
    BY <1>2, <1>4, <1>7, Zenon
  <1>9. k # 0
    BY <1>1
  <1> QED BY <1>5, <1>8, <1>9, Zenon

\* The 16 bytes of a serial number.
Serial(s) == s \in Seq(Byte) /\ Len(s) = 16

\* A serial number, padded, is read as it was meant, and is minimal unless it
\* starts with a zero byte that DER has no room for.
LEMMA SerialReads ==
  ASSUME NEW s, Serial(s)
  PROVE  /\ Padded(s) \in Buffer
         /\ Len(Padded(s)) <= 17
         /\ Padded(s) # <<>>
         /\ Head(Padded(s)) < 128
         /\ Minimal(Padded(s)) <=> ~(s[1] = 0 /\ s[2] < 128)
         /\ Minimal(Padded(s)) => Magnitude(Padded(s)) = Magnitude(s)
  <1>1. s \in Seq(Byte) /\ Len(s) = 16
    BY Zenon DEF Serial
  <1>2. s # <<>>
    <2>1. Len(s) # 0
      BY <1>1
    <2> QED BY <2>1, NoneIn, Zenon
  <1>3. Head(s) = s[1] /\ s[1] \in Byte
    BY <1>1, <1>2, HeadTail
  <1>4. \A x \in Byte : ~(x < 128) => x >= 128 /\ x # 0 /\ ~(x = 0)
    BY DEF Byte
  <1>5. \A x \in Byte : x < 128 => ~(x >= 128) /\ x # 255
    BY DEF Byte
  <1>6. CASE s[1] < 128
    <2>1. ~(s[1] >= 128) /\ s[1] # 255
      BY <1>3, <1>5, <1>6, Zenon
    <2>2. Padded(s) = s
      BY <2>1, Zenon DEF Padded
    <2>3. Len(s) > 1 /\ Len(s) <= 17
      BY <1>1
    <2>4. Minimal(s) <=> ~(s[1] = 0 /\ s[2] < 128)
      BY <1>2, <2>1, <2>3, Zenon DEF Minimal
    <2> QED BY <1>1, <1>2, <1>3, <1>6, <2>2, <2>3, <2>4, Zenon DEF Buffer
  <1>7. CASE ~(s[1] < 128)
    <2> DEFINE z == <<0>>
               p == z \o s
    <2>1. s[1] >= 128 /\ s[1] # 0 /\ ~(s[1] = 0)
      BY <1>3, <1>4, <1>7, Zenon
    <2>2. Padded(s) = p
      BY <2>1, Zenon DEF Padded
    <2>3. z \in Seq(Byte) /\ Len(z) = 1 /\ z[1] = 0
      <3>1. 0 \in Byte
        BY DEF Byte
      <3> QED BY <3>1
    <2> HIDE DEF z
    <2>4. z \in Seq(Byte) /\ s \in Seq(Byte)
      BY <1>1, <2>3, Zenon
    <2>5. /\ p \in Seq(Byte) /\ Len(p) = Len(z) + Len(s)
          /\ \A i \in 1 .. Len(z) : p[i] = z[i]
          /\ \A i \in 1 .. Len(s) : p[Len(z) + i] = s[i]
      BY <2>4, Joined
    <2> HIDE DEF p
    <2>6. Len(p) = 17 /\ p # <<>>
      <3>1. Len(p) = 1 + 16
        BY <1>1, <2>3, <2>5, Zenon
      <3>2. Len(p) = 17 /\ Len(p) # 0
        BY <3>1
      <3> QED BY <3>2, NoneIn, Zenon
    <2>7. p[1] = 0
      <3>1. 1 \in 1 .. Len(z)
        BY <2>3
      <3> QED BY <3>1, <2>3, <2>5, Zenon
    <2>8. p[2] = s[1]
      <3>1. 1 \in 1 .. Len(s) /\ Len(z) + 1 = 2
        BY <1>1, <2>3
      <3> QED BY <3>1, <2>5, Zenon
    <2>9. p \in Seq(Byte)
      BY <2>5, Zenon
    <2>10. Head(p) = p[1] /\ Tail(p) \in Seq(Byte) /\ Len(Tail(p)) = Len(p) - 1
           /\ \A i \in 1 .. Len(Tail(p)) : Tail(p)[i] = p[i + 1]
      BY <2>6, <2>9, HeadTail
    <2>11. Minimal(p)
      <3>1. p[1] # 255 /\ ~(p[2] < 128)
        BY <1>7, <2>7, <2>8
      <3> QED BY <2>6, <3>1, Zenon DEF Minimal
    <2>12. Magnitude(s) = s
      <3>1. 1 \in 1 .. Len(s) /\ \A i \in 1 .. 1 - 1 : s[i] = 0
        BY <1>1
      <3>2. Magnitude(s) = SubSeq(s, 1, Len(s))
        BY <1>1, <2>1, <3>1, MagnitudeFrom
      <3> QED BY <1>1, <3>2, SubSeqFull
    <2>13. Magnitude(p) = Tail(p)
      <3>1. 2 \in 1 .. Len(p)
        BY <2>6
      <3>2. \A i \in 1 .. 2 - 1 : p[i] = 0
        BY <2>7
      <3>3. p[2] # 0
        BY <2>1, <2>8, Zenon
      <3>4. Magnitude(p) = SubSeq(p, 2, Len(p))
        BY <2>9, <3>1, <3>2, <3>3, MagnitudeFrom
      <3> QED BY <2>6, <2>9, <3>4, TailIsSubSeq
    <2>14. Tail(p) = s
      <3> DEFINE q == Tail(p)
      <3>1. q \in Seq(Byte) /\ s \in Seq(Byte)
        BY <1>1, <2>10, Zenon
      <3>2. Len(q) = Len(s)
        BY <1>1, <2>6, <2>10
      <3>3. ASSUME NEW i \in 1 .. Len(q) PROVE q[i] = s[i]
        <4>1. i \in 1 .. Len(s)
          BY <3>2, Zenon
        <4>2. i \in Int
          BY <1>1, <4>1
        <4>3. Len(z) + i = i + 1
          BY <2>3, <4>2
        <4>4. q[i] = p[i + 1]
          BY <2>10, Zenon
        <4>5. p[Len(z) + i] = s[i]
          BY <4>1, <2>5, Zenon
        <4> QED BY <4>3, <4>4, <4>5, Zenon
      <3> HIDE DEF q
      <3>4. q = s
        BY <3>1, <3>2, <3>3, SeqEqual
      <3> QED BY <3>4 DEF q
    <2>15. Len(p) <= 17 /\ Head(p) < 128
      BY <2>6, <2>7, <2>10
    <2> QED BY <2>1, <2>2, <2>6, <2>9, <2>11, <2>12, <2>13, <2>14, <2>15, Zenon DEF Buffer
  <1> QED BY <1>6, <1>7, Zenon

-----------------------------------------------------------------------------
(* The parts of a certificate *)

\* Upper bounds for the lengths of a pair, of a value in a SET, of a name, of
\* the alternative names, of an extension and its value, of all extensions, of
\* a field of the certificate and of what is signed.
PairCap == 1100
SetCap == 1200
FieldCap == 1300
AltCap == 50900
ValueCap == 51000
ExtensionCap == 154000
ExtensionsCap == 617000
PartCap == 618000
SignedCap == 4945000
CertificateCap == 14900000

\* One level has room in the next.
LEMMA Rooms ==
  /\ Room(2, TextCap, PairCap)
  /\ Room(1, PairCap, SetCap)
  /\ Room(1, SetCap, FieldCap)
  /\ Room(1, PairCap, ValueCap)
  /\ Room(1, TextCap, ValueCap)
  /\ Room(1, AltCap, ValueCap)
  /\ Room(2, ValueCap, ExtensionCap)
  /\ Room(3, ValueCap, ExtensionCap)
  /\ Room(4, ExtensionCap, ExtensionsCap)
  /\ Room(1, ExtensionsCap, PartCap)
  /\ Room(8, PartCap, SignedCap)
  /\ Room(3, SignedCap, CertificateCap)
  <1>1. Room(2, TextCap, PairCap)
    BY DEF Room, Limit, TextCap, PairCap
  <1>2. Room(1, PairCap, SetCap)
    BY DEF Room, Limit, PairCap, SetCap
  <1>3. Room(1, SetCap, FieldCap)
    BY DEF Room, Limit, SetCap, FieldCap
  <1>4. Room(1, PairCap, ValueCap)
    BY DEF Room, Limit, PairCap, ValueCap
  <1>5. Room(1, TextCap, ValueCap)
    BY DEF Room, Limit, TextCap, ValueCap
  <1>6. Room(1, AltCap, ValueCap)
    BY DEF Room, Limit, AltCap, ValueCap
  <1>7. Room(2, ValueCap, ExtensionCap)
    BY DEF Room, Limit, ValueCap, ExtensionCap
  <1>8. Room(3, ValueCap, ExtensionCap)
    BY DEF Room, Limit, ValueCap, ExtensionCap
  <1>9. Room(4, ExtensionCap, ExtensionsCap)
    BY DEF Room, Limit, ExtensionCap, ExtensionsCap
  <1>10. Room(1, ExtensionsCap, PartCap)
    BY DEF Room, Limit, ExtensionsCap, PartCap
  <1>11. Room(8, PartCap, SignedCap)
    BY DEF Room, Limit, PartCap, SignedCap
  <1>12. Room(3, SignedCap, CertificateCap)
    BY DEF Room, Limit, SignedCap, CertificateCap
  <1> QED BY <1>1, <1>2, <1>3, <1>4, <1>5, <1>6, <1>7, <1>8, <1>9, <1>10, <1>11, <1>12, Zenon

\* The smaller sizes fit as well where a larger one does.
LEMMA Monotone ==
  /\ TextCap \in Nat /\ PairCap \in Nat /\ FieldCap \in Nat
  /\ ValueCap \in Nat /\ PartCap \in Nat /\ SignedCap \in Nat
  /\ TextCap <= ValueCap /\ PairCap <= PartCap
  /\ FieldCap <= PartCap /\ PairCap <= SignedCap /\ ValueCap <= PartCap
  /\ TextCap <= PartCap /\ FieldCap <= SignedCap /\ TextCap <= SignedCap
  BY DEF TextCap, PairCap, FieldCap, ValueCap, PartCap, SignedCap

\* A list of arcs that are small enough.
LEMMA Identified ==
  ASSUME NEW s \in Seq(Nat), Len(s) \in 2 .. 20, s[1] <= 2, s[2] < 40,
         \A i \in 1 .. Len(s) : s[i] <= 113549
  PROVE  Identifier(s)
  <1>1. ASSUME NEW i \in 1 .. Len(s) PROVE s[i] < ThreeDigits
    <2> DEFINE x == s[i]
    <2>1. x \in Nat /\ x <= 113549
      BY ElementOfSeq
    <2> HIDE DEF x
    <2>2. x < ThreeDigits
      BY <2>1 DEF ThreeDigits
    <2> QED BY <2>2 DEF x
  <1> QED BY <1>1 DEF Identifier

\* The identifiers of a certificate are encoded in full.
LEMMA Identifiers ==
  /\ Identifier(Sha256Rsa)
  /\ Identifier(CommonName)
  /\ Identifier(BasicConstraints)
  /\ Identifier(KeyUsage)
  /\ Identifier(ExtKeyUsage)
  /\ Identifier(SubjectAltName)
  /\ Identifier(ServerAuth)
  /\ Identifier(ClientAuth)
  <1>1. Identifier(Sha256Rsa)
    <2> DEFINE s == Sha256Rsa
    <2>1. /\ s \in Seq(Nat) /\ Len(s) = 7 /\ s[1] = 1 /\ s[2] = 2 /\ s[3] = 840
          /\ s[4] = 113549 /\ s[5] = 1 /\ s[6] = 1 /\ s[7] = 11
      BY DEF Sha256Rsa
    <2>2. \A i \in 1 .. 7 : i = 1 \/ i = 2 \/ i = 3 \/ i = 4 \/ i = 5 \/ i = 6 \/ i = 7
      OBVIOUS
    <2> HIDE DEF s
    <2>3. Len(s) \in 2 .. 20 /\ s[1] <= 2 /\ s[2] < 40
      BY <2>1
    <2>4. \A i \in 1 .. Len(s) : s[i] <= 113549
      BY <2>1, <2>2
    <2>5. s \in Seq(Nat)
      BY <2>1
    <2>6. Identifier(s)
      BY <2>3, <2>4, <2>5, Identified
    <2> QED BY <2>6, Zenon DEF s
  <1>2. Identifier(CommonName)
    <2> DEFINE s == CommonName
    <2>1. s \in Seq(Nat) /\ Len(s) = 4 /\ s[1] = 2 /\ s[2] = 5 /\ s[3] = 4 /\ s[4] = 3
      BY DEF CommonName
    <2>2. \A i \in 1 .. 4 : i = 1 \/ i = 2 \/ i = 3 \/ i = 4
      OBVIOUS
    <2> HIDE DEF s
    <2>3. Len(s) \in 2 .. 20 /\ s[1] <= 2 /\ s[2] < 40
      BY <2>1
    <2>4. \A i \in 1 .. Len(s) : s[i] <= 113549
      BY <2>1, <2>2
    <2>5. s \in Seq(Nat)
      BY <2>1
    <2>6. Identifier(s)
      BY <2>3, <2>4, <2>5, Identified
    <2> QED BY <2>6, Zenon DEF s
  <1>3. Identifier(BasicConstraints)
    <2> DEFINE s == BasicConstraints
    <2>1. s \in Seq(Nat) /\ Len(s) = 4 /\ s[1] = 2 /\ s[2] = 5 /\ s[3] = 29 /\ s[4] = 19
      BY DEF BasicConstraints
    <2>2. \A i \in 1 .. 4 : i = 1 \/ i = 2 \/ i = 3 \/ i = 4
      OBVIOUS
    <2> HIDE DEF s
    <2>3. Len(s) \in 2 .. 20 /\ s[1] <= 2 /\ s[2] < 40
      BY <2>1
    <2>4. \A i \in 1 .. Len(s) : s[i] <= 113549
      BY <2>1, <2>2
    <2>5. s \in Seq(Nat)
      BY <2>1
    <2>6. Identifier(s)
      BY <2>3, <2>4, <2>5, Identified
    <2> QED BY <2>6, Zenon DEF s
  <1>4. Identifier(KeyUsage)
    <2> DEFINE s == KeyUsage
    <2>1. s \in Seq(Nat) /\ Len(s) = 4 /\ s[1] = 2 /\ s[2] = 5 /\ s[3] = 29 /\ s[4] = 15
      BY DEF KeyUsage
    <2>2. \A i \in 1 .. 4 : i = 1 \/ i = 2 \/ i = 3 \/ i = 4
      OBVIOUS
    <2> HIDE DEF s
    <2>3. Len(s) \in 2 .. 20 /\ s[1] <= 2 /\ s[2] < 40
      BY <2>1
    <2>4. \A i \in 1 .. Len(s) : s[i] <= 113549
      BY <2>1, <2>2
    <2>5. s \in Seq(Nat)
      BY <2>1
    <2>6. Identifier(s)
      BY <2>3, <2>4, <2>5, Identified
    <2> QED BY <2>6, Zenon DEF s
  <1>5. Identifier(ExtKeyUsage)
    <2> DEFINE s == ExtKeyUsage
    <2>1. s \in Seq(Nat) /\ Len(s) = 4 /\ s[1] = 2 /\ s[2] = 5 /\ s[3] = 29 /\ s[4] = 37
      BY DEF ExtKeyUsage
    <2>2. \A i \in 1 .. 4 : i = 1 \/ i = 2 \/ i = 3 \/ i = 4
      OBVIOUS
    <2> HIDE DEF s
    <2>3. Len(s) \in 2 .. 20 /\ s[1] <= 2 /\ s[2] < 40
      BY <2>1
    <2>4. \A i \in 1 .. Len(s) : s[i] <= 113549
      BY <2>1, <2>2
    <2>5. s \in Seq(Nat)
      BY <2>1
    <2>6. Identifier(s)
      BY <2>3, <2>4, <2>5, Identified
    <2> QED BY <2>6, Zenon DEF s
  <1>6. Identifier(SubjectAltName)
    <2> DEFINE s == SubjectAltName
    <2>1. s \in Seq(Nat) /\ Len(s) = 4 /\ s[1] = 2 /\ s[2] = 5 /\ s[3] = 29 /\ s[4] = 17
      BY DEF SubjectAltName
    <2>2. \A i \in 1 .. 4 : i = 1 \/ i = 2 \/ i = 3 \/ i = 4
      OBVIOUS
    <2> HIDE DEF s
    <2>3. Len(s) \in 2 .. 20 /\ s[1] <= 2 /\ s[2] < 40
      BY <2>1
    <2>4. \A i \in 1 .. Len(s) : s[i] <= 113549
      BY <2>1, <2>2
    <2>5. s \in Seq(Nat)
      BY <2>1
    <2>6. Identifier(s)
      BY <2>3, <2>4, <2>5, Identified
    <2> QED BY <2>6, Zenon DEF s
  <1>7. Identifier(ServerAuth)
    <2> DEFINE s == ServerAuth
    <2>1. /\ s \in Seq(Nat) /\ Len(s) = 9 /\ s[1] = 1 /\ s[2] = 3 /\ s[3] = 6 /\ s[4] = 1
          /\ s[5] = 5 /\ s[6] = 5 /\ s[7] = 7 /\ s[8] = 3 /\ s[9] = 1
      BY DEF ServerAuth
    <2>2. \A i \in 1 .. 9 : i = 1 \/ i = 2 \/ i = 3 \/ i = 4 \/ i = 5 \/ i = 6 \/ i = 7 \/ i = 8 \/ i = 9
      OBVIOUS
    <2> HIDE DEF s
    <2>3. Len(s) \in 2 .. 20 /\ s[1] <= 2 /\ s[2] < 40
      BY <2>1
    <2>4. \A i \in 1 .. Len(s) : s[i] <= 113549
      BY <2>1, <2>2
    <2>5. s \in Seq(Nat)
      BY <2>1
    <2>6. Identifier(s)
      BY <2>3, <2>4, <2>5, Identified
    <2> QED BY <2>6, Zenon DEF s
  <1>8. Identifier(ClientAuth)
    <2> DEFINE s == ClientAuth
    <2>1. /\ s \in Seq(Nat) /\ Len(s) = 9 /\ s[1] = 1 /\ s[2] = 3 /\ s[3] = 6 /\ s[4] = 1
          /\ s[5] = 5 /\ s[6] = 5 /\ s[7] = 7 /\ s[8] = 3 /\ s[9] = 2
      BY DEF ClientAuth
    <2>2. \A i \in 1 .. 9 : i = 1 \/ i = 2 \/ i = 3 \/ i = 4 \/ i = 5 \/ i = 6 \/ i = 7 \/ i = 8 \/ i = 9
      OBVIOUS
    <2> HIDE DEF s
    <2>3. Len(s) \in 2 .. 20 /\ s[1] <= 2 /\ s[2] < 40
      BY <2>1
    <2>4. \A i \in 1 .. Len(s) : s[i] <= 113549
      BY <2>1, <2>2
    <2>5. s \in Seq(Nat)
      BY <2>1
    <2>6. Identifier(s)
      BY <2>3, <2>4, <2>5, Identified
    <2> QED BY <2>6, Zenon DEF s
  <1> QED BY <1>1, <1>2, <1>3, <1>4, <1>5, <1>6, <1>7, <1>8, Zenon

\* The four extensions have different identifiers.
LEMMA IdentifiersDiffer ==
  /\ BasicConstraints # KeyUsage /\ BasicConstraints # ExtKeyUsage /\ BasicConstraints # SubjectAltName
  /\ KeyUsage # ExtKeyUsage /\ KeyUsage # SubjectAltName /\ ExtKeyUsage # SubjectAltName
  <1>1. /\ BasicConstraints[4] = 19 /\ KeyUsage[4] = 15 /\ ExtKeyUsage[4] = 37 /\ SubjectAltName[4] = 17
    BY DEF BasicConstraints, KeyUsage, ExtKeyUsage, SubjectAltName
  <1> HIDE DEF BasicConstraints, KeyUsage, ExtKeyUsage, SubjectAltName
  <1> QED BY <1>1

\* The arcs of an identifier.
LEMMA OidFits ==
  ASSUME NEW id, Identifier(id)
  PROVE  \E c : Oid(id) = Tagged(6, c) /\ Fit(6, c, TextCap) /\ Arcs(c) = id
  <1> DEFINE c == OidContent(id)
  <1>1. Oid(id) = Tagged(6, c) /\ c \in Buffer /\ Len(c) <= 100 /\ Arcs(c) = id
    BY OidReads
  <1> HIDE DEF c
  <1>2. Len(c) \in Nat
    BY <1>1, LenProperties DEF Buffer
  <1>3. Len(c) <= TextCap /\ 6 \in Byte
    BY <1>1, <1>2 DEF TextCap, Byte
  <1> QED BY <1>1, <1>3, Zenon DEF Fit

\* Two or three elements.
LEMMA JoinTwo ==
  ASSUME NEW a, NEW b
  PROVE  <<a>> \o <<b>> = <<a, b>>
  <1> DEFINE V == {a, b}
             s == <<a>>
             t == <<b>>
             u == <<a, b>>
             j == s \o t
  <1>1. s \in Seq(V) /\ t \in Seq(V) /\ u \in Seq(V)
    OBVIOUS
  <1>2. Len(s) = 1 /\ s[1] = a /\ Len(t) = 1 /\ t[1] = b /\ Len(u) = 2 /\ u[1] = a /\ u[2] = b
    OBVIOUS
  <1> HIDE DEF V, s, t, u
  <1>3. /\ j \in Seq(V) /\ Len(j) = Len(s) + Len(t)
        /\ \A i \in 1 .. Len(s) : j[i] = s[i]
        /\ \A i \in 1 .. Len(t) : j[Len(s) + i] = t[i]
    BY <1>1, Joined
  <1> HIDE DEF j
  <1>4. 1 \in 1 .. Len(s) /\ 1 \in 1 .. Len(t) /\ Len(s) + 1 = 2
    BY <1>2
  <1>5. j[1] = s[1]
    BY <1>3, <1>4, Zenon
  <1>6. j[2] = t[1]
    BY <1>3, <1>4, Zenon
  <1>7. Len(j) = 2
    <2>1. Len(j) = 1 + 1
      BY <1>2, <1>3, Zenon
    <2> QED BY <2>1
  <1>8. j \in Seq(V) /\ Len(j) = Len(u)
    BY <1>2, <1>3, <1>7, Zenon
  <1>9. \A i \in 1 .. Len(j) : j[i] = u[i]
    <2>1. \A i \in 1 .. Len(j) : i = 1 \/ i = 2
      BY <1>7
    <2> QED BY <2>1, <1>2, <1>5, <1>6, Zenon
  <1>10. j = u
    BY <1>1, <1>8, <1>9, SeqEqual
  <1>11. s \o t = u
    BY <1>10, Zenon DEF j
  <1>12. s = <<a>> /\ t = <<b>> /\ u = <<a, b>>
    BY Zenon DEF s, t, u
  <1> QED BY <1>11, <1>12, Zenon

\* Three sequences of one element.
LEMMA JoinThree ==
  ASSUME NEW a, NEW b, NEW c
  PROVE  <<a>> \o <<b>> \o <<c>> = <<a, b, c>>
  <1> DEFINE V == {a, b, c}
             s == <<a, b>>
             t == <<c>>
             u == <<a, b, c>>
             j == s \o t
  <1>1. s \in Seq(V) /\ t \in Seq(V) /\ u \in Seq(V)
    OBVIOUS
  <1>2. /\ Len(s) = 2 /\ s[1] = a /\ s[2] = b /\ Len(t) = 1 /\ t[1] = c
        /\ Len(u) = 3 /\ u[1] = a /\ u[2] = b /\ u[3] = c
    OBVIOUS
  <1>3. <<a>> \o <<b>> = s
    <2>1. <<a>> \o <<b>> = <<a, b>>
      BY JoinTwo, Zenon
    <2> QED BY <2>1, Zenon
  <1> HIDE DEF V, s, t, u
  <1>4. /\ j \in Seq(V) /\ Len(j) = Len(s) + Len(t)
        /\ \A i \in 1 .. Len(s) : j[i] = s[i]
        /\ \A i \in 1 .. Len(t) : j[Len(s) + i] = t[i]
    BY <1>1, Joined
  <1> HIDE DEF j
  <1>5. 1 \in 1 .. Len(s) /\ 2 \in 1 .. Len(s) /\ 1 \in 1 .. Len(t) /\ Len(s) + 1 = 3
    BY <1>2
  <1>6. j[1] = s[1] /\ j[2] = s[2]
    BY <1>4, <1>5, Zenon
  <1>7. j[3] = t[1]
    BY <1>4, <1>5, Zenon
  <1>8. Len(j) = 3
    <2>1. Len(j) = 2 + 1
      BY <1>2, <1>4, Zenon
    <2> QED BY <2>1
  <1>9. j \in Seq(V) /\ Len(j) = Len(u)
    BY <1>2, <1>4, <1>8, Zenon
  <1>10. \A i \in 1 .. Len(j) : j[i] = u[i]
    <2>1. \A i \in 1 .. Len(j) : i = 1 \/ i = 2 \/ i = 3
      BY <1>8
    <2> QED BY <2>1, <1>2, <1>6, <1>7, Zenon
  <1>11. j = u
    BY <1>1, <1>9, <1>10, SeqEqual
  <1> QED BY <1>3, <1>11, Zenon DEF j, t, u

\* Nothing at the end.
LEMMA NoneAfter ==
  ASSUME NEW a, NEW b
  PROVE  <<a>> \o <<>> = <<a>> /\ <<a>> \o <<b>> \o <<>> = <<a, b>>
  <1>1. <<a>> \in Seq({a, b}) /\ <<a, b>> \in Seq({a, b})
    OBVIOUS
  <1>2. <<a>> \o <<>> = <<a>> /\ <<a, b>> \o <<>> = <<a, b>>
    BY <1>1, ConcatEmptySeq
  <1> QED BY <1>2, JoinTwo

\* The values written out in the source are tagged ones, too.
LEMMA Constants ==
  /\ Null = Tagged(5, <<>>)
  /\ True = Tagged(1, <<255>>)
  /\ \A t \in Byte : Fit(t, <<>>, TextCap)
  /\ \A t \in Byte : Fit(t, <<255>>, ValueCap)
  <1>1. EncodeLength(0) = <<0>> /\ EncodeLength(1) = <<1>>
    BY DEF EncodeLength
  <1>2. <<>> \in Buffer /\ <<255>> \in Buffer /\ Len(<<>>) = 0 /\ Len(<<255>>) = 1
    <2>1. 255 \in Byte
      BY DEF Byte
    <2> QED BY <2>1 DEF Buffer
  <1>3. Tagged(5, <<>>) = <<5>> \o <<0>> \o <<>> /\ Tagged(1, <<255>>) = <<1>> \o <<1>> \o <<255>>
    BY <1>1, <1>2, Zenon DEF Tagged
  <1>4. <<5>> \o <<0>> \o <<>> = <<5, 0>>
    BY NoneAfter
  <1>5. <<1>> \o <<1>> \o <<255>> = <<1, 1, 255>>
    BY JoinThree
  <1>6. Len(<<>>) <= TextCap /\ Len(<<255>>) <= ValueCap
    BY <1>2 DEF TextCap, ValueCap
  <1>7. \A t \in Byte : Fit(t, <<>>, TextCap) /\ Fit(t, <<255>>, ValueCap)
    BY <1>2, <1>6, Zenon DEF Fit
  <1> QED BY <1>3, <1>4, <1>5, <1>7, Zenon DEF Null, True

\* The tags of a certificate are bytes.
LEMMA Tags ==
  /\ 1 \in Byte /\ 2 \in Byte /\ 3 \in Byte /\ 4 \in Byte /\ 5 \in Byte /\ 6 \in Byte /\ 12 \in Byte
  /\ 23 \in Byte /\ 48 \in Byte /\ 49 \in Byte
  /\ 130 \in Byte /\ 135 \in Byte /\ 160 \in Byte /\ 163 \in Byte
  BY DEF Byte

\* The algorithm of the signature.
LEMMA AlgorithmReads ==
  \E c : /\ SignatureAlgorithm = Tagged(48, c)
         /\ Fit(48, c, PairCap)
         /\ Arcs(Inside(c, 1)) = Sha256Rsa
  <1>1. PICK id : Oid(Sha256Rsa) = Tagged(6, id) /\ Fit(6, id, TextCap) /\ Arcs(id) = Sha256Rsa
    BY Identifiers, OidFits
  <1> DEFINE c == Concat[<<Tagged(6, id), Tagged(5, <<>>)>>]
  <1>2. SignatureAlgorithm = Tagged(48, c)
    BY <1>1, Constants, Zenon DEF SignatureAlgorithm, SequenceOf
  <1>3. Fit(5, <<>>, TextCap)
    BY Constants, Tags, Zenon
  <1>4. c = Concat[<<Tagged(6, id), Tagged(5, <<>>)>>]
    BY Zenon
  <1> HIDE DEF c
  <1>5. (\A t \in Byte : Fit(t, c, PairCap)) /\ Inside(c, 1) = id
    BY <1>1, <1>3, <1>4, Rooms, TwoIn
  <1>6. Fit(48, c, PairCap)
    BY <1>5, Tags, Zenon
  <1> QED BY <1>1, <1>2, <1>5, <1>6, Zenon

\* A name, three levels down.
LEMMA NameReads ==
  ASSUME NEW name \in Buffer, Len(name) <= TextCap
  PROVE  \E c : /\ DistinguishedName(name) = Tagged(48, c)
                /\ Fit(48, c, FieldCap)
                /\ Inside(Inside(Inside(c, 1), 1), 2) = name
  <1>1. PICK id : Oid(CommonName) = Tagged(6, id) /\ Fit(6, id, TextCap)
    BY Identifiers, OidFits
  <1> DEFINE a == Concat[<<Tagged(6, id), Tagged(12, name)>>]
             s == Tagged(48, a)
             c == Concat[<<Tagged(49, s)>>]
  <1>2. DistinguishedName(name) = Tagged(48, c)
    BY <1>1, Zenon DEF DistinguishedName, SequenceOf
  <1>3. c = Concat[<<Tagged(49, s)>>]
    BY Zenon
  <1> HIDE DEF c
  <1>4. s = Tagged(48, a)
    BY Zenon
  <1> HIDE DEF s
  <1>5. a = Concat[<<Tagged(6, id), Tagged(12, name)>>]
    BY Zenon
  <1> HIDE DEF a
  <1>6. Fit(12, name, TextCap)
    BY Tags, Zenon DEF Fit
  <1>7. (\A t \in Byte : Fit(t, a, PairCap)) /\ Inside(a, 2) = name
    BY <1>1, <1>5, <1>6, Rooms, TwoIn
  <1>8. Fit(48, a, PairCap)
    BY <1>7, Tags, Zenon
  <1>9. (\A t \in Byte : Fit(t, s, SetCap)) /\ Inside(s, 1) = a
    BY <1>4, <1>8, Rooms, FitTagged
  <1>10. Fit(49, s, SetCap)
    BY <1>9, Tags, Zenon
  <1>11. (\A t \in Byte : Fit(t, c, FieldCap)) /\ Inside(c, 1) = s
    BY <1>3, <1>10, Rooms, OneIn
  <1>12. Fit(48, c, FieldCap)
    BY <1>11, Tags, Zenon
  <1> QED BY <1>2, <1>7, <1>9, <1>11, <1>12, Zenon

\* The validity.
LEMMA ValidityReads ==
  ASSUME NEW from, Time(from), NEW until, Time(until)
  PROVE  \E c : /\ SequenceOf(<<UtcTime(from), UtcTime(until)>>) = Tagged(48, c)
                /\ Fit(48, c, PairCap)
                /\ Inside(c, 1) = TimeContent(from)
                /\ Inside(c, 2) = TimeContent(until)
  <1> DEFINE f == TimeContent(from)
             u == TimeContent(until)
             c == Concat[<<Tagged(23, f), Tagged(23, u)>>]
  <1>1. /\ UtcTime(from) = Tagged(23, f) /\ f \in Buffer /\ Len(f) = 13
        /\ UtcTime(until) = Tagged(23, u) /\ u \in Buffer /\ Len(u) = 13
    BY TimeReads, Zenon
  <1>2. SequenceOf(<<UtcTime(from), UtcTime(until)>>) = Tagged(48, c)
    BY <1>1, Zenon DEF SequenceOf
  <1>3. c = Concat[<<Tagged(23, f), Tagged(23, u)>>]
    BY Zenon
  <1> HIDE DEF f, u, c
  <1>4. Len(f) <= TextCap /\ Len(u) <= TextCap
    BY <1>1 DEF TextCap
  <1>5. Fit(23, f, TextCap) /\ Fit(23, u, TextCap)
    BY <1>1, <1>4, Tags, Zenon DEF Fit
  <1>6. (\A t \in Byte : Fit(t, c, PairCap)) /\ Inside(c, 1) = f /\ Inside(c, 2) = u
    BY <1>3, <1>5, Rooms, TwoIn
  <1>7. Fit(48, c, PairCap)
    BY <1>6, Tags, Zenon
  <1> QED BY <1>2, <1>6, <1>7, Zenon DEF f, u

\* An extension: its identifier comes first and its value last.
IsExtension(c, id, value) ==
  /\ Fit(48, c, ExtensionCap)
  /\ Arcs(Inside(c, 1)) = id
  /\ Last(Parts[c]).content = value

\* A reader finds the identifier and the value of an extension.
LEMMA ExtensionReads ==
  ASSUME NEW id, Identifier(id), NEW critical \in BOOLEAN, NEW value, Fit(4, value, ValueCap)
  PROVE  \E c : Extension(id, critical, value) = Tagged(48, c) /\ IsExtension(c, id, value)
  <1>1. PICK i : Oid(id) = Tagged(6, i) /\ Fit(6, i, TextCap) /\ Arcs(i) = id
    BY OidFits
  <1> DEFINE t == Tagged(6, i)
             o == Tagged(4, value)
  <1>2. Oid(id) = t /\ OctetString(value) = o
    BY <1>1, Zenon DEF OctetString
  <1>3. t = Tagged(6, i) /\ o = Tagged(4, value)
    BY Zenon
  <1> HIDE DEF t, o
  <1>4. Fit(6, i, ValueCap) /\ Fit(1, <<255>>, ValueCap)
    <2>1. Fit(6, i, ValueCap)
      BY <1>1, Monotone, FitMore
    <2> QED BY <2>1, Constants, Tags, Zenon
  <1>5. Item(4, value).content = value
    BY DEF Item
  <1>6. CASE critical = TRUE
    <2> DEFINE c == Concat[<<t, True, o>>]
    <2>1. <<Oid(id)>> \o (IF critical THEN <<True>> ELSE <<>>) \o <<OctetString(value)>> = <<t, True, o>>
      <3>1. (IF critical THEN <<True>> ELSE <<>>) = <<True>>
        BY <1>6, Zenon
      <3>2. <<t>> \o <<True>> \o <<o>> = <<t, True, o>>
        BY JoinThree
      <3> QED BY <3>1, <3>2, <1>2, Zenon
    <2>2. Extension(id, critical, value) = Tagged(48, c)
      BY <2>1, Zenon DEF Extension, SequenceOf
    <2>3. c = Concat[<<Tagged(6, i), Tagged(1, <<255>>), Tagged(4, value)>>]
      BY <1>3, Constants, Zenon
    <2> HIDE DEF c
    <2>4. /\ \A u \in Byte : Fit(u, c, ExtensionCap)
          /\ Parts[c] = <<Item(6, i), Item(1, <<255>>), Item(4, value)>>
          /\ Inside(c, 1) = i
      BY <1>4, <2>3, Rooms, ThreeIn
    <2>5. Last(Parts[c]) = Item(4, value)
      <3>1. Last(<<Item(6, i), Item(1, <<255>>), Item(4, value)>>) = Item(4, value)
        BY DEF Last
      <3> QED BY <3>1, <2>4, Zenon
    <2>6. IsExtension(c, id, value)
      BY <1>1, <1>5, <2>4, <2>5, Tags, Zenon DEF IsExtension
    <2> QED BY <2>2, <2>6, Zenon
  <1>7. CASE critical = FALSE
    <2> DEFINE c == Concat[<<t, o>>]
    <2>1. <<Oid(id)>> \o (IF critical THEN <<True>> ELSE <<>>) \o <<OctetString(value)>> = <<t, o>>
      <3>1. (IF critical THEN <<True>> ELSE <<>>) = <<>>
        BY <1>7, Zenon
      <3>2. <<t>> \o <<>> \o <<o>> = <<t, o>>
        BY NoneAfter, JoinTwo
      <3> QED BY <3>1, <3>2, <1>2, Zenon
    <2>2. Extension(id, critical, value) = Tagged(48, c)
      BY <2>1, Zenon DEF Extension, SequenceOf
    <2>3. c = Concat[<<Tagged(6, i), Tagged(4, value)>>]
      BY <1>3, Zenon
    <2> HIDE DEF c
    <2>4. /\ \A u \in Byte : Fit(u, c, ExtensionCap)
          /\ Parts[c] = <<Item(6, i), Item(4, value)>>
          /\ Inside(c, 1) = i
      BY <1>4, <2>3, Rooms, TwoIn
    <2>5. Last(Parts[c]) = Item(4, value)
      <3>1. Last(<<Item(6, i), Item(4, value)>>) = Item(4, value)
        BY DEF Last
      <3> QED BY <3>1, <2>4, Zenon
    <2>6. IsExtension(c, id, value)
      BY <1>1, <1>5, <2>4, <2>5, Tags, Zenon DEF IsExtension
    <2> QED BY <2>2, <2>6, Zenon
  <1> QED BY <1>6, <1>7, Zenon

\* What the certificate may be used for.
LEMMA UsagesRead ==
  ASSUME NEW v, v = SequenceOf(<<Oid(ClientAuth), Oid(ServerAuth)>>),
         NEW u, u = Parts[Inside(v, 1)]
  PROVE  /\ Fit(4, v, ValueCap)
         /\ [i \in DOMAIN u |-> Arcs(u[i].content)] = <<ClientAuth, ServerAuth>>
  <1>1. PICK i1 : Oid(ClientAuth) = Tagged(6, i1) /\ Fit(6, i1, TextCap) /\ Arcs(i1) = ClientAuth
    BY Identifiers, OidFits
  <1>2. PICK i2 : Oid(ServerAuth) = Tagged(6, i2) /\ Fit(6, i2, TextCap) /\ Arcs(i2) = ServerAuth
    BY Identifiers, OidFits
  <1> DEFINE c == Concat[<<Tagged(6, i1), Tagged(6, i2)>>]
  <1>3. v = Tagged(48, c)
    BY <1>1, <1>2, Zenon DEF SequenceOf
  <1>4. c = Concat[<<Tagged(6, i1), Tagged(6, i2)>>]
    BY Zenon
  <1> HIDE DEF c
  <1>5. (\A t \in Byte : Fit(t, c, PairCap)) /\ Parts[c] = <<Item(6, i1), Item(6, i2)>>
    BY <1>1, <1>2, <1>4, Rooms, TwoIn
  <1>6. Fit(48, c, PairCap)
    BY <1>5, Tags, Zenon
  <1>7. (\A t \in Byte : Fit(t, v, ValueCap)) /\ Inside(v, 1) = c
    BY <1>3, <1>6, Rooms, FitTagged
  <1>8. u = <<Item(6, i1), Item(6, i2)>>
    BY <1>5, <1>7, Zenon
  <1>9. Item(6, i1).content = i1 /\ Item(6, i2).content = i2
    BY DEF Item
  <1>10. DOMAIN u = 1 .. 2 /\ u[1] = Item(6, i1) /\ u[2] = Item(6, i2)
    BY <1>8
  <1> DEFINE r == [i \in DOMAIN u |-> Arcs(u[i].content)]
             s == <<ClientAuth, ServerAuth>>
             V == {ClientAuth, ServerAuth}
  <1>11. s \in Seq(V) /\ Len(s) = 2 /\ s[1] = ClientAuth /\ s[2] = ServerAuth
    OBVIOUS
  <1>12. ClientAuth \in V /\ ServerAuth \in V
    BY Zenon
  <1>13. r = [i \in 1 .. 2 |-> Arcs(u[i].content)]
    BY <1>10, Zenon
  <1> HIDE DEF s, V, r
  <1>14. \A i \in 1 .. 2 : r[i] = s[i] /\ r[i] \in V
    <2>1. \A i \in 1 .. 2 : i = 1 \/ i = 2
      OBVIOUS
    <2>2. 1 \in 1 .. 2 /\ 2 \in 1 .. 2
      OBVIOUS
    <2>3. Arcs(u[1].content) = ClientAuth /\ Arcs(u[2].content) = ServerAuth
      BY <1>1, <1>2, <1>9, <1>10, Zenon
    <2>4. r[1] = ClientAuth /\ r[2] = ServerAuth
      BY <1>13, <2>2, <2>3, Zenon
    <2> QED BY <1>11, <1>12, <2>1, <2>4, Zenon
  <1>15. r \in [1 .. 2 -> V]
    <2>1. \A i \in 1 .. 2 : Arcs(u[i].content) \in V
      BY <1>13, <1>14, Zenon
    <2> QED BY <1>13, <2>1, Zenon
  <1>16. r \in Seq(V) /\ Len(r) = 2
    <2>1. 2 \in Nat
      OBVIOUS
    <2> QED BY <1>15, <2>1, Tabled
  <1>17. r = s
    <2>1. Len(r) = Len(s) /\ \A i \in 1 .. Len(r) : r[i] = s[i]
      BY <1>11, <1>14, <1>16, Zenon
    <2> QED BY <1>11, <1>16, <2>1, SeqEqual
  <1> QED BY <1>7, <1>17, Tags, Zenon DEF r, s

\* The alternative names, encoded and as a reader has them.
KindParts(tag, texts) == [i \in DOMAIN texts |-> Tagged(tag, texts[i])]
KindItems(tag, texts) == [i \in DOMAIN texts |-> [tag |-> tag, content |-> texts[i]]]
AltParts(dns, adr) == KindParts(130, dns) \o KindParts(135, adr)
AltItems(dns, adr) == KindItems(130, dns) \o KindItems(135, adr)

\* Short texts.
Texts(t) == t \in Seq(Buffer) /\ \A i \in DOMAIN t : Len(t[i]) <= TextCap

\* A part is the item encoded.
Encoding(part, item) ==
  /\ Len(item.content) <= TextCap
  /\ Len(item.content) < Limit
  /\ part = Tagged(item.tag, item.content)

\* Names of one kind.
LEMMA KindEncoded ==
  ASSUME NEW tag \in Byte, NEW texts, Texts(texts),
         NEW parts, parts = KindParts(tag, texts), NEW items, items = KindItems(tag, texts)
  PROVE  /\ parts \in Seq(Buffer) /\ items \in Seq(Part)
         /\ Len(parts) = Len(texts) /\ Len(items) = Len(texts)
         /\ \A i \in 1 .. Len(texts) : Encoding(parts[i], items[i])
  <1> DEFINE n == Len(texts)
  <1>1. texts \in Seq(Buffer)
    BY Zenon DEF Texts
  <1>2. n \in Nat /\ DOMAIN texts = 1 .. n
    BY <1>1, LenProperties
  <1> HIDE DEF n
  <1>3. TextCap \in Nat /\ TextCap < Limit
    BY DEF Limit, TextCap
  <1>4. \A i \in 1 .. n : Ready(tag, texts[i], TextCap)
    <2> SUFFICES ASSUME NEW i \in 1 .. n PROVE Ready(tag, texts[i], TextCap)
      OBVIOUS
    <2>1. Len(texts[i]) <= TextCap
      BY <1>2, Zenon DEF Texts
    <2>2. texts[i] \in Buffer
      BY <1>1, <1>2, ElementOfSeq DEF n
    <2>3. Fit(tag, texts[i], TextCap)
      BY <2>1, <2>2, Zenon DEF Fit
    <2> QED BY <1>3, <2>3, FitItem, Zenon
  <1>5. parts = [i \in 1 .. n |-> Tagged(tag, texts[i])] /\ items = [i \in 1 .. n |-> Item(tag, texts[i])]
    BY <1>2, Zenon DEF Item, KindParts, KindItems
  <1>6. parts \in [1 .. n -> Buffer]
    <2>1. \A i \in 1 .. n : Tagged(tag, texts[i]) \in Buffer
      BY <1>4, Zenon DEF Ready
    <2> QED BY <1>5, <2>1, Zenon
  <1>7. items \in [1 .. n -> Part]
    <2>1. \A i \in 1 .. n : Item(tag, texts[i]) \in Part
      BY <1>4, Zenon DEF Ready
    <2> QED BY <1>5, <2>1, Zenon
  <1>8. parts \in Seq(Buffer) /\ Len(parts) = n
    BY <1>2, <1>6, Tabled
  <1>9. items \in Seq(Part) /\ Len(items) = n
    BY <1>2, <1>7, Tabled
  <1>10. \A i \in 1 .. n : parts[i] = Tagged(tag, texts[i]) /\ items[i] = Item(tag, texts[i])
    BY <1>5, Zenon
  <1>11. \A i \in 1 .. n : Encoding(parts[i], items[i])
    <2>1. \A i \in 1 .. n : Encoding(Tagged(tag, texts[i]), Item(tag, texts[i]))
      <3> SUFFICES ASSUME NEW i \in 1 .. n PROVE Encoding(Tagged(tag, texts[i]), Item(tag, texts[i]))
        OBVIOUS
      <3>1. Ready(tag, texts[i], TextCap)
        BY <1>4, Zenon
      <3> QED BY <3>1, Zenon DEF Ready, Encoding
    <2> QED BY <1>10, <2>1, Zenon
  <1> QED BY <1>8, <1>9, <1>11, Zenon DEF n

\* The alternative names are read as they were put in.
LEMMA AltNamesRead ==
  ASSUME NEW dns, Texts(dns), NEW adr, Texts(adr), Len(dns) + Len(adr) \in 1 .. NamesCap,
         NEW v, v = SequenceOf(AltParts(dns, adr))
  PROVE  /\ Fit(4, v, ValueCap)
         /\ Parts[Inside(v, 1)] = AltItems(dns, adr)
         /\ AltItems(dns, adr) # <<>>
  <1> DEFINE p1 == KindParts(130, dns)
             p2 == KindParts(135, adr)
             i1 == KindItems(130, dns)
             i2 == KindItems(135, adr)
             parts == p1 \o p2
             items == i1 \o i2
             c == Concat[parts]
  <1>1. /\ p1 \in Seq(Buffer) /\ i1 \in Seq(Part) /\ Len(p1) = Len(dns) /\ Len(i1) = Len(dns)
        /\ \A i \in 1 .. Len(dns) : Encoding(p1[i], i1[i])
    BY Tags, KindEncoded
  <1>2. /\ p2 \in Seq(Buffer) /\ i2 \in Seq(Part) /\ Len(p2) = Len(adr) /\ Len(i2) = Len(adr)
        /\ \A i \in 1 .. Len(adr) : Encoding(p2[i], i2[i])
    BY Tags, KindEncoded
  <1>3. AltParts(dns, adr) = parts /\ AltItems(dns, adr) = items
    BY Zenon DEF AltParts, AltItems
  <1>4. v = Tagged(48, c)
    BY <1>3, Zenon DEF SequenceOf
  <1>5. dns \in Seq(Buffer) /\ adr \in Seq(Buffer)
    BY Zenon DEF Texts
  <1>6. Len(dns) \in Nat /\ Len(adr) \in Nat
    BY <1>5, LenProperties
  <1> HIDE DEF p1, p2, i1, i2
  <1>7. p1 \in Seq(Buffer) /\ p2 \in Seq(Buffer) /\ i1 \in Seq(Part) /\ i2 \in Seq(Part)
    BY <1>1, <1>2, Zenon
  <1>8. /\ parts \in Seq(Buffer) /\ Len(parts) = Len(p1) + Len(p2)
        /\ \A i \in 1 .. Len(p1) : parts[i] = p1[i]
        /\ \A i \in 1 .. Len(p2) : parts[Len(p1) + i] = p2[i]
    BY <1>7, Joined
  <1>9. /\ items \in Seq(Part) /\ Len(items) = Len(i1) + Len(i2)
        /\ \A i \in 1 .. Len(i1) : items[i] = i1[i]
        /\ \A i \in 1 .. Len(i2) : items[Len(i1) + i] = i2[i]
    BY <1>7, Joined
  <1> HIDE DEF parts, items
  <1>10. Len(parts) = Len(dns) + Len(adr) /\ Len(items) = Len(dns) + Len(adr)
    BY <1>1, <1>2, <1>8, <1>9, Zenon
  <1>11. \A i \in 1 .. Len(items) : Encoding(parts[i], items[i])
    <2> SUFFICES ASSUME NEW i \in 1 .. Len(items) PROVE Encoding(parts[i], items[i])
      OBVIOUS
    <2>1. CASE i \in 1 .. Len(dns)
      BY <2>1, <1>1, <1>8, <1>9, Zenon
    <2>2. CASE i \notin 1 .. Len(dns)
      <3> DEFINE j == i - Len(dns)
                 l == Len(dns)
                 k == Len(adr)
      <3>1. l \in Nat /\ k \in Nat /\ i \in 1 .. l + k /\ i \notin 1 .. l
        BY <1>6, <1>10, <2>2, Zenon
      <3> HIDE DEF l, k
      <3>2. i - l \in 1 .. k /\ l + (i - l) = i
        BY <3>1
      <3>3. j \in 1 .. Len(adr) /\ Len(dns) + j = i
        BY <3>2, Zenon DEF l, k
      <3> HIDE DEF j
      <3>4. parts[i] = p2[j]
        BY <3>3, <1>1, <1>2, <1>8, Zenon
      <3>5. items[i] = i2[j]
        BY <3>3, <1>1, <1>2, <1>9, Zenon
      <3> QED BY <3>3, <3>4, <3>5, <1>2, Zenon
    <2> QED BY <2>1, <2>2
  <1>12. Encodes(parts, items)
    BY <1>8, <1>9, <1>10, <1>11, Zenon DEF Encodes, Encoding
  <1>13. TextCap \in Nat /\ \A i \in 1 .. Len(items) : Len(items[i].content) <= TextCap
    BY <1>11, Monotone, Zenon DEF Encoding
  <1>14. c \in Buffer /\ Len(c) \in Nat /\ Len(c) <= Len(items) * (TextCap + 5) /\ Parts[c] = items
    BY <1>12, <1>13, SequenceReads
  <1>15. Fit(48, c, AltCap)
    <2> DEFINE n == Len(items)
               k == Len(c)
    <2>1. n \in 1 .. NamesCap /\ k \in Nat /\ k <= n * (TextCap + 5)
      BY <1>10, <1>14
    <2> HIDE DEF n, k
    <2>2. n \in 1 .. 100 /\ k \in Nat /\ k <= n * 505
      BY <2>1 DEF NamesCap, TextCap
    <2>3. k <= AltCap
      BY <2>2 DEF AltCap
    <2> QED BY <1>14, <2>3, Tags, Zenon DEF Fit, k
  <1> HIDE DEF c
  <1>16. (\A t \in Byte : Fit(t, v, ValueCap)) /\ Inside(v, 1) = c
    BY <1>4, <1>15, Rooms, FitTagged
  <1>17. items # <<>>
    <2>1. Len(items) # 0
      BY <1>6, <1>10
    <2> QED BY <2>1, NoneIn, Zenon
  <1> QED BY <1>3, <1>14, <1>16, <1>17, Tags, Zenon

\* The extensions: the values of three of them as a reader has them.
AreExtensions(x, dns, adr, e1, e2, e3, e4, v1, v2, v3, v4) ==
  /\ Parts[x] = <<Item(48, e1), Item(48, e2), Item(48, e3), Item(48, e4)>>
  /\ IsExtension(e1, BasicConstraints, v1)
  /\ IsExtension(e2, KeyUsage, v2)
  /\ IsExtension(e3, ExtKeyUsage, v3)
  /\ IsExtension(e4, SubjectAltName, v4)
  /\ Inside(v1, 1) = <<>>
  /\ LET u == Parts[Inside(v3, 1)]
     IN  [i \in DOMAIN u |-> Arcs(u[i].content)] = <<ClientAuth, ServerAuth>>
  /\ Parts[Inside(v4, 1)] = AltItems(dns, adr)

\* The contents of the extensions for these names.
IsExtensions(x, dns, adr) ==
  /\ Fit(48, x, ExtensionsCap)
  /\ \E e1, e2, e3, e4, v1, v2, v3, v4 : AreExtensions(x, dns, adr, e1, e2, e3, e4, v1, v2, v3, v4)

\* A reader finds the four extensions, each with its identifier and value.
LEMMA ExtensionsRead ==
  ASSUME NEW dns, Texts(dns), NEW adr, Texts(adr), Len(dns) + Len(adr) \in 1 .. NamesCap
  PROVE  \E x : Extensions(dns, adr) = Tagged(48, x) /\ IsExtensions(x, dns, adr)
  <1> DEFINE v1 == SequenceOf(<<>>)
             v2 == BitString(<<160>>, 5)
             v3 == SequenceOf(<<Oid(ClientAuth), Oid(ServerAuth)>>)
             v4 == SequenceOf(AltParts(dns, adr))
             u3 == Parts[Inside(v3, 1)]
  <1>1. Fit(4, v1, ValueCap) /\ Inside(v1, 1) = <<>>
    <2>1. v1 = Tagged(48, <<>>)
      BY NoneIn, Zenon DEF SequenceOf
    <2> HIDE DEF v1
    <2>2. Fit(48, <<>>, TextCap)
      BY Constants, Tags, Zenon
    <2>3. (\A t \in Byte : Fit(t, v1, ValueCap)) /\ Inside(v1, 1) = <<>>
      BY <2>1, <2>2, Rooms, FitTagged
    <2> QED BY <2>3, Tags, Zenon
  <1>2. Fit(4, v2, ValueCap)
    <2> DEFINE w == <<5>> \o <<160>>
    <2>1. v2 = Tagged(3, w)
      BY Zenon DEF BitString
    <2>2. w = <<5, 160>>
      BY JoinTwo
    <2>3. <<5, 160>> \in Seq(Byte) /\ Len(<<5, 160>>) = 2
      BY Tags
    <2> HIDE DEF v2, w
    <2>4. Len(w) <= TextCap
      BY <2>2, <2>3 DEF TextCap
    <2>5. Fit(3, w, TextCap)
      BY <2>2, <2>3, <2>4, Tags, Zenon DEF Fit, Buffer
    <2>6. \A t \in Byte : Fit(t, v2, ValueCap)
      BY <2>1, <2>5, Rooms, FitTagged
    <2> QED BY <2>6, Tags, Zenon
  <1>3. Fit(4, v3, ValueCap) /\ [i \in DOMAIN u3 |-> Arcs(u3[i].content)] = <<ClientAuth, ServerAuth>>
    BY UsagesRead
  <1>4. Fit(4, v4, ValueCap) /\ Parts[Inside(v4, 1)] = AltItems(dns, adr)
    BY AltNamesRead
  <1>5. Extensions(dns, adr) =
          SequenceOf(<<Extension(BasicConstraints, TRUE, v1), Extension(KeyUsage, TRUE, v2),
                       Extension(ExtKeyUsage, FALSE, v3), Extension(SubjectAltName, FALSE, v4)>>)
    BY Zenon DEF Extensions, AltParts, KindParts
  <1>6. u3 = Parts[Inside(v3, 1)]
    BY Zenon
  <1> HIDE DEF v1, v2, v3, v4, u3
  <1>7. PICK e1 : /\ Extension(BasicConstraints, TRUE, v1) = Tagged(48, e1)
                  /\ IsExtension(e1, BasicConstraints, v1)
    BY <1>1, Identifiers, ExtensionReads
  <1>8. PICK e2 : Extension(KeyUsage, TRUE, v2) = Tagged(48, e2) /\ IsExtension(e2, KeyUsage, v2)
    BY <1>2, Identifiers, ExtensionReads
  <1>9. PICK e3 : Extension(ExtKeyUsage, FALSE, v3) = Tagged(48, e3) /\ IsExtension(e3, ExtKeyUsage, v3)
    BY <1>3, Identifiers, ExtensionReads
  <1>10. PICK e4 : /\ Extension(SubjectAltName, FALSE, v4) = Tagged(48, e4)
                   /\ IsExtension(e4, SubjectAltName, v4)
    BY <1>4, Identifiers, ExtensionReads
  <1> DEFINE x == Concat[<<Tagged(48, e1), Tagged(48, e2), Tagged(48, e3), Tagged(48, e4)>>]
  <1>11. Extensions(dns, adr) = Tagged(48, x)
    BY <1>5, <1>7, <1>8, <1>9, <1>10, Zenon DEF SequenceOf
  <1>12. x = Concat[<<Tagged(48, e1), Tagged(48, e2), Tagged(48, e3), Tagged(48, e4)>>]
    BY Zenon
  <1> HIDE DEF x
  <1>13. /\ Fit(48, e1, ExtensionCap) /\ Fit(48, e2, ExtensionCap)
         /\ Fit(48, e3, ExtensionCap) /\ Fit(48, e4, ExtensionCap)
    BY <1>7, <1>8, <1>9, <1>10, Zenon DEF IsExtension
  <1>14. /\ \A t \in Byte : Fit(t, x, ExtensionsCap)
         /\ Parts[x] = <<Item(48, e1), Item(48, e2), Item(48, e3), Item(48, e4)>>
    <2>1. Room(4, ExtensionCap, ExtensionsCap)
      BY Rooms, Zenon
    <2>2. FourFit(48, e1, 48, e2, 48, e3, 48, e4, ExtensionCap)
      BY <1>13, Zenon DEF FourFit
    <2> QED BY <1>12, <2>1, <2>2, FourIn
  <1>15. Fit(48, x, ExtensionsCap)
    BY <1>14, Tags, Zenon
  <1>16. IsExtensions(x, dns, adr)
    <2>1. [i \in DOMAIN Parts[Inside(v3, 1)] |-> Arcs(Parts[Inside(v3, 1)][i].content)] = <<ClientAuth, ServerAuth>>
      BY <1>3, Zenon DEF u3
    <2>2. AreExtensions(x, dns, adr, e1, e2, e3, e4, v1, v2, v3, v4)
      BY <1>1, <1>4, <1>7, <1>8, <1>9, <1>10, <1>14, <2>1, Zenon DEF AreExtensions
    <2> QED BY <1>15, <2>2, Zenon DEF IsExtensions
  <1> QED BY <1>11, <1>16, Zenon

-----------------------------------------------------------------------------
(* The certificate *)

\* What is known of the request for a certificate.
LEMMA Asked ==
  ASSUME NEW o, Permitted(o)
  PROVE  /\ Serial(o.serial)
         /\ o.name \in Buffer /\ Len(o.name) <= TextCap
         /\ Time(o.from) /\ Time(o.until)
         /\ Texts(o.dnsNames) /\ Texts(o.addresses)
         /\ Len(o.dnsNames) + Len(o.addresses) \in 1 .. NamesCap
  <1>1. /\ o.serial \in Seq(Byte) /\ o.name \in Buffer
        /\ o.from \in [1 .. 6 -> Nat] /\ o.until \in [1 .. 6 -> Nat]
        /\ o.dnsNames \in Seq(Buffer) /\ o.addresses \in Seq(Buffer)
    BY DEF Permitted, Request
  <1>2. /\ Len(o.serial) = 16 /\ Len(o.name) <= TextCap
        /\ Len(o.dnsNames) + Len(o.addresses) \in 1 .. NamesCap
        /\ \A i \in DOMAIN o.dnsNames : Len(o.dnsNames[i]) <= TextCap
        /\ \A i \in DOMAIN o.addresses : Len(o.addresses[i]) <= TextCap
        /\ \A i \in 2 .. 6 : o.from[i] < 100 /\ o.until[i] < 100
    <2>1. Sized(o) /\ Dated(o)
      BY Zenon DEF Permitted
    <2>2. /\ Len(o.serial) = 16 /\ Len(o.name) <= TextCap
          /\ Len(o.dnsNames) + Len(o.addresses) \in 1 .. NamesCap
          /\ \A i \in DOMAIN o.dnsNames : Len(o.dnsNames[i]) <= TextCap
          /\ \A i \in DOMAIN o.addresses : Len(o.addresses[i]) <= TextCap
      BY <2>1, Zenon DEF Sized
    <2>3. \A i \in 2 .. 6 : o.from[i] < 100 /\ o.until[i] < 100
      <3> SUFFICES ASSUME NEW date \in {o.from, o.until}, NEW i \in 2 .. 6 PROVE date[i] < 100
        OBVIOUS
      <3>1. date \in [1 .. 6 -> Nat]
        BY <1>1
      <3>2. date[2] \in 1 .. 12 /\ date[3] \in 1 .. 31 /\ date[4] < 24 /\ date[5] < 60 /\ date[6] < 60
        BY <2>1 DEF Dated
      <3>3. date[2] < 100 /\ date[3] < 100 /\ date[4] < 100 /\ date[5] < 100 /\ date[6] < 100
        BY <3>1, <3>2
      <3> QED BY <3>3
    <2> QED BY <2>2, <2>3, Zenon
  <1>3. Serial(o.serial)
    BY <1>1, <1>2 DEF Serial
  <1>4. Time(o.from) /\ Time(o.until)
    BY <1>1, <1>2 DEF Time
  <1>5. Texts(o.dnsNames) /\ Texts(o.addresses)
    BY <1>1, <1>2, Zenon DEF Texts
  <1> QED BY <1>1, <1>2, <1>3, <1>4, <1>5

\* The version, the public key and the signature are opaque.
LEMMA Opaque ==
  /\ Fit(160, Tagged(2, <<2>>), ValueCap) /\ Inside(Tagged(2, <<2>>), 1) = <<2>>
  /\ Integer(<<2>>) = Tagged(2, <<2>>)
  /\ Fit(48, PublicKey, TextCap)
  /\ Fit(3, <<0>> \o Signature, TextCap)
  <1>1. <<2>> \in Seq(Byte) /\ Len(<<2>>) = 1 /\ ~(<<2>>[1] >= 128)
    BY Tags
  <1>2. Integer(<<2>>) = Tagged(2, <<2>>)
    BY <1>1, Zenon DEF Integer, Padded
  <1>3. Len(<<2>>) <= TextCap
    BY <1>1 DEF TextCap
  <1>4. Fit(2, <<2>>, TextCap)
    BY <1>1, <1>3, Tags, Zenon DEF Fit, Buffer
  <1>5. (\A t \in Byte : Fit(t, Tagged(2, <<2>>), ValueCap)) /\ Inside(Tagged(2, <<2>>), 1) = <<2>>
    BY <1>4, Rooms, FitTagged
  <1>6. Fit(160, Tagged(2, <<2>>), ValueCap)
    BY <1>5, Tags, Zenon
  <1>7. Fit(48, PublicKey, TextCap)
    <2> DEFINE k == PublicKey
    <2>1. PICK m \in Nat : m = 290
      OBVIOUS
    <2>2. k \in [1 .. m -> Byte]
      BY <2>1 DEF PublicKey, Byte
    <2> HIDE DEF k
    <2>3. k \in Seq(Byte) /\ Len(k) = m
      BY <2>2, Tabled
    <2>4. Len(k) <= TextCap
      BY <2>1, <2>3 DEF TextCap
    <2> QED BY <2>3, <2>4, Tags, Zenon DEF Fit, Buffer, k
  <1>8. Fit(3, <<0>> \o Signature, TextCap)
    <2> DEFINE s == Signature
               z == <<0>>
               w == z \o s
    <2>1. PICK m \in Nat : m = 256
      OBVIOUS
    <2>2. s \in [1 .. m -> Byte]
      BY <2>1 DEF Signature, Byte
    <2>3. z \in Seq(Byte) /\ Len(z) = 1
      BY DEF Byte
    <2> HIDE DEF s, z
    <2>4. s \in Seq(Byte) /\ Len(s) = m
      BY <2>2, Tabled
    <2>5. z \in Seq(Byte) /\ s \in Seq(Byte)
      BY <2>3, <2>4
    <2>6. w \in Seq(Byte) /\ Len(w) = Len(z) + Len(s)
      BY <2>5, Joined
    <2> HIDE DEF w
    <2>7. Len(w) <= TextCap
      BY <2>1, <2>3, <2>4, <2>6 DEF TextCap
    <2>8. Fit(3, w, TextCap)
      BY <2>6, <2>7, Tags, Zenon DEF Fit, Buffer
    <2> QED BY <2>8, Zenon DEF w, s, z
  <1> QED BY <1>2, <1>5, <1>6, <1>7, <1>8, Zenon

\* A certificate with these contents of its fields.
Consists(cert, c, signed, version, serial, algorithm, name, times, extensions) ==
  /\ Len(Parts[cert]) = 1
  /\ Inside(cert, 1) = c
  /\ Len(Parts[c]) = 3
  /\ Inside(c, 1) = signed /\ Inside(c, 2) = algorithm /\ Inside(c, 3) = <<0>> \o Signature
  /\ Len(Parts[signed]) = 8
  /\ Inside(signed, 1) = version /\ Inside(signed, 2) = serial /\ Inside(signed, 3) = algorithm
  /\ Inside(signed, 4) = name /\ Inside(signed, 5) = times /\ Inside(signed, 6) = name
  /\ Inside(signed, 7) = PublicKey /\ Inside(signed, 8) = extensions

\* A reader finds the fields of a generated certificate.
LEMMA CertificateReads ==
  ASSUME NEW o, Permitted(o), NEW cert, cert = Generated(o)
  PROVE  \E c, signed, algorithm, name, times, x :
           /\ Consists(cert, c, signed, Tagged(2, <<2>>), Padded(o.serial), algorithm, name, times, Tagged(48, x))
           /\ Arcs(Inside(algorithm, 1)) = Sha256Rsa
           /\ Inside(Inside(Inside(name, 1), 1), 2) = o.name
           /\ Inside(times, 1) = TimeContent(o.from) /\ Inside(times, 2) = TimeContent(o.until)
           /\ Inside(Tagged(48, x), 1) = x
           /\ IsExtensions(x, o.dnsNames, o.addresses)
  <1>1. PICK a : SignatureAlgorithm = Tagged(48, a) /\ Fit(48, a, PairCap) /\ Arcs(Inside(a, 1)) = Sha256Rsa
    BY AlgorithmReads
  <1>2. PICK n : /\ DistinguishedName(o.name) = Tagged(48, n) /\ Fit(48, n, FieldCap)
                 /\ Inside(Inside(Inside(n, 1), 1), 2) = o.name
    BY Asked, NameReads
  <1>3. PICK t : /\ SequenceOf(<<UtcTime(o.from), UtcTime(o.until)>>) = Tagged(48, t) /\ Fit(48, t, PairCap)
                 /\ Inside(t, 1) = TimeContent(o.from) /\ Inside(t, 2) = TimeContent(o.until)
    <2>1. Time(o.from) /\ Time(o.until)
      BY Asked, Zenon
    <2> QED BY <2>1, ValidityReads
  <1>4. PICK x : /\ Extensions(o.dnsNames, o.addresses) = Tagged(48, x)
                 /\ IsExtensions(x, o.dnsNames, o.addresses)
    BY Asked, ExtensionsRead
  <1> DEFINE v == Tagged(2, <<2>>)
             p == Padded(o.serial)
             X == Tagged(48, x)
             g == <<0>> \o Signature
             signed == Concat[<<Tagged(160, v), Tagged(2, p), Tagged(48, a), Tagged(48, n), Tagged(48, t),
                                Tagged(48, n), Tagged(48, PublicKey), Tagged(163, X)>>]
             c == Concat[<<Tagged(48, signed), Tagged(48, a), Tagged(3, g)>>]
  <1>5. cert = Tagged(48, c)
    BY <1>1, <1>2, <1>3, <1>4, Opaque, Zenon DEF Generated, SequenceOf, Integer, Spki, BitString
  <1>6. c = Concat[<<Tagged(48, signed), Tagged(48, a), Tagged(3, g)>>]
    BY Zenon
  <1> HIDE DEF c
  <1>7. signed = Concat[<<Tagged(160, v), Tagged(2, p), Tagged(48, a), Tagged(48, n), Tagged(48, t),
                          Tagged(48, n), Tagged(48, PublicKey), Tagged(163, X)>>]
    BY Zenon
  <1>8. Fit(160, v, ValueCap) /\ Fit(3, g, TextCap)
    BY Opaque, Zenon
  <1>9. X = Tagged(48, x)
    BY Zenon
  <1> HIDE DEF signed, v, X, g
  <1>10. Fit(2, p, TextCap)
    <2>1. p \in Buffer /\ Len(p) <= 17
      BY Asked, SerialReads
    <2> HIDE DEF p
    <2>2. Len(p) \in Nat
      BY <2>1, LenProperties DEF Buffer
    <2>3. Len(p) <= TextCap
      BY <2>1, <2>2 DEF TextCap
    <2> QED BY <2>1, <2>3, Tags, Zenon DEF Fit
  <1> HIDE DEF p
  <1>11. (\A u \in Byte : Fit(u, X, PartCap)) /\ Inside(X, 1) = x
    <2>1. Fit(48, x, ExtensionsCap)
      BY <1>4, Zenon DEF IsExtensions
    <2> QED BY <1>9, <2>1, Rooms, FitTagged
  <1>12. EightFit(160, v, 2, p, 48, a, 48, n, 48, t, 48, n, 48, PublicKey, 163, X, PartCap)
    <2>1. Fit(160, v, PartCap)
      BY <1>8, Monotone, FitMore
    <2>2. Fit(2, p, PartCap)
      BY <1>10, Monotone, FitMore
    <2>3. Fit(48, a, PartCap) /\ Fit(48, n, PartCap) /\ Fit(48, t, PartCap)
      BY <1>1, <1>2, <1>3, Monotone, FitMore
    <2>4. Fit(48, PublicKey, PartCap)
      BY Opaque, Monotone, FitMore
    <2>5. Fit(163, X, PartCap)
      BY <1>11, Tags, Zenon
    <2> QED BY <2>1, <2>2, <2>3, <2>4, <2>5, Zenon DEF EightFit
  <1>13. /\ \A u \in Byte : Fit(u, signed, SignedCap)
         /\ Parts[signed] = <<Item(160, v), Item(2, p), Item(48, a), Item(48, n), Item(48, t),
                              Item(48, n), Item(48, PublicKey), Item(163, X)>>
         /\ Inside(signed, 1) = v /\ Inside(signed, 2) = p /\ Inside(signed, 3) = a
         /\ Inside(signed, 4) = n /\ Inside(signed, 5) = t /\ Inside(signed, 6) = n
         /\ Inside(signed, 7) = PublicKey /\ Inside(signed, 8) = X
    <2>1. Room(8, PartCap, SignedCap)
      BY Rooms, Zenon
    <2> QED BY <1>7, <1>12, <2>1, EightIn
  <1>14. Len(Parts[signed]) = 8
    BY <1>13
  <1>15. Fit(48, signed, SignedCap) /\ Fit(48, a, SignedCap) /\ Fit(3, g, SignedCap)
    <2>1. Fit(48, signed, SignedCap)
      BY <1>13, Tags, Zenon
    <2>2. Fit(48, a, SignedCap)
      BY <1>1, Monotone, FitMore
    <2>3. Fit(3, g, SignedCap)
      BY <1>8, Monotone, FitMore
    <2> QED BY <2>1, <2>2, <2>3, Zenon
  <1>16. /\ \A u \in Byte : Fit(u, c, CertificateCap)
         /\ Parts[c] = <<Item(48, signed), Item(48, a), Item(3, g)>>
         /\ Inside(c, 1) = signed /\ Inside(c, 2) = a /\ Inside(c, 3) = g
    <2>1. Room(3, SignedCap, CertificateCap)
      BY Rooms, Zenon
    <2> QED BY <1>6, <1>15, <2>1, ThreeIn
  <1>17. Len(Parts[c]) = 3
    BY <1>16
  <1>18. Len(Parts[cert]) = 1 /\ Inside(cert, 1) = c
    <2>1. c \in Buffer /\ Len(c) <= CertificateCap
      BY <1>16, Tags, Zenon DEF Fit
    <2>2. Len(c) \in Nat
      BY <2>1, LenProperties DEF Buffer
    <2>3. Len(c) < Limit
      BY <2>1, <2>2 DEF CertificateCap, Limit
    <2>4. Parts[cert] = <<[tag |-> 48, content |-> c]>> /\ Inside(cert, 1) = c
      BY <1>5, <2>1, <2>3, Tags, OneReads
    <2> QED BY <2>4
  <1>19. Consists(cert, c, signed, v, p, a, n, t, X)
    BY <1>13, <1>14, <1>16, <1>17, <1>18, Zenon DEF Consists, g
  <1> QED BY <1>1, <1>2, <1>3, <1>4, <1>11, <1>19, Zenon DEF v, p, X

\* A reader finds an extension by its identifier.
LEMMA ExtensionFound ==
  ASSUME NEW cert, NEW x, Parts[Inside(Field(cert, 8), 1)] = Parts[x],
         NEW dns, NEW adr, NEW e1, NEW e2, NEW e3, NEW e4, NEW v1, NEW v2, NEW v3, NEW v4,
         AreExtensions(x, dns, adr, e1, e2, e3, e4, v1, v2, v3, v4)
  PROVE  /\ ExtensionIn(cert, BasicConstraints) = v1
         /\ ExtensionIn(cert, ExtKeyUsage) = v3
         /\ ExtensionIn(cert, SubjectAltName) = v4
  <1> DEFINE e == Parts[x]
             N(id) == {i \in DOMAIN e : Arcs(Inside(e[i].content, 1)) = id}
  <1>1. e = <<Item(48, e1), Item(48, e2), Item(48, e3), Item(48, e4)>>
    BY Zenon DEF AreExtensions
  <1> HIDE DEF e
  <1>2. /\ DOMAIN e = 1 .. 4 /\ e[1] = Item(48, e1) /\ e[2] = Item(48, e2)
        /\ e[3] = Item(48, e3) /\ e[4] = Item(48, e4)
    BY <1>1
  <1>3. /\ Item(48, e1).content = e1 /\ Item(48, e2).content = e2
        /\ Item(48, e3).content = e3 /\ Item(48, e4).content = e4
    BY DEF Item
  <1>4. e[1].content = e1 /\ e[2].content = e2 /\ e[3].content = e3 /\ e[4].content = e4
    BY <1>2, <1>3, Zenon
  <1>5. /\ Arcs(Inside(e[1].content, 1)) = BasicConstraints
        /\ Arcs(Inside(e[2].content, 1)) = KeyUsage
        /\ Arcs(Inside(e[3].content, 1)) = ExtKeyUsage
        /\ Arcs(Inside(e[4].content, 1)) = SubjectAltName
    BY <1>4, Zenon DEF AreExtensions, IsExtension
  <1>6. /\ Last(Parts[e[1].content]).content = v1
        /\ Last(Parts[e[3].content]).content = v3
        /\ Last(Parts[e[4].content]).content = v4
    BY <1>4, Zenon DEF AreExtensions, IsExtension
  <1>7. \A i \in DOMAIN e : i = 1 \/ i = 2 \/ i = 3 \/ i = 4
    BY <1>2
  <1>8. 1 \in DOMAIN e /\ 3 \in DOMAIN e /\ 4 \in DOMAIN e
    BY <1>2
  <1>9. \A i \in DOMAIN e : Arcs(Inside(e[i].content, 1)) = BasicConstraints => i = 1
    BY <1>5, <1>7, IdentifiersDiffer, Zenon
  <1>10. \A i \in DOMAIN e : Arcs(Inside(e[i].content, 1)) = ExtKeyUsage => i = 3
    BY <1>5, <1>7, IdentifiersDiffer, Zenon
  <1>11. \A i \in DOMAIN e : Arcs(Inside(e[i].content, 1)) = SubjectAltName => i = 4
    BY <1>5, <1>7, IdentifiersDiffer, Zenon
  <1>12. ASSUME NEW id, NEW k \in Nat, k \in DOMAIN e, Arcs(Inside(e[k].content, 1)) = id,
                \A i \in DOMAIN e : Arcs(Inside(e[i].content, 1)) = id => i = k
         PROVE  ExtensionIn(cert, id) = Last(Parts[e[k].content]).content
    <2> DEFINE I == N(id)
    <2>1. k \in I /\ \A i \in I : i = k
      BY <1>12, Zenon
    <2>2. ExtensionIn(cert, id) = IF I = {} THEN <<>> ELSE Last(Parts[e[Max(I)].content]).content
      BY Zenon DEF ExtensionIn, e
    <2> HIDE DEF I
    <2>3. I \in SUBSET Nat /\ I # {}
      BY <1>12, <2>1, Zenon
    <2>4. \A i \in I : i <= k
      BY <1>12, <2>1
    <2>5. Max(I) \in I
      BY <1>12, <2>3, <2>4, MaxIs
    <2> QED BY <2>1, <2>2, <2>3, <2>5, Zenon
  <1>13. 1 \in Nat /\ 3 \in Nat /\ 4 \in Nat
    OBVIOUS
  <1>14. ExtensionIn(cert, BasicConstraints) = v1
    BY <1>5, <1>6, <1>8, <1>9, <1>12, <1>13, Zenon
  <1>15. ExtensionIn(cert, ExtKeyUsage) = v3
    BY <1>5, <1>6, <1>8, <1>10, <1>12, <1>13, Zenon
  <1>16. ExtensionIn(cert, SubjectAltName) = v4
    BY <1>5, <1>6, <1>8, <1>11, <1>12, <1>13, Zenon
  <1> QED BY <1>14, <1>15, <1>16, Zenon

\* What a reader sees in a generated certificate, except for the dates, and for
\* a serial number without an encoding.
LEMMA GeneratedReads ==
  ASSUME NEW o, Permitted(o), NEW cert, cert = Generated(o)
  PROVE  /\ Len(Parts[cert]) = 1 /\ Len(Parts[Inside(cert, 1)]) = 3 /\ Len(Parts[Signed(cert)]) = 8
         /\ Field(cert, 2) = Padded(o.serial)
         /\ Inside(Field(cert, 1), 1) = <<2>>
         /\ Arcs(Inside(Inside(Inside(cert, 1), 2), 1)) = Sha256Rsa
         /\ NameIn(cert, 4) = o.name /\ NameIn(cert, 6) = o.name
         /\ Inside(Field(cert, 5), 1) = TimeContent(o.from)
         /\ Inside(Field(cert, 5), 2) = TimeContent(o.until)
         /\ Field(cert, 7) = PublicKey
         /\ Inside(Inside(cert, 1), 3) = <<0>> \o Signature
         /\ Inside(ExtensionIn(cert, BasicConstraints), 1) = <<>>
         /\ Usages(cert) = <<ClientAuth, ServerAuth>>
         /\ Names(cert) = AltItems(o.dnsNames, o.addresses)
         /\ Names(cert) # <<>>
  <1>1. PICK c, signed, a, n, t, x :
           /\ Consists(cert, c, signed, Tagged(2, <<2>>), Padded(o.serial), a, n, t, Tagged(48, x))
           /\ Arcs(Inside(a, 1)) = Sha256Rsa
           /\ Inside(Inside(Inside(n, 1), 1), 2) = o.name
           /\ Inside(t, 1) = TimeContent(o.from) /\ Inside(t, 2) = TimeContent(o.until)
           /\ Inside(Tagged(48, x), 1) = x
           /\ IsExtensions(x, o.dnsNames, o.addresses)
    BY CertificateReads
  <1>2. Inside(cert, 1) = c /\ Signed(cert) = signed
    BY <1>1, Zenon DEF Consists, Signed
  <1>3. Len(Parts[cert]) = 1 /\ Len(Parts[Inside(cert, 1)]) = 3 /\ Len(Parts[Signed(cert)]) = 8
    BY <1>1, <1>2, Zenon DEF Consists
  <1>4. /\ Field(cert, 1) = Tagged(2, <<2>>) /\ Field(cert, 2) = Padded(o.serial) /\ Field(cert, 4) = n
        /\ Field(cert, 5) = t /\ Field(cert, 6) = n
        /\ Field(cert, 7) = PublicKey /\ Field(cert, 8) = Tagged(48, x)
    BY <1>1, <1>2, Zenon DEF Consists, Field
  <1>5. Inside(Field(cert, 1), 1) = <<2>>
    BY <1>4, Opaque, Zenon
  <1>6. /\ Arcs(Inside(Inside(Inside(cert, 1), 2), 1)) = Sha256Rsa
        /\ Inside(Inside(cert, 1), 3) = <<0>> \o Signature
    BY <1>1, <1>2, Zenon DEF Consists
  <1>7. NameIn(cert, 4) = o.name /\ NameIn(cert, 6) = o.name
    BY <1>1, <1>4, Zenon DEF NameIn
  <1>8. Inside(Field(cert, 5), 1) = TimeContent(o.from) /\ Inside(Field(cert, 5), 2) = TimeContent(o.until)
    BY <1>1, <1>4, Zenon
  <1>9. PICK e1, e2, e3, e4, v1, v2, v3, v4 :
          AreExtensions(x, o.dnsNames, o.addresses, e1, e2, e3, e4, v1, v2, v3, v4)
    BY <1>1, Zenon DEF IsExtensions
  <1>10. Parts[Inside(Field(cert, 8), 1)] = Parts[x]
    BY <1>1, <1>4, Zenon
  <1>11. /\ ExtensionIn(cert, BasicConstraints) = v1
         /\ ExtensionIn(cert, ExtKeyUsage) = v3
         /\ ExtensionIn(cert, SubjectAltName) = v4
    BY <1>9, <1>10, ExtensionFound
  <1>12. Inside(ExtensionIn(cert, BasicConstraints), 1) = <<>>
    BY <1>9, <1>11, Zenon DEF AreExtensions
  <1>13. Usages(cert) = <<ClientAuth, ServerAuth>>
    BY <1>9, <1>11, Zenon DEF AreExtensions, Usages
  <1>14. Names(cert) = AltItems(o.dnsNames, o.addresses)
    BY <1>9, <1>11, Zenon DEF AreExtensions, Names
  <1>15. AltItems(o.dnsNames, o.addresses) # <<>>
    <2>1. Texts(o.dnsNames) /\ Texts(o.addresses) /\ Len(o.dnsNames) + Len(o.addresses) \in 1 .. NamesCap
      BY Asked, Zenon
    <2> QED BY <2>1, AltNamesRead
  <1> QED BY <1>3, <1>4, <1>5, <1>6, <1>7, <1>8, <1>12, <1>13, <1>14, <1>15, Zenon

\* A generated certificate is well-formed unless its serial number starts with a
\* zero byte that DER has no room for.
LEMMA ParsesExactly ==
  ASSUME NEW o, Permitted(o), NEW cert, cert = Generated(o)
  PROVE  Parses(cert) <=> SerialFits(o)
  <1>1. Minimal(Padded(o.serial)) <=> ~(o.serial[1] = 0 /\ o.serial[2] < 128)
    BY Asked, SerialReads
  <1>2. /\ Len(Parts[cert]) = 1 /\ Len(Parts[Inside(cert, 1)]) = 3 /\ Len(Parts[Signed(cert)]) = 8
        /\ Field(cert, 2) = Padded(o.serial)
    BY GeneratedReads
  <1> QED BY <1>1, <1>2, Zenon DEF Parses, SerialFits

\* The serial number as a reader has it.
LEMMA SerialSeen ==
  ASSUME NEW o, Permitted(o), NEW cert, cert = Generated(o), SerialFits(o)
  PROVE  SerialIn(cert) = Magnitude(o.serial)
  <1> DEFINE p == Padded(o.serial)
  <1>1. /\ p # <<>> /\ Head(p) < 128
        /\ Minimal(p) <=> ~(o.serial[1] = 0 /\ o.serial[2] < 128)
        /\ Minimal(p) => Magnitude(p) = Magnitude(o.serial)
        /\ p \in Buffer
    BY Asked, SerialReads
  <1>2. Field(cert, 2) = p
    BY GeneratedReads
  <1> HIDE DEF p
  <1>3. Magnitude(p) = Magnitude(o.serial)
    BY <1>1, Zenon DEF SerialFits
  <1>4. ~(Head(p) >= 128)
    <2> DEFINE h == Head(p)
    <2>1. h \in Byte /\ h < 128
      BY <1>1, HeadTailProperties DEF Buffer
    <2> HIDE DEF h
    <2>2. ~(h >= 128)
      BY <2>1 DEF Byte
    <2> QED BY <2>2, Zenon DEF h
  <1> QED BY <1>1, <1>2, <1>3, <1>4, Zenon DEF SerialIn

\* A calendar date, as far as its minutes go.
Calendar(date) ==
  /\ date \in [1 .. 6 -> Nat]
  /\ date[2] \in 1 .. 12 /\ date[3] \in 1 .. 31 /\ date[4] < 24 /\ date[5] < 60

\* The months start within the first 334 days of a year.
LEMMA MonthStarts ==
  ASSUME NEW m \in 1 .. 12
  PROVE  MonthStart[m] \in 0 .. 334
  BY DEF MonthStart

\* The minutes before a year.
YearStart(y) == 1440 * (365 * y + LeapDays(y - 1))

Day == 1440

\* A date is in its year, or on the next day.
LEMMA MinuteBounds ==
  ASSUME NEW date, Calendar(date)
  PROVE  LET minute == Moment(date).minute
         IN  /\ minute \in Int /\ YearStart(date[1]) \in Int
             /\ YearStart(date[1]) + Day <= minute
             /\ minute < YearStart(date[1]) + 367 * Day
  <1> DEFINE y == date[1]
             m == MonthStart[date[2]]
             a == IF date[2] > 2 /\ LeapDays(y) > LeapDays(y - 1) THEN 1 ELSE 0
             l == LeapDays(y - 1)
             d == date[3]
             h == date[4]
             i == date[5]
             minute == Moment(date).minute
  <1>1. y \in Nat /\ d \in 1 .. 31 /\ h \in 0 .. 23 /\ i \in 0 .. 59
    BY DEF Calendar
  <1>2. m \in 0 .. 334
    <2>1. date[2] \in 1 .. 12
      BY Zenon DEF Calendar
    <2> QED BY <2>1, MonthStarts, Zenon
  <1>3. a \in 0 .. 1
    OBVIOUS
  <1>4. l \in Int
    BY <1>1 DEF LeapDays
  <1>5. minute = 1440 * (365 * y + l + m + a + d) + 60 * h + i
    BY DEF Moment, DayNumber
  <1>6. YearStart(y) = 1440 * (365 * y + l)
    BY Zenon DEF YearStart
  <1> HIDE DEF y, m, a, l, d, h, i, minute
  <1>7. minute \in Int /\ YearStart(y) \in Int
    BY <1>1, <1>2, <1>3, <1>4, <1>5, <1>6, SMT
  <1>8. YearStart(y) + Day <= minute /\ minute < YearStart(y) + 367 * Day
    BY <1>1, <1>2, <1>3, <1>4, <1>5, <1>6, SMT DEF Day
  <1> QED BY <1>7, <1>8, Zenon DEF y, minute

\* Up to an earlier year there are not more leap days.
LEMMA FewerLeapDays ==
  ASSUME NEW w \in Int, NEW y \in Int, w <= y
  PROVE  LeapDays(w) <= LeapDays(y) /\ LeapDays(w) \in Int /\ LeapDays(y) \in Int
  BY DEF LeapDays

\* A date in an earlier year is not long enough after one in a later year.
LEMMA YearsBefore ==
  ASSUME NEW d, Calendar(d), NEW e, Calendar(e), d[1] < e[1],
         NEW now, now.minute = Moment(e).minute + 1
  PROVE  ~LongEnough(d, now)
  <1> DEFINE w == d[1]
             y == e[1]
             lw == LeapDays(w - 1)
             ly == LeapDays(y - 1)
             early == Moment(d).minute
             late == Moment(e).minute
  <1>1. w \in Nat /\ y \in Nat /\ w < y
    BY DEF Calendar
  <1>2. lw <= ly /\ lw \in Int /\ ly \in Int
    <2>1. w - 1 \in Int /\ y - 1 \in Int /\ w - 1 <= y - 1
      BY <1>1
    <2> QED BY <2>1, FewerLeapDays, Zenon
  <1>3. /\ early \in Int /\ early < YearStart(w) + 367 * Day
        /\ late \in Int /\ YearStart(y) + Day <= late
    BY MinuteBounds, Zenon
  <1>4. YearStart(w) = 1440 * (365 * w + lw) /\ YearStart(y) = 1440 * (365 * y + ly)
    BY Zenon DEF YearStart
  <1>5. LongEnough(d, now) =>
          early - now.minute > 14 * 1440 \/ early - now.minute = 14 * 1440
    BY SMT DEF LongEnough
  <1> HIDE DEF w, y, lw, ly, early
  <1>6. YearStart(w) + 365 * 1440 <= YearStart(y) /\ YearStart(w) \in Int /\ YearStart(y) \in Int
    BY <1>1, <1>2, <1>4, SMT
  <1>7. early - now.minute < 1440
    <2>1. now.minute = late + 1
      BY Zenon
    <2> HIDE DEF late
    <2> QED BY <1>3, <1>6, <2>1, SMT DEF Day
  <1>8. now.minute \in Int /\ early \in Int
    <2> HIDE DEF late
    <2> QED BY <1>3 DEF late
  <1> QED BY <1>5, <1>7, <1>8, SMT

\* The dates as a reader has them, and when it has the second one too early.
LEMMA DatesSeen ==
  ASSUME NEW o, Permitted(o), NEW cert, cert = Generated(o)
  PROVE  LET from  == Date(Inside(Field(cert, 5), 1))
             until == Date(Inside(Field(cert, 5), 2))
         IN  /\ YearsFit(o) => from = o.from /\ until = o.until
             /\ LongEnough(until, Now(o)) <=> YearsFit(o)
  <1> DEFINE f == Date(Inside(Field(cert, 5), 1))
             u == Date(Inside(Field(cert, 5), 2))
             from == o.from
             until == o.until
             y == from[1]
             z == until[1]
             w == u[1]
  <1>1. Time(from) /\ Time(until)
    BY Asked, Zenon
  <1>2. f = Date(TimeContent(from)) /\ u = Date(TimeContent(until))
    BY GeneratedReads
  <1>3. Calendar(from) /\ Calendar(until)
    <2>1. from \in [1 .. 6 -> Nat] /\ until \in [1 .. 6 -> Nat]
      BY <1>1, Zenon DEF Time
    <2>2. \A date \in {from, until} :
            date[2] \in 1 .. 12 /\ date[3] \in 1 .. 31 /\ date[4] < 24 /\ date[5] < 60
      BY DEF Permitted, Dated
    <2> HIDE DEF from, until
    <2> QED BY <2>1, <2>2, Zenon DEF Calendar
  <1>4. y >= 1970 /\ z <= y + 2
    BY DEF Permitted, Dated
  <1>5. LongEnough(until, Now(o))
    <2>1. Dated(o)
      BY Zenon DEF Permitted
    <2> QED BY <2>1 DEF Dated
  <1>6. YearsFit(o) <=> y >= 1950 /\ z < 2050
    BY DEF YearsFit
  <1>7. y \in Nat /\ z \in Nat
    BY <1>3 DEF Calendar
  <1>8. Now(o).minute = Moment(from).minute + 1
    BY DEF Now, Moment
  <1> HIDE DEF f, u, from, until
  <1>9. y \in Years => f = from
    BY <1>1, <1>2, TimeReads
  <1>10. z \in Years => u = until
    BY <1>1, <1>2, TimeReads
  <1>11. w \in Years /\ w % 100 = z % 100
    BY <1>1, <1>2, TimeReads
  <1>12. Calendar(u)
    <2>1. u \in [1 .. 6 -> Nat] /\ \A i \in 2 .. 6 : u[i] = until[i]
      BY <1>1, <1>2, TimeReads, Zenon
    <2>2. u[2] = until[2] /\ u[3] = until[3] /\ u[4] = until[4] /\ u[5] = until[5]
      BY <2>1
    <2> QED BY <1>3, <2>1, <2>2, Zenon DEF Calendar
  <1> HIDE DEF y, z, w
  <1>13. CASE YearsFit(o)
    <2>1. ~(z < y)
      <3> SUFFICES ASSUME z < y PROVE FALSE
        OBVIOUS
      <3>1. until[1] < from[1]
        BY <1>7 DEF y, z
      <3> QED BY <1>3, <1>8, <1>5, <3>1, YearsBefore, Zenon
    <2>2. y \in Years /\ z \in Years
      BY <1>4, <1>6, <1>7, <1>13, <2>1 DEF Years
    <2>3. f = from /\ u = until
      BY <2>2, <1>9, <1>10, Zenon
    <2>4. LongEnough(u, Now(o))
      BY <1>5, <2>3, Zenon
    <2> QED BY <1>13, <2>3, <2>4, Zenon DEF f, u, from, until
  <1>14. CASE ~YearsFit(o)
    <2>1. z >= 2050 /\ w \in 1950 .. 2049 /\ w % 100 = z % 100
      BY <1>4, <1>6, <1>7, <1>11, <1>14 DEF Years
    <2>2. w < y
      <3>1. w < z - 99
        BY <1>7, <2>1
      <3> QED BY <1>4, <1>7, <2>1, <3>1
    <2>3. u[1] < from[1]
      BY <2>2, Zenon DEF w, y
    <2>4. ~LongEnough(u, Now(o))
      BY <1>3, <1>8, <1>12, <2>3, YearsBefore, Zenon
    <2> QED BY <1>14, <2>4, Zenon DEF u, from
  <1> QED BY <1>13, <1>14

\* A reader finds in a generated certificate what was asked for.
LEMMA SeenIsMeant ==
  ASSUME NEW o, Permitted(o), NEW cert, cert = Generated(o), SerialFits(o), YearsFit(o)
  PROVE  Seen(cert) = Meant(o)
  <1>1. SerialIn(cert) = Magnitude(o.serial)
    BY SerialSeen
  <1>2. Date(Inside(Field(cert, 5), 1)) = o.from /\ Date(Inside(Field(cert, 5), 2)) = o.until
    BY DatesSeen, Zenon
  <1>3. /\ Inside(Field(cert, 1), 1) = <<2>>
        /\ Arcs(Inside(Inside(Inside(cert, 1), 2), 1)) = Sha256Rsa
        /\ NameIn(cert, 4) = o.name /\ NameIn(cert, 6) = o.name
        /\ Field(cert, 7) = PublicKey
        /\ Inside(Inside(cert, 1), 3) = <<0>> \o Signature
        /\ Usages(cert) = <<ClientAuth, ServerAuth>>
        /\ Names(cert) = AltItems(o.dnsNames, o.addresses)
    BY GeneratedReads
  <1>4. AltItems(o.dnsNames, o.addresses) =
          [i \in DOMAIN o.dnsNames |-> [tag |-> 130, content |-> o.dnsNames[i]]]
          \o [i \in DOMAIN o.addresses |-> [tag |-> 135, content |-> o.addresses[i]]]
    BY Zenon DEF AltItems, KindItems
  <1> QED BY <1>1, <1>2, <1>3, <1>4, Zenon DEF Seen, Meant

\* Its maker accepts it unless the serial number or the year has no encoding.
LEMMA UsableExactly ==
  ASSUME NEW o, Permitted(o), NEW cert, cert = Generated(o)
  PROVE  Usable(cert, Now(o)) <=> SerialFits(o) /\ YearsFit(o)
  <1>1. Parses(cert) <=> SerialFits(o)
    BY ParsesExactly, Zenon
  <1>2. LongEnough(Date(Inside(Field(cert, 5), 2)), Now(o)) <=> YearsFit(o)
    BY DatesSeen, Zenon
  <1>3. /\ Inside(ExtensionIn(cert, BasicConstraints), 1) = <<>>
        /\ Names(cert) # <<>>
        /\ Usages(cert) = <<ClientAuth, ServerAuth>>
    BY GeneratedReads
  <1>4. ClientAuth \in ToSet(Usages(cert))
    <2> DEFINE s == <<ClientAuth, ServerAuth>>
    <2>1. 1 \in DOMAIN s /\ s[1] = ClientAuth
      OBVIOUS
    <2> HIDE DEF s
    <2>2. ClientAuth \in ToSet(s)
      BY <2>1, Zenon DEF ToSet
    <2> QED BY <1>3, <2>2, Zenon DEF s
  <1> QED BY <1>1, <1>2, <1>3, <1>4, Zenon DEF Usable

=============================================================================
