---------------------------- MODULE SequenceLemmas ----------------------------
(***************************************************************************)
(* Facts about numbers and sequences that the proofs of several modules    *)
(* rest on.                                                                *)
(***************************************************************************)
EXTENDS Integers, SequencesExt, WellFoundedInduction, TLAPS

\* A set of naturals that has a member has a least one.  This is how the proofs
\* do induction: the least counterexample.
LEMMA Least ==
    ASSUME NEW T, T \subseteq Nat, T # {}
    PROVE  \E x \in T : \A y \in T : x <= y
  <1>. DEFINE R == OpToRel(<, Nat)
  <1>1. IsWellFoundedOn(R, Nat)
    BY NatLessThanWellFounded
  <1>2. \A x, y \in Nat : <<y, x>> \in R <=> y < x
    BY DEF OpToRel
  <1>. HIDE DEF R
  <1>3. PICK x \in T : \A y \in T : ~(<<y, x>> \in R)
    BY <1>1, WFMin
  <1>4. \A y \in T : x \in Nat /\ y \in Nat /\ ~(y < x)
    BY <1>2, <1>3
  <1> QED
    BY <1>4

\* A bounded one has a greatest.
LEMMA Greatest ==
    ASSUME NEW T, T \subseteq Nat, T # {}, NEW n \in Nat, \A x \in T : x <= n
    PROVE  \E x \in T : \A y \in T : y <= x
  <1>. DEFINE U == {k \in Nat : n - k \in T}
  <1>1. \A x \in T : x \in Nat /\ n - x \in Nat /\ n - (n - x) = x
    OBVIOUS
  <1>2. U \subseteq Nat /\ U # {}
    BY <1>1
  <1>3. PICK k \in U : \A j \in U : k <= j
    BY <1>2, Least
  <1>4. k \in Nat /\ n - k \in T
    BY <1>3
  <1>5. \A y \in T : y <= n - k
    <2>. TAKE y \in T
    <2>1. y \in Nat /\ n - y \in U
      BY <1>1
    <2>2. k <= n - y
      BY <1>3, <2>1
    <2> QED
      BY <1>4, <2>1, <2>2
  <1> QED
    BY <1>4, <1>5

\* The greatest and the least member of a set of places.
LEMMA MaxOf ==
    ASSUME NEW n \in Nat, NEW T, T \subseteq 1..n, T # {}
    PROVE  Max(T) \in T /\ \A y \in T : y <= Max(T)
  <1>1. T \subseteq Nat /\ \A x \in T : x <= n
    OBVIOUS
  <1>2. \E x \in T : \A y \in T : y <= x
    BY <1>1, Greatest
  <1>3. \E x \in T : \A y \in T : x >= y
    BY <1>1, <1>2
  <1>4. Max(T) \in T /\ \A y \in T : Max(T) >= y
    BY <1>3 DEF Max
  <1> QED
    BY <1>1, <1>4

\* A sequence without its last element keeps the others.
LEMMA Pop ==
    ASSUME NEW S, NEW s \in Seq(S), NEW n \in Nat, Len(s) = n, n > 0,
           NEW b, b = SubSeq(s, 1, n - 1)
    PROVE  /\ b \in Seq(S)
           /\ Len(b) = n - 1
           /\ \A i \in 1..(n - 1) : b[i] = s[i]
  OBVIOUS

\* A sequence that is not empty is another with one element more.
HasLast(S, s) == \E b \in Seq(S), f \in S : s = Append(b, f) /\ Len(b) = Len(s) - 1

LEMMA LastElement ==
    ASSUME NEW S, NEW s \in Seq(S), Len(s) # 0
    PROVE  HasLast(S, s)
  <1>. DEFINE n == Len(s)
              b == SubSeq(s, 1, n - 1)
  <1>1. n \in Nat /\ n - 1 \in Nat /\ n > 0 /\ Len(s) = n
    OBVIOUS
  <1>. HIDE DEF n
  <1>2. b \in Seq(S) /\ Len(b) = n - 1
    BY <1>1
  <1>3. s[n] \in S /\ s = Append(b, s[n])
    BY <1>1, <1>2
  <1>. HIDE DEF b
  <1> QED
    BY <1>1, <1>2, <1>3 DEF HasLast

\* What holds of the empty sequence, and of every sequence with one element more than one it holds
\* of, holds of all.  By the shortest sequence it would not hold of.
IsInductive(A, P) == <<>> \in P /\ \A s \in Seq(A), a \in A : s \in P => Append(s, a) \in P

LEMMA ByLastElement ==
    ASSUME NEW A, NEW P, IsInductive(A, P), NEW s \in Seq(A)
    PROVE  s \in P
  <1>. DEFINE Fails == {k \in Nat : \E u \in Seq(A) : Len(u) = k /\ u \notin P}
  <1>1. SUFFICES ASSUME Fails # {}
                 PROVE  FALSE
    <2>1. Len(s) \in Nat
      OBVIOUS
    <2> QED
      BY <2>1
  <1>2. PICK k \in Fails : \A j \in Fails : k <= j
    BY <1>1, Least
  <1>3. PICK u \in Seq(A) : Len(u) = k /\ u \notin P
    BY <1>2
  <1>4. CASE k = 0
    <2>1. u = <<>>
      BY <1>3, <1>4
    <2> QED
      BY <1>3, <2>1 DEF IsInductive
  <1>5. CASE k # 0
    <2>1. HasLast(A, u)
      BY <1>2, <1>3, <1>5, LastElement
    <2>2. PICK v \in Seq(A), a \in A : u = Append(v, a) /\ Len(v) = k - 1
      BY <1>3, <2>1 DEF HasLast
    <2>3. k - 1 \in Nat /\ k - 1 \notin Fails
      BY <1>2, <1>5
    <2>4. v \in P
      BY <2>2, <2>3
    <2>. HIDE DEF Fails
    <2> QED
      BY <1>3, <2>2, <2>4 DEF IsInductive
  <1> QED
    BY <1>4, <1>5

\* A sequence with one element more keeps the others.
LEMMA Push ==
    ASSUME NEW S, NEW s \in Seq(S), NEW n \in Nat, Len(s) = n, NEW f \in S
    PROVE  /\ Append(s, f) \in Seq(S)
           /\ Len(Append(s, f)) = n + 1
           /\ \A i \in 1..n : Append(s, f)[i] = s[i]
           /\ Append(s, f)[n + 1] = f
  OBVIOUS

\* The length and the type of a concatenation.
LEMMA Concat ==
    ASSUME NEW S, NEW s \in Seq(S), NEW t \in Seq(S)
    PROVE  /\ s \o t \in Seq(S)
           /\ Len(s \o t) = Len(s) + Len(t)
           /\ \A i \in 1..Len(s) : (s \o t)[i] = s[i]
           /\ \A i \in 1..Len(t) : (s \o t)[Len(s) + i] = t[i]
  OBVIOUS

\* Sequences of the same elements are the same.
LEMMA SameElements ==
    ASSUME NEW S, NEW s \in Seq(S), NEW t \in Seq(S), Len(s) = Len(t),
           \A i \in 1..Len(s) : s[i] = t[i]
    PROVE  s = t
  OBVIOUS

\* What begins with one sequence and goes on with another is their concatenation.
LEMMA Joined ==
    ASSUME NEW S, NEW s \in Seq(S), NEW t \in Seq(S), NEW u \in Seq(S),
           Len(u) = Len(s) + Len(t),
           \A i \in 1..Len(s) : u[i] = s[i],
           \A i \in 1..Len(t) : u[Len(s) + i] = t[i]
    PROVE  u = s \o t
  <1>. DEFINE c == s \o t
              m == Len(s)
              n == Len(t)
  <1>1. /\ m \in Nat /\ n \in Nat /\ c \in Seq(S) /\ Len(c) = m + n /\ Len(u) = m + n
        /\ \A i \in 1..m : c[i] = s[i] /\ u[i] = s[i]
        /\ \A i \in 1..n : c[m + i] = t[i] /\ u[m + i] = t[i]
    BY Concat
  <1>. HIDE DEF c, m, n
  <1>2. ASSUME NEW i \in 1..(m + n)
        PROVE  u[i] = c[i]
    <2>1. CASE i <= m
      BY <1>1, <2>1
    <2>2. CASE i > m
      <3>1. i - m \in 1..n /\ m + (i - m) = i
        BY <1>1, <2>2
      <3> QED
        BY <1>1, <3>1
    <2> QED
      BY <1>1, <2>1, <2>2
  <1>3. u = c
    BY <1>1, <1>2, SameElements
  <1> QED
    BY <1>3 DEF c

LEMMA Wider ==
    ASSUME NEW A, NEW B, A \subseteq B, NEW s \in Seq(A)
    PROVE  s \in Seq(B)
  OBVIOUS

LEMMA AllSame ==
    ASSUME NEW A, NEW a \in A, NEW n \in Nat
    PROVE  [i \in 1..n |-> a] \in Seq(A)
  OBVIOUS

-----------------------------------------------------------------------------
(* What the steps of a sequence make of a value, one after the other. *)

\* The values from `base` on: after none, one, ... n of the steps in s.
IsChain(step, base, s, n, g) ==
    g = [k \in 0..n |-> IF k = 0 THEN base ELSE step[<<g[k - 1], s[k]>>]]

After(step, base, s) == (CHOOSE g : IsChain(step, base, s, Len(s), g))[Len(s)]

\* There are such values, whatever the step is.
LEMMA ChainExists ==
    ASSUME NEW step, NEW base, NEW s, NEW n \in Nat
    PROVE  \E g : IsChain(step, base, s, n, g)
  <1>. DEFINE Without == {k \in Nat : \A g : ~IsChain(step, base, s, k, g)}
  <1>1. SUFFICES ASSUME Without # {}
                 PROVE  FALSE
    OBVIOUS
  <1>2. PICK k \in Without : \A j \in Without : k <= j
    BY <1>1, Least
  <1>3. CASE k = 0
    <2>. DEFINE g == [j \in 0..0 |-> base]
    <2>1. IsChain(step, base, s, 0, g)
      BY DEF IsChain
    <2> QED
      BY <1>2, <1>3, <2>1
  <1>4. CASE k # 0
    <2>1. k \in Nat /\ k - 1 \in Nat /\ k - 1 \notin Without
      BY <1>2, <1>4
    <2>2. PICK f : IsChain(step, base, s, k - 1, f)
      BY <2>1
    <2>. DEFINE g == [j \in 0..k |-> IF j = k THEN step[<<f[k - 1], s[k]>>] ELSE f[j]]
    <2>3. \A j \in 0..(k - 1) : f[j] = IF j = 0 THEN base ELSE step[<<f[j - 1], s[j]>>]
      BY <2>2 DEF IsChain
    <2>4. \A j \in 0..(k - 1) : g[j] = f[j]
      BY <2>1
    <2>5. g[k] = step[<<f[k - 1], s[k]>>]
      BY <2>1
    <2>6. DOMAIN g = 0..k /\ g = [j \in 0..k |-> g[j]]
      OBVIOUS
    <2>. HIDE DEF g
    <2>7. ASSUME NEW j \in 0..k
          PROVE  g[j] = IF j = 0 THEN base ELSE step[<<g[j - 1], s[j]>>]
      <3>1. CASE j = k
        <4>1. k - 1 \in 0..(k - 1)
          BY <2>1
        <4> QED
          BY <1>4, <2>4, <2>5, <3>1, <4>1
      <3>2. CASE j # k
        <4>1. j \in 0..(k - 1) /\ (j # 0 => j - 1 \in 0..(k - 1))
          BY <2>1, <3>2
        <4> QED
          BY <2>3, <2>4, <4>1
      <3> QED
        BY <3>1, <3>2
    <2>8. IsChain(step, base, s, k, g)
      BY <2>6, <2>7 DEF IsChain
    <2> QED
      BY <1>2, <2>8
  <1> QED
    BY <1>3, <1>4

\* The same steps make the same values.
LEMMA ChainsAgree ==
    ASSUME NEW step, NEW base, NEW s, NEW t, NEW n \in Nat, NEW m \in Nat, n <= m,
           \A k \in 1..n : s[k] = t[k],
           NEW g, IsChain(step, base, s, n, g), NEW h, IsChain(step, base, t, m, h)
    PROVE  g[n] = h[n]
  <1>. DEFINE Apart == {k \in 0..n : g[k] # h[k]}
  <1>1. SUFFICES ASSUME Apart # {}
                 PROVE  FALSE
    OBVIOUS
  <1>2. Apart \subseteq Nat
    OBVIOUS
  <1>3. PICK k \in Apart : \A j \in Apart : k <= j
    BY <1>1, <1>2, Least
  <1>4. /\ g[k] = IF k = 0 THEN base ELSE step[<<g[k - 1], s[k]>>]
        /\ h[k] = IF k = 0 THEN base ELSE step[<<h[k - 1], t[k]>>]
    BY <1>3 DEF IsChain
  <1>5. CASE k = 0
    BY <1>3, <1>4, <1>5
  <1>6. CASE k # 0
    <2>1. k \in 1..n /\ k - 1 \in 0..n /\ k - 1 \notin Apart
      BY <1>3, <1>6
    <2> QED
      BY <1>3, <1>4, <1>6, <2>1
  <1> QED
    BY <1>5, <1>6

\* After no step, and after one more.
LEMMA AfterNone ==
    ASSUME NEW step, NEW base
    PROVE  After(step, base, <<>>) = base
  <1>. DEFINE g == CHOOSE g : IsChain(step, base, <<>>, 0, g)
  <1>1. IsChain(step, base, <<>>, 0, g)
    BY ChainExists
  <1>2. After(step, base, <<>>) = g[0]
    BY DEF After
  <1>. HIDE DEF g
  <1> QED
    BY <1>1, <1>2 DEF IsChain

LEMMA AfterPush ==
    ASSUME NEW step, NEW base, NEW A, NEW s \in Seq(A), NEW a \in A
    PROVE  After(step, base, Append(s, a)) = step[<<After(step, base, s), a>>]
  <1>. DEFINE n == Len(s)
              t == Append(s, a)
              g == CHOOSE g : IsChain(step, base, s, n, g)
              h == CHOOSE h : IsChain(step, base, t, n + 1, h)
  <1>1. n \in Nat /\ n + 1 \in Nat /\ n <= n + 1
    OBVIOUS
  <1>2. Len(t) = n + 1 /\ t[n + 1] = a /\ \A k \in 1..n : s[k] = t[k]
    BY <1>1, Push
  <1>. HIDE DEF n, t
  <1>3. IsChain(step, base, s, n, g) /\ IsChain(step, base, t, n + 1, h)
    BY <1>1, ChainExists
  <1>4. After(step, base, s) = g[n] /\ After(step, base, t) = h[n + 1]
    BY <1>2 DEF After, n
  <1>. HIDE DEF g, h
  <1>5. g[n] = h[n]
    BY <1>1, <1>2, <1>3, ChainsAgree
  <1>6. n + 1 \in 0..(n + 1) /\ n + 1 # 0 /\ (n + 1) - 1 = n
    BY <1>1
  <1>7. h[n + 1] = step[<<h[n], t[n + 1]>>]
    BY <1>3, <1>6 DEF IsChain
  <1> QED
    BY <1>2, <1>4, <1>5, <1>7 DEF t

LEMMA AfterOne ==
    ASSUME NEW step, NEW base, NEW A, NEW a \in A
    PROVE  After(step, base, <<a>>) = step[<<base, a>>]
  <1>. DEFINE none == <<>>
  <1>1. <<a>> = Append(none, a) /\ none \in Seq(A)
    OBVIOUS
  <1>2. After(step, base, none) = base
    BY AfterNone
  <1>. HIDE DEF none
  <1>3. After(step, base, Append(none, a)) = step[<<After(step, base, none), a>>]
    BY <1>1, AfterPush
  <1> QED
    BY <1>1, <1>2, <1>3

\* The steps of one sequence and then those of another.
LEMMA AfterConcat ==
    ASSUME NEW step, NEW base, NEW A, NEW s \in Seq(A), NEW t \in Seq(A)
    PROVE  After(step, base, s \o t) = After(step, After(step, base, s), t)
  <1>. DEFINE mid == After(step, base, s)
              Holds(u) == After(step, base, s \o u) = After(step, mid, u)
              Fails == {k \in Nat : \E u \in Seq(A) : Len(u) = k /\ ~Holds(u)}
  <1>1. SUFFICES ASSUME Fails # {}
                 PROVE  FALSE
    <2>1. Len(t) \in Nat
      OBVIOUS
    <2> QED
      BY <2>1
  <1>2. PICK k \in Fails : \A j \in Fails : k <= j
    BY <1>1, Least
  <1>3. PICK u \in Seq(A) : Len(u) = k /\ ~Holds(u)
    BY <1>2
  <1>4. CASE k = 0
    <2>1. u = <<>> /\ s \o <<>> = s
      BY <1>3, <1>4
    <2>2. After(step, mid, <<>>) = mid
      BY AfterNone
    <2> QED
      BY <1>3, <2>1, <2>2
  <1>5. CASE k # 0
    <2>. DEFINE v == SubSeq(u, 1, k - 1)
                a == u[k]
    <2>1. k \in Nat /\ k - 1 \in Nat /\ k > 0
      BY <1>2, <1>5
    <2>2. v \in Seq(A) /\ Len(v) = k - 1 /\ a \in A
      BY <1>3, <2>1
    <2>3. u = Append(v, a) /\ s \o u = Append(s \o v, a) /\ s \o v \in Seq(A)
      <3>1. u = Append(v, a)
        BY <1>3, <2>1
      <3>. HIDE DEF v, a
      <3>2. s \o Append(v, a) = Append(s \o v, a)
        BY <2>2
      <3> QED
        BY <2>2, <3>1, <3>2
    <2>4. k - 1 \notin Fails
      BY <1>2, <2>1
    <2>. HIDE DEF v, a
    <2>5. After(step, base, s \o v) = After(step, mid, v)
      BY <2>1, <2>2, <2>4
    <2>. HIDE DEF mid
    <2>6. After(step, base, Append(s \o v, a)) = step[<<After(step, base, s \o v), a>>]
      <3>. DEFINE w == s \o v
      <3>1. w \in Seq(A) /\ a \in A
        BY <2>2, <2>3
      <3>. HIDE DEF w
      <3>2. After(step, base, Append(w, a)) = step[<<After(step, base, w), a>>]
        BY <3>1, AfterPush
      <3> QED
        BY <3>2 DEF w
    <2>7. After(step, mid, Append(v, a)) = step[<<After(step, mid, v), a>>]
      BY <2>2, AfterPush
    <2> QED
      BY <1>3, <2>3, <2>5, <2>6, <2>7
  <1> QED
    BY <1>4, <1>5

\* The first step and then the others.
LEMMA AfterFirst ==
    ASSUME NEW step, NEW base, NEW A, NEW a \in A, NEW s \in Seq(A)
    PROVE  After(step, base, <<a>> \o s) = After(step, step[<<base, a>>], s)
  <1>. DEFINE one == <<a>>
  <1>1. one \in Seq(A)
    OBVIOUS
  <1>2. After(step, base, one) = step[<<base, a>>]
    BY AfterOne
  <1>. HIDE DEF one
  <1>3. After(step, base, one \o s) = After(step, After(step, base, one), s)
    BY <1>1, AfterConcat
  <1> QED
    BY <1>2, <1>3 DEF one

\* Steps that stay in a set do so together.
LEMMA AfterType ==
    ASSUME NEW A, NEW S, NEW step \in [S \X A -> S], NEW base \in S, NEW s \in Seq(A)
    PROVE  After(step, base, s) \in S
  <1>. DEFINE n == Len(s)
              g == CHOOSE g : IsChain(step, base, s, n, g)
              Outside == {k \in 0..n : g[k] \notin S}
  <1>1. n \in Nat /\ \A k \in 1..n : s[k] \in A
    OBVIOUS
  <1>2. IsChain(step, base, s, n, g)
    BY <1>1, ChainExists
  <1>3. After(step, base, s) = g[n]
    BY DEF After
  <1>. HIDE DEF g, n
  <1>4. SUFFICES ASSUME Outside # {}
                 PROVE  FALSE
    BY <1>1, <1>3
  <1>5. Outside \subseteq Nat
    BY <1>1
  <1>6. PICK k \in Outside : \A j \in Outside : k <= j
    BY <1>4, <1>5, Least
  <1>7. g[k] = IF k = 0 THEN base ELSE step[<<g[k - 1], s[k]>>]
    BY <1>2, <1>6 DEF IsChain
  <1>8. CASE k = 0
    BY <1>6, <1>7, <1>8
  <1>9. CASE k # 0
    <2>1. k \in 1..n /\ k - 1 \in 0..n /\ k - 1 \notin Outside
      BY <1>1, <1>6, <1>9
    <2>2. g[k - 1] \in S /\ s[k] \in A
      BY <1>1, <2>1
    <2> QED
      BY <1>6, <1>7, <1>9, <2>2
  <1> QED
    BY <1>8, <1>9

\* What is so of the base and place 0, and by each step at the next place, is so at the end: Inv
\* is the set of the pairs <<place, value>>.
LEMMA AfterAlong ==
    ASSUME NEW step, NEW base, NEW A, NEW s \in Seq(A), NEW Inv, <<0, base>> \in Inv,
           \A k \in 1..Len(s) : \A x : <<k - 1, x>> \in Inv => <<k, step[<<x, s[k]>>]>> \in Inv
    PROVE  <<Len(s), After(step, base, s)>> \in Inv
  <1>. DEFINE n == Len(s)
              g == CHOOSE g : IsChain(step, base, s, n, g)
              Outside == {k \in 0..n : <<k, g[k]>> \notin Inv}
  <1>1. n \in Nat
    OBVIOUS
  <1>2. IsChain(step, base, s, n, g)
    BY <1>1, ChainExists
  <1>3. After(step, base, s) = g[n]
    BY DEF After
  <1>. HIDE DEF g
  <1>4. SUFFICES ASSUME Outside # {}
                 PROVE  FALSE
    <2>1. n \in 0..n /\ n \notin Outside => <<n, g[n]>> \in Inv
      BY <1>1
    <2>2. <<Len(s), After(step, base, s)>> = <<n, g[n]>>
      BY <1>3
    <2>3. n \notin Outside /\ n \in 0..n
      BY <1>1
    <2> QED
      BY <2>1, <2>2, <2>3
  <1>5. Outside \subseteq Nat
    BY <1>1
  <1>6. PICK k \in Outside : \A j \in Outside : k <= j
    BY <1>4, <1>5, Least
  <1>7. g[k] = IF k = 0 THEN base ELSE step[<<g[k - 1], s[k]>>]
    BY <1>2, <1>6 DEF IsChain
  <1>8. CASE k = 0
    BY <1>6, <1>7, <1>8
  <1>9. CASE k # 0
    <2>1. k \in 1..n /\ k - 1 \in 0..n /\ k - 1 \notin Outside
      BY <1>1, <1>6, <1>9
    <2>2. <<k - 1, g[k - 1]>> \in Inv
      BY <2>1
    <2>3. <<k, step[<<g[k - 1], s[k]>>]>> \in Inv
      BY <2>1, <2>2
    <2> QED
      BY <1>6, <1>7, <1>9, <2>3
  <1> QED
    BY <1>8, <1>9

-----------------------------------------------------------------------------
(* The library's FoldLeft, of a step in a set: its recursion is over the   *)
(* sets of places and removes the greatest one.                            *)

\* A step that stays in S, at each of the elements in A, from a base in S.
StaysIn(A, S, step, base) == step \in [S \X A -> S] /\ base \in S

IsLeftFold(step, base, s, D, f) ==
    \A T \in SUBSET D : f[T] = IF T = {} THEN base ELSE step[<<f[T \ {Max(T)}], s[Max(T)]>>]

LEMMA LeftFoldExists ==
    ASSUME NEW A, NEW S, NEW step, NEW base, StaysIn(A, S, step, base), NEW s \in Seq(A),
           NEW n \in 0..Len(s)
    PROVE  \E f \in [SUBSET (1..n) -> S] : IsLeftFold(step, base, s, 1..n, f)
  <1>. step \in [S \X A -> S] /\ base \in S
    BY DEF StaysIn
  <1>. DEFINE Without == {k \in 0..n : \A f \in [SUBSET (1..k) -> S] :
                                           ~IsLeftFold(step, base, s, 1..k, f)}
  <1>0. n \in Nat /\ n \in 0..n /\ \A k \in 1..n : s[k] \in A
    OBVIOUS
  <1>1. SUFFICES ASSUME Without # {}
                 PROVE  FALSE
    BY <1>0
  <1>2. Without \subseteq Nat
    OBVIOUS
  <1>3. PICK k \in Without : \A j \in Without : k <= j
    BY <1>1, <1>2, Least
  <1>4. CASE k = 0
    <2>. DEFINE f == [T \in SUBSET (1..0) |-> base]
    <2>1. \A T \in SUBSET (1..0) : T = {}
      OBVIOUS
    <2>2. f \in [SUBSET (1..0) -> S] /\ IsLeftFold(step, base, s, 1..0, f)
      BY <2>1 DEF IsLeftFold
    <2> QED
      BY <1>3, <1>4, <2>2
  <1>5. CASE k # 0
    <2>0. k \in 0..n
      BY <1>3
    <2>1. k \in 1..n /\ k - 1 \in 0..n /\ k - 1 \notin Without /\ k \in Nat
      <3>1. k \in 1..n /\ k - 1 \in 0..n /\ k \in Nat /\ ~(k <= k - 1)
        BY <1>0, <1>5, <2>0
      <3> QED
        BY <1>3, <3>1
    <2>2. PICK f \in [SUBSET (1..(k - 1)) -> S] : IsLeftFold(step, base, s, 1..(k - 1), f)
      BY <2>1
    <2>3. s[k] \in A
      BY <1>0, <2>1
    <2>. DEFINE g == [T \in SUBSET (1..k) |->
                         IF k \in T THEN step[<<f[T \ {k}], s[k]>>] ELSE f[T]]
    <2>4. \A T \in SUBSET (1..k) : T \ {k} \in SUBSET (1..(k - 1))
      BY <2>1
    <2>5. \A T \in SUBSET (1..k) : k \notin T => T \in SUBSET (1..(k - 1))
      BY <2>1
    <2>6. g \in [SUBSET (1..k) -> S]
      <3>1. ASSUME NEW T \in SUBSET (1..k)
            PROVE  (IF k \in T THEN step[<<f[T \ {k}], s[k]>>] ELSE f[T]) \in S
        <4>1. f[T \ {k}] \in S
          BY <2>4
        <4>2. k \notin T => f[T] \in S
          BY <2>5
        <4> QED
          BY <2>3, <4>1, <4>2
      <3> QED
        BY <3>1
    <2>7. \A T \in SUBSET (1..k) : g[T] = IF k \in T THEN step[<<f[T \ {k}], s[k]>>] ELSE f[T]
      OBVIOUS
    <2>. HIDE DEF g
    <2>8. \A T \in SUBSET (1..(k - 1)) : T \in SUBSET (1..k) /\ k \notin T /\ g[T] = f[T]
      <3>. TAKE T \in SUBSET (1..(k - 1))
      <3>1. T \in SUBSET (1..k) /\ k \notin T
        BY <2>1
      <3> QED
        BY <2>7, <3>1
    <2>9. ASSUME NEW T \in SUBSET (1..k)
          PROVE  g[T] = IF T = {} THEN base ELSE step[<<g[T \ {Max(T)}], s[Max(T)]>>]
      <3>1. CASE k \in T
        <4>1. T # {} /\ T \subseteq 1..k
          BY <3>1
        <4>2. Max(T) \in T /\ \A y \in T : y <= Max(T)
          BY <2>1, <4>1, MaxOf
        <4>3. Max(T) = k
          <5>1. k <= Max(T) /\ Max(T) \in 1..k
            BY <3>1, <4>2
          <5> QED
            BY <2>1, <5>1
        <4>4. g[T \ {k}] = f[T \ {k}]
          BY <2>4, <2>8
        <4> QED
          BY <2>7, <3>1, <4>1, <4>3, <4>4
      <3>2. CASE k \notin T
        <4>1. T \in SUBSET (1..(k - 1)) /\ g[T] = f[T]
          BY <2>5, <2>8, <3>2
        <4>2. f[T] = IF T = {} THEN base ELSE step[<<f[T \ {Max(T)}], s[Max(T)]>>]
          BY <2>2, <4>1 DEF IsLeftFold
        <4>3. T \ {Max(T)} \in SUBSET (1..(k - 1))
          BY <4>1
        <4>4. g[T \ {Max(T)}] = f[T \ {Max(T)}]
          BY <2>8, <4>3
        <4> QED
          BY <4>1, <4>2, <4>4
      <3> QED
        BY <3>1, <3>2
    <2>10. IsLeftFold(step, base, s, 1..k, g)
      BY <2>9 DEF IsLeftFold
    <2> QED
      BY <1>3, <2>6, <2>10
  <1> QED
    BY <1>4, <1>5

\* The places up to k, and the greatest of them.
LEMMA FirstPlaces ==
    ASSUME NEW n \in Nat, NEW k \in 1..n
    PROVE  /\ 1..k \in SUBSET (1..n) /\ 1..k # {}
           /\ Max(1..k) = k
           /\ (1..k) \ {k} = 1..(k - 1)
  <1>1. k \in Nat /\ k \in 1..k
    OBVIOUS
  <1>2. 1..k \in SUBSET (1..n) /\ 1..k # {} /\ 1..k \subseteq 1..k
    BY <1>1
  <1>3. Max(1..k) \in 1..k /\ \A y \in 1..k : y <= Max(1..k)
    BY <1>1, <1>2, MaxOf
  <1>4. Max(1..k) = k
    BY <1>1, <1>3
  <1>5. (1..k) \ {k} = 1..(k - 1)
    OBVIOUS
  <1> QED
    BY <1>2, <1>4, <1>5

\* A function with the recursion of the library's fold ends with what the steps make of the base.
IsLeftRun(step, base, S, s, f) ==
    /\ f[{}] = base
    /\ \A k \in 1..Len(s) : f[1..(k - 1)] \in S => f[1..k] = step[<<f[1..(k - 1)], s[k]>>]

LEMMA LeftFoldIs ==
    ASSUME NEW A, NEW S, NEW step, NEW base, StaysIn(A, S, step, base), NEW s \in Seq(A),
           NEW f, IsLeftRun(step, base, S, s, f)
    PROVE  f[1..Len(s)] = After(step, base, s)
  <1>. step \in [S \X A -> S] /\ base \in S
    BY DEF StaysIn
  <1>. DEFINE n == Len(s)
              g == CHOOSE g : IsChain(step, base, s, n, g)
              Apart == {k \in 0..n : ~(f[1..k] = g[k] /\ g[k] \in S)}
  <1>1. n \in Nat /\ \A k \in 1..n : s[k] \in A
    OBVIOUS
  <1>2. IsChain(step, base, s, n, g)
    BY <1>1, ChainExists
  <1>3. After(step, base, s) = g[n]
    BY DEF After
  <1>4. f[{}] = base /\ \A k \in 1..n : f[1..(k - 1)] \in S => f[1..k] = step[<<f[1..(k - 1)], s[k]>>]
    BY DEF IsLeftRun
  <1>. HIDE DEF g
  <1>5. SUFFICES ASSUME Apart # {}
                 PROVE  FALSE
    BY <1>1, <1>3
  <1>. HIDE DEF n
  <1>6. Apart \subseteq Nat
    BY <1>1
  <1>7. PICK k \in Apart : \A j \in Apart : k <= j
    BY <1>5, <1>6, Least
  <1>8. g[k] = IF k = 0 THEN base ELSE step[<<g[k - 1], s[k]>>]
    BY <1>2, <1>7 DEF IsChain
  <1>9. CASE k = 0
    <2>1. 1..0 = {}
      OBVIOUS
    <2> QED
      BY <1>4, <1>7, <1>8, <1>9, <2>1
  <1>10. CASE k # 0
    <2>1. k \in 1..n /\ k - 1 \in 0..n /\ k - 1 \notin Apart
      BY <1>1, <1>7, <1>10
    <2>2. f[1..(k - 1)] = g[k - 1] /\ g[k - 1] \in S /\ s[k] \in A
      BY <1>1, <2>1
    <2>3. f[1..k] = step[<<g[k - 1], s[k]>>] /\ step[<<g[k - 1], s[k]>>] \in S
      BY <1>4, <2>1, <2>2
    <2> QED
      BY <1>7, <1>8, <1>10, <2>3
  <1> QED
    BY <1>9, <1>10

-----------------------------------------------------------------------------
(* A sequence without one of its elements. *)

Removed(c, s) == FoldLeft(LAMBDA t, b : IF b = c THEN t ELSE Append(t, b), <<>>, s)

Others(A, c) == Seq(A \ {c})
Dropping(A, c) == [p \in Others(A, c) \X A |-> IF p[2] = c THEN p[1] ELSE Append(p[1], p[2])]

LEMMA DroppingType ==
    ASSUME NEW A, NEW c
    PROVE  /\ StaysIn(A, Others(A, c), Dropping(A, c), <<>>)
           /\ Dropping(A, c) \in [Others(A, c) \X A -> Others(A, c)] /\ <<>> \in Others(A, c)
           /\ \A cs \in Others(A, c), b \in A :
                 Dropping(A, c)[<<cs, b>>] = IF b = c THEN cs ELSE Append(cs, b)
  <1>1. ASSUME NEW p \in Others(A, c) \X A
        PROVE  (IF p[2] = c THEN p[1] ELSE Append(p[1], p[2])) \in Others(A, c)
    <2>1. p[1] \in Others(A, c) /\ p[2] \in A
      OBVIOUS
    <2>2. p[2] # c => p[2] \in (A \ {c})
      BY <2>1 DEF Others
    <2> QED
      BY <2>1, <2>2 DEF Others
  <1> QED
    BY <1>1 DEF Dropping, Others, StaysIn

\* The fold of Removed takes the elements one by one.
LEMMA RemovedAfter ==
    ASSUME NEW A, NEW c, NEW s \in Seq(A)
    PROVE  Removed(c, s) = After(Dropping(A, c), <<>>, s)
  <1>. DEFINE n == Len(s)
              Is(f) == f = [T \in SUBSET (DOMAIN s) |->
                               IF T = {} THEN <<>>
                               ELSE IF s[Max(T)] = c THEN f[T \ {Max(T)}]
                                    ELSE Append(f[T \ {Max(T)}], s[Max(T)])]
              f == CHOOSE f : Is(f)
  <1>1. Removed(c, s) = f[DOMAIN s]
    BY DEF Removed, FoldLeft, MapThenFoldSet
  <1>2. n \in Nat /\ DOMAIN s = 1..n /\ n \in 0..n /\ \A k \in 1..n : s[k] \in A
    OBVIOUS
  <1>3. PICK g \in [SUBSET (1..n) -> Others(A, c)] : IsLeftFold(Dropping(A, c), <<>>, s, 1..n, g)
    BY <1>2, DroppingType, LeftFoldExists
  <1>0. \A t \in Others(A, c), x \in A : Dropping(A, c)[<<t, x>>] = IF x = c THEN t ELSE Append(t, x)
    BY DEF Dropping
  <1>. HIDE DEF n
  <1>4. Is(g)
    <2>1. ASSUME NEW T \in SUBSET (1..n)
          PROVE  g[T] = IF T = {} THEN <<>>
                        ELSE IF s[Max(T)] = c THEN g[T \ {Max(T)}]
                             ELSE Append(g[T \ {Max(T)}], s[Max(T)])
      <3>1. g[T] = IF T = {} THEN <<>> ELSE Dropping(A, c)[<<g[T \ {Max(T)}], s[Max(T)]>>]
        BY <1>3 DEF IsLeftFold
      <3>2. ASSUME T # {}
            PROVE  g[T \ {Max(T)}] \in Others(A, c) /\ s[Max(T)] \in A
        <4>1. Max(T) \in 1..n
          BY <1>2, <3>2, MaxOf
        <4>2. T \ {Max(T)} \in SUBSET (1..n)
          OBVIOUS
        <4> QED
          BY <1>2, <1>3, <4>1, <4>2
      <3> QED
        BY <1>0, <3>1, <3>2
    <2>2. g = [T \in SUBSET (1..n) |-> g[T]]
      BY <1>3
    <2> QED
      BY <1>2, <2>1, <2>2
  <1>5. Is(f)
    BY <1>4
  <1>. HIDE DEF f
  <1>6. f[{}] = <<>>
    BY <1>5
  <1>7. ASSUME NEW k \in 1..n, f[1..(k - 1)] \in Others(A, c)
        PROVE  f[1..k] = Dropping(A, c)[<<f[1..(k - 1)], s[k]>>]
    <2>1. 1..k \in SUBSET (1..n) /\ 1..k # {} /\ Max(1..k) = k /\ (1..k) \ {k} = 1..(k - 1)
      BY <1>2, FirstPlaces
    <2>2. f[1..k] = IF s[k] = c THEN f[1..(k - 1)] ELSE Append(f[1..(k - 1)], s[k])
      BY <1>2, <1>5, <2>1
    <2> QED
      BY <1>0, <1>2, <1>7, <2>2
  <1>8. f[1..n] = After(Dropping(A, c), <<>>, s)
    <2>1. IsLeftRun(Dropping(A, c), <<>>, Others(A, c), s, f)
      BY <1>6, <1>7 DEF n, IsLeftRun
    <2>2. StaysIn(A, Others(A, c), Dropping(A, c), <<>>)
      BY DroppingType
    <2>3. f[1..Len(s)] = After(Dropping(A, c), <<>>, s)
      BY <2>1, <2>2, LeftFoldIs
    <2> QED
      BY <2>3 DEF n
  <1> QED
    BY <1>1, <1>2, <1>8

LEMMA RemovedType ==
    ASSUME NEW A, NEW c, NEW s \in Seq(A)
    PROVE  Removed(c, s) \in Seq(A \ {c})
  <1>1. Dropping(A, c) \in [Others(A, c) \X A -> Others(A, c)] /\ <<>> \in Others(A, c)
    BY DroppingType
  <1>2. After(Dropping(A, c), <<>>, s) \in Others(A, c)
    BY <1>1, AfterType
  <1> QED
    BY <1>2, RemovedAfter DEF Others

\* One element more.
LEMMA RemovedPush ==
    ASSUME NEW A, NEW c, NEW s \in Seq(A), NEW b \in A
    PROVE  Removed(c, Append(s, b)) =
              IF b = c THEN Removed(c, s) ELSE Append(Removed(c, s), b)
  <1>1. Append(s, b) \in Seq(A)
    OBVIOUS
  <1>2. Removed(c, Append(s, b)) = After(Dropping(A, c), <<>>, Append(s, b))
    BY <1>1, RemovedAfter
  <1>3. After(Dropping(A, c), <<>>, Append(s, b)) = Dropping(A, c)[<<After(Dropping(A, c), <<>>, s), b>>]
    BY AfterPush
  <1>4. Removed(c, s) = After(Dropping(A, c), <<>>, s) /\ Removed(c, s) \in Others(A, c)
    BY RemovedAfter, RemovedType DEF Others
  <1>0. \A t \in Others(A, c), x \in A : Dropping(A, c)[<<t, x>>] = IF x = c THEN t ELSE Append(t, x)
    BY DEF Dropping
  <1>5. Dropping(A, c)[<<Removed(c, s), b>>] = IF b = c THEN Removed(c, s) ELSE Append(Removed(c, s), b)
    BY <1>0, <1>4
  <1> QED
    BY <1>2, <1>3, <1>4, <1>5

LEMMA RemovedNone ==
    ASSUME NEW c
    PROVE  Removed(c, <<>>) = <<>>
  <1>1. <<>> \in Seq({})
    OBVIOUS
  <1>2. Removed(c, <<>>) = After(Dropping({}, c), <<>>, <<>>)
    BY <1>1, RemovedAfter
  <1> QED
    BY <1>2, AfterNone

\* Of two sequences together, what is left of the one and then what is left of the other.
LEMMA RemovedConcat ==
    ASSUME NEW A, NEW c, NEW s \in Seq(A), NEW t \in Seq(A)
    PROVE  Removed(c, s \o t) = Removed(c, s) \o Removed(c, t)
  <1>. DEFINE P == {u \in Seq(A) : Removed(c, s \o u) = Removed(c, s) \o Removed(c, u)}
  <1>0. ASSUME NEW u \in Seq(A)
        PROVE  Removed(c, u) \in Seq(A)
    <2>1. Removed(c, u) \in Seq(A \ {c}) /\ A \ {c} \subseteq A
      BY RemovedType
    <2> QED
      BY <2>1, Wider
  <1>1. Removed(c, s) \in Seq(A)
    BY <1>0
  <1>2. <<>> \in P
    <2>1. <<>> \in Seq(A) /\ s \o <<>> = s /\ Removed(c, s) \o <<>> = Removed(c, s)
      BY <1>1
    <2> QED
      BY <2>1, RemovedNone
  <1>3. ASSUME NEW u \in Seq(A), NEW a \in A, u \in P
        PROVE  Append(u, a) \in P
    <2>1. Removed(c, u) \in Seq(A)
      BY <1>0
    <2>2. s \o Append(u, a) = Append(s \o u, a) /\ s \o u \in Seq(A) /\ Append(u, a) \in Seq(A)
      OBVIOUS
    <2>3. Removed(c, s) \o Append(Removed(c, u), a) = Append(Removed(c, s) \o Removed(c, u), a)
      BY <1>1, <2>1
    <2>4. Removed(c, Append(u, a)) = IF a = c THEN Removed(c, u) ELSE Append(Removed(c, u), a)
      BY RemovedPush
    <2>5. Removed(c, Append(s \o u, a)) = IF a = c THEN Removed(c, s \o u) ELSE Append(Removed(c, s \o u), a)
      <3>. DEFINE w == s \o u
      <3>1. w \in Seq(A)
        BY <2>2
      <3>. HIDE DEF w
      <3>2. Removed(c, Append(w, a)) = IF a = c THEN Removed(c, w) ELSE Append(Removed(c, w), a)
        BY <3>1, RemovedPush
      <3> QED
        BY <3>2 DEF w
    <2>6. Removed(c, s \o u) = Removed(c, s) \o Removed(c, u)
      BY <1>3
    <2>. HIDE DEF P
    <2>7. Removed(c, s \o Append(u, a)) = Removed(c, s) \o Removed(c, Append(u, a))
      BY <2>2, <2>3, <2>4, <2>5, <2>6
    <2> QED
      BY <2>2, <2>7 DEF P
  <1>4. IsInductive(A, P)
    BY <1>2, <1>3 DEF IsInductive
  <1>5. t \in P
    BY <1>4, ByLastElement
  <1> QED
    BY <1>5

\* A sequence without it stays as it is.
LEMMA RemovedSame ==
    ASSUME NEW A, NEW c, NEW s \in Seq(A \ {c})
    PROVE  Removed(c, s) = s
  <1>. DEFINE B == A \ {c}
              P == {u \in Seq(B) : Removed(c, u) = u}
  <1>1. <<>> \in P
    BY RemovedNone
  <1>2. ASSUME NEW u \in Seq(B), NEW a \in B, u \in P
        PROVE  Append(u, a) \in P
    <2>1. Removed(c, Append(u, a)) = IF a = c THEN Removed(c, u) ELSE Append(Removed(c, u), a)
      BY RemovedPush
    <2> QED
      BY <1>2, <2>1
  <1>3. s \in P
    <2>1. IsInductive(B, P) /\ s \in Seq(B)
      BY <1>1, <1>2 DEF IsInductive
    <2> QED
      BY <2>1, ByLastElement
  <1> QED
    BY <1>3

\* Of a sequence of nothing else, nothing is left.
LEMMA RemovedAll ==
    ASSUME NEW c, NEW s \in Seq({c})
    PROVE  Removed(c, s) = <<>>
  <1>. DEFINE P == {u \in Seq({c}) : Removed(c, u) = <<>>}
  <1>1. <<>> \in P
    BY RemovedNone
  <1>2. ASSUME NEW u \in Seq({c}), NEW a \in {c}, u \in P
        PROVE  Append(u, a) \in P
    <2>1. Removed(c, Append(u, a)) = IF a = c THEN Removed(c, u) ELSE Append(Removed(c, u), a)
      BY RemovedPush
    <2> QED
      BY <1>2, <2>1
  <1>3. s \in P
    <2>1. IsInductive({c}, P)
      BY <1>1, <1>2 DEF IsInductive
    <2> QED
      BY <2>1, ByLastElement
  <1> QED
    BY <1>3
=============================================================================
