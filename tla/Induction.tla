------------------------------ MODULE Induction ------------------------------
(* Induction over the naturals, as facts about sets of naturals: what the   *)
(* proofs about recursive functions over lists rest on.                     *)
EXTENDS Integers, Sequences, WellFoundedInduction, TLAPS

\* A set of naturals has a least element.
LEMMA LeastElement ==
  ASSUME NEW T \in SUBSET Nat, T # {}
  PROVE  \E n \in T : \A m \in T : n <= m
<1> DEFINE R == OpToRel(<, Nat)
<1>1. IsWellFoundedOn(R, Nat)
  BY NatLessThanWellFounded
<1>2. \A m, n \in Nat : m < n => <<m, n>> \in R
  BY DEF OpToRel
<1> HIDE DEF R
<1>3. PICK n \in T : \A m \in T : ~(<<m, n>> \in R)
  BY <1>1, WFMin
<1>4. ASSUME NEW m \in T
      PROVE  n <= m
  <2>1. m \in Nat /\ n \in Nat /\ ~(m < n)
    BY <1>2, <1>3
  <2> QED BY <2>1
<1> QED BY <1>4

\* What every natural inherits from those before it, all have.
LEMMA Inherited ==
  ASSUME NEW T, \A n \in Nat : 0 .. n - 1 \subseteq T => n \in T
  PROVE  Nat \subseteq T
<1> SUFFICES ASSUME Nat \ T # {} PROVE FALSE
  OBVIOUS
<1>1. PICK n \in Nat \ T : \A m \in Nat \ T : n <= m
  BY LeastElement
<1>2. ASSUME NEW m \in 0 .. n - 1
      PROVE  m \in T
  <2>1. m \in Nat /\ ~(n <= m)
    BY <1>1
  <2> QED BY <1>1, <2>1
<1> QED BY <1>1, <1>2

\* f goes through n steps from `start`, step k being the function g[k] on D.
Iterates(f, n, D, start, g) ==
  /\ f \in [0 .. n -> D]
  /\ f[0] = start
  /\ \A k \in 1 .. n : f[k] = g[k][f[k - 1]]

\* There is such an f, whatever the steps.
LEMMA Recursion ==
  ASSUME NEW n \in Nat, NEW D, NEW start \in D, NEW g \in [1 .. n -> [D -> D]]
  PROVE  \E f : Iterates(f, n, D, start, g)
<1> DEFINE Solves(f, m) == f[0] = start /\ \A k \in 1 .. m : f[k] = g[k][f[k - 1]]
           T == {m \in Nat : m <= n => \E f \in [0 .. m -> D] : Solves(f, m)}
<1>1. ASSUME NEW m \in Nat, 0 .. m - 1 \subseteq T
      PROVE  m \in T
  <2>1. CASE m = 0
    <3> DEFINE f == [k \in 0 .. 0 |-> start]
    <3>1. f \in [0 .. 0 -> D] /\ Solves(f, 0)
      OBVIOUS
    <3> QED BY <2>1, <3>1
  <2>2. CASE m # 0 /\ m <= n
    <3>1. m - 1 \in 0 .. m - 1 /\ m - 1 \in Nat /\ m - 1 <= n
      BY <2>2
    <3>2. PICK f \in [0 .. m - 1 -> D] : Solves(f, m - 1)
      <4>1. m - 1 \in T
        BY <1>1, <3>1
      <4> QED BY <3>1, <4>1
    <3>3. g[m][f[m - 1]] \in D
      <4>1. f[m - 1] \in D /\ m \in 1 .. n
        BY <2>2, <3>1
      <4> QED BY <4>1
    <3> DEFINE x == g[m][f[m - 1]]
               h == [k \in 0 .. m |-> IF k = m THEN x ELSE f[k]]
    <3>4. h \in [0 .. m -> D]
      BY <3>3
    <3>5. h[m] = x /\ \A k \in 0 .. m - 1 : h[k] = f[k]
      BY <2>2
    <3> HIDE DEF h
    <3>6. h[0] = start
      BY <2>2, <3>2, <3>5
    <3>7. ASSUME NEW k \in 1 .. m
          PROVE  h[k] = g[k][h[k - 1]]
      <4>1. CASE k = m
        <5>1. h[k - 1] = f[m - 1]
          BY <3>5, <4>1
        <5> QED BY <3>5, <4>1, <5>1
      <4>2. CASE k # m
        <5>1. k \in 1 .. m - 1 /\ k - 1 \in 0 .. m - 1
          BY <4>2
        <5>2. h[k] = f[k] /\ h[k - 1] = f[k - 1]
          BY <3>5, <5>1
        <5> QED BY <3>2, <5>1, <5>2
      <4> QED BY <4>1, <4>2
    <3>8. Solves(h, m)
      BY <3>6, <3>7
    <3> QED BY <3>4, <3>8
  <2> QED BY <2>1, <2>2
<1>2. Nat \subseteq T
  <2> HIDE DEF T
  <2> QED BY <1>1, Inherited
<1> QED BY <1>2 DEF Iterates

\* The loop that puts lists one after the other is a function.
LEMMA LoopConcatenates ==
  ASSUME NEW N \in Nat \ {0}, NEW S, NEW lists \in [1 .. N -> Seq(S)]
  PROVE  \E f : f = [i \in 1 .. N |-> IF i = 1 THEN lists[i] ELSE f[i - 1] \o lists[i]]
<1> DEFINE step == [n \in 1 .. N - 1 |-> [x \in Seq(S) |-> x \o lists[n + 1]]]
<1>1. step \in [1 .. N - 1 -> [Seq(S) -> Seq(S)]]
  <2> SUFFICES ASSUME NEW n \in 1 .. N - 1, NEW x \in Seq(S)
               PROVE  x \o lists[n + 1] \in Seq(S)
    OBVIOUS
  <2>1. lists[n + 1] \in Seq(S)
    OBVIOUS
  <2> QED BY <2>1
<1>2. lists[1] \in Seq(S) /\ N - 1 \in Nat
  OBVIOUS
<1>3. PICK h : Iterates(h, N - 1, Seq(S), lists[1], step)
  <2> HIDE DEF step
  <2> QED BY <1>1, <1>2, Recursion
<1> DEFINE Equation(e) == e = [i \in 1 .. N |-> IF i = 1 THEN lists[i] ELSE e[i - 1] \o lists[i]]
           g == [i \in 1 .. N |-> h[i - 1]]
<1>4. Equation(g)
  <2> SUFFICES ASSUME NEW i \in 1 .. N
               PROVE  g[i] = IF i = 1 THEN lists[i] ELSE g[i - 1] \o lists[i]
    OBVIOUS
  <2>1. CASE i = 1
    BY <1>3, <2>1 DEF Iterates
  <2>2. CASE i # 1
    <3> DEFINE k == i - 1
    <3>1. k \in 1 .. N - 1 /\ k + 1 = i /\ k \in 1 .. N /\ k - 1 \in 0 .. N - 1
      BY <2>2
    <3>2. h[k] = step[k][h[k - 1]] /\ h[k - 1] \in Seq(S)
      <4> HIDE DEF step, k
      <4>1. h \in [0 .. N - 1 -> Seq(S)] /\ \A j \in 1 .. N - 1 : h[j] = step[j][h[j - 1]]
        BY <1>3 DEF Iterates
      <4> QED BY <3>1, <4>1
    <3>3. h[k] = h[k - 1] \o lists[k + 1]
      BY <3>1, <3>2
    <3>4. g[i] = h[k] /\ g[k] = h[k - 1]
      BY <3>1
    <3> QED BY <2>2, <3>1, <3>3, <3>4
  <2> QED BY <2>1, <2>2
<1> QED BY <1>4, Zenon

\* The quotient and the remainder of q * s + r by s.
LEMMA DivMod ==
  ASSUME NEW s \in Nat \ {0}, NEW q \in Int, NEW r \in 0 .. s - 1
  PROVE  (q * s + r) \div s = q /\ (q * s + r) % s = r
<1> DEFINE k == q * s + r
           u == k \div s
           t == k % s
<1>1. k \in Int /\ u \in Int /\ t \in 0 .. s - 1 /\ k = s * u + t
  <2>1. k \in Int
    OBVIOUS
  <2> HIDE DEF k
  <2> QED BY <2>1
<1>2. s * u + t = s * q + r
  BY <1>1
<1> HIDE DEF k, u, t
<1>3. ~(u > q)
  <2> SUFFICES ASSUME u >= q + 1 PROVE FALSE
    BY <1>1
  <2>1. s * u >= s * (q + 1) /\ s * (q + 1) = s * q + s
    BY <1>1
  <2> QED BY <1>1, <1>2, <2>1
<1>4. ~(u < q)
  <2> SUFFICES ASSUME q >= u + 1 PROVE FALSE
    BY <1>1
  <2>1. s * q >= s * (u + 1) /\ s * (u + 1) = s * u + s
    BY <1>1
  <2> QED BY <1>1, <1>2, <2>1
<1>5. u = q
  BY <1>1, <1>3, <1>4
<1>6. t = r
  BY <1>1, <1>2, <1>5
<1> QED BY <1>5, <1>6 DEF k, u, t
=============================================================================
