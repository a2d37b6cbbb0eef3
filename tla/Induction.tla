------------------------------- MODULE Induction -------------------------------
(***************************************************************************)
(* Induction and recursion over natural numbers, stated for sets and       *)
(* functions instead of operators, so that the lemmas can be used without  *)
(* a prover for higher-order logic.                                        *)
(***************************************************************************)
EXTENDS Integers, WellFoundedInduction, TLAPS

\* Every non-empty set of natural numbers has a least element.
LEMMA LeastNumber ==
  ASSUME NEW S \in SUBSET Nat, S # {}
  PROVE  \E x \in S : \A y \in S : x <= y
<1> DEFINE less == {ss \in Nat \X Nat : ss[1] < ss[2]}
<1>1. IsWellFoundedOn(less, Nat)
  BY NatLessThanWellFounded DEF OpToRel
<1>2. PICK x \in S : \A y \in S : ~(<<y, x>> \in less)
  <2> HIDE DEF less
  <2> QED BY <1>1, WFMin
<1>3. ASSUME NEW y \in S PROVE x <= y
  <2>1. ~(y < x)
    BY <1>2
  <2> QED BY <2>1
<1> QED BY <1>3

\* Induction from m up to n.
LEMMA Upwards ==
  ASSUME NEW m \in Int, NEW n \in Int, NEW S,
         m <= n => m \in S,
         \A k \in m .. n - 1 : k \in S => k + 1 \in S
  PROVE  \A k \in m .. n : k \in S
<1> SUFFICES ASSUME NEW k \in m .. n, k \notin S PROVE FALSE
  OBVIOUS
<1> DEFINE Bad == {d \in Nat : m + d <= n /\ m + d \notin S}
<1>1. k - m \in Bad
  <2>1. k - m \in Nat /\ m + (k - m) = k /\ k <= n
    OBVIOUS
  <2> QED BY <2>1
<1>2. PICK d \in Bad : \A e \in Bad : d <= e
  <2>1. Bad \in SUBSET Nat /\ Bad # {}
    BY <1>1
  <2> HIDE DEF Bad
  <2> QED BY <2>1, LeastNumber
<1>3. d # 0
  BY m + 0 = m
<1>4. d - 1 \in Nat /\ m + (d - 1) \in m .. n - 1
  BY <1>3
<1>5. d - 1 \notin Bad
  BY <1>2, <1>4
<1>6. m + (d - 1) \in S
  BY <1>4, <1>5
<1>7. (m + (d - 1)) + 1 = m + d
  OBVIOUS
<1> QED BY <1>4, <1>6, <1>7

LEMMA NatSetInduction ==
  ASSUME NEW S, 0 \in S, \A n \in Nat : n \in S => n + 1 \in S
  PROVE  \A n \in Nat : n \in S
<1> SUFFICES ASSUME NEW n \in Nat PROVE n \in S
  OBVIOUS
<1>1. \A k \in 0 .. n : k \in S
  BY Upwards
<1> QED BY <1>1

(***************************************************************************)
(* A function that is defined by recursion exists.  Step is the function   *)
(* from a place and the value there to the next value; runs are the        *)
(* beginnings of the function, which agree wherever they overlap.          *)
(***************************************************************************)
IsRun(g, n, T, first, Step) ==
  /\ g \in [0 .. n -> T]
  /\ g[0] = first
  /\ \A k \in 0 .. n - 1 : g[k + 1] = Step[<<k, g[k]>>]

LEMMA RunsAgree ==
  ASSUME NEW T, NEW first \in T, NEW Step \in [Nat \X T -> T],
         NEW m \in Nat, NEW n \in Nat, m <= n,
         NEW g, IsRun(g, m, T, first, Step), NEW h, IsRun(h, n, T, first, Step)
  PROVE  \A k \in 0 .. m : g[k] = h[k]
<1> DEFINE S == {k \in 0 .. m : g[k] = h[k]}
<1>1. 0 \in S
  BY DEF IsRun
<1>2. ASSUME NEW k \in 0 .. m - 1, k \in S PROVE k + 1 \in S
  <2>1. k \in 0 .. n - 1 /\ k + 1 \in 0 .. m /\ g[k] = h[k]
    BY <1>2
  <2>2. g[k + 1] = Step[<<k, g[k]>>] /\ h[k + 1] = Step[<<k, h[k]>>]
    BY <2>1 DEF IsRun
  <2> QED BY <2>1, <2>2
<1>3. \A k \in 0 .. m : k \in S
  <2> HIDE DEF S
  <2> QED BY <1>1, <1>2, Upwards
<1> QED BY <1>3

LEMMA RunsExist ==
  ASSUME NEW T, NEW first \in T, NEW Step \in [Nat \X T -> T]
  PROVE  \A n \in Nat : \E g : IsRun(g, n, T, first, Step)
<1> DEFINE S == {n \in Nat : \E g : IsRun(g, n, T, first, Step)}
<1>1. 0 \in S
  <2> DEFINE g == [k \in 0 .. 0 |-> first]
  <2>1. IsRun(g, 0, T, first, Step)
    BY DEF IsRun
  <2> QED BY <2>1
<1>2. ASSUME NEW n \in Nat, n \in S PROVE n + 1 \in S
  <2>1. PICK g : IsRun(g, n, T, first, Step)
    BY <1>2
  <2>2. /\ g \in [0 .. n -> T] /\ g[0] = first
        /\ \A k \in 0 .. n - 1 : g[k + 1] = Step[<<k, g[k]>>]
    BY <2>1 DEF IsRun
  <2>3. Step[<<n, g[n]>>] \in T
    <3>1. n \in 0 .. n
      OBVIOUS
    <3>2. <<n, g[n]>> \in Nat \X T
      BY <2>2, <3>1
    <3> QED BY <3>2
  <2> DEFINE h == [k \in 0 .. n + 1 |-> IF k <= n THEN g[k] ELSE Step[<<n, g[n]>>]]
  <2>4. h \in [0 .. n + 1 -> T]
    BY <2>2, <2>3
  <2>5. h[0] = first
    BY <2>2
  <2>6. ASSUME NEW k \in 0 .. (n + 1) - 1 PROVE h[k + 1] = Step[<<k, h[k]>>]
    <3>1. k \in 0 .. n + 1 /\ k + 1 \in 0 .. n + 1 /\ k <= n
      OBVIOUS
    <3>2. h[k] = g[k]
      BY <3>1
    <3>3. CASE k = n
      BY <3>1, <3>2, <3>3
    <3>4. CASE k # n
      <4>1. k \in 0 .. n - 1 /\ k + 1 <= n
        BY <3>4
      <4>2. h[k + 1] = g[k + 1]
        BY <3>1, <4>1
      <4> QED BY <2>2, <3>2, <4>1, <4>2
    <3> QED BY <3>3, <3>4
  <2>7. IsRun(h, n + 1, T, first, Step)
    <3> HIDE DEF h
    <3> QED BY <2>4, <2>5, <2>6 DEF IsRun
  <2>8. \E x : IsRun(x, n + 1, T, first, Step)
    <3> HIDE DEF h
    <3> QED BY <2>7
  <2> QED BY <2>8
<1>3. \A n \in Nat : n \in S
  <2> HIDE DEF S
  <2> QED BY <1>1, <1>2, NatSetInduction
<1> QED BY <1>3

Iterates(f, T, first, Step) ==
  /\ f \in [Nat -> T]
  /\ f[0] = first
  /\ \A n \in Nat : f[n + 1] = Step[<<n, f[n]>>]

LEMMA Recursion ==
  ASSUME NEW T, NEW first \in T, NEW Step \in [Nat \X T -> T]
  PROVE  \E f : Iterates(f, T, first, Step)
<1> DEFINE G(n) == CHOOSE g : IsRun(g, n, T, first, Step)
           f == [n \in Nat |-> G(n)[n]]
<1>1. ASSUME NEW n \in Nat PROVE IsRun(G(n), n, T, first, Step)
  <2>1. \E g : IsRun(g, n, T, first, Step)
    BY RunsExist
  <2> QED BY <2>1
<1> HIDE DEF G
<1>2. ASSUME NEW n \in Nat PROVE G(n + 1)[n] = G(n)[n]
  <2>1. n + 1 \in Nat /\ n <= n + 1 /\ n \in 0 .. n
    OBVIOUS
  <2> QED BY <1>1, <2>1, RunsAgree
<1>3. f \in [Nat -> T]
  <2> SUFFICES ASSUME NEW n \in Nat PROVE G(n)[n] \in T
    OBVIOUS
  <2>1. G(n) \in [0 .. n -> T] /\ n \in 0 .. n
    BY <1>1 DEF IsRun
  <2> QED BY <2>1
<1>4. f[0] = first
  BY <1>1 DEF IsRun
<1>5. ASSUME NEW n \in Nat PROVE f[n + 1] = Step[<<n, f[n]>>]
  <2>1. n + 1 \in Nat /\ n \in 0 .. (n + 1) - 1
    OBVIOUS
  <2>2. G(n + 1)[n + 1] = Step[<<n, G(n + 1)[n]>>]
    BY <1>1, <2>1 DEF IsRun
  <2> QED BY <1>2, <2>1, <2>2
<1>6. Iterates(f, T, first, Step)
  <2> HIDE DEF f
  <2> QED BY <1>3, <1>4, <1>5 DEF Iterates
<1> HIDE DEF f
<1> QED BY <1>6
=============================================================================
