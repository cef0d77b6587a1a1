------------------------------ MODULE Positions -------------------------------
(****************************************************************************)
(* Induction over the positions of a sequence, for the loops that go over a *)
(* list.  The least element of a set of numbers takes the place of a rule   *)
(* whose parameter is an operator: what holds at a position is the set of   *)
(* the positions where it holds.                                            *)
(****************************************************************************)
EXTENDS Integers, WellFoundedInduction, TLAPS

(* A set of numbers has a least element. *)
LEMMA LeastNumber ==
  ASSUME NEW S \in SUBSET Nat, S # {}
  PROVE  \E n \in S : \A m \in S : n <= m
<1>. DEFINE R == {p \in Nat \X Nat : p[1] < p[2]}
<1>1. IsWellFoundedOn(R, Nat)
  BY NatLessThanWellFounded DEF OpToRel
<1>2. PICK n \in S : \A m \in S : ~ (<<m, n>> \in R)
  BY <1>1, WFMin
<1>3. ASSUME NEW m \in S PROVE n <= m
  <2>1. ~ (m < n)
    BY <1>2, <1>3
  <2>. QED
    BY <2>1
<1>. QED
  BY <1>3

(* What holds of 0 and passes on to the next position holds up to n. *)
LEMMA UpTo ==
  ASSUME NEW n \in Nat, NEW S, 0 \in S, \A k \in 0..(n - 1) : k \in S => k + 1 \in S
  PROVE  0..n \subseteq S
<1>. SUFFICES ASSUME (0..n) \ S # {} PROVE FALSE
  OBVIOUS
<1>1. PICK m \in (0..n) \ S : \A k \in (0..n) \ S : m <= k
  <2>1. (0..n) \ S \in SUBSET Nat
    OBVIOUS
  <2>. QED
    BY <2>1, LeastNumber
<1>2. m # 0 /\ m - 1 \in 0..(n - 1)
  BY <1>1
<1>3. m - 1 \in S
  BY <1>1, <1>2
<1>. QED
  BY <1>1, <1>2, <1>3

(* f begins with s, and g gives its next value. *)
Follows(f, n, S, s, g) ==
  /\ f \in [0..n -> S]
  /\ f[0] = s
  /\ \A k \in 1..n : f[k] = g[<<f[k - 1], k>>]

(* What is defined from its value one position before exists. *)
LEMMA StepByStep ==
  ASSUME NEW n \in Nat, NEW S, NEW s \in S, NEW g \in [S \X (1..n) -> S]
  PROVE  \E f : Follows(f, n, S, s, g)
<1>. DEFINE Good(m, f) == f[0] = s /\ \A k \in 1..m : f[k] = g[<<f[k - 1], k>>]
            T == {m \in 0..n : \E f \in [0..m -> S] : Good(m, f)}
<1>1. 0 \in T
  <2>. DEFINE z == [k \in 0..0 |-> s]
  <2>1. z \in [0..0 -> S] /\ z[0] = s /\ 1..0 = {} /\ 0 \in 0..n
    OBVIOUS
  <2>2. Good(0, z)
    BY <2>1
  <2>. HIDE DEF z, Good
  <2>. QED
    BY <2>1, <2>2
<1>2. ASSUME NEW m \in 0..(n - 1), m \in T PROVE m + 1 \in T
  <2>1. PICK f \in [0..m -> S] : Good(m, f)
    BY <1>2
  <2>. DEFINE h == [k \in 0..(m + 1) |-> IF k = m + 1 THEN g[<<f[m], m + 1>>] ELSE f[k]]
  <2>2. g[<<f[m], m + 1>>] \in S
    OBVIOUS
  <2>3. h \in [0..(m + 1) -> S]
    BY <2>2
  <2>4. ASSUME NEW k \in 1..(m + 1) PROVE h[k] = g[<<h[k - 1], k>>]
    <3>1. CASE k = m + 1
      <4>1. m \in 0..(m + 1) /\ m # m + 1 /\ k - 1 = m
        BY <3>1
      <4>2. h[m] = f[m] /\ h[k] = g[<<f[m], m + 1>>]
        BY <3>1, <4>1
      <4>. QED
        BY <3>1, <4>1, <4>2
    <3>2. CASE k # m + 1
      <4>1. k \in 1..m /\ k - 1 \in 0..m /\ k \in 0..m
        BY <3>2
      <4>. QED
        BY <2>1, <3>2, <4>1
    <3>. QED
      BY <3>1, <3>2
  <2>5. h[0] = s
    BY <2>1
  <2>. HIDE DEF h
  <2>. QED
    BY <2>3, <2>4, <2>5
<1>. HIDE DEF T
<1>3. 0..n \subseteq T
  BY <1>1, <1>2, UpTo
<1>4. n \in T
  BY <1>3
<1>. QED
  BY <1>4 DEF T, Follows
================================================================================
