------------------------------ MODULE Extremes ------------------------------
(* The least and the greatest of a bounded set of numbers: what MIN and MAX of *)
(* SQLite return, and min and max of an iterator.                              *)
EXTENDS Integers, WellFoundedInduction, TLAPS

LessOn == OpToRel(<, Nat)

\* A set of numbers up to N that is not empty has a least member.
LEMMA HasLeast ==
  ASSUME NEW N \in Nat, NEW S \in SUBSET (0..N), S # {}
  PROVE  \E m \in S : \A k \in S : m <= k
<1>0. S \subseteq Nat
  OBVIOUS
<1>1. PICK m \in S : \A k \in S : <<k, m>> \notin LessOn
  <2>1. IsWellFoundedOn(LessOn, Nat)
    BY NatLessThanWellFounded DEF LessOn
  <2> HIDE DEF LessOn
  <2> QED BY <1>0, <2>1, WFMin, Zenon
<1>2. \A k \in S : m <= k
  <2> SUFFICES ASSUME NEW k \in S, k < m PROVE FALSE
    OBVIOUS
  <2>1. <<k, m>> \in LessOn
    BY DEF LessOn, OpToRel
  <2> QED BY <1>1, <2>1
<1> QED BY <1>2

\* ... and a greatest one.
LEMMA HasGreatest ==
  ASSUME NEW N \in Nat, NEW S \in SUBSET (0..N), S # {}
  PROVE  \E m \in S : \A k \in S : k <= m
<1> DEFINE T == {N - k : k \in S}
<1>1. T \in SUBSET (0..N) /\ T # {}
  <2>1. \A k \in S : N - k \in 0..N
    OBVIOUS
  <2> QED BY <2>1
<1>2. PICK t \in T : \A u \in T : t <= u
  BY <1>1, HasLeast
<1>3. PICK m \in S : t = N - m
  BY <1>2
<1>4. \A k \in S : N - m <= N - k
  BY <1>2, <1>3
<1> QED BY <1>3, <1>4

\* A set with 0 in it, and with a number the next one, has all up to N.
LEMMA Throughout ==
  ASSUME NEW N \in Nat, NEW S, 0 \in S, \A n \in 0..(N - 1) : n \in S => n + 1 \in S
  PROVE  \A n \in 0..N : n \in S
<1> DEFINE T == {n \in 0..N : n \notin S}
<1> SUFFICES ASSUME T # {} PROVE FALSE
  OBVIOUS
<1>1. PICK m \in T : \A k \in T : m <= k
  <2>1. T \in SUBSET (0..N)
    OBVIOUS
  <2> HIDE DEF T
  <2> QED BY <2>1, HasLeast
<1>2. m \in 1..N /\ m - 1 \in 0..(N - 1) /\ m \notin S
  OBVIOUS
<1>3. m - 1 \in S
  BY <1>1, <1>2
<1>4. (m - 1) + 1 \in S
  BY <1>2, <1>3
<1> QED BY <1>2, <1>4
=============================================================================
