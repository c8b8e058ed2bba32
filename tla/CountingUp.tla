------------------------------ MODULE CountingUp ------------------------------
(***************************************************************************)
(* Induction up to a number, in terms of sets, for the proofs about what   *)
(* runs over the elements of a sequence or looks for the last of them.     *)
(***************************************************************************)
EXTENDS Naturals, TLAPS, WellFoundedInduction

\* A set that has 0, and with a number the next one, has every number.
LEMMA Up ==
    ASSUME NEW n \in Nat, NEW S, 0 \in S,
           \A m \in Nat : m < n /\ m \in S => m + 1 \in S
    PROVE  n \in S
<1> DEFINE R == {p \in Nat \X Nat : p[1] < p[2]}
           T == {m \in 0..n : m \notin S}
<1>1. SUFFICES ASSUME n \notin S
               PROVE  FALSE
    OBVIOUS
<1>2. T \subseteq Nat /\ n \in T
    BY <1>1
<1>3. IsWellFoundedOn(R, Nat)
    BY NatLessThanWellFounded DEF OpToRel
<1>4. PICK x \in T : \A y \in T : <<y, x>> \notin R
  <2> HIDE DEF T, R
  <2>1. QED
    BY <1>2, <1>3, WFMin
<1>5. x \in Nat /\ x # 0 /\ x <= n /\ x \notin S
    BY <1>4
<1>6. /\ x - 1 \in Nat /\ x - 1 < n /\ x - 1 \in 0..n
      /\ x - 1 < x /\ (x - 1) + 1 = x
    BY <1>5
<1>7. <<x - 1, x>> \in R
    BY <1>5, <1>6
<1>8. x - 1 \in S
    BY <1>4, <1>6, <1>7
<1>9. QED
    BY <1>5, <1>6, <1>8

\* A set of numbers up to a bound has a greatest one.
LEMMA Greatest ==
    ASSUME NEW n \in Nat, NEW T, T \subseteq 0..n, T # {}
    PROVE  \E i \in T : \A j \in T : j <= i
<1> DEFINE S == {m \in Nat : \E i \in T : m <= i}
<1>1. SUFFICES ASSUME \A i \in T : \E j \in T : ~(j <= i)
               PROVE  FALSE
    OBVIOUS
<1>2. 0 \in S
    <2>1. PICK i \in T : TRUE
        OBVIOUS
    <2>2. i \in Nat /\ 0 <= i
        BY <2>1
    <2>3. QED
        BY <2>2
<1>3. ASSUME NEW m \in Nat, m \in S
      PROVE  m + 1 \in S
    <2>1. PICK i \in T : m <= i
        BY <1>3
    <2>2. PICK j \in T : ~(j <= i)
        BY <1>1
    <2>3. i \in Nat /\ j \in Nat /\ m + 1 <= j
        BY <2>1, <2>2
    <2>4. QED
        BY <2>3
<1>4. n + 1 \in S
    <2> HIDE DEF S
    <2>1. QED
        BY <1>2, <1>3, Up
<1>5. QED
    BY <1>4
=============================================================================
