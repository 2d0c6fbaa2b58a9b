------------------------------ MODULE MaxLemmas ------------------------------
(***************************************************************************)
(* Facts about the maximum of a finite set of natural numbers, the value   *)
(* of every SELECT COALESCE(MAX(...), 0) of the registry.                  *)
(***************************************************************************)
EXTENDS FiniteSetsExt, FiniteSetTheorems, TLAPS

(* A non-empty finite set of naturals has a maximum.  The proof takes a     *)
(* smallest counterexample: without any one of its elements it has a        *)
(* maximum, and so it has one itself.                                       *)
LEMMA MaxExists ==
  ASSUME NEW S \in SUBSET Nat, IsFiniteSet(S), S # {}
  PROVE  \E m \in S : \A x \in S : m >= x
<1> DEFINE HasMax(A) == \E m \in A : \A x \in A : m >= x
           Bad == {A \in SUBSET S : A # {} /\ ~HasMax(A)}
           R == StrictSubsetOrdering(S)
<1> SUFFICES ASSUME ~HasMax(S) PROVE FALSE
  OBVIOUS
<1>1. S \in Bad
  OBVIOUS
<1>2. IsWellFoundedOn(R, SUBSET S)
  BY FS_StrictSubsetOrderingWellFounded, FS_FiniteSubsetsOfFinite
<1>3. PICK A \in Bad : \A B \in Bad : ~(<<B, A>> \in R)
  <2> HIDE DEF Bad, R
  <2>1. Bad \subseteq SUBSET S /\ Bad # {}
    BY <1>1 DEF Bad
  <2>2. QED
    BY <1>2, <2>1, WFMin, Zenon
<1>4. PICK a \in A : TRUE
  OBVIOUS
<1>5. CASE A = {a}
  <2>1. HasMax(A)
    BY <1>5
  <2>2. QED
    BY <2>1
<1>6. CASE A # {a}
  <2> DEFINE B == A \ {a}
  <2>1. B # {} /\ B \in SUBSET S
    BY <1>4, <1>6
  <2>2. <<B, A>> \in R
    BY <1>4, <2>1 DEF StrictSubsetOrdering
  <2>3. HasMax(B)
    BY <1>3, <2>1, <2>2
  <2>4. PICK m \in B : \A x \in B : m >= x
    BY <2>3
  <2>5. HasMax(A)
    <3>1. A \subseteq Nat /\ a \in Nat /\ m \in A
      BY <1>4, <2>1
    <3>2. CASE m >= a
      BY <3>1, <3>2, <2>4
    <3>3. CASE a >= m
      <4>1. \A x \in A : a >= x
        BY <3>1, <3>3, <2>4
      <4>2. QED
        BY <4>1
    <3>4. QED
      BY <3>1, <3>2, <3>3
  <2>6. QED
    BY <2>5
<1>7. QED
  BY <1>5, <1>6

(* COALESCE(MAX(n), 0) over a finite set of naturals is a natural and not   *)
(* below any of them.                                                       *)
LEMMA MaxOrZero ==
  ASSUME NEW S \in SUBSET Nat, IsFiniteSet(S)
  PROVE  /\ Max(S \cup {0}) \in S \cup {0}
         /\ Max(S \cup {0}) \in Nat
         /\ \A x \in S : x <= Max(S \cup {0})
<1> DEFINE T == S \cup {0}
<1>1. T \in SUBSET Nat /\ T # {}
  OBVIOUS
<1>2. IsFiniteSet(T)
  BY FS_AddElement
<1>3. \E m \in T : \A x \in T : m >= x
  BY <1>1, <1>2, MaxExists
<1>4. Max(T) \in T /\ \A x \in T : Max(T) >= x
  BY <1>3 DEF Max
<1>5. QED
  BY <1>1, <1>4

(* The maximum of the numbers 1 .. n, or 0 if there are none, is n. *)
LEMMA MaxOfInterval ==
  ASSUME NEW n \in Nat
  PROVE  Max((1 .. n) \cup {0}) = n
<1> DEFINE T == (1 .. n) \cup {0}
<1>1. n \in T /\ \A x \in T : n >= x
  OBVIOUS
<1>2. Max(T) \in T /\ \A x \in T : Max(T) >= x
  BY <1>1 DEF Max
<1>3. QED
  BY <1>1, <1>2
=============================================================================
