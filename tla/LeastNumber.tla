----------------------------- MODULE LeastNumber -----------------------------
(***************************************************************************)
(* Induction without a predicate for its parameter: a set of numbers takes *)
(* the place of the predicate, the set of those for which it fails.        *)
(***************************************************************************)
EXTENDS Naturals, WellFoundedInduction, TLAPS

(* A set of numbers that has any has a least one.                          *)
LEMMA Least ==
  ASSUME NEW I, I \subseteq Nat, I # {}
  PROVE  \E i \in I : \A j \in I : i <= j
<1> DEFINE R == {ss \in Nat \X Nat : ss[1] < ss[2]}
<1>1. IsWellFoundedOn(R, Nat)
  BY NatLessThanWellFounded, Zenon DEF OpToRel
<1> HIDE DEF R
<1>2. PICK i \in I : \A j \in I : ~(<<j, i>> \in R)
  BY <1>1, WFMin
<1>3. ASSUME NEW j \in I
      PROVE  i <= j
  <2>1. i \in Nat /\ j \in Nat
    OBVIOUS
  <2>2. ~(j < i)
    BY <1>2, <2>1 DEF R
  <2> QED BY <2>1, <2>2
<1> QED BY <1>3

(* A set of numbers that cannot have a least element is empty.             *)
LEMMA NoLeast ==
  ASSUME NEW I, I \subseteq Nat,
         \A n \in I : \E m \in I : m < n
  PROVE  I = {}
<1> SUFFICES ASSUME I # {} PROVE FALSE
  OBVIOUS
<1>1. PICK n \in I : \A j \in I : n <= j
  BY Least
<1>2. PICK m \in I : m < n
  OBVIOUS
<1>3. n <= m /\ n \in Nat /\ m \in Nat
  BY <1>1
<1> QED BY <1>2, <1>3
=============================================================================
