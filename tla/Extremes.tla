------------------------------ MODULE Extremes ------------------------------
(***************************************************************************)
(* Least and greatest numbers of a set: the choices that the models make   *)
(* by the order of keys, ids, paths and stamps are well defined.           *)
(***************************************************************************)
EXTENDS Integers, WellFoundedInduction, TLAPS

\* A set of naturals that is not empty has a least element.
LEMMA LeastExists ==
  ASSUME NEW S \in SUBSET Nat, S # {}
  PROVE  \E x \in S : \A y \in S : x <= y
<1> DEFINE Less == OpToRel(<, Nat)
<1>1. \A m, n \in Nat : m < n => << m, n >> \in Less
  BY DEF OpToRel
<1>2. IsWellFoundedOn(Less, Nat)
  BY NatLessThanWellFounded
<1> HIDE DEF Less
<1>3. PICK x \in S : \A y \in S : ~ (<< y, x >> \in Less)
  BY <1>2, WFMin
<1>4. \A y \in S : x <= y
  <2> TAKE y \in S
  <2>1. x \in Nat /\ y \in Nat
    OBVIOUS
  <2>2. y < x => << y, x >> \in Less
    BY <1>1, <2>1
  <2>3. ~ (y < x)
    BY <1>3, <2>2
  <2> QED BY <2>1, <2>3
<1> QED BY <1>4

\* So has one without numbers above some n a greatest.
LEMMA GreatestExists ==
  ASSUME NEW S \in SUBSET Nat, S # {}, NEW n \in Nat, \A x \in S : x <= n
  PROVE  \E x \in S : \A y \in S : y <= x
<1> DEFINE Gaps == {d \in Nat : n - d \in S}
<1>1. \A x \in S : n - x \in Gaps
  <2> TAKE x \in S
  <2>1. x \in Nat /\ x <= n
    OBVIOUS
  <2> QED BY <2>1
<1>2. PICK d \in Gaps : \A e \in Gaps : d <= e
  <2>1. Gaps \in SUBSET Nat /\ Gaps # {}
    BY <1>1
  <2> HIDE DEF Gaps
  <2> QED BY <2>1, LeastExists
<1>3. n - d \in S /\ d \in Nat
  OBVIOUS
<1>4. \A y \in S : y <= n - d
  <2> TAKE y \in S
  <2>1. d <= n - y
    BY <1>1, <1>2
  <2>2. y \in Nat
    OBVIOUS
  <2> QED BY <1>3, <2>1, <2>2
<1> QED BY <1>3, <1>4
=============================================================================
