---------------------------- MODULE LeastElement ----------------------------
(* The least element of a set of naturals, which every "first match" of the  *)
(* program's loops rests on.                                                 *)
EXTENDS Naturals, WellFoundedInduction, TLAPS

\* A non-empty set of naturals has a least element: the first match exists.
LEMMA Least ==
  ASSUME NEW S, S \subseteq Nat, S # {}
  PROVE  \E i \in S : \A j \in S : i <= j
<1>1. PICK i \in S : \A j \in S : ~(<<j, i>> \in OpToRel(<, Nat))
  BY NatLessThanWellFounded, WFMin
<1>2. ASSUME NEW j \in S, j < i PROVE FALSE
  <2> DEFINE p == <<j, i>>
  <2>1. p \in Nat \X Nat /\ p[1] = j /\ p[2] = i
    OBVIOUS
  <2>2. p[1] < p[2]
    BY <1>2, <2>1
  <2>3. p \in {ss \in Nat \X Nat : ss[1] < ss[2]}
    BY <2>1, <2>2
  <2>4. {ss \in Nat \X Nat : ss[1] < ss[2]} = OpToRel(<, Nat)
    BY DEF OpToRel
  <2> QED BY <1>1, <2>3, <2>4, Zenon
<1> QED BY <1>2
=============================================================================
