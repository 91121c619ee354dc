----------------------------- MODULE Induction -----------------------------
(***************************************************************************)
(* Induction over the natural numbers for a set instead of a predicate,    *)
(* and what follows: smallest and largest elements.  The proofs about      *)
(* lists and stacks rest on it.                                            *)
(***************************************************************************)
EXTENDS Naturals, WellFoundedInduction, TLAPS

\* A set of natural numbers that is not empty has a smallest element.
LEMMA LeastElement ==
    ASSUME NEW S, S \subseteq Nat, S # {}
    PROVE  \E m \in S : \A k \in S : m <= k
<1>1. PICK R : R = OpToRel(<, Nat)
  OBVIOUS
<1>2. IsWellFoundedOn(R, Nat)
  BY <1>1, NatLessThanWellFounded
<1>3. PICK m \in S : \A k \in S : ~ (<<k, m>> \in R)
  BY <1>2, WFMin
<1>4. \A i, j \in Nat : i < j => <<i, j>> \in R
  BY <1>1 DEF OpToRel
<1>5. \A k \in S : ~ (k < m)
  BY <1>3, <1>4
<1>. QED BY <1>3, <1>5

\* What holds of 0 and passes from each number to the next holds of all.
LEMMA SetInduction ==
    ASSUME NEW S, 0 \in S, \A n \in Nat : n \in S => n + 1 \in S
    PROVE  Nat \subseteq S
<1>. SUFFICES ASSUME Nat \ S # {} PROVE FALSE
  OBVIOUS
<1>1. PICK m \in Nat \ S : \A k \in Nat \ S : m <= k
  BY LeastElement
<1>2. m # 0 /\ m - 1 \in Nat /\ ~ (m <= m - 1) /\ (m - 1) + 1 = m
  BY <1>1
<1>3. m - 1 \in S
  BY <1>1, <1>2
<1>. QED BY <1>1, <1>2, <1>3

\* A bounded set of natural numbers that is not empty has a largest element.
LEMMA LargestElement ==
    ASSUME NEW n \in Nat, NEW S, S \subseteq 1 .. n, S # {}
    PROVE  \E m \in S : \A k \in S : k <= m
<1>1. PICK bounds : bounds = {b \in Nat : \A k \in S : k <= b}
  OBVIOUS
<1>2. n \in bounds /\ bounds \subseteq Nat
  BY <1>1
<1>3. PICK m \in bounds : \A b \in bounds : m <= b
  BY <1>2, LeastElement
<1>4. m \in Nat /\ \A k \in S : k <= m /\ k \in Nat /\ k >= 1
  BY <1>1, <1>3
<1>5. m \in S
  <2>. SUFFICES ASSUME m \notin S PROVE FALSE
    OBVIOUS
  <2>1. PICK k \in S : TRUE
    OBVIOUS
  <2>2. m >= 1 /\ m - 1 \in Nat
    BY <1>4, <2>1
  <2>3. \A l \in S : l <= m - 1
    BY <1>4, <2>2
  <2>4. m - 1 \in bounds
    BY <1>1, <2>2, <2>3
  <2>. QED BY <1>3, <1>4, <2>2, <2>4
<1>. QED BY <1>4, <1>5

=============================================================================
