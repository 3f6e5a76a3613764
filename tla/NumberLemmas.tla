---------------------------- MODULE NumberLemmas -----------------------------
(***************************************************************************)
(* The least and the greatest of a set of numbers, which ids, offsets and  *)
(* positions in a log are chosen by.                                       *)
(***************************************************************************)
EXTENDS Integers, FiniteSetsExt, WellFoundedInduction, TLAPS

(* A nonempty set of numbers has a least element.                          *)
LEMMA LeastOf ==
    ASSUME NEW S, S \subseteq Nat, S # {}
    PROVE  \E x \in S : \A y \in S : x <= y
<1>1. PICK x \in S : \A y \in S : ~ (<<y, x>> \in OpToRel(<, Nat))
  BY NatLessThanWellFounded, WFMin, Zenon
<1>2. \A y \in S : ~ (y < x)
  BY <1>1, Zenon DEF OpToRel
<1>3. QED
  BY <1>2

(* The greatest of a set of numbers.                                       *)
LEMMA MaxIs ==
    ASSUME NEW S \in SUBSET Int, NEW m \in S, \A x \in S : x <= m
    PROVE  Max(S) = m
<1>1. \A n \in S : (\A x \in S : n >= x) => n = m
  OBVIOUS
<1>2. \A x \in S : m >= x
  OBVIOUS
<1>3. QED
  BY <1>1, <1>2 DEF Max

(* A nonempty set of numbers with an upper bound has one.                  *)
LEMMA MaxExists ==
    ASSUME NEW S \in SUBSET Nat, S # {}, NEW k \in Nat, \A x \in S : x <= k
    PROVE  Max(S) \in S /\ \A x \in S : x <= Max(S)
<1> DEFINE Bounds == {j \in Nat : \A x \in S : x <= j}
<1>1. PICK b \in Bounds : \A c \in Bounds : b <= c
  BY LeastOf
<1>2. b \in S
  <2> SUFFICES ASSUME b \notin S
               PROVE  FALSE
    OBVIOUS
  <2>1. \A x \in S : x \in Nat /\ x <= b /\ x # b
    BY <1>1
  <2>2. b \in Nat /\ \A x \in S : x <= b - 1
    BY <1>1, <2>1
  <2>3. b - 1 \in Nat
    <3>1. PICK x \in S : TRUE
      OBVIOUS
    <3>2. x \in Nat /\ x <= b /\ x # b /\ b \in Nat
      BY <2>1, <2>2
    <3>3. QED
      BY <3>2
  <2>4. b - 1 \in Bounds
    BY <2>2, <2>3
  <2>5. QED
    BY <1>1, <2>4
<1>3. S \in SUBSET Int /\ \A x \in S : x <= b
  BY <1>1
<1>4. QED
  BY <1>2, <1>3, MaxIs

=============================================================================
