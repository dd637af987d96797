----------------------------- MODULE NumberSets -----------------------------
(***************************************************************************)
(* Lemmas about remainders, and about sets of natural numbers: their least *)
(* and their greatest member, and the places of their members in           *)
(* increasing order.                                                       *)
(***************************************************************************)
EXTENDS Integers, FiniteSets, FiniteSetsExt, FiniteSetTheorems, WellFoundedInduction, TLAPS

\* Adding a multiple of the modulus does not change the remainder.
LEMMA ModUnique ==
  ASSUME NEW M \in Nat \ {0}, NEW q \in Int, NEW x \in 0..(M - 1)
  PROVE  ((M * q) + x) % M = x
OBVIOUS

\* A nonempty set of naturals has a least member, which Min picks.
LEMMA MinPicks ==
  ASSUME NEW S \in SUBSET Nat, S # {}
  PROVE  Min(S) \in S /\ \A y \in S : Min(S) <= y
<1> DEFINE R == OpToRel(<, Nat)
<1>1. IsWellFoundedOn(R, Nat)
  BY NatLessThanWellFounded
<1>2. \A x, y \in Nat : x < y => <<x, y>> \in R
  BY DEF OpToRel
<1> HIDE DEF R
<1>3. PICK x \in S : \A y \in S : ~(<<y, x>> \in R)
  BY <1>1, WFMin
<1>4. \A y \in S : ~(y < x)
  BY <1>2, <1>3
<1>5. \A y \in S : x <= y
  BY <1>4
<1> QED BY <1>5 DEF Min

\* So has a bounded one a greatest member, which Max picks.
LEMMA MaxPicks ==
  ASSUME NEW n \in Nat, NEW S \in SUBSET (0..n), S # {}
  PROVE  Max(S) \in S /\ \A y \in S : y <= Max(S)
<1> DEFINE T == {n - y : y \in S}
<1>1. T \in SUBSET Nat
  OBVIOUS
<1>2. T # {}
  OBVIOUS
<1> HIDE DEF T
<1>3. Min(T) \in T /\ \A z \in T : Min(T) <= z
  BY <1>1, <1>2, MinPicks
<1>4. PICK m \in S : Min(T) = n - m
  BY <1>3 DEF T
<1>5. \A y \in S : n - y \in T
  BY DEF T
<1>6. \A y \in S : m >= y
  BY <1>3, <1>4, <1>5
<1>7. \A x \in S : (\A y \in S : x >= y) <=> x = m
  BY <1>6
<1> QED BY <1>6, <1>7 DEF Max

\* The members of F up to e; their number is the place of e in F.
UpTo(F, e) == {x \in F : x <= e}

\* The members of a set of numbers are counted by their places in it.
LEMMA PlacesCounted ==
  ASSUME NEW n \in Nat, NEW F \in SUBSET (1..n)
  PROVE  /\ IsFiniteSet(F) /\ Cardinality(F) \in Nat
         /\ \A e \in F : Cardinality(UpTo(F, e)) \in 1..Cardinality(F)
<1>1. IsFiniteSet(F) /\ Cardinality(F) \in Nat
  <2>1. IsFiniteSet(1..n)
    BY FS_Interval
  <2> QED BY <2>1, FS_Subset, FS_CardinalityType
<1>2. ASSUME NEW e \in F PROVE Cardinality(UpTo(F, e)) \in 1..Cardinality(F)
  <2>1. UpTo(F, e) \subseteq F /\ e \in UpTo(F, e)
    BY DEF UpTo
  <2>2. /\ IsFiniteSet(UpTo(F, e)) /\ Cardinality(UpTo(F, e)) \in Nat
        /\ Cardinality(UpTo(F, e)) <= Cardinality(F)
    BY <1>1, <2>1, FS_Subset, FS_CardinalityType
  <2>3. Cardinality(UpTo(F, e)) # 0
    BY <2>1, <2>2, FS_EmptySet
  <2> QED BY <1>1, <2>2, <2>3
<1> QED BY <1>1, <1>2

\* Every number up to the size of the set is the place of a member.
LEMMA PlacesOnto ==
  ASSUME NEW n \in Nat, NEW F \in SUBSET (1..n)
  PROVE  \A k \in 1..Cardinality(F) : \E e \in F : Cardinality(UpTo(F, e)) = k
<1> DEFINE c == Cardinality(F)
           f == [e \in F |-> Cardinality(UpTo(F, e))]
<1>1. IsFiniteSet(F) /\ c \in Nat /\ \A e \in F : Cardinality(UpTo(F, e)) \in 1..c
  BY PlacesCounted
<1>2. ASSUME NEW d \in F, NEW e \in F, d < e
      PROVE  Cardinality(UpTo(F, d)) # Cardinality(UpTo(F, e))
  <2>1. UpTo(F, e) \in SUBSET F /\ UpTo(F, d) \in SUBSET UpTo(F, e)
    <3>1. \A x \in F : x <= d => x <= e
      BY <1>2
    <3> QED BY <3>1 DEF UpTo
  <2>2. e \in UpTo(F, e) /\ e \notin UpTo(F, d)
    BY <1>2 DEF UpTo
  <2>3. IsFiniteSet(UpTo(F, e))
    BY <1>1, <2>1, FS_Subset
  <2> QED BY <2>1, <2>2, <2>3, FS_Subset
<1>3. \A d, e \in F : d < e \/ e < d \/ d = e
  OBVIOUS
<1>4. f \in Injection(F, 1..c)
  <2>1. f \in [F -> 1..c]
    BY <1>1
  <2>2. \A d, e \in F : f[d] = f[e] => d = e
    BY <1>2, <1>3
  <2> QED BY <2>1, <2>2 DEF Injection, IsInjective
<1>5. IsFiniteSet(1..c) /\ Cardinality(1..c) = c
  BY <1>1, FS_Interval
<1>6. f \in Surjection(F, 1..c)
  BY <1>4, <1>5, FS_Injection
<1> QED BY <1>6 DEF Surjection

\* A number above all members takes the place behind them and moves none.
LEMMA PlaceAdded ==
  ASSUME NEW n \in Nat, NEW F \in SUBSET (1..n)
  PROVE  /\ Cardinality(F \cup {n + 1}) = Cardinality(F) + 1
         /\ UpTo(F \cup {n + 1}, n + 1) = F \cup {n + 1}
         /\ \A e \in F : UpTo(F \cup {n + 1}, e) = UpTo(F, e)
<1>1. n + 1 \notin F /\ \A e \in F : e <= n + 1 /\ ~(n + 1 <= e)
  OBVIOUS
<1>2. IsFiniteSet(F)
  BY PlacesCounted
<1>3. Cardinality(F \cup {n + 1}) = Cardinality(F) + 1
  BY <1>1, <1>2, FS_AddElement
<1>4. UpTo(F \cup {n + 1}, n + 1) = F \cup {n + 1}
  <2>1. \A e \in F \cup {n + 1} : e <= n + 1
    BY <1>1
  <2> QED BY <2>1 DEF UpTo
<1>5. ASSUME NEW e \in F PROVE UpTo(F \cup {n + 1}, e) = UpTo(F, e)
  BY <1>1 DEF UpTo
<1> QED BY <1>3, <1>4, <1>5
=============================================================================
