-------------------------- MODULE SpecLayoutProofs --------------------------
(***************************************************************************)
(* Proofs about the memory image of a spec: numbers and their bytes, the   *)
(* two struct layouts, and the fields read back.                           *)
(***************************************************************************)
EXTENDS SpecLayout, NumberSets

-----------------------------------------------------------------------------
(***************************************************************************)
(* Sums of up to eight digits.                                             *)
(***************************************************************************)
\* The terms of the digits at the positions in s, added up one by one.
Term(d, radix, s, k) == IF k \in s THEN d[k] * radix^k ELSE 0
Terms(d, radix, s) ==
  Term(d, radix, s, 0) + Term(d, radix, s, 1) + Term(d, radix, s, 2) + Term(d, radix, s, 3)
  + Term(d, radix, s, 4) + Term(d, radix, s, 5) + Term(d, radix, s, 6) + Term(d, radix, s, 7)

IntTerms(d, radix, s) == \A k \in s : d[k] * radix^k \in Int

\* A digit that is left out takes its term away.
LEMMA TermsStep ==
  ASSUME NEW d, NEW radix, NEW s \in SUBSET (0..7), NEW x \in s, IntTerms(d, radix, s)
  PROVE  Terms(d, radix, s) = d[x] * radix^x + Terms(d, radix, s \ {x})
<1>1. \A k \in 0..7 : Term(d, radix, s, k) \in Int /\ Term(d, radix, s \ {x}, k) \in Int
  BY DEF Term, IntTerms
<1>2. \A k \in 0..7 : k # x => Term(d, radix, s \ {x}, k) = Term(d, radix, s, k)
  BY DEF Term
<1>3. /\ Term(d, radix, s, x) = d[x] * radix^x /\ Term(d, radix, s \ {x}, x) = 0
      /\ d[x] * radix^x \in Int
  BY DEF Term, IntTerms
<1>4. x \in 0..7
  OBVIOUS
<1> QED BY <1>1, <1>2, <1>3, <1>4 DEF Terms

\* The fold over the places of the digits is their sum.  The function it iterates
\* exists, because the sums of subsets are one, and is unique: a smallest set on
\* which another one differs has an element to leave out.
LEMMA ValueIsSum ==
  ASSUME NEW d, NEW radix, NEW n \in 0..8, \A k \in 0..(n - 1) : d[k] * radix^k \in Int
  PROVE  ValueOf(d, n, radix) = Terms(d, radix, 0..(n - 1))
<1> DEFINE S == SUBSET (0..(n - 1))
           pick(s) == CHOOSE x \in s : TRUE
           F(g) == [s \in S |-> IF s = {} THEN 0
                                ELSE d[pick(s)] * radix^pick(s) + g[s \ {pick(s)}]]
           w == [s \in S |-> Terms(d, radix, s)]
           it == CHOOSE g : g = F(g)
<1>1. ValueOf(d, n, radix) = it[0..(n - 1)]
  BY DEF ValueOf, MapThenSumSet, MapThenFoldSet
<1>2. Terms(d, radix, {}) = 0
  BY DEF Terms, Term
<1>3. \A s \in S : s # {} => pick(s) \in s
  OBVIOUS
<1>4. ASSUME NEW s \in S, s # {}
      PROVE  Terms(d, radix, s) = d[pick(s)] * radix^pick(s) + Terms(d, radix, s \ {pick(s)})
  <2>1. pick(s) \in s /\ s \in SUBSET (0..7)
    BY <1>3, <1>4
  <2>2. IntTerms(d, radix, s)
    BY DEF IntTerms
  <2> DEFINE x == pick(s)
  <2>3. x \in s
    BY <2>1
  <2> HIDE DEF x, pick, S
  <2>4. Terms(d, radix, s) = d[x] * radix^x + Terms(d, radix, s \ {x})
    BY <2>1, <2>2, <2>3, TermsStep
  <2> QED BY <2>4 DEF x
<1> HIDE DEF pick
<1>5. w = F(w)
  BY <1>2, <1>4
<1>6. it = F(it)
  BY <1>5
<1> HIDE DEF it
<1>7. ASSUME NEW s \in S PROVE it[s] = w[s]
  <2> DEFINE bad == {c \in S : it[c] # w[c]}
             sizes == {Cardinality(c) : c \in bad}
  <2>1. IsFiniteSet(0..(n - 1))
    BY FS_Interval
  <2>2. \A c \in S : IsFiniteSet(c) /\ Cardinality(c) \in Nat
    BY <2>1, FS_Subset, FS_CardinalityType
  <2>3. sizes \in SUBSET Nat
    BY <2>2
  <2>4. ASSUME bad # {} PROVE FALSE
    <3>1. sizes # {}
      BY <2>4
    <3> HIDE DEF sizes
    <3>2. Min(sizes) \in sizes /\ \A y \in sizes : Min(sizes) <= y
      BY <2>3, <3>1, MinPicks
    <3>3. PICK c \in bad : Min(sizes) = Cardinality(c)
      BY <3>2 DEF sizes
    <3> DEFINE e == c \ {pick(c)}
    <3>4. c \in S /\ c # {}
      BY <1>5, <1>6, <3>3
    <3>5. pick(c) \in c /\ e \in S
      BY <1>3, <3>4
    <3>6. Cardinality(e) = Cardinality(c) - 1
      BY <2>2, <3>4, <3>5, FS_RemoveElement
    <3>7. e \notin bad
      <4>1. Cardinality(c) \in Nat
        BY <2>2, <3>4
      <4>2. e \in bad => Cardinality(e) \in sizes
        BY DEF sizes
      <4> QED BY <3>2, <3>3, <3>6, <4>1, <4>2
    <3>8. it[e] = w[e]
      BY <3>5, <3>7
    <3>9. it[c] = w[c]
      BY <1>5, <1>6, <3>4, <3>5, <3>8
    <3> QED BY <3>3, <3>9
  <2> QED BY <2>4
<1> QED BY <1>1, <1>7

Totals(d, n, radix, p) ==
  /\ p[0] = 0 /\ \A k \in 0..n : p[k] \in Int
  /\ \A k \in 0..(n - 1) : d[k] * radix^k = p[k + 1] - p[k]

\* Running totals end with the value.
LEMMA RunningTotal ==
  ASSUME NEW d, NEW n \in 0..8, NEW radix, NEW p, Totals(d, n, radix, p)
  PROVE  ValueOf(d, n, radix) = p[n]
<1> USE DEF Totals
<1>1. \A k \in 0..(n - 1) : d[k] * radix^k \in Int
  OBVIOUS
<1>2. ValueOf(d, n, radix) = Terms(d, radix, 0..(n - 1))
  BY <1>1, ValueIsSum, Zenon
<1> DEFINE t(k) == Term(d, radix, 0..(n - 1), k)
<1>3. \A k \in 0..7 : t(k) = IF k < n THEN p[k + 1] - p[k] ELSE 0
  BY DEF Term
<1>4. Terms(d, radix, 0..(n - 1)) = t(0) + t(1) + t(2) + t(3) + t(4) + t(5) + t(6) + t(7)
  BY DEF Terms
<1> HIDE DEF t
<1> DEFINE q(k) == IF k <= n THEN p[k] ELSE p[n]
<1>5. \A k \in 0..8 : q(k) \in Int
  OBVIOUS
<1>6. \A k \in 0..7 : t(k) = q(k + 1) - q(k)
  BY <1>3
<1>7. q(0) = 0 /\ q(8) = p[n]
  OBVIOUS
<1> HIDE DEF q
<1>8. t(0) + t(1) + t(2) + t(3) + t(4) + t(5) + t(6) + t(7) = q(8) - q(0)
  BY <1>5, <1>6
<1> QED BY <1>2, <1>4, <1>5, <1>7, <1>8

-----------------------------------------------------------------------------
(***************************************************************************)
(* Numbers and their digits.                                               *)
(***************************************************************************)
\* Powers of a base are positive, and those of a byte are computed.
LEMMA PowersPositive ==
  ASSUME NEW b \in Nat \ {0}, NEW n \in 0..8, PowersOf(b, n)
  PROVE  \A k \in 0..n : b^k \in Nat \ {0}
<1> DEFINE P(k) == b^k
           Pos(k) == k <= n => P(k) \in Nat \ {0}
<1>1. P(0) = 1 /\ \A k \in 0..(n - 1) : P(k + 1) = b * P(k)
  BY DEF PowersOf
<1> HIDE DEF P
<1>2. ASSUME NEW k \in 0..7, Pos(k) PROVE Pos(k + 1)
  BY <1>1, <1>2
<1>3. Pos(0)
  BY <1>1
<1> HIDE DEF Pos
<1>4. Pos(1) /\ Pos(2) /\ Pos(3) /\ Pos(4)
  BY <1>2, <1>3
<1>5. Pos(5) /\ Pos(6) /\ Pos(7) /\ Pos(8)
  BY <1>2, <1>4
<1>6. \A k \in 0..n : Pos(k)
  BY <1>3, <1>4, <1>5
<1> QED BY <1>6 DEF P, Pos

\* The laws of exponentiation for the digits of a byte.
LEMMA BytePowers == PowersOf(256, 4)
<1>1. 256^0 = 1 /\ 256^1 = 256 /\ 256^2 = 256 * 256 /\ 256^3 = 256 * 256^2
  OBVIOUS
<1>2. 256^4 = 256 * 256^3
  OBVIOUS
<1> QED BY <1>1, <1>2 DEF PowersOf

\* Division has one quotient.
LEMMA DivUnique ==
  ASSUME NEW M \in Nat \ {0}, NEW q \in Int, NEW x \in 0..(M - 1)
  PROVE  ((M * q) + x) \div M = q
OBVIOUS

\* The digit at p is what the quotients by p and by the next power differ in.
LEMMA DigitStep ==
  ASSUME NEW p \in Nat \ {0}, NEW b \in Nat \ {0}, NEW v \in Nat
  PROVE  ((v \div p) % b) * p = p * (v \div p) - (b * p) * (v \div (b * p))
<1> DEFINE q == v \div p
           x == v % p
           h == q \div b
           y == q % b
<1>1. q \in Nat /\ x \in 0..(p - 1) /\ v = (p * q) + x
  OBVIOUS
<1> HIDE DEF q, x
<1>2. h \in Nat /\ y \in 0..(b - 1) /\ q = (b * h) + y
  BY <1>1
<1> HIDE DEF h, y
<1>3. b * p \in Nat \ {0} /\ (p * y) + x \in 0..((b * p) - 1)
  <2>1. y <= b - 1 /\ x <= p - 1 /\ y \in Nat /\ x \in Nat
    BY <1>1, <1>2
  <2>2. p * y <= p * (b - 1) /\ p * (b - 1) = (b * p) - p /\ p * y \in Nat
    BY <2>1
  <2> QED BY <2>1, <2>2
<1>4. v = ((b * p) * h) + ((p * y) + x)
  BY <1>1, <1>2
<1> DEFINE M == b * p
           z == (p * y) + x
<1>5. v \div M = h
  <2>1. M \in Nat \ {0} /\ z \in 0..(M - 1) /\ v = (M * h) + z /\ h \in Int
    BY <1>2, <1>3, <1>4
  <2> HIDE DEF M, z
  <2>2. ((M * h) + z) \div M = h
    BY <2>1, DivUnique
  <2> QED BY <2>1, <2>2
<1>6. p * q = ((b * p) * h) + (y * p)
  BY <1>1, <1>2
<1>7. (b * p) * h \in Int /\ y * p \in Int /\ p * q \in Int
  BY <1>1, <1>2
<1> QED BY <1>5, <1>6, <1>7 DEF q, y

\* A number is put together again from its digits.
LEMMA DigitsRestore ==
  ASSUME NEW b \in Nat \ {0}, NEW n \in 1..8, PowersOf(b, n), NEW v \in 0..(b^n - 1),
         NEW d, \A k \in 0..(n - 1) : d[k] = Digit(v, k, b)
  PROVE  ValueOf(d, n, b) = v
<1> DEFINE P(k) == b^k
           Q(k) == P(k) * (v \div P(k))
<1>1. /\ \A k \in 0..n : P(k) \in Nat \ {0}
      /\ P(0) = 1 /\ \A k \in 0..(n - 1) : P(k + 1) = b * P(k)
  BY PowersPositive DEF PowersOf
<1>2. v \in Nat /\ v < P(n)
  BY <1>1
<1> HIDE DEF P
<1>3. \A k \in 0..n : Q(k) \in Int
  BY <1>1, <1>2
<1>4. ASSUME NEW k \in 0..(n - 1) PROVE Digit(v, k, b) * P(k) = Q(k) - Q(k + 1)
  <2>1. P(k) \in Nat \ {0} /\ P(k + 1) = b * P(k)
    BY <1>1
  <2>2. ((v \div P(k)) % b) * P(k) = P(k) * (v \div P(k)) - (b * P(k)) * (v \div (b * P(k)))
    BY <1>2, <2>1, DigitStep
  <2>3. Digit(v, k, b) = (v \div P(k)) % b
    BY DEF Digit, P
  <2> QED BY <2>1, <2>2, <2>3
<1>5. Q(0) = v /\ Q(n) = 0
  <2>1. Q(0) = v
    BY <1>1, <1>2
  <2>2. P(n) \in Nat \ {0}
    BY <1>1
  <2>3. v \div P(n) = 0
    BY <1>2, <2>2
  <2> QED BY <2>1, <2>2, <2>3
<1> HIDE DEF Q
<1>6. \A k \in 0..(n - 1) : d[k] * b^k = Q(k) - Q(k + 1)
  BY <1>4 DEF P
<1>7. \A k \in 0..(n - 1) : d[k] * b^k \in Int
  BY <1>3, <1>6
<1> DEFINE p == [k \in 0..n |-> v - Q(k)]
<1>8. p[0] = 0 /\ p[n] = v
  BY <1>2, <1>5
<1>9. \A k \in 0..n : p[k] \in Int
  BY <1>2, <1>3
<1>10. ASSUME NEW k \in 0..(n - 1) PROVE d[k] * b^k = p[k + 1] - p[k]
  <2>1. k \in 0..n /\ k + 1 \in 0..n /\ p[k] = v - Q(k) /\ p[k + 1] = v - Q(k + 1)
    OBVIOUS
  <2>2. Q(k) \in Int /\ Q(k + 1) \in Int
    BY <1>3, <2>1
  <2> HIDE DEF p
  <2>3. Q(k) - Q(k + 1) = p[k + 1] - p[k]
    BY <1>2, <2>1, <2>2
  <2> QED BY <1>6, <2>3
<1> HIDE DEF p
<1>11. n \in 0..8
  OBVIOUS
<1>12. Totals(d, n, b, p)
  BY <1>8, <1>9, <1>10 DEF Totals
<1>13. ValueOf(d, n, b) = p[n]
  BY <1>11, <1>12, RunningTotal, Zenon
<1> QED BY <1>8, <1>13

\* Digits have running totals, each below the next power.
LEMMA TotalsExist ==
  ASSUME NEW b \in Nat \ {0}, PowersOf(b, 8), NEW d, \A k \in 0..7 : d[k] \in 0..(b - 1)
  PROVE  \E p : Totals(d, 8, b, p) /\ \A k \in 0..8 : p[k] \in 0..(b^k - 1)
<1> DEFINE P(k) == b^k
           p == [k \in 0..8 |-> Terms(d, b, 0..(k - 1))]
           Below(k) == p[k] \in Nat /\ p[k] < P(k)
<1>1. /\ \A k \in 0..8 : P(k) \in Nat \ {0}
      /\ P(0) = 1 /\ \A k \in 0..7 : P(k + 1) = b * P(k)
  BY PowersPositive DEF PowersOf
<1>2. \A k \in 0..7 : d[k] * b^k \in Int
  <2>1. \A k \in 0..7 : d[k] * P(k) \in Int
    <3> HIDE DEF P
    <3> QED BY <1>1
  <2> QED BY <2>1
<1>3. ASSUME NEW k \in 0..7 PROVE p[k + 1] = d[k] * P(k) + p[k]
  <2>1. /\ 0..k \in SUBSET (0..7) /\ k \in 0..k /\ (0..k) \ {k} = 0..(k - 1)
        /\ k + 1 \in 0..8 /\ k \in 0..8 /\ k + 1 - 1 = k
    OBVIOUS
  <2>2. IntTerms(d, b, 0..k)
    BY <1>2, <2>1, Zenon DEF IntTerms
  <2>3. Terms(d, b, 0..k) = d[k] * b^k + Terms(d, b, (0..k) \ {k})
    <3> DEFINE s == 0..k
    <3>1. s \in SUBSET (0..7) /\ k \in s /\ IntTerms(d, b, s)
      BY <2>1, <2>2
    <3> HIDE DEF s
    <3>2. Terms(d, b, s) = d[k] * b^k + Terms(d, b, s \ {k})
      BY <3>1, TermsStep
    <3> QED BY <3>2 DEF s
  <2>4. p[k + 1] = Terms(d, b, 0..k) /\ p[k] = Terms(d, b, 0..(k - 1))
    BY <2>1
  <2> QED BY <2>1, <2>3, <2>4
<1>4. p[0] = 0
  BY DEF Terms, Term
<1> HIDE DEF p, P
<1>5. Below(0)
  BY <1>1, <1>4
<1>6. ASSUME NEW k \in 0..7, Below(k) PROVE Below(k + 1)
  <2> DEFINE c == d[k]
             u == P(k)
  <2>1. c \in Nat /\ c <= b - 1 /\ u \in Nat \ {0} /\ P(k + 1) = b * u
    BY <1>1
  <2>2. p[k + 1] = c * u + p[k] /\ p[k] \in Nat /\ p[k] < u
    BY <1>3, <1>6
  <2> HIDE DEF c, u
  <2>3. c * u \in Nat /\ c * u <= (b - 1) * u /\ (b - 1) * u = (b * u) - u
    BY <2>1
  <2> QED BY <2>1, <2>2, <2>3
<1> HIDE DEF Below
<1>7. Below(1) /\ Below(2) /\ Below(3) /\ Below(4)
  BY <1>5, <1>6
<1>8. Below(5) /\ Below(6) /\ Below(7) /\ Below(8)
  BY <1>6, <1>7
<1>9. \A k \in 0..8 : Below(k)
  BY <1>5, <1>7, <1>8
<1>10. \A k \in 0..8 : p[k] \in Nat /\ p[k] < P(k)
  BY <1>9 DEF Below
<1>11. ASSUME NEW k \in 0..7 PROVE d[k] * P(k) = p[k + 1] - p[k]
  <2> DEFINE t == d[k] * P(k)
  <2>1. t \in Int /\ p[k + 1] = t + p[k] /\ p[k] \in Nat
    BY <1>2, <1>3, <1>10 DEF P
  <2> HIDE DEF t
  <2>2. t = p[k + 1] - p[k]
    BY <2>1
  <2> QED BY <2>2 DEF t
<1>12. Totals(d, 8, b, p)
  BY <1>4, <1>10, <1>11 DEF Totals, P
<1>13. \A k \in 0..8 : p[k] \in 0..(b^k - 1)
  <2>1. \A k \in 0..8 : p[k] \in 0..(P(k) - 1)
    BY <1>1, <1>10
  <2> QED BY <2>1 DEF P
<1> QED BY <1>12, <1>13

\* The low digits of a word are its remainder.
LEMMA LowDigits ==
  ASSUME NEW b \in Nat \ {0}, PowersOf(b, 8), NEW d, \A k \in 0..7 : d[k] \in 0..(b - 1),
         NEW n \in 0..8, NEW e, \A k \in 0..(n - 1) : e[k] = d[k]
  PROVE  ValueOf(d, 8, b) \in 0..(b^8 - 1) /\ ValueOf(d, 8, b) % b^n = ValueOf(e, n, b)
<1> DEFINE P(k) == b^k
           Part(k) == k >= n => \E h \in Nat : P(k) = P(n) * h
<1>1. PICK p : Totals(d, 8, b, p) /\ \A k \in 0..8 : p[k] \in 0..(P(k) - 1)
  BY TotalsExist
<1> DEFINE More(k) == k >= n => \E h \in Nat : p[k] = (P(n) * h) + p[n]
<1>2. ValueOf(d, 8, b) = p[8]
  BY <1>1, RunningTotal
<1>3. ValueOf(e, n, b) = p[n]
  <2>1. /\ p[0] = 0 /\ \A k \in 0..8 : p[k] \in Int
        /\ \A k \in 0..7 : d[k] * P(k) = p[k + 1] - p[k]
    BY <1>1 DEF Totals
  <2>2. \A k \in 0..(n - 1) : k \in 0..7 /\ e[k] * P(k) = d[k] * P(k)
    OBVIOUS
  <2>3. \A k \in 0..(n - 1) : e[k] * P(k) = p[k + 1] - p[k]
    <3> HIDE DEF P
    <3> QED BY <2>1, <2>2
  <2>4. \A k \in 0..n : p[k] \in Int
    <3>1. \A k \in 0..n : k \in 0..8
      OBVIOUS
    <3> QED BY <2>1, <3>1, Zenon
  <2>5. Totals(e, n, b, p)
    BY <2>1, <2>3, <2>4 DEF Totals
  <2> QED BY <2>5, RunningTotal, Zenon
<1>4. /\ \A k \in 0..8 : P(k) \in Nat \ {0}
      /\ P(0) = 1 /\ \A k \in 0..7 : P(k + 1) = b * P(k)
  BY PowersPositive DEF PowersOf
<1>5. \A k \in 0..7 : p[k + 1] = d[k] * P(k) + p[k] /\ d[k] \in Nat
  <2>1. ASSUME NEW k \in 0..7 PROVE p[k + 1] = d[k] * P(k) + p[k]
    <3> DEFINE t == d[k] * P(k)
    <3>1. t = p[k + 1] - p[k] /\ p[k] \in Int /\ p[k + 1] \in Int
      BY <1>1 DEF Totals
    <3> HIDE DEF t
    <3>2. p[k + 1] = t + p[k]
      BY <3>1
    <3> QED BY <3>2 DEF t
  <2> QED BY <2>1
<1>6. \A k \in 0..8 : p[k] \in Nat /\ p[k] < P(k)
  BY <1>1, <1>4
<1> HIDE DEF P
<1>7. Part(0) /\ More(0)
  <2>1. ASSUME n = 0 PROVE Part(0) /\ More(0)
    BY <1>4, <1>6, <2>1
  <2> QED BY <2>1
<1>8. ASSUME NEW k \in 0..7, Part(k), More(k) PROVE Part(k + 1) /\ More(k + 1)
  <2>1. CASE k + 1 < n
    BY <2>1
  <2>2. CASE k + 1 = n
    <3>1. P(k + 1) = P(n) * 1 /\ p[k + 1] = (P(n) * 0) + p[n]
      BY <1>4, <1>6, <2>2
    <3> QED BY <3>1
  <2>3. CASE k >= n
    <3> DEFINE u == P(n)
               c == d[k]
    <3>1. u \in Nat /\ c \in Nat /\ p[n] \in Nat /\ p[k] \in Nat
      <4>1. k \in 0..8 /\ d[k] \in 0..(b - 1)
        OBVIOUS
      <4>2. u \in Nat /\ p[n] \in Nat /\ p[k] \in Nat
        BY <1>4, <1>6, <4>1
      <4> QED BY <4>1, <4>2
    <3>2. PICK h \in Nat : P(k) = u * h
      BY <1>8, <2>3
    <3>3. PICK g \in Nat : p[k] = (u * g) + p[n]
      BY <1>8, <2>3
    <3>4. P(k + 1) = b * (u * h) /\ p[k + 1] = c * (u * h) + ((u * g) + p[n])
      BY <1>4, <1>5, <3>2, <3>3
    <3> HIDE DEF u, c
    <3>5. /\ b * h \in Nat /\ b * (u * h) = u * (b * h)
          /\ (c * h) + g \in Nat /\ c * (u * h) + ((u * g) + p[n]) = (u * ((c * h) + g)) + p[n]
      BY <3>1
    <3>6. P(k + 1) = u * (b * h) /\ p[k + 1] = (u * ((c * h) + g)) + p[n]
      BY <3>4, <3>5
    <3> QED BY <3>5, <3>6 DEF u
  <2> QED BY <2>1, <2>2, <2>3
<1> HIDE DEF Part, More
<1>9. More(1) /\ More(2) /\ More(3) /\ More(4) /\ Part(4)
  BY <1>7, <1>8
<1>10. More(5) /\ More(6) /\ More(7) /\ More(8)
  BY <1>8, <1>9
<1>11. PICK h \in Nat : p[8] = (P(n) * h) + p[n]
  BY <1>10 DEF More
<1> DEFINE u == P(n)
           x == p[n]
<1>12. u \in Nat \ {0} /\ x \in 0..(u - 1)
  BY <1>4, <1>6
<1> HIDE DEF u, x
<1>13. ((u * h) + x) % u = x
  BY <1>12, ModUnique
<1>14. p[8] % P(n) = p[n]
  BY <1>11, <1>13 DEF u, x
<1> QED BY <1>1, <1>2, <1>3, <1>14 DEF P

\* Powers of complementary exponents multiply to the whole.
LEMMA PowersComplement ==
  ASSUME NEW b \in Nat \ {0}, PowersOf(b, 8)
  PROVE  \A k \in 0..8 : b^k * b^(8 - k) = b^8
<1> DEFINE P(k) == b^k
           C(k) == P(k) * P(8 - k) = P(8)
<1>1. /\ \A k \in 0..8 : P(k) \in Nat \ {0}
      /\ P(0) = 1 /\ \A k \in 0..7 : P(k + 1) = b * P(k)
  BY PowersPositive DEF PowersOf
<1> HIDE DEF P
<1>2. C(0)
  BY <1>1
<1>3. ASSUME NEW k \in 0..7, C(k) PROVE C(k + 1)
  <2> DEFINE x == P(k)
             y == P(7 - k)
  <2>1. x \in Nat /\ y \in Nat /\ P(k + 1) = b * x /\ P(8 - (k + 1)) = y /\ P(8 - k) = b * y
    <3>1. k \in 0..8 /\ 7 - k \in 0..8 /\ 7 - k \in 0..7 /\ 7 - k + 1 = 8 - k /\ 8 - (k + 1) = 7 - k
      OBVIOUS
    <3> QED BY <1>1, <3>1
  <2> HIDE DEF x, y
  <2>2. (b * x) * y = x * (b * y)
    BY <2>1
  <2> QED BY <1>3, <2>1, <2>2 DEF x
<1> HIDE DEF C
<1>4. C(1) /\ C(2) /\ C(3) /\ C(4)
  BY <1>2, <1>3
<1>5. C(5) /\ C(6) /\ C(7) /\ C(8)
  BY <1>3, <1>4
<1>6. \A k \in 0..8 : C(k)
  BY <1>2, <1>4, <1>5
<1> QED BY <1>6 DEF C, P

\* What the proofs need of the constants.
LEMMA Bounds == Base \in Nat \ {0} /\ MaxArgs \in Nat
BY ArgBounds

-----------------------------------------------------------------------------
(***************************************************************************)
(* Layouts.                                                                *)
(***************************************************************************)
\* A struct has n fields with names of their own, which end at these places.
Placed(struct, n, e) ==
  /\ Len(struct) = n /\ DOMAIN struct = 1..n
  /\ \A j, k \in 1..n : struct[j].name = struct[k].name => j = k
  /\ e = [i \in 0..n |-> IF i = 0 THEN 0 ELSE AlignUp(e[i - 1], struct[i].align) + struct[i].size]

\* A field begins behind the field before it.
LEMMA OffsetPlaced ==
  ASSUME NEW struct, NEW n \in Nat, NEW e, Placed(struct, n, e), NEW j \in 1..n
  PROVE  Offset(struct, struct[j].name) = AlignUp(e[j - 1], struct[j].align)
<1> DEFINE F(g) == [i \in 0..Len(struct) |->
                      IF i = 0 THEN 0 ELSE AlignUp(g[i - 1], struct[i].align) + struct[i].size]
           end == CHOOSE g : g = F(g)
           at == CHOOSE k \in DOMAIN struct : struct[k].name = struct[j].name
<1>1. Offset(struct, struct[j].name) = AlignUp(end[at - 1], struct[at].align)
  BY DEF Offset
<1>2. at = j
  BY DEF Placed
<1>3. e = F(e)
  BY DEF Placed
<1>4. end = F(end)
  BY <1>3
<1> HIDE DEF end
<1> DEFINE G(g, i) == IF i = 0 THEN 0 ELSE AlignUp(g[i - 1], struct[i].align) + struct[i].size
<1>0. \A i \in 0..n : e[i] = G(e, i) /\ end[i] = G(end, i)
  BY <1>3, <1>4 DEF Placed
<1>5. ASSUME NEW i \in 0..n PROVE end[i] = e[i]
  <2> DEFINE bad == {c \in 0..n : end[c] # e[c]}
  <2>1. ASSUME bad # {} PROVE FALSE
    <3>1. bad \in SUBSET Nat
      OBVIOUS
    <3> DEFINE m == Min(bad)
    <3>2. m \in bad /\ \A y \in bad : m <= y
      BY <2>1, <3>1, MinPicks
    <3> HIDE DEF m
    <3>3. m \in 0..n /\ end[m] # e[m]
      BY <3>2
    <3>4. m # 0
      BY <1>0, <3>3
    <3>5. m - 1 \in 0..n /\ ~(m <= m - 1)
      BY <3>3, <3>4
    <3>6. end[m - 1] = e[m - 1]
      BY <3>2, <3>5
    <3>7. end[m] = e[m]
      BY <1>0, <3>3, <3>4, <3>6
    <3> QED BY <3>3, <3>7
  <2> QED BY <2>1
<1>6. end[j - 1] = e[j - 1]
  BY <1>5
<1> QED BY <1>1, <1>2, <1>6

\* Where the fields of the two structs end.
GoEnds == [i \in 0..8 |-> IF i = 0 THEN 0 ELSE <<8, 12, 13, 14, 15, 16, 17, 24>>[i]]
CEnds == [i \in 0..7 |-> IF i = 0 THEN 0 ELSE <<8, 12, 13, 14, 15, 16, 17>>[i]]

\* The fields of ArgSpec in types.go end at GoEnds.
LEMMA GoPlaced == Placed(GoArgSpec, 8, GoEnds)
<1>1. Len(GoArgSpec) = 8 /\ DOMAIN GoArgSpec = 1..8
  BY DEF GoArgSpec
<1>2. \A j, k \in 1..8 : GoArgSpec[j].name = GoArgSpec[k].name => j = k
  BY SMTT(60) DEF GoArgSpec, Field
<1>3. \A i \in 1..8 :
        GoEnds[i] = AlignUp(GoEnds[i - 1], GoArgSpec[i].align) + GoArgSpec[i].size
  BY DEF GoEnds, GoArgSpec, Field, AlignUp
<1>4. \A i \in 0..8 : i # 0 => i \in 1..8
  OBVIOUS
<1>5. GoEnds = [i \in 0..8 |-> IF i = 0 THEN 0 ELSE GoEnds[i]]
  BY DEF GoEnds
<1>6. GoEnds = [i \in 0..8 |-> IF i = 0 THEN 0
                               ELSE AlignUp(GoEnds[i - 1], GoArgSpec[i].align) + GoArgSpec[i].size]
  BY <1>3, <1>4, <1>5
<1> QED BY <1>1, <1>2, <1>6 DEF Placed

\* The fields of struct bpf_usdt_arg_spec end at CEnds.
LEMMA CPlaced == Placed(CArgSpec, 7, CEnds)
<1>1. Len(CArgSpec) = 7 /\ DOMAIN CArgSpec = 1..7
  BY DEF CArgSpec
<1>2. \A j, k \in 1..7 : CArgSpec[j].name = CArgSpec[k].name => j = k
  BY SMTT(60) DEF CArgSpec, Field
<1>3. \A i \in 1..7 :
        CEnds[i] = AlignUp(CEnds[i - 1], CArgSpec[i].align) + CArgSpec[i].size
  BY DEF CEnds, CArgSpec, Field, AlignUp
<1>4. \A i \in 0..7 : i # 0 => i \in 1..7
  OBVIOUS
<1>5. CEnds = [i \in 0..7 |-> IF i = 0 THEN 0 ELSE CEnds[i]]
  BY DEF CEnds
<1>6. CEnds = [i \in 0..7 |-> IF i = 0 THEN 0
                              ELSE AlignUp(CEnds[i - 1], CArgSpec[i].align) + CArgSpec[i].size]
  BY <1>3, <1>4, <1>5
<1> QED BY <1>1, <1>2, <1>6 DEF Placed

\* Where the fields of the two structs begin.
Starts == [val_off |-> 0, arg_type |-> 8, reg_id |-> 12, arg_signed |-> 13, arg_bitshift |-> 14,
           arg_is_float |-> 15]

\* Offsets, size and alignment of ArgSpec in types.go.
LEMMA GoOffsets ==
  /\ \A f \in DOMAIN Starts : Offset(GoArgSpec, f) = Starts[f]
  /\ SizeOf(GoArgSpec) = 24 /\ AlignOf(GoArgSpec) = 8
<1>1. ASSUME NEW j \in 1..8
      PROVE  Offset(GoArgSpec, GoArgSpec[j].name) = AlignUp(GoEnds[j - 1], GoArgSpec[j].align)
  <2>1. 8 \in Nat
    OBVIOUS
  <2> QED BY <2>1, GoPlaced, OffsetPlaced, Zenon
<1> DEFINE at(j) == AlignUp(GoEnds[j - 1], GoArgSpec[j].align)
<1>2. at(1) = 0 /\ at(2) = 8 /\ at(3) = 12 /\ at(4) = 13 /\ at(5) = 14 /\ at(6) = 15 /\ at(8) = 17
  BY DEF GoArgSpec, Field, GoEnds, AlignUp
<1>3. /\ GoArgSpec[1].name = "val_off" /\ GoArgSpec[2].name = "arg_type"
      /\ GoArgSpec[3].name = "reg_id" /\ GoArgSpec[4].name = "arg_signed"
      /\ GoArgSpec[5].name = "arg_bitshift" /\ GoArgSpec[6].name = "arg_is_float"
      /\ GoArgSpec[8].size = 7 /\ Len(GoArgSpec) = 8
  BY DEF GoArgSpec, Field
<1> HIDE DEF at
<1>4. \A f \in DOMAIN Starts : Offset(GoArgSpec, f) = Starts[f]
  <2>1. \A j \in 1..8 : Offset(GoArgSpec, GoArgSpec[j].name) = at(j)
    BY <1>1 DEF at
  <2> QED BY <1>2, <1>3, <2>1 DEF Starts
<1>5. AlignOf(GoArgSpec) = 8
  <2> DEFINE S == {f.align : f \in Range(GoArgSpec)}
  <2>1. S = {1, 4, 8}
    BY DEF GoArgSpec, Range, Field
  <2>2. Max({1, 4, 8}) = 8
    BY DEF Max
  <2> QED BY <2>1, <2>2 DEF AlignOf
<1>6. SizeOf(GoArgSpec) = AlignUp(at(8) + 7, 8)
  <2>1. Offset(GoArgSpec, GoArgSpec[8].name) = at(8)
    BY <1>1 DEF at
  <2> QED BY <1>3, <1>5, <2>1 DEF SizeOf
<1> QED BY <1>2, <1>4, <1>5, <1>6 DEF AlignUp

\* Offsets, size and alignment of struct bpf_usdt_arg_spec.
LEMMA COffsets ==
  /\ \A f \in DOMAIN Starts : Offset(CArgSpec, f) = Starts[f]
  /\ SizeOf(CArgSpec) = 24 /\ AlignOf(CArgSpec) = 8
<1>1. ASSUME NEW j \in 1..7
      PROVE  Offset(CArgSpec, CArgSpec[j].name) = AlignUp(CEnds[j - 1], CArgSpec[j].align)
  <2>1. 7 \in Nat
    OBVIOUS
  <2> QED BY <2>1, CPlaced, OffsetPlaced, Zenon
<1> DEFINE at(j) == AlignUp(CEnds[j - 1], CArgSpec[j].align)
<1>2. at(1) = 0 /\ at(2) = 8 /\ at(3) = 12 /\ at(4) = 13 /\ at(5) = 14 /\ at(6) = 15 /\ at(7) = 16
  BY DEF CArgSpec, Field, CEnds, AlignUp
<1>3. /\ CArgSpec[1].name = "val_off" /\ CArgSpec[2].name = "arg_type"
      /\ CArgSpec[3].name = "reg_id" /\ CArgSpec[4].name = "arg_signed"
      /\ CArgSpec[5].name = "arg_bitshift" /\ CArgSpec[6].name = "arg_is_float"
      /\ CArgSpec[7].size = 1 /\ Len(CArgSpec) = 7
  BY DEF CArgSpec, Field
<1> HIDE DEF at
<1>4. \A f \in DOMAIN Starts : Offset(CArgSpec, f) = Starts[f]
  <2>1. \A j \in 1..7 : Offset(CArgSpec, CArgSpec[j].name) = at(j)
    BY <1>1 DEF at
  <2> QED BY <1>2, <1>3, <2>1 DEF Starts
<1>5. AlignOf(CArgSpec) = 8
  <2> DEFINE S == {f.align : f \in Range(CArgSpec)}
  <2>1. S = {1, 4, 8}
    BY DEF CArgSpec, Range, Field
  <2>2. Max({1, 4, 8}) = 8
    BY DEF Max
  <2> QED BY <2>1, <2>2 DEF AlignOf
<1>6. SizeOf(CArgSpec) = AlignUp(at(7) + 1, 8)
  <2>1. Offset(CArgSpec, CArgSpec[7].name) = at(7)
    BY <1>1 DEF at
  <2> QED BY <1>3, <1>5, <2>1 DEF SizeOf
<1> QED BY <1>2, <1>4, <1>5, <1>6 DEF AlignUp

\* The count stands behind the arguments and the cookie.
LEMMA SpecPlaced ==
  ASSUME NEW struct, SizeOf(struct) = 24, AlignOf(struct) = 8
  PROVE  /\ Offset(SpecOf(struct), "arg_cnt") = 24 * MaxArgs + 8
         /\ SizeOf(SpecOf(struct)) = 24 * MaxArgs + 16
<1> DEFINE L == 24 * MaxArgs
           t == <<L, L + 8, L + 10, L + 16>>
           e == [i \in 0..4 |-> IF i = 0 THEN 0 ELSE t[i]]
           S == SpecOf(struct)
<1>0. MaxArgs \in Nat
  BY Bounds
<1>1. S = << Field("args", L, 8), Field("usdt_cookie", 8, 8),
             Field("arg_cnt", 2, 2), Field("X_pad", 6, 1) >>
  BY <1>0 DEF SpecOf
<1>2. Len(S) = 4 /\ DOMAIN S = 1..4
  BY <1>1
<1>3. \A j, k \in 1..4 : S[j].name = S[k].name => j = k
  BY <1>1 DEF Field
<1>4. /\ S[1].name = "args" /\ S[1].size = L /\ S[1].align = 8
      /\ S[2].name = "usdt_cookie" /\ S[2].size = 8 /\ S[2].align = 8
      /\ S[3].name = "arg_cnt" /\ S[3].size = 2 /\ S[3].align = 2
      /\ S[4].name = "X_pad" /\ S[4].size = 6 /\ S[4].align = 1
  BY <1>1 DEF Field
<1>5. /\ AlignUp(0, 8) = 0 /\ AlignUp(L, 8) = L /\ AlignUp(L + 8, 2) = L + 8
      /\ AlignUp(L + 10, 1) = L + 10 /\ AlignUp(L + 16, 8) = L + 16
  BY <1>0 DEF AlignUp
<1>6. e[0] = 0 /\ e[1] = L /\ e[2] = L + 8 /\ e[3] = L + 10 /\ e[4] = L + 16 /\ L \in Nat
  BY <1>0
<1>7. e = [i \in 0..4 |-> IF i = 0 THEN 0 ELSE e[i]]
  OBVIOUS
<1> HIDE DEF e, S, L
<1>8. \A i \in 1..4 : e[i] = AlignUp(e[i - 1], S[i].align) + S[i].size
  BY <1>4, <1>5, <1>6
<1>9. \A i \in 0..4 : i # 0 => i \in 1..4
  OBVIOUS
<1>10. e = [i \in 0..4 |-> IF i = 0 THEN 0 ELSE AlignUp(e[i - 1], S[i].align) + S[i].size]
  BY <1>7, <1>8, <1>9
<1>11. Placed(S, 4, e)
  BY <1>2, <1>3, <1>10 DEF Placed
<1>12. ASSUME NEW j \in 1..4 PROVE Offset(S, S[j].name) = AlignUp(e[j - 1], S[j].align)
  <2>1. 4 \in Nat
    OBVIOUS
  <2> QED BY <1>11, <2>1, OffsetPlaced, Zenon
<1>13. Offset(S, "arg_cnt") = L + 8 /\ Offset(S, S[4].name) = L + 10
  BY <1>4, <1>5, <1>6, <1>12
<1>14. AlignOf(S) = 8
  <2>1. {f.align : f \in Range(S)} = {1, 2, 8}
    BY <1>2, <1>4 DEF Range
  <2>2. Max({1, 2, 8}) = 8
    BY DEF Max
  <2> QED BY <2>1, <2>2 DEF AlignOf
<1>15. SizeOf(S) = L + 16
  BY <1>2, <1>4, <1>5, <1>6, <1>13, <1>14 DEF SizeOf
<1> QED BY <1>13, <1>15 DEF S, L

\* The offsets that the declarations are meant to have.
LayoutIs(layout) ==
  /\ layout.stride = 24 /\ layout.cnt = 24 * MaxArgs + 8 /\ layout.size = 24 * MaxArgs + 16
  /\ \A f \in DOMAIN Starts : layout.field[f] = Starts[f]

\* Both compilers place the fields that are read at the same offsets.
THEOREM LayoutsAgree == LayoutIs(GoLayout) /\ LayoutIs(CLayout)
<1>1. DOMAIN Starts \subseteq {g.name : g \in Range(GoArgSpec)}
  BY DEF Starts, Range, GoArgSpec, Field
<1>2. DOMAIN Starts \subseteq {g.name : g \in Range(CArgSpec)}
  BY DEF Starts, Range, CArgSpec, Field
<1>3. LayoutIs(GoLayout)
  <2>1. /\ Offset(SpecOf(GoArgSpec), "arg_cnt") = 24 * MaxArgs + 8
        /\ SizeOf(SpecOf(GoArgSpec)) = 24 * MaxArgs + 16
    BY GoOffsets, SpecPlaced
  <2> QED BY <1>1, <2>1, GoOffsets DEF LayoutIs, GoLayout, Layout
<1>4. LayoutIs(CLayout)
  <2>1. /\ Offset(SpecOf(CArgSpec), "arg_cnt") = 24 * MaxArgs + 8
        /\ SizeOf(SpecOf(CArgSpec)) = 24 * MaxArgs + 16
    BY COffsets, SpecPlaced
  <2> QED BY <1>2, <2>1, COffsets DEF LayoutIs, CLayout, Layout
<1> QED BY <1>3, <1>4

-----------------------------------------------------------------------------
(***************************************************************************)
(* Bytes written and read back.                                            *)
(***************************************************************************)
\* The size of each field, and the place of its bytes in argument n, counted from 1.
Sizes == [val_off |-> 8, arg_type |-> 4, reg_id |-> 1, arg_signed |-> 1, arg_bitshift |-> 1,
          arg_is_float |-> 1]

Place(n, f, k) == 24 * (n - 1) + Starts[f] + k

\* An argument occupies the bytes of its fields.
LEMMA ArgPlaces ==
  ASSUME NEW n \in Nat \ {0}, NEW a
  PROVE  /\ \A f \in DOMAIN Starts : \A k \in 0..(Sizes[f] - 1) :
              <<Place(n, f, k), Digit(Encoded(a)[f], k, Radix(f))>> \in ArgBytes(n, a)
         /\ \A w \in ArgBytes(n, a) : \E f \in DOMAIN Starts : \E k \in 0..(Sizes[f] - 1) :
              w = <<Place(n, f, k), Digit(Encoded(a)[f], k, Radix(f))>>
<1> DEFINE F == {g \in Range(GoArgSpec) : g.name \in DOMAIN Encoded(a)}
           B(f) == {<<At(GoLayout, n - 1, f.name) + k, Digit(Encoded(a)[f.name], k, Radix(f.name))>>
                    : k \in 0..(f.size - 1)}
<1>1. ArgBytes(n, a) = UNION {B(f) : f \in F}
  BY DEF ArgBytes
<1>2. DOMAIN Encoded(a) = DOMAIN Starts
  BY DEF Encoded, Starts
<1>3. \A g \in F : g.name \in DOMAIN Starts /\ g.size = Sizes[g.name]
  BY <1>2 DEF Range, GoArgSpec, Field, Starts, Sizes
<1>4. \A f \in DOMAIN Starts : \E g \in F : g.name = f
  BY <1>2 DEF Range, GoArgSpec, Field, Starts
<1>5. ASSUME NEW f \in DOMAIN Starts, NEW k \in Int PROVE At(GoLayout, n - 1, f) + k = Place(n, f, k)
  <2>1. GoLayout.stride = 24 /\ GoLayout.field[f] = Starts[f]
    BY LayoutsAgree DEF LayoutIs
  <2>2. Starts[f] \in Nat
    BY DEF Starts
  <2> QED BY <2>1, <2>2 DEF At, Place
<1> HIDE DEF F
<1>6. \A f \in DOMAIN Starts : Sizes[f] \in Nat
  BY DEF Starts, Sizes
<1>7. ASSUME NEW f \in DOMAIN Starts, NEW k \in 0..(Sizes[f] - 1)
      PROVE  <<Place(n, f, k), Digit(Encoded(a)[f], k, Radix(f))>> \in ArgBytes(n, a)
  <2>1. PICK g \in F : g.name = f
    BY <1>4
  <2>2. k \in 0..(g.size - 1) /\ k \in Int
    BY <1>3, <1>6, <2>1
  <2>3. <<Place(n, f, k), Digit(Encoded(a)[f], k, Radix(f))>> \in B(g)
    BY <1>5, <2>1, <2>2
  <2> QED BY <1>1, <2>3
<1>8. ASSUME NEW w \in ArgBytes(n, a)
      PROVE  \E f \in DOMAIN Starts : \E k \in 0..(Sizes[f] - 1) :
               w = <<Place(n, f, k), Digit(Encoded(a)[f], k, Radix(f))>>
  <2>1. PICK g \in F : w \in B(g)
    BY <1>1
  <2>2. PICK k \in 0..(g.size - 1) :
          w = <<At(GoLayout, n - 1, g.name) + k, Digit(Encoded(a)[g.name], k, Radix(g.name))>>
    BY <2>1
  <2>3. g.name \in DOMAIN Starts /\ k \in 0..(Sizes[g.name] - 1) /\ k \in Int
    BY <1>3, <1>6, <2>2
  <2>4. At(GoLayout, n - 1, g.name) + k = Place(n, g.name, k)
    BY <1>5, <2>3
  <2> QED BY <2>2, <2>3, <2>4
<1> QED BY <1>7, <1>8

\* No two bytes have the same place.
LEMMA PlacesApart ==
  ASSUME NEW n \in 1..MaxArgs, NEW m \in 1..MaxArgs,
         NEW f \in DOMAIN Starts, NEW g \in DOMAIN Starts,
         NEW k \in 0..(Sizes[f] - 1), NEW l \in 0..(Sizes[g] - 1)
  PROVE  /\ Place(n, f, k) \in 0..(24 * MaxArgs - 1)
         /\ Place(n, f, k) = Place(m, g, l) => n = m /\ f = g /\ k = l
<1>0. MaxArgs \in Nat /\ n \in Nat /\ m \in Nat /\ k \in Nat /\ l \in Nat
  BY Bounds DEF Sizes, Starts
<1> DEFINE x == Starts[f] + k
           y == Starts[g] + l
<1>1. x \in 0..15 /\ y \in 0..15
  BY DEF Starts, Sizes
<1>2. x = y => f = g /\ k = l
  BY SMTT(60) DEF Starts, Sizes
<1>3. Place(n, f, k) = 24 * (n - 1) + x /\ Place(m, g, l) = 24 * (m - 1) + y
  BY <1>0 DEF Place, Starts
<1> HIDE DEF x, y
<1>4. 24 * (n - 1) + x \in 0..(24 * MaxArgs - 1)
  BY <1>0, <1>1
<1>5. 24 * (n - 1) + x = 24 * (m - 1) + y => n = m /\ x = y
  BY <1>0, <1>1
<1> QED BY <1>2, <1>3, <1>4, <1>5

\* A list of arguments that fits, and how many it has.
Fits(A, cnt) == cnt \in 0..MaxArgs /\ DOMAIN A = 1..cnt

\* The bytes that SpecToBytes sets.
Written(A, cnt) == CntBytes(cnt) \cup UNION {ArgBytes(n, A[n]) : n \in DOMAIN A}

\* The bytes of the count lie behind those of all arguments.
LEMMA CntPlaces ==
  ASSUME NEW cnt
  PROVE  /\ \A k \in 0..1 : <<24 * MaxArgs + 8 + k, Digit(cnt, k, 256)>> \in CntBytes(cnt)
         /\ \A w \in CntBytes(cnt) : \E k \in 0..1 : w = <<24 * MaxArgs + 8 + k, Digit(cnt, k, 256)>>
<1>1. GoLayout.cnt = 24 * MaxArgs + 8
  BY LayoutsAgree DEF LayoutIs
<1> QED BY <1>1 DEF CntBytes

\* A place that one value is written to holds that value.
LEMMA ByteStored ==
  ASSUME NEW A, NEW cnt, NEW o \in 0..(24 * MaxArgs + 15), NEW v, <<o, v>> \in Written(A, cnt),
         \A w \in Written(A, cnt) : w[1] = o => w[2] = v
  PROVE  SpecToBytes(A, cnt)[o] = v
<1> DEFINE W == Written(A, cnt)
<1>1. SpecToBytes(A, cnt) = [p \in 0..(GoLayout.size - 1) |->
        IF \E w \in W : w[1] = p THEN (CHOOSE w \in W : w[1] = p)[2] ELSE 0]
  BY DEF SpecToBytes, Written
<1>2. o \in 0..(GoLayout.size - 1)
  <2>1. GoLayout.size = 24 * MaxArgs + 16 /\ MaxArgs \in Nat
    BY LayoutsAgree, Bounds DEF LayoutIs
  <2> QED BY <2>1
<1>3. \E w \in W : w[1] = o
  <2>1. <<o, v>>[1] = o
    OBVIOUS
  <2> QED BY <2>1
<1> HIDE DEF W
<1>4. (CHOOSE w \in W : w[1] = o) \in W /\ (CHOOSE w \in W : w[1] = o)[1] = o
  BY <1>3
<1>5. (CHOOSE w \in W : w[1] = o)[2] = v
  BY <1>4 DEF W
<1> QED BY <1>1, <1>2, <1>3, <1>5

\* Every byte of a field holds the digit that was written for it.
LEMMA FieldByte ==
  ASSUME NEW A, NEW cnt, Fits(A, cnt), NEW n \in 1..cnt,
         NEW f \in DOMAIN Starts, NEW k \in 0..(Sizes[f] - 1)
  PROVE  SpecToBytes(A, cnt)[Place(n, f, k)] = Digit(Encoded(A[n])[f], k, Radix(f))
<1> DEFINE o == Place(n, f, k)
           v == Digit(Encoded(A[n])[f], k, Radix(f))
<1>1. /\ cnt \in Nat /\ MaxArgs \in Nat /\ n \in 1..MaxArgs /\ n \in DOMAIN A
      /\ \A m \in DOMAIN A : m \in 1..MaxArgs /\ m \in Nat \ {0}
  BY Bounds DEF Fits
<1>2. o \in 0..(24 * MaxArgs - 1)
  BY <1>1, PlacesApart
<1>3. <<o, v>> \in Written(A, cnt)
  <2>1. <<o, v>> \in ArgBytes(n, A[n])
    BY <1>1, ArgPlaces
  <2> QED BY <1>1, <2>1 DEF Written
<1>4. ASSUME NEW w \in Written(A, cnt), w[1] = o PROVE w[2] = v
  <2>1. CASE w \in CntBytes(cnt)
    <3>1. PICK l \in 0..1 : w = <<24 * MaxArgs + 8 + l, Digit(cnt, l, 256)>>
      BY <2>1, CntPlaces
    <3>2. o = 24 * MaxArgs + 8 + l
      BY <1>4, <3>1
    <3> HIDE DEF o
    <3> QED BY <1>1, <1>2, <3>2
  <2>2. CASE \E m \in DOMAIN A : w \in ArgBytes(m, A[m])
    <3>1. PICK m \in DOMAIN A : w \in ArgBytes(m, A[m])
      BY <2>2
    <3>2. PICK g \in DOMAIN Starts : \E l \in 0..(Sizes[g] - 1) :
            w = <<Place(m, g, l), Digit(Encoded(A[m])[g], l, Radix(g))>>
      BY <1>1, <3>1, ArgPlaces
    <3>3. PICK l \in 0..(Sizes[g] - 1) :
            w = <<Place(m, g, l), Digit(Encoded(A[m])[g], l, Radix(g))>>
      BY <3>2
    <3>4. Place(n, f, k) = Place(m, g, l)
      BY <1>4, <3>3
    <3>5. n = m /\ f = g /\ k = l
      BY <1>1, <3>4, PlacesApart
    <3> QED BY <3>3, <3>5
  <2> QED BY <2>1, <2>2 DEF Written
<1>5. o \in 0..(24 * MaxArgs + 15)
  <2> HIDE DEF o
  <2> QED BY <1>1, <1>2
<1> HIDE DEF o, v
<1>6. SpecToBytes(A, cnt)[o] = v
  BY <1>3, <1>4, <1>5, ByteStored
<1> QED BY <1>6 DEF o, v

\* SpecToBytes stores the digits of the count in its two bytes.
LEMMA CntByte ==
  ASSUME NEW A, NEW cnt, Fits(A, cnt), NEW k \in 0..1
  PROVE  SpecToBytes(A, cnt)[24 * MaxArgs + 8 + k] = Digit(cnt, k, 256)
<1> DEFINE o == 24 * MaxArgs + 8 + k
           v == Digit(cnt, k, 256)
<1>1. /\ cnt \in Nat /\ MaxArgs \in Nat
      /\ \A m \in DOMAIN A : m \in 1..MaxArgs /\ m \in Nat \ {0}
  BY Bounds DEF Fits
<1>2. o \in 0..(24 * MaxArgs + 15)
  BY <1>1
<1>3. <<o, v>> \in Written(A, cnt)
  BY CntPlaces DEF Written
<1>4. ASSUME NEW w \in Written(A, cnt), w[1] = o PROVE w[2] = v
  <2>1. CASE w \in CntBytes(cnt)
    <3>1. PICK l \in 0..1 : w = <<24 * MaxArgs + 8 + l, Digit(cnt, l, 256)>>
      BY <2>1, CntPlaces
    <3>2. 24 * MaxArgs + 8 + k = 24 * MaxArgs + 8 + l
      BY <1>4, <3>1
    <3>3. k = l
      BY <1>1, <3>2
    <3> QED BY <3>1, <3>3
  <2>2. CASE \E m \in DOMAIN A : w \in ArgBytes(m, A[m])
    <3>1. PICK m \in DOMAIN A : w \in ArgBytes(m, A[m])
      BY <2>2
    <3>2. PICK g \in DOMAIN Starts : \E l \in 0..(Sizes[g] - 1) :
            w = <<Place(m, g, l), Digit(Encoded(A[m])[g], l, Radix(g))>>
      BY <1>1, <3>1, ArgPlaces
    <3>3. PICK l \in 0..(Sizes[g] - 1) :
            w = <<Place(m, g, l), Digit(Encoded(A[m])[g], l, Radix(g))>>
      BY <3>2
    <3>4. Place(m, g, l) \in 0..(24 * MaxArgs - 1)
      BY <1>1, <3>3, PlacesApart
    <3>5. o = Place(m, g, l)
      BY <1>4, <3>3
    <3> QED BY <1>1, <3>4, <3>5
  <2> QED BY <2>1, <2>2 DEF Written
<1> HIDE DEF o, v
<1>5. SpecToBytes(A, cnt)[o] = v
  BY <1>2, <1>3, <1>4, ByteStored
<1> QED BY <1>5 DEF o, v

\* Bytes that hold the digits of a number are read as the number.
LEMMA LoadDigits ==
  ASSUME NEW b \in Nat \ {0}, NEW n \in 1..8, PowersOf(b, n), NEW v \in 0..(b^n - 1),
         NEW B, NEW at \in Nat, \A k \in 0..(n - 1) : B[at + k] = Digit(v, k, b)
  PROVE  Load(B, at, n, b) = v
<1> DEFINE d == [k \in 0..(n - 1) |-> B[at + k]]
<1>1. \A k \in 0..(n - 1) : d[k] = Digit(v, k, b)
  OBVIOUS
<1> HIDE DEF d
<1>2. ValueOf(d, n, b) = v
  BY <1>1, DigitsRestore
<1> QED BY <1>2 DEF Load, d

\* The value of a field has as many digits as the field has bytes.
FieldFits(a, f) == Encoded(a)[f] \in 0..(Radix(f)^Sizes[f] - 1)

\* A field that fits its bytes is read through the C struct as it was written
\* through the Go struct.
LEMMA FieldRead ==
  ASSUME PowersOf(Base, 8), NEW A, NEW cnt, Fits(A, cnt), NEW n \in 1..cnt,
         NEW f \in DOMAIN Starts, FieldFits(A[n], f)
  PROVE  Load(SpecToBytes(A, cnt), At(CLayout, n - 1, f), Sizes[f], Radix(f)) = Encoded(A[n])[f]
<1> DEFINE b == Radix(f)
           m == Sizes[f]
           v == Encoded(A[n])[f]
           B == SpecToBytes(A, cnt)
           at == Place(n, f, 0)
<1>0. cnt \in Nat /\ n \in Nat \ {0}
  BY DEF Fits
<1>1. At(CLayout, n - 1, f) = at /\ at \in Nat /\ \A k \in Nat : at + k = Place(n, f, k)
  <2>1. CLayout.stride = 24 /\ CLayout.field[f] = Starts[f]
    BY LayoutsAgree DEF LayoutIs
  <2>2. Starts[f] \in Nat
    BY DEF Starts
  <2> QED BY <1>0, <2>1, <2>2 DEF At, Place
<1>2. b \in Nat \ {0} /\ m \in 1..8 /\ PowersOf(b, m)
  <2>1. m \in 1..8 /\ (f # "val_off" => m <= 4)
    BY DEF Sizes, Starts
  <2>2. CASE f = "val_off"
    <3>1. b = Base /\ m = 8
      BY <2>2 DEF Radix, Sizes
    <3> QED BY <3>1, Bounds
  <2>3. CASE f # "val_off"
    <3>1. b = 256
      BY <2>3 DEF Radix
    <3> HIDE DEF m
    <3>2. \A k \in 0..(m - 1) : k \in 0..(4 - 1)
      BY <2>1, <2>3
    <3>3. PowersOf(256, m)
      BY <3>2, BytePowers, Zenon DEF PowersOf
    <3> QED BY <2>1, <3>1, <3>3
  <2> QED BY <2>2, <2>3
<1>3. \A k \in 0..(m - 1) : B[at + k] = Digit(v, k, b)
  <2>1. ASSUME NEW k \in 0..(m - 1) PROVE B[at + k] = Digit(v, k, b)
    <3>1. B[Place(n, f, k)] = Digit(v, k, b)
      BY FieldByte
    <3>2. k \in Nat
      BY <1>2
    <3> QED BY <1>1, <3>1, <3>2
  <2> QED BY <2>1
<1>4. v \in 0..(b^m - 1)
  BY DEF FieldFits
<1> HIDE DEF b, m, v, B, at
<1>5. Load(B, at, m, b) = v
  BY <1>1, <1>2, <1>3, <1>4, LoadDigits
<1> QED BY <1>1, <1>5 DEF b, m, v, B

\* The values that the fields of an argument can hold.
ArgSpecOK(a) ==
  /\ a.type \in 0..2 /\ a.val_off \in 0..(Base^8 - 1) /\ a.reg \in 0..255
  /\ a.signed \in BOOLEAN /\ a.bitshift \in -128..127

\* Every list of arguments that fits is read back by the BPF side as it was written
\* by the Go side: its count, and of each argument all fields but the float flag,
\* which bpf_usdt_arg does not look at.
THEOREM ReadsBack ==
  ASSUME PowersOf(Base, 8), NEW A, NEW cnt, Fits(A, cnt), \A n \in 1..cnt : ArgSpecOK(A[n])
  PROVE  /\ ReadCnt(SpecToBytes(A, cnt)) = cnt
         /\ \A n \in 1..cnt : ReadArg(SpecToBytes(A, cnt), n - 1) =
              [type |-> A[n].type, val_off |-> A[n].val_off, reg |-> A[n].reg,
               signed |-> A[n].signed, bitshift |-> A[n].bitshift]
<1> DEFINE B == SpecToBytes(A, cnt)
<1>1. ReadCnt(B) = cnt
  <2> DEFINE at == 24 * MaxArgs + 8
             b == 256
             m == 2
  <2>1. CLayout.cnt = at
    BY LayoutsAgree DEF LayoutIs
  <2>2. 256^0 = 1 /\ 256^1 = 256 /\ 256^2 = 256 * 256
    BY SMT
  <2>3. at \in Nat /\ cnt \in Nat /\ 2 * cnt < 256 * 256
    BY <2>2, ArgBounds, SMT DEF Fits
  <2>4. PowersOf(b, m)
    BY <2>2, SMT DEF PowersOf
  <2>5. \A k \in 0..(m - 1) : B[at + k] = Digit(cnt, k, b)
    BY CntByte, SMT
  <2>6. b \in Nat \ {0} /\ m \in 1..8 /\ cnt \in 0..(b^m - 1)
    BY <2>2, <2>3, SMT
  <2> HIDE DEF B, at, b, m
  <2>7. Load(B, at, m, b) = cnt
    BY <2>3, <2>4, <2>5, <2>6, LoadDigits
  <2>8. LoadSigned(B, at, 2) = cnt
    BY <2>2, <2>3, <2>7, SMT DEF LoadSigned, b, m
  <2> QED BY <2>1, <2>8 DEF ReadCnt
<1>2. ASSUME NEW n \in 1..cnt
      PROVE  ReadArg(B, n - 1) =
               [type |-> A[n].type, val_off |-> A[n].val_off, reg |-> A[n].reg,
                signed |-> A[n].signed, bitshift |-> A[n].bitshift]
  <2> DEFINE a == A[n]
             v == Encoded(a)
             In(f) == Load(B, At(CLayout, n - 1, f), Sizes[f], Radix(f))
  <2>1. ArgSpecOK(a)
    OBVIOUS
  <2>2. 256^1 = 256 /\ 256^4 \in Nat /\ 256^4 > 256
    BY SMT
  <2>3. /\ v.val_off = a.val_off /\ v.arg_type = a.type /\ v.reg_id = a.reg
        /\ v.arg_signed = Bool(a.signed) /\ v.arg_bitshift = a.bitshift % 256
    BY DEF Encoded
  <2>4. /\ Radix("val_off") = Base /\ Sizes["val_off"] = 8
        /\ Radix("arg_type") = 256 /\ Sizes["arg_type"] = 4
        /\ \A f \in {"reg_id", "arg_signed", "arg_bitshift"} : Radix(f) = 256 /\ Sizes[f] = 1
    BY DEF Radix, Sizes
  <2>5. FieldFits(a, "val_off")
    BY <2>1, <2>3, <2>4 DEF ArgSpecOK, FieldFits
  <2>6. FieldFits(a, "arg_type")
    <3>1. v.arg_type \in 0..(256^4 - 1)
      BY <2>1, <2>2, <2>3 DEF ArgSpecOK
    <3> QED BY <2>4, <3>1 DEF FieldFits
  <2>7. \A f \in {"reg_id", "arg_signed", "arg_bitshift"} : FieldFits(a, f)
    <3>1. /\ v.reg_id \in 0..(256^1 - 1) /\ v.arg_signed \in 0..(256^1 - 1)
          /\ v.arg_bitshift \in 0..(256^1 - 1)
      <4>1. a.reg \in 0..255 /\ a.bitshift \in -128..127 /\ Bool(a.signed) \in 0..255
        BY <2>1 DEF ArgSpecOK, Bool
      <4> HIDE DEF a, v
      <4>2. a.bitshift % 256 \in 0..255
        BY <4>1, SMT
      <4> QED BY <2>2, <2>3, <4>1, <4>2, SMT
    <3> QED BY <2>4, <3>1 DEF FieldFits
  <2>8. \A f \in {"val_off", "arg_type", "reg_id", "arg_signed", "arg_bitshift"} : f \in DOMAIN Starts
    BY DEF Starts
  <2>9. \A f \in {"val_off", "arg_type", "reg_id", "arg_signed", "arg_bitshift"} : FieldFits(a, f)
    BY <2>5, <2>6, <2>7
  <2>10. \A f \in {"val_off", "arg_type", "reg_id", "arg_signed", "arg_bitshift"} : In(f) = v[f]
    BY <2>8, <2>9, FieldRead
  <2> HIDE DEF In
  <2>11. /\ Load(B, At(CLayout, n - 1, "val_off"), 8, Base) = a.val_off
         /\ Load(B, At(CLayout, n - 1, "arg_type"), 4, 256) = a.type
         /\ Load(B, At(CLayout, n - 1, "reg_id"), 1, 256) = a.reg
         /\ Load(B, At(CLayout, n - 1, "arg_signed"), 1, 256) = Bool(a.signed)
         /\ Load(B, At(CLayout, n - 1, "arg_bitshift"), 1, 256) = a.bitshift % 256
    BY <2>3, <2>4, <2>10 DEF In
  <2>12. LoadSigned(B, At(CLayout, n - 1, "arg_bitshift"), 1) = a.bitshift
    <3>1. a.bitshift \in -128..127
      BY <2>1 DEF ArgSpecOK
    <3> HIDE DEF a
    <3> QED BY <2>2, <2>11, <3>1 DEF LoadSigned
  <2>13. (Bool(a.signed) # 0) = a.signed
    BY <2>1 DEF ArgSpecOK, Bool
  <2> HIDE DEF B
  <2> QED BY <2>11, <2>12, <2>13 DEF ReadArg
<1> QED BY <1>1, <1>2
=============================================================================
