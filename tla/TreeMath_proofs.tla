-------------------------- MODULE TreeMath_proofs --------------------------
(***************************************************************************)
(* Lemmas about TreeMath, for trees with any power of two of leaves: where *)
(* parents, children and siblings lie, what is under a node, and what      *)
(* direct paths and copaths are.                                           *)
(***************************************************************************)
EXTENDS TreeMath, Integers, FiniteSetTheorems, WellFoundedInduction, TLAPS

-----------------------------------------------------------------------------
(***************************************************************************)
(* Induction, for sets of numbers.                                         *)
(***************************************************************************)
LEMMA LeastNumber ==
  ASSUME NEW S, S \subseteq Nat, S # {}
  PROVE  \E x \in S : \A y \in S : x <= y
<1>1. PICK x \in S : \A y \in S : ~ (<<y, x>> \in OpToRel(<, Nat))
  BY NatLessThanWellFounded, WFMin
<1>2. \A y \in S : x <= y
  <2> TAKE y \in S
  <2>1. ~ (<<y, x>> \in {ss \in Nat \X Nat : ss[1] < ss[2]})
    BY <1>1 DEF OpToRel
  <2> QED
    BY <2>1
<1> QED
  BY <1>2

LEMMA InductionOnSet ==
  ASSUME NEW S, 0 \in S, \A n \in Nat : n \in S => n + 1 \in S
  PROVE  Nat \subseteq S
<1> SUFFICES ASSUME Nat \ S # {}  PROVE FALSE
  OBVIOUS
<1>1. PICK x \in Nat \ S : \A y \in Nat \ S : x <= y
  BY LeastNumber
<1>2. x # 0 /\ x - 1 \in Nat /\ x - 1 \in S
  BY <1>1
<1> QED
  BY <1>2

-----------------------------------------------------------------------------
\* The powers of two are natural numbers that double: they count the subsets of 1 .. k.
LEMMA SubsetsDouble ==
  ASSUME NEW S, IsFiniteSet(S), NEW x, x \notin S
  PROVE  Cardinality(SUBSET (S \union {x})) = 2 * Cardinality(SUBSET S)
<1> DEFINE With == {T \union {x} : T \in SUBSET S}
           f == [T \in SUBSET S |-> T \union {x}]
<1>1. IsFiniteSet(SUBSET S) /\ Cardinality(SUBSET S) \in Nat
  BY FS_SUBSET, FS_CardinalityType
<1>2. f \in Bijection(SUBSET S, With)
  <2>1. f \in [SUBSET S -> With]
    OBVIOUS
  <2>2. \A a, b \in SUBSET S : f[a] = f[b] => a = b
    OBVIOUS
  <2>3. \A t \in With : \E s \in SUBSET S : f[s] = t
    OBVIOUS
  <2> QED
    BY <2>1, <2>2, <2>3 DEF Bijection, Injection, Surjection, IsInjective
<1>3. IsFiniteSet(With) /\ Cardinality(With) = Cardinality(SUBSET S)
  <2>1. ExistsBijection(SUBSET S, With)
    BY <1>2 DEF ExistsBijection
  <2> QED
    BY <1>1, <2>1, FS_Bijection
<1>4. SUBSET (S \union {x}) = (SUBSET S) \union With
  <2>1. ASSUME NEW T \in SUBSET (S \union {x})  PROVE T \in (SUBSET S) \union With
    <3>1. CASE x \in T
      <4>1. T \ {x} \in SUBSET S /\ T = (T \ {x}) \union {x}
        BY <3>1
      <4> QED
        BY <4>1
    <3>2. CASE x \notin T
      BY <3>2
    <3> QED
      BY <3>1, <3>2
  <2>2. ASSUME NEW T \in (SUBSET S) \union With  PROVE T \in SUBSET (S \union {x})
    OBVIOUS
  <2> QED
    BY <2>1, <2>2
<1>5. (SUBSET S) \intersect With = {}
  OBVIOUS
<1> HIDE DEF With
<1>6. Cardinality((SUBSET S) \union With)
        = Cardinality(SUBSET S) + Cardinality(With) - Cardinality((SUBSET S) \intersect With)
  <2> HIDE DEF f
  <2> QED
    BY <1>1, <1>3, FS_Union
<1>7. Cardinality((SUBSET S) \intersect With) = 0
  BY <1>5, FS_EmptySet
<1>8. Cardinality(SUBSET (S \union {x})) = Cardinality((SUBSET S) \union With)
  BY <1>4
<1> HIDE DEF f
<1> QED
  BY <1>1, <1>3, <1>6, <1>7, <1>8

LEMMA PowerOfTwo ==
  ASSUME NEW k \in Nat
  PROVE  2^k \in Nat \ {0} /\ 2^(k + 1) = 2 * 2^k
<1>1. IsFiniteSet(1 .. k) /\ Cardinality(1 .. k) = k
  BY FS_Interval
<1>2. IsFiniteSet(1 .. k + 1) /\ Cardinality(1 .. k + 1) = k + 1
  BY FS_Interval
<1>3. Cardinality(SUBSET (1 .. k)) = 2^k /\ Cardinality(SUBSET (1 .. k + 1)) = 2^(k + 1)
  BY <1>1, <1>2, FS_SUBSET
<1>4. IsFiniteSet(SUBSET (1 .. k)) /\ SUBSET (1 .. k) # {}
  BY <1>1, FS_SUBSET
<1>5. Cardinality(SUBSET (1 .. k)) \in Nat /\ Cardinality(SUBSET (1 .. k)) # 0
  BY <1>4, FS_CardinalityType, FS_EmptySet
<1>6. 1 .. k + 1 = (1 .. k) \union {k + 1} /\ k + 1 \notin 1 .. k
  OBVIOUS
<1>7. Cardinality(SUBSET ((1 .. k) \union {k + 1})) = 2 * Cardinality(SUBSET (1 .. k))
  BY <1>1, <1>6, SubsetsDouble
<1> QED
  BY <1>3, <1>5, <1>6, <1>7

LEMMA PowersAdd ==
  ASSUME NEW j \in Nat, NEW k \in Nat
  PROVE  2^(j + k) = 2^j * 2^k
<1> DEFINE S == {n \in Nat : 2^(j + n) = 2^j * 2^n}
<1>1. 0 \in S
  BY PowerOfTwo, 2^0 = 1
<1>2. ASSUME NEW n \in Nat, n \in S  PROVE n + 1 \in S
  <2>1. 2^(j + (n + 1)) = 2^((j + n) + 1)
    <3>1. j + (n + 1) = (j + n) + 1
      OBVIOUS
    <3> QED
      BY <3>1
  <2>2. 2^((j + n) + 1) = 2 * 2^(j + n) /\ 2^(n + 1) = 2 * 2^n
    BY PowerOfTwo
  <2>3. 2^j \in Nat /\ 2^n \in Nat /\ 2^(j + n) \in Nat
    BY PowerOfTwo
  <2>4. 2 * (2^j * 2^n) = 2^j * (2 * 2^n)
    BY <2>3
  <2> QED
    BY <1>2, <2>1, <2>2, <2>4
<1> HIDE DEF S
<1>3. k \in S
  BY <1>1, <1>2, InductionOnSet
<1> QED
  BY <1>3 DEF S

\* A larger power is a multiple of the double of a smaller one.
LEMMA PowersDivide ==
  ASSUME NEW j \in Nat, NEW k \in Nat, j < k
  PROVE  \E d \in Nat \ {0} : 2^k = (2 * d) * 2^j
<1> DEFINE d == 2^(k - j - 1)
<1>1. k - j - 1 \in Nat /\ k = (j + 1) + (k - j - 1)
  OBVIOUS
<1>2. d \in Nat \ {0} /\ 2^(j + 1) = 2 * 2^j /\ 2^j \in Nat
  BY <1>1, PowerOfTwo
<1>3. 2^k = 2^(j + 1) * d
  <2>1. 2^((j + 1) + (k - j - 1)) = 2^(j + 1) * 2^(k - j - 1)
    BY <1>1, PowersAdd
  <2> QED
    BY <1>1, <2>1
<1> HIDE DEF d
<1> QED
  BY <1>2, <1>3

LEMMA PowersIncrease ==
  ASSUME NEW j \in Nat, NEW k \in Nat, j < k
  PROVE  2 * 2^j <= 2^k /\ 2^j < 2^k
<1>1. PICK d \in Nat \ {0} : 2^k = (2 * d) * 2^j
  BY PowersDivide
<1>2. 2^j \in Nat \ {0}
  BY PowerOfTwo
<1>3. (2 * d) * 2^j >= 2 * 2^j
  BY <1>2
<1> QED
  BY <1>1, <1>2, <1>3

LEMMA PowerExceeds ==
  ASSUME NEW k \in Nat
  PROVE  k < 2^k
<1> DEFINE S == {n \in Nat : n < 2^n}
<1>1. 0 \in S
  BY 2^0 = 1
<1>2. ASSUME NEW n \in Nat, n \in S  PROVE n + 1 \in S
  BY <1>2, PowerOfTwo
<1> HIDE DEF S
<1>3. k \in S
  BY <1>1, <1>2, InductionOnSet
<1> QED
  BY <1>3 DEF S

-----------------------------------------------------------------------------
(***************************************************************************)
(* Every node is NodeAt its level and its place among the nodes of it.     *)
(***************************************************************************)
NodeAt(k, q) == (2 * q + 1) * 2^k - 1

LEMMA MultipleDivides ==
  ASSUME NEW m \in Nat, NEW d \in Nat \ {0}
  PROVE  (m * d) % d = 0 /\ (m * d) \div d = m
<1> DEFINE q == (m * d) \div d
           r == (m * d) % d
<1>1. m * d \in Nat
  OBVIOUS
<1>2. q \in Int /\ r \in 0 .. d - 1 /\ m * d = d * q + r
  BY <1>1
<1> HIDE DEF q, r
<1>3. q <= m
  <2> SUFFICES ASSUME q >= m + 1  PROVE FALSE
    BY <1>2
  <2>1. d * q >= d * (m + 1)
    BY <1>2
  <2> QED
    BY <1>2, <2>1
<1>4. q >= m
  <2> SUFFICES ASSUME q <= m - 1  PROVE FALSE
    BY <1>2
  <2>1. d * q <= d * (m - 1)
    BY <1>2
  <2> QED
    BY <1>2, <2>1
<1>5. q = m
  BY <1>2, <1>3, <1>4
<1>6. r = 0
  BY <1>2, <1>5
<1> QED
  BY <1>5, <1>6 DEF q, r

LEMMA DividesMultiple ==
  ASSUME NEW m \in Nat, NEW d \in Nat \ {0}, m % d = 0
  PROVE  m \div d \in Nat /\ m = (m \div d) * d
<1> DEFINE q == m \div d
<1>1. q \in Int /\ m = d * q
  OBVIOUS
<1> HIDE DEF q
<1>2. q >= 0
  <2> SUFFICES ASSUME q <= 0 - 1  PROVE FALSE
    BY <1>1
  <2>1. d * q <= d * (0 - 1)
    BY <1>1
  <2> QED
    BY <1>1, <2>1
<1> QED
  BY <1>1, <1>2 DEF q

LEMMA CancelFactor ==
  ASSUME NEW a \in Nat, NEW b \in Nat, NEW d \in Nat \ {0}, a * d = b * d
  PROVE  a = b
<1>1. (a * d) \div d = a /\ (b * d) \div d = b
  BY MultipleDivides
<1> QED
  BY <1>1

LEMMA OddIsNotEven ==
  ASSUME NEW a \in Nat, NEW b \in Nat
  PROVE  2 * a + 1 # 2 * b
OBVIOUS

LEMMA LevelOfNodeAt ==
  ASSUME NEW k \in Nat, NEW q \in Nat
  PROVE  NodeAt(k, q) \in Nat /\ Level(NodeAt(k, q)) = k
<1> DEFINE x == NodeAt(k, q)
           p == 2^k
           o == 2 * q + 1
<1>1. p \in Nat \ {0} /\ k < p
  BY PowerOfTwo, PowerExceeds
<1>2. o \in Nat \ {0} /\ o % 2 = 1
  OBVIOUS
<1>3. x + 1 = o * p
  BY <1>1 DEF NodeAt
<1>4. o * p >= p
  <2> HIDE DEF o, p
  <2> QED
    BY <1>1, <1>2
<1>5. x \in Nat /\ k \in 0 .. x
  <2>1. x = o * p - 1 /\ o * p \in Nat
    BY <1>1, <1>2 DEF NodeAt
  <2> HIDE DEF o, p, x
  <2> QED
    BY <1>1, <1>4, <2>1
<1>6. (x + 1) % p = 0 /\ ((x + 1) \div p) % 2 = 1
  <2> HIDE DEF o, p, x
  <2> QED
    BY <1>1, <1>2, <1>3, MultipleDivides
<1>7. ASSUME NEW j \in 0 .. x, (x + 1) % 2^j = 0, ((x + 1) \div 2^j) % 2 = 1
      PROVE  j = k
  <2> DEFINE r == (x + 1) \div 2^j
  <2>1. j \in Nat /\ 2^j \in Nat \ {0}
    BY <1>5, PowerOfTwo
  <2>2. r \in Nat /\ x + 1 = r * 2^j
    <3> HIDE DEF x
    <3>1. x + 1 \in Nat
      BY <1>5
    <3> QED
      BY <1>7, <2>1, <3>1, DividesMultiple
  <2>3. r % 2 = 1
    BY <1>7
  <2>4. PICK s \in Nat : r = 2 * s + 1
    <3> HIDE DEF r
    <3>1. r \div 2 \in Nat /\ r = 2 * (r \div 2) + 1
      BY <2>2, <2>3
    <3> QED
      BY <3>1
  <2> HIDE DEF r
  <2>5. CASE j < k
    <3>1. PICK d \in Nat \ {0} : p = (2 * d) * 2^j
      BY <2>1, <2>5, PowersDivide
    <3>2. o * p = (2 * (o * d)) * 2^j
      <4> HIDE DEF o, p
      <4>1. o * ((2 * d) * 2^j) = (2 * (o * d)) * 2^j
        BY <1>2, <2>1
      <4> QED
        BY <3>1, <4>1
    <3>3. o * d \in Nat
      BY <1>2
    <3>4. r = 2 * (o * d)
      <4> HIDE DEF o, p, x
      <4> QED
        BY <1>3, <2>1, <2>2, <3>2, <3>3, CancelFactor
    <3> QED
      BY <2>4, <3>3, <3>4, OddIsNotEven
  <2>6. CASE k < j
    <3>1. PICK d \in Nat \ {0} : 2^j = (2 * d) * p
      BY <2>1, <2>6, PowersDivide
    <3>2. r * 2^j = (2 * (r * d)) * p
      <4> HIDE DEF o, p
      <4>1. r * ((2 * d) * p) = (2 * (r * d)) * p
        BY <1>1, <2>2
      <4> QED
        BY <3>1, <4>1
    <3>3. r * d \in Nat
      BY <2>2
    <3>4. o = 2 * (r * d)
      <4> HIDE DEF o, p, x
      <4> QED
        BY <1>1, <1>2, <1>3, <2>2, <3>2, <3>3, CancelFactor
    <3> QED
      BY <3>3, <3>4, OddIsNotEven
  <2> QED
    BY <2>1, <2>5, <2>6
<1> HIDE DEF x
<1>8. Level(x) = k
  BY <1>5, <1>6, <1>7 DEF Level
<1> QED
  BY <1>5, <1>8 DEF x

LEMMA EveryNodeIsAt ==
  ASSUME NEW x \in Nat
  PROVE  \E k, q \in Nat : x = NodeAt(k, q)
<1> DEFINE S == {j \in Nat : (x + 1) % 2^(j + 1) # 0}
<1>1. x + 1 \in S
  <2>1. x + 1 < 2^(x + 2) /\ 2^(x + 2) \in Nat \ {0}
    <3>1. x + 2 < 2^(x + 2) /\ 2^(x + 2) \in Nat \ {0}
      BY PowerExceeds, PowerOfTwo, x + 2 \in Nat
    <3> QED
      BY <3>1
  <2>2. (x + 1) % 2^(x + 2) = x + 1
    BY <2>1
  <2>3. (x + 1) + 1 = x + 2
    OBVIOUS
  <2> QED
    BY <2>2, <2>3
<1>2. PICK j \in S : \A i \in S : j <= i
  BY <1>1, LeastNumber
<1>3. j \in Nat /\ 2^j \in Nat \ {0} /\ 2^(j + 1) = 2 * 2^j
  BY PowerOfTwo
<1>4. (x + 1) % 2^j = 0
  <2>1. CASE j = 0
    BY <2>1, 2^0 = 1
  <2>2. CASE j # 0
    <3>1. j - 1 \in Nat /\ j - 1 \notin S
      <4>1. j - 1 \in Nat /\ ~(j <= j - 1)
        BY <1>3, <2>2
      <4> HIDE DEF S
      <4> QED
        BY <1>2, <4>1
    <3>2. (x + 1) % 2^((j - 1) + 1) = 0 /\ (j - 1) + 1 = j
      BY <1>3, <3>1
    <3> QED
      BY <3>2
  <2> QED
    BY <2>1, <2>2
<1> DEFINE r == (x + 1) \div 2^j
<1>5. r \in Nat /\ x + 1 = r * 2^j
  BY <1>3, <1>4, DividesMultiple
<1>6. r % 2 = 1
  <2> SUFFICES ASSUME r % 2 # 1  PROVE FALSE
    OBVIOUS
  <2>1. PICK t \in Nat : r = 2 * t
    <3> HIDE DEF r
    <3>1. r \div 2 \in Nat /\ r = 2 * (r \div 2)
      BY <1>5
    <3> QED
      BY <3>1
  <2>2. x + 1 = t * 2^(j + 1)
    <3> HIDE DEF r
    <3>1. (2 * t) * 2^j = t * (2 * 2^j)
      BY <1>3
    <3> QED
      BY <1>3, <1>5, <2>1, <3>1
  <2>3. 2^(j + 1) \in Nat \ {0}
    BY <1>3, PowerOfTwo
  <2>4. (t * 2^(j + 1)) % 2^(j + 1) = 0
    BY <2>3, MultipleDivides
  <2> QED
    BY <1>2, <2>2, <2>4
<1>7. PICK q \in Nat : r = 2 * q + 1
  <2> HIDE DEF r
  <2>1. r \div 2 \in Nat /\ r = 2 * (r \div 2) + 1
    BY <1>5, <1>6
  <2> QED
    BY <2>1
<1>8. x = NodeAt(j, q)
  <2>1. x = r * 2^j - 1
    <3> HIDE DEF r
    <3> QED
      BY <1>3, <1>5
  <2> HIDE DEF r
  <2> QED
    BY <1>7, <2>1 DEF NodeAt
<1> QED
  BY <1>3, <1>8

-----------------------------------------------------------------------------
(***************************************************************************)
(* The children and the parent of a node, and the nodes of its subtree.    *)
(***************************************************************************)
Block(x) == x - (2^Level(x) - 1) .. x + (2^Level(x) - 1)

LEMMA ChildrenAt ==
  ASSUME NEW k \in Nat, NEW q \in Nat
  PROVE  Left(NodeAt(k + 1, q)) = NodeAt(k, 2 * q) /\ Right(NodeAt(k + 1, q)) = NodeAt(k, 2 * q + 1)
<1> DEFINE x == NodeAt(k + 1, q)
<1>1. 2^k \in Nat /\ 2^(k + 1) = 2 * 2^k
  BY PowerOfTwo
<1>2. Level(x) = k + 1 /\ (k + 1) - 1 = k
  BY LevelOfNodeAt
<1>3. Left(x) = x - 2^k /\ Right(x) = x + 2^k
  BY <1>2 DEF Left, Right
<1>4. x = (2 * q + 1) * (2 * 2^k) - 1
  BY <1>1 DEF NodeAt
<1> HIDE DEF x
<1>5. x - 2^k = (2 * (2 * q) + 1) * 2^k - 1 /\ x + 2^k = (2 * (2 * q + 1) + 1) * 2^k - 1
  BY <1>1, <1>4
<1> QED
  BY <1>3, <1>5 DEF NodeAt, x

LEMMA DivideWithRemainder ==
  ASSUME NEW m \in Nat, NEW d \in Nat \ {0}, NEW r \in 0 .. d - 1
  PROVE  (m * d + r) \div d = m
<1> DEFINE q == (m * d + r) \div d
           s == (m * d + r) % d
<1>1. m * d \in Nat
  OBVIOUS
<1>2. q \in Int /\ s \in 0 .. d - 1 /\ m * d + r = d * q + s
  BY <1>1
<1> HIDE DEF q, s
<1>3. q <= m
  <2> SUFFICES ASSUME q >= m + 1  PROVE FALSE
    BY <1>2
  <2>1. d * q >= d * (m + 1)
    BY <1>2
  <2> QED
    BY <1>2, <2>1
<1>4. q >= m
  <2> SUFFICES ASSUME q <= m - 1  PROVE FALSE
    BY <1>2
  <2>1. d * q <= d * (m - 1)
    BY <1>2
  <2> QED
    BY <1>2, <2>1
<1> QED
  BY <1>2, <1>3, <1>4 DEF q

LEMMA HalfOf ==
  ASSUME NEW q \in Nat
  PROVE  q \div 2 \in Nat /\ q % 2 \in {0, 1} /\ q = 2 * (q \div 2) + (q % 2)
OBVIOUS

LEMMA ParentAt ==
  ASSUME NEW k \in Nat, NEW q \in Nat
  PROVE  Parent(NodeAt(k, q)) = NodeAt(k + 1, q \div 2)
<1> DEFINE x == NodeAt(k, q)
           p == 2^k
           h == q \div 2
<1>1. p \in Nat \ {0} /\ 2^(k + 1) = 2 * p /\ 2 * p \in Nat \ {0}
  BY PowerOfTwo
<1>2. Level(x) = k
  BY LevelOfNodeAt
<1>3. h \in Nat /\ q % 2 \in {0, 1} /\ q = 2 * h + (q % 2)
  BY HalfOf
<1>4. x = (2 * q + 1) * p - 1
  BY DEF NodeAt
<1> HIDE DEF x, p, h
<1>5. x = q * (2 * p) + (p - 1) /\ p - 1 \in 0 .. (2 * p) - 1
  BY <1>1, <1>4
<1>6. x \div (2 * p) = q
  BY <1>1, <1>5, DivideWithRemainder
<1>7. Parent(x) = IF q % 2 = 0 THEN x + p ELSE x - p
  BY <1>1, <1>2, <1>6 DEF Parent, p
<1>8. Parent(x) = (2 * h + 1) * (2 * p) - 1
  <2>1. CASE q % 2 = 0
    <3>1. q = 2 * h /\ Parent(x) = x + p
      BY <1>3, <1>7, <2>1
    <3>2. (2 * q + 1) * p - 1 + p = (2 * h + 1) * (2 * p) - 1
      BY <1>1, <1>3, <3>1
    <3> QED
      BY <1>4, <3>1, <3>2
  <2>2. CASE q % 2 = 1
    <3>1. q = 2 * h + 1 /\ Parent(x) = x - p
      BY <1>3, <1>7, <2>2
    <3>2. (2 * q + 1) * p - 1 - p = (2 * h + 1) * (2 * p) - 1
      BY <1>1, <1>3, <3>1
    <3> QED
      BY <1>4, <3>1, <3>2
  <2> QED
    BY <1>3, <2>1, <2>2
<1> QED
  BY <1>1, <1>8 DEF NodeAt, x, h

LEMMA BlockAt ==
  ASSUME NEW k \in Nat, NEW q \in Nat
  PROVE  Block(NodeAt(k, q)) = (2 * q) * 2^k .. (2 * q + 2) * 2^k - 2
<1> DEFINE x == NodeAt(k, q)
           p == 2^k
<1>1. p \in Nat \ {0}
  BY PowerOfTwo
<1>2. Level(x) = k
  BY LevelOfNodeAt
<1>3. x = (2 * q + 1) * p - 1
  BY DEF NodeAt
<1>4. Block(x) = x - (p - 1) .. x + (p - 1)
  BY <1>2 DEF Block
<1> HIDE DEF x, p
<1>5. x - (p - 1) = (2 * q) * p /\ x + (p - 1) = (2 * q + 2) * p - 2
  BY <1>1, <1>3
<1> QED
  BY <1>4, <1>5 DEF x, p

-----------------------------------------------------------------------------
(***************************************************************************)
(* The same facts without the places of the nodes.                         *)
(***************************************************************************)
LEMMA NodeBasics ==
  ASSUME NEW x \in Nat
  PROVE  /\ Level(x) \in Nat /\ x \in Block(x) /\ Block(x) \subseteq Nat
         /\ IsLeaf(x) <=> Level(x) = 0
         /\ IsLeaf(x) => Block(x) = {x}
<1>1. PICK k \in Nat, q \in Nat : x = NodeAt(k, q)
  BY EveryNodeIsAt
<1>2. Level(x) = k
  BY <1>1, LevelOfNodeAt
<1>3. Block(x) = (2 * q) * 2^k .. (2 * q + 2) * 2^k - 2
  BY <1>1, BlockAt
<1>4. x = (2 * q + 1) * 2^k - 1 /\ 2^k \in Nat \ {0}
  BY <1>1, PowerOfTwo DEF NodeAt
<1> DEFINE p == 2^k
<1>5. p \in Nat \ {0} /\ x = (2 * q + 1) * p - 1 /\ Block(x) = (2 * q) * p .. (2 * q + 2) * p - 2
  BY <1>3, <1>4
<1>6. CASE k = 0
  <2>1. p = 1
    BY <1>6, 2^0 = 1
  <2> HIDE DEF p
  <2>2. x = 2 * q /\ Block(x) = 2 * q .. 2 * q
    BY <1>5, <2>1
  <2> QED
    BY <1>2, <1>6, <2>2 DEF IsLeaf
<1>7. CASE k # 0
  <2>1. PICK r \in Nat \ {0} : p = 2 * r
    <3>1. k - 1 \in Nat /\ (k - 1) + 1 = k
      BY <1>7
    <3>2. 2^(k - 1) \in Nat \ {0} /\ 2^((k - 1) + 1) = 2 * 2^(k - 1)
      BY <3>1, PowerOfTwo
    <3> QED
      BY <3>1, <3>2
  <2> HIDE DEF p
  <2>2. (2 * q + 1) * (2 * r) = 2 * ((2 * q + 1) * r)
    OBVIOUS
  <2>3. x = 2 * ((2 * q + 1) * r) - 1 /\ (2 * q + 1) * r \in Nat
    BY <1>5, <2>1, <2>2
  <2>4. x % 2 = 1
    <3> DEFINE t == (2 * q + 1) * r
    <3>1. t \in Nat /\ x = 2 * t - 1
      BY <2>3
    <3> HIDE DEF t
    <3> QED
      BY <3>1
  <2>5. (2 * q) * p \in Nat /\ (2 * q) * p <= x /\ x <= (2 * q + 2) * p - 2
    <3>1. (2 * q + 1) * p = (2 * q) * p + p /\ (2 * q + 2) * p = (2 * q) * p + 2 * p
      BY <1>5
    <3>2. (2 * q) * p \in Nat /\ p >= 2
      BY <1>5, <2>1
    <3> QED
      BY <1>5, <3>1, <3>2
  <2> QED
    BY <1>2, <1>5, <1>7, <2>4, <2>5 DEF IsLeaf
<1> QED
  BY <1>6, <1>7

LEMMA ChildBasics ==
  ASSUME NEW x \in Nat, ~IsLeaf(x)
  PROVE  /\ Left(x) \in Nat /\ Right(x) \in Nat /\ Left(x) < x /\ x < Right(x)
         /\ Level(Left(x)) = Level(x) - 1 /\ Level(Right(x)) = Level(x) - 1
         /\ Parent(Left(x)) = x /\ Parent(Right(x)) = x
         /\ Block(x) = Block(Left(x)) \union {x} \union Block(Right(x))
         /\ Block(Left(x)) \intersect Block(Right(x)) = {}
         /\ x \notin Block(Left(x)) /\ x \notin Block(Right(x))
<1>1. PICK j \in Nat, q \in Nat : x = NodeAt(j, q)
  BY EveryNodeIsAt
<1>2. Level(x) = j /\ j # 0
  BY <1>1, LevelOfNodeAt, NodeBasics
<1> DEFINE k == j - 1
           p == 2^k
<1>3. k \in Nat /\ x = NodeAt(k + 1, q) /\ Level(x) = k + 1
  BY <1>1, <1>2
<1> HIDE DEF k
<1>4. Left(x) = NodeAt(k, 2 * q) /\ Right(x) = NodeAt(k, 2 * q + 1)
  BY <1>3, ChildrenAt
<1>5. Left(x) \in Nat /\ Right(x) \in Nat /\ Level(Left(x)) = k /\ Level(Right(x)) = k
  BY <1>3, <1>4, LevelOfNodeAt, 2 * q \in Nat, 2 * q + 1 \in Nat
<1>6. (2 * q) \div 2 = q /\ (2 * q + 1) \div 2 = q
  OBVIOUS
<1>7. Parent(Left(x)) = x /\ Parent(Right(x)) = x
  BY <1>3, <1>4, <1>6, ParentAt, 2 * q \in Nat, 2 * q + 1 \in Nat
<1>8. p \in Nat \ {0} /\ 2^(k + 1) = 2 * p
  BY <1>3, PowerOfTwo
<1> DEFINE b == (4 * q) * p
<1>9. b \in Nat
  BY <1>8
<1>10. Block(Left(x)) = b .. b + 2 * p - 2
  <2>1. Block(Left(x)) = (2 * (2 * q)) * p .. (2 * (2 * q) + 2) * p - 2
    BY <1>3, <1>4, BlockAt, 2 * q \in Nat
  <2> HIDE DEF p
  <2>2. (2 * (2 * q)) * p = b /\ (2 * (2 * q) + 2) * p - 2 = b + 2 * p - 2
    BY <1>8
  <2> HIDE DEF b
  <2> QED
    BY <2>1, <2>2
<1>11. Block(Right(x)) = b + 2 * p .. b + 4 * p - 2
  <2>1. Block(Right(x)) = (2 * (2 * q + 1)) * p .. (2 * (2 * q + 1) + 2) * p - 2
    BY <1>3, <1>4, BlockAt, 2 * q + 1 \in Nat
  <2> HIDE DEF p
  <2>2. (2 * (2 * q + 1)) * p = b + 2 * p /\ (2 * (2 * q + 1) + 2) * p - 2 = b + 4 * p - 2
    BY <1>8
  <2> HIDE DEF b
  <2> QED
    BY <2>1, <2>2
<1>12. Block(x) = b .. b + 4 * p - 2
  <2>1. Block(x) = (2 * q) * 2^(k + 1) .. (2 * q + 2) * 2^(k + 1) - 2
    BY <1>3, BlockAt
  <2>2. Block(x) = (2 * q) * (2 * p) .. (2 * q + 2) * (2 * p) - 2
    BY <1>8, <2>1
  <2> HIDE DEF p
  <2>3. (2 * q) * (2 * p) = b /\ (2 * q + 2) * (2 * p) - 2 = b + 4 * p - 2
    BY <1>8
  <2> HIDE DEF b
  <2> QED
    BY <2>2, <2>3
<1>13. x = b + 2 * p - 1
  <2>1. x = (2 * q + 1) * (2 * p) - 1
    BY <1>3, <1>8 DEF NodeAt
  <2> HIDE DEF p
  <2>2. (2 * q + 1) * (2 * p) - 1 = b + 2 * p - 1
    BY <1>8
  <2> HIDE DEF b
  <2> QED
    BY <2>1, <2>2
<1> HIDE DEF p, b
<1>14. /\ Block(x) = Block(Left(x)) \union {x} \union Block(Right(x))
       /\ Block(Left(x)) \intersect Block(Right(x)) = {}
       /\ x \notin Block(Left(x)) /\ x \notin Block(Right(x))
  BY <1>8, <1>9, <1>10, <1>11, <1>12, <1>13
<1>15. Left(x) < x /\ x < Right(x)
  <2>1. Left(x) \in Block(Left(x)) /\ Right(x) \in Block(Right(x))
    BY <1>5, NodeBasics
  <2> QED
    BY <1>5, <1>8, <1>9, <1>10, <1>11, <1>13, <2>1
<1> QED
  BY <1>3, <1>5, <1>7, <1>14, <1>15

LEMMA ParentBasics ==
  ASSUME NEW x \in Nat
  PROVE  /\ Parent(x) \in Nat /\ Level(Parent(x)) = Level(x) + 1 /\ ~IsLeaf(Parent(x))
         /\ Block(x) \subseteq Block(Parent(x))
         /\ IF x < Parent(x) THEN x = Left(Parent(x)) ELSE x = Right(Parent(x))
<1>1. PICK k \in Nat, q \in Nat : x = NodeAt(k, q)
  BY EveryNodeIsAt
<1>2. q \div 2 \in Nat /\ q % 2 \in {0, 1} /\ q = 2 * (q \div 2) + (q % 2)
  BY HalfOf
<1>3. Parent(x) = NodeAt(k + 1, q \div 2)
  BY <1>1, ParentAt
<1>4. Parent(x) \in Nat /\ Level(Parent(x)) = k + 1 /\ Level(x) = k
  BY <1>1, <1>2, <1>3, LevelOfNodeAt
<1>5. ~IsLeaf(Parent(x))
  BY <1>4, NodeBasics
<1>6. Left(Parent(x)) = NodeAt(k, 2 * (q \div 2)) /\ Right(Parent(x)) = NodeAt(k, 2 * (q \div 2) + 1)
  BY <1>2, <1>3, ChildrenAt
<1>7. x = Left(Parent(x)) \/ x = Right(Parent(x))
  <2> DEFINE d == q \div 2
  <2>1. q = 2 * d \/ q = 2 * d + 1
    BY <1>2
  <2> HIDE DEF d
  <2> QED
    BY <1>1, <1>6, <2>1 DEF d
<1> QED
  BY <1>4, <1>5, <1>7, ChildBasics

\* Two nodes of a level have disjoint subtrees.
LEMMA SameLevelDisjoint ==
  ASSUME NEW x \in Nat, NEW y \in Nat, Level(x) = Level(y), NEW z \in Block(x), z \in Block(y)
  PROVE  x = y
<1>1. PICK k \in Nat, q \in Nat : x = NodeAt(k, q)
  BY EveryNodeIsAt
<1>2. PICK j \in Nat, r \in Nat : y = NodeAt(j, r)
  BY EveryNodeIsAt
<1>3. j = k
  BY <1>1, <1>2, LevelOfNodeAt
<1> DEFINE p == 2^k
<1>4. p \in Nat \ {0}
  BY PowerOfTwo
<1>5. Block(x) = (2 * q) * p .. (2 * q + 2) * p - 2 /\ Block(y) = (2 * r) * p .. (2 * r + 2) * p - 2
  BY <1>1, <1>2, <1>3, BlockAt
<1> HIDE DEF p
<1>6. ASSUME NEW a \in Nat, NEW b \in Nat, a < b  PROVE (2 * a + 2) * p <= (2 * b) * p
  <2>1. (2 * b) * p = (2 * a + 2) * p + (2 * (b - a - 1)) * p
    BY <1>4
  <2>2. (2 * (b - a - 1)) * p \in Nat
    BY <1>4, <1>6, 2 * (b - a - 1) \in Nat
  <2>3. (2 * a + 2) * p \in Nat
    BY <1>4
  <2> QED
    BY <2>1, <2>2, <2>3
<1>7. (2 * q) * p <= z /\ z <= (2 * q + 2) * p - 2 /\ (2 * r) * p <= z /\ z <= (2 * r + 2) * p - 2
      /\ z \in Int
  BY <1>4, <1>5
<1>8. ~(q < r) /\ ~(r < q)
  <2>1. (2 * q + 2) * p \in Nat /\ (2 * r + 2) * p \in Nat /\ (2 * q) * p \in Nat /\ (2 * r) * p \in Nat
    BY <1>4
  <2> QED
    BY <1>6, <1>7, <2>1
<1>9. q = r
  BY <1>8
<1> QED
  BY <1>1, <1>2, <1>3, <1>9

-----------------------------------------------------------------------------
(***************************************************************************)
(* The full tree of height h: 2^h leaves, 2^(h + 1) - 1 nodes.             *)
(***************************************************************************)
Full(h) == 0 .. 2^(h + 1) - 2

Top(h) == 2^h - 1

LEMMA TopBasics ==
  ASSUME NEW h \in Nat
  PROVE  Top(h) \in Full(h) /\ Level(Top(h)) = h /\ Block(Top(h)) = Full(h) /\ Full(h) \subseteq Nat
<1>1. 2^h \in Nat \ {0} /\ 2^(h + 1) = 2 * 2^h
  BY PowerOfTwo
<1>2. Top(h) = NodeAt(h, 0)
  BY <1>1 DEF Top, NodeAt
<1>3. Level(Top(h)) = h
  BY <1>2, LevelOfNodeAt
<1>4. Block(Top(h)) = Full(h)
  BY <1>1, <1>3 DEF Block, Top, Full
<1> QED
  BY <1>1, <1>3, <1>4 DEF Top, Full

LEMMA WidthBasics ==
  ASSUME NEW h \in Nat
  PROVE  /\ NodeWidthOf(2^h) = 2^(h + 1) - 1 /\ LeafWidthOf(2^(h + 1) - 1) = 2^h
         /\ RootFromNodeWidth(2^(h + 1) - 1) = Top(h) /\ Root(2^h) = Top(h)
         /\ 0 .. NodeWidthOf(2^h) - 1 = Full(h)
<1> DEFINE p == 2^h
           n == 2^(h + 1) - 1
<1>1. p \in Nat \ {0} /\ 2^(h + 1) = 2 * p /\ n = 2 * p - 1 /\ h < p
  BY PowerOfTwo, PowerExceeds
<1>2. NodeWidthOf(p) = n
  BY <1>1 DEF NodeWidthOf
<1>3. LeafWidthOf(n) = p
  <2> HIDE DEF p, n
  <2>1. n # 0 /\ n - 1 = 2 * (p - 1) /\ p - 1 \in Nat
    BY <1>1
  <2>2. (2 * (p - 1)) \div 2 = p - 1
    BY <2>1
  <2> QED
    BY <1>1, <2>1, <2>2 DEF LeafWidthOf
<1>4. Log2(n) = h
  <2>1. n # 0 /\ n \in Nat /\ h \in 0 .. n /\ 2^h <= n /\ n < 2^(h + 1)
    <3>1. 2^h = p
      OBVIOUS
    <3> HIDE DEF p, n
    <3> QED
      BY <1>1, <3>1
  <2>2. ASSUME NEW k \in 0 .. n, 2^k <= n, n < 2^(k + 1)  PROVE k = h
    <3>0. k \in Nat
      BY <2>1
    <3>1. 2^k \in Nat /\ 2^(k + 1) \in Nat
      BY <3>0, PowerOfTwo
    <3>2. CASE k < h
      <4>1. 2^(k + 1) <= 2^h
        BY <3>0, <3>2, PowersIncrease, PowerOfTwo
      <4> QED
        BY <2>1, <2>2, <3>1, <4>1, PowerOfTwo
    <3>3. CASE h < k
      <4>1. 2^(h + 1) <= 2^k
        BY <3>0, <3>3, PowersIncrease, PowerOfTwo
      <4> QED
        BY <2>1, <2>2, <3>1, <4>1, PowerOfTwo
    <3> QED
      BY <3>0, <3>2, <3>3
  <2> HIDE DEF n
  <2> QED
    BY <2>1, <2>2 DEF Log2
<1>5. RootFromNodeWidth(n) = Top(h)
  BY <1>4 DEF RootFromNodeWidth, Top
<1>6. Root(p) = Top(h)
  BY <1>2, <1>5 DEF Root
<1>7. 0 .. NodeWidthOf(p) - 1 = Full(h)
  BY <1>1, <1>2 DEF Full
<1> QED
  BY <1>2, <1>3, <1>5, <1>6, <1>7

LEMMA NodeOfTree ==
  ASSUME NEW h \in Nat, NEW x \in Full(h)
  PROVE  /\ x \in Nat /\ Level(x) \in 0 .. h /\ Block(x) \subseteq Full(h)
         /\ Level(x) = h => x = Top(h)
         /\ x # Top(h) => Level(x) < h /\ Parent(x) \in Full(h)
<1>0. x \in Nat /\ x <= 2^(h + 1) - 2 /\ 2^(h + 1) \in Nat
  BY PowerOfTwo DEF Full
<1>1. PICK k \in Nat, q \in Nat : x = NodeAt(k, q)
  BY <1>0, EveryNodeIsAt
<1>2. Level(x) = k
  BY <1>1, LevelOfNodeAt
<1> DEFINE p == 2^k
<1>3. p \in Nat \ {0} /\ x = (2 * q + 1) * p - 1
  BY <1>1, PowerOfTwo DEF NodeAt
<1>4. k < h + 1
  <2> SUFFICES ASSUME k >= h + 1  PROVE FALSE
    OBVIOUS
  <2>1. p >= 2^(h + 1)
    <3>1. CASE k = h + 1
      BY <1>0, <3>1
    <3>2. CASE h + 1 < k
      BY <1>0, <1>3, <3>2, PowersIncrease
    <3> QED
      BY <3>1, <3>2
  <2> HIDE DEF p
  <2>2. (2 * q + 1) * p >= p
    BY <1>3
  <2> QED
    BY <1>0, <1>3, <2>1, <2>2
<1>5. k = h => x = Top(h)
  <2>1. Level(Top(h)) = h /\ x \in Block(Top(h)) /\ Top(h) \in Nat
    BY TopBasics
  <2> QED
    BY <1>0, <1>2, <2>1, NodeBasics, SameLevelDisjoint
<1>6. Block(x) \subseteq Full(h)
  <2>1. PICK d \in Nat \ {0} : 2^(h + 1) = (2 * d) * p
    <3>1. \E d \in Nat \ {0} : 2^(h + 1) = (2 * d) * 2^k
      BY <1>4, PowersDivide, h + 1 \in Nat
    <3> QED
      BY <3>1
  <2>2. Block(x) = (2 * q) * p .. (2 * q + 2) * p - 2
    BY <1>1, BlockAt
  <2> HIDE DEF p
  <2>3. 2 * q + 2 <= 2 * d
    <3> SUFFICES ASSUME 2 * d <= 2 * q + 1  PROVE FALSE
      OBVIOUS
    <3>1. (2 * d) * p <= (2 * q + 1) * p
      BY <1>3
    <3>2. (2 * d) * p \in Int /\ (2 * q + 1) * p \in Int
      BY <1>3
    <3> QED
      BY <1>0, <1>3, <2>1, <3>1, <3>2
  <2>4. (2 * q + 2) * p <= (2 * d) * p
    BY <1>3, <2>3
  <2>5. (2 * q) * p \in Nat /\ (2 * q + 2) * p \in Nat
    BY <1>3
  <2>6. (2 * q + 2) * p - 2 <= 2^(h + 1) - 2
    <3>1. \A a, b, c \in Int : a <= b /\ c = b => a - 2 <= c - 2
      OBVIOUS
    <3>2. (2 * d) * p \in Int
      BY <1>3
    <3> QED
      BY <1>0, <2>1, <2>4, <2>5, <3>1, <3>2
  <2> DEFINE a == (2 * q) * p
             b == (2 * q + 2) * p - 2
             m == 2^(h + 1) - 2
  <2>7. a \in Nat /\ b \in Int /\ m \in Int /\ b <= m /\ Block(x) = a .. b /\ Full(h) = 0 .. m
    BY <1>0, <2>2, <2>5, <2>6 DEF Full
  <2> HIDE DEF a, b, m
  <2> QED
    BY <2>7
<1>7. ASSUME x # Top(h)  PROVE k < h /\ Parent(x) \in Full(h)
  <2>1. k < h
    BY <1>4, <1>5, <1>7
  <2>2. PICK e \in Nat \ {0} : 2^(h + 1) = (2 * e) * 2^(k + 1)
    <3>1. k + 1 \in Nat /\ h + 1 \in Nat /\ k + 1 < h + 1
      BY <2>1
    <3> QED
      BY <3>1, PowersDivide
  <2>3. 2^(k + 1) = 2 * p
    BY PowerOfTwo
  <2> DEFINE d == q \div 2
  <2>4. Parent(x) = (2 * d + 1) * (2 * p) - 1
    <3>1. Parent(x) = NodeAt(k + 1, d)
      BY <1>1, ParentAt
    <3> HIDE DEF d, p
    <3> QED
      BY <2>3, <3>1 DEF NodeAt
  <2>5. d \in Nat /\ q = 2 * d + (q % 2) /\ q % 2 \in {0, 1}
    BY HalfOf
  <2>6. 2^(h + 1) = (4 * e) * p
    <3>1. 2^(h + 1) = (2 * e) * (2 * p)
      BY <2>2, <2>3
    <3> HIDE DEF p
    <3>2. (2 * e) * (2 * p) = (4 * e) * p
      BY <1>3
    <3> QED
      BY <3>1, <3>2
  <2> HIDE DEF p, d
  <2>7. 2 * q + 1 < 4 * e
    <3> SUFFICES ASSUME 4 * e <= 2 * q + 1  PROVE FALSE
      OBVIOUS
    <3>1. (4 * e) * p <= (2 * q + 1) * p
      BY <1>3
    <3>2. (4 * e) * p \in Int /\ (2 * q + 1) * p \in Int
      BY <1>3
    <3> QED
      BY <1>0, <1>3, <2>6, <3>1, <3>2
  <2>8. 2 * (2 * d + 1) <= 4 * e - 2
    BY <2>5, <2>7
  <2>9. (2 * (2 * d + 1)) * p <= (4 * e - 2) * p
    BY <1>3, <2>5, <2>8
  <2>10. (2 * d + 1) * (2 * p) = (2 * (2 * d + 1)) * p /\ (4 * e - 2) * p = (4 * e) * p - 2 * p
    BY <1>3, <2>5
  <2>11. (2 * d + 1) * (2 * p) \in Nat /\ (4 * e) * p \in Nat /\ (2 * d + 1) * (2 * p) >= 1
    BY <1>3, <2>5
  <2>12. Parent(x) \in 0 .. (4 * e) * p - 2
    BY <1>3, <2>4, <2>9, <2>10, <2>11
  <2> QED
    BY <2>1, <2>6, <2>12 DEF Full
<1> QED
  BY <1>0, <1>2, <1>4, <1>5, <1>6, <1>7

-----------------------------------------------------------------------------
(***************************************************************************)
(* Subtrees are nested: of two that meet, one contains the other.          *)
(***************************************************************************)
LEMMA ClimbTo ==
  ASSUME NEW x \in Nat, NEW d \in Nat
  PROVE  \E z \in Nat : Level(z) = Level(x) + d /\ Block(x) \subseteq Block(z)
<1> DEFINE S == {n \in Nat : \E z \in Nat : Level(z) = Level(x) + n /\ Block(x) \subseteq Block(z)}
<1>1. 0 \in S
  BY NodeBasics
<1>2. ASSUME NEW n \in Nat, n \in S  PROVE n + 1 \in S
  <2>1. PICK z \in Nat : Level(z) = Level(x) + n /\ Block(x) \subseteq Block(z)
    BY <1>2
  <2>2. Parent(z) \in Nat /\ Level(Parent(z)) = Level(z) + 1 /\ Block(z) \subseteq Block(Parent(z))
    BY ParentBasics
  <2>3. Level(Parent(z)) = Level(x) + (n + 1) /\ Block(x) \subseteq Block(Parent(z))
    BY <2>1, <2>2, NodeBasics
  <2> QED
    BY <2>2, <2>3
<1> HIDE DEF S
<1>3. d \in S
  BY <1>1, <1>2, InductionOnSet
<1> QED
  BY <1>3 DEF S

LEMMA BelowHasLowerLevel ==
  ASSUME NEW x \in Nat, NEW y \in Nat, x \in Block(y), x # y
  PROVE  Level(x) < Level(y)
<1>0. Level(x) \in Nat /\ Level(y) \in Nat /\ x \in Block(x)
  BY NodeBasics
<1>1. CASE Level(x) = Level(y)
  BY <1>0, <1>1, SameLevelDisjoint
<1>2. CASE Level(y) < Level(x)
  <2>1. Level(x) - Level(y) - 1 \in Nat
    BY <1>0, <1>2
  <2>2. PICK z \in Nat : Level(z) = Level(y) + (Level(x) - Level(y) - 1) /\ Block(y) \subseteq Block(z)
    BY <2>1, ClimbTo
  <2>3. Parent(z) \in Nat /\ Level(Parent(z)) = Level(x) /\ x \in Block(Parent(z)) /\ x \in Block(z)
    BY <1>0, <2>2, ParentBasics
  <2>4. x = Parent(z)
    BY <1>0, <2>3, SameLevelDisjoint
  <2>5. ~IsLeaf(x) /\ (z = Left(x) \/ z = Right(x))
    BY <2>4, ParentBasics
  <2> QED
    BY <2>3, <2>5, ChildBasics
<1> QED
  BY <1>0, <1>1, <1>2

LEMMA BlocksNest ==
  ASSUME NEW x \in Nat, NEW y \in Nat, x \in Block(y)
  PROVE  Block(x) \subseteq Block(y)
<1>1. CASE x = y
  BY <1>1
<1>2. CASE x # y
  <2>1. Level(x) < Level(y) /\ Level(x) \in Nat /\ Level(y) \in Nat /\ x \in Block(x)
    BY <1>2, BelowHasLowerLevel, NodeBasics
  <2>2. Level(y) - Level(x) \in Nat /\ Level(x) + (Level(y) - Level(x)) = Level(y)
    BY <2>1
  <2>3. PICK z \in Nat : Level(z) = Level(x) + (Level(y) - Level(x)) /\ Block(x) \subseteq Block(z)
    BY <2>2, ClimbTo
  <2>4. Level(z) = Level(y) /\ x \in Block(z)
    BY <2>1, <2>2, <2>3
  <2>5. z = y
    BY <2>4, SameLevelDisjoint
  <2> QED
    BY <2>3, <2>5
<1> QED
  BY <1>1, <1>2

LEMMA BlocksMeet ==
  ASSUME NEW x \in Nat, NEW y \in Nat, NEW z \in Nat, z \in Block(x), z \in Block(y),
         Level(x) <= Level(y)
  PROVE  x \in Block(y)
<1>1. Level(x) \in Nat /\ Level(y) \in Nat /\ x \in Block(x)
  BY NodeBasics
<1>2. Level(y) - Level(x) \in Nat /\ Level(x) + (Level(y) - Level(x)) = Level(y)
  BY <1>1
<1>3. PICK w \in Nat : Level(w) = Level(x) + (Level(y) - Level(x)) /\ Block(x) \subseteq Block(w)
  BY <1>2, ClimbTo
<1>4. w = y
  BY <1>2, <1>3, SameLevelDisjoint
<1> QED
  BY <1>1, <1>3, <1>4

-----------------------------------------------------------------------------
(***************************************************************************)
(* The direct path.                                                        *)
(***************************************************************************)
LEMMA AscentExists ==
  ASSUME NEW x, NEW n \in Nat
  PROVE  \E f : f = [i \in 0 .. n |-> IF i = 0 THEN x ELSE Parent(f[i - 1])]
<1> DEFINE Rule(f, m) == f = [i \in 0 .. m |-> IF i = 0 THEN x ELSE Parent(f[i - 1])]
           S == {m \in Nat : \E f : Rule(f, m)}
<1>1. 0 \in S
  <2>1. Rule([i \in 0 .. 0 |-> x], 0)
    OBVIOUS
  <2> QED
    BY <2>1
<1>2. ASSUME NEW m \in Nat, m \in S  PROVE m + 1 \in S
  <2>1. PICK f : Rule(f, m)
    BY <1>2
  <2> DEFINE g == [i \in 0 .. m + 1 |-> IF i = m + 1 THEN Parent(f[m]) ELSE f[i]]
  <2>2. ASSUME NEW i \in 0 .. m + 1  PROVE g[i] = IF i = 0 THEN x ELSE Parent(g[i - 1])
    <3>1. \A j \in 0 .. m : f[j] = IF j = 0 THEN x ELSE Parent(f[j - 1])
      BY <2>1
    <3>2. \A j \in 0 .. m : g[j] = f[j]
      OBVIOUS
    <3>3. g[m + 1] = Parent(f[m])
      OBVIOUS
    <3> HIDE DEF g
    <3>4. CASE i = m + 1
      BY <3>2, <3>3, <3>4
    <3>5. CASE i # m + 1
      BY <3>1, <3>2, <3>5
    <3> QED
      BY <3>4, <3>5
  <2>3. g = [i \in 0 .. m + 1 |-> g[i]]
    OBVIOUS
  <2> HIDE DEF g
  <2>4. Rule(g, m + 1)
    BY <2>2, <2>3
  <2> QED
    BY <2>4
<1> HIDE DEF S
<1>3. n \in S
  BY <1>1, <1>2, InductionOnSet
<1> QED
  BY <1>3 DEF S

\* What DirectPath is, for the node x of the full tree of height h.
PathFrom(x, h, p) ==
  /\ Len(p) = h - Level(x) /\ DOMAIN p = 1 .. h - Level(x) /\ p \in Seq(Full(h))
  /\ \A i \in DOMAIN p : /\ p[i] \in Full(h) /\ Level(p[i]) = Level(x) + i
                         /\ p[i] = Parent(IF i = 1 THEN x ELSE p[i - 1])
                         /\ x \in Block(p[i])

LEMMA DirectPathIs ==
  ASSUME NEW h \in Nat, NEW x \in Full(h)
  PROVE  PathFrom(x, h, DirectPath(x, 2^h))
<1> DEFINE n == Level(Root(2^h)) - Level(x)
           up[i \in 0 .. n] == IF i = 0 THEN x ELSE Parent(up[i - 1])
           p == DirectPath(x, 2^h)
<1>1. n = h - Level(x) /\ n \in Nat /\ x \in Nat /\ Level(x) \in 0 .. h
  <2>1. x \in Nat /\ Level(x) \in 0 .. h
    BY NodeOfTree
  <2>2. Level(Root(2^h)) = h
    BY TopBasics, WidthBasics
  <2> HIDE DEF up, p
  <2> QED
    BY <2>1, <2>2
<1>2. p = [i \in 1 .. n |-> up[i]]
  BY DEF DirectPath
<1>3. \E f : f = [i \in 0 .. n |-> IF i = 0 THEN x ELSE Parent(f[i - 1])]
  BY <1>1, AscentExists
<1>4. up = [i \in 0 .. n |-> IF i = 0 THEN x ELSE Parent(up[i - 1])]
  BY <1>3
<1> HIDE DEF n, up, p
<1>5. up[0] = x /\ \A i \in 1 .. n : up[i] = Parent(up[i - 1])
  BY <1>1, <1>4
<1> DEFINE S == {i \in Nat : i <= n => up[i] \in Full(h) /\ Level(up[i]) = Level(x) + i /\ x \in Block(up[i])}
<1>6. 0 \in S
  BY <1>1, <1>5, NodeBasics
<1>7. ASSUME NEW i \in Nat, i \in S  PROVE i + 1 \in S
  <2> SUFFICES ASSUME i + 1 <= n
               PROVE  up[i + 1] \in Full(h) /\ Level(up[i + 1]) = Level(x) + (i + 1) /\ x \in Block(up[i + 1])
    OBVIOUS
  <2>1. up[i] \in Full(h) /\ Level(up[i]) = Level(x) + i /\ x \in Block(up[i])
    BY <1>1, <1>7
  <2>2. up[i + 1] = Parent(up[i])
    <3>1. i + 1 \in 1 .. n /\ (i + 1) - 1 = i
      BY <1>1
    <3> QED
      BY <1>5, <3>1
  <2> HIDE DEF S
  <2>3. up[i] \in Nat /\ Level(up[i]) < h
    <3>1. up[i] \in Nat
      BY <2>1, NodeOfTree
    <3> QED
      BY <1>1, <2>1, <3>1
  <2>4. up[i] # Top(h)
    BY <2>3, TopBasics
  <2> QED
    BY <1>1, <2>1, <2>2, <2>3, <2>4, NodeOfTree, ParentBasics
<1>8. \A i \in 1 .. n : up[i] \in Full(h) /\ Level(up[i]) = Level(x) + i /\ x \in Block(up[i])
  <2> HIDE DEF S
  <2>1. Nat \subseteq S
    BY <1>6, <1>7, InductionOnSet
  <2>2. \A i \in 1 .. n : i \in S /\ i <= n
    BY <1>1, <2>1
  <2> QED
    BY <2>2 DEF S
<1>9. DOMAIN p = 1 .. n /\ \A i \in 1 .. n : p[i] = up[i]
  BY <1>2
<1>10. p \in Seq(Full(h)) /\ Len(p) = n
  <2>1. p \in [1 .. n -> Full(h)]
    BY <1>2, <1>8
  <2> HIDE DEF S
  <2> QED
    BY <1>1, <2>1
<1>11. \A i \in 1 .. n : p[i] = Parent(IF i = 1 THEN x ELSE p[i - 1])
  BY <1>1, <1>5, <1>9
<1> QED
  BY <1>1, <1>8, <1>9, <1>10, <1>11 DEF PathFrom, p

\* A node's ancestors are the nodes whose subtree it is in.
LEMMA AboveIs ==
  ASSUME NEW h \in Nat, NEW x \in Full(h), NEW p, PathFrom(x, h, p)
  PROVE  {p[i] : i \in DOMAIN p} = {y \in Full(h) \ {x} : x \in Block(y)}
<1>1. x \in Nat /\ Level(x) \in 0 .. h
  BY NodeOfTree
<1>2. ASSUME NEW i \in DOMAIN p  PROVE p[i] \in {y \in Full(h) \ {x} : x \in Block(y)}
  <2>1. p[i] \in Full(h) /\ Level(p[i]) = Level(x) + i /\ x \in Block(p[i]) /\ i \in 1 .. h - Level(x)
    BY DEF PathFrom
  <2> QED
    BY <1>1, <2>1
<1>3. ASSUME NEW y \in Full(h), y # x, x \in Block(y)  PROVE \E i \in DOMAIN p : p[i] = y
  <2>1. y \in Nat /\ Level(y) \in 0 .. h /\ Level(x) < Level(y)
    BY <1>1, <1>3, NodeOfTree, BelowHasLowerLevel
  <2> DEFINE i == Level(y) - Level(x)
  <2>2. i \in DOMAIN p /\ Level(x) + i = Level(y)
    BY <1>1, <2>1 DEF PathFrom
  <2>3. p[i] \in Full(h) /\ Level(p[i]) = Level(y) /\ x \in Block(p[i])
    BY <2>2 DEF PathFrom
  <2>4. p[i] = y
    BY <1>1, <1>3, <2>1, <2>3, NodeOfTree, SameLevelDisjoint
  <2> QED
    BY <2>2, <2>4
<1> QED
  BY <1>2, <1>3

-----------------------------------------------------------------------------
(***************************************************************************)
(* The copath.                                                             *)
(***************************************************************************)
\* The node of the path before node i of it.
Before(x, p, i) == IF i = 1 THEN x ELSE p[i - 1]

\* c is the copath of x when p is its direct path.
CopathFrom(x, h, p, c) ==
  /\ DOMAIN c = DOMAIN p
  /\ \A i \in DOMAIN p :
       /\ c[i] \in Full(h) /\ c[i] \in {Left(p[i]), Right(p[i])} /\ ~IsLeaf(p[i])
       /\ c[i] # Before(x, p, i) /\ Level(c[i]) = Level(Before(x, p, i))
       /\ Block(p[i]) = Block(Before(x, p, i)) \union {p[i]} \union Block(c[i])
       /\ Block(c[i]) \intersect Block(Before(x, p, i)) = {}

LEMMA SiblingBasics ==
  ASSUME NEW x \in Nat
  PROVE  /\ Sibling(x) \in Nat /\ Level(Sibling(x)) = Level(x) /\ Sibling(x) # x
         /\ Sibling(x) \in {Left(Parent(x)), Right(Parent(x))}
         /\ Block(Parent(x)) = Block(x) \union {Parent(x)} \union Block(Sibling(x))
         /\ Block(Sibling(x)) \intersect Block(x) = {}
<1>1. Parent(x) \in Nat /\ ~IsLeaf(Parent(x)) /\ Level(Parent(x)) = Level(x) + 1 /\ Level(x) \in Nat
      /\ IF x < Parent(x) THEN x = Left(Parent(x)) ELSE x = Right(Parent(x))
  BY ParentBasics, NodeBasics
<1> DEFINE y == Parent(x)
<1>2. /\ Left(y) \in Nat /\ Right(y) \in Nat /\ Left(y) < y /\ y < Right(y)
      /\ Level(Left(y)) = Level(y) - 1 /\ Level(Right(y)) = Level(y) - 1
      /\ Block(y) = Block(Left(y)) \union {y} \union Block(Right(y))
      /\ Block(Left(y)) \intersect Block(Right(y)) = {}
  BY <1>1, ChildBasics
<1>3. Sibling(x) = IF x < y THEN Right(y) ELSE Left(y)
  BY DEF Sibling
<1> HIDE DEF y
<1>4. CASE x < y
  <2>1. x = Left(y) /\ Sibling(x) = Right(y)
    BY <1>1, <1>3, <1>4 DEF y
  <2> QED
    BY <1>1, <1>2, <2>1 DEF y
<1>5. CASE ~(x < y)
  <2>1. x = Right(y) /\ Sibling(x) = Left(y)
    BY <1>1, <1>3, <1>5 DEF y
  <2> QED
    BY <1>1, <1>2, <2>1 DEF y
<1> QED
  BY <1>4, <1>5

LEMMA CopathIs ==
  ASSUME NEW h \in Nat, NEW x \in Full(h)
  PROVE  CopathFrom(x, h, DirectPath(x, 2^h), Copath(x, 2^h))
<1> DEFINE p == DirectPath(x, 2^h)
           c == Copath(x, 2^h)
           d == <<x>> \o p
<1>1. PathFrom(x, h, p) /\ x \in Nat /\ Level(x) \in 0 .. h
  BY DirectPathIs, NodeOfTree
<1> HIDE DEF p
<1> DEFINE n == Len(p)
<1>2. n \in Nat /\ DOMAIN p = 1 .. n /\ p \in Seq(Full(h))
  BY <1>1 DEF PathFrom
<1>3. Len(d) = n + 1 /\ d[1] = x /\ \A i \in 1 .. n : d[i + 1] = p[i]
  BY <1>2
<1>4. \A i \in 1 .. n : d[i] = Before(x, p, i)
  <2> SUFFICES ASSUME NEW i \in 1 .. n  PROVE d[i] = Before(x, p, i)
    OBVIOUS
  <2>1. CASE i = 1
    BY <1>3, <2>1 DEF Before
  <2>2. CASE i # 1
    <3>1. i - 1 \in 1 .. n /\ (i - 1) + 1 = i
      BY <1>2, <2>2
    <3>2. d[(i - 1) + 1] = p[i - 1]
      BY <1>3, <3>1
    <3> QED
      BY <2>2, <3>1, <3>2 DEF Before
  <2> QED
    BY <2>1, <2>2
<1>5. c = [i \in 1 .. Len(d) - 1 |-> Sibling(d[i])]
  BY DEF Copath, p
<1> HIDE DEF d, c
<1>6. DOMAIN c = 1 .. n /\ \A i \in 1 .. n : c[i] = Sibling(Before(x, p, i))
  <2>1. Len(d) - 1 = n
    BY <1>2, <1>3
  <2> QED
    BY <1>4, <1>5, <2>1
<1> HIDE DEF n
<1>7. ASSUME NEW i \in 1 .. n
      PROVE  /\ c[i] \in Full(h) /\ c[i] \in {Left(p[i]), Right(p[i])} /\ ~IsLeaf(p[i])
             /\ c[i] # Before(x, p, i) /\ Level(c[i]) = Level(Before(x, p, i))
             /\ Block(p[i]) = Block(Before(x, p, i)) \union {p[i]} \union Block(c[i])
             /\ Block(c[i]) \intersect Block(Before(x, p, i)) = {}
  <2> DEFINE b == Before(x, p, i)
  <2>1. p[i] = Parent(b) /\ p[i] \in Full(h)
    BY <1>1, <1>2 DEF PathFrom, Before
  <2>2. b \in Full(h)
    <3>1. CASE i = 1
      BY <3>1 DEF Before
    <3>2. CASE i # 1
      <4>1. i - 1 \in 1 .. n
        BY <1>2, <3>2
      <4> QED
        BY <1>1, <1>2, <3>2, <4>1 DEF PathFrom, Before
    <3> QED
      BY <3>1, <3>2
  <2> HIDE DEF b
  <2>3. b \in Nat
    BY <2>2, NodeOfTree
  <2>4. c[i] = Sibling(b)
    BY <1>6 DEF b
  <2>5. /\ c[i] \in Nat /\ Level(c[i]) = Level(b) /\ c[i] # b
        /\ c[i] \in {Left(p[i]), Right(p[i])}
        /\ Block(p[i]) = Block(b) \union {p[i]} \union Block(c[i])
        /\ Block(c[i]) \intersect Block(b) = {}
    BY <2>1, <2>3, <2>4, SiblingBasics
  <2>6. Block(p[i]) \subseteq Full(h) /\ c[i] \in Block(c[i])
    BY <2>1, <2>5, NodeOfTree, NodeBasics
  <2>7. ~IsLeaf(p[i])
    BY <2>1, <2>3, ParentBasics
  <2> QED
    BY <2>5, <2>6, <2>7 DEF b
<1> QED
  BY <1>2, <1>6, <1>7 DEF CopathFrom, p, c

\* The subtrees of the path's nodes grow.
LEMMA PathGrows ==
  ASSUME NEW h \in Nat, NEW x \in Full(h), NEW p, PathFrom(x, h, p),
         NEW i \in DOMAIN p, NEW j \in DOMAIN p, i <= j
  PROVE  Block(p[i]) \subseteq Block(p[j]) /\ p[i] \in Block(p[j])
<1>1. /\ p[i] \in Nat /\ p[j] \in Nat /\ x \in Nat /\ Level(x) \in Nat
      /\ Level(p[i]) = Level(x) + i /\ Level(p[j]) = Level(x) + j
      /\ x \in Block(p[i]) /\ x \in Block(p[j]) /\ i \in Nat /\ j \in Nat
  <2>1. x \in Nat /\ Level(x) \in Nat /\ DOMAIN p = 1 .. h - Level(x)
    BY NodeOfTree DEF PathFrom
  <2>2. p[i] \in Full(h) /\ p[j] \in Full(h)
    BY DEF PathFrom
  <2>3. p[i] \in Nat /\ p[j] \in Nat
    BY <2>2, NodeOfTree
  <2>4. Level(p[i]) = Level(x) + i /\ Level(p[j]) = Level(x) + j /\ x \in Block(p[i]) /\ x \in Block(p[j])
    BY DEF PathFrom
  <2> QED
    BY <2>1, <2>3, <2>4
<1>2. p[i] \in Block(p[j])
  BY <1>1, BlocksMeet
<1> QED
  BY <1>1, <1>2, BlocksNest

\* A node off the path is in the subtree of one node of the copath, of x or on
\* the path.
LEMMA CopathCovers ==
  ASSUME NEW h \in Nat, NEW x \in Full(h), NEW p, NEW c, PathFrom(x, h, p), CopathFrom(x, h, p, c),
         NEW y \in Full(h), y \notin Block(x), \A i \in DOMAIN p : y # p[i]
  PROVE  \E i \in DOMAIN c : y \in Block(c[i])
<1> DEFINE n == h - Level(x)
           S == {i \in DOMAIN p : y \in Block(p[i])}
<1>1. x \in Nat /\ Level(x) \in 0 .. h /\ n \in Nat /\ DOMAIN p = 1 .. n /\ Level(x) + n = h
  BY NodeOfTree DEF PathFrom
<1>2. n # 0
  <2> SUFFICES ASSUME n = 0  PROVE FALSE
    OBVIOUS
  <2>1. x = Top(h)
    BY <1>1, NodeOfTree
  <2> QED
    BY <2>1, TopBasics
<1>3. n \in S
  <2>1. n \in DOMAIN p /\ p[n] \in Full(h) /\ Level(p[n]) = h
    BY <1>1, <1>2 DEF PathFrom
  <2>2. p[n] = Top(h)
    BY <2>1, NodeOfTree
  <2> QED
    BY <2>1, <2>2, TopBasics
<1> HIDE DEF n
<1>4. PICK i \in S : \A j \in S : i <= j
  <2>1. S \subseteq Nat /\ S # {}
    BY <1>1, <1>3
  <2> HIDE DEF S
  <2> QED
    BY <2>1, LeastNumber
<1>5. i \in DOMAIN p /\ y \in Block(p[i]) /\ i \in 1 .. n
  BY <1>1, <1>4
<1>6. y \notin Block(Before(x, p, i))
  <2>1. CASE i = 1
    BY <2>1 DEF Before
  <2>2. CASE i # 1
    <3>1. i - 1 \in DOMAIN p /\ ~(i <= i - 1)
      BY <1>1, <1>5, <2>2
    <3>2. i - 1 \notin S
      BY <1>4, <3>1
    <3> QED
      BY <2>2, <3>1, <3>2 DEF Before
  <2> QED
    BY <2>1, <2>2
<1>7. y \in Block(c[i])
  BY <1>5, <1>6 DEF CopathFrom
<1> QED
  BY <1>5, <1>7 DEF CopathFrom

\* What lies under a node of the copath lies under no other and not under x.
LEMMA CopathDisjoint ==
  ASSUME NEW h \in Nat, NEW x \in Full(h), NEW p, NEW c, PathFrom(x, h, p), CopathFrom(x, h, p, c),
         NEW i \in DOMAIN c
  PROVE  /\ Block(c[i]) \intersect Block(x) = {}
         /\ \A j \in DOMAIN c : j # i => Block(c[i]) \intersect Block(c[j]) = {}
         /\ \A j \in DOMAIN p : p[j] \notin Block(c[i])
<1>1. x \in Nat /\ Level(x) \in 0 .. h /\ DOMAIN p = 1 .. h - Level(x) /\ DOMAIN c = DOMAIN p
  BY NodeOfTree DEF PathFrom, CopathFrom
<1>2. \A k \in DOMAIN p : Block(c[k]) \subseteq Block(p[k]) /\ Block(c[k]) \intersect Block(Before(x, p, k)) = {}
  BY DEF CopathFrom
<1>3. ASSUME NEW k \in DOMAIN p, NEW l \in DOMAIN p, k < l  PROVE Block(p[k]) \subseteq Block(Before(x, p, l))
  <2>1. l # 1 /\ l - 1 \in DOMAIN p /\ k <= l - 1
    BY <1>1, <1>3
  <2> QED
    BY <2>1, PathGrows DEF Before
<1>4. ASSUME NEW k \in DOMAIN p, NEW l \in DOMAIN p, k < l  PROVE Block(c[k]) \intersect Block(c[l]) = {}
  BY <1>2, <1>3, <1>4
<1>5. Block(x) \subseteq Block(Before(x, p, i))
  <2>1. CASE i = 1
    BY <2>1 DEF Before
  <2>2. CASE i # 1
    <3>1. i - 1 \in DOMAIN p
      BY <1>1, <2>2
    <3>2. p[i - 1] \in Nat /\ x \in Block(p[i - 1])
      BY <3>1, NodeOfTree DEF PathFrom
    <3> QED
      BY <1>1, <2>2, <3>2, BlocksNest DEF Before
  <2> QED
    BY <2>1, <2>2
<1>6. ASSUME NEW j \in DOMAIN p  PROVE p[j] \notin Block(c[i])
  <2>1. p[j] \in Nat /\ p[j] \in Block(p[j]) /\ p[i] \in Nat /\ c[i] \in Nat
    BY <1>1, NodeOfTree, NodeBasics DEF PathFrom, CopathFrom
  <2>2. CASE j < i
    BY <1>1, <1>2, <1>3, <2>1, <2>2
  <2>3. CASE j >= i
    <3> SUFFICES ASSUME p[j] \in Block(c[i])  PROVE FALSE
      OBVIOUS
    <3>1. Level(p[j]) = Level(x) + j /\ Level(p[i]) = Level(x) + i
      BY <1>1 DEF PathFrom
    <3>2. Level(c[i]) = Level(p[i]) - 1
      BY <1>1, <2>1, ChildBasics DEF CopathFrom
    <3>3. p[j] = c[i] \/ Level(p[j]) < Level(c[i])
      BY <2>1, BelowHasLowerLevel
    <3> QED
      BY <1>1, <2>3, <3>1, <3>2, <3>3
  <2> QED
    BY <1>1, <2>2, <2>3
<1> QED
  BY <1>1, <1>2, <1>4, <1>5, <1>6

LEMMA FunctionIsSequence ==
  ASSUME NEW n \in Nat, NEW S, NEW f \in [1 .. n -> S]
  PROVE  f \in Seq(S) /\ Len(f) = n
OBVIOUS

LEMMA AppendIs ==
  ASSUME NEW S, NEW s \in Seq(S), NEW e \in S
  PROVE  /\ Append(s, e) \in Seq(S) /\ Len(Append(s, e)) = Len(s) + 1 /\ Append(s, e) # <<>>
         /\ Append(s, e)[Len(s) + 1] = e /\ \A i \in 1 .. Len(s) : Append(s, e)[i] = s[i]
         /\ Len(s) \in Nat
OBVIOUS
=============================================================================
