-------------------------- MODULE SecretTree_proofs --------------------------
(***************************************************************************)
(* Lemmas about the operators of SecretTree, for every power of two of     *)
(* leaves and every retention configuration: how the paths of two leaves   *)
(* lie, and what one use of a secret tree does to it.  The theorems of     *)
(* SecretTreeClient_proofs and EpochKeys_proofs rest on them.              *)
(***************************************************************************)
EXTENDS SecretTree, TreeMath_proofs

-----------------------------------------------------------------------------
(***************************************************************************)
(* The paths of the leaves: they stay in the tree and, where two meet,     *)
(* agree from there up; the subtrees that hang off a path below one of its *)
(* nodes cover every other leaf under that node once, and no leaf outside  *)
(* it.                                                                     *)
(***************************************************************************)
PathsMeet(l, m) ==
  \A x \in PathFromLeaf(l) \intersect PathFromLeaf(m), y \in PathFromLeaf(m) :
     Level(x) <= Level(y) => y \in PathFromLeaf(l)

CoveredOnce(l, node, m) ==
  LET covering == PathFromLeaf(m) \intersect CopathBelow(l, node)
  IN  /\ node \notin PathFromLeaf(m) => covering = {}
      /\ node \in PathFromLeaf(m) => \E x \in Node : covering = {x}

\* LeafWidth is 2^h.
Height(h) == h \in Nat /\ LeafWidth = 2^h

LEMMA HeightExists == \E h : Height(h)
<1>1. 0 .. LeafWidth \subseteq Nat
  BY WidthAssumption
<1> QED
  BY <1>1, WidthAssumption DEF Height

LEMMA LeavesAre ==
  ASSUME NEW h, Height(h)
  PROVE  /\ Node = Full(h) /\ Root(LeafWidth) = Top(h)
         /\ \A l \in Leaf : /\ LeafToNodeIndex(l) \in Full(h) /\ LeafToNodeIndex(l) \in Nat
                            /\ IsLeaf(LeafToNodeIndex(l))
<1>1. Node = Full(h) /\ Root(LeafWidth) = Top(h)
  BY WidthBasics DEF Height, Node
<1>2. 2^h \in Nat /\ 2^(h + 1) = 2 * 2^h
  BY PowerOfTwo DEF Height
<1>3. ASSUME NEW l \in Leaf  PROVE 2 * l \in Full(h) /\ (2 * l) % 2 = 0
  <2>1. l \in 0 .. 2^h - 1
    BY DEF Leaf, Height
  <2> QED
    BY <1>2, <2>1 DEF Full
<1>4. Full(h) \subseteq Nat
  BY TopBasics DEF Height
<1> QED
  BY <1>1, <1>3, <1>4 DEF LeafToNodeIndex, IsLeaf

\* A leaf's path is the nodes it lies under.
LEMMA PathFromLeafIs ==
  ASSUME NEW h, Height(h), NEW l \in Leaf
  PROVE  PathFromLeaf(l) = {y \in Full(h) : LeafToNodeIndex(l) \in Block(y)}
<1> DEFINE x == LeafToNodeIndex(l)
           p == DirectPath(x, LeafWidth)
<1>1. x \in Full(h) /\ x \in Nat
  BY LeavesAre
<1>2. PathFrom(x, h, p)
  BY <1>1, DirectPathIs DEF Height
<1>3. {p[i] : i \in DOMAIN p} = {y \in Full(h) \ {x} : x \in Block(y)}
  BY <1>1, <1>2, AboveIs DEF Height
<1>4. x \in Block(x)
  BY <1>1, NodeBasics
<1>5. PathFromLeaf(l) = {x} \union {p[i] : i \in DOMAIN p}
  BY DEF PathFromLeaf
<1> QED
  BY <1>1, <1>3, <1>4, <1>5

\* Under every node lies a leaf.
LEMMA LeafUnder ==
  ASSUME NEW h, Height(h), NEW n \in Full(h)
  PROVE  \E l \in Leaf : LeafToNodeIndex(l) \in Block(n)
<1>1. n \in Nat /\ Block(n) \subseteq Full(h) /\ h \in Nat
  BY NodeOfTree DEF Height
<1>2. PICK k, q \in Nat : n = NodeAt(k, q)
  BY <1>1, EveryNodeIsAt
<1>3. Block(n) = (2 * q) * 2^k .. (2 * q + 2) * 2^k - 2
  BY <1>2, BlockAt
<1> DEFINE l == q * 2^k
<1>4. 2^k \in Nat \ {0} /\ 2^h \in Nat \ {0} /\ 2^(h + 1) = 2 * 2^h
  BY <1>1, PowerOfTwo
<1>5. l \in Nat /\ (2 * q) * 2^k = 2 * l /\ (2 * q + 2) * 2^k = 2 * l + 2 * 2^k
  BY <1>4
<1> HIDE DEF l
<1>6. 2 * l \in Block(n)
  BY <1>3, <1>4, <1>5
<1>7. l \in Leaf
  <2>1. 2 * l <= 2 * 2^h - 2
    BY <1>1, <1>4, <1>6 DEF Full
  <2> QED
    BY <1>4, <1>5, <2>1 DEF Leaf, Height
<1> QED
  BY <1>6, <1>7 DEF LeafToNodeIndex

LEMMA PathsMeetAt ==
  ASSUME NEW l \in Leaf, NEW m \in Leaf
  PROVE  PathsMeet(l, m)
<1>1. PICK h : Height(h)
  BY HeightExists
<1> DEFINE u == LeafToNodeIndex(l)
           v == LeafToNodeIndex(m)
<1>2. ASSUME NEW x \in PathFromLeaf(l) \intersect PathFromLeaf(m), NEW y \in PathFromLeaf(m),
             Level(x) <= Level(y)
      PROVE  y \in PathFromLeaf(l)
  <2>1. /\ x \in Full(h) /\ y \in Full(h) /\ x \in Nat /\ y \in Nat
        /\ u \in Block(x) /\ v \in Block(x) /\ v \in Block(y) /\ v \in Nat
    BY <1>1, PathFromLeafIs, LeavesAre, TopBasics DEF Height
  <2>2. x \in Block(y)
    BY <1>2, <2>1, BlocksMeet
  <2>3. Block(x) \subseteq Block(y)
    BY <2>1, <2>2, BlocksNest
  <2> QED
    BY <1>1, <2>1, <2>3, PathFromLeafIs
<1> QED
  BY <1>2 DEF PathsMeet

\* What hangs off the path below n, at p: the other half of p's parent.
Hanging(n, p, u) ==
  /\ p \in Nat /\ n \in Nat /\ Sibling(p) \in Nat /\ Parent(p) \in Nat
  /\ Level(p) \in Nat /\ Level(Parent(p)) = Level(p) + 1 /\ Level(Parent(p)) <= Level(n)
  /\ u \in Block(p) /\ Block(Parent(p)) \subseteq Block(n)
  /\ Block(Parent(p)) = Block(p) \union {Parent(p)} \union Block(Sibling(p))
  /\ Block(Sibling(p)) \intersect Block(p) = {} /\ Sibling(p) \in Block(Sibling(p))

LEMMA BelowHangs ==
  ASSUME NEW h, Height(h), NEW l \in Leaf, NEW n \in PathFromLeaf(l), NEW p \in Below(l, n)
  PROVE  Hanging(n, p, LeafToNodeIndex(l))
<1> DEFINE u == LeafToNodeIndex(l)
<1>1. p \in Full(h) /\ n \in Full(h) /\ u \in Block(p) /\ u \in Block(n) /\ Level(p) < Level(n)
  BY PathFromLeafIs DEF Below
<1>2. p \in Nat /\ n \in Nat /\ u \in Nat
  BY <1>1, LeavesAre, TopBasics DEF Height
<1>3. /\ Parent(p) \in Nat /\ Level(Parent(p)) = Level(p) + 1 /\ Block(p) \subseteq Block(Parent(p))
      /\ Level(p) \in Nat /\ Level(n) \in Nat
  BY <1>2, ParentBasics, NodeBasics
<1>4. u \in Block(Parent(p)) /\ Level(Parent(p)) <= Level(n)
  BY <1>1, <1>3
<1>5. Parent(p) \in Block(n)
  BY <1>1, <1>2, <1>3, <1>4, BlocksMeet
<1>6. Block(Parent(p)) \subseteq Block(n)
  BY <1>2, <1>3, <1>5, BlocksNest
<1>7. /\ Sibling(p) \in Nat
      /\ Block(Parent(p)) = Block(p) \union {Parent(p)} \union Block(Sibling(p))
      /\ Block(Sibling(p)) \intersect Block(p) = {}
  BY <1>2, SiblingBasics
<1>8. Sibling(p) \in Block(Sibling(p))
  BY <1>7, NodeBasics
<1> QED
  BY <1>1, <1>2, <1>3, <1>4, <1>6, <1>7, <1>8 DEF Hanging

LEMMA CopathHangs ==
  ASSUME NEW h, Height(h), NEW l \in Leaf, NEW n \in PathFromLeaf(l)
  PROVE  CopathBelow(l, n) \subseteq Node \ PathFromLeaf(l)
<1> SUFFICES ASSUME NEW p \in Below(l, n)  PROVE Sibling(p) \in Node \ PathFromLeaf(l)
  BY DEF CopathBelow
<1>1. Hanging(n, p, LeafToNodeIndex(l))
  BY BelowHangs
<1>2. n \in Full(h) /\ h \in Nat
  BY PathFromLeafIs DEF Height
<1>3. Block(n) \subseteq Full(h)
  BY <1>2, NodeOfTree
<1>4. Sibling(p) \in Full(h) /\ LeafToNodeIndex(l) \notin Block(Sibling(p))
  BY <1>1, <1>3 DEF Hanging
<1> QED
  BY <1>4, LeavesAre, PathFromLeafIs

\* Two parts of what hangs off the path have no leaf in common.
LEMMA HangingApart ==
  ASSUME NEW n, NEW u \in Nat, NEW p, NEW q, Hanging(n, p, u), Hanging(n, q, u),
         NEW v \in Nat, v \in Block(Sibling(p)), v \in Block(Sibling(q))
  PROVE  p = q
<1>1. ASSUME NEW a, NEW b, Hanging(n, a, u), Hanging(n, b, u), Level(a) < Level(b),
             v \in Block(Sibling(a)), v \in Block(Sibling(b))
      PROVE  FALSE
  <2>1. /\ Parent(a) \in Nat /\ b \in Nat /\ u \in Block(Parent(a)) /\ u \in Block(b)
        /\ Level(Parent(a)) <= Level(b)
    BY <1>1 DEF Hanging
  <2>2. Parent(a) \in Block(b)
    BY <2>1, BlocksMeet
  <2>3. Block(Parent(a)) \subseteq Block(b)
    BY <2>1, <2>2, BlocksNest
  <2>4. v \in Block(Parent(a))
    BY <1>1 DEF Hanging
  <2> QED
    BY <1>1, <2>3, <2>4 DEF Hanging
<1>2. Level(p) = Level(q)
  <2>1. Level(p) \in Nat /\ Level(q) \in Nat
    BY DEF Hanging
  <2>2. ~(Level(p) < Level(q)) /\ ~(Level(q) < Level(p))
    BY <1>1
  <2> QED
    BY <2>1, <2>2
<1>3. p \in Nat /\ q \in Nat /\ u \in Block(p) /\ u \in Block(q)
  BY DEF Hanging
<1> QED
  BY <1>2, <1>3, SameLevelDisjoint

\* Another leaf below n lies under one of the subtrees that hang off the path.
LEMMA HangingFound ==
  ASSUME NEW h, Height(h), NEW l \in Leaf, NEW n \in PathFromLeaf(l),
         NEW m \in Leaf \ {l}, n \in PathFromLeaf(m)
  PROVE  \E p \in Below(l, n) : Sibling(p) \in PathFromLeaf(m)
<1> DEFINE u == LeafToNodeIndex(l)
           v == LeafToNodeIndex(m)
           shared == {y \in PathFromLeaf(l) : v \in Block(y)}
           levels == {Level(y) : y \in shared}
<1>1. /\ u \in Nat /\ v \in Nat /\ IsLeaf(u) /\ IsLeaf(v) /\ h \in Nat
      /\ n \in Full(h) /\ v \in Block(n) /\ Full(h) \subseteq Nat
  BY LeavesAre, PathFromLeafIs, TopBasics DEF Height
<1>2. u # v
  <2>1. l \in Nat /\ m \in Nat /\ l # m
    BY WidthAssumption DEF Leaf
  <2> QED
    BY <2>1 DEF LeafToNodeIndex
<1>3. \A y \in shared : y \in Full(h) /\ y \in Nat /\ u \in Block(y) /\ v \in Block(y) /\ Level(y) \in Nat
  BY <1>1, PathFromLeafIs, NodeBasics
<1>4. n \in shared /\ levels \subseteq Nat /\ levels # {}
  BY <1>1, <1>3
<1> HIDE DEF shared
<1>5. PICK k \in levels : \A j \in levels : k <= j
  <2> HIDE DEF levels
  <2> QED
    BY <1>4, LeastNumber
<1>6. PICK y \in shared : k = Level(y)
  BY <1>5
<1>7. \A z \in shared : Level(y) <= Level(z)
  BY <1>5, <1>6
<1>8. y \in Nat /\ ~IsLeaf(y) /\ v # y /\ u # y
  <2>1. y \in Nat /\ u \in Block(y) /\ v \in Block(y)
    BY <1>3
  <2>2. IsLeaf(y) => Block(y) = {y}
    BY <2>1, NodeBasics
  <2> QED
    BY <1>1, <1>2, <2>1, <2>2
<1>9. ASSUME NEW p \in {Left(y), Right(y)}, u \in Block(p), NEW q \in {Left(y), Right(y)}, q # p
      PROVE  /\ p \in Nat /\ Parent(p) = y /\ Level(p) = Level(y) - 1
             /\ Sibling(p) = q
             /\ p \in Full(h)
  <2>1. /\ p \in Nat /\ Parent(p) = y /\ Level(p) = Level(y) - 1
        /\ Left(y) < y /\ y < Right(y)
        /\ Block(y) = Block(Left(y)) \union {y} \union Block(Right(y))
    BY <1>8, <1>9, ChildBasics
  <2>2. Sibling(p) = q
    <3>1. CASE p = Left(y)
      BY <1>9, <2>1, <3>1 DEF Sibling
    <3>2. CASE p = Right(y)
      <4>1. ~(p < y)
        <5>1. Right(y) \in Nat
          BY <1>8, ChildBasics
        <5> QED
          BY <1>8, <2>1, <3>2, <5>1
      <4> QED
        BY <1>9, <2>1, <3>2, <4>1 DEF Sibling
    <3> QED
      BY <1>9, <3>1, <3>2
  <2>3. p \in Full(h)
    <3>1. p \in Block(p)
      BY <2>1, NodeBasics
    <3>2. p \in Block(y)
      BY <1>9, <2>1, <3>1
    <3>3. Block(y) \subseteq Full(h)
      BY <1>1, <1>3, NodeOfTree
    <3> QED
      BY <3>2, <3>3
  <2> QED
    BY <2>1, <2>2, <2>3
<1>10. PICK p \in {Left(y), Right(y)} : u \in Block(p)
  <2>1. Block(y) = Block(Left(y)) \union {y} \union Block(Right(y))
    BY <1>8, ChildBasics
  <2> QED
    BY <1>3, <1>8, <2>1
<1>11. PICK q \in {Left(y), Right(y)} : q # p
  <2>1. Left(y) < y /\ y < Right(y) /\ Left(y) \in Nat /\ Right(y) \in Nat
    BY <1>8, ChildBasics
  <2> QED
    BY <1>8, <2>1
<1>12. p \in Nat /\ Parent(p) = y /\ Level(p) = Level(y) - 1 /\ Sibling(p) = q /\ p \in Full(h)
  BY <1>9, <1>10, <1>11
<1>13. p \in PathFromLeaf(l)
  BY <1>10, <1>12, PathFromLeafIs
<1>14. v \notin Block(p)
  <2>1. ASSUME v \in Block(p)  PROVE FALSE
    <3>1. p \in shared
      BY <1>13, <2>1 DEF shared
    <3>2. Level(y) <= Level(p) /\ Level(y) \in Nat
      BY <1>3, <1>7, <3>1
    <3> QED
      BY <1>12, <3>2
  <2> QED
    BY <2>1
<1>15. v \in Block(q)
  <2>1. Block(y) = Block(Left(y)) \union {y} \union Block(Right(y))
    BY <1>8, ChildBasics
  <2> QED
    BY <1>3, <1>8, <1>10, <1>11, <1>14, <2>1
<1>16. q \in Full(h)
  <2>1. q \in Nat
    BY <1>8, <1>11, ChildBasics
  <2>2. q \in Block(q) /\ Block(y) = Block(Left(y)) \union {y} \union Block(Right(y))
    BY <1>8, <2>1, ChildBasics, NodeBasics
  <2>3. Block(y) \subseteq Full(h)
    BY <1>1, <1>3, NodeOfTree
  <2> QED
    BY <1>11, <2>2, <2>3
<1>17. p \in Below(l, n)
  <2>1. Level(y) <= Level(n) /\ Level(y) \in Nat /\ Level(n) \in Nat
    BY <1>3, <1>4, <1>7
  <2> QED
    BY <1>12, <1>13, <2>1 DEF Below
<1>18. q \in PathFromLeaf(m)
  BY <1>15, <1>16, PathFromLeafIs
<1> QED
  BY <1>12, <1>17, <1>18

LEMMA CoveredOnceAt ==
  ASSUME NEW l \in Leaf, NEW n \in PathFromLeaf(l), NEW m \in Leaf \ {l}
  PROVE  CoveredOnce(l, n, m)
<1>1. PICK h : Height(h)
  BY HeightExists
<1> DEFINE u == LeafToNodeIndex(l)
           v == LeafToNodeIndex(m)
           covering == PathFromLeaf(m) \intersect CopathBelow(l, n)
<1>2. u \in Nat /\ v \in Nat /\ PathFromLeaf(m) = {y \in Full(h) : v \in Block(y)} /\ n \in Full(h)
  BY <1>1, LeavesAre, PathFromLeafIs
<1>3. \A c \in covering : \E p \in Below(l, n) : c = Sibling(p) /\ v \in Block(Sibling(p)) /\ Hanging(n, p, u)
  BY <1>1, <1>2, BelowHangs DEF CopathBelow
<1>4. ASSUME n \notin PathFromLeaf(m)  PROVE covering = {}
  <2>1. v \notin Block(n)
    BY <1>2, <1>4
  <2> QED
    BY <1>3, <2>1 DEF Hanging
<1>5. ASSUME n \in PathFromLeaf(m)  PROVE \E x \in Node : covering = {x}
  <2>1. PICK p \in Below(l, n) : Sibling(p) \in PathFromLeaf(m)
    BY <1>1, <1>5, HangingFound
  <2>2. Sibling(p) \in covering
    BY <2>1 DEF CopathBelow
  <2>3. Hanging(n, p, u) /\ v \in Block(Sibling(p))
    BY <1>1, <1>2, <2>1, BelowHangs
  <2>4. \A c \in covering : c = Sibling(p)
    BY <1>2, <1>3, <2>3, HangingApart
  <2>5. Sibling(p) \in Node
    BY <1>1, <1>2, <2>1, LeavesAre
  <2> QED
    BY <2>2, <2>4, <2>5
<1> QED
  BY <1>4, <1>5 DEF CoveredOnce

LEMMA TreeGeometry ==
  /\ \A n \in Node : Level(n) \in Nat
  /\ \A n \in Node : \E l \in Leaf : n \in PathFromLeaf(l)
  /\ Root(LeafWidth) \in Node
  /\ \A l \in Leaf :
       /\ PathFromLeaf(l) \subseteq Node
       /\ LeafToNodeIndex(l) \in PathFromLeaf(l)
       /\ Root(LeafWidth) \in PathFromLeaf(l)
       /\ \A m \in Leaf : PathsMeet(l, m)
       /\ \A n \in PathFromLeaf(l) :
            /\ CopathBelow(l, n) \subseteq Node \ PathFromLeaf(l)
            /\ \A m \in Leaf \ {l} : CoveredOnce(l, n, m)
<1>1. PICK h : Height(h)
  BY HeightExists
<1>2. /\ Node = Full(h) /\ Root(LeafWidth) = Top(h) /\ h \in Nat
      /\ Top(h) \in Full(h) /\ Block(Top(h)) = Full(h) /\ Full(h) \subseteq Nat
  BY <1>1, LeavesAre, TopBasics DEF Height
<1>3. \A n \in Node : Level(n) \in Nat
  BY <1>2, NodeBasics
<1>4. ASSUME NEW n \in Node  PROVE \E l \in Leaf : n \in PathFromLeaf(l)
  <2>1. PICK l \in Leaf : LeafToNodeIndex(l) \in Block(n)
    BY <1>1, <1>2, LeafUnder
  <2> QED
    BY <1>1, <1>2, <2>1, PathFromLeafIs
<1>5. ASSUME NEW l \in Leaf
      PROVE  /\ PathFromLeaf(l) \subseteq Node
             /\ LeafToNodeIndex(l) \in PathFromLeaf(l)
             /\ Root(LeafWidth) \in PathFromLeaf(l)
  <2>1. LeafToNodeIndex(l) \in Full(h)
    BY <1>1, LeavesAre
  <2>2. LeafToNodeIndex(l) \in Block(LeafToNodeIndex(l))
    BY <1>2, <2>1, NodeBasics
  <2> QED
    BY <1>1, <1>2, <2>1, <2>2, PathFromLeafIs
<1> QED
  BY <1>1, <1>2, <1>3, <1>4, <1>5, PathsMeetAt, CopathHangs, CoveredOnceAt

-----------------------------------------------------------------------------
(* Lemmas about Newest: what removeOldGenerations keeps.                   *)

\* removeOldGenerations never keeps more than max generations.
LEMMA NewestBounded ==
  ASSUME NEW S, S \subseteq Nat, IsFiniteSet(S), NEW max \in Nat
  PROVE  /\ Newest(S, max) \subseteq S
         /\ IsFiniteSet(Newest(S, max))
         /\ Cardinality(Newest(S, max)) <= max
<1> DEFINE T == Newest(S, max)
<1>1. T \subseteq S
  BY DEF Newest
<1>2. IsFiniteSet(T) /\ Cardinality(T) \in Nat
  BY <1>1, FS_Subset, FS_CardinalityType
<1>3. ASSUME T # {} PROVE Cardinality(T) <= max
  <2>1. PICK m \in T : \A y \in T : m <= y
    BY <1>1, <1>3, LeastNumber
  <2> DEFINE N == {h \in S : h > m}
  <2>2. IsFiniteSet(N) /\ Cardinality(N) \in Nat
    BY FS_Subset, FS_CardinalityType
  <2>3. Cardinality(N) < max
    BY <2>1 DEF Newest
  <2>4. T \ {m} \subseteq N
    <3>1. SUFFICES ASSUME NEW y \in T, y # m PROVE y \in S /\ y > m
      OBVIOUS
    <3>2. m \in Nat /\ y \in Nat /\ m <= y /\ y \in S
      BY <1>1, <2>1
    <3> QED
      BY <3>1, <3>2
  <2>5. Cardinality(T \ {m}) <= Cardinality(N)
    BY <2>2, <2>4, FS_Subset
  <2>6. Cardinality(T \ {m}) = Cardinality(T) - 1
    BY <1>2, <2>1, FS_RemoveElement
  <2> QED
    BY <1>2, <2>2, <2>3, <2>5, <2>6
<1>4. ASSUME T = {} PROVE Cardinality(T) <= max
  BY <1>4, FS_EmptySet
<1> HIDE DEF T
<1>5. Cardinality(T) <= max
  BY <1>3, <1>4
<1> QED
  BY <1>1, <1>2, <1>5 DEF T

\* Of a set of generations below top, the max just below top are kept.
LEMMA NewestKeepsWindow ==
  ASSUME NEW S, NEW top \in Nat, S \subseteq 0 .. top - 1,
         NEW max \in Nat, NEW g \in S, g + max >= top
  PROVE  g \in Newest(S, max)
<1> DEFINE N == {h \in S : h > g}
<1>1. N \subseteq g + 1 .. top - 1
  <2>1. SUFFICES ASSUME NEW h \in S, h > g PROVE h \in g + 1 .. top - 1
    OBVIOUS
  <2>2. h \in 0 .. top - 1 /\ g \in 0 .. top - 1
    OBVIOUS
  <2> QED
    BY <2>1, <2>2
<1>2. IsFiniteSet(g + 1 .. top - 1) /\ Cardinality(g + 1 .. top - 1) <= top - 1 - g
  <2>1. g \in 0 .. top - 1
    OBVIOUS
  <2>2. g + 1 \in Int /\ top - 1 \in Int /\ g + 1 <= top
    BY <2>1
  <2>3. /\ IsFiniteSet(g + 1 .. top - 1)
        /\ Cardinality(g + 1 .. top - 1) = IF g + 1 > top - 1 THEN 0 ELSE top - 1 - (g + 1) + 1
    BY <2>2, FS_Interval
  <2> QED
    BY <2>1, <2>2, <2>3
<1>3. IsFiniteSet(N) /\ Cardinality(N) <= top - 1 - g
  <2>1. IsFiniteSet(N) /\ Cardinality(N) <= Cardinality(g + 1 .. top - 1)
    BY <1>1, <1>2, FS_Subset
  <2>2. Cardinality(N) \in Nat /\ Cardinality(g + 1 .. top - 1) \in Nat
    BY <2>1, <1>2, FS_CardinalityType
  <2> QED
    BY <2>1, <2>2, <1>2
<1>4. Cardinality(N) \in Nat
  BY <1>3, FS_CardinalityType
<1>5. Cardinality(N) < max
  BY <1>3, <1>4
<1> QED
  BY <1>5 DEF Newest

-----------------------------------------------------------------------------
(* Sound trees.                                                            *)

\* A leaf without ratchets has one held ancestor, a leaf with ratchets none.
OneSource(t) ==
  \A l \in Leaf :
    LET source == PathFromLeaf(l) \intersect t.intermediateNodes
    IN  IF l \in t.leafNodes THEN source = {} ELSE \E n \in Node : source = {n}

\* The retained generations lie behind their ratchet.
UnusedBehind(t) ==
  \A l \in Leaf, k \in RatchetKind :
    \A g \in t.ratchets[l][k].unusedGenerations : g < t.ratchets[l][k].generation

Sound(t) == t \in Tree /\ OneSource(t) /\ UnusedBehind(t)

LEMMA NewTreeSound == Sound(CreateSecretTree)
<1> DEFINE t == CreateSecretTree
<1>1. RatchetRoot \in Ratchet /\ RatchetRoot.unusedGenerations = {}
  BY DEF RatchetRoot, Ratchet
<1>2. t = [intermediateNodes |-> {Root(LeafWidth)}, leafNodes |-> {},
           ratchets |-> [l \in Leaf |-> [k \in RatchetKind |-> RatchetRoot]]]
  BY DEF CreateSecretTree
<1> HIDE DEF t
<1>3. t \in Tree
  BY <1>1, <1>2, TreeGeometry DEF Tree
<1>4. ASSUME NEW l \in Leaf PROVE PathFromLeaf(l) \intersect t.intermediateNodes = {Root(LeafWidth)}
  BY <1>2, TreeGeometry
<1>5. OneSource(t)
  BY <1>2, <1>4, TreeGeometry DEF OneSource
<1>6. UnusedBehind(t)
  BY <1>1, <1>2 DEF UnusedBehind
<1> QED
  BY <1>3, <1>5, <1>6 DEF Sound, t

\* The one held node of a leaf's path is where deriveLeafSecret starts.
LEMMA HighestOfOne ==
  ASSUME NEW n \in Node
  PROVE  Highest({n}) = n
<1>1. Level(n) \in Nat
  BY TreeGeometry
<1>2. \A q \in {n} : Level(q) <= Level(n)
  BY <1>1
<1> QED
  BY <1>2 DEF Highest

\* First use of a leaf: its source gives way to the copath below it.
LEMMA DeriveFromSource ==
  ASSUME NEW t, Sound(t), NEW l \in Leaf, l \notin t.leafNodes
  PROVE  \E n \in PathFromLeaf(l) :
            /\ PathFromLeaf(l) \intersect t.intermediateNodes = {n}
            /\ Highest(PathFromLeaf(l) \intersect t.intermediateNodes) = n
            /\ UpdateTreeWithLeafSecret(t, l) =
                 [ok   |-> TRUE,
                  tree |-> [intermediateNodes |-> (t.intermediateNodes \ (Below(l, n) \union {n}))
                                                    \union CopathBelow(l, n),
                            leafNodes |-> t.leafNodes \union {l},
                            ratchets  |-> t.ratchets],
                  consumedNodes |-> Below(l, n) \union {n}]
<1>1. PICK n \in Node : PathFromLeaf(l) \intersect t.intermediateNodes = {n}
  BY DEF Sound, OneSource
<1>2. n \in PathFromLeaf(l) /\ Highest(PathFromLeaf(l) \intersect t.intermediateNodes) = n
  BY <1>1, HighestOfOne
<1> DEFINE nodes == (t.intermediateNodes \ (Below(l, n) \union {n})) \union CopathBelow(l, n)
<1>3. DeriveLeafSecret(l, t.intermediateNodes) =
        [ok |-> TRUE, nodes |-> nodes, consumed |-> Below(l, n) \union {n}]
  BY <1>1, HighestOfOne DEF DeriveLeafSecret
<1>4. UpdateTreeWithLeafSecret(t, l) =
        [ok            |-> TRUE,
         tree          |-> [intermediateNodes |-> nodes,
                            leafNodes         |-> t.leafNodes \union {l},
                            ratchets          |-> t.ratchets],
         consumedNodes |-> Below(l, n) \union {n}]
  <2> HIDE DEF nodes
  <2> QED
    BY <1>3 DEF UpdateTreeWithLeafSecret
<1> QED
  BY <1>1, <1>2, <1>4

\* What the first use of a leaf does to the inner nodes.
LEMMA DeriveEffect ==
  ASSUME NEW t, Sound(t), NEW l \in Leaf, l \notin t.leafNodes
  PROVE  \E n \in PathFromLeaf(l) :
            /\ PathFromLeaf(l) \intersect t.intermediateNodes = {n}
            /\ UpdateTreeWithLeafSecret(t, l).tree.intermediateNodes =
                 (t.intermediateNodes \ (Below(l, n) \union {n})) \union CopathBelow(l, n)
            /\ UpdateTreeWithLeafSecret(t, l).consumedNodes = Below(l, n) \union {n}
<1>1. PICK n \in PathFromLeaf(l) :
            /\ PathFromLeaf(l) \intersect t.intermediateNodes = {n}
            /\ UpdateTreeWithLeafSecret(t, l) =
                 [ok   |-> TRUE,
                  tree |-> [intermediateNodes |-> (t.intermediateNodes \ (Below(l, n) \union {n}))
                                                    \union CopathBelow(l, n),
                            leafNodes |-> t.leafNodes \union {l},
                            ratchets  |-> t.ratchets],
                  consumedNodes |-> Below(l, n) \union {n}]
  BY DeriveFromSource
<1> QED
  BY <1>1

\* updateTreeWithLeafSecret always succeeds and leaves the ratchets alone.
LEMMA UpdateTreeShape ==
  ASSUME NEW t, Sound(t), NEW l \in Leaf
  PROVE  LET init == UpdateTreeWithLeafSecret(t, l)
         IN  /\ init.ok
             /\ init.tree \in Tree
             /\ init.tree.ratchets = t.ratchets
             /\ init.tree.leafNodes = t.leafNodes \union {l}
             /\ init.consumedNodes \subseteq Node
<1>1. CASE l \in t.leafNodes
  BY <1>1 DEF UpdateTreeWithLeafSecret, Sound
<1>2. CASE l \notin t.leafNodes
  <2>1. PICK n \in PathFromLeaf(l) :
            /\ PathFromLeaf(l) \intersect t.intermediateNodes = {n}
            /\ UpdateTreeWithLeafSecret(t, l) =
                 [ok   |-> TRUE,
                  tree |-> [intermediateNodes |-> (t.intermediateNodes \ (Below(l, n) \union {n}))
                                                    \union CopathBelow(l, n),
                            leafNodes |-> t.leafNodes \union {l},
                            ratchets  |-> t.ratchets],
                  consumedNodes |-> Below(l, n) \union {n}]
    BY <1>2, DeriveFromSource
  <2>2. CopathBelow(l, n) \subseteq Node /\ Below(l, n) \subseteq Node /\ n \in Node
    BY <2>1, TreeGeometry DEF Below
  <2>3. t.intermediateNodes \subseteq Node /\ t.leafNodes \subseteq Leaf
        /\ t.ratchets \in [Leaf -> [RatchetKind -> Ratchet]]
    BY DEF Sound, Tree
  <2> QED
    BY <2>1, <2>2, <2>3 DEF Tree
<1> QED
  BY <1>1, <1>2

\* A ratchet value put in place of one of the tree's keeps the tree well formed.
LEMMA WithRatchetType ==
  ASSUME NEW T \in Tree, NEW l \in Leaf, NEW k \in RatchetKind, NEW r \in Ratchet
  PROVE  WithRatchet(T, l, k, r) \in Tree
<1>1. T.ratchets \in [Leaf -> [RatchetKind -> Ratchet]]
  BY DEF Tree
<1>2. [T.ratchets EXCEPT ![l][k] = r] \in [Leaf -> [RatchetKind -> Ratchet]]
  BY <1>1
<1> QED
  BY <1>2 DEF Tree, WithRatchet

\* The ratchets that the operations put in place.
LEMMA RatchetTypes ==
  ASSUME NEW r \in Ratchet, NEW g \in Nat
  PROVE  /\ Without(r, g) \in Ratchet
         /\ g >= r.generation =>
              /\ [generation |-> g + 1, unusedGenerations |-> Retained(r, g)] \in Ratchet
              /\ Skipped(r, g) \subseteq Nat
              /\ Retained(r, g) \subseteq Skipped(r, g)
<1>1. r.generation \in Nat /\ r.unusedGenerations \subseteq Nat
  BY DEF Ratchet
<1>2. Without(r, g) \in Ratchet
  BY <1>1 DEF Ratchet, Without
<1>3. ASSUME g >= r.generation PROVE Skipped(r, g) \subseteq Nat
  BY <1>1 DEF Skipped
<1>4. Retained(r, g) \subseteq Skipped(r, g)
  BY DEF Retained, Skipped, Newest
<1> QED
  BY <1>2, <1>3, <1>4 DEF Ratchet

\* What holds of one ratchet and the generations used on it.
InWindow(r, done) ==
  /\ IsFiniteSet(r.unusedGenerations)
  /\ Cardinality(r.unusedGenerations) <= RetainKeysForGenerations
  /\ \A g \in r.unusedGenerations : g < r.generation /\ g \notin done
  /\ \A g \in done : g < r.generation
  /\ \A g \in 0 .. r.generation - 1 :
       g + RetainKeysForGenerations + 1 >= r.generation
         => g \in r.unusedGenerations \/ g \in done

\* Using a retained generation stays in the window.
LEMMA BackInWindow ==
  ASSUME NEW r \in Ratchet, NEW done, InWindow(r, done),
         NEW g \in r.unusedGenerations
  PROVE  InWindow(Without(r, g), done \union {g})
<1>1. r.generation \in Nat /\ r.unusedGenerations \subseteq Nat
  BY DEF Ratchet
<1> DEFINE unused == r.unusedGenerations \ {g}
<1>2. IsFiniteSet(unused) /\ Cardinality(unused) <= Cardinality(r.unusedGenerations)
  BY FS_Subset DEF InWindow
<1>3. Cardinality(unused) \in Nat /\ Cardinality(r.unusedGenerations) \in Nat
  BY <1>2, FS_CardinalityType DEF InWindow
<1>4. Cardinality(unused) <= RetainKeysForGenerations
  BY <1>2, <1>3, RetainAssumption DEF InWindow
<1>5. Without(r, g) = [generation |-> r.generation, unusedGenerations |-> unused]
  BY DEF Without
<1>6. /\ \A x \in unused : x < r.generation /\ x \notin done \union {g}
      /\ \A x \in done \union {g} : x < r.generation
      /\ \A x \in 0 .. r.generation - 1 :
           x + RetainKeysForGenerations + 1 >= r.generation
             => x \in unused \/ x \in done \union {g}
  BY DEF InWindow
<1> HIDE DEF unused
<1> QED
  BY <1>2, <1>4, <1>5, <1>6 DEF InWindow

\* Ratcheting ahead to an unreached generation stays in the window.
LEMMA ForwardInWindow ==
  ASSUME NEW r \in Ratchet, NEW done \in SUBSET Nat, InWindow(r, done),
         NEW g \in Nat, r.generation <= g
  PROVE  InWindow([generation |-> g + 1, unusedGenerations |-> Retained(r, g)], done \union {g})
<1>1. r.generation \in Nat /\ r.unusedGenerations \subseteq Nat
  BY DEF Ratchet
<1> DEFINE kept == Retained(r, g)
<1>2. CASE g = r.generation
  <2>1. kept = r.unusedGenerations
    BY <1>2 DEF Retained
  <2>2. \A x \in kept : x < g + 1 /\ x \notin done \union {g}
    BY <1>1, <1>2, <2>1 DEF InWindow
  <2>3. \A x \in done \union {g} : x < g + 1
    BY <1>2 DEF InWindow
  <2>4. \A x \in 0 .. g : x + RetainKeysForGenerations + 1 >= g + 1
                            => x \in kept \/ x \in done \union {g}
    BY <1>2, <2>1, RetainAssumption DEF InWindow
  <2>5. 0 .. (g + 1) - 1 = 0 .. g
    OBVIOUS
  <2>6. IsFiniteSet(kept) /\ Cardinality(kept) <= RetainKeysForGenerations
    BY <2>1 DEF InWindow
  <2> HIDE DEF kept
  <2> QED
    BY <2>2, <2>3, <2>4, <2>5, <2>6 DEF InWindow, kept
<1>3. CASE g > r.generation
  <2> DEFINE S == Skipped(r, g)
  <2>1. kept = Newest(S, RetainKeysForGenerations)
    BY <1>1, <1>3 DEF Retained
  <2>2. IsFiniteSet(S)
    <3>1. IsFiniteSet(r.generation .. g - 1)
      BY <1>1, FS_Interval
    <3> QED
      BY <3>1, FS_Union DEF Skipped, InWindow
  <2>3. S \subseteq 0 .. g - 1
    <3>1. SUFFICES ASSUME NEW x \in S PROVE x \in 0 .. g - 1
      OBVIOUS
    <3>2. x \in Nat /\ (x < r.generation \/ x \in r.generation .. g - 1)
      BY <1>1 DEF Skipped, InWindow
    <3> QED
      BY <1>1, <1>3, <3>2
  <2>4. \A x \in S : x \notin done \union {g}
    <3>1. SUFFICES ASSUME NEW x \in S PROVE x \notin done \union {g}
      OBVIOUS
    <3>2. CASE x \in r.unusedGenerations
      BY <1>1, <1>3, <3>2 DEF InWindow
    <3>3. CASE x \in r.generation .. g - 1
      BY <1>1, <1>3, <3>3 DEF InWindow
    <3> QED
      BY <3>1, <3>2, <3>3 DEF Skipped
  <2>5. \A x \in 0 .. g - 1 : x + RetainKeysForGenerations >= g => x \in S \/ x \in done
    <3>1. SUFFICES ASSUME NEW x \in 0 .. g - 1, x + RetainKeysForGenerations >= g
                   PROVE  x \in S \/ x \in done
      OBVIOUS
    <3>2. CASE x >= r.generation
      BY <1>1, <3>2 DEF Skipped
    <3>3. CASE x < r.generation
      BY <1>1, <1>3, <3>1, <3>3, RetainAssumption DEF Skipped, InWindow
    <3> QED
      BY <1>1, <3>2, <3>3
  <2> HIDE DEF S, kept
  <2>6. kept \subseteq S /\ IsFiniteSet(kept) /\ Cardinality(kept) <= RetainKeysForGenerations
    <3>1. S \subseteq Nat
      BY <2>3
    <3> QED
      BY <2>1, <2>2, <3>1, NewestBounded, RetainAssumption
  <2>7. \A x \in S : x + RetainKeysForGenerations >= g => x \in kept
    BY <2>1, <2>3, NewestKeepsWindow, RetainAssumption
  <2>8. \A x \in kept : x < g + 1 /\ x \notin done \union {g}
    BY <2>3, <2>4, <2>6
  <2>9. \A x \in done \union {g} : x < g + 1
    BY <1>1, <1>3 DEF InWindow
  <2>10. \A x \in 0 .. (g + 1) - 1 : x + RetainKeysForGenerations + 1 >= g + 1
                                       => x \in kept \/ x \in done \union {g}
    <3>1. SUFFICES ASSUME NEW x \in 0 .. g, x + RetainKeysForGenerations >= g, x # g
                   PROVE  x \in kept \/ x \in done
      BY RetainAssumption
    <3>2. x \in 0 .. g - 1
      BY <3>1
    <3> QED
      BY <2>5, <2>7, <3>1, <3>2
  <2> QED
    BY <2>6, <2>8, <2>9, <2>10 DEF InWindow, kept
<1> QED
  BY <1>1, <1>2, <1>3

\* Membership in the held secrets, without the union of sets.
LEMMA HeldMeans ==
  ASSUME NEW T, NEW x, x \in HeldSecrets(T)
  PROVE  \E l, k, g :
            /\ l \in T.leafNodes /\ k \in RatchetKind
            /\ x = <<l, k, g>>
            /\ g = T.ratchets[l][k].generation \/ g \in T.ratchets[l][k].unusedGenerations
  BY DEF HeldSecrets, SecretsOf

LEMMA MeansHeld ==
  ASSUME NEW T, NEW l \in T.leafNodes, NEW k \in RatchetKind, NEW g,
         g = T.ratchets[l][k].generation \/ g \in T.ratchets[l][k].unusedGenerations
  PROVE  <<l, k, g>> \in HeldSecrets(T)
<1> DEFINE held(m, j) == {T.ratchets[m][j].generation} \union T.ratchets[m][j].unusedGenerations
<1>1. g \in held(l, k)
  OBVIOUS
<1> HIDE DEF held
<1>2. <<l, k, g>> \in SecretsOf(l, k, held(l, k))
  BY <1>1 DEF SecretsOf
<1>3. HeldSecrets(T) = UNION {SecretsOf(m, j, held(m, j)) : m \in T.leafNodes, j \in RatchetKind}
  BY DEF HeldSecrets, held
<1>4. SecretsOf(l, k, held(l, k)) \in {SecretsOf(m, j, held(m, j)) : m \in T.leafNodes, j \in RatchetKind}
  OBVIOUS
<1> QED
  BY <1>2, <1>3, <1>4

-----------------------------------------------------------------------------
(* One use of a tree: the ratchet of one leaf moves back or forward.       *)

\* What becomes of a ratchet when generation g is used, and the generations
\* whose secrets are consumed.
Stepped(r, g, r2, gens) ==
  \/ /\ g \in r.unusedGenerations /\ g < r.generation
     /\ r2 = Without(r, g) /\ gens = {g}
  \/ /\ r.generation <= g /\ g <= r.generation + MaximumForwardRatchetSteps
     /\ r2 = [generation |-> g + 1, unusedGenerations |-> Retained(r, g)]
     /\ gens = (Skipped(r, g) \ Retained(r, g)) \union {g}

\* What becomes of a tree.
Uses(t, l, k, g, result) ==
  LET init == UpdateTreeWithLeafSecret(t, l)
  IN  /\ result.generation = g
      /\ result.tree \in Tree
      /\ result.tree.intermediateNodes = init.tree.intermediateNodes
      /\ result.tree.leafNodes = t.leafNodes \union {l}
      /\ result.consumedNodes = init.consumedNodes
      /\ \E r2 \in Ratchet, gens \in SUBSET Nat :
           /\ Stepped(t.ratchets[l][k], g, r2, gens)
           /\ result.tree.ratchets = [t.ratchets EXCEPT ![l][k] = r2]
           /\ result.consumedSecrets = SecretsOf(l, k, gens)

LEMMA SteppedFacts ==
  ASSUME NEW r \in Ratchet, \A x \in r.unusedGenerations : x < r.generation,
         NEW g \in Nat, NEW r2 \in Ratchet, NEW gens \in SUBSET Nat, Stepped(r, g, r2, gens)
  PROVE  /\ r.generation <= r2.generation
         /\ g < r.generation => r2.generation = r.generation /\ g \in r.unusedGenerations
         /\ g < r2.generation /\ g \notin r2.unusedGenerations /\ g \in gens
         /\ \A x \in r2.unusedGenerations \union gens : x < r2.generation
         /\ r2.unusedGenerations \intersect gens = {}
         /\ \A x \in r2.unusedGenerations : x \in r.unusedGenerations \/ x >= r.generation
         /\ {r.generation} \union r.unusedGenerations
              \subseteq {r2.generation} \union r2.unusedGenerations \union gens
<1>1. r.generation \in Nat /\ r.unusedGenerations \subseteq Nat
  BY DEF Ratchet
<1>2. CASE g \in r.unusedGenerations /\ g < r.generation /\ r2 = Without(r, g) /\ gens = {g}
  BY <1>1, <1>2 DEF Without
<1>3. CASE /\ r.generation <= g
           /\ r2 = [generation |-> g + 1, unusedGenerations |-> Retained(r, g)]
           /\ gens = (Skipped(r, g) \ Retained(r, g)) \union {g}
  <2>1. Retained(r, g) \subseteq Skipped(r, g)
    BY <1>3, RatchetTypes
  <2>2. \A x \in Skipped(r, g) : x \in Nat /\ x < g /\ (x \in r.unusedGenerations \/ x >= r.generation)
    BY <1>1, <1>3 DEF Skipped
  <2>3. {r.generation} \union r.unusedGenerations \subseteq Skipped(r, g) \union {g}
    BY <1>1, <1>3 DEF Skipped
  <2>4. r2.generation = g + 1 /\ r2.unusedGenerations = Retained(r, g)
    BY <1>3
  <2>5. ASSUME NEW x \in r2.unusedGenerations \union gens PROVE x < r2.generation
    <3>1. x \in Skipped(r, g) \/ x = g
      BY <1>3, <2>1, <2>4
    <3>2. x = g \/ (x \in Nat /\ x < g)
      BY <2>2, <3>1
    <3> QED
      BY <2>4, <3>2
  <2>6. r.generation <= r2.generation /\ ~(g < r.generation) /\ g < r2.generation
    BY <1>1, <1>3, <2>4
  <2>7. /\ g \notin r2.unusedGenerations /\ g \in gens /\ r2.unusedGenerations \intersect gens = {}
        /\ \A x \in r2.unusedGenerations : x \in r.unusedGenerations \/ x >= r.generation
    <3>1. g \notin Skipped(r, g)
      BY <2>2
    <3> QED
      BY <1>3, <2>1, <2>2, <2>4, <3>1
  <2> QED
    BY <1>3, <2>3, <2>4, <2>5, <2>6, <2>7
<1> QED
  BY <1>2, <1>3 DEF Stepped

\* The window of the ratchet moves along.
LEMMA SteppedInWindow ==
  ASSUME NEW r \in Ratchet, NEW done \in SUBSET Nat, InWindow(r, done),
         NEW g \in Nat, NEW r2, NEW gens, Stepped(r, g, r2, gens)
  PROVE  InWindow(r2, done \union {g})
  BY BackInWindow, ForwardInWindow DEF Stepped

\* The types of a tree's ratchets.
LEMMA RatchetsOf ==
  ASSUME NEW t \in Tree, NEW l \in Leaf, NEW k \in RatchetKind
  PROVE  /\ t.ratchets[l][k] \in Ratchet
         /\ t.ratchets[l][k].generation \in Nat
         /\ t.ratchets[l][k].unusedGenerations \subseteq Nat
  BY DEF Tree, Ratchet

\* consumeRatchet uses the current generation.
LEMMA ConsumeShape ==
  ASSUME NEW t, Sound(t), NEW l \in Leaf, NEW k \in RatchetKind
  PROVE  /\ ConsumeRatchet(t, l, k).ok
         /\ t.ratchets[l][k].generation \in Nat
         /\ Uses(t, l, k, t.ratchets[l][k].generation, ConsumeRatchet(t, l, k))
<1> DEFINE init == UpdateTreeWithLeafSecret(t, l)
           r == t.ratchets[l][k]
           g == r.generation
           result == ConsumeRatchet(t, l, k)
<1>1. /\ init.ok /\ init.tree \in Tree /\ init.tree.ratchets = t.ratchets
      /\ init.tree.leafNodes = t.leafNodes \union {l}
  BY UpdateTreeShape
<1>2. r \in Ratchet /\ g \in Nat
  BY RatchetsOf DEF Sound
<1>3. /\ result.ok /\ result.generation = g
      /\ result.tree = WithRatchet(init.tree, l, k, Advanced(r))
      /\ result.consumedNodes = init.consumedNodes
      /\ result.consumedSecrets = SecretsOf(l, k, {g})
  BY <1>1 DEF ConsumeRatchet
<1> HIDE DEF init, r, result
<1>4. Retained(r, g) = r.unusedGenerations /\ (Skipped(r, g) \ Retained(r, g)) \union {g} = {g}
  BY <1>2 DEF Retained, Skipped
<1>5. Advanced(r) \in Ratchet
  BY <1>2 DEF Advanced, Ratchet
<1>6. result.tree \in Tree
  BY <1>1, <1>3, <1>5, WithRatchetType
<1>7. Stepped(r, g, Advanced(r), {g})
  BY <1>2, <1>4, ForwardAssumption DEF Stepped, Advanced
<1>8. /\ result.tree.ratchets = [t.ratchets EXCEPT ![l][k] = Advanced(r)]
      /\ result.tree.intermediateNodes = init.tree.intermediateNodes
      /\ result.tree.leafNodes = t.leafNodes \union {l}
  BY <1>1, <1>3 DEF WithRatchet
<1> QED
  BY <1>2, <1>3, <1>5, <1>6, <1>7, <1>8 DEF Uses, init, r, result

\* ratchetToGeneration, where it does not throw, uses the generation asked for.
LEMMA RatchetToShape ==
  ASSUME NEW t, Sound(t), NEW l \in Leaf, NEW k \in RatchetKind, NEW g \in Nat,
         RatchetToGeneration(t, l, k, g).ok
  PROVE  Uses(t, l, k, g, RatchetToGeneration(t, l, k, g))
<1> DEFINE init == UpdateTreeWithLeafSecret(t, l)
           r == t.ratchets[l][k]
           result == RatchetToGeneration(t, l, k, g)
<1>1. /\ init.ok /\ init.tree \in Tree /\ init.tree.ratchets = t.ratchets
      /\ init.tree.leafNodes = t.leafNodes \union {l}
  BY UpdateTreeShape
<1>2. r \in Ratchet /\ r.generation \in Nat
  BY RatchetsOf DEF Sound
<1> HIDE DEF init
<1>0. result.ok
  OBVIOUS
<1>3. PICK r2 \in Ratchet, gens \in SUBSET Nat :
        /\ Stepped(r, g, r2, gens)
        /\ result.generation = g
        /\ result.tree = WithRatchet(init.tree, l, k, r2)
        /\ result.consumedNodes = init.consumedNodes
        /\ result.consumedSecrets = SecretsOf(l, k, gens)
  <2>1. CASE g < r.generation
    <3>1. result = RatchetBack(init, l, k, g)
      BY <1>1, <1>2, <2>1 DEF RatchetToGeneration, init
    <3>2. g \in r.unusedGenerations
      <4> HIDE DEF result
      <4> QED
        BY <1>0, <1>1, <3>1 DEF RatchetBack
    <3>3. /\ result.generation = g
          /\ result.tree = WithRatchet(init.tree, l, k, Without(r, g))
          /\ result.consumedNodes = init.consumedNodes
          /\ result.consumedSecrets = SecretsOf(l, k, {g})
      BY <1>1, <3>1 DEF RatchetBack
    <3>4. Without(r, g) \in Ratchet /\ {g} \in SUBSET Nat
      BY <1>2, RatchetTypes
    <3>5. Stepped(r, g, Without(r, g), {g})
      BY <2>1, <3>2 DEF Stepped
    <3> HIDE DEF result, r
    <3> QED
      BY <3>3, <3>4, <3>5
  <2>2. CASE r.generation <= g
    <3> DEFINE r2 == [generation |-> g + 1, unusedGenerations |-> Retained(r, g)]
               gens == (Skipped(r, g) \ Retained(r, g)) \union {g}
    <3>1. result = RatchetForward(init, l, k, g)
      BY <1>1, <1>2, <2>2 DEF RatchetToGeneration, init
    <3>2. g <= r.generation + MaximumForwardRatchetSteps
      <4> HIDE DEF result
      <4> QED
        BY <1>0, <1>1, <3>1 DEF RatchetForward, RatchetUntil
    <3>3. /\ result.generation = g
          /\ result.tree = WithRatchet(init.tree, l, k, r2)
          /\ result.consumedNodes = init.consumedNodes
          /\ result.consumedSecrets = SecretsOf(l, k, gens)
      BY <1>1, <3>1 DEF RatchetForward, RatchetUntil, Advanced
    <3>4. r2 \in Ratchet /\ gens \in SUBSET Nat
      BY <1>2, <2>2, RatchetTypes
    <3>5. Stepped(r, g, r2, gens)
      BY <2>2, <3>2 DEF Stepped
    <3> HIDE DEF result, r, r2, gens
    <3> QED
      BY <3>3, <3>4, <3>5
  <2>3. g < r.generation \/ r.generation <= g
    BY <1>2
  <2> HIDE DEF result, r
  <2> QED
    BY <2>1, <2>2, <2>3
<1> HIDE DEF r, result
<1>4. result.tree \in Tree
  BY <1>1, <1>3, WithRatchetType
<1>5. /\ result.tree.ratchets = [t.ratchets EXCEPT ![l][k] = r2]
      /\ result.tree.intermediateNodes = init.tree.intermediateNodes
      /\ result.tree.leafNodes = t.leafNodes \union {l}
  BY <1>1, <1>3 DEF WithRatchet
<1> QED
  BY <1>3, <1>4, <1>5 DEF Uses, init, r, result

-----------------------------------------------------------------------------
(* What a use preserves.                                                   *)

\* A use leaves the other ratchets alone.
LEMMA UsesRatchets ==
  ASSUME NEW t \in Tree, NEW l \in Leaf, NEW k \in RatchetKind, NEW g, NEW result,
         Uses(t, l, k, g, result)
  PROVE  \E r2 \in Ratchet, gens \in SUBSET Nat :
           /\ Stepped(t.ratchets[l][k], g, r2, gens)
           /\ result.consumedSecrets = SecretsOf(l, k, gens)
           /\ \A m \in Leaf, j \in RatchetKind :
                result.tree.ratchets[m][j] = IF m = l /\ j = k THEN r2 ELSE t.ratchets[m][j]
<1>1. PICK r2 \in Ratchet, gens \in SUBSET Nat :
           /\ Stepped(t.ratchets[l][k], g, r2, gens)
           /\ result.tree.ratchets = [t.ratchets EXCEPT ![l][k] = r2]
           /\ result.consumedSecrets = SecretsOf(l, k, gens)
  BY DEF Uses
<1>2. \A m \in Leaf, j \in RatchetKind :
        result.tree.ratchets[m][j] = IF m = l /\ j = k THEN r2 ELSE t.ratchets[m][j]
  <2>1. t.ratchets \in [Leaf -> [RatchetKind -> Ratchet]]
    BY DEF Tree
  <2> QED
    BY <1>1, <2>1
<1> QED
  BY <1>1, <1>2

\* Every leaf still has one source, the used leaf its ratchets.
LEMMA UsesKeepsOneSource ==
  ASSUME NEW t, Sound(t), NEW l \in Leaf, NEW k, NEW g, NEW result, Uses(t, l, k, g, result)
  PROVE  OneSource(result.tree)
<1> DEFINE T == result.tree
<1>0. /\ T.intermediateNodes = UpdateTreeWithLeafSecret(t, l).tree.intermediateNodes
      /\ T.leafNodes = t.leafNodes \union {l}
  BY DEF Uses
<1> HIDE DEF T
<1>1. CASE l \in t.leafNodes
  <2>1. T.intermediateNodes = t.intermediateNodes /\ T.leafNodes = t.leafNodes
    BY <1>0, <1>1 DEF UpdateTreeWithLeafSecret
  <2> QED
    BY <2>1 DEF Sound, OneSource, T
<1>2. CASE l \notin t.leafNodes
  <2>1. PICK n \in PathFromLeaf(l) :
          /\ PathFromLeaf(l) \intersect t.intermediateNodes = {n}
          /\ T.intermediateNodes = (t.intermediateNodes \ (Below(l, n) \union {n})) \union CopathBelow(l, n)
          /\ T.leafNodes = t.leafNodes \union {l}
    BY <1>0, <1>2, DeriveEffect
  <2>2. n \in Node /\ Below(l, n) \intersect t.intermediateNodes = {}
    BY <2>1, TreeGeometry DEF Below
  <2>3. PathFromLeaf(l) \intersect T.intermediateNodes = {}
    BY <2>1, TreeGeometry
  <2>4. ASSUME NEW m \in Leaf, m # l
        PROVE  LET source == PathFromLeaf(m) \intersect T.intermediateNodes
               IN  IF m \in T.leafNodes THEN source = {} ELSE \E x \in Node : source = {x}
    <3>1. CoveredOnce(l, n, m)
      BY <2>1, <2>4, TreeGeometry
    <3>2. CASE n \in PathFromLeaf(m)
      <4>1. PathFromLeaf(m) \intersect t.intermediateNodes = {n} /\ m \notin t.leafNodes
        BY <2>1, <3>2 DEF Sound, OneSource
      <4>2. PathFromLeaf(m) \intersect T.intermediateNodes
              = PathFromLeaf(m) \intersect CopathBelow(l, n)
        BY <2>1, <4>1
      <4> QED
        BY <2>1, <2>4, <3>1, <3>2, <4>1, <4>2 DEF CoveredOnce
    <3>3. CASE n \notin PathFromLeaf(m)
      <4>1. PathFromLeaf(m) \intersect CopathBelow(l, n) = {}
        BY <3>1, <3>3 DEF CoveredOnce
      <4>2. PathFromLeaf(m) \intersect T.intermediateNodes
              = PathFromLeaf(m) \intersect t.intermediateNodes
        BY <2>1, <2>2, <3>3, <4>1
      <4> QED
        BY <2>1, <2>4, <4>2 DEF Sound, OneSource
    <3> QED
      BY <3>2, <3>3
  <2> QED
    BY <2>1, <2>3, <2>4 DEF OneSource, T
<1> QED
  BY <1>1, <1>2

\* A sound tree stays sound.
LEMMA UsesSound ==
  ASSUME NEW t, Sound(t), NEW l \in Leaf, NEW k \in RatchetKind, NEW g \in Nat, NEW result,
         Uses(t, l, k, g, result)
  PROVE  Sound(result.tree)
<1>1. result.tree \in Tree
  BY DEF Uses
<1>2. OneSource(result.tree)
  BY UsesKeepsOneSource
<1>3. UnusedBehind(result.tree)
  <2>1. PICK r2 \in Ratchet, gens \in SUBSET Nat :
           /\ Stepped(t.ratchets[l][k], g, r2, gens)
           /\ \A m \in Leaf, j \in RatchetKind :
                result.tree.ratchets[m][j] = IF m = l /\ j = k THEN r2 ELSE t.ratchets[m][j]
    BY UsesRatchets DEF Sound
  <2>2. \A x \in t.ratchets[l][k].unusedGenerations : x < t.ratchets[l][k].generation
    BY DEF Sound, UnusedBehind
  <2>3. \A x \in r2.unusedGenerations : x < r2.generation
    BY <2>1, <2>2, SteppedFacts, RatchetsOf DEF Sound
  <2> QED
    BY <2>1, <2>3 DEF Sound, UnusedBehind
<1> QED
  BY <1>1, <1>2, <1>3 DEF Sound

\* What an operation hands over.
LEMMA UsesTypes ==
  ASSUME NEW t, Sound(t), NEW l \in Leaf, NEW k \in RatchetKind, NEW g \in Nat, NEW result,
         Uses(t, l, k, g, result)
  PROVE  /\ result.consumedNodes \subseteq Node
         /\ result.consumedSecrets \subseteq Leaf \X RatchetKind \X Nat
<1>1. result.consumedNodes \subseteq Node
  BY UpdateTreeShape DEF Uses
<1>2. PICK gens \in SUBSET Nat : result.consumedSecrets = SecretsOf(l, k, gens)
  BY DEF Uses
<1> QED
  BY <1>1, <1>2 DEF SecretsOf

-----------------------------------------------------------------------------
(* Consumed secrets are not needed again.                                  *)

\* The consumed nodes lie strictly above the source of every leaf below them.
AboveSources(t, nodes) ==
  \A c \in nodes, m \in Leaf :
     \A n \in PathFromLeaf(m) \intersect t.intermediateNodes :
        c \in PathFromLeaf(m) => Level(n) < Level(c)

\* The consumed ratchet secrets lie behind their ratchet and are not retained.
BehindRatchets(t, secrets) ==
  \A l \in Leaf, k \in RatchetKind, g \in Nat :
     <<l, k, g>> \in secrets =>
        /\ g < t.ratchets[l][k].generation
        /\ g \notin t.ratchets[l][k].unusedGenerations

LEMMA UsesKeepsAbove ==
  ASSUME NEW t, Sound(t), NEW nodes, AboveSources(t, nodes),
         NEW l \in Leaf, NEW k, NEW g, NEW result, Uses(t, l, k, g, result)
  PROVE  AboveSources(result.tree, nodes \union result.consumedNodes)
<1> DEFINE T == result.tree
           after == nodes \union result.consumedNodes
<1>0. /\ T.intermediateNodes = UpdateTreeWithLeafSecret(t, l).tree.intermediateNodes
      /\ after = nodes \union UpdateTreeWithLeafSecret(t, l).consumedNodes
  BY DEF Uses
<1> HIDE DEF T, after
<1>1. CASE l \in t.leafNodes
  <2>1. T.intermediateNodes = t.intermediateNodes /\ after = nodes
    BY <1>0, <1>1 DEF UpdateTreeWithLeafSecret
  <2> QED
    BY <2>1 DEF AboveSources, T, after
<1>2. CASE l \notin t.leafNodes
  <2>1. PICK n \in PathFromLeaf(l) :
          /\ PathFromLeaf(l) \intersect t.intermediateNodes = {n}
          /\ T.intermediateNodes =
               (t.intermediateNodes \ (Below(l, n) \union {n})) \union CopathBelow(l, n)
          /\ after = nodes \union (Below(l, n) \union {n})
    BY <1>0, <1>2, DeriveEffect
  <2>2. CopathBelow(l, n) \subseteq Node \ PathFromLeaf(l)
    BY <2>1, TreeGeometry
  <2>3. SUFFICES ASSUME NEW c \in after, NEW m \in Leaf, c \in PathFromLeaf(m),
                        NEW x \in PathFromLeaf(m) \intersect T.intermediateNodes
                 PROVE  Level(x) < Level(c)
    BY DEF AboveSources, T, after
  <2>4. Level(x) \in Nat /\ Level(c) \in Nat /\ Level(n) \in Nat
    BY <2>1, <2>3, TreeGeometry
  <2>5. PathsMeet(l, m) /\ PathsMeet(m, l)
    BY TreeGeometry
  <2>6. CASE x \in CopathBelow(l, n)
    <3>1. m # l /\ x \notin PathFromLeaf(l)
      BY <2>2, <2>3, <2>6
    <3>2. n \in PathFromLeaf(m)
      BY <2>1, <2>3, <2>6, <3>1, TreeGeometry DEF CoveredOnce
    <3>3. CASE c \in nodes
      <4>1. Level(n) < Level(c)
        BY <2>1, <2>3, <3>2, <3>3 DEF AboveSources
      <4>2. Level(x) < Level(n)
        BY <2>1, <2>3, <2>4, <2>5, <3>1, <3>2 DEF PathsMeet
      <4> QED
        BY <2>4, <4>1, <4>2
    <3>4. CASE c \in Below(l, n) \union {n}
      <4>1. c \in PathFromLeaf(l)
        BY <2>1, <3>4 DEF Below
      <4> QED
        BY <2>3, <2>4, <2>5, <3>1, <4>1 DEF PathsMeet
    <3> QED
      BY <2>1, <2>3, <3>3, <3>4
  <2>7. CASE x \in t.intermediateNodes \ (Below(l, n) \union {n})
    <3>1. CASE c \in nodes
      BY <2>3, <2>7, <3>1 DEF AboveSources
    <3>2. CASE c \in Below(l, n) \union {n}
      <4>1. c \in PathFromLeaf(l) /\ Level(c) <= Level(n)
        BY <2>1, <2>4, <3>2 DEF Below
      <4>2. n \in PathFromLeaf(m)
        BY <2>1, <2>3, <2>5, <4>1 DEF PathsMeet
      <4>3. PathFromLeaf(m) \intersect t.intermediateNodes = {n}
        BY <2>1, <4>2 DEF Sound, OneSource
      <4> QED
        BY <2>3, <2>7, <4>3
    <3> QED
      BY <2>1, <2>3, <3>1, <3>2
  <2> QED
    BY <2>1, <2>3, <2>6, <2>7
<1> QED
  BY <1>1, <1>2

LEMMA UsesKeepsBehind ==
  ASSUME NEW t, Sound(t), NEW secrets, BehindRatchets(t, secrets),
         NEW l \in Leaf, NEW k \in RatchetKind, NEW g \in Nat, NEW result,
         Uses(t, l, k, g, result)
  PROVE  BehindRatchets(result.tree, secrets \union result.consumedSecrets)
<1> DEFINE r == t.ratchets[l][k]
           T == result.tree
<1>1. r \in Ratchet /\ r.generation \in Nat /\ r.unusedGenerations \subseteq Nat
  BY RatchetsOf DEF Sound
<1>2. \A x \in r.unusedGenerations : x < r.generation
  BY DEF Sound, UnusedBehind
<1>3. PICK r2 \in Ratchet, gens \in SUBSET Nat :
        /\ Stepped(r, g, r2, gens)
        /\ result.consumedSecrets = SecretsOf(l, k, gens)
        /\ \A m \in Leaf, j \in RatchetKind :
             T.ratchets[m][j] = IF m = l /\ j = k THEN r2 ELSE t.ratchets[m][j]
  BY UsesRatchets DEF Sound
<1> HIDE DEF T
<1>4. /\ r.generation <= r2.generation
      /\ \A x \in gens : x < r2.generation /\ x \notin r2.unusedGenerations
      /\ \A x \in r2.unusedGenerations : x \in r.unusedGenerations \/ x >= r.generation
  <2> HIDE DEF r
  <2> QED
    BY <1>1, <1>2, <1>3, SteppedFacts
<1>5. r2.generation \in Nat
  BY DEF Ratchet
<1> SUFFICES ASSUME NEW m \in Leaf, NEW j \in RatchetKind, NEW x \in Nat,
                    <<m, j, x>> \in secrets \union result.consumedSecrets
             PROVE  x < T.ratchets[m][j].generation /\ x \notin T.ratchets[m][j].unusedGenerations
  BY DEF BehindRatchets, T
<1>6. <<m, j, x>> \in secrets \/ (m = l /\ j = k /\ x \in gens)
  BY <1>3 DEF SecretsOf
<1>7. <<m, j, x>> \in secrets => x < t.ratchets[m][j].generation /\ x \notin t.ratchets[m][j].unusedGenerations
  BY DEF BehindRatchets
<1>8. CASE m # l \/ j # k
  BY <1>3, <1>6, <1>7, <1>8
<1>9. CASE m = l /\ j = k
  <2>1. x \in gens \/ (x < r.generation /\ x \notin r.unusedGenerations)
    BY <1>6, <1>7, <1>9
  <2>2. T.ratchets[m][j] = r2
    BY <1>3, <1>9
  <2> HIDE DEF r
  <2> QED
    BY <1>1, <1>4, <1>5, <2>1, <2>2
<1> QED
  BY <1>8, <1>9

\* A use drops from the tree only what it hands over as consumed.
LEMMA UsesDropsConsumed ==
  ASSUME NEW t, Sound(t), NEW l \in Leaf, NEW k \in RatchetKind, NEW g \in Nat, NEW result,
         Uses(t, l, k, g, result)
  PROVE  /\ t.intermediateNodes \ result.tree.intermediateNodes \subseteq result.consumedNodes
         /\ HeldSecrets(t) \ HeldSecrets(result.tree) \subseteq result.consumedSecrets
<1> DEFINE r == t.ratchets[l][k]
           T == result.tree
<1>1. t.intermediateNodes \ T.intermediateNodes \subseteq result.consumedNodes
  <2>1. CASE l \in t.leafNodes
    BY <2>1 DEF Uses, UpdateTreeWithLeafSecret
  <2>2. CASE l \notin t.leafNodes
    BY <2>2, DeriveEffect DEF Uses
  <2> QED
    BY <2>1, <2>2
<1>2. PICK r2 \in Ratchet, gens \in SUBSET Nat :
        /\ Stepped(r, g, r2, gens)
        /\ result.consumedSecrets = SecretsOf(l, k, gens)
        /\ \A m \in Leaf, j \in RatchetKind :
             T.ratchets[m][j] = IF m = l /\ j = k THEN r2 ELSE t.ratchets[m][j]
  BY UsesRatchets DEF Sound
<1>3. {r.generation} \union r.unusedGenerations
        \subseteq {r2.generation} \union r2.unusedGenerations \union gens
  <2>1. r \in Ratchet /\ \A x \in r.unusedGenerations : x < r.generation
    BY RatchetsOf DEF Sound, UnusedBehind
  <2> HIDE DEF r
  <2> QED
    BY <1>2, <2>1, SteppedFacts
<1>4. t.leafNodes \subseteq T.leafNodes /\ t.leafNodes \subseteq Leaf
  BY DEF Uses, Sound, Tree
<1> HIDE DEF T
<1>5. ASSUME NEW x \in HeldSecrets(t), x \notin HeldSecrets(T)
      PROVE  x \in result.consumedSecrets
  <2>1. PICK m, j, e :
          /\ m \in t.leafNodes /\ j \in RatchetKind
          /\ x = <<m, j, e>>
          /\ e = t.ratchets[m][j].generation \/ e \in t.ratchets[m][j].unusedGenerations
    BY HeldMeans
  <2>2. m \in Leaf /\ m \in T.leafNodes
    BY <1>4, <2>1
  <2>3. T.ratchets[m][j] = IF m = l /\ j = k THEN r2 ELSE t.ratchets[m][j]
    BY <1>2, <2>1, <2>2
  <2>4. e # T.ratchets[m][j].generation /\ e \notin T.ratchets[m][j].unusedGenerations
    BY <1>5, <2>1, <2>2, MeansHeld
  <2>5. m = l /\ j = k /\ e \in gens
    BY <1>3, <2>1, <2>3, <2>4
  <2> QED
    BY <1>2, <2>1, <2>5 DEF SecretsOf
<1> QED
  BY <1>1, <1>5 DEF T

-----------------------------------------------------------------------------
(* A generation is used at most once.                                      *)

\* Generation g is behind its ratchet and not retained.
Spent(t, l, k, g) ==
  /\ l \in t.leafNodes
  /\ g < t.ratchets[l][k].generation
  /\ g \notin t.ratchets[l][k].unusedGenerations

\* When ratchetToGeneration answers: a generation passed must be retained, a
\* later one within reach.
LEMMA WhenGranted ==
  ASSUME NEW t, Sound(t), NEW l \in Leaf, NEW k \in RatchetKind, NEW g \in Nat
  PROVE  LET r == t.ratchets[l][k]
         IN  RatchetToGeneration(t, l, k, g).ok
               <=> IF g < r.generation THEN g \in r.unusedGenerations
                                       ELSE g <= r.generation + MaximumForwardRatchetSteps
<1> DEFINE r == t.ratchets[l][k]
           init == UpdateTreeWithLeafSecret(t, l)
<1>1. init.ok /\ init.tree.ratchets = t.ratchets
  BY UpdateTreeShape
<1>2. r.generation \in Nat
  BY RatchetsOf DEF Sound
<1>3. CASE g < r.generation
  <2>1. RatchetToGeneration(t, l, k, g) = RatchetBack(init, l, k, g)
    BY <1>1, <1>2, <1>3 DEF RatchetToGeneration
  <2> HIDE DEF init
  <2>2. RatchetBack(init, l, k, g).ok = (init.ok /\ g \in r.unusedGenerations)
    BY <1>1 DEF RatchetBack
  <2> HIDE DEF r
  <2> QED
    BY <1>1, <1>3, <2>1, <2>2 DEF r
<1>4. CASE r.generation <= g
  <2>1. RatchetToGeneration(t, l, k, g) = RatchetForward(init, l, k, g)
    BY <1>1, <1>2, <1>4 DEF RatchetToGeneration
  <2> HIDE DEF init
  <2>2. RatchetForward(init, l, k, g).ok = (init.ok /\ RatchetUntil(r, g).ok)
    BY <1>1 DEF RatchetForward
  <2>3. ~(g < r.generation)
    BY <1>2, <1>4
  <2>4. RatchetUntil(r, g).ok = (g <= r.generation + MaximumForwardRatchetSteps)
    BY DEF RatchetUntil
  <2> HIDE DEF r
  <2> QED
    BY <1>1, <2>1, <2>2, <2>3, <2>4 DEF r
<1> QED
  BY <1>2, <1>3, <1>4

\* ratchetToGeneration refuses a spent generation.
LEMMA SpentRefused ==
  ASSUME NEW t, Sound(t), NEW l \in Leaf, NEW k \in RatchetKind, NEW g \in Nat, Spent(t, l, k, g)
  PROVE  ~ RatchetToGeneration(t, l, k, g).ok
  BY WhenGranted DEF Spent

\* A used generation is spent, and spent ones stay so.
LEMMA UsesSpends ==
  ASSUME NEW t, Sound(t), NEW l \in Leaf, NEW k \in RatchetKind, NEW g \in Nat, NEW result,
         Uses(t, l, k, g, result)
  PROVE  /\ Spent(result.tree, l, k, g)
         /\ \A m \in Leaf, j \in RatchetKind, x \in Nat :
              Spent(t, m, j, x) => Spent(result.tree, m, j, x)
<1> DEFINE r == t.ratchets[l][k]
<1>1. r \in Ratchet /\ r.generation \in Nat /\ \A x \in r.unusedGenerations : x < r.generation
  BY RatchetsOf DEF Sound, UnusedBehind
<1>2. PICK r2 \in Ratchet, gens \in SUBSET Nat :
        /\ Stepped(r, g, r2, gens)
        /\ \A m \in Leaf, j \in RatchetKind :
             result.tree.ratchets[m][j] = IF m = l /\ j = k THEN r2 ELSE t.ratchets[m][j]
  BY UsesRatchets DEF Sound
<1>3. /\ r.generation <= r2.generation /\ g < r2.generation /\ g \notin r2.unusedGenerations
      /\ \A x \in r2.unusedGenerations : x \in r.unusedGenerations \/ x >= r.generation
  <2> HIDE DEF r
  <2> QED
    BY <1>1, <1>2, SteppedFacts
<1>4. result.tree.leafNodes = t.leafNodes \union {l}
  BY DEF Uses
<1>5. Spent(result.tree, l, k, g)
  BY <1>2, <1>3, <1>4 DEF Spent
<1>6. ASSUME NEW m \in Leaf, NEW j \in RatchetKind, NEW x \in Nat, Spent(t, m, j, x)
      PROVE  Spent(result.tree, m, j, x)
  <2>1. CASE m # l \/ j # k
    BY <1>2, <1>4, <1>6, <2>1 DEF Spent
  <2>2. CASE m = l /\ j = k
    <3>1. x < r.generation /\ x \notin r.unusedGenerations
      BY <1>6, <2>2 DEF Spent
    <3>2. r2.generation \in Nat
      BY DEF Ratchet
    <3>3. x < r2.generation /\ x \notin r2.unusedGenerations
      <4> HIDE DEF r
      <4> QED
        BY <1>1, <1>3, <3>1, <3>2
    <3> QED
      BY <1>2, <1>4, <2>2, <3>3 DEF Spent
  <2> QED
    BY <2>1, <2>2
<1> QED
  BY <1>5, <1>6
=============================================================================
