------------------------------ MODULE TreeMath ------------------------------
(***************************************************************************)
(* The array representation of the binary trees of the library: leaf i is *)
(* node 2i, and the parents lie between their children.  The code          *)
(* (treemath.ts) computes with bit operations; the same functions are      *)
(* written here with arithmetic, and TreeBits checks that the two agree.   *)
(***************************************************************************)
EXTENDS Naturals, Sequences

Log2(x) == IF x = 0 THEN 0 ELSE CHOOSE k \in 0 .. x : 2^k <= x /\ x < 2^(k + 1)

\* The number of trailing one bits of x: x + 1 is an odd multiple of 2^level.
Level(x) == CHOOSE k \in 0 .. x : (x + 1) % 2^k = 0 /\ ((x + 1) \div 2^k) % 2 = 1

IsLeaf(nodeIndex) == nodeIndex % 2 = 0

LeafToNodeIndex(leafIndex) == 2 * leafIndex

NodeToLeafIndex(nodeIndex) == nodeIndex \div 2

LeafWidthOf(nodeWidth) == IF nodeWidth = 0 THEN 0 ELSE (nodeWidth - 1) \div 2 + 1

NodeWidthOf(leafWidth) == IF leafWidth = 0 THEN 0 ELSE 2 * (leafWidth - 1) + 1

RootFromNodeWidth(nodeWidth) == 2^Log2(nodeWidth) - 1

Root(leafWidth) == RootFromNodeWidth(NodeWidthOf(leafWidth))

LeftKeepsLevel(nodeIndex) == nodeIndex - 2^Level(nodeIndex)  \* mutant: shift by k, not k - 1

\* Left and Right of a leaf throw in the code; callers ask for parents only.
Left(nodeIndex) == nodeIndex - 2^(Level(nodeIndex) - 1)

Right(nodeIndex) == nodeIndex + 2^(Level(nodeIndex) - 1)

\* The root has no parent (the code throws); every other node has.
Parent(nodeIndex) ==
  LET k == Level(nodeIndex)
      b == (nodeIndex \div 2^(k + 1)) % 2
  IN  IF b = 0 THEN nodeIndex + 2^k ELSE nodeIndex - 2^k

SiblingIsUncle(x) == IF x < Parent(x) THEN Left(Parent(x)) ELSE Right(Parent(x))  \* mutant

Sibling(x) == IF x < Parent(x) THEN Right(Parent(x)) ELSE Left(Parent(x))

\* The proper ancestors of a node, from its parent to the root.
DirectPath(nodeIndex, leafWidth) ==
  LET height == Level(Root(leafWidth)) - Level(nodeIndex)
      up[i \in 0 .. height] == IF i = 0 THEN nodeIndex ELSE Parent(up[i - 1])
  IN  [i \in 1 .. height |-> up[i]]

\* The siblings of the node and of its direct path without the root.
Copath(nodeIndex, leafWidth) ==
  LET d == <<nodeIndex>> \o DirectPath(nodeIndex, leafWidth)
  IN  [i \in 1 .. Len(d) - 1 |-> Sibling(d[i])]

IsAncestor(child, ancestor, nodeWidth) ==
  \E i \in DOMAIN DirectPath(child, LeafWidthOf(nodeWidth)) :
     DirectPath(child, LeafWidthOf(nodeWidth))[i] = ancestor
=============================================================================
