------------------------- MODULE TreeKEM_proofs -------------------------
(***************************************************************************)
(* The proofs about TreeKEM: what a commit makes of a tree, said once for  *)
(* every node, then what its followers and newcomers make of it, then the  *)
(* invariants of the specification.  What the operators of RatchetTree do  *)
(* is proved in Algorithms_proofs.                                         *)
(***************************************************************************)
EXTENDS TreeKEM, Algorithms_proofs

LEMMA AddLeafNodesIs ==
  ASSUME NEW t, NEW h, IsTreeOf(t, h), NEW added, Len(added) \in Nat,
         \A i \in 1 .. Len(added) : IsNode(added[i]) /\ added[i] # Blank
  PROVE  \E place : Grown(t, AddLeafNodes(t, added), added, Len(added), place)
<1> DEFINE n == Len(added)
           grown[i \in 0 .. n] == IF i = 0 THEN t ELSE AddLeafNode(grown[i - 1], added[i])
<1>1. grown = [i \in 0 .. n |-> IF i = 0 THEN t ELSE AddLeafNode(grown[i - 1], added[i])]
  <2>1. \E f : f = [i \in 0 .. n |-> IF i = 0 THEN t ELSE AddLeafNode(f[i - 1], added[i])]
    <3>1. \E f : Growing(f, t, added, Len(added))
      BY GrowthExists
    <3> QED
      BY <3>1 DEF Growing
  <2> QED
    BY <2>1
<1>2. AddLeafNodes(t, added) = grown[n]
  BY DEF AddLeafNodes
<1> HIDE DEF grown
<1>3. \A i \in 0 .. n : grown[i] = IF i = 0 THEN t ELSE AddLeafNode(grown[i - 1], added[i])
  BY <1>1
<1> DEFINE S == {m \in Nat : m <= n => \E place : Grown(t, grown[m], added, m, place)}
<1>4. 0 \in S
  <2>1. grown[0] = t
    BY <1>3
  <2>2. Grown(t, t, added, 0, <<>>)
    <3>1. h \in Nat
      BY TreeShape
    <3>2. ASSUME NEW x \in Nat, At(t, x) # Blank  PROVE Unmerging(At(t, x), At(t, x), LeavesBelow(<<>>, 0, x))
      <4>1. LeavesBelow(<<>>, 0, x) = {}
        BY DEF LeavesBelow
      <4>2. At(t, x).unmergedLeaves \in Seq(Nat)
        BY <3>2, TreeShape DEF At, IsNode
      <4>3. Lengthened(At(t, x).unmergedLeaves, At(t, x).unmergedLeaves, {})
        BY <4>2 DEF Lengthened
      <4> QED
        BY <3>2, <4>1, <4>3 DEF Unmerging
    <3>3. \A i \in 1 .. 0 : FALSE
      OBVIOUS
    <3>4. \E k \in Nat : IsTreeOf(t, k)
      BY <3>1
    <3>5. \A x \in Nat : IF At(t, x) = Blank THEN At(t, x) = Blank
                          ELSE Unmerging(At(t, x), At(t, x), LeavesBelow(<<>>, 0, x))
      BY <3>2
    <3>6. Packed(t, <<>>, 0)
      BY <3>3 DEF Packed
    <3> QED
      BY <3>3, <3>4, <3>5, <3>6 DEF Grown
  <2> QED
    BY <2>1, <2>2
<1>5. ASSUME NEW m \in Nat, m \in S  PROVE m + 1 \in S
  <2> SUFFICES ASSUME m + 1 <= n  PROVE \E place : Grown(t, grown[m + 1], added, m + 1, place)
    OBVIOUS
  <2>1. PICK place : Grown(t, grown[m], added, m, place)
    BY <1>5
  <2>2. grown[m + 1] = AddLeafNode(grown[m], added[m + 1])
    BY <1>3
  <2>3. \A i \in 1 .. m + 1 : IsNode(added[i]) /\ added[i] # Blank
    OBVIOUS
  <2> QED
    BY <2>1, <2>2, <2>3, GrownOnce
<1>6. Nat \subseteq S
  <2> HIDE DEF S
  <2> QED
    BY <1>4, <1>5, InductionOnSet
<1>7. n \in Nat /\ n \in S
  BY <1>6
<1> QED
  BY <1>2, <1>7

UpdatedAt(updated) == {LeafToNodeIndex(u.leafIndex) : u \in updated}

RemovedAt(removed) == {LeafToNodeIndex(l) : l \in removed}

\* Proposals as a commit can have them: for the tree, and not for its last leaf.
ForTheTree(t, h, updated, removed, added) ==
  /\ IsTreeOf(t, h)
  /\ \A u \in updated : /\ u.leafIndex \in Nat /\ LeafToNodeIndex(u.leafIndex) \in Full(h)
                        /\ t[LeafToNodeIndex(u.leafIndex)] # Blank
                        /\ IsNode(u.leafNode) /\ u.leafNode # Blank
  /\ removed \subseteq Nat /\ RemovedAt(removed) \subseteq Full(h)
  /\ \A u \in updated : u.leafIndex \notin removed
  /\ \E x \in Full(h) : IsLeaf(x) /\ t[x] # Blank /\ x \notin RemovedAt(removed)
  /\ Len(added) \in Nat /\ \A i \in 1 .. Len(added) : IsNode(added[i]) /\ added[i] # Blank

\* The tree w is t with the proposals applied, the added leaf nodes at these places.
Mutated(t, w, updated, removed, added, place) ==
  /\ \E k \in Nat : IsTreeOf(w, k)
  /\ \A i \in 1 .. Len(added) :
       /\ place[i] \in Nat /\ IsLeaf(place[i]) /\ At(w, place[i]) = added[i]
       /\ place[i] \notin UpdatedAt(updated)
       /\ At(t, place[i]) = Blank \/ place[i] \in RemovedAt(removed)
  /\ \A i, j \in 1 .. Len(added) : place[i] = place[j] => i = j
  /\ Packed(w, place, Len(added))
  /\ \A x \in UpdatedAt(updated) : \E u \in updated : LeafToNodeIndex(u.leafIndex) = x /\ At(w, x) = u.leafNode
  /\ \A x \in Nat :
       (\A i \in 1 .. Len(added) : place[i] # x)
         => /\ x \notin UpdatedAt(updated) /\ (\E n \in UpdatedAt(updated) \union RemovedAt(removed) : n \in Block(x))
                 => At(w, x) = Blank
            /\ (\A n \in UpdatedAt(updated) \union RemovedAt(removed) : n \notin Block(x))
                 => IF At(t, x) = Blank THEN At(w, x) = Blank
                    ELSE Unmerging(At(t, x), At(w, x), LeavesBelow(place, Len(added), x))

LEMMA UpdatedNodesAre ==
  ASSUME NEW updated
  PROVE  /\ DOMAIN UpdatedNodes(updated) = UpdatedAt(updated)
         /\ \A x \in UpdatedAt(updated) :
              \E u \in updated : LeafToNodeIndex(u.leafIndex) = x /\ UpdatedNodes(updated)[x] = u.leafNode
<1>1. DOMAIN UpdatedNodes(updated) = UpdatedAt(updated)
  BY DEF UpdatedNodes, UpdatedAt
<1>2. ASSUME NEW x \in UpdatedAt(updated)
      PROVE  \E u \in updated : LeafToNodeIndex(u.leafIndex) = x /\ UpdatedNodes(updated)[x] = u.leafNode
  <2> DEFINE v == CHOOSE u \in updated : LeafToNodeIndex(u.leafIndex) = x
  <2>1. v \in updated /\ LeafToNodeIndex(v.leafIndex) = x
    BY DEF UpdatedAt
  <2>2. UpdatedNodes(updated)[x] = v.leafNode
    BY DEF UpdatedNodes, UpdatedAt
  <2> HIDE DEF v
  <2> QED
    BY <2>1, <2>2
<1> QED
  BY <1>1, <1>2

LEMMA MutationIs ==
  ASSUME NEW t, NEW h, NEW updated, NEW removed, NEW added, ForTheTree(t, h, updated, removed, added)
  PROVE  \E place : Mutated(t, ApplyTreeMutations(t, updated, removed, added), updated, removed, added, place)
<1> DEFINE f == UpdatedNodes(updated)
           u1 == UpdateLeafNodes(t, f)
           r == RemoveLeafNodes(u1, removed)
           w == AddLeafNodes(r, added)
           n == Len(added)
           up == UpdatedAt(updated)
           gone == RemovedAt(removed)
<1>0. ApplyTreeMutations(t, updated, removed, added) = w
  BY DEF ApplyTreeMutations
<1>1. /\ h \in Nat /\ DOMAIN t = Full(h) /\ Full(h) \subseteq Nat /\ (\A x \in Full(h) : IsNode(t[x]))
      /\ IsTreeOf(t, h)
  BY TreeShape DEF ForTheTree
<1>2. /\ DOMAIN f = up
      /\ \A x \in up : \E u \in updated : LeafToNodeIndex(u.leafIndex) = x /\ f[x] = u.leafNode
  BY UpdatedNodesAre
<1> HIDE DEF f
<1>3. \A x \in up : /\ x \in Full(h) /\ x \in Nat /\ IsLeaf(x) /\ Block(x) = {x} /\ t[x] # Blank
                    /\ IsNode(f[x]) /\ f[x] # Blank
  <2> TAKE x \in up
  <2>1. PICK u \in updated : LeafToNodeIndex(u.leafIndex) = x /\ f[x] = u.leafNode
    BY <1>2
  <2> QED
    BY <2>1, LeafNumbers DEF ForTheTree
<1>4. \A x \in gone : x \in Full(h) /\ x \in Nat /\ IsLeaf(x) /\ Block(x) = {x} /\ \E l \in removed : x = LeafToNodeIndex(l)
  BY LeafNumbers DEF ForTheTree, RemovedAt
<1>5. up \intersect gone = {}
  <2> SUFFICES ASSUME NEW u \in updated, NEW l \in removed, LeafToNodeIndex(u.leafIndex) = LeafToNodeIndex(l)
               PROVE  FALSE
    BY DEF UpdatedAt, RemovedAt
  <2>1. u.leafIndex \in Nat /\ l \in Nat /\ u.leafIndex \notin removed
    BY DEF ForTheTree
  <2>2. u.leafIndex = l
    BY <2>1, LeafNumbers
  <2> QED
    BY <2>1, <2>2
<1>6. LeavesSet(t, h, f, u1)
  BY <1>1, <1>2, <1>3, UpdateLeafNodesIs
<1> HIDE DEF u1
<1>7. IsTreeOf(u1, h) /\ DOMAIN u1 = Full(h)
  BY <1>6, TreeShape DEF LeavesSet
<1>8. \A x \in Full(h) :
        u1[x] = IF x \in up THEN f[x] ELSE IF \E y \in up : y \in Block(x) THEN Blank ELSE t[x]
  BY <1>2, <1>6 DEF LeavesSet
<1>9. LeavesRemoved(u1, h, removed, r)
  <2>1. removed \subseteq Nat /\ \A l \in removed : LeafToNodeIndex(l) \in Full(h)
    BY DEF ForTheTree, RemovedAt
  <2>2. PICK x \in Full(h) : IsLeaf(x) /\ t[x] # Blank /\ x \notin gone
    BY DEF ForTheTree
  <2>3. Block(x) = {x}
    BY <1>1, <2>2, NodeBasics
  <2>4. \A l \in removed : LeafToNodeIndex(l) \notin Block(x)
    BY <2>2, <2>3 DEF RemovedAt
  <2>5. u1[x] # Blank
    BY <1>3, <1>8, <2>2, <2>3
  <2>6. \E y \in Full(h) : u1[y] # Blank /\ \A l \in removed : LeafToNodeIndex(l) \notin Block(y)
    BY <2>4, <2>5
  <2> QED
    BY <1>7, <2>1, <2>6, RemoveLeafNodesIs
<1> HIDE DEF r
<1>10. PICK k \in 0 .. h : IsTreeOf(r, k)
  BY <1>9 DEF LeavesRemoved
<1>11. \A x \in Nat : At(r, x) = IF \E y \in gone : y \in Block(x) THEN Blank ELSE At(u1, x)
  BY <1>9 DEF LeavesRemoved, RemovedAt
<1>12. \A x \in Nat : At(u1, x) = IF x \in up THEN f[x] ELSE IF \E y \in up : y \in Block(x) THEN Blank ELSE At(t, x)
  <2> TAKE x \in Nat
  <2>1. CASE x \in Full(h)
    BY <1>1, <1>7, <1>8, <2>1 DEF At
  <2>2. CASE x \notin Full(h)
    BY <1>1, <1>3, <1>7, <2>2 DEF At
  <2> QED
    BY <2>1, <2>2
<1>13. PICK place : Grown(r, w, added, n, place)
  BY <1>10, AddLeafNodesIs DEF ForTheTree
<1> HIDE DEF w
<1>14. \E j \in Nat : IsTreeOf(w, j)
  BY <1>13 DEF Grown
<1>15. \A i \in 1 .. n : /\ place[i] \in Nat /\ IsLeaf(place[i])
                         /\ At(r, place[i]) = Blank /\ At(w, place[i]) = added[i]
  BY <1>13 DEF Grown
<1>16. \A i, j \in 1 .. n : place[i] = place[j] => i = j
  BY <1>13 DEF Grown
<1>24. Packed(w, place, n)
  BY <1>13 DEF Grown
<1>17. \A x \in Nat :
         (\A i \in 1 .. n : place[i] # x)
           => IF At(r, x) = Blank THEN At(w, x) = Blank
              ELSE Unmerging(At(r, x), At(w, x), LeavesBelow(place, n, x))
  BY <1>13 DEF Grown
<1>18. \A x \in up : At(r, x) = f[x] /\ At(r, x) # Blank
  BY <1>3, <1>5, <1>11, <1>12
<1>19. \A i \in 1 .. n : place[i] \notin up /\ (At(t, place[i]) = Blank \/ place[i] \in gone)
  <2> TAKE i \in 1 .. n
  <2>1. place[i] \in Nat /\ Block(place[i]) = {place[i]} /\ At(r, place[i]) = Blank
    BY <1>15, LeafNodesNumber
  <2>2. place[i] \notin up
    BY <1>18, <2>1
  <2> QED
    BY <1>11, <1>12, <2>1, <2>2
<1>20. \A x \in up : \E u \in updated : LeafToNodeIndex(u.leafIndex) = x /\ At(w, x) = u.leafNode
  <2> TAKE x \in up
  <2>1. x \in Nat /\ Block(x) = {x} /\ \A i \in 1 .. n : place[i] # x
    BY <1>3, <1>19
  <2>2. LeavesBelow(place, n, x) = {}
    BY <2>1 DEF LeavesBelow
  <2>3. At(w, x) = At(r, x)
    BY <1>17, <1>18, <2>1, <2>2 DEF Unmerging
  <2> QED
    BY <1>2, <1>18, <2>3
<1>21. ASSUME NEW x \in Nat, \A i \in 1 .. n : place[i] # x, x \notin up, \E y \in up \union gone : y \in Block(x)
       PROVE  At(w, x) = Blank
  <2>1. At(r, x) = Blank
    BY <1>11, <1>12, <1>21
  <2> QED
    BY <1>17, <1>21, <2>1
<1>22. ASSUME NEW x \in Nat, \A i \in 1 .. n : place[i] # x, \A y \in up \union gone : y \notin Block(x)
       PROVE  IF At(t, x) = Blank THEN At(w, x) = Blank
              ELSE Unmerging(At(t, x), At(w, x), LeavesBelow(place, n, x))
  <2>1. x \notin up
    BY <1>3, <1>22
  <2>2. At(r, x) = At(t, x)
    BY <1>11, <1>12, <1>22, <2>1
  <2> QED
    BY <1>17, <1>22, <2>2
<1>23. Mutated(t, w, updated, removed, added, place)
  BY <1>14, <1>15, <1>16, <1>19, <1>20, <1>21, <1>22, <1>24 DEF Mutated
<1> QED
  BY <1>0, <1>23

-----------------------------------------------------------------------------
(***************************************************************************)
(* The tree with the new path of a commit, as its sender makes it and as   *)
(* the others rebuild it.                                                  *)
(***************************************************************************)
LEMMA KeysAreNotEmpty ==
  \A e, i : /\ PathKey(e, i) # NoKey /\ UpdateKey(e, i) # NoKey /\ PackageKey(e, i) # NoKey
            /\ PathKey(e, i)[2] = e /\ UpdateKey(e, i)[2] = e /\ PackageKey(e, i)[2] = e
BY DEF PathKey, UpdateKey, PackageKey, NoKey

LEMMA NewNodes ==
  ASSUME NEW key, key # NoKey, NEW c
  PROVE  /\ IsNode(LeafNode(key, c)) /\ IsNode(ParentNode(key))
         /\ LeafNode(key, c) # Blank /\ ParentNode(key) # Blank
         /\ LeafNode(key, c) = [key |-> key, unmergedLeaves |-> <<>>, client |-> c, parentHash |-> NoHash]
         /\ ParentNode(key) = [key |-> key, unmergedLeaves |-> <<>>, client |-> Nobody, parentHash |-> NoHash]
BY BlankIsNode DEF LeafNode, ParentNode, IsNode

PathInserted(t, h, s, leafNode, nodes, keys, p) ==
  /\ IsTreeOf(p, h)
  /\ p[s] = leafNode
  /\ \A i \in DOMAIN nodes : p[nodes[i]] = ParentNode(keys[i])
  /\ \A x \in Full(h) : x # s /\ (\A i \in DOMAIN nodes : nodes[i] # x)
                          => p[x] = IF s \in Block(x) THEN Blank ELSE t[x]

LEMMA AscendingIsInjective ==
  ASSUME NEW h \in Nat, NEW s, NEW nodes, Ascending(h, s, nodes)
  PROVE  \A i, j \in DOMAIN nodes : nodes[i] = nodes[j] => i = j
<1> SUFFICES ASSUME NEW i \in DOMAIN nodes, NEW j \in DOMAIN nodes, nodes[i] = nodes[j]  PROVE i = j
  OBVIOUS
<1>1. i \in Nat /\ j \in Nat
  BY DEF Ascending
<1>2. Level(nodes[i]) \in Nat
  BY NodeOfTree, NodeBasics DEF Ascending
<1>3. ~(i < j) /\ ~(j < i)
  <2>1. \A a, b \in DOMAIN nodes : a < b => Level(nodes[a]) < Level(nodes[b])
    BY DEF Ascending
  <2> QED
    BY <1>2, <2>1
<1> QED
  BY <1>1, <1>3

LEMMA InsertPathKeysIs ==
  ASSUME NEW t, NEW h, IsTreeOf(t, h), NEW l, LeafToNodeIndex(l) \in Full(h),
         NEW nodes, Ascending(h, LeafToNodeIndex(l), nodes),
         NEW leafNode, IsNode(leafNode), NEW keys, \A i \in DOMAIN nodes : keys[i] # NoKey
  PROVE  PathInserted(t, h, LeafToNodeIndex(l), leafNode, nodes, keys, InsertPathKeys(t, l, leafNode, nodes, keys))
<1> DEFINE s == LeafToNodeIndex(l)
           p == InsertPathKeys(t, l, leafNode, nodes, keys)
           f == [n \in {s} |-> leafNode]
           u == UpdateLeafNodes(t, f)
           N == ToSet(nodes)
           new == [n \in N |-> ParentNode(keys[CHOOSE i \in DOMAIN nodes : nodes[i] = n])]
<1>1. p = new ++ u
  BY DEF InsertPathKeys
<1>2. h \in Nat /\ DOMAIN t = Full(h)
  BY TreeShape
<1>3. DOMAIN f = {s} /\ f[s] = leafNode
  OBVIOUS
<1> HIDE DEF s, f, p
<1>4. LeavesSet(t, h, f, u)
  BY <1>3, UpdateLeafNodesIs DEF s
<1> HIDE DEF u
<1>5. IsTreeOf(u, h) /\ DOMAIN u = Full(h) /\ \A x \in Full(h) : IsNode(u[x])
  BY <1>4, TreeShape DEF LeavesSet
<1>6. \A x \in Full(h) : u[x] = IF x = s THEN leafNode ELSE IF s \in Block(x) THEN Blank ELSE t[x]
  BY <1>3, <1>4 DEF LeavesSet
<1>7. N = {nodes[i] : i \in DOMAIN nodes} /\ N \subseteq Full(h) /\ s \notin N /\ s \in Full(h)
  BY DEF ToSet, Ascending, s
<1>8. DOMAIN new = N
  OBVIOUS
<1>9. \A i \in DOMAIN nodes : new[nodes[i]] = ParentNode(keys[i])
  <2> TAKE i \in DOMAIN nodes
  <2>1. (CHOOSE j \in DOMAIN nodes : nodes[j] = nodes[i]) = i
    <3>1. \A j, k \in DOMAIN nodes : nodes[j] = nodes[k] => j = k
      BY <1>2, AscendingIsInjective
    <3> QED
      BY <3>1
  <2>2. nodes[i] \in N
    BY <1>7
  <2> QED
    BY <2>1, <2>2
<1> HIDE DEF N, new
<1>10. p = [x \in Full(h) |-> IF x \in N THEN new[x] ELSE u[x]]
  <2>1. N \union Full(h) = Full(h)
    BY <1>7
  <2>2. p = [x \in N \union Full(h) |-> IF x \in N THEN new[x] ELSE u[x]]
    BY <1>1, <1>5, <1>8 DEF ++
  <2> QED
    BY <2>1, <2>2
<1>11. \A x \in Full(h) : p[x] = IF x \in N THEN new[x] ELSE u[x]
  BY <1>10
<1>12. \A x \in Full(h) : IsNode(p[x])
  <2> TAKE x \in Full(h)
  <2>1. CASE x \in N
    <3>1. PICK i \in DOMAIN nodes : x = nodes[i]
      BY <1>7, <2>1
    <3>2. p[x] = ParentNode(keys[i])
      BY <1>9, <1>11, <2>1, <3>1
    <3> QED
      BY <3>2, NewNodes
  <2>2. CASE x \notin N
    BY <1>5, <1>11, <2>2
  <2> QED
    BY <2>1, <2>2
<1>13. IsTreeOf(p, h)
  <2>1. p = [x \in Full(h) |-> p[x]]
    BY <1>10
  <2> QED
    BY <1>2, <1>12, <2>1 DEF IsTreeOf
<1>14. p[s] = leafNode
  BY <1>6, <1>7, <1>11
<1>15. \A i \in DOMAIN nodes : p[nodes[i]] = ParentNode(keys[i])
  BY <1>7, <1>9, <1>11
<1>16. \A x \in Full(h) : x # s /\ (\A i \in DOMAIN nodes : nodes[i] # x)
                            => p[x] = IF s \in Block(x) THEN Blank ELSE t[x]
  BY <1>6, <1>7, <1>11
<1> QED
  BY <1>13, <1>14, <1>15, <1>16 DEF PathInserted, p, s

WithParentHash(node, hash) ==
  [key |-> node.key, unmergedLeaves |-> node.unmergedLeaves, client |-> node.client, parentHash |-> hash]

HashesInserted(p, h, hashes, N, q) ==
  /\ IsTreeOf(q, h)
  /\ \A x \in Full(h) : q[x] = IF x \in N THEN WithParentHash(p[x], CalculateParentHash(p, hashes, x)) ELSE p[x]

LEMMA InsertParentHashesIs ==
  ASSUME NEW p, NEW h, IsTreeOf(p, h), NEW hashes, NEW N, N \subseteq Full(h), \A n \in N : p[n] # Blank
  PROVE  HashesInserted(p, h, hashes, N, InsertParentHashes(p, hashes, N))
<1> DEFINE q == InsertParentHashes(p, hashes, N)
           H(n) == CalculateParentHash(p, hashes, n)
           f == [n \in N |-> [p[n] EXCEPT !.parentHash = H(n)]]
<1>1. h \in Nat /\ DOMAIN p = Full(h) /\ \A x \in Full(h) : IsNode(p[x])
  BY TreeShape
<1>2. q = f ++ p
  BY DEF InsertParentHashes
<1>3. DOMAIN f = N /\ \A x \in N : f[x] = WithParentHash(p[x], H(x))
  <2> SUFFICES ASSUME NEW x \in N  PROVE [p[x] EXCEPT !.parentHash = H(x)] = WithParentHash(p[x], H(x))
    OBVIOUS
  <2>1. p[x] = [key |-> p[x].key, unmergedLeaves |-> p[x].unmergedLeaves, client |-> p[x].client,
                parentHash |-> p[x].parentHash]
    BY <1>1 DEF IsNode
  <2> HIDE DEF H
  <2> QED
    BY <2>1 DEF WithParentHash
<1> HIDE DEF f, H
<1>4. q = [x \in Full(h) |-> IF x \in N THEN f[x] ELSE p[x]]
  <2>1. N \union Full(h) = Full(h)
    OBVIOUS
  <2>2. q = [x \in N \union Full(h) |-> IF x \in N THEN f[x] ELSE p[x]]
    BY <1>1, <1>2, <1>3 DEF ++
  <2> QED
    BY <2>1, <2>2
<1> HIDE DEF q
<1>5. \A x \in Full(h) : q[x] = IF x \in N THEN WithParentHash(p[x], H(x)) ELSE p[x]
  BY <1>3, <1>4
<1>6. ASSUME NEW x \in N  PROVE IsNode(WithParentHash(p[x], H(x)))
  <2> DEFINE w == WithParentHash(p[x], H(x))
  <2>1. w.key = p[x].key /\ w.unmergedLeaves = p[x].unmergedLeaves /\ w.client = p[x].client /\ w.parentHash = H(x)
    BY DEF WithParentHash
  <2>2. w = [key |-> w.key, unmergedLeaves |-> w.unmergedLeaves, client |-> w.client, parentHash |-> w.parentHash]
    BY DEF WithParentHash
  <2>3. IsNode(p[x]) /\ p[x] # Blank
    BY <1>1
  <2> HIDE DEF w
  <2>4. IsNode(w)
    BY <2>1, <2>2, <2>3 DEF IsNode
  <2> QED
    BY <2>4 DEF w
<1>7. \A x \in Full(h) : IsNode(q[x])
  BY <1>1, <1>5, <1>6
<1>8. q = [x \in Full(h) |-> q[x]]
  BY <1>4
<1> QED
  BY <1>1, <1>5, <1>7, <1>8 DEF HashesInserted, IsTreeOf, q, H

PathOf(t, l) == NodesOf(FilteredDirectPath(l, t))

\* The tree a commit of client c at leaf l makes of t, and what the others make
\* of theirs with the leaf node and the keys they are sent.
PathMade(t, l, c, e) ==
  InsertParentHashes(InsertPathKeys(t, l, LeafNode(PathKey(e, 0), c), PathOf(t, l),
                                    [i \in DOMAIN PathOf(t, l) |-> PathKey(e, i)]),
                     AllHashes(t), ToSet(PathOf(t, l)) \union {LeafToNodeIndex(l)})

PathRebuilt(t, l, leafNode, keys) ==
  InsertParentHashes(InsertPathKeys(t, l, leafNode, PathOf(t, l), keys), AllHashes(t), ToSet(PathOf(t, l)))

NewPath(t, h, s, nodes, c, e, q) ==
  /\ IsTreeOf(q, h)
  /\ q[s] = [key |-> PathKey(e, 0), unmergedLeaves |-> <<>>, client |-> c, parentHash |-> q[s].parentHash]
  /\ \A i \in DOMAIN nodes :
       q[nodes[i]] = [key |-> PathKey(e, i), unmergedLeaves |-> <<>>, client |-> Nobody,
                      parentHash |-> q[nodes[i]].parentHash]
  /\ \A x \in Full(h) : x # s /\ (\A i \in DOMAIN nodes : nodes[i] # x)
                          => q[x] = IF s \in Block(x) THEN Blank ELSE t[x]

LEMMA PathMadeIs ==
  ASSUME NEW t, NEW h, IsTreeOf(t, h), NEW l \in Nat, LeafToNodeIndex(l) \in Full(h), NEW c, NEW e
  PROVE  NewPath(t, h, LeafToNodeIndex(l), PathOf(t, l), c, e, PathMade(t, l, c, e))
<1> DEFINE s == LeafToNodeIndex(l)
           nodes == PathOf(t, l)
           leafNode == LeafNode(PathKey(e, 0), c)
           keys == [i \in DOMAIN nodes |-> PathKey(e, i)]
           p == InsertPathKeys(t, l, leafNode, nodes, keys)
           N == ToSet(nodes) \union {s}
           q == PathMade(t, l, c, e)
<1>1. Ascending(h, s, nodes)
  BY FilteredPathIs DEF PathOf
<1>2. q = InsertParentHashes(p, AllHashes(t), N)
  BY DEF PathMade
<1>3. \A i \in DOMAIN nodes : keys[i] = PathKey(e, i) /\ keys[i] # NoKey
  BY KeysAreNotEmpty
<1>4. IsNode(leafNode) /\ leafNode # Blank
      /\ leafNode = [key |-> PathKey(e, 0), unmergedLeaves |-> <<>>, client |-> c, parentHash |-> NoHash]
  BY KeysAreNotEmpty, NewNodes
<1> HIDE DEF s, nodes, leafNode, keys, q
<1>5. PathInserted(t, h, s, leafNode, nodes, keys, p)
  BY <1>1, <1>3, <1>4, InsertPathKeysIs DEF s
<1> HIDE DEF p
<1>6. IsTreeOf(p, h) /\ p[s] = leafNode /\ \A i \in DOMAIN nodes : p[nodes[i]] = ParentNode(keys[i])
  BY <1>5 DEF PathInserted
<1>7. \A x \in Full(h) : x # s /\ (\A i \in DOMAIN nodes : nodes[i] # x)
                          => p[x] = IF s \in Block(x) THEN Blank ELSE t[x]
  BY <1>5 DEF PathInserted
<1>8. ToSet(nodes) = {nodes[i] : i \in DOMAIN nodes}
  BY DEF ToSet
<1>9. N \subseteq Full(h)
  BY <1>1, <1>8 DEF Ascending, s
<1>10. \A i \in DOMAIN nodes : p[nodes[i]] # Blank
         /\ p[nodes[i]] = [key |-> PathKey(e, i), unmergedLeaves |-> <<>>, client |-> Nobody, parentHash |-> NoHash]
  <2> TAKE i \in DOMAIN nodes
  <2>1. p[nodes[i]] = ParentNode(keys[i]) /\ keys[i] # NoKey /\ keys[i] = PathKey(e, i)
    BY <1>3, <1>6
  <2>2. p[nodes[i]] = ParentNode(PathKey(e, i)) /\ PathKey(e, i) # NoKey
    BY <2>1
  <2>3. ParentNode(PathKey(e, i)) # Blank
    BY <2>2, NewNodes
  <2>4. ParentNode(PathKey(e, i)) = [key |-> PathKey(e, i), unmergedLeaves |-> <<>>, client |-> Nobody, parentHash |-> NoHash]
    BY DEF ParentNode
  <2> QED
    BY <2>2, <2>3, <2>4
<1>11. \A x \in N : p[x] # Blank
  BY <1>4, <1>6, <1>8, <1>10
<1>12. HashesInserted(p, h, AllHashes(t), N, q)
  BY <1>2, <1>6, <1>9, <1>11, InsertParentHashesIs
<1>13. \A x \in Full(h) : q[x] = IF x \in N THEN WithParentHash(p[x], CalculateParentHash(p, AllHashes(t), x)) ELSE p[x]
  BY <1>12 DEF HashesInserted
<1>14. q[s] = [key |-> PathKey(e, 0), unmergedLeaves |-> <<>>, client |-> c, parentHash |-> q[s].parentHash]
  <2>1. q[s] = WithParentHash(leafNode, CalculateParentHash(p, AllHashes(t), s))
    BY <1>6, <1>9, <1>13
  <2> QED
    BY <1>4, <2>1 DEF WithParentHash
<1>15. ASSUME NEW i \in DOMAIN nodes
       PROVE  q[nodes[i]] = [key |-> PathKey(e, i), unmergedLeaves |-> <<>>, client |-> Nobody,
                             parentHash |-> q[nodes[i]].parentHash]
  <2>1. nodes[i] \in N
    BY <1>8
  <2>2. q[nodes[i]] = WithParentHash(p[nodes[i]], CalculateParentHash(p, AllHashes(t), nodes[i]))
    BY <1>9, <1>13, <2>1
  <2> DEFINE hash == CalculateParentHash(p, AllHashes(t), nodes[i])
             node == p[nodes[i]]
             made == q[nodes[i]]
  <2>3. /\ made = WithParentHash(node, hash)
        /\ node = [key |-> PathKey(e, i), unmergedLeaves |-> <<>>, client |-> Nobody, parentHash |-> NoHash]
    BY <1>10, <2>2
  <2> HIDE DEF hash, node, made
  <2>4. made = [key |-> PathKey(e, i), unmergedLeaves |-> <<>>, client |-> Nobody, parentHash |-> hash]
    BY <2>3 DEF WithParentHash
  <2>5. made.parentHash = hash
    BY <2>4
  <2>6. made = [key |-> PathKey(e, i), unmergedLeaves |-> <<>>, client |-> Nobody, parentHash |-> made.parentHash]
    BY <2>4, <2>5
  <2> QED
    BY <2>6 DEF made
<1>16. ASSUME NEW x \in Full(h), x # s, \A i \in DOMAIN nodes : nodes[i] # x
       PROVE  q[x] = IF s \in Block(x) THEN Blank ELSE t[x]
  BY <1>7, <1>8, <1>13, <1>16
<1>17. IsTreeOf(q, h)
  BY <1>12 DEF HashesInserted
<1>18. NewPath(t, h, s, nodes, c, e, q)
  BY <1>14, <1>15, <1>16, <1>17 DEF NewPath
<1> QED
  BY <1>18 DEF s, nodes, q

\* The others, whose leaf of the sender may be another, come to the sender's tree.
LEMMA SamePath ==
  ASSUME NEW t, NEW u, NEW h, IsTreeOf(t, h), IsTreeOf(u, h),
         NEW l \in Nat, LeafToNodeIndex(l) \in Full(h), OffPath(h, LeafToNodeIndex(l), t, u),
         NEW c, NEW e, NEW keys, \A i \in DOMAIN PathOf(t, l) : keys[i] = PathKey(e, i)
  PROVE  PathRebuilt(u, l, PathMade(t, l, c, e)[LeafToNodeIndex(l)], keys) = PathMade(t, l, c, e)
<1> DEFINE s == LeafToNodeIndex(l)
           nodes == PathOf(t, l)
           leafNode == LeafNode(PathKey(e, 0), c)
           own == [i \in DOMAIN nodes |-> PathKey(e, i)]
           p == InsertPathKeys(t, l, leafNode, nodes, own)
           N == ToSet(nodes) \union {s}
           M == ToSet(nodes)
           q == PathMade(t, l, c, e)
           p2 == InsertPathKeys(u, l, q[s], nodes, keys)
           q2 == PathRebuilt(u, l, q[s], keys)
           a == AllHashes(t)
           b == AllHashes(u)
<1>1. PathOf(u, l) = nodes /\ Ascending(h, s, nodes)
  BY FilteredPathLocal, FilteredPathIs DEF PathOf
<1>2. q = InsertParentHashes(p, a, N) /\ q2 = InsertParentHashes(p2, b, M)
  BY <1>1 DEF PathMade, PathRebuilt
<1>3. \A i \in DOMAIN nodes : own[i] = PathKey(e, i) /\ own[i] # NoKey /\ keys[i] = own[i]
  BY KeysAreNotEmpty
<1>4. NewPath(t, h, s, nodes, c, e, q)
  BY PathMadeIs
<1>5. IsNode(leafNode) /\ leafNode # Blank
  BY KeysAreNotEmpty, NewNodes
<1>6. h \in Nat /\ DOMAIN t = Full(h) /\ DOMAIN u = Full(h) /\ s \in Full(h) /\ IsLeaf(s) /\ s \in Nat
  BY TreeShape, LeafNumbers
<1> HIDE DEF s, nodes, leafNode, own, q, q2, a, b
<1>7. PathInserted(t, h, s, leafNode, nodes, own, p)
  BY <1>1, <1>3, <1>5, InsertPathKeysIs DEF s
<1>8. q[s] # Blank /\ IsNode(q[s]) /\ IsTreeOf(q, h) /\ DOMAIN q = Full(h)
  <2>1. IsTreeOf(q, h) /\ q[s].key = PathKey(e, 0)
    BY <1>4 DEF NewPath
  <2>2. q[s].key # NoKey
    BY <2>1, KeysAreNotEmpty
  <2> QED
    BY <1>6, <2>1, <2>2, TreeShape, BlankIsNode
<1>9. PathInserted(u, h, s, q[s], nodes, keys, p2)
  <2>1. \A i \in DOMAIN nodes : keys[i] # NoKey
    BY <1>3
  <2> QED
    BY <1>1, <1>8, <2>1, InsertPathKeysIs DEF s
<1> HIDE DEF p, p2
<1>10. /\ IsTreeOf(p, h) /\ p[s] = leafNode /\ (\A i \in DOMAIN nodes : p[nodes[i]] = ParentNode(own[i]))
       /\ \A x \in Full(h) : x # s /\ (\A i \in DOMAIN nodes : nodes[i] # x)
                               => p[x] = IF s \in Block(x) THEN Blank ELSE t[x]
  BY <1>7 DEF PathInserted
<1>11. /\ IsTreeOf(p2, h) /\ p2[s] = q[s] /\ (\A i \in DOMAIN nodes : p2[nodes[i]] = ParentNode(own[i]))
       /\ \A x \in Full(h) : x # s /\ (\A i \in DOMAIN nodes : nodes[i] # x)
                               => p2[x] = IF s \in Block(x) THEN Blank ELSE u[x]
  BY <1>3, <1>9 DEF PathInserted
<1>12. M = {nodes[i] : i \in DOMAIN nodes} /\ N = M \union {s} /\ s \notin M /\ M \subseteq Full(h)
       /\ \A x \in M : s \in Block(x)
  BY <1>1 DEF ToSet, Ascending
<1> HIDE DEF M, N
<1>13. \A x \in Full(h) : x # s => p[x] = p2[x]
  <2> TAKE x \in Full(h)
  <2> HAVE x # s
  <2>1. CASE x \in M
    BY <1>10, <1>11, <1>12, <2>1
  <2>2. CASE x \notin M
    <3>1. \A i \in DOMAIN nodes : nodes[i] # x
      BY <1>12, <2>2
    <3>2. s \notin Block(x) => t[x] = u[x]
      BY DEF OffPath, s
    <3> QED
      BY <1>10, <1>11, <3>1, <3>2
  <2> QED
    BY <2>1, <2>2
<1>14. \A x \in M : p[x] # Blank /\ p2[x] # Blank
  <2> TAKE x \in M
  <2>1. PICK i \in DOMAIN nodes : x = nodes[i]
    BY <1>12
  <2>2. ParentNode(own[i]) # Blank
    BY <1>3, NewNodes
  <2> QED
    BY <1>10, <1>11, <2>1, <2>2
<1>15. HashesInserted(p, h, a, N, q)
  BY <1>2, <1>5, <1>6, <1>10, <1>12, <1>14, InsertParentHashesIs
<1>16. HashesInserted(p2, h, b, M, q2)
  BY <1>2, <1>11, <1>12, <1>14, InsertParentHashesIs
<1>17. \A x \in Full(h) : q[x] = IF x \in N THEN WithParentHash(p[x], CalculateParentHash(p, a, x)) ELSE p[x]
  BY <1>15 DEF HashesInserted
<1>18. \A x \in Full(h) : q2[x] = IF x \in M THEN WithParentHash(p2[x], CalculateParentHash(p2, b, x)) ELSE p2[x]
  BY <1>16 DEF HashesInserted
<1>19. \A x \in Full(h) : s \notin Block(x) => a[x] = b[x]
  <2> TAKE x \in Full(h)
  <2> HAVE s \notin Block(x)
  <2>1. \A y \in Block(x) : y \in Full(h) /\ s \notin Block(y)
    <3>1. x \in Nat /\ Block(x) \subseteq Full(h)
      BY <1>6, NodeOfTree
    <3> QED
      BY <1>6, <3>1, NodeOfTree, BlocksNest
  <2>2. \A y \in Block(x) : t[y] = u[y]
    BY <2>1 DEF OffPath, s
  <2>3. FreshHash(t, x) = FreshHash(u, x)
    <3>1. FreshHash(t, x) = [y \in Block(x) |-> Content(t[y])] /\ FreshHash(u, x) = [y \in Block(x) |-> Content(u[y])]
      BY FreshHashIs
    <3> QED
      BY <2>2, <3>1
  <2> QED
    BY <1>6, <2>3 DEF a, b, AllHashes
<1>20. ASSUME NEW x \in Full(h)  PROVE q[x] = q2[x]
  <2>1. CASE x = s
    BY <1>11, <1>12, <1>18, <2>1
  <2>2. CASE x \in M
    <3>1. CalculateParentHash(p, a, x) = CalculateParentHash(p2, b, x)
      <4>1. \A y \in Full(h) : y # s => Alike(p[y], p2[y])
        BY <1>13 DEF Alike
      <4> QED
        BY <1>6, <1>10, <1>11, <1>12, <1>19, <2>2, <4>1, ParentHashLocal
    <3> QED
      BY <1>12, <1>13, <1>17, <1>18, <2>2, <3>1
  <2>3. CASE x \notin N
    BY <1>12, <1>13, <1>17, <1>18, <2>3
  <2> QED
    BY <1>12, <2>1, <2>2, <2>3
<1>21. q = [x \in Full(h) |-> q[x]] /\ q2 = [x \in Full(h) |-> q2[x]]
  BY <1>15, <1>16, TreeShape DEF HashesInserted
<1>22. q = q2
  BY <1>20, <1>21
<1> QED
  BY <1>22 DEF q, q2, s

-----------------------------------------------------------------------------
(***************************************************************************)
(* What changes between two trees lies at or above some leaves, and what   *)
(* the cache keeps when these are forgotten is right for the second tree.  *)
(***************************************************************************)
Stable(t, u, leaves) ==
  \A x \in Nat : (\A l \in leaves : LeafToNodeIndex(l) \notin Block(x)) => At(u, x) = At(t, x)

LEMMA StableTwice ==
  ASSUME NEW t, NEW u, NEW v, NEW a, NEW b, NEW c, Stable(t, u, a), Stable(u, v, b), a \subseteq c, b \subseteq c
  PROVE  Stable(t, v, c)
BY DEF Stable

LEMMA StableMutation ==
  ASSUME NEW t, NEW w, NEW updated, NEW removed, NEW added, NEW place,
         Mutated(t, w, updated, removed, added, place),
         \A i \in 1 .. Len(added) : added[i] # Blank, Len(added) \in Nat, DOMAIN added = 1 .. Len(added)
  PROVE  Stable(t, w, Touched(w, updated, removed, added))
<1> DEFINE T == Touched(w, updated, removed, added)
<1> SUFFICES ASSUME NEW x \in Nat, \A l \in T : LeafToNodeIndex(l) \notin Block(x)
             PROVE  At(w, x) = At(t, x)
  BY DEF Stable
<1>1. x \in Block(x)
  BY NodeBasics
<1>2. \A i \in 1 .. Len(added) : place[i] \in Nat /\ IsLeaf(place[i]) /\ At(w, place[i]) = added[i]
  BY DEF Mutated
<1>3. \A i \in 1 .. Len(added) : NodeToLeafIndex(place[i]) \in T
  <2> TAKE i \in 1 .. Len(added)
  <2>1. place[i] \in Leaves(w) /\ added[i].key = w[place[i]].key
    BY <1>2 DEF At, Leaves, NonBlank
  <2> QED
    BY <2>1 DEF Touched, AddedLeaves
<1>4. \A i \in 1 .. Len(added) : place[i] \notin Block(x)
  BY <1>2, <1>3, LeafNodesNumber
<1>5. \A n \in UpdatedAt(updated) \union RemovedAt(removed) : n \notin Block(x)
  BY DEF UpdatedAt, RemovedAt, Touched
<1>6. \A i \in 1 .. Len(added) : place[i] # x
  BY <1>1, <1>4
<1>7. IF At(t, x) = Blank THEN At(w, x) = Blank
      ELSE Unmerging(At(t, x), At(w, x), LeavesBelow(place, Len(added), x))
  BY <1>5, <1>6 DEF Mutated
<1>8. LeavesBelow(place, Len(added), x) = {}
  BY <1>4 DEF LeavesBelow
<1> QED
  BY <1>7, <1>8 DEF Unmerging

LEMMA StableAddition ==
  ASSUME NEW t, NEW h, NEW leafNode, NEW at, NEW r, LeafAdded(t, h, leafNode, at, r), NEW l, LeafToNodeIndex(l) = at
  PROVE  Stable(t, r, {l})
<1> SUFFICES ASSUME NEW x \in Nat, at \notin Block(x)  PROVE At(r, x) = At(t, x)
  BY DEF Stable
<1>1. x # at
  BY NodeBasics
<1> QED
  BY <1>1 DEF LeafAdded

LEMMA StablePath ==
  ASSUME NEW t, NEW h, IsTreeOf(t, h), NEW l \in Nat, LeafToNodeIndex(l) \in Full(h), NEW c, NEW e
  PROVE  Stable(t, PathMade(t, l, c, e), {l})
<1> DEFINE s == LeafToNodeIndex(l)
           q == PathMade(t, l, c, e)
           nodes == PathOf(t, l)
<1> SUFFICES ASSUME NEW x \in Nat, s \notin Block(x)  PROVE At(q, x) = At(t, x)
  BY DEF Stable
<1>1. NewPath(t, h, s, nodes, c, e, q)
  BY PathMadeIs
<1>2. Ascending(h, s, nodes)
  BY FilteredPathIs DEF PathOf
<1> HIDE DEF q, nodes, s
<1>3. DOMAIN q = Full(h) /\ DOMAIN t = Full(h)
  BY <1>1, TreeShape DEF NewPath
<1>4. x # s /\ \A i \in DOMAIN nodes : nodes[i] # x
  BY <1>2, NodeBasics DEF Ascending
<1>5. x \in Full(h) => q[x] = t[x]
  BY <1>1, <1>4 DEF NewPath
<1> QED
  BY <1>3, <1>5 DEF At

LEMMA DerivedCacheIsCoherent ==
  ASSUME NEW t, NEW h, IsTreeOf(t, h), NEW cache, Coherent(t, cache),
         NEW w, NEW k, IsTreeOf(w, k), NEW u, IsTreeOf(u, k), NEW T, T \subseteq Nat, Stable(t, u, T)
  PROVE  Coherent(u, DeriveTreeHashCache(w, cache, T))
<1> DEFINE leaves == {LeafToNodeIndex(l) : l \in T} \intersect DOMAIN w
           stale == leaves \union UNION {Above(w, n) : n \in leaves}
           d == DeriveTreeHashCache(w, cache, T)
<1>1. DOMAIN t = Full(h) /\ DOMAIN w = Full(k) /\ DOMAIN u = Full(k) /\ h \in Nat /\ k \in Nat
  BY TreeShape
<1>2. d = [n \in (DOMAIN cache \intersect DOMAIN w) \ stale |-> cache[n]]
  BY DEF DeriveTreeHashCache
<1>3. stale = {x \in Full(k) : \E n \in leaves : n \in Block(x)}
  <2>1. \A n \in leaves : n \in Full(k) /\ n \in Block(n)
    BY <1>1, NodeOfTree, NodeBasics
  <2>2. \A n \in leaves : Above(w, n) = {y \in Full(k) \ {n} : n \in Block(y)}
    BY <2>1, AboveNode
  <2>3. \A x : x \in stale <=> x \in leaves \/ \E n \in leaves : x \in Above(w, n)
    OBVIOUS
  <2> HIDE DEF leaves, stale
  <2>4. \A x : x \in stale <=> x \in Full(k) /\ \E n \in leaves : n \in Block(x)
    <3> TAKE x
    <3>1. ASSUME x \in stale  PROVE x \in Full(k) /\ \E n \in leaves : n \in Block(x)
      BY <2>1, <2>2, <2>3, <3>1
    <3>2. ASSUME x \in Full(k), NEW n \in leaves, n \in Block(x)  PROVE x \in stale
      BY <2>2, <2>3, <3>2
    <3> QED
      BY <3>1, <3>2
  <2> QED
    BY <2>4
<1> HIDE DEF d, stale
<1>4. DOMAIN d \subseteq DOMAIN u
  BY <1>1, <1>2
<1>5. ASSUME NEW n \in DOMAIN d  PROVE d[n] = FreshHash(u, n)
  <2>1. n \in DOMAIN cache /\ n \in Full(k) /\ n \notin stale /\ d[n] = cache[n]
    BY <1>1, <1>2
  <2>2. cache[n] = FreshHash(t, n) /\ n \in Full(h)
    BY <1>1, <2>1 DEF Coherent
  <2>3. n \in Nat /\ Block(n) \subseteq Full(k) /\ Block(n) \subseteq Full(h)
    BY <1>1, <2>1, <2>2, NodeOfTree
  <2>4. \A l \in T : LeafToNodeIndex(l) \notin Block(n)
    BY <1>1, <1>3, <2>1, <2>3
  <2>5. \A x \in Block(n) : t[x] = u[x]
    <3> TAKE x \in Block(n)
    <3>1. x \in Nat /\ x \in Full(k) /\ x \in Full(h) /\ Block(x) \subseteq Block(n)
      BY <1>1, <2>3, NodeOfTree, BlocksNest
    <3>2. \A l \in T : LeafToNodeIndex(l) \notin Block(x)
      BY <2>4, <3>1
    <3>3. At(u, x) = At(t, x)
      BY <3>1, <3>2 DEF Stable
    <3> QED
      BY <1>1, <3>1, <3>3 DEF At
  <2>6. FreshHash(t, n) = [x \in Block(n) |-> Content(t[x])] /\ FreshHash(u, n) = [x \in Block(n) |-> Content(u[x])]
    BY FreshHashIs
  <2> QED
    BY <2>1, <2>2, <2>5, <2>6
<1>6. Coherent(u, d)
  BY <1>4, <1>5 DEF Coherent
<1> QED
  BY <1>6 DEF d

-----------------------------------------------------------------------------
(***************************************************************************)
(* Commits.  What the proposals of a commit make of a tree.                *)
(***************************************************************************)
Prepared(t, w, T) ==
  /\ \E k : IsTreeOf(w, k)
  /\ Stable(t, w, T) /\ T \subseteq Nat

KeepsLeaves(t, w, removed) ==
  \A x \in Nat : IsLeaf(x) /\ At(t, x) # Blank /\ x \notin RemovedAt(removed) => At(w, x) # Blank

LEMMA ProposalsPrepare ==
  ASSUME NEW t, NEW h, NEW updated, NEW removed, NEW added,
         ForTheTree(t, h, updated, removed, added), DOMAIN added = 1 .. Len(added),
         NEW w, w = ApplyTreeMutations(t, updated, removed, added)
  PROVE  Prepared(t, w, Touched(w, updated, removed, added)) /\ KeepsLeaves(t, w, removed)
<1>1. PICK place : Mutated(t, w, updated, removed, added, place)
  BY MutationIs
<1>2. \A i \in 1 .. Len(added) : IsNode(added[i]) /\ added[i] # Blank
  BY DEF ForTheTree
<1>3. Len(added) \in Nat /\ removed \subseteq Nat /\ \A u \in updated : u.leafIndex \in Nat /\ u.leafNode # Blank
  BY DEF ForTheTree
<1>4. Stable(t, w, Touched(w, updated, removed, added))
  BY <1>1, <1>2, <1>3, StableMutation
<1>5. PICK k \in Nat : IsTreeOf(w, k)
  BY <1>1 DEF Mutated
<1>6. Touched(w, updated, removed, added) \subseteq Nat
  <2>1. AddedLeaves(w, added) \subseteq Nat
    <3>1. \A n \in Leaves(w) : n \in Nat /\ IsLeaf(n)
      BY <1>5, TreeShape DEF Leaves, NonBlank
    <3> QED
      BY <3>1, LeafNodesNumber DEF AddedLeaves
  <2>2. {u.leafIndex : u \in updated} \subseteq Nat
    BY <1>3
  <2> QED
    BY <1>3, <2>1, <2>2 DEF Touched
<1>7. ASSUME NEW x \in Nat, IsLeaf(x), At(t, x) # Blank, x \notin RemovedAt(removed)
      PROVE  At(w, x) # Blank
  <2>1. Block(x) = {x}
    BY <1>7, LeafNodesNumber
  <2>2. \A i \in 1 .. Len(added) : place[i] # x
    BY <1>1, <1>7 DEF Mutated
  <2>3. CASE x \in UpdatedAt(updated)
    BY <1>1, <1>3, <2>3 DEF Mutated
  <2>4. CASE x \notin UpdatedAt(updated)
    <3>1. \A n \in UpdatedAt(updated) \union RemovedAt(removed) : n \notin Block(x)
      BY <1>7, <2>1, <2>4
    <3>2. Unmerging(At(t, x), At(w, x), LeavesBelow(place, Len(added), x))
      BY <1>1, <1>7, <2>2, <3>1 DEF Mutated
    <3> QED
      BY <3>2 DEF Unmerging
  <2> QED
    BY <2>3, <2>4
<1> QED
  BY <1>4, <1>5, <1>6, <1>7 DEF Prepared, KeepsLeaves

\* Without updates and adds only the removes are left.
LEMMA RemovalsOnly ==
  ASSUME NEW t, NEW h, IsTreeOf(t, h), NEW removed
  PROVE  /\ ApplyTreeMutations(t, {}, removed, <<>>) = RemoveLeafNodes(t, removed)
         /\ \A w : Touched(w, {}, removed, <<>>) = removed
<1> DEFINE f == UpdatedNodes({})
           above == [n \in UNION {Above(t, at) : at \in DOMAIN f} |-> Blank]
           r == RemoveLeafNodes(t, removed)
<1>1. DOMAIN f = {}
  <2>1. UpdatedAt({}) = {}
    BY DEF UpdatedAt
  <2> QED
    BY <2>1, UpdatedNodesAre
<1>2. UpdateLeafNodes(t, f) = t
  <2>1. DOMAIN above = {}
    BY <1>1
  <2>2. UpdateLeafNodes(t, f) = f ++ above ++ t
    BY DEF UpdateLeafNodes
  <2> HIDE DEF f, above
  <2>3. f ++ above ++ t = [x \in DOMAIN t |-> t[x]]
    BY <1>1, <2>1 DEF ++
  <2>4. t = [x \in DOMAIN t |-> t[x]]
    BY TreeShape
  <2> QED
    BY <2>2, <2>3, <2>4
<1>3. AddLeafNodes(r, <<>>) = r
  <2> DEFINE grown[i \in 0 .. Len(<<>>)] == IF i = 0 THEN r ELSE AddLeafNode(grown[i - 1], <<>>[i])
  <2>1. grown = [i \in 0 .. Len(<<>>) |-> IF i = 0 THEN r ELSE AddLeafNode(grown[i - 1], <<>>[i])]
    <3>1. \E g : g = [i \in 0 .. Len(<<>>) |-> IF i = 0 THEN r ELSE AddLeafNode(g[i - 1], <<>>[i])]
      <4>1. Len(<<>>) \in Nat
        OBVIOUS
      <4>2. \E g : Growing(g, r, <<>>, Len(<<>>))
        BY <4>1, GrowthExists
      <4> QED
        BY <4>2 DEF Growing
    <3> QED
      BY <3>1
  <2>2. AddLeafNodes(r, <<>>) = grown[Len(<<>>)]
    BY DEF AddLeafNodes
  <2> HIDE DEF grown, r
  <2>3. Len(<<>>) = 0
    OBVIOUS
  <2>4. grown[0] = r
    BY <2>1, <2>3
  <2> QED
    BY <2>2, <2>3, <2>4
<1>4. ApplyTreeMutations(t, {}, removed, <<>>) = r
  BY <1>2, <1>3 DEF ApplyTreeMutations
<1>5. ASSUME NEW w  PROVE Touched(w, {}, removed, <<>>) = removed
  <2>1. AddedLeaves(w, <<>>) = {}
    BY DEF AddedLeaves
  <2> QED
    BY <2>1 DEF Touched
<1> QED
  BY <1>4, <1>5

Proposing(old, m) == ApplyTreeMutations(old, m.updates, m.removes, m.adds)

\* The tree on which client c makes the path of its commit m of epoch e.
CommitTree(old, e, c, m) ==
  IF m.external THEN AddLeafNode(Proposing(old, m), LeafNode(PackageKey(e, c), c)) ELSE Proposing(old, m)

\* The commit m of client c takes the tree old of epoch e to the tree new.
CommitOf(old, e, c, m, new) ==
  /\ m.sender \in Nat /\ DOMAIN m.adds = 1 .. Len(m.adds)
  /\ \E h : ForTheTree(old, h, m.updates, m.removes, m.adds)
  /\ IF m.external
     THEN /\ m.path # NoPath /\ m.updates = {} /\ m.adds = <<>>
          /\ LeafToNodeIndex(m.sender) = FindBlankLeafNodeIndexOrExtend(Proposing(old, m))
     ELSE /\ At(old, LeafToNodeIndex(m.sender)) # Blank
          /\ m.sender \notin m.removes /\ \A u \in m.updates : u.leafIndex # m.sender
  /\ IF m.path = NoPath
     THEN m.updates = {} /\ m.removes = {} /\ new = Proposing(old, m)
     ELSE /\ new = PathMade(CommitTree(old, e, c, m), m.sender, c, e)
          /\ m.path.leafNode = new[LeafToNodeIndex(m.sender)]
          /\ \A i \in DOMAIN PathOf(CommitTree(old, e, c, m), m.sender) : m.path.nodes[i].key = PathKey(e, i)

\* Two leaf nodes at the same place.
LEMMA AddedEitherWay ==
  ASSUME NEW t, NEW h, IsTreeOf(t, h), NEW a, IsNode(a), NEW b, IsNode(b), NEW l \in Nat,
         LeafToNodeIndex(l) = FindBlankLeafNodeIndexOrExtend(t)
  PROVE  \E k : /\ IsTreeOf(AddLeafNode(t, a), k) /\ IsTreeOf(AddLeafNode(t, b), k)
                /\ LeafToNodeIndex(l) \in Full(k)
                /\ OffPath(k, LeafToNodeIndex(l), AddLeafNode(t, a), AddLeafNode(t, b))
                /\ Stable(t, AddLeafNode(t, a), {l}) /\ Stable(t, AddLeafNode(t, b), {l})
<1> DEFINE at == FindBlankLeafNodeIndexOrExtend(t)
           r == AddLeafNode(t, a)
           q == AddLeafNode(t, b)
<1>1. LeafAdded(t, h, a, at, r) /\ LeafAdded(t, h, b, at, q)
  BY AddLeafNodeIs
<1>2. DOMAIN r = DOMAIN q
  BY DEF AddLeafNode, ++
<1> HIDE DEF at, r, q
<1>3. PICK k : IsTreeOf(r, k) /\ at \in Full(k)
  BY <1>1 DEF LeafAdded
<1>4. PICK j : IsTreeOf(q, j)
  BY <1>1 DEF LeafAdded
<1>5. DOMAIN r = Full(k) /\ DOMAIN q = Full(j) /\ k \in Nat /\ Full(k) \subseteq Nat
  BY <1>3, <1>4, TreeShape
<1>6. IsTreeOf(q, k)
  BY <1>2, <1>4, <1>5 DEF IsTreeOf
<1>7. OffPath(k, at, r, q)
  <2> SUFFICES ASSUME NEW x \in Full(k), at \notin Block(x)  PROVE r[x] = q[x]
    BY DEF OffPath
  <2>1. x \in Nat /\ x # at
    BY <1>5, NodeBasics
  <2>2. At(r, x) = At(q, x)
    BY <1>1, <2>1 DEF LeafAdded
  <2> QED
    BY <1>2, <1>5, <2>2 DEF At
<1>8. Stable(t, r, {l}) /\ Stable(t, q, {l})
  BY <1>1, StableAddition DEF at
<1> QED
  BY <1>3, <1>6, <1>7, <1>8 DEF at, r, q

\* The tree and the hashes of a committer.
LEMMA CachedForPath ==
  ASSUME NEW old, NEW h, IsTreeOf(old, h), NEW cache, Coherent(old, cache),
         NEW t, NEW k, IsTreeOf(t, k), NEW T, T \subseteq Nat, Stable(old, t, T),
         NEW l \in Nat, l \in T, LeafToNodeIndex(l) \in Full(k), NEW c, NEW e
  PROVE  /\ IsTreeOf(PathMade(t, l, c, e), k)
         /\ Coherent(t, DeriveTreeHashCache(t, cache, T))
         /\ Coherent(PathMade(t, l, c, e), DeriveTreeHashCache(t, cache, T))
         /\ Stable(old, PathMade(t, l, c, e), T)
<1> DEFINE new == PathMade(t, l, c, e)
<1>1. Stable(t, new, {l})
  BY StablePath
<1>2. IsTreeOf(new, k)
  BY PathMadeIs DEF NewPath
<1> HIDE DEF new
<1>3. Stable(old, new, T)
  BY <1>1, StableTwice
<1>4. Coherent(t, DeriveTreeHashCache(t, cache, T)) /\ Coherent(new, DeriveTreeHashCache(t, cache, T))
  BY <1>2, <1>3, DerivedCacheIsCoherent
<1> QED
  BY <1>2, <1>3, <1>4 DEF new

\* The leaf of an external sender in the tree of a follower is the one it is sent.
FollowedTree(old, m) ==
  IF m.external THEN AddLeafNode(Proposing(old, m), m.path.leafNode) ELSE Proposing(old, m)

TouchedLeaves(u, m) ==
  Touched(u, m.updates, m.removes, m.adds) \union IF m.path = NoPath THEN {} ELSE {m.sender}

Follows(u, k, d, m, new) ==
  /\ IsTreeOf(u, k) /\ IsTreeOf(new, k) /\ Coherent(u, d) /\ Coherent(new, d)
  /\ m.path = NoPath => new = u
  /\ m.path # NoPath =>
       /\ LeafToNodeIndex(m.sender) \in Full(k)
       /\ \A keys : (\A i \in DOMAIN PathOf(u, m.sender) : keys[i] = m.path.nodes[i].key)
                      => PathRebuilt(u, m.sender, m.path.leafNode, keys) = new

LEMMA PathLeafNode ==
  ASSUME NEW t, NEW k, IsTreeOf(t, k), NEW l \in Nat, LeafToNodeIndex(l) \in Full(k), NEW c, NEW e
  PROVE  IsNode(PathMade(t, l, c, e)[LeafToNodeIndex(l)]) /\ PathMade(t, l, c, e)[LeafToNodeIndex(l)] # Blank
<1> DEFINE q == PathMade(t, l, c, e)
           s == LeafToNodeIndex(l)
<1>1. NewPath(t, k, s, PathOf(t, l), c, e, q)
  BY PathMadeIs
<1> HIDE DEF q, s
<1>2. IsTreeOf(q, k) /\ q[s].key = PathKey(e, 0)
  BY <1>1 DEF NewPath
<1>3. IsNode(q[s])
  BY <1>2, TreeShape DEF s
<1>4. q[s] # Blank
  BY <1>2, KeysAreNotEmpty, BlankIsNode
<1> QED
  BY <1>3, <1>4 DEF q, s

LEMMA CommitCanBeFollowed ==
  ASSUME NEW old, NEW e, NEW c, NEW m, NEW new, CommitOf(old, e, c, m, new),
         NEW cache, Coherent(old, cache)
  PROVE  \E k : Follows(FollowedTree(old, m), k,
                        DeriveTreeHashCache(FollowedTree(old, m), cache, TouchedLeaves(FollowedTree(old, m), m)), m, new)
<1> DEFINE left == Proposing(old, m)
           t == CommitTree(old, e, c, m)
           u == FollowedTree(old, m)
           T == TouchedLeaves(u, m)
           d == DeriveTreeHashCache(u, cache, T)
           s == LeafToNodeIndex(m.sender)
<1>1. PICK h : ForTheTree(old, h, m.updates, m.removes, m.adds)
  BY DEF CommitOf
<1>2. IsTreeOf(old, h) /\ m.sender \in Nat /\ DOMAIN m.adds = 1 .. Len(m.adds)
  BY <1>1 DEF CommitOf, ForTheTree
<1>3. Prepared(old, left, Touched(left, m.updates, m.removes, m.adds)) /\ KeepsLeaves(old, left, m.removes)
  BY <1>1, <1>2, ProposalsPrepare DEF Proposing
<1>4. PICK j : IsTreeOf(left, j)
  BY <1>3 DEF Prepared
<1>5. CASE m.path = NoPath
  <2>1. ~m.external /\ new = left
    BY <1>5 DEF CommitOf
  <2>2. u = left
    BY <2>1 DEF FollowedTree
  <2>3. T = Touched(left, m.updates, m.removes, m.adds)
    BY <1>5, <2>2 DEF TouchedLeaves
  <2> HIDE DEF u, T, left
  <2>4. Coherent(left, d)
    BY <1>2, <1>3, <1>4, <2>2, <2>3, DerivedCacheIsCoherent DEF Prepared
  <2> HIDE DEF d
  <2>5. Follows(u, j, d, m, new)
    BY <1>4, <1>5, <2>1, <2>2, <2>4 DEF Follows
  <2> QED
    BY <2>5 DEF u, d, T
<1>6. CASE m.path # NoPath /\ ~m.external
  <2>1. /\ u = left /\ t = left
        /\ new = PathMade(t, m.sender, c, e) /\ m.path.leafNode = new[s]
        /\ \A i \in DOMAIN PathOf(t, m.sender) : m.path.nodes[i].key = PathKey(e, i)
    BY <1>6 DEF CommitOf, CommitTree, FollowedTree
  <2>2. T = Touched(left, m.updates, m.removes, m.adds) \union {m.sender}
    BY <1>6, <2>1 DEF TouchedLeaves
  <2>3. /\ At(old, s) # Blank /\ m.sender \notin m.removes
    BY <1>6 DEF CommitOf
  <2>4. s \notin RemovedAt(m.removes) /\ s \in Nat /\ IsLeaf(s)
    <3>1. m.removes \subseteq Nat
      BY <1>1 DEF ForTheTree
    <3>2. \A x \in m.removes : LeafToNodeIndex(x) # s
      BY <1>2, <2>3, <3>1, LeafNumbers
    <3> QED
      BY <1>2, <3>2, LeafNumbers DEF RemovedAt
  <2>5. At(left, s) # Blank
    BY <1>3, <2>3, <2>4 DEF KeepsLeaves
  <2>6. s \in Full(j)
    BY <1>4, <2>5, TreeShape DEF At
  <2>7. T \subseteq Nat /\ Stable(old, left, T) /\ m.sender \in T
    BY <1>2, <1>3, <2>2 DEF Prepared, Stable
  <2> HIDE DEF u, T, left, t
  <2>8. IsTreeOf(new, j) /\ Coherent(u, d) /\ Coherent(new, d)
    BY <1>2, <1>4, <2>1, <2>6, <2>7, CachedForPath
  <2>9. OffPath(j, s, left, left)
    BY DEF OffPath
  <2>10. ASSUME NEW keys, \A i \in DOMAIN PathOf(left, m.sender) : keys[i] = m.path.nodes[i].key
         PROVE  PathRebuilt(left, m.sender, m.path.leafNode, keys) = new
    <3>1. \A i \in DOMAIN PathOf(left, m.sender) : keys[i] = PathKey(e, i)
      BY <2>1, <2>10
    <3> QED
      BY <1>2, <1>4, <2>1, <2>6, <2>9, <3>1, SamePath
  <2> HIDE DEF d
  <2>11. Follows(u, j, d, m, new)
    BY <1>4, <1>6, <2>1, <2>6, <2>8, <2>10 DEF Follows
  <2> QED
    BY <2>11 DEF u, d, T
<1>7. CASE m.path # NoPath /\ m.external
  <2> DEFINE own == LeafNode(PackageKey(e, c), c)
             sent == m.path.leafNode
  <2>1. /\ t = AddLeafNode(left, own) /\ u = AddLeafNode(left, sent)
        /\ new = PathMade(t, m.sender, c, e) /\ sent = new[s]
        /\ \A i \in DOMAIN PathOf(t, m.sender) : m.path.nodes[i].key = PathKey(e, i)
        /\ s = FindBlankLeafNodeIndexOrExtend(left) /\ m.updates = {} /\ m.adds = <<>>
    BY <1>7 DEF CommitOf, CommitTree, FollowedTree
  <2>2. \A w : Touched(w, m.updates, m.removes, m.adds) = m.removes
    BY <1>2, <2>1, RemovalsOnly
  <2>3. T = m.removes \union {m.sender}
    BY <1>7, <2>2 DEF TouchedLeaves
  <2>4. IsNode(own)
    BY KeysAreNotEmpty, NewNodes
  <2>5. Stable(old, left, m.removes) /\ m.removes \subseteq Nat
    BY <1>3, <2>2 DEF Prepared
  <2> HIDE DEF left, t, u, T, own, sent
  <2>6. \E k : IsTreeOf(AddLeafNode(left, own), k) /\ s \in Full(k)
    BY <1>2, <1>4, <2>1, <2>4, AddedEitherWay
  <2>7. IsNode(sent)
    BY <1>2, <2>1, <2>6, PathLeafNode
  <2>8. PICK k : /\ IsTreeOf(t, k) /\ IsTreeOf(u, k) /\ s \in Full(k) /\ OffPath(k, s, t, u)
                 /\ Stable(left, t, {m.sender}) /\ Stable(left, u, {m.sender})
    BY <1>2, <1>4, <2>1, <2>4, <2>7, AddedEitherWay
  <2>9. T \subseteq Nat /\ m.sender \in T /\ Stable(old, t, T) /\ Stable(old, u, T)
    BY <1>2, <2>3, <2>5, <2>8, StableTwice
  <2>10. IsTreeOf(new, k) /\ Stable(old, new, T)
    BY <1>2, <2>1, <2>8, <2>9, CachedForPath
  <2>11. Coherent(u, d) /\ Coherent(new, d)
    BY <1>2, <2>8, <2>9, <2>10, DerivedCacheIsCoherent
  <2>12. PathOf(u, m.sender) = PathOf(t, m.sender)
    BY <1>2, <2>8, FilteredPathLocal DEF PathOf
  <2>13. ASSUME NEW keys, \A i \in DOMAIN PathOf(u, m.sender) : keys[i] = m.path.nodes[i].key
         PROVE  PathRebuilt(u, m.sender, sent, keys) = new
    <3>1. \A i \in DOMAIN PathOf(t, m.sender) : keys[i] = PathKey(e, i)
      BY <2>1, <2>12, <2>13
    <3> QED
      BY <1>2, <2>1, <2>8, <3>1, SamePath
  <2> HIDE DEF d
  <2>14. Follows(u, k, d, m, new)
    BY <1>7, <2>8, <2>10, <2>11, <2>13 DEF Follows, sent
  <2> QED
    BY <2>14 DEF u, d, T
<1> QED
  BY <1>5, <1>6, <1>7

\* The tree a commit with a path starts from: it has the sender's leaf, and the
\* leaves the proposals left.
PathReady(t, k, s, left) ==
  /\ IsTreeOf(t, k) /\ s \in Full(k)
  /\ \A x \in Nat : IsLeaf(x) /\ x # s => At(t, x) = At(left, x)

LEMMA CommitTreeIs ==
  ASSUME NEW old, NEW e, NEW c, NEW m, NEW new, CommitOf(old, e, c, m, new), m.path # NoPath
  PROVE  \E k : PathReady(CommitTree(old, e, c, m), k, LeafToNodeIndex(m.sender), Proposing(old, m))
<1> DEFINE left == Proposing(old, m)
           t == CommitTree(old, e, c, m)
           s == LeafToNodeIndex(m.sender)
           own == LeafNode(PackageKey(e, c), c)
<1>1. PICK h : ForTheTree(old, h, m.updates, m.removes, m.adds)
  BY DEF CommitOf
<1>2. m.sender \in Nat /\ DOMAIN m.adds = 1 .. Len(m.adds) /\ s \in Nat /\ IsLeaf(s)
  BY LeafNumbers DEF CommitOf
<1>3. KeepsLeaves(old, left, m.removes) /\ \E j : IsTreeOf(left, j)
  BY <1>1, <1>2, ProposalsPrepare DEF Proposing, Prepared
<1>4. PICK j : IsTreeOf(left, j)
  BY <1>3
<1>5. CASE ~m.external
  <2>1. t = left /\ At(old, s) # Blank /\ m.sender \notin m.removes
    BY <1>5 DEF CommitOf, CommitTree
  <2>2. s \notin RemovedAt(m.removes)
    <3>1. m.removes \subseteq Nat
      BY <1>1 DEF ForTheTree
    <3>2. \A x \in m.removes : LeafToNodeIndex(x) # s
      BY <1>2, <2>1, <3>1, LeafNumbers
    <3> QED
      BY <3>2 DEF RemovedAt
  <2>3. At(left, s) # Blank
    BY <1>2, <1>3, <2>1, <2>2 DEF KeepsLeaves
  <2>4. s \in Full(j)
    BY <1>4, <2>3, TreeShape DEF At
  <2> HIDE DEF t, left, s
  <2>5. PathReady(t, j, s, left)
    BY <1>4, <2>1, <2>4 DEF PathReady
  <2> QED
    BY <2>5 DEF t, left, s
<1>6. CASE m.external
  <2>1. t = AddLeafNode(left, own) /\ s = FindBlankLeafNodeIndexOrExtend(left)
    BY <1>6 DEF CommitOf, CommitTree
  <2>2. IsNode(own)
    BY KeysAreNotEmpty, NewNodes
  <2> HIDE DEF left, own, t, s
  <2>3. LeafAdded(left, j, own, s, t)
    BY <1>4, <2>1, <2>2, AddLeafNodeIs
  <2>4. PICK k : IsTreeOf(t, k) /\ s \in Full(k)
    BY <2>3 DEF LeafAdded
  <2>5. ASSUME NEW x \in Nat, IsLeaf(x), x # s  PROVE At(t, x) = At(left, x)
    <3>1. s \notin Block(x)
      BY <2>5, LeafNodesNumber
    <3> QED
      BY <2>3, <2>5, <3>1 DEF LeafAdded
  <2>6. PathReady(t, k, s, left)
    BY <2>4, <2>5 DEF PathReady
  <2> QED
    BY <2>6 DEF t, left, s
<1> QED
  BY <1>5, <1>6

\* The leaves of the new tree: the sender's, and those the proposals left.
LEMMA LeavesOfCommit ==
  ASSUME NEW old, NEW e, NEW c, NEW m, NEW new, CommitOf(old, e, c, m, new)
  PROVE  /\ \E k : IsTreeOf(new, k)
         /\ \A x \in Nat : IsLeaf(x) =>
              IF m.path # NoPath /\ x = LeafToNodeIndex(m.sender)
              THEN At(new, x).key = PathKey(e, 0) /\ At(new, x).client = c /\ At(new, x) # Blank
              ELSE At(new, x) = At(Proposing(old, m), x)
<1> DEFINE left == Proposing(old, m)
           t == CommitTree(old, e, c, m)
           s == LeafToNodeIndex(m.sender)
<1>1. CASE m.path = NoPath
  <2>1. new = left
    BY <1>1 DEF CommitOf
  <2>2. PICK h : ForTheTree(old, h, m.updates, m.removes, m.adds)
    BY DEF CommitOf
  <2>3. DOMAIN m.adds = 1 .. Len(m.adds)
    BY DEF CommitOf
  <2>4. \E j : IsTreeOf(left, j)
    BY <2>2, <2>3, ProposalsPrepare DEF Proposing, Prepared
  <2> QED
    BY <1>1, <2>1, <2>4
<1>2. CASE m.path # NoPath
  <2>1. new = PathMade(t, m.sender, c, e) /\ m.sender \in Nat
    BY <1>2 DEF CommitOf
  <2>2. s \in Nat /\ IsLeaf(s)
    BY <2>1, LeafNumbers
  <2>3. PICK k : PathReady(t, k, s, left)
    BY <1>2, CommitTreeIs
  <2>4. IsTreeOf(t, k) /\ s \in Full(k) /\ \A x \in Nat : IsLeaf(x) /\ x # s => At(t, x) = At(left, x)
    BY <2>3 DEF PathReady
  <2>5. NewPath(t, k, s, PathOf(t, m.sender), c, e, new) /\ Stable(t, new, {m.sender})
    BY <2>1, <2>4, PathMadeIs, StablePath
  <2>6. IsTreeOf(new, k)
        /\ new[s] = [key |-> PathKey(e, 0), unmergedLeaves |-> <<>>, client |-> c, parentHash |-> new[s].parentHash]
    BY <2>5 DEF NewPath
  <2>7. At(new, s) = new[s] /\ new[s] # Blank
    BY <2>1, <2>4, <2>6, TreeShape, PathLeafNode DEF At
  <2>8. new[s].key = PathKey(e, 0) /\ new[s].client = c
    BY <2>6
  <2>9. ASSUME NEW x \in Nat, IsLeaf(x), x # s  PROVE At(new, x) = At(left, x)
    <3>1. s \notin Block(x)
      BY <2>9, LeafNodesNumber
    <3>2. At(new, x) = At(t, x)
      BY <2>5, <3>1 DEF Stable
    <3> QED
      BY <2>4, <2>9, <3>2
  <2> QED
    BY <1>2, <2>6, <2>7, <2>8, <2>9
<1> QED
  BY <1>1, <1>2

-----------------------------------------------------------------------------
(***************************************************************************)
(* What the committing actions do.                                         *)
(***************************************************************************)
SentPath(tree, new, l, added) ==
  [leafNode |-> new[LeafToNodeIndex(l)],
   nodes    |-> EncryptSecretsForPath(new, FilteredDirectPath(l, tree),
                                      {LeafToNodeIndex(x) : x \in AddedLeaves(tree, added)})]

CommitterKeys(tree, l, keys) == KeysFrom(Epoch, <<LeafToNodeIndex(l)>> \o PathOf(tree, l), 0) ++ keys

\* The next epoch has the tree new, of which client c has the keys.
Begins(c, l, external, updated, removed, added, path, keys, new, secret, secrets) ==
  /\ state' = [state EXCEPT ![c] = Member(Epoch + 1, l, keys, new, AllHashes(new))]
  /\ commit' = [epoch |-> Epoch, sender |-> l, external |-> external,
                updates |-> updated, removes |-> removed, adds |-> added,
                path |-> path, treeHash |-> AllHashes(new)[RootOf(new)], commitSecret |-> secret]
  /\ welcome' = secrets
  /\ groupInfo' = [ratchetTree |-> new, treeHash |-> AllHashes(new)[RootOf(new)], signer |-> l]
  /\ updates' = {}
  /\ scenario' = scenario

LEMMA PathCommitted ==
  ASSUME NEW c, NEW l \in Nat, NEW external, NEW updated, NEW removed, NEW added, NEW tree, NEW cache, NEW keys,
         CommitPath(c, l, external, updated, removed, added, tree, cache, keys),
         NEW k, IsTreeOf(tree, k), LeafToNodeIndex(l) \in Full(k),
         Coherent(tree, cache), Coherent(PathMade(tree, l, c, Epoch), cache)
  PROVE  Begins(c, l, external, updated, removed, added,
                SentPath(tree, PathMade(tree, l, c, Epoch), l, added), CommitterKeys(tree, l, keys),
                PathMade(tree, l, c, Epoch),
                GetCommitSecret(PathMade(tree, l, c, Epoch), FilteredDirectPath(l, tree)),
                Secrets(PathMade(tree, l, c, Epoch), FilteredDirectPath(l, tree), added, TRUE))
<1> DEFINE fdp == FilteredDirectPath(l, tree)
           excluded == {LeafToNodeIndex(x) : x \in AddedLeaves(tree, added)}
           new == PathMade(tree, l, c, Epoch)
           own == [i \in DOMAIN fdp |-> PathKey(Epoch, i)]
           made == InsertParentHashes(InsertPathKeys(tree, l, LeafNode(PathKey(Epoch, 0), c), NodesOf(fdp), own),
                                      TreeHashes(tree, cache), ToSet(NodesOf(fdp)) \union {LeafToNodeIndex(l)})
<1>1. CreateUpdatePath(tree, cache, l, c, fdp) = {made}
  BY DEF CreateUpdatePath
<1>2. own = [i \in DOMAIN PathOf(tree, l) |-> PathKey(Epoch, i)] /\ PathOf(tree, l) = NodesOf(fdp)
  BY DEF PathOf, NodesOf
<1>3. TreeHashes(tree, cache) = AllHashes(tree)
  BY TreeHashesAre
<1>4. made = new
  BY <1>2, <1>3 DEF PathMade
<1>5. IsTreeOf(new, k)
  BY PathMadeIs DEF NewPath
<1> HIDE DEF new, made
<1>6. TreeHashes(new, cache) = AllHashes(new)
  BY <1>5, TreeHashesAre DEF new
<1>7. \E n \in {new} :
        \E hashes \in {TreeHashes(n, cache)},
           path \in {[leafNode |-> n[LeafToNodeIndex(l)], nodes |-> EncryptSecretsForPath(n, fdp, excluded)]} :
          Publish(c, l, Message(l, external, updated, removed, added, path, n, hashes, GetCommitSecret(n, fdp)),
                  KeysFrom(Epoch, <<LeafToNodeIndex(l)>> \o NodesOf(fdp), 0) ++ keys, n, hashes,
                  Secrets(n, fdp, added, TRUE))
  BY <1>1, <1>4 DEF CommitPath
<1> DEFINE hashes == AllHashes(new)
           path == SentPath(tree, new, l, added)
           secret == GetCommitSecret(new, fdp)
           secrets == Secrets(new, fdp, added, TRUE)
           ks == CommitterKeys(tree, l, keys)
<1>8. Publish(c, l, Message(l, external, updated, removed, added, path, new, hashes, secret), ks, new, hashes, secrets)
  <2>1. path = [leafNode |-> new[LeafToNodeIndex(l)], nodes |-> EncryptSecretsForPath(new, fdp, excluded)]
    BY DEF SentPath
  <2>2. ks = KeysFrom(Epoch, <<LeafToNodeIndex(l)>> \o NodesOf(fdp), 0) ++ keys
    BY <1>2 DEF CommitterKeys
  <2> HIDE DEF hashes, path, secret, secrets, ks, fdp, excluded
  <2> QED
    BY <1>6, <1>7, <2>1, <2>2 DEF hashes, secret, secrets
<1> HIDE DEF hashes, path, secret, secrets, ks, fdp, excluded
<1>9. Begins(c, l, external, updated, removed, added, path, ks, new, secret, secrets)
  BY <1>8 DEF Publish, Message, Begins, hashes
<1> QED
  BY <1>9 DEF path, secret, secrets, ks, fdp, new

LEMMA CommittedWithoutPath ==
  ASSUME NEW c, NEW updated, NEW removed, NEW added, NEW tree, NEW cache,
         CommitWithoutPath(c, updated, removed, added, tree, cache),
         NEW k, IsTreeOf(tree, k), Coherent(tree, cache)
  PROVE  Begins(c, state[c].leafIndex, FALSE, updated, removed, added, NoPath, state[c].privateKeys, tree, 0,
                Secrets(tree, <<>>, added, FALSE))
<1> DEFINE hashes == AllHashes(tree)
           secrets == Secrets(tree, <<>>, added, FALSE)
<1>1. TreeHashes(tree, cache) = hashes
  BY TreeHashesAre
<1> HIDE DEF hashes, secrets
<1>2. Publish(c, state[c].leafIndex,
              Message(state[c].leafIndex, FALSE, updated, removed, added, NoPath, tree, hashes, 0),
              state[c].privateKeys, tree, hashes, secrets)
  BY <1>1 DEF CommitWithoutPath, secrets
<1>3. Begins(c, state[c].leafIndex, FALSE, updated, removed, added, NoPath, state[c].privateKeys, tree, 0, secrets)
  BY <1>2 DEF Publish, Message, Begins, hashes
<1> QED
  BY <1>3 DEF secrets

\* What is sent of the path is what CommitOf asks for.
LEMMA SentPathFits ==
  ASSUME NEW tree, NEW k, IsTreeOf(tree, k), NEW l \in Nat, LeafToNodeIndex(l) \in Full(k), NEW c, NEW e, NEW added
  PROVE  LET new  == PathMade(tree, l, c, e)
             path == SentPath(tree, new, l, added)
         IN  /\ path # NoPath
             /\ path.leafNode = new[LeafToNodeIndex(l)]
             /\ DOMAIN path.nodes = DOMAIN PathOf(tree, l)
             /\ \A i \in DOMAIN PathOf(tree, l) : path.nodes[i].key = PathKey(e, i)
<1> DEFINE new == PathMade(tree, l, c, e)
           path == SentPath(tree, new, l, added)
           fdp == FilteredDirectPath(l, tree)
           excluded == {LeafToNodeIndex(x) : x \in AddedLeaves(tree, added)}
           nodes == PathOf(tree, l)
           s == LeafToNodeIndex(l)
<1>1. NewPath(tree, k, s, nodes, c, e, new)
  BY PathMadeIs
<1> HIDE DEF new
<1>2. path = [leafNode |-> new[s], nodes |-> EncryptSecretsForPath(new, fdp, excluded)]
  BY DEF SentPath
<1>3. path # NoPath
  BY <1>2 DEF NoPath
<1>4. nodes = [i \in DOMAIN fdp |-> fdp[i].nodeIndex]
  BY DEF PathOf, NodesOf
<1> HIDE DEF fdp, excluded, path
<1>5. EncryptSecretsForPath(new, fdp, excluded) = path.nodes /\ path.leafNode = new[s]
  BY <1>2
<1>6. DOMAIN path.nodes = DOMAIN fdp /\ \A i \in DOMAIN fdp : path.nodes[i].key = new[fdp[i].nodeIndex].key
  <2>1. DOMAIN EncryptSecretsForPath(new, fdp, excluded) = DOMAIN fdp
    BY DEF EncryptSecretsForPath
  <2>2. \A i \in DOMAIN fdp : EncryptSecretsForPath(new, fdp, excluded)[i].key = new[fdp[i].nodeIndex].key
    BY DEF EncryptSecretsForPath
  <2> QED
    BY <1>5, <2>1, <2>2
<1>7. \A i \in DOMAIN nodes : new[nodes[i]].key = PathKey(e, i)
  <2> TAKE i \in DOMAIN nodes
  <2>1. new[nodes[i]] = [key |-> PathKey(e, i), unmergedLeaves |-> <<>>, client |-> Nobody,
                         parentHash |-> new[nodes[i]].parentHash]
    BY <1>1 DEF NewPath
  <2> QED
    BY <2>1
<1>8. DOMAIN nodes = DOMAIN fdp /\ \A i \in DOMAIN fdp : nodes[i] = fdp[i].nodeIndex
  BY <1>4
<1> HIDE DEF nodes
<1> QED
  BY <1>3, <1>5, <1>6, <1>7, <1>8 DEF new, nodes, path, s

-----------------------------------------------------------------------------
(***************************************************************************)
(* The invariant behind MembersAgree and CacheCoherent: a member's tree is *)
(* a tree that has the member's leaf, its cache has no stale hash, and the *)
(* last commit takes the tree of those who have yet to follow it to the    *)
(* tree of the current epoch.                                              *)
(***************************************************************************)
IsState(s) ==
  s = [kind |-> s.kind, epoch |-> s.epoch, leafIndex |-> s.leafIndex,
       privateKeys |-> s.privateKeys, ratchetTree |-> s.ratchetTree, treeHashCache |-> s.treeHashCache]

HasTree(s) ==
  /\ \E h : IsTreeOf(s.ratchetTree, h)
  /\ Coherent(s.ratchetTree, s.treeHashCache)
  /\ s.leafIndex \in Nat /\ At(s.ratchetTree, LeafToNodeIndex(s.leafIndex)) # Blank
  /\ s.epoch \in Nat

UpdatesFit(tree, proposed) ==
  \A u \in proposed : /\ u.leafIndex \in Nat /\ At(tree, LeafToNodeIndex(u.leafIndex)) # Blank
                      /\ IsNode(u.leafNode) /\ u.leafNode # Blank

TreesInv ==
  /\ scenario \in Scenarios
  /\ state = [c \in Client |-> state[c]] /\ \A c \in Client : IsState(state[c])
  /\ commit.epoch \in Nat
  /\ \E h : IsTreeOf(groupInfo.ratchetTree, h)
  /\ UpdatesFit(groupInfo.ratchetTree, updates)
  /\ \A c \in Client :
       state[c].kind = "member" =>
         /\ HasTree(state[c]) /\ state[c].epoch <= commit.epoch + 1
         /\ state[c].epoch = commit.epoch + 1 => state[c].ratchetTree = groupInfo.ratchetTree
         /\ state[c].epoch = commit.epoch =>
              \E d \in Client : CommitOf(state[c].ratchetTree, commit.epoch, d, commit, groupInfo.ratchetTree)

LEMMA LeafIndicesOf ==
  ASSUME NEW t, NEW h, IsTreeOf(t, h), NEW c
  PROVE  \A l \in LeavesOf(t, c) : /\ l \in Nat /\ LeafToNodeIndex(l) \in Full(h)
                                   /\ At(t, LeafToNodeIndex(l)) # Blank
                                   /\ t[LeafToNodeIndex(l)].client = c
                                   /\ LeafToNodeIndex(l) \in Leaves(t)
<1> TAKE l \in LeavesOf(t, c)
<1>1. DOMAIN t = Full(h) /\ Full(h) \subseteq Nat
  BY TreeShape
<1>2. PICK n \in Leaves(t) : l = NodeToLeafIndex(n) /\ t[n].client = c
  BY DEF LeavesOf
<1>3. n \in Full(h) /\ IsLeaf(n) /\ t[n] # Blank /\ n \in Nat
  BY <1>1, <1>2 DEF Leaves, NonBlank
<1>4. l \in Nat /\ LeafToNodeIndex(l) = n
  BY <1>2, <1>3, LeafNodesNumber
<1> QED
  BY <1>1, <1>2, <1>3, <1>4 DEF At

\* The leaf nodes of the key packages of some clients, each invited once.
LeafNodesOf(S, invited, e, added) ==
  /\ Len(added) \in Nat /\ DOMAIN added = 1 .. Len(added) /\ Len(invited) = Len(added)
  /\ \A i \in 1 .. Len(added) : invited[i] \in S /\ added[i] = LeafNode(PackageKey(e, invited[i]), invited[i])
  /\ \A i, j \in 1 .. Len(added) : invited[i] = invited[j] => i = j

LEMMA InvitedLeafNodes ==
  ASSUME NEW S, IsFiniteSet(S), NEW invited \in SetToAllKPermutations(S), NEW e,
         NEW added, added = [i \in DOMAIN invited |-> LeafNode(PackageKey(e, invited[i]), invited[i])]
  PROVE  LeafNodesOf(S, invited, e, added)
<1>1. PICK T \in SUBSET S : invited \in SetToSeqs(T)
  BY DEF SetToAllKPermutations
<1> DEFINE n == Cardinality(T)
<1>2. n \in Nat
  BY FS_Subset, FS_CardinalityType
<1>3. invited \in [1 .. n -> T] /\ \A i, j \in 1 .. n : i # j => invited[i] # invited[j]
  BY <1>1 DEF SetToSeqs
<1>4. added \in [1 .. n -> {LeafNode(PackageKey(e, d), d) : d \in T}]
  BY <1>3
<1> HIDE DEF n
<1>5. Len(added) = n /\ DOMAIN added = 1 .. n
  BY <1>2, <1>4, FunctionIsSequence
<1>6. Len(invited) = n /\ DOMAIN invited = 1 .. n
  BY <1>2, <1>3, FunctionIsSequence
<1>7. \A i \in 1 .. n : invited[i] \in S /\ added[i] = LeafNode(PackageKey(e, invited[i]), invited[i])
  BY <1>3, <1>6
<1> QED
  BY <1>2, <1>3, <1>5, <1>6, <1>7 DEF LeafNodesOf

LEMMA PathCommitOf ==
  ASSUME NEW old, NEW h, NEW e, NEW c, NEW m, NEW new,
         ForTheTree(old, h, m.updates, m.removes, m.adds), DOMAIN m.adds = 1 .. Len(m.adds), m.sender \in Nat,
         IF m.external
         THEN /\ m.updates = {} /\ m.adds = <<>>
              /\ LeafToNodeIndex(m.sender) = FindBlankLeafNodeIndexOrExtend(Proposing(old, m))
         ELSE /\ At(old, LeafToNodeIndex(m.sender)) # Blank
              /\ m.sender \notin m.removes /\ \A u \in m.updates : u.leafIndex # m.sender,
         NEW k, IsTreeOf(CommitTree(old, e, c, m), k), LeafToNodeIndex(m.sender) \in Full(k),
         new = PathMade(CommitTree(old, e, c, m), m.sender, c, e),
         NEW added, m.path = SentPath(CommitTree(old, e, c, m), new, m.sender, added)
  PROVE  CommitOf(old, e, c, m, new)
<1> DEFINE tree == CommitTree(old, e, c, m)
<1> HIDE DEF tree
<1>1. /\ m.path # NoPath
      /\ m.path.leafNode = new[LeafToNodeIndex(m.sender)]
      /\ \A i \in DOMAIN PathOf(tree, m.sender) : m.path.nodes[i].key = PathKey(e, i)
  BY SentPathFits DEF tree
<1> QED
  BY <1>1 DEF CommitOf, tree

LEMMA BeginsKeepsTrees ==
  ASSUME TreesInv, NEW c \in Client, NEW l \in Nat, NEW external, NEW updated, NEW removed, NEW added,
         NEW path, NEW keys, NEW new, NEW secret, NEW secrets,
         Begins(c, l, external, updated, removed, added, path, keys, new, secret, secrets),
         NEW k, IsTreeOf(new, k), At(new, LeafToNodeIndex(l)) # Blank,
         CommitOf(groupInfo.ratchetTree, Epoch, c, commit', new)
  PROVE  TreesInv'
<1> DEFINE own == Member(Epoch + 1, l, keys, new, AllHashes(new))
<1>1. /\ state' = [state EXCEPT ![c] = own]
      /\ commit'.epoch = Epoch /\ groupInfo'.ratchetTree = new /\ updates' = {}
  BY DEF Begins
<1>2. /\ own.kind = "member" /\ own.epoch = Epoch + 1 /\ own.leafIndex = l /\ own.ratchetTree = new
      /\ own.treeHashCache = AllHashes(new) /\ IsState(own)
  BY DEF Member, IsState
<1> HIDE DEF own
<1>3. Epoch = commit.epoch + 1 /\ Epoch \in Nat
  BY DEF TreesInv, Epoch
<1>4. Coherent(new, AllHashes(new))
  BY DEF Coherent, AllHashes
<1>5. HasTree(own)
  BY <1>2, <1>3, <1>4 DEF HasTree
<1>6. state' = [d \in Client |-> state'[d]] /\ \A d \in Client : state'[d] = IF d = c THEN own ELSE state[d]
  BY <1>1 DEF TreesInv
<1>7. \A d \in Client : IsState(state'[d])
  BY <1>2, <1>6 DEF TreesInv
<1>8. UpdatesFit(groupInfo'.ratchetTree, updates')
  BY <1>1 DEF UpdatesFit
<1>9. ASSUME NEW d \in Client, state'[d].kind = "member"
      PROVE  /\ HasTree(state'[d]) /\ state'[d].epoch <= commit'.epoch + 1
             /\ state'[d].epoch = commit'.epoch + 1 => state'[d].ratchetTree = groupInfo'.ratchetTree
             /\ state'[d].epoch = commit'.epoch =>
                  \E b \in Client : CommitOf(state'[d].ratchetTree, commit'.epoch, b, commit', groupInfo'.ratchetTree)
  <2>1. CASE d = c
    BY <1>1, <1>2, <1>3, <1>5, <1>6, <2>1
  <2>2. CASE d # c
    <3>1. state'[d] = state[d]
      BY <1>6, <2>2
    <3>2. HasTree(state[d]) /\ state[d].epoch <= Epoch /\ state[d].epoch \in Nat
          /\ (state[d].epoch = Epoch => state[d].ratchetTree = groupInfo.ratchetTree)
      BY <1>3, <1>9, <3>1 DEF TreesInv, HasTree
    <3> QED
      BY <1>1, <1>3, <3>1, <3>2
  <2> QED
    BY <2>1, <2>2
<1>10. commit'.epoch \in Nat /\ (\E h : IsTreeOf(groupInfo'.ratchetTree, h)) /\ scenario' \in Scenarios
  BY <1>1, <1>3 DEF TreesInv, Begins
<1> QED
  BY <1>6, <1>7, <1>8, <1>9, <1>10 DEF TreesInv

LEMMA TreesUpdateProposal ==
  ASSUME TreesInv, NEW c \in Client, CreateUpdateProposal(c)
  PROVE  TreesInv'
<1> DEFINE u == [leafIndex |-> state[c].leafIndex, leafNode |-> LeafNode(UpdateKey(Epoch, c), c)]
<1>1. /\ state[c].kind = "member" /\ state[c].epoch = Epoch
      /\ updates' = updates \union {u}
      /\ scenario' = scenario /\ state' = state /\ commit' = commit /\ groupInfo' = groupInfo
  BY DEF CreateUpdateProposal
<1>2. HasTree(state[c]) /\ state[c].ratchetTree = groupInfo.ratchetTree
  BY <1>1 DEF TreesInv, Epoch
<1>3. u.leafIndex = state[c].leafIndex /\ u.leafNode = LeafNode(UpdateKey(Epoch, c), c)
  OBVIOUS
<1> HIDE DEF u
<1>4. IsNode(u.leafNode) /\ u.leafNode # Blank
  <2>1. UpdateKey(Epoch, c) # NoKey
    BY KeysAreNotEmpty
  <2>2. IsNode(LeafNode(UpdateKey(Epoch, c), c)) /\ LeafNode(UpdateKey(Epoch, c), c) # Blank
    BY <2>1, NewNodes
  <2> QED
    BY <1>3, <2>2
<1>5. UpdatesFit(groupInfo.ratchetTree, updates \union {u})
  BY <1>2, <1>3, <1>4 DEF TreesInv, UpdatesFit, HasTree
<1>6. UpdatesFit(groupInfo'.ratchetTree, updates')
  BY <1>1, <1>5
<1>7. /\ state' = [d \in Client |-> state'[d]] /\ \A d \in Client : IsState(state'[d])
      /\ commit'.epoch \in Nat /\ (\E h : IsTreeOf(groupInfo'.ratchetTree, h)) /\ scenario' \in Scenarios
  BY <1>1 DEF TreesInv
<1>8. \A d \in Client :
        state'[d].kind = "member" =>
          /\ HasTree(state'[d]) /\ state'[d].epoch <= commit'.epoch + 1
          /\ state'[d].epoch = commit'.epoch + 1 => state'[d].ratchetTree = groupInfo'.ratchetTree
          /\ state'[d].epoch = commit'.epoch =>
               \E b \in Client : CommitOf(state'[d].ratchetTree, commit'.epoch, b, commit', groupInfo'.ratchetTree)
  <2>1. \A d \in Client :
          state[d].kind = "member" =>
            /\ HasTree(state[d]) /\ state[d].epoch <= commit.epoch + 1
            /\ state[d].epoch = commit.epoch + 1 => state[d].ratchetTree = groupInfo.ratchetTree
            /\ state[d].epoch = commit.epoch =>
                 \E b \in Client : CommitOf(state[d].ratchetTree, commit.epoch, b, commit, groupInfo.ratchetTree)
    BY DEF TreesInv
  <2> QED
    BY <1>1, <2>1
<1> QED
  BY <1>6, <1>7, <1>8 DEF TreesInv

\* A commit with proposals that validateProposals lets through.
LEMMA ProposalsFit ==
  ASSUME TreesInv, NEW c \in Client, state[c].kind = "member", state[c].epoch = Epoch,
         NEW updated \in SUBSET updates, NEW R, NEW removed \in SUBSET UNION {LeavesOf(state[c].ratchetTree, d) : d \in R},
         NEW added, Len(added) \in Nat, \A i \in 1 .. Len(added) : IsNode(added[i]) /\ added[i] # Blank,
         ValidProposals(c, updated, removed, added)
  PROVE  /\ \E h : ForTheTree(state[c].ratchetTree, h, updated, removed, added)
         /\ state[c].leafIndex \in Nat /\ state[c].leafIndex \notin removed
         /\ \A u \in updated : u.leafIndex # state[c].leafIndex
         /\ At(state[c].ratchetTree, LeafToNodeIndex(state[c].leafIndex)) # Blank
         /\ Coherent(state[c].ratchetTree, state[c].treeHashCache)
<1> DEFINE old == state[c].ratchetTree
           l == state[c].leafIndex
<1>1. HasTree(state[c]) /\ old = groupInfo.ratchetTree
  BY DEF TreesInv, Epoch
<1>2. PICK h : IsTreeOf(old, h)
  BY <1>1 DEF HasTree
<1>3. l \in Nat /\ At(old, LeafToNodeIndex(l)) # Blank /\ Coherent(old, state[c].treeHashCache)
  BY <1>1 DEF HasTree
<1>4. /\ l \notin removed /\ \A u \in updated : u.leafIndex # l
      /\ \A u \in updated : u.leafIndex \notin removed
  BY DEF ValidProposals
<1>5. UpdatesFit(old, updates)
  BY <1>1 DEF TreesInv
<1>6. removed \subseteq Nat /\ RemovedAt(removed) \subseteq Full(h)
  <2>1. \A x \in removed : \E d \in R : x \in LeavesOf(old, d)
    OBVIOUS
  <2>2. \A x \in removed : x \in Nat /\ LeafToNodeIndex(x) \in Full(h)
    BY <1>2, <2>1, LeafIndicesOf
  <2> QED
    BY <2>2 DEF RemovedAt
<1> HIDE DEF old, l
<1>7. \A u \in updated : /\ u.leafIndex \in Nat /\ LeafToNodeIndex(u.leafIndex) \in Full(h)
                         /\ old[LeafToNodeIndex(u.leafIndex)] # Blank
                         /\ IsNode(u.leafNode) /\ u.leafNode # Blank
  BY <1>2, <1>5, TreeShape DEF UpdatesFit, At
<1>8. \E x \in Full(h) : IsLeaf(x) /\ old[x] # Blank /\ x \notin RemovedAt(removed)
  <2> DEFINE s == LeafToNodeIndex(l)
  <2>1. IsLeaf(s) /\ s \in Full(h) /\ old[s] # Blank
    BY <1>2, <1>3, TreeShape, LeafNumbers DEF At
  <2>2. \A x \in removed : LeafToNodeIndex(x) # s
    BY <1>3, <1>4, <1>6, LeafNumbers
  <2> QED
    BY <2>1, <2>2 DEF RemovedAt
<1>9. ForTheTree(old, h, updated, removed, added)
  BY <1>2, <1>4, <1>6, <1>7, <1>8 DEF ForTheTree
<1> QED
  BY <1>3, <1>4, <1>9 DEF old, l

\* Client c commits at leaf l: what it puts into the commit, which takes the tree
\* of the epoch to tree and, with a path, to new, and the epoch it begins.
Commits(c, l, external, updated, removed, invited, added, tree, hasPath, keys, new) ==
  /\ EverybodyFollowed /\ l \in Nat
  /\ IF external
     THEN hasPath /\ updated = {} /\ removed = LeavesOf(groupInfo.ratchetTree, c) /\ added = <<>> /\ keys = <<>>
     ELSE /\ state[c].kind = "member" /\ state[c].epoch = Epoch
          /\ l = state[c].leafIndex /\ keys = state[c].privateKeys /\ updated \subseteq updates
  /\ Len(added) \in Nat /\ DOMAIN added = 1 .. Len(added)
  /\ \A i \in 1 .. Len(added) : /\ invited[i] \in Client /\ LeavesOf(groupInfo.ratchetTree, invited[i]) = {}
                                /\ added[i] = LeafNode(PackageKey(Epoch, invited[i]), invited[i])
  /\ \A i, j \in 1 .. Len(added) : invited[i] = invited[j] => i = j
  /\ \E k : IsTreeOf(tree, k) /\ IsTreeOf(new, k) /\ LeafToNodeIndex(l) \in Full(k)
  /\ At(new, LeafToNodeIndex(l)) # Blank
  /\ new = IF hasPath THEN PathMade(tree, l, c, Epoch) ELSE tree
  /\ Begins(c, l, external, updated, removed, added,
            IF hasPath THEN SentPath(tree, new, l, added) ELSE NoPath,
            IF hasPath THEN CommitterKeys(tree, l, keys) ELSE keys, new,
            IF hasPath THEN GetCommitSecret(new, FilteredDirectPath(l, tree)) ELSE 0,
            IF hasPath THEN Secrets(new, FilteredDirectPath(l, tree), added, TRUE) ELSE Secrets(tree, <<>>, added, FALSE))
  /\ tree = CommitTree(groupInfo.ratchetTree, Epoch, c, commit')
  /\ CommitOf(groupInfo.ratchetTree, Epoch, c, commit', new)

LEMMA CommitsKeepTrees ==
  ASSUME TreesInv, NEW c \in Client, NEW l, NEW external, NEW updated, NEW removed, NEW invited, NEW added, NEW tree,
         NEW hasPath, NEW keys, NEW new,
         Commits(c, l, external, updated, removed, invited, added, tree, hasPath, keys, new)
  PROVE  TreesInv'
<1> DEFINE path == IF hasPath THEN SentPath(tree, new, l, added) ELSE NoPath
           ks == IF hasPath THEN CommitterKeys(tree, l, keys) ELSE keys
           secret == IF hasPath THEN GetCommitSecret(new, FilteredDirectPath(l, tree)) ELSE 0
           secrets == IF hasPath THEN Secrets(new, FilteredDirectPath(l, tree), added, TRUE)
                                 ELSE Secrets(tree, <<>>, added, FALSE)
<1>1. Begins(c, l, external, updated, removed, added, path, ks, new, secret, secrets)
  BY DEF Commits
<1> HIDE DEF path, ks, secret, secrets
<1>2. /\ l \in Nat /\ At(new, LeafToNodeIndex(l)) # Blank /\ (\E k : IsTreeOf(new, k))
      /\ CommitOf(groupInfo.ratchetTree, Epoch, c, commit', new)
  BY DEF Commits
<1>3. PICK k : IsTreeOf(new, k)
  BY <1>2
<1> QED
  BY <1>1, <1>2, <1>3, BeginsKeepsTrees

LEMMA MemberCommits ==
  ASSUME TreesInv, NEW c \in Client, CreateCommit(c)
  PROVE  \E updated, removed, invited, added, tree, hasPath, new :
           Commits(c, state[c].leafIndex, FALSE, updated, removed, invited, added, tree, hasPath,
                   state[c].privateKeys, new)
<1> DEFINE old == state[c].ratchetTree
           l == state[c].leafIndex
           open(R) == UNION {LeavesOf(old, d) : d \in R}
           free == {d \in scenario.invited : LeavesOf(old, d) = {}}
           Added(invited) == [i \in DOMAIN invited |-> LeafNode(PackageKey(Epoch, invited[i]), invited[i])]
<1>1. state[c].kind = "member" /\ state[c].epoch = Epoch /\ EverybodyFollowed
  BY DEF CreateCommit
<1>2. PICK updated \in SUBSET updates, removed \in SUBSET open(scenario.removable),
           invited \in SetToAllKPermutations(free), patched \in BOOLEAN :
        /\ ValidProposals(c, updated, removed, invited)
        /\ \E added \in {Added(invited)} :
             \E tree \in {ApplyTreeMutations(old, updated, removed, added)},
                hasPath \in {NeedsUpdatePath(updated, removed, added) \/ patched} :
               \E cache \in {DeriveTreeHashCache(tree, state[c].treeHashCache,
                                                 Touched(tree, updated, removed, added)
                                                   \union IF hasPath THEN {l} ELSE {})} :
                 IF hasPath
                 THEN CommitPath(c, l, FALSE, updated, removed, added, tree, cache, state[c].privateKeys)
                 ELSE CommitWithoutPath(c, updated, removed, added, tree, cache)
  BY DEF CreateCommit
<1> DEFINE added == Added(invited)
           tree == ApplyTreeMutations(old, updated, removed, added)
           hasPath == NeedsUpdatePath(updated, removed, added) \/ patched
           T == Touched(tree, updated, removed, added) \union IF hasPath THEN {l} ELSE {}
           cache == DeriveTreeHashCache(tree, state[c].treeHashCache, T)
<1>3. IF hasPath
      THEN CommitPath(c, l, FALSE, updated, removed, added, tree, cache, state[c].privateKeys)
      ELSE CommitWithoutPath(c, updated, removed, added, tree, cache)
  BY <1>2
<1>4. /\ Len(added) \in Nat /\ DOMAIN added = 1 .. Len(added) /\ Len(invited) = Len(added)
      /\ \A i \in 1 .. Len(added) : IsNode(added[i]) /\ added[i] # Blank
      /\ \A i \in 1 .. Len(added) : /\ invited[i] \in Client /\ LeavesOf(old, invited[i]) = {}
                                    /\ added[i] = LeafNode(PackageKey(Epoch, invited[i]), invited[i])
      /\ \A i, j \in 1 .. Len(added) : invited[i] = invited[j] => i = j
  <2>0. free \subseteq Client
    BY ScenariosAssumption DEF TreesInv
  <2>1. IsFiniteSet(free)
    BY <2>0, ClientAssumption, FS_Subset
  <2>1b. \A d \in free : d \in Client /\ LeavesOf(old, d) = {}
    BY <2>0
  <2>1a. invited \in SetToAllKPermutations(free)
    BY <1>2
  <2> HIDE DEF free
  <2>2. /\ Len(added) \in Nat /\ DOMAIN added = 1 .. Len(added) /\ Len(invited) = Len(added)
        /\ \A i \in 1 .. Len(added) : invited[i] \in free /\ added[i] = LeafNode(PackageKey(Epoch, invited[i]), invited[i])
        /\ \A i, j \in 1 .. Len(added) : invited[i] = invited[j] => i = j
    <3>1. added = [i \in DOMAIN invited |-> LeafNode(PackageKey(Epoch, invited[i]), invited[i])]
      OBVIOUS
    <3> HIDE DEF added
    <3>2. LeafNodesOf(free, invited, Epoch, added)
      BY <2>1, <2>1a, <3>1, InvitedLeafNodes
    <3> QED
      BY <3>2 DEF LeafNodesOf
  <2> HIDE DEF added
  <2>3. ASSUME NEW i \in 1 .. Len(added)  PROVE IsNode(added[i]) /\ added[i] # Blank
    <3>1. added[i] = LeafNode(PackageKey(Epoch, invited[i]), invited[i]) /\ PackageKey(Epoch, invited[i]) # NoKey
      BY <2>2, KeysAreNotEmpty
    <3> QED
      BY <3>1, NewNodes
  <2> QED
    BY <2>1b, <2>2, <2>3
<1> HIDE DEF added
<1>5. ValidProposals(c, updated, removed, added)
  BY <1>2, <1>4 DEF ValidProposals
<1>6. /\ \E h : ForTheTree(old, h, updated, removed, added)
      /\ l \in Nat /\ l \notin removed /\ \A u \in updated : u.leafIndex # l
      /\ At(old, LeafToNodeIndex(l)) # Blank /\ Coherent(old, state[c].treeHashCache)
  BY <1>1, <1>4, <1>5, ProposalsFit
<1>7. old = groupInfo.ratchetTree
  BY <1>1 DEF TreesInv, Epoch
<1> HIDE DEF old, l, cache, T
<1>8. PICK h : ForTheTree(old, h, updated, removed, added)
  BY <1>6
<1>9. Prepared(old, tree, Touched(tree, updated, removed, added)) /\ KeepsLeaves(old, tree, removed)
  BY <1>4, <1>8, ProposalsPrepare
<1>10. PICK k : IsTreeOf(tree, k)
  BY <1>9 DEF Prepared
<1>11. LeafToNodeIndex(l) \in Nat /\ IsLeaf(LeafToNodeIndex(l)) /\ IsTreeOf(old, h) /\ removed \subseteq Nat
  BY <1>6, <1>8, LeafNumbers DEF ForTheTree
<1>12. At(tree, LeafToNodeIndex(l)) # Blank
  <2>1. \A x \in removed : LeafToNodeIndex(x) # LeafToNodeIndex(l)
    BY <1>6, <1>11, LeafNumbers
  <2> QED
    BY <1>6, <1>9, <1>11, <2>1 DEF KeepsLeaves, RemovedAt
<1>13. LeafToNodeIndex(l) \in Full(k)
  BY <1>10, <1>12, TreeShape DEF At
<1>14. T \subseteq Nat /\ Stable(old, tree, T)
  BY <1>6, <1>9 DEF T, Prepared, Stable
<1> HIDE DEF tree, hasPath
<1>15. Coherent(tree, cache)
  BY <1>6, <1>10, <1>11, <1>14, DerivedCacheIsCoherent DEF cache
<1>16. CASE hasPath
  <2> DEFINE new == PathMade(tree, l, c, Epoch)
             path == SentPath(tree, new, l, added)
             keys == CommitterKeys(tree, l, state[c].privateKeys)
             secret == GetCommitSecret(new, FilteredDirectPath(l, tree))
             secrets == Secrets(new, FilteredDirectPath(l, tree), added, TRUE)
  <2>1. l \in T
    BY <1>16 DEF T
  <2>2. IsTreeOf(new, k) /\ Coherent(new, cache)
    BY <1>6, <1>10, <1>11, <1>13, <1>14, <2>1, CachedForPath DEF cache
  <2>3. CommitPath(c, l, FALSE, updated, removed, added, tree, cache, state[c].privateKeys)
    BY <1>3, <1>16
  <2>4. Begins(c, l, FALSE, updated, removed, added, path, keys, new, secret, secrets)
    BY <1>6, <1>10, <1>13, <1>15, <2>2, <2>3, PathCommitted
  <2> HIDE DEF path, keys, secret, secrets
  <2>5. /\ commit'.sender = l /\ commit'.external = FALSE /\ commit'.updates = updated /\ commit'.removes = removed
        /\ commit'.adds = added /\ commit'.path = path
    BY <2>4 DEF Begins
  <2>6. CommitTree(old, Epoch, c, commit') = tree
    BY <2>5 DEF CommitTree, Proposing, tree
  <2>7. CommitOf(old, Epoch, c, commit', new)
    BY <1>4, <1>6, <1>8, <1>10, <1>13, <2>5, <2>6, PathCommitOf DEF path
  <2>8. At(new, LeafToNodeIndex(l)) # Blank
    BY <1>6, <1>10, <1>13, <2>2, PathLeafNode, TreeShape DEF At
  <2>9. new = IF hasPath THEN PathMade(tree, l, c, Epoch) ELSE tree
    BY <1>16
  <2> HIDE DEF new
  <2>10. Begins(c, l, FALSE, updated, removed, added,
                IF hasPath THEN SentPath(tree, new, l, added) ELSE NoPath,
                IF hasPath THEN CommitterKeys(tree, l, state[c].privateKeys) ELSE state[c].privateKeys, new,
                IF hasPath THEN GetCommitSecret(new, FilteredDirectPath(l, tree)) ELSE 0,
                IF hasPath THEN Secrets(new, FilteredDirectPath(l, tree), added, TRUE)
                           ELSE Secrets(tree, <<>>, added, FALSE))
    BY <1>16, <2>4 DEF path, keys, secret, secrets
  <2>11. Commits(c, l, FALSE, updated, removed, invited, added, tree, hasPath, state[c].privateKeys, new)
    BY <1>1, <1>2, <1>4, <1>6, <1>7, <1>10, <1>13, <2>2, <2>6, <2>7, <2>8, <2>9, <2>10 DEF Commits, l
  <2> QED
    BY <2>11 DEF l
<1>17. CASE ~hasPath
  <2> DEFINE secrets == Secrets(tree, <<>>, added, FALSE)
  <2>1. Begins(c, l, FALSE, updated, removed, added, NoPath, state[c].privateKeys, tree, 0, secrets)
    BY <1>3, <1>10, <1>15, <1>17, CommittedWithoutPath DEF l
  <2> HIDE DEF secrets
  <2>2. /\ commit'.sender = l /\ commit'.external = FALSE /\ commit'.updates = updated /\ commit'.removes = removed
        /\ commit'.adds = added /\ commit'.path = NoPath
    BY <2>1 DEF Begins
  <2>3. updated = {} /\ removed = {}
    BY <1>17 DEF hasPath, NeedsUpdatePath
  <2>4. CommitOf(old, Epoch, c, commit', tree)
    BY <1>4, <1>6, <1>8, <2>2, <2>3 DEF CommitOf, Proposing, tree
  <2>5. CommitTree(old, Epoch, c, commit') = tree
    BY <2>2 DEF CommitTree, Proposing, tree
  <2>6. tree = IF hasPath THEN PathMade(tree, l, c, Epoch) ELSE tree
    BY <1>17
  <2>7. Begins(c, l, FALSE, updated, removed, added,
                IF hasPath THEN SentPath(tree, tree, l, added) ELSE NoPath,
                IF hasPath THEN CommitterKeys(tree, l, state[c].privateKeys) ELSE state[c].privateKeys, tree,
                IF hasPath THEN GetCommitSecret(tree, FilteredDirectPath(l, tree)) ELSE 0,
                IF hasPath THEN Secrets(tree, FilteredDirectPath(l, tree), added, TRUE)
                           ELSE Secrets(tree, <<>>, added, FALSE))
    BY <1>17, <2>1 DEF secrets
  <2>8. Commits(c, l, FALSE, updated, removed, invited, added, tree, hasPath, state[c].privateKeys, tree)
    BY <1>1, <1>2, <1>4, <1>6, <1>7, <1>10, <1>12, <1>13, <2>4, <2>5, <2>6, <2>7 DEF Commits, l
  <2> QED
    BY <2>8 DEF l
<1> QED
  BY <1>16, <1>17

\* Somebody is left when an external committer's old leaf goes.
LEMMA LeavesRemain ==
  ASSUME NEW t, NEW h, IsTreeOf(t, h), NEW c, Cardinality(Leaves(t)) > Cardinality(LeavesOf(t, c))
  PROVE  \E x \in Full(h) : IsLeaf(x) /\ t[x] # Blank /\ x \notin RemovedAt(LeavesOf(t, c))
<1> SUFFICES ASSUME \A x \in Full(h) : IsLeaf(x) /\ t[x] # Blank => x \in RemovedAt(LeavesOf(t, c))
             PROVE  FALSE
  OBVIOUS
<1> DEFINE L == Leaves(t)
           R == LeavesOf(t, c)
           f == [x \in L |-> NodeToLeafIndex(x)]
<1>1. DOMAIN t = Full(h) /\ Full(h) \subseteq Nat /\ h \in Nat /\ 2^(h + 1) \in Nat
  BY TreeShape
<1>2. L \subseteq Full(h) /\ \A x \in L : x \in Nat /\ IsLeaf(x) /\ t[x] # Blank
  BY <1>1 DEF Leaves, NonBlank
<1>3. IsFiniteSet(L)
  <2>1. IsFiniteSet(Full(h))
    BY <1>1, FS_Interval DEF Full
  <2> QED
    BY <1>2, <2>1, FS_Subset
<1>4. f \in [L -> R]
  <2> SUFFICES ASSUME NEW x \in L  PROVE NodeToLeafIndex(x) \in R
    OBVIOUS
  <2>1. PICK l \in R : x = LeafToNodeIndex(l)
    BY <1>2 DEF RemovedAt
  <2>2. l \in Nat
    BY LeafIndicesOf
  <2> QED
    BY <2>1, <2>2, LeafNumbers
<1>5. \A x, y \in L : f[x] = f[y] => x = y
  BY <1>2, LeafNodesNumber
<1>6. \A r \in R : \E x \in L : f[x] = r
  BY DEF LeavesOf
<1> HIDE DEF L, R, f
<1>7. f \in Surjection(L, R)
  BY <1>4, <1>6 DEF Surjection
<1>8. f \in Injection(L, R)
  BY <1>4, <1>5 DEF Injection, IsInjective
<1>9. Cardinality(R) = Cardinality(L) /\ Cardinality(L) \in Nat
  BY <1>3, <1>7, <1>8, FS_Surjection, FS_CardinalityType
<1> QED
  BY <1>9 DEF L, R

LEMMA EmptyCacheIsCoherent ==
  \A t : Coherent(t, EmptyCache)
BY DEF Coherent, EmptyCache

LEMMA NewcomerCommits ==
  ASSUME TreesInv, NEW c \in Client, JoinGroupExternal(c)
  PROVE  \E l, tree, new :
           Commits(c, l, TRUE, {}, LeavesOf(groupInfo.ratchetTree, c), <<>>, <<>>, tree, TRUE, <<>>, new)
<1> DEFINE old == groupInfo.ratchetTree
           removed == LeavesOf(old, c)
           left == RemoveLeafNodes(old, removed)
           at == FindBlankLeafNodeIndexOrExtend(left)
           l == NodeToLeafIndex(at)
           own == LeafNode(PackageKey(Epoch, c), c)
           tree == AddLeafNode(left, own)
           new == PathMade(tree, l, c, Epoch)
           path == SentPath(tree, new, l, <<>>)
           keys == CommitterKeys(tree, l, <<>>)
           secret == GetCommitSecret(new, FilteredDirectPath(l, tree))
           secrets == Secrets(new, FilteredDirectPath(l, tree), <<>>, TRUE)
<1>1. Cardinality(Leaves(old)) > Cardinality(removed)
  BY DEF JoinGroupExternal
<1>2. CommitPath(c, l, TRUE, {}, removed, <<>>, tree, EmptyCache, <<>>)
  BY DEF JoinGroupExternal
<1>3. PICK h : IsTreeOf(old, h)
  BY DEF TreesInv
<1>4. ForTheTree(old, h, {}, removed, <<>>)
  <2>1. removed \subseteq Nat /\ RemovedAt(removed) \subseteq Full(h)
    BY <1>3, LeafIndicesOf DEF RemovedAt
  <2>2. \E x \in Full(h) : IsLeaf(x) /\ old[x] # Blank /\ x \notin RemovedAt(removed)
    BY <1>1, <1>3, LeavesRemain
  <2> HIDE DEF old, removed
  <2>3. Len(<<>>) \in Nat /\ \A i \in 1 .. Len(<<>>) : FALSE
    OBVIOUS
  <2> QED
    BY <1>3, <2>1, <2>2, <2>3 DEF ForTheTree
<1> HIDE DEF removed, own
<1>5. ApplyTreeMutations(old, {}, removed, <<>>) = left
  BY <1>3, RemovalsOnly
<1>6. PICK j : IsTreeOf(left, j)
  <2>1. DOMAIN <<>> = 1 .. Len(<<>>)
    OBVIOUS
  <2>2. Prepared(old, left, Touched(left, {}, removed, <<>>))
    BY <1>4, <1>5, <2>1, ProposalsPrepare
  <2> QED
    BY <2>2 DEF Prepared
<1>7. IsNode(own)
  BY KeysAreNotEmpty, NewNodes DEF own
<1> HIDE DEF old, left, at, tree
<1>8. LeafAdded(left, j, own, at, tree)
  BY <1>6, <1>7, AddLeafNodeIs DEF at, tree
<1>9. PICK k : IsTreeOf(tree, k) /\ at \in Full(k)
  BY <1>8 DEF LeafAdded
<1>10. l \in Nat /\ LeafToNodeIndex(l) = at
  BY <1>8, LeafNodesNumber DEF LeafAdded
<1> HIDE DEF l
<1>11. IsTreeOf(new, k) /\ new[at] # Blank
  <2>1. NewPath(tree, k, LeafToNodeIndex(l), PathOf(tree, l), c, Epoch, new)
    BY <1>9, <1>10, PathMadeIs
  <2>2. new[LeafToNodeIndex(l)] # Blank
    BY <1>9, <1>10, PathLeafNode
  <2> HIDE DEF new
  <2> QED
    BY <1>10, <2>1, <2>2 DEF NewPath
<1>12. Begins(c, l, TRUE, {}, removed, <<>>, path, keys, new, secret, secrets)
  BY <1>2, <1>9, <1>10, EmptyCacheIsCoherent, PathCommitted
<1> HIDE DEF path, keys, secret, secrets
<1>13. /\ commit'.sender = l /\ commit'.external = TRUE /\ commit'.updates = {} /\ commit'.removes = removed
       /\ commit'.adds = <<>> /\ commit'.path = path
  BY <1>12 DEF Begins
<1>14. Proposing(old, commit') = left
  BY <1>5, <1>13 DEF Proposing
<1>15. CommitTree(old, Epoch, c, commit') = tree
  BY <1>13, <1>14 DEF CommitTree, tree, own
<1>16. CommitOf(old, Epoch, c, commit', new)
  <2>1. DOMAIN <<>> = 1 .. Len(<<>>)
    OBVIOUS
  <2> QED
    BY <1>4, <1>9, <1>10, <1>13, <1>14, <1>15, <2>1, PathCommitOf DEF path, at
<1>17. At(new, at) # Blank
  BY <1>9, <1>11, TreeShape DEF At
<1> HIDE DEF new
<1>18. new = PathMade(tree, l, c, Epoch)
  BY DEF new
<1>19. Begins(c, l, TRUE, {}, removed, <<>>, SentPath(tree, new, l, <<>>), CommitterKeys(tree, l, <<>>), new,
              GetCommitSecret(new, FilteredDirectPath(l, tree)), Secrets(new, FilteredDirectPath(l, tree), <<>>, TRUE))
  BY <1>12 DEF path, keys, secret, secrets
<1>20. EverybodyFollowed
  BY DEF JoinGroupExternal
<1>21. Len(<<>>) \in Nat /\ DOMAIN <<>> = 1 .. Len(<<>>) /\ ~ \E i \in 1 .. Len(<<>>) : TRUE
  OBVIOUS
<1>22. Commits(c, l, TRUE, {}, removed, <<>>, <<>>, tree, TRUE, <<>>, new)
  BY <1>9, <1>10, <1>11, <1>15, <1>16, <1>17, <1>18, <1>19, <1>20, <1>21 DEF Commits, old, removed
<1> QED
  BY <1>22 DEF old, removed

\* A step of one client within an epoch.
LEMMA OneMovesOn ==
  ASSUME TreesInv, NEW c \in Client, NEW p, state' = [state EXCEPT ![c] = p], IsState(p),
         p.kind = "member" => /\ HasTree(p) /\ p.epoch = commit.epoch + 1
                              /\ p.ratchetTree = groupInfo.ratchetTree,
         scenario' = scenario, updates' = updates, commit' = commit, groupInfo' = groupInfo
  PROVE  TreesInv'
<1>1. state' = [d \in Client |-> state'[d]] /\ \A d \in Client : state'[d] = IF d = c THEN p ELSE state[d]
  BY DEF TreesInv
<1>2. \A d \in Client : IsState(state'[d])
  BY <1>1 DEF TreesInv
<1>3. UpdatesFit(groupInfo'.ratchetTree, updates')
  BY DEF TreesInv
<1>4. ASSUME NEW d \in Client, state'[d].kind = "member"
      PROVE  /\ HasTree(state'[d]) /\ state'[d].epoch <= commit'.epoch + 1
             /\ state'[d].epoch = commit'.epoch + 1 => state'[d].ratchetTree = groupInfo'.ratchetTree
             /\ state'[d].epoch = commit'.epoch =>
                  \E b \in Client : CommitOf(state'[d].ratchetTree, commit'.epoch, b, commit', groupInfo'.ratchetTree)
  <2>0. commit.epoch \in Nat
    BY DEF TreesInv
  <2>1. CASE d = c
    <3>1. state'[d] = p
      BY <1>1, <2>1
    <3>2. HasTree(p) /\ p.epoch = commit.epoch + 1 /\ p.ratchetTree = groupInfo.ratchetTree
      BY <1>4, <3>1
    <3> QED
      BY <2>0, <3>1, <3>2
  <2>2. CASE d # c
    <3>1. state'[d] = state[d]
      BY <1>1, <2>2
    <3>2. /\ HasTree(state[d]) /\ state[d].epoch <= commit.epoch + 1
          /\ state[d].epoch = commit.epoch + 1 => state[d].ratchetTree = groupInfo.ratchetTree
          /\ state[d].epoch = commit.epoch =>
               \E b \in Client : CommitOf(state[d].ratchetTree, commit.epoch, b, commit, groupInfo.ratchetTree)
      BY <1>4, <3>1 DEF TreesInv
    <3> QED
      BY <3>1, <3>2
  <2> QED
    BY <2>1, <2>2
<1>5. commit'.epoch \in Nat /\ (\E h : IsTreeOf(groupInfo'.ratchetTree, h)) /\ scenario' \in Scenarios
  BY DEF TreesInv
<1> QED
  BY <1>1, <1>2, <1>3, <1>4, <1>5 DEF TreesInv

-----------------------------------------------------------------------------
(***************************************************************************)
(* Following a commit: the tree is the committer's, and the keys are those *)
(* of the path from where it meets the member's.                           *)
(***************************************************************************)
FollowedPath(c) == FilteredDirectPath(commit.sender, FollowedTree(state[c].ratchetTree, commit))

Match(c) == FirstMatch(FollowedTree(state[c].ratchetTree, commit), FollowedPath(c), state[c].leafIndex)

NotEncryptedTo(c) ==
  IF commit.external
  THEN {FindBlankLeafNodeIndexOrExtend(Proposed(c))}
  ELSE {LeafToNodeIndex(l) : l \in AddedLeaves(Proposed(c), commit.adds)}

FollowerKeys(c, new) ==
  IF commit.path = NoPath THEN KeysWithUpdate(c)
  ELSE KeysFrom(commit.epoch, PathToRoot(new, FollowedPath(c)[Match(c)].nodeIndex), Match(c)) ++ KeysWithUpdate(c)

FollowedAs(c, p) ==
  LET new == groupInfo.ratchetTree
  IN  /\ p = Member(Epoch, state[c].leafIndex, FollowerKeys(c, new), new, AllHashes(new))
      /\ At(Proposing(state[c].ratchetTree, commit), OwnLeaf(c)) # Blank
      /\ commit.path # NoPath =>
           /\ Len(FollowedPath(c)) = Len(commit.path.nodes)
           /\ Match(c) # 0 /\ DecryptsPath(FollowedPath(c), KeysWithUpdate(c), Match(c), NotEncryptedTo(c))

LEMMA ProcessedIs ==
  ASSUME TreesInv, NEW c \in Client, state[c].kind = "member", state[c].epoch = commit.epoch, NEW p \in Processed(c)
  PROVE  FollowedAs(c, p)
<1> DEFINE old == state[c].ratchetTree
           u == FollowedTree(old, commit)
           d == DeriveTreeHashCache(u, state[c].treeHashCache, TouchedLeaves(u, commit))
           new == groupInfo.ratchetTree
           kw == KeysWithUpdate(c)
           fdp == FollowedPath(c)
           match == Match(c)
           leaf == state[c].leafIndex
           excluded == NotEncryptedTo(c)
<1>1. PICK a \in Client : CommitOf(old, commit.epoch, a, commit, new)
  BY DEF TreesInv
<1>2. Coherent(old, state[c].treeHashCache)
  BY DEF TreesInv, HasTree
<1>3. PICK k : Follows(u, k, d, commit, new)
  BY <1>1, <1>2, CommitCanBeFollowed
<1>4. Proposed(c) = Proposing(old, commit)
  BY DEF Proposed, Proposing
<1>5. p \in Follow(c, Proposed(c), kw) /\ OwnLeaf(c) \in NonBlank(Proposed(c))
  BY DEF Processed
<1>6. At(Proposing(old, commit), OwnLeaf(c)) # Blank
  BY <1>4, <1>5 DEF NonBlank, At
<1>7. u = IF commit.external THEN AddLeafNode(Proposed(c), commit.path.leafNode) ELSE Proposed(c)
  BY <1>4 DEF FollowedTree
<1>8. d = DeriveTreeHashCache(u, state[c].treeHashCache, TouchedBy(u))
  BY DEF TouchedBy, TouchedLeaves
<1>9. fdp = FilteredDirectPath(commit.sender, u) /\ match = FirstMatch(u, fdp, leaf)
  BY DEF FollowedPath, Match
<1>10. excluded = IF commit.external
                  THEN {FindBlankLeafNodeIndexOrExtend(Proposed(c))}
                  ELSE {LeafToNodeIndex(l) : l \in AddedLeaves(Proposed(c), commit.adds)}
  BY DEF NotEncryptedTo
<1> HIDE DEF u, d, kw, fdp, match, excluded
<1>11. IF commit.path = NoPath
       THEN p \in FollowWithoutPath(c, u, d, kw)
       ELSE p \in FollowPath(c, u, d, excluded, kw, fdp)
  BY <1>5, <1>7, <1>8, <1>9, <1>10 DEF Follow
<1>12. TreeHashes(u, d) = AllHashes(u) /\ TreeHashes(new, d) = AllHashes(new) /\ IsTreeOf(u, k)
  BY <1>3, TreeHashesAre DEF Follows
<1>13. CASE commit.path = NoPath
  <2>1. u = new
    BY <1>3, <1>13 DEF Follows
  <2>2. p = Member(Epoch, leaf, kw, new, AllHashes(new))
    BY <1>11, <1>12, <1>13, <2>1 DEF FollowWithoutPath
  <2>3. FollowerKeys(c, new) = kw
    BY <1>13 DEF FollowerKeys, kw
  <2> QED
    BY <1>6, <1>13, <2>2, <2>3 DEF FollowedAs
<1>14. CASE commit.path # NoPath
  <2> DEFINE keys == [i \in DOMAIN fdp |-> commit.path.nodes[i].key]
             made == InsertParentHashes(InsertPathKeys(u, commit.sender, commit.path.leafNode, NodesOf(fdp), keys),
                                        TreeHashes(u, d), ToSet(NodesOf(fdp)))
  <2>1. /\ Len(fdp) = Len(commit.path.nodes) /\ match # 0 /\ DecryptsPath(fdp, kw, match, excluded)
        /\ \E n \in ApplyUpdatePath(u, d, commit.path, fdp) :
             \E hashes \in {TreeHashes(n, d)} :
               p = Member(Epoch, leaf, KeysFrom(commit.epoch, PathToRoot(n, fdp[match].nodeIndex), match) ++ kw, n, hashes)
    BY <1>9, <1>11, <1>14 DEF FollowPath
  <2>2. ApplyUpdatePath(u, d, commit.path, fdp) \subseteq {made}
    BY DEF ApplyUpdatePath
  <2>3. PathOf(u, commit.sender) = NodesOf(fdp) /\ DOMAIN NodesOf(fdp) = DOMAIN fdp
    BY <1>9 DEF PathOf, NodesOf
  <2>4. \A i \in DOMAIN PathOf(u, commit.sender) : keys[i] = commit.path.nodes[i].key
    BY <2>3
  <2>5. made = PathRebuilt(u, commit.sender, commit.path.leafNode, keys)
    BY <1>12, <2>3 DEF PathRebuilt
  <2> HIDE DEF keys, made
  <2>6. made = new
    BY <1>3, <1>14, <2>4, <2>5 DEF Follows
  <2>7. p = Member(Epoch, leaf, KeysFrom(commit.epoch, PathToRoot(new, fdp[match].nodeIndex), match) ++ kw,
                   new, AllHashes(new))
    BY <1>12, <2>1, <2>2, <2>6
  <2>8. FollowerKeys(c, new) = KeysFrom(commit.epoch, PathToRoot(new, fdp[match].nodeIndex), match) ++ kw
    BY <1>14 DEF FollowerKeys, kw, fdp, match
  <2> QED
    BY <1>6, <2>1, <2>7, <2>8 DEF FollowedAs, fdp, kw, match, excluded
<1> QED
  BY <1>13, <1>14

LEMMA AllHashesAreCoherent ==
  \A t : Coherent(t, AllHashes(t))
BY DEF Coherent, AllHashes

LEMMA MemberIs ==
  ASSUME NEW e, NEW l, NEW keys, NEW t, NEW cache
  PROVE  LET p == Member(e, l, keys, t, cache)
         IN  /\ IsState(p) /\ p.kind = "member" /\ p.epoch = e /\ p.leafIndex = l /\ p.privateKeys = keys
             /\ p.ratchetTree = t /\ p.treeHashCache = cache
BY DEF Member, IsState

LEMMA TreesProcess ==
  ASSUME TreesInv, NEW c \in Client, ProcessCommit(c)
  PROVE  TreesInv'
<1> DEFINE new == groupInfo.ratchetTree
           l == state[c].leafIndex
<1>1. /\ state[c].kind = "member" /\ state[c].epoch = commit.epoch
      /\ scenario' = scenario /\ updates' = updates /\ commit' = commit /\ groupInfo' = groupInfo
  BY DEF ProcessCommit
<1>2. PICK p \in Processed(c) : state' = [state EXCEPT ![c] = p]
  BY DEF ProcessCommit
<1>3. FollowedAs(c, p)
  BY <1>1, ProcessedIs
<1>4. /\ p = Member(Epoch, l, FollowerKeys(c, new), new, AllHashes(new))
      /\ At(Proposing(state[c].ratchetTree, commit), LeafToNodeIndex(l)) # Blank
  BY <1>3 DEF FollowedAs, OwnLeaf
<1>5. /\ IsState(p) /\ p.kind = "member" /\ p.epoch = Epoch /\ p.leafIndex = l
      /\ p.ratchetTree = new /\ p.treeHashCache = AllHashes(new)
  BY <1>4, MemberIs
<1>6. HasTree(state[c]) /\ \E a \in Client : CommitOf(state[c].ratchetTree, commit.epoch, a, commit, new)
  BY <1>1 DEF TreesInv
<1>7. l \in Nat /\ LeafToNodeIndex(l) \in Nat /\ IsLeaf(LeafToNodeIndex(l))
  BY <1>6, LeafNumbers DEF HasTree
<1>8. At(new, LeafToNodeIndex(l)) # Blank
  <2>1. PICK a \in Client : CommitOf(state[c].ratchetTree, commit.epoch, a, commit, new)
    BY <1>6
  <2> QED
    BY <1>4, <1>7, <2>1, LeavesOfCommit
<1>9. HasTree(p)
  <2>1. (\E h : IsTreeOf(new, h)) /\ Epoch \in Nat
    BY DEF TreesInv, Epoch
  <2> QED
    BY <1>5, <1>7, <1>8, <2>1, AllHashesAreCoherent DEF HasTree
<1> QED
  BY <1>1, <1>2, <1>5, <1>9, OneMovesOn DEF Epoch

LEMMA RemovedIs ==
  ASSUME NEW s, IsState(s), NEW tree
  PROVE  LET p == [s EXCEPT !.kind = "removed", !.ratchetTree = tree]
         IN  IsState(p) /\ p.kind = "removed" /\ p.privateKeys = s.privateKeys /\ p.epoch = s.epoch
<1> DEFINE p == [s EXCEPT !.kind = "removed", !.ratchetTree = tree]
           k == s.kind
           e == s.epoch
           l == s.leafIndex
           keys == s.privateKeys
           t == s.ratchetTree
           h == s.treeHashCache
<1>1. s = [kind |-> k, epoch |-> e, leafIndex |-> l, privateKeys |-> keys, ratchetTree |-> t, treeHashCache |-> h]
  BY DEF IsState
<1> HIDE DEF k, e, l, keys, t, h
<1>2. p = [kind |-> "removed", epoch |-> e, leafIndex |-> l, privateKeys |-> keys, ratchetTree |-> tree,
           treeHashCache |-> h]
  <2> DEFINE q == [s EXCEPT !.kind = "removed"]
  <2>1. q = [kind |-> "removed", epoch |-> e, leafIndex |-> l, privateKeys |-> keys, ratchetTree |-> t,
             treeHashCache |-> h]
    BY <1>1
  <2>2. p = [q EXCEPT !.ratchetTree = tree]
    BY <1>1
  <2> HIDE DEF q
  <2> QED
    BY <2>1, <2>2
<1>3. s.privateKeys = keys /\ s.epoch = e
  BY <1>1
<1> HIDE DEF p
<1>4. IsState(p) /\ p.kind = "removed" /\ p.privateKeys = keys /\ p.epoch = e
  BY <1>2 DEF IsState
<1> QED
  BY <1>3, <1>4 DEF p

LEMMA TreesRemoval ==
  ASSUME TreesInv, NEW c \in Client, ProcessRemoval(c)
  PROVE  TreesInv'
<1>1. scenario' = scenario /\ updates' = updates /\ commit' = commit /\ groupInfo' = groupInfo
  BY DEF ProcessRemoval
<1>2. PICK tree : state' = [state EXCEPT ![c].kind = "removed", ![c].ratchetTree = tree]
  BY DEF ProcessRemoval
<1> DEFINE p == [state[c] EXCEPT !.kind = "removed", !.ratchetTree = tree]
<1>3. state' = [state EXCEPT ![c] = p]
  BY <1>2 DEF TreesInv
<1>4. IsState(p) /\ p.kind = "removed"
  BY RemovedIs DEF TreesInv
<1> QED
  BY <1>1, <1>3, <1>4, OneMovesOn

LEMMA TreesJoin ==
  ASSUME TreesInv, NEW c \in Client, JoinGroup(c)
  PROVE  TreesInv'
<1> DEFINE new == groupInfo.ratchetTree
<1>1. scenario' = scenario /\ updates' = updates /\ commit' = commit /\ groupInfo' = groupInfo
  BY DEF JoinGroup
<1>2. PICK p \in JoinedBy(c) : state' = [state EXCEPT ![c] = p]
  BY DEF JoinGroup
<1>3. PICK h : IsTreeOf(new, h)
  BY DEF TreesInv
<1>4. \E l \in LeavesOf(new, c) : \E keys : p = Member(Epoch, l, keys, new, TreeHashes(new, EmptyCache))
  BY DEF JoinedBy, Joined
<1>5. PICK l \in LeavesOf(new, c) : \E keys : p = Member(Epoch, l, keys, new, AllHashes(new))
  BY <1>3, <1>4, EmptyCacheIsCoherent, TreeHashesAre
<1>6. /\ IsState(p) /\ p.kind = "member" /\ p.epoch = Epoch /\ p.leafIndex = l
      /\ p.ratchetTree = new /\ p.treeHashCache = AllHashes(new)
  BY <1>5, MemberIs
<1>7. l \in Nat /\ At(new, LeafToNodeIndex(l)) # Blank
  BY <1>3, LeafIndicesOf
<1>8. HasTree(p)
  <2>1. Epoch \in Nat
    BY DEF TreesInv, Epoch
  <2> QED
    BY <1>3, <1>6, <1>7, <2>1, AllHashesAreCoherent DEF HasTree
<1> QED
  BY <1>1, <1>2, <1>6, <1>8, OneMovesOn DEF Epoch

\* The tree of the founders: their leaf nodes, each at a leaf.
LEMMA FoundingTreeIs ==
  ASSUME scenario \in Scenarios
  PROVE  /\ \E h : IsTreeOf(FoundingTree, h)
         /\ \A c \in ToSet(scenario.founders) : LeavesOf(FoundingTree, c) # {}
         /\ \A x \in Nat : At(FoundingTree, x) # Blank =>
              \E i \in 1 .. Len(scenario.founders) : IsLeaf(x) /\ At(FoundingTree, x) = Founding(i)
         /\ \A x, y \in Nat : At(FoundingTree, x) # Blank /\ At(FoundingTree, x) = At(FoundingTree, y) => x = y
<1> DEFINE f == scenario.founders
           t == [n \in {0} |-> Founding(1)]
           added == [i \in 1 .. Len(f) - 1 |-> Founding(i + 1)]
           r == FoundingTree
           n == Len(f) - 1
<1>1. f \in Seq(Client) /\ Len(f) \in Nat /\ Len(f) > 1 /\ IsInjective(f) /\ DOMAIN f = 1 .. Len(f)
  BY ScenariosAssumption
<1>2. n \in Nat
  BY <1>1
<1>3. \A i \in 1 .. Len(f) : /\ IsNode(Founding(i)) /\ Founding(i) # Blank /\ Founding(i).client = f[i]
  <2> TAKE i \in 1 .. Len(f)
  <2>1. Founding(i) = LeafNode(PackageKey(0, f[i]), f[i]) /\ PackageKey(0, f[i]) # NoKey
    BY KeysAreNotEmpty DEF Founding
  <2>2. LeafNode(PackageKey(0, f[i]), f[i]).client = f[i]
    BY DEF LeafNode
  <2> QED
    BY <2>1, <2>2, NewNodes
<1>4. \A i, j \in 1 .. Len(f) : Founding(i) = Founding(j) => i = j
  <2>1. \A i, j \in 1 .. Len(f) : f[i] = f[j] => i = j
    BY <1>1 DEF IsInjective
  <2> QED
    BY <1>3, <2>1
<1>5. Full(0) = {0} /\ IsLeaf(0) /\ Block(0) = {0}
  <2>1. Full(0) = 0 .. 2^1 - 2 /\ 2^1 = 2
    BY DEF Full
  <2>2. IsLeaf(0)
    BY DEF IsLeaf
  <2> QED
    BY <2>1, <2>2, NodeBasics
<1>6. r = AddLeafNodes(t, added)
  BY DEF FoundingTree
<1>7. Len(added) = n /\ \A i \in 1 .. n : added[i] = Founding(i + 1)
  <2>1. added \in [1 .. n -> {Founding(i + 1) : i \in 1 .. n}]
    OBVIOUS
  <2> HIDE DEF n
  <2> QED
    BY <1>2, <2>1, FunctionIsSequence DEF n
<1> HIDE DEF n, added, f, r
<1>8. IsTreeOf(t, 0)
  BY <1>1, <1>3, <1>5 DEF IsTreeOf
<1>9. \A x \in Nat : At(t, x) = IF x = 0 THEN Founding(1) ELSE Blank
  BY DEF At
<1> HIDE DEF t
<1>10. \A i \in 1 .. n : i + 1 \in 1 .. Len(f)
  BY <1>1 DEF n
<1>11. PICK place : Grown(t, r, added, n, place)
  <2>1. \A i \in 1 .. Len(added) : IsNode(added[i]) /\ added[i] # Blank
    BY <1>3, <1>7, <1>10
  <2> QED
    BY <1>2, <1>6, <1>7, <1>8, <2>1, AddLeafNodesIs
<1>12. PICK h : IsTreeOf(r, h)
  BY <1>11 DEF Grown
<1>13. \A i \in 1 .. n : place[i] \in Nat /\ IsLeaf(place[i]) /\ place[i] # 0 /\ At(r, place[i]) = Founding(i + 1)
  BY <1>1, <1>3, <1>7, <1>9, <1>11 DEF Grown
<1>14. At(r, 0) = Founding(1)
  <2>1. LeavesBelow(place, n, 0) = {}
    BY <1>5, <1>13 DEF LeavesBelow
  <2>2. At(t, 0) = Founding(1) /\ Founding(1) # Blank /\ \A i \in 1 .. n : place[i] # 0
    BY <1>1, <1>3, <1>9, <1>13
  <2>3. Unmerging(At(t, 0), At(r, 0), LeavesBelow(place, n, 0))
    BY <1>11, <2>2 DEF Grown
  <2> QED
    BY <2>1, <2>2, <2>3 DEF Unmerging
<1>15. \A x \in Nat : x # 0 /\ (\A i \in 1 .. n : place[i] # x) => At(r, x) = Blank
  BY <1>9, <1>11 DEF Grown
<1> DEFINE Of(x, i) == IF i = 1 THEN x = 0 ELSE x = place[i - 1]
<1>16. ASSUME NEW i \in 1 .. Len(f)
       PROVE  \E x \in Nat : IsLeaf(x) /\ At(r, x) = Founding(i) /\ Of(x, i)
  <2>1. CASE i = 1
    BY <1>5, <1>14, <2>1
  <2>2. CASE i # 1
    <3>1. i - 1 \in 1 .. n /\ (i - 1) + 1 = i
      BY <1>1, <2>2 DEF n
    <3> QED
      BY <1>13, <2>2, <3>1
  <2> QED
    BY <2>1, <2>2
<1>17. ASSUME NEW x \in Nat, At(r, x) # Blank
       PROVE  \E i \in 1 .. Len(f) : IsLeaf(x) /\ At(r, x) = Founding(i) /\ Of(x, i)
  <2>1. CASE x = 0
    BY <1>1, <1>5, <1>14, <2>1
  <2>2. CASE x # 0
    <3>1. PICK j \in 1 .. n : place[j] = x
      BY <1>15, <1>17, <2>2
    <3>2. j + 1 \in 1 .. Len(f) /\ (j + 1) - 1 = j /\ j + 1 # 1
      BY <1>10, <3>1
    <3>3. IsLeaf(x) /\ At(r, x) = Founding(j + 1) /\ Of(x, j + 1)
      BY <1>13, <3>1, <3>2
    <3> QED
      BY <3>2, <3>3
  <2> QED
    BY <2>1, <2>2
<1>18. ASSUME NEW x \in Nat, NEW y \in Nat, At(r, x) # Blank, At(r, x) = At(r, y)  PROVE x = y
  <2>1. PICK i \in 1 .. Len(f) : At(r, x) = Founding(i) /\ Of(x, i)
    BY <1>17, <1>18
  <2>2. PICK j \in 1 .. Len(f) : At(r, y) = Founding(j) /\ Of(y, j)
    BY <1>17, <1>18
  <2> QED
    BY <1>4, <1>18, <2>1, <2>2
<1>19. ASSUME NEW c \in ToSet(f)  PROVE LeavesOf(r, c) # {}
  <2>1. PICK i \in 1 .. Len(f) : f[i] = c
    BY <1>1 DEF ToSet
  <2>2. PICK x \in Nat : IsLeaf(x) /\ At(r, x) = Founding(i)
    BY <1>16
  <2>3. x \in Leaves(r) /\ r[x].client = c
    BY <1>3, <2>1, <2>2 DEF At, Leaves, NonBlank
  <2> QED
    BY <2>3 DEF LeavesOf
<1> QED
  BY <1>12, <1>17, <1>18, <1>19 DEF f, r

LEMMA TreesInit ==
  ASSUME Init
  PROVE  TreesInv
<1> DEFINE r == FoundingTree
           L(c) == CHOOSE i \in LeavesOf(r, c) : TRUE
           K(c) == [n \in {LeafToNodeIndex(L(c))} |-> PackageKey(0, c)]
<1>1. scenario \in Scenarios /\ commit.epoch = 0 /\ updates = {} /\ groupInfo.ratchetTree = r
  BY DEF Init
<1>2. state = [c \in Client |-> IF c \in ToSet(scenario.founders)
                                THEN Member(1, L(c), K(c), r, TreeHashes(r, EmptyCache)) ELSE Outside]
  BY DEF Init
<1> HIDE DEF K
<1>3. PICK h : IsTreeOf(r, h)
  BY <1>1, FoundingTreeIs
<1>4. TreeHashes(r, EmptyCache) = AllHashes(r)
  BY <1>3, EmptyCacheIsCoherent, TreeHashesAre
<1>5. \A c \in ToSet(scenario.founders) : L(c) \in LeavesOf(r, c)
  BY <1>1, FoundingTreeIs
<1> HIDE DEF r, L
<1>6. \A c \in ToSet(scenario.founders) : L(c) \in Nat /\ At(r, LeafToNodeIndex(L(c))) # Blank
  BY <1>3, <1>5, LeafIndicesOf
<1>7. state = [c \in Client |-> state[c]]
  BY <1>2
<1>8. ASSUME NEW c \in Client
      PROVE  IsState(state[c]) /\ state[c].kind = "member" =>
               HasTree(state[c]) /\ state[c].epoch = 1 /\ state[c].ratchetTree = r
  <2>1. CASE c \in ToSet(scenario.founders)
    <3>1. state[c] = Member(1, L(c), K(c), r, AllHashes(r))
      BY <1>2, <1>4, <2>1
    <3>2. /\ IsState(state[c]) /\ state[c].epoch = 1 /\ state[c].leafIndex = L(c)
          /\ state[c].ratchetTree = r /\ state[c].treeHashCache = AllHashes(r)
      BY <3>1, MemberIs
    <3> QED
      BY <1>3, <1>6, <2>1, <3>2, AllHashesAreCoherent DEF HasTree
  <2>2. CASE c \notin ToSet(scenario.founders)
    <3>1. state[c] = Outside
      BY <1>2, <2>2
    <3> QED
      BY <3>1 DEF Outside, IsState
  <2> QED
    BY <2>1, <2>2
<1>9. \A c \in Client : IsState(state[c])
  <2> TAKE c \in Client
  <2>1. CASE c \in ToSet(scenario.founders)
    BY <1>2, <2>1, MemberIs
  <2>2. CASE c \notin ToSet(scenario.founders)
    BY <1>2, <2>2 DEF Outside, IsState
  <2> QED
    BY <2>1, <2>2
<1>10. UpdatesFit(groupInfo.ratchetTree, updates)
  BY <1>1 DEF UpdatesFit
<1> QED
  BY <1>1, <1>3, <1>7, <1>8, <1>9, <1>10 DEF TreesInv

LEMMA TreesStep ==
  ASSUME TreesInv, [Next]_vars
  PROVE  TreesInv'
<1>1. CASE UNCHANGED vars
  <2>1. /\ scenario' = scenario /\ state' = state /\ updates' = updates /\ commit' = commit /\ groupInfo' = groupInfo
    BY <1>1 DEF vars
  <2> QED
    BY <2>1 DEF TreesInv
<1>2. ASSUME NEW c \in Client, CreateUpdateProposal(c)  PROVE TreesInv'
  BY <1>2, TreesUpdateProposal
<1>3. ASSUME NEW c \in Client, CreateCommit(c)  PROVE TreesInv'
  BY <1>3, MemberCommits, CommitsKeepTrees
<1>4. ASSUME NEW c \in Client, JoinGroupExternal(c)  PROVE TreesInv'
  BY <1>4, NewcomerCommits, CommitsKeepTrees
<1>5. ASSUME NEW c \in Client, ProcessCommit(c)  PROVE TreesInv'
  BY <1>5, TreesProcess
<1>6. ASSUME NEW c \in Client, ProcessRemoval(c)  PROVE TreesInv'
  BY <1>6, TreesRemoval
<1>7. ASSUME NEW c \in Client, JoinGroup(c)  PROVE TreesInv'
  BY <1>7, TreesJoin
<1> QED
  BY <1>1, <1>2, <1>3, <1>4, <1>5, <1>6, <1>7 DEF Next

LEMMA TreesInvariant == Spec => []TreesInv
<1>1. Init => TreesInv
  BY TreesInit
<1>2. TreesInv /\ [Next]_vars => TreesInv'
  BY TreesStep
<1> QED
  BY <1>1, <1>2, PTL DEF Spec

(***************************************************************************)
(* For every group of clients and every sequence of commits the members of *)
(* an epoch have the same tree, parent hashes and all: what createCommit   *)
(* makes of its path, applyUpdatePath rebuilds.                            *)
(***************************************************************************)
THEOREM MembersHaveOneTree == Spec => []MembersAgree
<1>1. TreesInv => MembersAgree
  <2> SUFFICES ASSUME TreesInv, NEW c \in Client, state[c].kind = "member", state[c].epoch = Epoch
               PROVE  state[c].ratchetTree = groupInfo.ratchetTree
    BY DEF MembersAgree
  <2> QED
    BY DEF TreesInv, Epoch
<1> QED
  BY <1>1, TreesInvariant, PTL

(***************************************************************************)
(* The tree hash cache of a member never has a stale hash, whatever the    *)
(* commits updated, removed and added, with the tree growing and shrinking *)
(* (deriveTreeHashCache forgets enough).                                   *)
(***************************************************************************)
THEOREM CacheIsNeverStale == Spec => []CacheCoherent
<1>1. TreesInv => CacheCoherent
  BY DEF TreesInv, CacheCoherent, HasTree, Coherent
<1> QED
  BY <1>1, TreesInvariant, PTL

-----------------------------------------------------------------------------
(***************************************************************************)
(* What a commit changes.  The leaves it updates or removes, and that of   *)
(* the sender of a path, are renewed; a node with none of them below it is *)
(* spared, and only gets unmerged leaves.                                  *)
(***************************************************************************)
Renewed(m) ==
  UpdatedAt(m.updates) \union RemovedAt(m.removes)
    \union IF m.path = NoPath THEN {} ELSE {LeafToNodeIndex(m.sender)}

Spared(m, x) == \A n \in Renewed(m) : n \notin Block(x)

\* The leaf l of client c and its filtered path have the new keys of the commit
\* that ends epoch e; what else is above the leaf is blank.
HasPath(t, l, c, e) ==
  /\ \E h : IsTreeOf(t, h) /\ LeafToNodeIndex(l) \in Full(h) /\ Ascending(h, LeafToNodeIndex(l), PathOf(t, l))
  /\ LET leaf == At(t, LeafToNodeIndex(l))
     IN  leaf # Blank /\ leaf.key = PathKey(e, 0) /\ leaf.client = c /\ leaf.unmergedLeaves = <<>>
  /\ \A i \in DOMAIN PathOf(t, l) :
       LET node == At(t, PathOf(t, l)[i])
       IN  node # Blank /\ node.key = PathKey(e, i) /\ node.unmergedLeaves = <<>>
  /\ \A x \in Nat : /\ LeafToNodeIndex(l) \in Block(x) /\ x # LeafToNodeIndex(l)
                    /\ \A i \in DOMAIN PathOf(t, l) : PathOf(t, l)[i] # x
                    => At(t, x) = Blank

\* The nodes off the sender's path after the proposals, the added leaf nodes at these places.
Changed(old, new, m, place) ==
  /\ \A i \in 1 .. Len(m.adds) :
       /\ place[i] \in Nat /\ IsLeaf(place[i]) /\ At(new, place[i]) = m.adds[i]
       /\ At(old, place[i]) = Blank \/ place[i] \in RemovedAt(m.removes)
  /\ Packed(new, place, Len(m.adds))
  /\ \A x \in UpdatedAt(m.updates) : \E u \in m.updates : LeafToNodeIndex(u.leafIndex) = x /\ At(new, x) = u.leafNode
  /\ \A x \in Nat :
       (\A i \in 1 .. Len(m.adds) : place[i] # x)
         => /\ x \notin UpdatedAt(m.updates) /\ (\E n \in UpdatedAt(m.updates) \union RemovedAt(m.removes) : n \in Block(x))
                 /\ (m.path # NoPath => LeafToNodeIndex(m.sender) \notin Block(x))
                 => At(new, x) = Blank
            /\ Spared(m, x)
                 => IF At(old, x) = Blank THEN At(new, x) = Blank
                    ELSE Unmerging(At(old, x), At(new, x), LeavesBelow(place, Len(m.adds), x))

LEMMA PathOfCommit ==
  ASSUME NEW old, NEW e, NEW c, NEW m, NEW new, CommitOf(old, e, c, m, new), m.path # NoPath
  PROVE  /\ HasPath(new, m.sender, c, e)
         /\ \A x \in Nat : LeafToNodeIndex(m.sender) \notin Block(x) => At(new, x) = At(Proposing(old, m), x)
         /\ PathOf(new, m.sender) = PathOf(CommitTree(old, e, c, m), m.sender)
<1> DEFINE left == Proposing(old, m)
           t == CommitTree(old, e, c, m)
           s == LeafToNodeIndex(m.sender)
           nodes == PathOf(t, m.sender)
<1>1. new = PathMade(t, m.sender, c, e) /\ m.sender \in Nat
  BY DEF CommitOf
<1>2. PICK k : PathReady(t, k, s, left)
  BY CommitTreeIs
<1>3. IsTreeOf(t, k) /\ s \in Full(k) /\ k \in Nat
  BY <1>2 DEF PathReady, IsTreeOf
<1>4. NewPath(t, k, s, nodes, c, e, new) /\ Stable(t, new, {m.sender})
  BY <1>1, <1>3, PathMadeIs, StablePath
<1>5. Ascending(k, s, nodes)
  BY <1>1, <1>3, FilteredPathIs DEF PathOf
<1>6. IsTreeOf(new, k)
  BY <1>4 DEF NewPath
<1>7. PathOf(new, m.sender) = nodes
  <2>1. OffPath(k, s, t, new)
    <3> SUFFICES ASSUME NEW x \in Full(k), s \notin Block(x)  PROVE t[x] = new[x]
      BY DEF OffPath
    <3>1. x \in Nat
      BY <1>3, NodeOfTree
    <3>2. At(new, x) = At(t, x)
      BY <1>4, <3>1 DEF Stable
    <3> QED
      BY <1>3, <1>6, <3>2, TreeShape DEF At
  <2> QED
    BY <1>1, <1>3, <1>6, <2>1, FilteredPathLocal DEF PathOf
<1>8. ASSUME NEW x \in Nat, s \notin Block(x)  PROVE At(new, x) = At(left, x)
  <2>1. At(new, x) = At(t, x)
    BY <1>4, <1>8 DEF Stable
  <2>2. At(t, x) = At(left, x)
    <3>1. CASE ~m.external
      BY <3>1 DEF CommitTree
    <3>2. CASE m.external
      <4>1. t = AddLeafNode(left, LeafNode(PackageKey(e, c), c)) /\ s = FindBlankLeafNodeIndexOrExtend(left)
        BY <3>2 DEF CommitOf, CommitTree
      <4>2. IsNode(LeafNode(PackageKey(e, c), c))
        BY KeysAreNotEmpty, NewNodes
      <4>3. \E j : IsTreeOf(left, j)
        <5>1. PICK h : ForTheTree(old, h, m.updates, m.removes, m.adds)
          BY DEF CommitOf
        <5>2. DOMAIN m.adds = 1 .. Len(m.adds)
          BY DEF CommitOf
        <5> QED
          BY <5>1, <5>2, ProposalsPrepare DEF Proposing, Prepared
      <4>4. PICK j : IsTreeOf(left, j)
        BY <4>3
      <4> HIDE DEF left, t, s
      <4>5. LeafAdded(left, j, LeafNode(PackageKey(e, c), c), s, t)
        BY <4>1, <4>2, <4>4, AddLeafNodeIs
      <4>6. s \in Block(s) /\ s \in Nat
        BY <1>3, NodeOfTree, NodeBasics
      <4> QED
        BY <1>8, <4>5, <4>6 DEF LeafAdded
    <3> QED
      BY <3>1, <3>2
  <2> QED
    BY <2>1, <2>2
<1>9. \A x \in Nat : At(new, x) = IF x \in Full(k) THEN new[x] ELSE Blank
  BY <1>6, TreeShape DEF At
<1>10. s \in Nat /\ \A i \in DOMAIN nodes : nodes[i] \in Full(k) /\ nodes[i] \in Nat
  BY <1>3, <1>5, NodeOfTree DEF Ascending
<1> HIDE DEF t, s, nodes, left
<1>11. At(new, s) # Blank /\ At(new, s).key = PathKey(e, 0) /\ At(new, s).client = c /\ At(new, s).unmergedLeaves = <<>>
  <2>1. At(new, s) = [key |-> PathKey(e, 0), unmergedLeaves |-> <<>>, client |-> c, parentHash |-> new[s].parentHash]
    BY <1>3, <1>4, <1>9, <1>10 DEF NewPath
  <2>2. PathKey(e, 0) # NoKey /\ Blank.key = NoKey
    BY KeysAreNotEmpty, BlankIsNode
  <2> DEFINE hash == new[s].parentHash
  <2> HIDE DEF hash
  <2>3. At(new, s).key = PathKey(e, 0) /\ At(new, s).client = c /\ At(new, s).unmergedLeaves = <<>>
    BY <2>1
  <2> QED
    BY <2>2, <2>3
<1>12. ASSUME NEW i \in DOMAIN nodes
       PROVE  At(new, nodes[i]) # Blank /\ At(new, nodes[i]).key = PathKey(e, i) /\ At(new, nodes[i]).unmergedLeaves = <<>>
  <2>1. At(new, nodes[i]) = [key |-> PathKey(e, i), unmergedLeaves |-> <<>>, client |-> Nobody,
                             parentHash |-> new[nodes[i]].parentHash]
    BY <1>4, <1>9, <1>10 DEF NewPath
  <2>2. PathKey(e, i) # NoKey /\ Blank.key = NoKey
    BY KeysAreNotEmpty, BlankIsNode
  <2>3. At(new, nodes[i]).key = PathKey(e, i) /\ At(new, nodes[i]).unmergedLeaves = <<>>
    BY <2>1
  <2> QED
    BY <2>2, <2>3
<1>13. \A x \in Nat : s \in Block(x) /\ x # s /\ (\A i \in DOMAIN nodes : nodes[i] # x) => At(new, x) = Blank
  BY <1>4, <1>9 DEF NewPath
<1>14. HasPath(new, m.sender, c, e)
  BY <1>3, <1>5, <1>6, <1>7, <1>11, <1>12, <1>13 DEF HasPath, s
<1> QED
  BY <1>7, <1>8, <1>14 DEF s, nodes, t, left

\* Nothing of what the proposals change is at the sender's leaf.
LEMMA CommitChanges ==
  ASSUME NEW old, NEW e, NEW c, NEW m, NEW new, CommitOf(old, e, c, m, new)
  PROVE  \E place : Changed(old, new, m, place)
<1> DEFINE left == Proposing(old, m)
           s == LeafToNodeIndex(m.sender)
           U == UpdatedAt(m.updates)
           R == RemovedAt(m.removes)
           n == Len(m.adds)
<1>1. PICK h : ForTheTree(old, h, m.updates, m.removes, m.adds)
  BY DEF CommitOf
<1>2. PICK place : Mutated(old, left, m.updates, m.removes, m.adds, place)
  BY <1>1, MutationIs DEF Proposing
<1>3. m.sender \in Nat /\ s \in Nat /\ IsLeaf(s) /\ Block(s) = {s}
  BY LeafNumbers DEF CommitOf
<1>4. CASE m.path = NoPath
  <2>1. new = left /\ U = {} /\ R = {}
    BY <1>4 DEF CommitOf, UpdatedAt, RemovedAt
  <2>2. Changed(old, new, m, place)
    BY <1>2, <1>4, <2>1 DEF Changed, Mutated, Renewed, Spared
  <2> QED
    BY <2>2
<1>5. CASE m.path # NoPath
  <2>1. \A x \in Nat : s \notin Block(x) => At(new, x) = At(left, x)
    BY <1>5, PathOfCommit
  <2>2. s \notin U /\ \A i \in 1 .. n : place[i] # s
    <3>1. CASE m.external
      <4>1. m.updates = {} /\ m.adds = <<>> /\ s = FindBlankLeafNodeIndexOrExtend(left)
        BY <3>1 DEF CommitOf
      <4>2. U = {}
        BY <4>1 DEF UpdatedAt
      <4>3. n = 0
        BY <4>1
      <4> QED
        BY <4>2, <4>3
    <3>2. CASE ~m.external
      <4>1. At(old, s) # Blank /\ m.sender \notin m.removes /\ \A u \in m.updates : u.leafIndex # m.sender
        BY <3>2 DEF CommitOf
      <4>2. m.removes \subseteq Nat /\ \A u \in m.updates : u.leafIndex \in Nat
        BY <1>1 DEF ForTheTree
      <4>3. s \notin R
        <5>1. \A l \in m.removes : LeafToNodeIndex(l) # s
          BY <1>3, <4>1, <4>2, LeafNumbers
        <5> QED
          BY <5>1 DEF RemovedAt
      <4>4. s \notin U
        <5>1. \A u \in m.updates : LeafToNodeIndex(u.leafIndex) # s
          BY <1>3, <4>1, <4>2, LeafNumbers
        <5> QED
          BY <5>1 DEF UpdatedAt
      <4>5. \A i \in 1 .. n : At(old, place[i]) = Blank \/ place[i] \in R
        BY <1>2 DEF Mutated
      <4> QED
        BY <4>1, <4>3, <4>4, <4>5
    <3> QED
      BY <3>1, <3>2
  <2>3. Len(m.adds) \in Nat /\ U \subseteq Nat
    BY <1>1, LeafNumbers DEF ForTheTree, UpdatedAt
  <2> HIDE DEF s, U, R, left
  <2>4. ASSUME NEW i \in 1 .. n
        PROVE  /\ place[i] \in Nat /\ IsLeaf(place[i]) /\ At(new, place[i]) = m.adds[i]
               /\ At(old, place[i]) = Blank \/ place[i] \in R
    <3>1. place[i] \in Nat /\ IsLeaf(place[i]) /\ At(left, place[i]) = m.adds[i] /\ (At(old, place[i]) = Blank \/ place[i] \in R)
      BY <1>2 DEF Mutated, R
    <3>2. s \notin Block(place[i])
      BY <2>2, <3>1, LeafNodesNumber
    <3> QED
      BY <2>1, <3>1, <3>2
  <2>5. ASSUME NEW x \in U
        PROVE  \E u \in m.updates : LeafToNodeIndex(u.leafIndex) = x /\ At(new, x) = u.leafNode
    <3>1. PICK u \in m.updates : LeafToNodeIndex(u.leafIndex) = x /\ At(left, x) = u.leafNode
      BY <1>2 DEF Mutated, U
    <3>2. x \in Nat /\ IsLeaf(x)
      BY <1>1, <3>1, LeafNumbers DEF ForTheTree
    <3>3. s \notin Block(x)
      BY <2>2, <3>2, LeafNodesNumber
    <3> QED
      BY <2>1, <3>1, <3>2, <3>3
  <2>6. ASSUME NEW x \in Nat, \A i \in 1 .. n : place[i] # x
        PROVE  /\ x \notin U /\ (\E y \in U \union R : y \in Block(x)) /\ (m.path # NoPath => s \notin Block(x))
                    => At(new, x) = Blank
               /\ Spared(m, x)
                    => IF At(old, x) = Blank THEN At(new, x) = Blank
                       ELSE Unmerging(At(old, x), At(new, x), LeavesBelow(place, n, x))
    <3>1. /\ x \notin U /\ (\E y \in U \union R : y \in Block(x)) => At(left, x) = Blank
          /\ (\A y \in U \union R : y \notin Block(x))
               => IF At(old, x) = Blank THEN At(left, x) = Blank
                  ELSE Unmerging(At(old, x), At(left, x), LeavesBelow(place, n, x))
      BY <1>2, <2>6 DEF Mutated, U, R
    <3>2. Spared(m, x) => s \notin Block(x) /\ \A y \in U \union R : y \notin Block(x)
      BY <1>5 DEF Spared, Renewed, U, R, s
    <3> QED
      BY <1>5, <2>1, <3>1, <3>2
  <2>8. Packed(new, place, n)
    <3>1. Packed(left, place, n)
      BY <1>2 DEF Mutated
    <3>2. \A y \in Nat : IsLeaf(y) /\ At(left, y) # Blank => At(new, y) # Blank
      <4> TAKE y \in Nat
      <4> HAVE IsLeaf(y) /\ At(left, y) # Blank
      <4>1. CASE y = s
        BY <1>5, <4>1, PathOfCommit DEF HasPath, s
      <4>2. CASE y # s
        BY <2>1, <4>2, LeafNodesNumber
      <4> QED
        BY <4>1, <4>2
    <3> QED
      BY <3>1, <3>2 DEF Packed, FilledBefore
  <2>7. Changed(old, new, m, place)
    BY <2>4, <2>5, <2>6, <2>8 DEF Changed, U, R, s
  <2> QED
    BY <2>7
<1> QED
  BY <1>4, <1>5

-----------------------------------------------------------------------------
(***************************************************************************)
(* Who is to hold the keys of a tree.                                      *)
(***************************************************************************)
LeafAt(t, c, y) == y \in Nat /\ IsLeaf(y) /\ At(t, y) # Blank /\ At(t, y).client = c

HolderAt(t, c, x) ==
  \E y : /\ LeafAt(t, c, y) /\ y \in Block(x)
         /\ y = x \/ NodeToLeafIndex(y) \notin ToSet(At(t, x).unmergedLeaves)

\* A tree with keys from before epoch e: a client has one leaf, where the keys it
\* made for itself are, and unmerged leaves are below the node that lists them.
SoundTree(t, e) ==
  /\ \A c, x, y : LeafAt(t, c, x) /\ LeafAt(t, c, y) => x = y
  /\ \A x \in Nat : At(t, x) # Blank =>
       /\ At(t, x).key[2] \in Nat /\ At(t, x).key[2] < e
       /\ \A c, f : At(t, x).key = UpdateKey(f, c) \/ At(t, x).key = PackageKey(f, c) => LeafAt(t, c, x)
       /\ \A l \in ToSet(At(t, x).unmergedLeaves) : l \in Nat /\ LeafToNodeIndex(l) \in Block(x)

UpdatesOf(old, e, updated) ==
  \A u \in updated : \E d : u.leafNode = LeafNode(UpdateKey(e, d), d) /\ LeafAt(old, d, LeafToNodeIndex(u.leafIndex))

AddsOf(old, e, adds) ==
  /\ \A i \in 1 .. Len(adds) : \E d : adds[i] = LeafNode(PackageKey(e, d), d) /\ \A y : ~LeafAt(old, d, y)
  /\ \A i, j \in 1 .. Len(adds) : adds[i] = adds[j] => i = j

SenderOf(old, c, m) ==
  IF m.external THEN m.removes = LeavesOf(old, c) ELSE LeafAt(old, c, LeafToNodeIndex(m.sender))

\* The commit m of client c takes a sound tree of epoch e to the tree new.
CommitMade(old, new, e, c, m, place) ==
  /\ CommitOf(old, e, c, m, new) /\ Changed(old, new, m, place)
  /\ e \in Nat /\ SoundTree(old, e)
  /\ UpdatesOf(old, e, m.updates) /\ AddsOf(old, e, m.adds) /\ SenderOf(old, c, m)

LEMMA NodeKeys ==
  /\ \A e, f, i, c : PathKey(e, i) # UpdateKey(f, c) /\ PathKey(e, i) # PackageKey(f, c)
                     /\ UpdateKey(e, i) # PackageKey(f, c)
  /\ \A e, f, i, j : /\ PathKey(e, i) = PathKey(f, j) => e = f /\ i = j
                     /\ UpdateKey(e, i) = UpdateKey(f, j) => e = f /\ i = j
                     /\ PackageKey(e, i) = PackageKey(f, j) => e = f /\ i = j
  /\ \A e, i : PathKey(e, i)[3] = i /\ UpdateKey(e, i)[3] = i /\ PackageKey(e, i)[3] = i
  BY DEF PathKey, UpdateKey, PackageKey

LEMMA LeafNodeIs ==
  \A e, c : /\ LeafNode(UpdateKey(e, c), c) # Blank /\ LeafNode(PackageKey(e, c), c) # Blank
            /\ LeafNode(UpdateKey(e, c), c).key = UpdateKey(e, c) /\ LeafNode(PackageKey(e, c), c).key = PackageKey(e, c)
            /\ LeafNode(UpdateKey(e, c), c).client = c /\ LeafNode(PackageKey(e, c), c).client = c
            /\ LeafNode(UpdateKey(e, c), c).unmergedLeaves = <<>> /\ LeafNode(PackageKey(e, c), c).unmergedLeaves = <<>>
  BY DEF LeafNode, Blank, UpdateKey, PackageKey, NoKey

\* Where a node of the new tree comes from.
AddedNode(m, place, new, x) == \E i \in 1 .. Len(m.adds) : x = place[i] /\ At(new, x) = m.adds[i]

UpdatedNode(m, new, x) == \E u \in m.updates : x = LeafToNodeIndex(u.leafIndex) /\ At(new, x) = u.leafNode

PathNode(m, new, x) == m.path # NoPath /\ \E i \in DOMAIN PathOf(new, m.sender) : x = PathOf(new, m.sender)[i]

SenderNode(m, x) == m.path # NoPath /\ x = LeafToNodeIndex(m.sender)

KeptNode(old, new, m, place, x) ==
  /\ Spared(m, x) /\ At(old, x) # Blank /\ \A i \in 1 .. Len(m.adds) : place[i] # x
  /\ Unmerging(At(old, x), At(new, x), LeavesBelow(place, Len(m.adds), x))

LEMMA OriginOfNode ==
  ASSUME NEW old, NEW new, NEW e, NEW c, NEW m, NEW place, CommitMade(old, new, e, c, m, place),
         NEW x \in Nat, At(new, x) # Blank
  PROVE  \/ AddedNode(m, place, new, x) \/ UpdatedNode(m, new, x) \/ SenderNode(m, x) \/ PathNode(m, new, x)
         \/ KeptNode(old, new, m, place, x)
<1> DEFINE s == LeafToNodeIndex(m.sender)
           U == UpdatedAt(m.updates)
           R == RemovedAt(m.removes)
<1>1. CommitOf(old, e, c, m, new) /\ Changed(old, new, m, place)
  BY DEF CommitMade
<1>2. CASE \E i \in 1 .. Len(m.adds) : place[i] = x
  BY <1>1, <1>2 DEF Changed, AddedNode
<1>3. CASE x \in U
  BY <1>1, <1>3 DEF Changed, UpdatedNode
<1>4. CASE m.path # NoPath /\ s \in Block(x)
  BY <1>1, <1>4, PathOfCommit DEF HasPath, SenderNode, PathNode
<1>5. CASE /\ \A i \in 1 .. Len(m.adds) : place[i] # x
           /\ x \notin U /\ (m.path # NoPath => s \notin Block(x))
  <2>1. \A n \in U \union R : n \notin Block(x)
    BY <1>1, <1>5 DEF Changed
  <2>2. Spared(m, x)
    BY <1>5, <2>1 DEF Spared, Renewed
  <2> QED
    BY <1>1, <1>5, <2>2 DEF Changed, KeptNode
<1> QED
  BY <1>2, <1>3, <1>4, <1>5

\* What a node is, by where it comes from.
LEMMA NodesOfCommit ==
  ASSUME NEW old, NEW new, NEW e, NEW c, NEW m, NEW place, CommitMade(old, new, e, c, m, place), NEW x \in Nat
  PROVE  /\ AddedNode(m, place, new, x) =>
              \E d : /\ LeafAt(new, d, x) /\ At(new, x).key = PackageKey(e, d) /\ At(new, x).unmergedLeaves = <<>>
                     /\ \A y : ~LeafAt(old, d, y)
         /\ UpdatedNode(m, new, x) =>
              \E d : /\ LeafAt(new, d, x) /\ At(new, x).key = UpdateKey(e, d) /\ At(new, x).unmergedLeaves = <<>>
                     /\ LeafAt(old, d, x)
         /\ SenderNode(m, x) =>
              LeafAt(new, c, x) /\ At(new, x).key = PathKey(e, 0) /\ At(new, x).unmergedLeaves = <<>>
         /\ PathNode(m, new, x) =>
              /\ ~IsLeaf(x) /\ At(new, x) # Blank /\ \E i \in Nat : At(new, x).key = PathKey(e, i)
              /\ At(new, x).unmergedLeaves = <<>>
         /\ KeptNode(old, new, m, place, x) =>
              /\ At(new, x) # Blank /\ At(new, x).key = At(old, x).key /\ At(new, x).client = At(old, x).client
              /\ At(old, x).key[2] \in Nat /\ At(old, x).key[2] < e
<1>1. CommitOf(old, e, c, m, new) /\ Changed(old, new, m, place)
  BY DEF CommitMade
<1>2. ASSUME AddedNode(m, place, new, x)
      PROVE  \E d : /\ LeafAt(new, d, x) /\ At(new, x).key = PackageKey(e, d) /\ At(new, x).unmergedLeaves = <<>>
                    /\ \A y : ~LeafAt(old, d, y)
  <2>1. PICK i \in 1 .. Len(m.adds) : x = place[i] /\ At(new, x) = m.adds[i]
    BY <1>2 DEF AddedNode
  <2>2. PICK d : m.adds[i] = LeafNode(PackageKey(e, d), d) /\ \A y : ~LeafAt(old, d, y)
    BY DEF CommitMade, AddsOf
  <2>3. IsLeaf(x)
    BY <1>1, <2>1 DEF Changed
  <2> QED
    BY <2>1, <2>2, <2>3, LeafNodeIs DEF LeafAt
<1>3. ASSUME UpdatedNode(m, new, x)
      PROVE  \E d : /\ LeafAt(new, d, x) /\ At(new, x).key = UpdateKey(e, d) /\ At(new, x).unmergedLeaves = <<>>
                    /\ LeafAt(old, d, x)
  <2>1. PICK u \in m.updates : x = LeafToNodeIndex(u.leafIndex) /\ At(new, x) = u.leafNode
    BY <1>3 DEF UpdatedNode
  <2>2. PICK d : u.leafNode = LeafNode(UpdateKey(e, d), d) /\ LeafAt(old, d, LeafToNodeIndex(u.leafIndex))
    BY DEF CommitMade, UpdatesOf
  <2> QED
    BY <2>1, <2>2, LeafNodeIs DEF LeafAt
<1>4. ASSUME m.path # NoPath
      PROVE  HasPath(new, m.sender, c, e) /\ m.sender \in Nat
  BY <1>1, <1>4, PathOfCommit DEF CommitOf
<1>5. SenderNode(m, x) => LeafAt(new, c, x) /\ At(new, x).key = PathKey(e, 0) /\ At(new, x).unmergedLeaves = <<>>
  BY <1>4, LeafNumbers DEF SenderNode, HasPath, LeafAt
<1>6. ASSUME PathNode(m, new, x)
      PROVE  /\ ~IsLeaf(x) /\ At(new, x) # Blank /\ \E i \in Nat : At(new, x).key = PathKey(e, i)
             /\ At(new, x).unmergedLeaves = <<>>
  <2> DEFINE nodes == PathOf(new, m.sender)
  <2>1. PICK i \in DOMAIN nodes : x = nodes[i]
    BY <1>6 DEF PathNode
  <2>2. \E h : Ascending(h, LeafToNodeIndex(m.sender), nodes)
    BY <1>4, <1>6 DEF PathNode, HasPath
  <2>3. i \in Nat /\ ~IsLeaf(x)
    BY <2>1, <2>2 DEF Ascending
  <2> QED
    BY <1>4, <1>6, <2>1, <2>3 DEF PathNode, HasPath
<1>7. ASSUME KeptNode(old, new, m, place, x)
      PROVE  /\ At(new, x) # Blank /\ At(new, x).key = At(old, x).key /\ At(new, x).client = At(old, x).client
             /\ At(old, x).key[2] \in Nat /\ At(old, x).key[2] < e
  BY <1>7 DEF KeptNode, Unmerging, CommitMade, SoundTree
<1> QED
  BY <1>2, <1>3, <1>5, <1>6, <1>7

\* A client with a leaf in the new tree had it before, was added, or is a
\* newcomer who commits.
LEMMA LeafOrigin ==
  ASSUME NEW old, NEW new, NEW e, NEW c, NEW m, NEW place, CommitMade(old, new, e, c, m, place),
         NEW d, NEW x, LeafAt(new, d, x)
  PROVE  IF m.external /\ d = c THEN SenderNode(m, x)
         ELSE LeafAt(old, d, x) \/ (AddedNode(m, place, new, x) /\ \A y : ~LeafAt(old, d, y))
<1>1. CommitOf(old, e, c, m, new) /\ Changed(old, new, m, place)
  BY DEF CommitMade
<1>2. x \in Nat /\ IsLeaf(x) /\ At(new, x) # Blank /\ At(new, x).client = d
  BY DEF LeafAt
<1>3. m.external => m.path # NoPath /\ m.updates = {} /\ m.adds = <<>> /\ m.removes = LeavesOf(old, c)
  BY <1>1 DEF CommitOf, CommitMade, SenderOf
<1>4. m.external => ~UpdatedNode(m, new, x) /\ ~AddedNode(m, place, new, x)
  BY <1>3 DEF UpdatedNode, AddedNode
<1>5. \A a, b : LeafAt(new, a, x) /\ LeafAt(new, b, x) => a = b
  BY DEF LeafAt
<1>6. CASE AddedNode(m, place, new, x)
  BY <1>2, <1>4, <1>5, <1>6, NodesOfCommit
<1>7. CASE UpdatedNode(m, new, x)
  BY <1>2, <1>4, <1>5, <1>7, NodesOfCommit
<1>8. CASE SenderNode(m, x)
  <2>1. d = c
    BY <1>2, <1>5, <1>8, NodesOfCommit
  <2>2. ~m.external => LeafAt(old, c, x)
    BY <1>8 DEF CommitMade, SenderOf, SenderNode
  <2> QED
    BY <1>8, <2>1, <2>2
<1>9. CASE PathNode(m, new, x)
  BY <1>2, <1>9, NodesOfCommit
<1>10. CASE KeptNode(old, new, m, place, x)
  <2>1. LeafAt(old, d, x) /\ Spared(m, x)
    BY <1>2, <1>10, NodesOfCommit DEF LeafAt, KeptNode
  <2>2. ~(m.external /\ d = c)
    <3> SUFFICES ASSUME m.external, d = c  PROVE FALSE
      OBVIOUS
    <3>1. x \in Leaves(old) /\ old[x].client = c
      BY <2>1 DEF LeafAt, Leaves, NonBlank, At
    <3>2. NodeToLeafIndex(x) \in m.removes
      BY <1>3, <3>1 DEF LeavesOf
    <3>3. LeafToNodeIndex(NodeToLeafIndex(x)) = x /\ Block(x) = {x}
      BY <1>2, LeafNodesNumber
    <3>4. x \in Renewed(m)
      BY <3>2, <3>3 DEF Renewed, RemovedAt
    <3> QED
      BY <2>1, <3>3, <3>4 DEF Spared
  <2> QED
    BY <2>1, <2>2
<1> QED
  BY <1>2, <1>6, <1>7, <1>8, <1>9, <1>10, OriginOfNode

\* A node no commit touched below keeps its holders.
LEMMA HoldersKept ==
  ASSUME NEW old, NEW new, NEW e, NEW c, NEW m, NEW place, CommitMade(old, new, e, c, m, place),
         NEW x \in Nat, KeptNode(old, new, m, place, x), NEW d
  PROVE  HolderAt(old, d, x) <=> HolderAt(new, d, x)
<1> DEFINE before == At(old, x).unmergedLeaves
           after == At(new, x).unmergedLeaves
           below == LeavesBelow(place, Len(m.adds), x)
<1>1. CommitOf(old, e, c, m, new) /\ Changed(old, new, m, place)
  BY DEF CommitMade
<1>2. Spared(m, x) /\ ToSet(after) = ToSet(before) \union below /\ \A i \in 1 .. Len(m.adds) : place[i] # x
  BY DEF KeptNode, Unmerging
<1>3. \A i \in 1 .. Len(m.adds) : /\ place[i] \in Nat /\ IsLeaf(place[i])
                                  /\ At(old, place[i]) = Blank \/ place[i] \in RemovedAt(m.removes)
  BY <1>1 DEF Changed
<1>4. ASSUME HolderAt(old, d, x)  PROVE HolderAt(new, d, x)
  <2>1. PICK y : LeafAt(old, d, y) /\ y \in Block(x) /\ (y = x \/ NodeToLeafIndex(y) \notin ToSet(before))
    BY <1>4 DEF HolderAt
  <2>2. y \in Nat /\ IsLeaf(y) /\ At(old, y) # Blank /\ At(old, y).client = d
    BY <2>1 DEF LeafAt
  <2>3. Spared(m, y) /\ y \notin Renewed(m)
    BY <1>2, <2>1, <2>2, LeafNodesNumber DEF Spared
  <2>4. \A i \in 1 .. Len(m.adds) : place[i] # y
    BY <1>3, <2>2, <2>3 DEF Renewed
  <2>5. Unmerging(At(old, y), At(new, y), LeavesBelow(place, Len(m.adds), y))
    BY <1>1, <2>2, <2>3, <2>4 DEF Changed
  <2>6. LeafAt(new, d, y)
    BY <2>2, <2>5 DEF Unmerging, LeafAt
  <2>7. NodeToLeafIndex(y) \notin below
    <3> SUFFICES ASSUME NEW i \in 1 .. Len(m.adds), NodeToLeafIndex(place[i]) = NodeToLeafIndex(y)  PROVE FALSE
      BY DEF LeavesBelow
    <3>1. place[i] = y
      BY <1>3, <2>2, LeafNodesNumber
    <3> QED
      BY <2>4, <3>1
  <2> QED
    BY <1>2, <2>1, <2>6, <2>7 DEF HolderAt
<1>5. ASSUME HolderAt(new, d, x)  PROVE HolderAt(old, d, x)
  <2>1. PICK y : LeafAt(new, d, y) /\ y \in Block(x) /\ (y = x \/ NodeToLeafIndex(y) \notin ToSet(after))
    BY <1>5 DEF HolderAt
  <2>2. ~AddedNode(m, place, new, y)
    <3> SUFFICES ASSUME NEW i \in 1 .. Len(m.adds), y = place[i]  PROVE FALSE
      BY DEF AddedNode
    <3>1. NodeToLeafIndex(y) \in below
      BY <2>1 DEF LeavesBelow
    <3> QED
      BY <1>2, <2>1, <3>1
  <2>3. ~SenderNode(m, y)
    BY <1>2, <2>1 DEF SenderNode, Spared, Renewed
  <2>4. LeafAt(old, d, y)
    BY <2>1, <2>2, <2>3, LeafOrigin
  <2> QED
    BY <1>2, <2>1, <2>4 DEF HolderAt
<1> QED
  BY <1>4, <1>5

LEMMA SoundTreeStep ==
  ASSUME NEW old, NEW new, NEW e, NEW c, NEW m, NEW place, CommitMade(old, new, e, c, m, place)
  PROVE  SoundTree(new, e + 1)
<1>0. e \in Nat
  BY DEF CommitMade
<1>1. CommitOf(old, e, c, m, new) /\ Changed(old, new, m, place) /\ SoundTree(old, e)
  BY DEF CommitMade
<1>2. ASSUME NEW d, NEW x, NEW y, LeafAt(new, d, x), LeafAt(new, d, y)  PROVE x = y
  <2>1. CASE m.external /\ d = c
    BY <1>2, <2>1, LeafOrigin DEF SenderNode
  <2>2. CASE ~(m.external /\ d = c)
    <3>1. CASE LeafAt(old, d, x) \/ LeafAt(old, d, y)
      BY <1>1, <1>2, <2>2, <3>1, LeafOrigin DEF SoundTree
    <3>2. CASE AddedNode(m, place, new, x) /\ AddedNode(m, place, new, y)
      <4>1. PICK i \in 1 .. Len(m.adds) : x = place[i] /\ At(new, x) = m.adds[i]
        BY <3>2 DEF AddedNode
      <4>2. PICK j \in 1 .. Len(m.adds) : y = place[j] /\ At(new, y) = m.adds[j]
        BY <3>2 DEF AddedNode
      <4>3. At(new, x).client = d /\ At(new, y).client = d
        BY <1>2 DEF LeafAt
      <4>4. m.adds[i] = LeafNode(PackageKey(e, d), d) /\ m.adds[j] = LeafNode(PackageKey(e, d), d)
        BY <4>1, <4>2, <4>3, LeafNodeIs DEF CommitMade, AddsOf
      <4>5. i = j
        BY <4>4 DEF CommitMade, AddsOf
      <4> QED
        BY <4>1, <4>2, <4>5
    <3> QED
      BY <1>2, <2>2, <3>1, <3>2, LeafOrigin
  <2> QED
    BY <2>1, <2>2
<1>3. ASSUME NEW x \in Nat, At(new, x) # Blank
      PROVE  /\ At(new, x).key[2] \in Nat /\ At(new, x).key[2] < e + 1
             /\ \A d, f : At(new, x).key = UpdateKey(f, d) \/ At(new, x).key = PackageKey(f, d) => LeafAt(new, d, x)
             /\ \A l \in ToSet(At(new, x).unmergedLeaves) : l \in Nat /\ LeafToNodeIndex(l) \in Block(x)
  <2>1. ToSet(<<>>) = {}
    BY DEF ToSet
  <2>2. CASE AddedNode(m, place, new, x)
    BY <1>0, <2>1, <2>2, NodesOfCommit, NodeKeys, KeysAreNotEmpty
  <2>3. CASE UpdatedNode(m, new, x)
    BY <1>0, <2>1, <2>3, NodesOfCommit, NodeKeys, KeysAreNotEmpty
  <2>4. CASE SenderNode(m, x) \/ PathNode(m, new, x)
    <3>1. PICK i : At(new, x).key = PathKey(e, i) /\ At(new, x).unmergedLeaves = <<>>
      BY <2>4, NodesOfCommit
    <3> QED
      BY <1>0, <2>1, <3>1, NodeKeys, KeysAreNotEmpty
  <2>5. CASE KeptNode(old, new, m, place, x)
    <3>1. /\ At(new, x).key = At(old, x).key /\ At(new, x).client = At(old, x).client /\ At(old, x) # Blank
          /\ At(old, x).key[2] \in Nat /\ At(old, x).key[2] < e
      BY <2>5, NodesOfCommit DEF KeptNode
    <3>2. \A d, f : At(old, x).key = UpdateKey(f, d) \/ At(old, x).key = PackageKey(f, d) => LeafAt(old, d, x)
      BY <1>1, <3>1 DEF SoundTree
    <3>3. \A d : LeafAt(old, d, x) => LeafAt(new, d, x)
      BY <1>3, <3>1 DEF LeafAt
    <3>4. ToSet(At(new, x).unmergedLeaves) = ToSet(At(old, x).unmergedLeaves) \union LeavesBelow(place, Len(m.adds), x)
      BY <2>5 DEF KeptNode, Unmerging
    <3>5. \A l \in LeavesBelow(place, Len(m.adds), x) : l \in Nat /\ LeafToNodeIndex(l) \in Block(x)
      BY <1>1, LeafNodesNumber DEF LeavesBelow, Changed
    <3>6. \A l \in ToSet(At(old, x).unmergedLeaves) : l \in Nat /\ LeafToNodeIndex(l) \in Block(x)
      BY <1>1, <3>1 DEF SoundTree
    <3> QED
      BY <1>0, <3>1, <3>2, <3>3, <3>4, <3>5, <3>6
  <2> QED
    BY <1>3, <2>2, <2>3, <2>4, <2>5, OriginOfNode
<1> QED
  BY <1>2, <1>3 DEF SoundTree

-----------------------------------------------------------------------------
(***************************************************************************)
(* The keys along a path, and the part of it above a leaf.                 *)
(***************************************************************************)
Distinct(nodes, n) == n \in Nat /\ DOMAIN nodes = 1 .. n /\ \A j, k \in 1 .. n : nodes[j] = nodes[k] => j = k

\* Keys of consecutive path secrets from secret i on.
KeysAlong(K, e, nodes, n, i) ==
  /\ DOMAIN K = {nodes[j] : j \in 1 .. n}
  /\ \A j \in 1 .. n : K[nodes[j]] = PathKey(e, i - 1 + j)

LEMMA KeysFromIs ==
  ASSUME NEW e, NEW n, NEW nodes, Distinct(nodes, n), NEW i
  PROVE  KeysAlong(KeysFrom(e, nodes, i), e, nodes, n, i)
<1>0. DOMAIN nodes = 1 .. n /\ \A j, k \in 1 .. n : nodes[j] = nodes[k] => j = k
  BY DEF Distinct
<1>1. DOMAIN KeysFrom(e, nodes, i) = {nodes[j] : j \in 1 .. n}
  BY <1>0 DEF KeysFrom, ToSet
<1>2. ASSUME NEW j \in 1 .. n  PROVE KeysFrom(e, nodes, i)[nodes[j]] = PathKey(e, i - 1 + j)
  <2>1. nodes[j] \in ToSet(nodes)
    BY <1>0 DEF ToSet
  <2>2. KeysFrom(e, nodes, i)[nodes[j]] = PathKey(e, i - 1 + (CHOOSE k \in DOMAIN nodes : nodes[k] = nodes[j]))
    BY <2>1 DEF KeysFrom
  <2>3. (CHOOSE k \in DOMAIN nodes : nodes[k] = nodes[j]) = j
    BY <1>0
  <2> QED
    BY <2>2, <2>3
<1> QED
  BY <1>1, <1>2 DEF KeysAlong

Climbs(P, p) == /\ \A i \in 1 .. p : Level(P[i]) \in Nat
                /\ \A i, j \in 1 .. p : i < j => Level(P[i]) < Level(P[j])

\* The second way up has the nodes of the first from the wth on, and perhaps one more at its end.
FromOn(P, p, w, r, n) ==
  /\ r[1] = P[w]
  /\ \A i \in w .. p : \E j \in 1 .. n : r[j] = P[i]
  /\ \A j \in 1 .. n : j = n \/ \E i \in 1 .. p : r[j] = P[i]

Shifted(P, p, w, r, n) == \A d \in 0 .. p - w : d + 1 \in 1 .. n /\ r[d + 1] = P[w + d]

LEMMA AscentsAgree ==
  ASSUME NEW p \in Nat, NEW w \in 1 .. p, NEW P, NEW n \in Nat \ {0}, NEW r,
         Climbs(P, p), Climbs(r, n), FromOn(P, p, w, r, n)
  PROVE  Shifted(P, p, w, r, n)
<1>a. /\ \A i \in 1 .. p : Level(P[i]) \in Nat
      /\ \A i, j \in 1 .. p : i < j => Level(P[i]) < Level(P[j])
      /\ \A j \in 1 .. n : Level(r[j]) \in Nat
      /\ \A i, j \in 1 .. n : i < j => Level(r[i]) < Level(r[j])
  BY DEF Climbs
<1>b. /\ r[1] = P[w]
      /\ \A i \in w .. p : \E j \in 1 .. n : r[j] = P[i]
      /\ \A j \in 1 .. n : j = n \/ \E i \in 1 .. p : r[j] = P[i]
  BY DEF FromOn
<1> DEFINE S == {d \in 0 .. p - w : ~(d + 1 \in 1 .. n /\ r[d + 1] = P[w + d])}
<1> SUFFICES ASSUME S # {}  PROVE FALSE
  BY DEF Shifted
<1>1. PICK d \in S : \A x \in S : d <= x
  <2>1. S \subseteq Nat
    OBVIOUS
  <2> QED
    BY <2>1, LeastNumber
<1>2. d \in Nat /\ d <= p - w /\ w + d \in w .. p /\ w + d \in 1 .. p
  OBVIOUS
<1>3. d # 0
  BY <1>b
<1>4. d - 1 \notin S /\ d - 1 \in 0 .. p - w
  <2>1. d - 1 \in 0 .. p - w /\ ~(d <= d - 1)
    BY <1>2, <1>3
  <2> QED
    BY <1>1, <2>1
<1>5. d \in 1 .. n /\ r[d] = P[w + d - 1]
  <2>1. (d - 1) + 1 = d /\ w + (d - 1) = w + d - 1
    BY <1>2
  <2>2. (d - 1) + 1 \in 1 .. n /\ r[(d - 1) + 1] = P[w + (d - 1)]
    BY <1>4
  <2> QED
    BY <2>1, <2>2
<1>6. PICK j \in 1 .. n : r[j] = P[w + d]
  BY <1>2, <1>b
<1>7. w + d - 1 \in 1 .. p /\ w + d - 1 < w + d
  BY <1>2, <1>3
<1>8. Level(r[d]) < Level(r[j])
  BY <1>a, <1>2, <1>5, <1>6, <1>7
<1>9. d < j
  <2>1. d = j \/ j < d \/ d < j
    BY <1>5
  <2> QED
    BY <1>a, <1>5, <1>8, <2>1
<1>10. d + 1 \in 1 .. n
  BY <1>2, <1>9
<1>11. CASE j = d + 1
  BY <1>1, <1>6, <1>10, <1>11
<1>12. CASE d + 1 < j
  <2>1. PICK i \in 1 .. p : r[d + 1] = P[i]
    BY <1>b, <1>10, <1>12
  <2>2. Level(P[w + d - 1]) < Level(P[i]) /\ Level(P[i]) < Level(P[w + d])
    BY <1>a, <1>2, <1>5, <1>6, <1>10, <1>12, <2>1
  <2> DEFINE a == w + d - 1
             b == w + d
  <2>5. a \in 1 .. p /\ b \in 1 .. p /\ b = a + 1
    BY <1>2, <1>7
  <2>6. Level(P[a]) < Level(P[i]) /\ Level(P[i]) < Level(P[b]) /\ Level(P[a]) \in Nat /\ Level(P[b]) \in Nat /\ Level(P[i]) \in Nat
    BY <1>a, <2>2, <2>5
  <2> HIDE DEF a, b
  <2>3. i # a /\ ~(i < a)
    BY <1>a, <2>5, <2>6
  <2>4. i # b /\ ~(b < i)
    BY <1>a, <2>5, <2>6
  <2> QED
    BY <2>5, <2>3, <2>4
<1> QED
  BY <1>2, <1>9, <1>11, <1>12

\* The way r of n nodes from the wth node of the path P to the root.
RouteShape(t, P, w, s, r, n) ==
  /\ n \in Nat \ {0} /\ DOMAIN r = 1 .. n /\ Len(r) = n /\ Len(P) \in Nat /\ w \in 1 .. Len(P)
  /\ Climbs(P, Len(P)) /\ Climbs(r, n) /\ FromOn(P, Len(P), w, r, n)
  /\ \A j \in 1 .. n : /\ r[j] \in Nat /\ Level(r[j]) <= Level(RootOf(t))
                       /\ s \in Block(r[j]) /\ r[j] # s /\ P[w] \in Block(r[j])
  /\ \E j \in 1 .. n : r[j] = RootOf(t)

LEMMA RouteShapeIs ==
  ASSUME NEW t, NEW l \in Nat, NEW c, NEW e, HasPath(t, l, c, e), NEW w \in DOMAIN PathOf(t, l)
  PROVE  \E n : RouteShape(t, PathOf(t, l), w, LeafToNodeIndex(l), PathToRoot(t, PathOf(t, l)[w]), n)
<1> DEFINE s == LeafToNodeIndex(l)
           P == PathOf(t, l)
           path == AncestorsOf(t, P[w])
           Q == {i \in DOMAIN path : t[path[i]] # Blank \/ path[i] = RootOf(t)}
           sel == AtPositions(path, Q)
           r == PathToRoot(t, P[w])
<1>1. PICK h : IsTreeOf(t, h) /\ s \in Full(h) /\ Ascending(h, s, P)
  BY DEF HasPath
<1>2. /\ h \in Nat /\ s \in Nat /\ IsLeaf(s) /\ DOMAIN t = Full(h) /\ RootOf(t) = Top(h)
      /\ Level(Top(h)) = h
  BY <1>1, TreeShape, LeafNumbers, TopBasics
<1>3. /\ DOMAIN P = 1 .. Len(P) /\ Len(P) \in Nat
      /\ \A i \in DOMAIN P : P[i] \in Full(h) /\ P[i] \in Nat /\ s \in Block(P[i]) /\ P[i] # s /\ Level(P[i]) \in Nat
      /\ \A i, j \in DOMAIN P : i < j => Level(P[i]) < Level(P[j])
  BY <1>1, <1>2, NodeOfTree, NodeBasics DEF Ascending
<1>4. /\ \A i \in DOMAIN P : At(t, P[i]) # Blank
      /\ \A x \in Nat : s \in Block(x) /\ x # s /\ (\A i \in DOMAIN P : P[i] # x) => At(t, x) = Blank
  BY DEF HasPath
<1>5. r = <<P[w]>> \o sel
  BY DEF PathToRoot
<1> HIDE DEF r, sel, P, s
<1>6. PathFrom(P[w], h, path) /\ {path[i] : i \in DOMAIN path} = {y \in Full(h) \ {P[w]} : P[w] \in Block(y)}
  <2>1. PathFrom(P[w], h, path)
    BY <1>1, <1>3, AboveNode DEF P
  <2> HIDE DEF path
  <2> QED
    BY <1>2, <1>3, <2>1, AboveIs DEF P
<1>7. /\ DOMAIN path = 1 .. h - Level(P[w])
      /\ \A i \in DOMAIN path : /\ path[i] \in Full(h) /\ path[i] \in Nat /\ Level(path[i]) = Level(P[w]) + i
                                /\ P[w] \in Block(path[i]) /\ Level(path[i]) \in 0 .. h
  BY <1>2, <1>6, NodeOfTree DEF PathFrom
<1>8. \A x \in Full(h) : At(t, x) = t[x]
  BY <1>2 DEF At
<1>9. \A x \in Nat : P[w] \in Block(x) /\ x # P[w] => s \in Block(x) /\ x # s
  <2> SUFFICES ASSUME NEW x \in Nat, P[w] \in Block(x), x # P[w]  PROVE s \in Block(x) /\ x # s
    OBVIOUS
  <2>1. P[w] \in Nat /\ s \in Block(P[w]) /\ P[w] # s
    BY <1>3 DEF P
  <2>2. Block(P[w]) \subseteq Block(x)
    BY <2>1, BlocksNest
  <2>3. Block(s) = {s}
    BY <1>2, LeafNodesNumber
  <2> QED
    BY <2>1, <2>2, <2>3
<1> HIDE DEF path
<1>10. PICK nth : Selected(path, Q, sel, nth)
  <2>1. Level(P[w]) \in Nat /\ Level(P[w]) <= h
    BY <1>2, <1>3, NodeOfTree DEF P
  <2>2. Q \subseteq 1 .. h - Level(P[w]) /\ h - Level(P[w]) \in Nat
    BY <1>2, <1>7, <2>1
  <2> HIDE DEF Q
  <2> QED
    BY <2>2, AtPositionsIs DEF sel
<1> DEFINE n == Cardinality(Q)
<1>11. /\ n \in Nat /\ DOMAIN sel = 1 .. n
       /\ \A k \in 1 .. n : nth[k] \in Q /\ sel[k] = path[nth[k]]
       /\ \A j, k \in 1 .. n : j < k => nth[j] < nth[k]
       /\ \A i \in Q : \E k \in 1 .. n : nth[k] = i
  BY <1>10 DEF Selected
<1>12. \A i \in Q : i \in DOMAIN path /\ i \in Nat
  BY <1>7
<1>13. sel \in Seq(Nat) /\ Len(sel) = n
  <2>1. sel = [k \in 1 .. n |-> path[CHOOSE i \in Q : Cardinality({j \in Q : j <= i}) = k]]
    BY DEF sel, AtPositions
  <2>2. \A k \in 1 .. n : sel[k] \in Nat
    BY <1>7, <1>11, <1>12
  <2> HIDE DEF n, Q
  <2>3. sel \in [1 .. n -> Nat]
    BY <2>1, <2>2
  <2> QED
    BY <1>11, <2>3, FunctionIsSequence
<1> HIDE DEF n, Q
<1>14. /\ DOMAIN r = 1 .. n + 1 /\ r[1] = P[w]
       /\ \A k \in 1 .. n : r[k + 1] = sel[k]
  <2>1. P[w] \in Nat
    BY <1>3 DEF P
  <2> QED
    BY <1>5, <1>11, <1>13, <2>1
<1>15. \A j \in 1 .. n + 1 : j = 1 \/ (j - 1 \in 1 .. n /\ r[j] = path[nth[j - 1]] /\ nth[j - 1] \in DOMAIN path)
  <2> SUFFICES ASSUME NEW j \in 1 .. n + 1, j # 1
               PROVE  j - 1 \in 1 .. n /\ r[j] = path[nth[j - 1]] /\ nth[j - 1] \in DOMAIN path
    OBVIOUS
  <2>1. j - 1 \in 1 .. n /\ (j - 1) + 1 = j
    BY <1>11
  <2>2. r[(j - 1) + 1] = sel[j - 1]
    BY <1>14, <2>1
  <2> QED
    BY <1>11, <1>12, <2>1, <2>2
<1>16. Level(P[w]) \in Nat /\ P[w] \in Nat /\ s \in Block(P[w]) /\ P[w] # s
  BY <1>3 DEF P
<1>17. \A j \in 1 .. n + 1 : /\ r[j] \in Nat /\ Level(r[j]) \in Nat /\ Level(r[j]) <= h
                               /\ s \in Block(r[j]) /\ r[j] # s /\ P[w] \in Block(r[j])
  <2> SUFFICES ASSUME NEW j \in 1 .. n + 1
               PROVE  /\ r[j] \in Nat /\ Level(r[j]) \in Nat /\ Level(r[j]) <= h
                      /\ s \in Block(r[j]) /\ r[j] # s /\ P[w] \in Block(r[j])
    OBVIOUS
  <2>1. CASE j = 1
    <3>1. P[w] \in Full(h)
      BY <1>3 DEF P
    <3>2. P[w] \in Block(P[w])
      BY <1>16, NodeBasics
    <3> QED
      BY <1>2, <1>14, <1>16, <2>1, <3>1, <3>2, NodeOfTree
  <2>2. CASE j # 1
    <3> DEFINE i == nth[j - 1]
    <3>1. r[j] = path[i] /\ i \in DOMAIN path /\ i \in Nat /\ i # 0
      BY <1>7, <1>15, <2>2
    <3> HIDE DEF i
    <3>2. path[i] \in Nat /\ Level(path[i]) = Level(P[w]) + i /\ Level(path[i]) \in 0 .. h /\ P[w] \in Block(path[i])
      BY <1>7, <3>1
    <3>3. path[i] # P[w]
      BY <1>16, <3>1, <3>2
    <3> QED
      BY <1>2, <1>9, <3>1, <3>2, <3>3
  <2> QED
    BY <2>1, <2>2
<1>18. \A i, j \in 1 .. n + 1 : i < j => Level(r[i]) < Level(r[j])
  <2> SUFFICES ASSUME NEW i \in 1 .. n + 1, NEW j \in 1 .. n + 1, i < j  PROVE Level(r[i]) < Level(r[j])
    OBVIOUS
  <2> DEFINE b == nth[j - 1]
  <2>1. r[j] = path[b] /\ b \in DOMAIN path /\ b \in Nat /\ b # 0 /\ j - 1 \in 1 .. n
    <3>1. j # 1
      BY <1>11
    <3>2. r[j] = path[b] /\ b \in DOMAIN path /\ j - 1 \in 1 .. n
      BY <1>15, <3>1
    <3> HIDE DEF b
    <3> QED
      BY <1>7, <3>2
  <2>2. Level(path[b]) = Level(P[w]) + b
    BY <1>7, <2>1
  <2>3. CASE i = 1
    BY <1>14, <1>16, <2>1, <2>2, <2>3
  <2>4. CASE i # 1
    <3> DEFINE a == nth[i - 1]
    <3>1. r[i] = path[a] /\ a \in DOMAIN path /\ a \in Nat /\ i - 1 \in 1 .. n /\ i - 1 < j - 1
      <4>1. r[i] = path[a] /\ a \in DOMAIN path /\ i - 1 \in 1 .. n
        BY <1>15, <2>4
      <4>2. i - 1 < j - 1
        BY <1>11
      <4> HIDE DEF a
      <4> QED
        BY <1>7, <4>1, <4>2
    <3>2. a < b
      BY <1>11, <2>1, <3>1
    <3>3. Level(path[a]) = Level(P[w]) + a
      BY <1>7, <3>1
    <3> QED
      BY <1>16, <2>1, <2>2, <3>1, <3>2, <3>3
  <2> QED
    BY <2>3, <2>4
<1>19. \A i \in w .. Len(P) : \E j \in 1 .. n + 1 : r[j] = P[i]
  <2> SUFFICES ASSUME NEW i \in w .. Len(P)  PROVE \E j \in 1 .. n + 1 : r[j] = P[i]
    OBVIOUS
  <2>0. w \in 1 .. Len(P) /\ Len(P) \in Nat
    BY <1>3 DEF P
  <2>1. CASE i = w
    BY <1>11, <1>14, <2>1
  <2>2. CASE i # w
    <3>1. w < i /\ i \in DOMAIN P /\ w \in DOMAIN P
      BY <1>3, <2>0, <2>2
    <3>2. P[i] \in Full(h) /\ P[i] \in Nat /\ s \in Block(P[i]) /\ s \in Block(P[w]) /\ Level(P[w]) < Level(P[i])
          /\ P[w] \in Nat /\ Level(P[i]) \in Nat /\ Level(P[w]) \in Nat
      BY <1>3, <3>1
    <3>3. P[w] \in Block(P[i])
      BY <1>2, <3>2, BlocksMeet
    <3>4. P[i] # P[w]
      BY <3>2
    <3>5. PICK q \in DOMAIN path : path[q] = P[i]
      BY <1>6, <3>2, <3>3, <3>4
    <3>6. q \in Q
      BY <1>4, <1>8, <3>1, <3>2, <3>5 DEF Q
    <3>7. PICK k \in 1 .. n : nth[k] = q
      BY <1>11, <3>6
    <3>8. r[k + 1] = P[i] /\ k + 1 \in 1 .. n + 1
      BY <1>11, <1>14, <3>5, <3>7
    <3> QED
      BY <3>8
  <2> QED
    BY <2>1, <2>2
<1>20. \A j \in 1 .. n + 1 : j = n + 1 \/ \E i \in 1 .. Len(P) : r[j] = P[i]
  <2> SUFFICES ASSUME NEW j \in 1 .. n + 1, j # n + 1  PROVE \E i \in 1 .. Len(P) : r[j] = P[i]
    OBVIOUS
  <2>1. CASE j = 1
    BY <1>3, <1>14, <2>1 DEF P
  <2>2. CASE j # 1
    <3>1. r[j] # RootOf(t)
      <4>1. n + 1 \in 1 .. n + 1 /\ j < n + 1
        BY <1>11
      <4>2. Level(r[j]) < Level(r[n + 1]) /\ Level(r[n + 1]) <= h /\ Level(r[j]) \in Nat /\ Level(r[n + 1]) \in Nat
        BY <1>17, <1>18, <4>1
      <4> QED
        BY <1>2, <4>2
    <3>2. nth[j - 1] \in Q /\ r[j] = path[nth[j - 1]]
      BY <1>11, <1>15, <2>2
    <3>3. t[r[j]] # Blank
      BY <3>1, <3>2 DEF Q
    <3>4. r[j] \in Full(h)
      BY <1>7, <1>12, <3>2
    <3>5. At(t, r[j]) # Blank
      BY <1>8, <3>3, <3>4
    <3> QED
      BY <1>3, <1>4, <1>17, <3>5
  <2> QED
    BY <2>1, <2>2
<1>21. \E j \in 1 .. n + 1 : r[j] = Top(h)
  <2>1. CASE P[w] = Top(h)
    BY <1>11, <1>14, <2>1
  <2>2. CASE P[w] # Top(h)
    <3>1. Top(h) \in Full(h) /\ P[w] \in Block(Top(h))
      BY <1>2, <1>3, TopBasics DEF P
    <3>2. PICK q \in DOMAIN path : path[q] = Top(h)
      BY <1>6, <2>2, <3>1
    <3>3. q \in Q
      BY <1>2, <3>2 DEF Q
    <3>4. PICK k \in 1 .. n : nth[k] = q
      BY <1>11, <3>3
    <3>5. r[k + 1] = Top(h) /\ k + 1 \in 1 .. n + 1
      BY <1>11, <1>14, <3>2, <3>4
    <3> QED
      BY <3>5
  <2> QED
    BY <2>1, <2>2
<1> DEFINE z == n + 1
<1>22. z \in Nat \ {0} /\ Len(r) = z
  <2>1. Len(<<P[w]>> \o sel) = n + 1
    BY <1>13, <1>16, <1>11
  <2> QED
    BY <1>5, <1>11, <2>1 DEF r
<1>23. Len(P) \in Nat /\ w \in 1 .. Len(P)
  BY <1>3, <1>11 DEF P
<1>24. Climbs(P, Len(P))
  BY <1>3 DEF Climbs
<1>25. Climbs(r, z)
  BY <1>17, <1>18 DEF Climbs
<1>26. FromOn(P, Len(P), w, r, z)
  BY <1>14, <1>19, <1>20 DEF FromOn
<1>27. /\ DOMAIN r = 1 .. z
       /\ \A j \in 1 .. z : /\ r[j] \in Nat /\ Level(r[j]) <= Level(RootOf(t))
                            /\ s \in Block(r[j]) /\ r[j] # s /\ P[w] \in Block(r[j])
       /\ \E j \in 1 .. z : r[j] = RootOf(t)
  BY <1>2, <1>14, <1>17, <1>21
<1> HIDE DEF z
<1>28. RouteShape(t, P, w, s, r, z)
  BY <1>22, <1>23, <1>24, <1>25, <1>26, <1>27 DEF RouteShape
<1> QED
  BY <1>28 DEF P, r, s

\* Keys for the nodes of the path P from its wth on, and for others above that one.
RouteKeys(K, P, w, e, s) ==
  /\ \A x \in DOMAIN K : /\ x \in Nat /\ s \in Block(x) /\ x # s /\ P[w] \in Block(x)
                         /\ \E j \in Nat : j >= w /\ K[x] = PathKey(e, j)
  /\ \A i \in DOMAIN P : i >= w => P[i] \in DOMAIN K /\ K[P[i]] = PathKey(e, i)

LEMMA RouteIs ==
  ASSUME NEW t, NEW l \in Nat, NEW c, NEW e, HasPath(t, l, c, e), NEW w \in DOMAIN PathOf(t, l)
  PROVE  RouteKeys(KeysFrom(e, PathToRoot(t, PathOf(t, l)[w]), w), PathOf(t, l), w, e, LeafToNodeIndex(l))
<1> DEFINE s == LeafToNodeIndex(l)
           P == PathOf(t, l)
           r == PathToRoot(t, P[w])
           K == KeysFrom(e, r, w)
<1>1. PICK n : RouteShape(t, P, w, s, r, n)
  BY RouteShapeIs
<1> HIDE DEF P, r, s
<1>2. /\ n \in Nat \ {0} /\ DOMAIN r = 1 .. n /\ Len(P) \in Nat /\ w \in 1 .. Len(P)
      /\ \A j \in 1 .. n : r[j] \in Nat /\ s \in Block(r[j]) /\ r[j] # s /\ P[w] \in Block(r[j])
  BY <1>1 DEF RouteShape
<1>3. DOMAIN P = 1 .. Len(P)
  BY DEF HasPath, Ascending, P
<1>4. \A d \in 0 .. Len(P) - w : d + 1 \in 1 .. n /\ r[d + 1] = P[w + d]
  <2>1. Shifted(P, Len(P), w, r, n)
    BY <1>1, <1>2, AscentsAgree DEF RouteShape
  <2> QED
    BY <2>1 DEF Shifted
<1>5. \A j, k \in 1 .. n : r[j] = r[k] => j = k
  <2> SUFFICES ASSUME NEW j \in 1 .. n, NEW k \in 1 .. n, r[j] = r[k]  PROVE j = k
    OBVIOUS
  <2>1. ~(j < k) /\ ~(k < j)
    BY <1>1 DEF RouteShape, Climbs
  <2> QED
    BY <1>2, <2>1
<1>6. DOMAIN K = {r[j] : j \in 1 .. n} /\ \A j \in 1 .. n : K[r[j]] = PathKey(e, w - 1 + j)
  <2>1. Distinct(r, n)
    BY <1>2, <1>5 DEF Distinct
  <2>2. KeysAlong(K, e, r, n, w)
    BY <2>1, KeysFromIs
  <2> QED
    BY <2>2 DEF KeysAlong
<1>7. ASSUME NEW x \in DOMAIN K
      PROVE  x \in Nat /\ s \in Block(x) /\ x # s /\ P[w] \in Block(x) /\ \E j \in Nat : j >= w /\ K[x] = PathKey(e, j)
  <2>1. PICK j \in 1 .. n : x = r[j]
    BY <1>6
  <2>2. w - 1 + j \in Nat /\ w - 1 + j >= w
    BY <1>2
  <2>3. K[x] = PathKey(e, w - 1 + j)
    BY <1>6, <2>1
  <2> HIDE DEF K
  <2> QED
    BY <1>2, <2>1, <2>2, <2>3
<1>8. ASSUME NEW i \in DOMAIN P, i >= w  PROVE P[i] \in DOMAIN K /\ K[P[i]] = PathKey(e, i)
  <2>1. i - w \in 0 .. Len(P) - w /\ w + (i - w) = i /\ w - 1 + (i - w + 1) = i
    BY <1>2, <1>3, <1>8
  <2>2. i - w + 1 \in 1 .. n /\ r[i - w + 1] = P[i]
    BY <1>4, <2>1
  <2>3. K[r[i - w + 1]] = PathKey(e, w - 1 + (i - w + 1))
    BY <1>6, <2>2
  <2> QED
    BY <1>6, <2>1, <2>2, <2>3
<1> HIDE DEF K
<1>9. RouteKeys(K, P, w, e, s)
  BY <1>7, <1>8 DEF RouteKeys
<1> QED
  BY <1>9 DEF K, P, r, s

\* However far up the path one joins the way, the last secret has one number.
LEMMA RouteLength ==
  ASSUME NEW t, NEW l \in Nat, NEW c, NEW e, HasPath(t, l, c, e), NEW w \in DOMAIN PathOf(t, l)
  PROVE  Len(PathToRoot(t, PathOf(t, l)[w])) =
           Len(PathOf(t, l)) - w + (IF PathOf(t, l)[Len(PathOf(t, l))] = RootOf(t) THEN 1 ELSE 2)
<1> DEFINE P == PathOf(t, l)
           p == Len(P)
           r == PathToRoot(t, P[w])
           top == RootOf(t)
<1>1. PICK n : RouteShape(t, P, w, LeafToNodeIndex(l), r, n)
  BY RouteShapeIs
<1> HIDE DEF P, r, top
<1>2. /\ n \in Nat \ {0} /\ Len(r) = n /\ p \in Nat /\ w \in 1 .. p
      /\ \A j \in 1 .. n : Level(r[j]) <= Level(top)
      /\ \E j \in 1 .. n : r[j] = top
  BY <1>1 DEF RouteShape, top
<1>3. /\ \A i \in 1 .. p : Level(P[i]) \in Nat
      /\ \A i, j \in 1 .. p : i < j => Level(P[i]) < Level(P[j])
      /\ \A i \in 1 .. n : Level(r[i]) \in Nat
      /\ \A i, j \in 1 .. n : i < j => Level(r[i]) < Level(r[j])
      /\ \A j \in 1 .. n : j = n \/ \E i \in 1 .. p : r[j] = P[i]
  BY <1>1 DEF RouteShape, Climbs, FromOn
<1>4. \A d \in 0 .. p - w : d + 1 \in 1 .. n /\ r[d + 1] = P[w + d]
  <2>1. Shifted(P, p, w, r, n)
    BY <1>1, <1>2, AscentsAgree DEF RouteShape
  <2> QED
    BY <2>1 DEF Shifted
<1> DEFINE b == p - w + 1
<1>5. b \in 1 .. n /\ r[b] = P[p] /\ p \in 1 .. p /\ b = p - w + 1 /\ b \in Nat
  BY <1>2, <1>4
<1> HIDE DEF p, b
<1>6. CASE P[p] = top
  <2>1. ~(b < n)
    <3> SUFFICES ASSUME b < n  PROVE FALSE
      OBVIOUS
    <3>1. n \in 1 .. n
      BY <1>2
    <3>2. Level(r[b]) < Level(r[n]) /\ Level(r[n]) <= Level(r[b]) /\ Level(r[b]) \in Nat /\ Level(r[n]) \in Nat
      BY <1>2, <1>3, <1>5, <1>6, <3>1
    <3> QED
      BY <3>2
  <2>2. Len(r) = p - w + (IF P[p] = top THEN 1 ELSE 2)
    BY <1>2, <1>5, <1>6, <2>1
  <2> QED
    BY <2>2 DEF P, p, r, top
<1>7. CASE P[p] # top
  <2>1. b < n
    <3> SUFFICES ASSUME ~(b < n)  PROVE FALSE
      OBVIOUS
    <3>1. PICK j \in 1 .. n : r[j] = top
      BY <1>2
    <3>2. j < b
      BY <1>2, <1>5, <1>7, <3>1
    <3>3. Level(r[j]) < Level(r[b]) /\ Level(r[b]) <= Level(r[j]) /\ Level(r[b]) \in Nat /\ Level(r[j]) \in Nat
      BY <1>2, <1>3, <1>5, <3>1, <3>2
    <3> QED
      BY <3>3
  <2>2. ~(b + 1 < n)
    <3> SUFFICES ASSUME b + 1 < n  PROVE FALSE
      OBVIOUS
    <3>1. b + 1 \in 1 .. n /\ b < b + 1 /\ b + 1 # n
      BY <1>2, <1>5
    <3>2. PICK i \in 1 .. p : r[b + 1] = P[i]
      BY <1>3, <3>1
    <3>3. Level(r[b]) < Level(r[b + 1])
      BY <1>3, <1>5, <3>1
    <3>4. Level(P[i]) <= Level(P[p]) /\ Level(P[i]) \in Nat /\ Level(P[p]) \in Nat
      <4>1. i = p \/ i < p
        BY <1>2
      <4> QED
        BY <1>3, <1>5, <4>1
    <3> QED
      BY <1>5, <3>2, <3>3, <3>4
  <2>3. Len(r) = p - w + (IF P[p] = top THEN 1 ELSE 2)
    BY <1>2, <1>5, <1>7, <2>1, <2>2
  <2> QED
    BY <2>3 DEF P, p, r, top
<1> QED
  BY <1>6, <1>7

-----------------------------------------------------------------------------
(***************************************************************************)
(* The keys a client has and those it should have.                         *)
(***************************************************************************)
ValuesOf(keys) == {keys[n] : n \in DOMAIN keys}

\* A key of the tree is with those who are to hold it.
SoundKeys(t, c, K) == \A x \in Nat : At(t, x) # Blank /\ At(t, x).key \in K => HolderAt(t, c, x)

\* Who is to hold a key has it.
Complete(t, c, keys) ==
  \A x \in Nat : At(t, x) # Blank /\ HolderAt(t, c, x) => x \in DOMAIN keys /\ keys[x] = At(t, x).key

OldKeys(e, K) == \A k \in K : k # NoKey /\ k[2] \in Nat /\ k[2] < e

\* The keys of a commit are on the path of its sender.
PathKnown(t, m) ==
  /\ \A x \in Nat : At(t, x) # Blank =>
       \A i : At(t, x).key = PathKey(m.epoch, i) =>
         /\ m.path # NoPath
         /\ \/ i = 0 /\ SenderNode(m, x)
            \/ i \in DOMAIN PathOf(t, m.sender) /\ x = PathOf(t, m.sender)[i]
  /\ m.path # NoPath => m.sender \in Nat /\ \E a : HasPath(t, m.sender, a, m.epoch)

LEMMA OldKeysStaySound ==
  ASSUME NEW old, NEW new, NEW e, NEW c, NEW m, NEW place, CommitMade(old, new, e, c, m, place),
         NEW d, NEW K, SoundKeys(old, d, K), OldKeys(e, K)
  PROVE  SoundKeys(new, d, K)
<1> SUFFICES ASSUME NEW x \in Nat, At(new, x) # Blank, At(new, x).key \in K  PROVE HolderAt(new, d, x)
  BY DEF SoundKeys
<1>1. e \in Nat /\ At(new, x).key[2] < e /\ At(new, x).key[2] \in Nat
  BY DEF OldKeys, CommitMade
<1>2. At(new, x).key[2] # e
  BY <1>1
<1>3. ~AddedNode(m, place, new, x) /\ ~UpdatedNode(m, new, x) /\ ~SenderNode(m, x) /\ ~PathNode(m, new, x)
  BY <1>2, NodesOfCommit, KeysAreNotEmpty
<1>4. KeptNode(old, new, m, place, x)
  BY <1>3, OriginOfNode
<1>5. At(old, x) # Blank /\ At(old, x).key \in K
  BY <1>4, NodesOfCommit DEF KeptNode
<1> QED
  BY <1>4, <1>5, HoldersKept DEF SoundKeys

LEMMA PathBecomesKnown ==
  ASSUME NEW old, NEW new, NEW e, NEW c, NEW m, NEW place, CommitMade(old, new, e, c, m, place), m.epoch = e
  PROVE  PathKnown(new, m)
<1>1. CommitOf(old, e, c, m, new) /\ e \in Nat /\ m.sender \in Nat
  BY DEF CommitMade, CommitOf
<1>2. m.path # NoPath => HasPath(new, m.sender, c, e)
  BY <1>1, PathOfCommit
<1>3. ASSUME NEW x \in Nat, At(new, x) # Blank, NEW i, At(new, x).key = PathKey(e, i)
      PROVE  /\ m.path # NoPath
             /\ \/ i = 0 /\ SenderNode(m, x)
                \/ i \in DOMAIN PathOf(new, m.sender) /\ x = PathOf(new, m.sender)[i]
  <2>1. At(new, x).key[2] = e
    BY <1>3, KeysAreNotEmpty
  <2>2. ~KeptNode(old, new, m, place, x)
    BY <1>1, <2>1, NodesOfCommit
  <2>3. ~AddedNode(m, place, new, x) /\ ~UpdatedNode(m, new, x)
    BY <1>3, NodesOfCommit, NodeKeys
  <2>4. CASE SenderNode(m, x)
    <3>1. i = 0
      BY <1>3, <2>4, NodesOfCommit, NodeKeys
    <3> QED
      BY <2>4, <3>1 DEF SenderNode
  <2>5. CASE PathNode(m, new, x)
    <3>1. PICK j \in DOMAIN PathOf(new, m.sender) : x = PathOf(new, m.sender)[j]
      BY <2>5 DEF PathNode
    <3>2. m.path # NoPath
      BY <2>5 DEF PathNode
    <3>3. At(new, x).key = PathKey(e, j)
      BY <1>2, <3>1, <3>2 DEF HasPath
    <3>4. PathKey(e, i)[3] = PathKey(e, j)[3]
      BY <1>3, <3>3
    <3>5. i = j
      BY <3>4, NodeKeys
    <3> QED
      BY <3>1, <3>2, <3>5
  <2> QED
    BY <1>3, <2>2, <2>3, <2>4, <2>5, OriginOfNode
<1> QED
  BY <1>1, <1>2, <1>3 DEF PathKnown

\* A client with a leaf below a node of the path is to hold its key.
LEMMA BelowThePath ==
  ASSUME NEW t, NEW l \in Nat, NEW a, NEW e, HasPath(t, l, a, e),
         NEW c, NEW y, LeafAt(t, c, y), NEW i \in DOMAIN PathOf(t, l), y \in Block(PathOf(t, l)[i])
  PROVE  HolderAt(t, c, PathOf(t, l)[i])
<1>1. At(t, PathOf(t, l)[i]).unmergedLeaves = <<>>
  BY DEF HasPath
<1>2. ToSet(At(t, PathOf(t, l)[i]).unmergedLeaves) = {}
  BY <1>1 DEF ToSet
<1> QED
  BY <1>2 DEF HolderAt

\* The keys of a whole path and its leaf.
OwnPath(K, s, P, e) ==
  /\ DOMAIN K = {s} \union {P[i] : i \in DOMAIN P}
  /\ K[s] = PathKey(e, 0) /\ \A i \in DOMAIN P : K[P[i]] = PathKey(e, i)

LEMMA OwnPathKeys ==
  ASSUME NEW t, NEW l \in Nat, NEW a, NEW e, HasPath(t, l, a, e)
  PROVE  OwnPath(KeysFrom(e, <<LeafToNodeIndex(l)>> \o PathOf(t, l), 0), LeafToNodeIndex(l), PathOf(t, l), e)
<1> DEFINE s == LeafToNodeIndex(l)
           P == PathOf(t, l)
           r == <<s>> \o P
           K == KeysFrom(e, r, 0)
           z == Len(P) + 1
<1>1. PICK h : IsTreeOf(t, h) /\ s \in Full(h) /\ Ascending(h, s, P)
  BY DEF HasPath
<1>2. h \in Nat /\ s \in Nat
  BY <1>1, LeafNumbers DEF IsTreeOf
<1>3. /\ DOMAIN P = 1 .. Len(P) /\ Len(P) \in Nat
      /\ \A i \in DOMAIN P : P[i] \in Nat /\ P[i] # s
      /\ \A i, j \in DOMAIN P : P[i] = P[j] => i = j
  BY <1>1, <1>2, NodeOfTree, AscendingIsInjective DEF Ascending
<1>4. P \in Seq(Nat)
  <2>1. P = [i \in DOMAIN FilteredDirectPath(l, t) |-> FilteredDirectPath(l, t)[i].nodeIndex]
    BY DEF PathOf, NodesOf
  <2>2. P = [i \in DOMAIN P |-> P[i]]
    BY <2>1
  <2> HIDE DEF P
  <2>3. P \in [1 .. Len(P) -> Nat]
    BY <1>3, <2>2
  <2> QED
    BY <1>3, <2>3, FunctionIsSequence
<1> HIDE DEF P, s
<1>5. DOMAIN r = 1 .. z /\ r[1] = s /\ \A i \in 1 .. Len(P) : r[i + 1] = P[i]
  BY <1>2, <1>3, <1>4
<1> HIDE DEF r
<1>6. \A j \in 1 .. z : j = 1 \/ (j - 1 \in 1 .. Len(P) /\ j - 1 \in DOMAIN P /\ r[j] = P[j - 1])
  <2> SUFFICES ASSUME NEW j \in 1 .. z, j # 1  PROVE j - 1 \in 1 .. Len(P) /\ j - 1 \in DOMAIN P /\ r[j] = P[j - 1]
    OBVIOUS
  <2>1. j - 1 \in 1 .. Len(P) /\ (j - 1) + 1 = j
    BY <1>3
  <2>2. r[(j - 1) + 1] = P[j - 1]
    BY <1>5, <2>1
  <2> QED
    BY <1>3, <2>1, <2>2
<1>7. Distinct(r, z)
  <2>1. ASSUME NEW j \in 1 .. z, NEW k \in 1 .. z, r[j] = r[k]  PROVE j = k
    <3>1. CASE j = 1 \/ k = 1
      <4>1. \A i \in 1 .. z : i # 1 => r[i] # s
        BY <1>3, <1>6
      <4> QED
        BY <1>5, <2>1, <3>1, <4>1
    <3>2. CASE j # 1 /\ k # 1
      <4>1. j - 1 \in DOMAIN P /\ k - 1 \in DOMAIN P /\ r[j] = P[j - 1] /\ r[k] = P[k - 1]
        BY <1>6, <3>2
      <4>2. P[j - 1] = P[k - 1]
        BY <2>1, <4>1
      <4>3. j - 1 = k - 1
        BY <1>3, <4>1, <4>2
      <4> QED
        BY <1>3, <4>3
    <3> QED
      BY <3>1, <3>2
  <2>2. z \in Nat
    BY <1>3
  <2> QED
    BY <1>5, <2>1, <2>2 DEF Distinct
<1>8. KeysAlong(K, e, r, z, 0)
  BY <1>7, KeysFromIs
<1> HIDE DEF K
<1>9. K[s] = PathKey(e, 0)
  <2>1. 1 \in 1 .. z /\ 0 - 1 + 1 = 0
    BY <1>3
  <2> QED
    BY <1>5, <1>8, <2>1 DEF KeysAlong
<1>10. ASSUME NEW i \in DOMAIN P  PROVE K[P[i]] = PathKey(e, i)
  <2>1. i + 1 \in 1 .. z /\ 0 - 1 + (i + 1) = i /\ i \in 1 .. Len(P)
    BY <1>3
  <2>2. K[r[i + 1]] = PathKey(e, 0 - 1 + (i + 1))
    BY <1>8, <2>1 DEF KeysAlong
  <2> QED
    BY <1>5, <2>1, <2>2
<1>11. DOMAIN K = {s} \union {P[i] : i \in DOMAIN P}
  <2>1. DOMAIN K = {r[j] : j \in 1 .. z}
    BY <1>8 DEF KeysAlong
  <2>2. {r[j] : j \in 1 .. z} \subseteq {s} \union {P[i] : i \in DOMAIN P}
    BY <1>3, <1>5, <1>6
  <2>3. s \in {r[j] : j \in 1 .. z}
    <3>1. 1 \in 1 .. z
      BY <1>3
    <3> QED
      BY <1>5, <3>1
  <2>4. ASSUME NEW i \in DOMAIN P  PROVE P[i] \in {r[j] : j \in 1 .. z}
    <3>1. i + 1 \in 1 .. z /\ r[i + 1] = P[i]
      BY <1>3, <1>5
    <3> QED
      BY <3>1
  <2> QED
    BY <2>1, <2>2, <2>3, <2>4
<1> QED
  BY <1>9, <1>10, <1>11 DEF K, r, s, P, OwnPath

LEMMA HoldersLeaf ==
  ASSUME NEW t, NEW e, SoundTree(t, e), NEW c, NEW y, LeafAt(t, c, y), NEW x
  PROVE  HolderAt(t, c, x) <=> y \in Block(x) /\ (y = x \/ NodeToLeafIndex(y) \notin ToSet(At(t, x).unmergedLeaves))
  BY DEF SoundTree, HolderAt

LEMMA ValuesOver ==
  ASSUME NEW f, NEW g
  PROVE  ValuesOf(f ++ g) \subseteq ValuesOf(f) \union ValuesOf(g)
<1>1. /\ DOMAIN (f ++ g) = (DOMAIN f) \union (DOMAIN g)
      /\ \A x \in DOMAIN f : (f ++ g)[x] = f[x]
      /\ \A x \in DOMAIN g : (f ++ g)[x] = IF x \in DOMAIN f THEN f[x] ELSE g[x]
  BY DEF ++
<1> DEFINE u == f ++ g
<1> HIDE DEF u
<1> QED
  BY <1>1 DEF ValuesOf, u

LEMMA NoPathRenewsNothing ==
  ASSUME NEW old, NEW new, NEW e, NEW c, NEW m, NEW place, CommitMade(old, new, e, c, m, place), m.path = NoPath
  PROVE  /\ ~m.external
         /\ \A d, y : LeafAt(old, d, y) => LeafAt(new, d, y)
<1>1. m.updates = {} /\ m.removes = {} /\ ~m.external /\ Changed(old, new, m, place)
  BY DEF CommitMade, CommitOf
<1>2. Renewed(m) = {} /\ RemovedAt(m.removes) = {}
  BY <1>1 DEF Renewed, RemovedAt, UpdatedAt
<1>3. ASSUME NEW d, NEW y, LeafAt(old, d, y)  PROVE LeafAt(new, d, y)
  <2>1. y \in Nat /\ At(old, y) # Blank /\ \A i \in 1 .. Len(m.adds) : place[i] # y
    BY <1>1, <1>2, <1>3 DEF LeafAt, Changed
  <2>2. Unmerging(At(old, y), At(new, y), LeavesBelow(place, Len(m.adds), y))
    BY <1>1, <1>2, <2>1 DEF Changed, Spared
  <2> QED
    BY <1>3, <2>2 DEF LeafAt, Unmerging
<1> QED
  BY <1>1, <1>3

\* The committer's keys, for the tree its commit makes.
KeysFit(t, c, own, e, keys) ==
  LeafAt(t, c, own) /\ SoundKeys(t, c, ValuesOf(keys)) /\ Complete(t, c, keys) /\ OldKeys(e, ValuesOf(keys))

LEMMA CommitterHasItsKeys ==
  ASSUME NEW old, NEW new, NEW e, NEW c, NEW m, NEW place, CommitMade(old, new, e, c, m, place), m.epoch = e,
         NEW keys, IF m.external THEN keys = <<>> ELSE KeysFit(old, c, LeafToNodeIndex(m.sender), e, keys),
         NEW K, K = IF m.path = NoPath THEN keys
                    ELSE KeysFrom(e, <<LeafToNodeIndex(m.sender)>> \o PathOf(new, m.sender), 0) ++ keys
  PROVE  KeysFit(new, c, LeafToNodeIndex(m.sender), e + 1, K)
<1> DEFINE s == LeafToNodeIndex(m.sender)
           P == PathOf(new, m.sender)
           r == KeysFrom(e, <<s>> \o P, 0)
<1>1. CommitOf(old, e, c, m, new) /\ e \in Nat /\ m.sender \in Nat /\ s \in Nat /\ IsLeaf(s) /\ Block(s) = {s}
  BY LeafNumbers DEF CommitMade, CommitOf
<1>2. SoundTree(new, e + 1) /\ PathKnown(new, m)
  BY SoundTreeStep, PathBecomesKnown
<1>3. m.path # NoPath => HasPath(new, m.sender, c, e)
  BY <1>1, PathOfCommit
<1>4. m.external => m.path # NoPath /\ m.updates = {} /\ m.adds = <<>>
  BY <1>1 DEF CommitOf
<1>5. m.path # NoPath => /\ DOMAIN r = {s} \union {P[i] : i \in DOMAIN P}
                         /\ r[s] = PathKey(e, 0) /\ \A i \in DOMAIN P : r[P[i]] = PathKey(e, i)
  <2> SUFFICES ASSUME m.path # NoPath
               PROVE  /\ DOMAIN r = {s} \union {P[i] : i \in DOMAIN P}
                      /\ r[s] = PathKey(e, 0) /\ \A i \in DOMAIN P : r[P[i]] = PathKey(e, i)
    OBVIOUS
  <2>1. OwnPath(r, s, P, e)
    BY <1>1, <1>3, OwnPathKeys
  <2> HIDE DEF r, s, P
  <2> QED
    BY <2>1 DEF OwnPath
<1>6. ValuesOf(<<>>) = {}
  BY DEF ValuesOf
<1>7. SoundKeys(old, c, ValuesOf(keys)) /\ OldKeys(e, ValuesOf(keys))
  BY <1>6 DEF KeysFit, SoundKeys, OldKeys
<1>8. SoundKeys(new, c, ValuesOf(keys))
  BY <1>7, OldKeysStaySound
<1> HIDE DEF s, P, r
<1>9. LeafAt(new, c, s)
  <2>1. CASE m.path # NoPath
    BY <1>1, <2>1, NodesOfCommit DEF SenderNode, s
  <2>2. CASE m.path = NoPath
    BY <1>4, <2>2, NoPathRenewsNothing DEF KeysFit, s
  <2> QED
    BY <2>1, <2>2
<1>10. \A d : LeafAt(new, d, s) => d = c
  BY <1>9 DEF LeafAt
<1>11. CASE m.path = NoPath
  <2>1. K = keys /\ ~m.external
    BY <1>4, <1>11
  <2>2. Complete(new, c, keys)
    <3> SUFFICES ASSUME NEW x \in Nat, At(new, x) # Blank, HolderAt(new, c, x)
                 PROVE  x \in DOMAIN keys /\ keys[x] = At(new, x).key
      BY DEF Complete
    <3>1. LeafAt(old, c, s) /\ Complete(old, c, keys)
      BY <2>1 DEF KeysFit, s
    <3>2. ~AddedNode(m, place, new, x)
      <4> SUFFICES ASSUME AddedNode(m, place, new, x)  PROVE FALSE
        OBVIOUS
      <4>1. PICK d : LeafAt(new, d, x) /\ \A y : ~LeafAt(old, d, y)
        BY NodesOfCommit
      <4>2. x = s
        BY <1>1, <1>2, <1>9, <4>1, HoldersLeaf, LeafNodesNumber DEF LeafAt
      <4> QED
        BY <1>10, <3>1, <4>1, <4>2
    <3>3. ~UpdatedNode(m, new, x) /\ ~SenderNode(m, x) /\ ~PathNode(m, new, x)
      BY <1>1, <1>11 DEF CommitOf, UpdatedNode, SenderNode, PathNode
    <3>4. KeptNode(old, new, m, place, x)
      BY <3>2, <3>3, OriginOfNode
    <3>5. HolderAt(old, c, x) /\ At(old, x) # Blank /\ At(new, x).key = At(old, x).key
      BY <3>4, HoldersKept, NodesOfCommit DEF KeptNode
    <3> QED
      BY <3>1, <3>5 DEF Complete
  <2>3. OldKeys(e + 1, ValuesOf(keys))
    BY <1>1, <1>7 DEF OldKeys
  <2> QED
    BY <1>8, <1>9, <2>1, <2>2, <2>3 DEF KeysFit, s
<1>12. CASE m.path # NoPath
  <2>1. K = r ++ keys
    BY <1>12 DEF r, s, P
  <2>2. \A k \in ValuesOf(r) : \E i \in Nat : k = PathKey(e, i)
    <3>1. DOMAIN P \subseteq Nat
      BY <1>3, <1>12 DEF HasPath, Ascending, P
    <3> QED
      BY <1>5, <1>12, <3>1 DEF ValuesOf
  <2>3. ValuesOf(K) \subseteq ValuesOf(r) \union ValuesOf(keys)
    BY <2>1, ValuesOver
  <2>4. \A i \in DOMAIN P : HolderAt(new, c, P[i])
    <3> SUFFICES ASSUME NEW i \in DOMAIN P  PROVE HolderAt(new, c, P[i])
      OBVIOUS
    <3>1. s \in Block(P[i])
      BY <1>3, <1>12 DEF HasPath, Ascending, P, s
    <3> QED
      BY <1>1, <1>3, <1>9, <1>12, <3>1, BelowThePath DEF P
  <2>5. HolderAt(new, c, s)
    BY <1>1, <1>9 DEF HolderAt
  <2>6. SoundKeys(new, c, ValuesOf(K))
    <3> SUFFICES ASSUME NEW x \in Nat, At(new, x) # Blank, At(new, x).key \in ValuesOf(K)  PROVE HolderAt(new, c, x)
      BY DEF SoundKeys
    <3>1. CASE At(new, x).key \in ValuesOf(keys)
      BY <1>8, <3>1 DEF SoundKeys
    <3>2. CASE At(new, x).key \in ValuesOf(r)
      <4>1. PICK i \in Nat : At(new, x).key = PathKey(m.epoch, i)
        BY <2>2, <3>2
      <4>2. SenderNode(m, x) \/ (i \in DOMAIN P /\ x = P[i])
        BY <1>2, <4>1 DEF PathKnown, P
      <4> QED
        BY <2>4, <2>5, <4>2 DEF SenderNode, s
    <3> QED
      BY <2>3, <3>1, <3>2
  <2>7. Complete(new, c, K)
    <3> SUFFICES ASSUME NEW x \in Nat, At(new, x) # Blank, HolderAt(new, c, x)
                 PROVE  x \in DOMAIN K /\ K[x] = At(new, x).key
      BY DEF Complete
    <3>1. s \in Block(x)
      BY <1>2, <1>9, HoldersLeaf
    <3>2. x = s \/ \E i \in DOMAIN P : x = P[i]
      BY <1>3, <1>12, <3>1 DEF HasPath, s, P
    <3>3. x \in DOMAIN r /\ r[x] = At(new, x).key
      BY <1>3, <1>5, <1>12, <3>2 DEF HasPath, s, P
    <3> QED
      BY <2>1, <3>3 DEF ++
  <2>8. OldKeys(e + 1, ValuesOf(K))
    <3>1. \A k \in ValuesOf(r) : k # NoKey /\ k[2] = e
      BY <2>2, KeysAreNotEmpty
    <3> QED
      BY <1>1, <1>7, <2>3, <3>1 DEF OldKeys
  <2> QED
    BY <1>9, <2>6, <2>7, <2>8 DEF KeysFit, s
<1> QED
  BY <1>11, <1>12

\* The keys of the sender's path from where a client's leaf meets it are the client's to hold.
LEMMA RouteIsSound ==
  ASSUME NEW t, NEW m, PathKnown(t, m), m.path # NoPath, NEW c, NEW own, LeafAt(t, c, own),
         NEW w, w # 0, MeetsAt(PathOf(t, m.sender), own, w),
         NEW K, RouteKeys(K, PathOf(t, m.sender), w, m.epoch, LeafToNodeIndex(m.sender))
  PROVE  /\ SoundKeys(t, c, ValuesOf(K))
         /\ \A k \in ValuesOf(K) : k # NoKey /\ k[2] = m.epoch
<1> DEFINE P == PathOf(t, m.sender)
<1>1. \A k \in ValuesOf(K) : \E j \in Nat : j >= w /\ k = PathKey(m.epoch, j)
  BY DEF ValuesOf, RouteKeys
<1>2. w \in DOMAIN P /\ \A i \in DOMAIN P : own \in Block(P[i]) <=> i >= w
  BY DEF MeetsAt
<1>3. m.sender \in Nat /\ \E a : HasPath(t, m.sender, a, m.epoch)
  BY DEF PathKnown
<1>4. DOMAIN P \subseteq Nat \ {0}
  BY <1>3 DEF HasPath, Ascending
<1>5. ASSUME NEW x \in Nat, At(t, x) # Blank, At(t, x).key \in ValuesOf(K)  PROVE HolderAt(t, c, x)
  <2>1. PICK j \in Nat : j >= w /\ At(t, x).key = PathKey(m.epoch, j)
    BY <1>1, <1>5
  <2>2. j # 0
    BY <1>2, <1>4, <2>1
  <2>3. j \in DOMAIN P /\ x = P[j]
    BY <1>5, <2>1, <2>2 DEF PathKnown
  <2>4. own \in Block(P[j])
    BY <1>2, <2>1, <2>3
  <2> QED
    BY <1>3, <2>3, <2>4, BelowThePath
<1>6. \A k \in ValuesOf(K) : k # NoKey /\ k[2] = m.epoch
  BY <1>1, KeysAreNotEmpty
<1> QED
  BY <1>5, <1>6 DEF SoundKeys

WithUpdateKey(m, c, own, keys) ==
  IF UpdateKey(m.epoch, c) \in {u.leafNode.key : u \in m.updates}
  THEN [n \in {own} |-> UpdateKey(m.epoch, c)] ++ keys
  ELSE keys

\* With the key of its own update a client has keys that are its to hold.
LEMMA UpdateKeysAreSound ==
  ASSUME NEW old, NEW new, NEW e, NEW a, NEW m, NEW place, CommitMade(old, new, e, a, m, place), m.epoch = e,
         NEW c, NEW own, NEW keys, KeysFit(old, c, own, e, keys)
  PROVE  /\ SoundKeys(new, c, ValuesOf(WithUpdateKey(m, c, own, keys)))
         /\ OldKeys(e + 1, ValuesOf(WithUpdateKey(m, c, own, keys)))
<1> DEFINE kw == WithUpdateKey(m, c, own, keys)
           known == UpdateKey(e, c) \in {u.leafNode.key : u \in m.updates}
<1>1. e \in Nat
  BY DEF CommitMade
<1>2. SoundTree(new, e + 1)
  BY SoundTreeStep
<1>3. SoundKeys(old, c, ValuesOf(keys)) /\ OldKeys(e, ValuesOf(keys))
  BY DEF KeysFit
<1>4. SoundKeys(new, c, ValuesOf(keys))
  BY <1>3, OldKeysStaySound
<1>5. kw = IF known THEN [n \in {own} |-> UpdateKey(e, c)] ++ keys ELSE keys
  BY DEF WithUpdateKey
<1> HIDE DEF kw, known
<1>6. ValuesOf(kw) \subseteq ValuesOf(keys) \union {UpdateKey(e, c)}
  BY <1>5 DEF ValuesOf, ++
<1>7. SoundKeys(new, c, ValuesOf(kw))
  <2> SUFFICES ASSUME NEW x \in Nat, At(new, x) # Blank, At(new, x).key \in ValuesOf(kw)  PROVE HolderAt(new, c, x)
    BY DEF SoundKeys
  <2>1. CASE At(new, x).key \in ValuesOf(keys)
    BY <1>4, <2>1 DEF SoundKeys
  <2>2. CASE At(new, x).key = UpdateKey(e, c)
    <3>1. LeafAt(new, c, x)
      BY <1>2, <2>2 DEF SoundTree
    <3>2. x \in Block(x)
      BY NodeBasics
    <3> QED
      BY <3>1, <3>2 DEF HolderAt
  <2> QED
    BY <1>6, <2>1, <2>2
<1>8. OldKeys(e + 1, ValuesOf(kw))
  <2>1. UpdateKey(e, c) # NoKey /\ UpdateKey(e, c)[2] = e
    BY KeysAreNotEmpty
  <2> QED
    BY <1>1, <1>3, <1>6, <2>1 DEF OldKeys
<1> QED
  BY <1>7, <1>8 DEF kw

LEMMA FollowerHasItsKeys ==
  ASSUME NEW old, NEW new, NEW e, NEW a, NEW m, NEW place, CommitMade(old, new, e, a, m, place), m.epoch = e,
         NEW c, c # a, NEW own, NEW keys, KeysFit(old, c, own, e, keys), LeafAt(new, c, own),
         NEW w, NEW route,
         m.path # NoPath => /\ w # 0 /\ MeetsAt(PathOf(new, m.sender), own, w)
                            /\ RouteKeys(route, PathOf(new, m.sender), w, e, LeafToNodeIndex(m.sender)),
         NEW K, K = IF m.path = NoPath THEN WithUpdateKey(m, c, own, keys) ELSE route ++ WithUpdateKey(m, c, own, keys)
  PROVE  KeysFit(new, c, own, e + 1, K)
<1> DEFINE s == LeafToNodeIndex(m.sender)
           P == PathOf(new, m.sender)
           kw == WithUpdateKey(m, c, own, keys)
           known == UpdateKey(e, c) \in {u.leafNode.key : u \in m.updates}
<1>1. CommitOf(old, e, a, m, new) /\ e \in Nat /\ SoundTree(old, e)
  BY DEF CommitMade
<1>2. SoundTree(new, e + 1) /\ PathKnown(new, m)
  BY SoundTreeStep, PathBecomesKnown
<1>3. own \in Nat /\ IsLeaf(own) /\ Block(own) = {own}
  BY LeafNodesNumber DEF LeafAt
<1>4. LeafAt(old, c, own) /\ SoundKeys(old, c, ValuesOf(keys)) /\ Complete(old, c, keys) /\ OldKeys(e, ValuesOf(keys))
  BY DEF KeysFit
<1>5. kw = IF known THEN [n \in {own} |-> UpdateKey(e, c)] ++ keys ELSE keys
  BY DEF WithUpdateKey
<1>6. SoundKeys(new, c, ValuesOf(kw)) /\ OldKeys(e + 1, ValuesOf(kw))
  BY UpdateKeysAreSound
<1> HIDE DEF kw, known, s, P
<1>7. known => own \in Renewed(m)
  <2> SUFFICES ASSUME known  PROVE own \in Renewed(m)
    OBVIOUS
  <2>1. PICK u \in m.updates : u.leafNode.key = UpdateKey(e, c)
    BY DEF known
  <2>2. PICK d : u.leafNode = LeafNode(UpdateKey(e, d), d) /\ LeafAt(old, d, LeafToNodeIndex(u.leafIndex))
    BY DEF CommitMade, UpdatesOf
  <2>3. UpdateKey(e, d)[3] = UpdateKey(e, c)[3]
    BY <2>1, <2>2, LeafNodeIs
  <2>4. d = c
    BY <2>3, NodeKeys
  <2>5. LeafToNodeIndex(u.leafIndex) = own
    BY <1>1, <1>4, <2>2, <2>4 DEF SoundTree
  <2> QED
    BY <2>5 DEF Renewed, UpdatedAt
<1>8. m.path # NoPath => \A x \in DOMAIN route : s \in Block(x) /\ x # s
  BY DEF RouteKeys, s
<1>9. ASSUME NEW x \in Nat, At(new, x) # Blank, HolderAt(new, c, x)
       PROVE  \/ x \in DOMAIN kw /\ kw[x] = At(new, x).key /\ (m.path # NoPath => x \notin DOMAIN route)
              \/ m.path # NoPath /\ x \in DOMAIN route /\ route[x] = At(new, x).key
  <2>1. own \in Block(x)
    BY <1>2, <1>9, HoldersLeaf
  <2>2. IsLeaf(x) => x = own
    BY <2>1, LeafNodesNumber
  <2>3. \A d : LeafAt(new, d, own) => d = c
    BY DEF LeafAt
  <2>4. m.path # NoPath => own \notin DOMAIN route
    BY <1>3, <1>8
  <2>5. CASE AddedNode(m, place, new, x)
    <3>1. \E d : /\ LeafAt(new, d, x) /\ At(new, x).key = PackageKey(e, d) /\ At(new, x).unmergedLeaves = <<>>
                 /\ \A y : ~LeafAt(old, d, y)
      BY <2>5, NodesOfCommit
    <3>2. PICK d : LeafAt(new, d, x) /\ \A y : ~LeafAt(old, d, y)
      BY <3>1
    <3>3. IsLeaf(x)
      BY <3>2 DEF LeafAt
    <3>4. d = c
      BY <2>2, <2>3, <3>2, <3>3
    <3> QED
      BY <1>4, <3>2, <3>4
  <2>6. CASE UpdatedNode(m, new, x)
    <3>1. PICK d : LeafAt(new, d, x) /\ At(new, x).key = UpdateKey(e, d)
      BY <2>6, NodesOfCommit
    <3>2. x = own /\ d = c
      BY <2>2, <2>3, <3>1 DEF LeafAt
    <3>3. known
      BY <2>6, <3>1, <3>2 DEF known, UpdatedNode
    <3>4. own \in DOMAIN kw /\ kw[own] = UpdateKey(e, c)
      BY <1>5, <3>3 DEF ++
    <3> QED
      BY <2>4, <3>1, <3>2, <3>4
  <2>7. CASE SenderNode(m, x)
    <3>1. LeafAt(new, a, x)
      BY <2>7, NodesOfCommit
    <3>2. x = own
      BY <2>2, <3>1 DEF LeafAt
    <3> QED
      BY <2>3, <3>1, <3>2
  <2>8. CASE PathNode(m, new, x)
    <3>1. PICK i \in DOMAIN P : x = P[i]
      BY <2>8 DEF PathNode, P
    <3>2. m.path # NoPath
      BY <2>8 DEF PathNode
    <3>3. i >= w
      BY <2>1, <3>1, <3>2 DEF MeetsAt, P
    <3>4. P[i] \in DOMAIN route /\ route[P[i]] = PathKey(e, i)
      BY <3>1, <3>2, <3>3 DEF RouteKeys, P
    <3>5. At(new, P[i]).key = PathKey(e, i)
      BY <1>1, <3>1, <3>2, PathOfCommit DEF HasPath, P
    <3> QED
      BY <3>1, <3>2, <3>4, <3>5
  <2>9. CASE KeptNode(old, new, m, place, x)
    <3>1. HolderAt(old, c, x) /\ At(old, x) # Blank /\ At(new, x).key = At(old, x).key /\ Spared(m, x)
      BY <1>9, <2>9, HoldersKept, NodesOfCommit DEF KeptNode
    <3>2. x \in DOMAIN keys /\ keys[x] = At(new, x).key
      BY <1>4, <3>1 DEF Complete
    <3>3. m.path # NoPath => x \notin DOMAIN route
      BY <1>8, <3>1 DEF Spared, Renewed, s
    <3>4. known => x # own
      BY <1>3, <1>7, <3>1 DEF Spared
    <3>5. x \in DOMAIN kw /\ kw[x] = keys[x]
      BY <1>5, <3>2, <3>4 DEF ++
    <3> QED
      BY <3>2, <3>3, <3>5
  <2> QED
    BY <1>9, <2>5, <2>6, <2>7, <2>8, <2>9, OriginOfNode
<1>10. CASE m.path = NoPath
  <2>1. K = kw
    BY <1>10 DEF kw
  <2>2. Complete(new, c, kw)
    BY <1>9, <1>10 DEF Complete
  <2> QED
    BY <1>6, <2>1, <2>2 DEF KeysFit
<1>11. CASE m.path # NoPath
  <2>1. K = route ++ kw
    BY <1>11 DEF kw
  <2>2. Complete(new, c, K)
    <3> SUFFICES ASSUME NEW x \in Nat, At(new, x) # Blank, HolderAt(new, c, x)
                 PROVE  x \in DOMAIN K /\ K[x] = At(new, x).key
      BY DEF Complete
    <3> QED
      BY <1>9, <1>11, <2>1 DEF ++
  <2>3. ValuesOf(K) \subseteq ValuesOf(route) \union ValuesOf(kw)
    BY <2>1, ValuesOver
  <2>4. SoundKeys(new, c, ValuesOf(route)) /\ \A k \in ValuesOf(route) : k # NoKey /\ k[2] = e
    BY <1>2, <1>11, RouteIsSound
  <2>5. SoundKeys(new, c, ValuesOf(K))
    BY <1>6, <2>3, <2>4 DEF SoundKeys
  <2>6. OldKeys(e + 1, ValuesOf(K))
    BY <1>1, <1>6, <2>3, <2>4 DEF OldKeys
  <2> QED
    BY <2>2, <2>5, <2>6 DEF KeysFit
<1> QED
  BY <1>10, <1>11

\* A newcomer has the leaf of its key package, is below the node of the path
\* whose secret it is sent, and is to hold no key besides its own and the path's.
AwaitedAt(t, m, c, secret, own) ==
  /\ LeafAt(t, c, own) /\ At(t, own).key = PackageKey(m.epoch, c)
  /\ IF m.path = NoPath THEN secret = 0 ELSE MeetsAt(PathOf(t, m.sender), own, secret)
  /\ \A x \in Nat : At(t, x) # Blank /\ x # own /\ HolderAt(t, c, x) => PathNode(m, t, x)

JoinerKeys(m, c, own, secret, route) ==
  [n \in {own} |-> PackageKey(m.epoch, c)] ++ IF secret = 0 THEN <<>> ELSE route

LEMMA JoinerHasItsKeys ==
  ASSUME NEW t, NEW m, NEW e, m.epoch = e, e \in Nat, SoundTree(t, e + 1), PathKnown(t, m),
         NEW c, NEW own, NEW secret, AwaitedAt(t, m, c, secret, own),
         m.path # NoPath => secret # 0,
         NEW route, m.path # NoPath => RouteKeys(route, PathOf(t, m.sender), secret, e, LeafToNodeIndex(m.sender))
  PROVE  KeysFit(t, c, own, e + 1, JoinerKeys(m, c, own, secret, route))
<1> DEFINE P == PathOf(t, m.sender)
           s == LeafToNodeIndex(m.sender)
           K == JoinerKeys(m, c, own, secret, route)
<1>1. /\ LeafAt(t, c, own) /\ At(t, own).key = PackageKey(e, c)
      /\ IF m.path = NoPath THEN secret = 0 ELSE MeetsAt(P, own, secret)
      /\ \A x \in Nat : At(t, x) # Blank /\ x # own /\ HolderAt(t, c, x) => PathNode(m, t, x)
  BY DEF AwaitedAt
<1>2. own \in Nat /\ IsLeaf(own) /\ Block(own) = {own}
  BY <1>1, LeafNodesNumber DEF LeafAt
<1>3. K = IF m.path = NoPath THEN [n \in {own} |-> PackageKey(e, c)] ++ <<>>
          ELSE [n \in {own} |-> PackageKey(e, c)] ++ route
  BY <1>1 DEF JoinerKeys
<1> HIDE DEF K
<1>4. own \in DOMAIN K /\ K[own] = PackageKey(e, c)
  BY <1>3 DEF ++
<1>5. m.path # NoPath => \A x \in DOMAIN route : s \in Block(x) /\ x # s
  BY DEF RouteKeys
<1>6. m.path # NoPath => own \notin DOMAIN route
  BY <1>2, <1>5
<1>7. m.path # NoPath => \A x \in DOMAIN route : x \in DOMAIN K /\ K[x] = route[x]
  BY <1>3, <1>6 DEF ++
<1>8. ValuesOf(K) \subseteq {PackageKey(e, c)} \union (IF m.path = NoPath THEN {} ELSE ValuesOf(route))
  <2>1. ValuesOf([n \in {own} |-> PackageKey(e, c)]) = {PackageKey(e, c)}
    BY DEF ValuesOf
  <2>2. ValuesOf(<<>>) = {}
    BY DEF ValuesOf
  <2> QED
    BY <1>3, <2>1, <2>2, ValuesOver
<1> HIDE DEF P, s
<1>9. m.path # NoPath => SoundKeys(t, c, ValuesOf(route)) /\ \A k \in ValuesOf(route) : k # NoKey /\ k[2] = e
  <2> HAVE m.path # NoPath
  <2>1. MeetsAt(PathOf(t, m.sender), own, secret)
    BY <1>1 DEF P
  <2>2. RouteKeys(route, PathOf(t, m.sender), secret, m.epoch, LeafToNodeIndex(m.sender)) /\ secret # 0
    OBVIOUS
  <2>3. /\ SoundKeys(t, c, ValuesOf(route))
        /\ \A k \in ValuesOf(route) : k # NoKey /\ k[2] = m.epoch
    BY <1>1, <2>1, <2>2, RouteIsSound
  <2> QED
    BY <2>3
<1>10. SoundKeys(t, c, ValuesOf(K))
  <2> SUFFICES ASSUME NEW x \in Nat, At(t, x) # Blank, At(t, x).key \in ValuesOf(K)  PROVE HolderAt(t, c, x)
    BY DEF SoundKeys
  <2>1. CASE m.path # NoPath /\ At(t, x).key \in ValuesOf(route)
    BY <1>9, <2>1 DEF SoundKeys
  <2>2. CASE At(t, x).key = PackageKey(e, c)
    <3>1. LeafAt(t, c, x)
      BY <2>2 DEF SoundTree
    <3>2. x \in Block(x)
      BY NodeBasics
    <3> QED
      BY <3>1, <3>2 DEF HolderAt
  <2> QED
    BY <1>8, <2>1, <2>2
<1>11. OldKeys(e + 1, ValuesOf(K))
  <2>1. PackageKey(e, c) # NoKey /\ PackageKey(e, c)[2] = e
    BY KeysAreNotEmpty
  <2> QED
    BY <1>8, <1>9, <2>1 DEF OldKeys
<1>12. Complete(t, c, K)
  <2> SUFFICES ASSUME NEW x \in Nat, At(t, x) # Blank, HolderAt(t, c, x)
               PROVE  x \in DOMAIN K /\ K[x] = At(t, x).key
    BY DEF Complete
  <2>1. CASE x = own
    BY <1>1, <1>4, <2>1
  <2>2. CASE x # own
    <3>1. PathNode(m, t, x)
      BY <1>1, <2>2
    <3>2. PICK i \in DOMAIN P : x = P[i]
      BY <3>1 DEF PathNode, P
    <3>3. m.path # NoPath
      BY <3>1 DEF PathNode
    <3>4. own \in Block(x)
      BY <1>1, HoldersLeaf
    <3>5. i >= secret
      BY <1>1, <3>2, <3>3, <3>4 DEF MeetsAt
    <3>6. P[i] \in DOMAIN route /\ route[P[i]] = PathKey(e, i)
      BY <3>2, <3>3, <3>5 DEF RouteKeys, P
    <3>7. At(t, P[i]).key = PathKey(e, i)
      BY <3>3 DEF PathKnown, HasPath, P
    <3> QED
      BY <1>7, <3>2, <3>3, <3>6, <3>7
  <2> QED
    BY <2>1, <2>2
<1> QED
  BY <1>1, <1>10, <1>11, <1>12 DEF KeysFit, K

-----------------------------------------------------------------------------
(***************************************************************************)
(* What a path is encrypted to are keys of nodes of the tree.              *)
(***************************************************************************)
LEMMA ResolutionFits ==
  ASSUME NEW t, NEW h, IsTreeOf(t, h), NEW e, SoundTree(t, e)
  PROVE  \A x \in Full(h) : Resolution(t)[x] \in Seq(Full(h))
<1> DEFINE r == Resolution(t)
           S == {k \in Nat : \A n \in Full(h) : Level(n) <= k => r[n] \in Seq(Full(h))}
<1>1. h \in Nat /\ \A n \in Full(h) : n \in Nat /\ Level(n) \in 0 .. h /\ Block(n) \subseteq Full(h)
  BY TreeShape, NodeOfTree, NodeBasics
<1>2. Resolves(t, r, Full(h))
  BY ResolutionIs
<1> HIDE DEF r
<1>3. \A n \in Full(h) : r[n] = IF t[n] # Blank THEN OwnResolution(t, n)
                                ELSE IF IsLeaf(n) THEN <<>> ELSE r[Left(n)] \o r[Right(n)]
  BY <1>2 DEF Resolves
<1>4. ASSUME NEW n \in Full(h), t[n] # Blank  PROVE OwnResolution(t, n) \in Seq(Full(h))
  <2> DEFINE u == t[n].unmergedLeaves
             f == [i \in DOMAIN u |-> LeafToNodeIndex(u[i])]
  <2>1. u \in Seq(Nat)
    BY TreeShape DEF IsNode
  <2>2. \A i \in DOMAIN u : LeafToNodeIndex(u[i]) \in Full(h)
    <3>1. n \in Nat /\ At(t, n) = t[n]
      BY <1>1, TreeShape DEF At
    <3>2. \A l \in ToSet(u) : LeafToNodeIndex(l) \in Block(n)
      BY <1>4, <3>1 DEF SoundTree
    <3> QED
      BY <1>1, <3>2 DEF ToSet
  <2>3. Len(u) \in Nat /\ DOMAIN u = 1 .. Len(u)
    BY <2>1
  <2>4. OwnResolution(t, n) = <<n>> \o f
    BY DEF OwnResolution
  <2> HIDE DEF u
  <2>5. f \in [1 .. Len(u) -> Full(h)]
    BY <2>2, <2>3
  <2> HIDE DEF f
  <2>6. f \in Seq(Full(h))
    BY <2>3, <2>5, FunctionIsSequence
  <2> QED
    BY <2>4, <2>6
<1>5. 0 \in S
  <2>1. \A n \in Full(h) : Level(n) <= 0 => IsLeaf(n)
    BY <1>1, NodeBasics
  <2>2. <<>> \in Seq(Full(h))
    OBVIOUS
  <2> QED
    BY <1>1, <1>3, <1>4, <2>1, <2>2
<1>6. ASSUME NEW k \in Nat, k \in S  PROVE k + 1 \in S
  <2> SUFFICES ASSUME NEW n \in Full(h), Level(n) <= k + 1  PROVE r[n] \in Seq(Full(h))
    OBVIOUS
  <2>1. CASE t[n] # Blank
    BY <1>3, <1>4, <2>1
  <2>2. CASE t[n] = Blank /\ IsLeaf(n)
    <3>1. <<>> \in Seq(Full(h))
      OBVIOUS
    <3> QED
      BY <1>3, <2>2, <3>1
  <2>3. CASE t[n] = Blank /\ ~IsLeaf(n)
    <3>1. /\ Left(n) \in Full(h) /\ Right(n) \in Full(h)
          /\ Level(Left(n)) <= k /\ Level(Right(n)) <= k
      BY <1>1, <2>3, ChildrenInTree
    <3>2. r[Left(n)] \in Seq(Full(h)) /\ r[Right(n)] \in Seq(Full(h))
      BY <1>6, <3>1
    <3>3. r[Left(n)] \o r[Right(n)] \in Seq(Full(h))
      BY <3>2
    <3> QED
      BY <1>3, <2>3, <3>3
  <2> QED
    BY <2>1, <2>2, <2>3
<1>7. Nat \subseteq S
  <2> HIDE DEF S
  <2> QED
    BY <1>5, <1>6, InductionOnSet
<1> QED
  BY <1>1, <1>7 DEF r

LEMMA PathResolutions ==
  ASSUME NEW t, NEW h, IsTreeOf(t, h), NEW e, SoundTree(t, e), NEW l \in Nat, LeafToNodeIndex(l) \in Full(h)
  PROVE  \A i \in DOMAIN FilteredDirectPath(l, t) : FilteredDirectPath(l, t)[i].resolution \in Seq(Full(h))
<1> DEFINE s == LeafToNodeIndex(l)
           path == DirectPath(s, 2^h)
           copath == Copath(s, 2^h)
           all == Resolution(t)
           seq == [i \in DOMAIN path |-> [nodeIndex |-> path[i], resolution |-> all[copath[i]]]]
           P == {i \in DOMAIN path : all[copath[i]] # <<>>}
           fdp == FilteredDirectPath(l, t)
<1>1. h \in Nat /\ WidthOf(t) = 2^h
  BY TreeShape
<1>2. s \in Nat /\ s \in Full(h) /\ Level(s) = 0
  BY LeafNumbers, NodeBasics
<1>3. fdp = AtPositions(seq, P)
  BY <1>1 DEF FilteredDirectPath
<1>4. PathFrom(s, h, path) /\ CopathFrom(s, h, path, copath)
  BY <1>1, <1>2, DirectPathIs, CopathIs
<1>5. \A x \in Full(h) : all[x] \in Seq(Full(h))
  BY ResolutionFits
<1> HIDE DEF s, path, copath, all, fdp
<1>6. DOMAIN path = 1 .. h
  BY <1>1, <1>2, <1>4 DEF PathFrom
<1>7. \A i \in P : i \in DOMAIN path /\ seq[i].resolution = all[copath[i]]
  OBVIOUS
<1>8. P \subseteq 1 .. h
  BY <1>6
<1> HIDE DEF P, seq
<1>9. PICK nth : Selected(seq, P, fdp, nth)
  BY <1>1, <1>3, <1>8, AtPositionsIs
<1>10. \A k \in DOMAIN fdp : nth[k] \in P /\ fdp[k] = seq[nth[k]]
  BY <1>9 DEF Selected
<1>11. \A i \in DOMAIN path : copath[i] \in Full(h)
  BY <1>4 DEF CopathFrom
<1>12. \A k \in DOMAIN fdp : fdp[k].resolution \in Seq(Full(h))
  BY <1>5, <1>7, <1>10, <1>11
<1> QED
  BY <1>12 DEF fdp

LEMMA ExcludingIs ==
  ASSUME NEW S, NEW seq \in Seq(S), NEW excluded
  PROVE  \A k \in DOMAIN Excluding(seq, excluded) : Excluding(seq, excluded)[k] \in S
<1> DEFINE P == {i \in DOMAIN seq : seq[i] \notin excluded}
           s == Excluding(seq, excluded)
<1>1. Len(seq) \in Nat /\ DOMAIN seq = 1 .. Len(seq) /\ \A i \in DOMAIN seq : seq[i] \in S
  OBVIOUS
<1>2. s = AtPositions(seq, P)
  BY DEF Excluding
<1>3. P \subseteq DOMAIN seq
  OBVIOUS
<1> HIDE DEF P, s
<1>4. PICK nth : Selected(seq, P, s, nth)
  BY <1>1, <1>2, <1>3, AtPositionsIs
<1>5. \A k \in DOMAIN s : nth[k] \in P /\ s[k] = seq[nth[k]]
  BY <1>4 DEF Selected
<1> QED
  BY <1>1, <1>3, <1>5 DEF s

SentToNodes(t, path) ==
  \A i \in DOMAIN path.nodes : \A j \in DOMAIN path.nodes[i].encryptedTo :
    \E x \in Nat : path.nodes[i].encryptedTo[j] = At(t, x).key

LEMMA PathIsSentToNodes ==
  ASSUME NEW tree, NEW k, IsTreeOf(tree, k), NEW l \in Nat, LeafToNodeIndex(l) \in Full(k), NEW c, NEW e,
         NEW new, new = PathMade(tree, l, c, e), NEW f, SoundTree(new, f), NEW added
  PROVE  SentToNodes(new, SentPath(tree, new, l, added)) /\ FilteredDirectPath(l, tree) = FilteredDirectPath(l, new)
<1> DEFINE s == LeafToNodeIndex(l)
           fdp == FilteredDirectPath(l, new)
           excluded == {LeafToNodeIndex(x) : x \in AddedLeaves(tree, added)}
           path == SentPath(tree, new, l, added)
<1>1. NewPath(tree, k, s, PathOf(tree, l), c, e, new)
  BY PathMadeIs
<1>2. IsTreeOf(new, k)
  BY <1>1 DEF NewPath
<1>3. OffPath(k, s, tree, new)
  <2> SUFFICES ASSUME NEW x \in Full(k), s \notin Block(x)  PROVE tree[x] = new[x]
    BY DEF OffPath
  <2>1. x # s
    BY LeafNumbers
  <2>2. \A i \in DOMAIN PathOf(tree, l) : PathOf(tree, l)[i] # x
    BY FilteredPathIs DEF Ascending, PathOf
  <2> QED
    BY <1>1, <2>1, <2>2 DEF NewPath
<1>4. FilteredDirectPath(l, tree) = fdp
  BY <1>2, <1>3, FilteredPathLocal
<1>5. \A i \in DOMAIN fdp : fdp[i].resolution \in Seq(Full(k))
  BY <1>2, PathResolutions
<1>6. path.nodes = EncryptSecretsForPath(new, fdp, excluded)
  BY <1>4 DEF SentPath
<1> HIDE DEF fdp, excluded, path, s
<1>7. DOMAIN path.nodes = DOMAIN fdp
  BY <1>6 DEF EncryptSecretsForPath
<1>8. ASSUME NEW i \in DOMAIN path.nodes, NEW j \in DOMAIN path.nodes[i].encryptedTo
      PROVE  \E x \in Nat : path.nodes[i].encryptedTo[j] = At(new, x).key
  <2> DEFINE sendTo == Excluding(fdp[i].resolution, excluded)
  <2>1. path.nodes[i].encryptedTo = [n \in DOMAIN sendTo |-> new[sendTo[n]].key]
    BY <1>6, <1>7 DEF EncryptSecretsForPath
  <2>2. \A n \in DOMAIN sendTo : sendTo[n] \in Full(k)
    BY <1>5, <1>7, ExcludingIs
  <2> HIDE DEF sendTo
  <2>3. sendTo[j] \in Full(k) /\ path.nodes[i].encryptedTo[j] = new[sendTo[j]].key
    BY <2>1, <2>2
  <2>4. At(new, sendTo[j]) = new[sendTo[j]] /\ sendTo[j] \in Nat
    BY <1>2, <2>3, TreeShape DEF At
  <2> QED
    BY <2>3, <2>4
<1> QED
  BY <1>4, <1>8 DEF SentToNodes, path, fdp

\* A leaf index at which a client's leaf is, and the leaf.
LEMMA LeavesAreLeafAt ==
  ASSUME NEW t, NEW h, IsTreeOf(t, h), NEW c, NEW y
  PROVE  /\ LeafAt(t, c, y) => y \in Leaves(t) /\ t[y] = At(t, y) /\ NodeToLeafIndex(y) \in LeavesOf(t, c)
         /\ \A l \in LeavesOf(t, c) : l \in Nat /\ LeafAt(t, c, LeafToNodeIndex(l))
<1>1. DOMAIN t = Full(h)
  BY TreeShape
<1>2. ASSUME LeafAt(t, c, y)  PROVE y \in Leaves(t) /\ t[y] = At(t, y) /\ NodeToLeafIndex(y) \in LeavesOf(t, c)
  <2>1. y \in DOMAIN t /\ t[y] = At(t, y) /\ t[y] # Blank /\ IsLeaf(y) /\ t[y].client = c
    BY <1>2 DEF LeafAt, At
  <2>2. y \in Leaves(t)
    BY <2>1 DEF Leaves, NonBlank
  <2> QED
    BY <2>1, <2>2 DEF LeavesOf
<1>3. ASSUME NEW l \in LeavesOf(t, c)  PROVE l \in Nat /\ LeafAt(t, c, LeafToNodeIndex(l))
  <2>1. /\ l \in Nat /\ LeafToNodeIndex(l) \in Full(h) /\ At(t, LeafToNodeIndex(l)) # Blank
        /\ t[LeafToNodeIndex(l)].client = c
    BY LeafIndicesOf
  <2>2. At(t, LeafToNodeIndex(l)) = t[LeafToNodeIndex(l)]
    BY <1>1, <2>1 DEF At
  <2> QED
    BY <2>1, <2>2, LeafNumbers DEF LeafAt
<1> QED
  BY <1>2, <1>3

AddedLeafOf(t, added, d) == CHOOSE l \in AddedLeaves(t, added) : t[LeafToNodeIndex(l)].client = d

LEMMA AddedLeafIs ==
  ASSUME NEW t, NEW h, IsTreeOf(t, h), NEW e, SoundTree(t, e), NEW added, NEW i \in DOMAIN added,
         NEW d, NEW p, LeafAt(t, d, p), At(t, p) = added[i]
  PROVE  AddedLeafOf(t, added, d) \in Nat /\ LeafToNodeIndex(AddedLeafOf(t, added, d)) = p
<1> DEFINE q == AddedLeafOf(t, added, d)
           L == AddedLeaves(t, added)
<1>1. p \in Leaves(t) /\ t[p] = At(t, p) /\ p \in Nat /\ IsLeaf(p) /\ t[p].client = d
  BY LeavesAreLeafAt DEF LeafAt
<1>2. LeafToNodeIndex(NodeToLeafIndex(p)) = p
  BY <1>1, LeafNodesNumber
<1>3. NodeToLeafIndex(p) \in L
  BY <1>1 DEF AddedLeaves
<1>4. q \in L /\ t[LeafToNodeIndex(q)].client = d
  BY <1>1, <1>2, <1>3 DEF AddedLeafOf
<1>5. PICK n \in Leaves(t) : q = NodeToLeafIndex(n)
  BY <1>4 DEF AddedLeaves
<1>6. n \in Nat /\ IsLeaf(n) /\ n \in DOMAIN t /\ t[n] # Blank
  BY <1>5, TreeShape DEF Leaves, NonBlank
<1>7. q \in Nat /\ LeafToNodeIndex(q) = n
  BY <1>5, <1>6, LeafNodesNumber
<1>8. LeafAt(t, d, n)
  BY <1>4, <1>6, <1>7 DEF LeafAt, At
<1> QED
  BY <1>7, <1>8 DEF SoundTree

LEMMA InvitedAreAwaited ==
  ASSUME NEW old, NEW new, NEW e, NEW c, NEW m, NEW place, CommitMade(old, new, e, c, m, place), m.epoch = e,
         NEW i \in DOMAIN m.adds, NEW d, m.adds[i].client = d,
         NEW secret, NEW fdp, NodesOf(fdp) = PathOf(new, m.sender),
         secret = IF m.path = NoPath THEN 0 ELSE FirstMatch(new, fdp, AddedLeafOf(new, m.adds, d))
  PROVE  AwaitedAt(new, m, d, secret, place[i])
<1> DEFINE p == place[i]
           q == AddedLeafOf(new, m.adds, d)
<1>1. i \in 1 .. Len(m.adds)
  BY DEF CommitMade, CommitOf
<1>2. p \in Nat /\ IsLeaf(p) /\ At(new, p) = m.adds[i]
  BY <1>1 DEF CommitMade, Changed
<1>3. PICK b : m.adds[i] = LeafNode(PackageKey(e, b), b) /\ \A y : ~LeafAt(old, b, y)
  BY <1>1 DEF CommitMade, AddsOf
<1>4. b = d /\ At(new, p) # Blank /\ At(new, p).key = PackageKey(e, d)
  BY <1>2, <1>3, LeafNodeIs
<1>5. LeafAt(new, d, p) /\ \A y : ~LeafAt(old, d, y)
  BY <1>2, <1>3, <1>4 DEF LeafAt
<1>6. SoundTree(new, e + 1) /\ PathKnown(new, m)
  BY SoundTreeStep, PathBecomesKnown
<1>7. \A y : LeafAt(new, d, y) => y = p
  BY <1>5, <1>6 DEF SoundTree
<1>8. CommitOf(old, e, c, m, new)
  BY DEF CommitMade
<1> HIDE DEF p
<1>9. m.path # NoPath => MeetsAt(PathOf(new, m.sender), p, secret)
  <2> HAVE m.path # NoPath
  <2>1. \E a : HasPath(new, m.sender, a, e)
    BY <1>6 DEF PathKnown
  <2>2. PICK h : /\ IsTreeOf(new, h) /\ LeafToNodeIndex(m.sender) \in Full(h)
                 /\ Ascending(h, LeafToNodeIndex(m.sender), NodesOf(fdp))
    BY <2>1 DEF HasPath
  <2>3. q \in Nat /\ LeafToNodeIndex(q) = p
    <3> DEFINE f == e + 1
    <3>1. SoundTree(new, f)
      BY <1>6
    <3> HIDE DEF f, q
    <3>2. AddedLeafOf(new, m.adds, d) \in Nat /\ LeafToNodeIndex(AddedLeafOf(new, m.adds, d)) = p
      BY <1>2, <1>5, <2>2, <3>1, AddedLeafIs DEF p
    <3> QED
      BY <3>2 DEF q
  <2>4. p \in Full(h)
    BY <1>5, <2>2, TreeShape DEF LeafAt, At
  <2> HIDE DEF q
  <2>5. MeetsAt(NodesOf(fdp), LeafToNodeIndex(q), FirstMatch(new, fdp, q))
    BY <2>2, <2>3, <2>4, FirstMatchIs
  <2>6. secret = FirstMatch(new, fdp, q)
    BY DEF q
  <2> QED
    BY <2>3, <2>5, <2>6
<1>10. ASSUME NEW x \in Nat, At(new, x) # Blank, x # p, HolderAt(new, d, x)  PROVE PathNode(m, new, x)
  <2>1. \A b1 : LeafAt(new, b1, x) => x = p
    <3> SUFFICES ASSUME NEW b1, LeafAt(new, b1, x)  PROVE x = p
      OBVIOUS
    <3>1. Block(x) = {x}
      BY LeafNodesNumber DEF LeafAt
    <3>2. \E y : LeafAt(new, d, y) /\ y \in Block(x)
      BY <1>10 DEF HolderAt
    <3> QED
      BY <1>7, <3>1, <3>2
  <2>2. \A b1 : ~LeafAt(new, b1, x)
    BY <1>10, <2>1
  <2>3. ~AddedNode(m, place, new, x) /\ ~UpdatedNode(m, new, x) /\ ~SenderNode(m, x)
    BY <2>2, NodesOfCommit
  <2>4. ~KeptNode(old, new, m, place, x)
    <3> SUFFICES ASSUME KeptNode(old, new, m, place, x)  PROVE FALSE
      OBVIOUS
    <3>1. HolderAt(old, d, x)
      BY <1>10, HoldersKept
    <3> QED
      BY <1>5, <3>1 DEF HolderAt
  <2> QED
    BY <1>10, <2>3, <2>4, OriginOfNode
<1>11. m.path = NoPath => secret = 0
  OBVIOUS
<1> QED
  BY <1>4, <1>5, <1>9, <1>10, <1>11 DEF AwaitedAt, p

-----------------------------------------------------------------------------
(***************************************************************************)
(* The invariant behind KeyHolders and CommitHeals: the keys of the tree a *)
(* client has are those it is to hold, and the members have all of them;   *)
(* those who have yet to follow the last commit fit the tree it was made   *)
(* for.                                                                    *)
(***************************************************************************)
HasKeys(c, s, t, m) ==
  /\ SoundKeys(t, c, ValuesOf(s.privateKeys)) /\ OldKeys(m.epoch + 1, ValuesOf(s.privateKeys))
  /\ s.kind = "member" /\ s.epoch = m.epoch + 1
       => KeysFit(t, c, LeafToNodeIndex(s.leafIndex), m.epoch + 1, s.privateKeys)
  /\ s.kind = "member" /\ s.epoch = m.epoch
       => \E a, place : /\ a # c /\ CommitMade(s.ratchetTree, t, m.epoch, a, m, place)
                        /\ KeysFit(s.ratchetTree, c, LeafToNodeIndex(s.leafIndex), m.epoch, s.privateKeys)

KeyedTree(t, m) ==
  /\ SoundTree(t, m.epoch + 1) /\ PathKnown(t, m)
  /\ m.path # NoPath => SentToNodes(t, m.path) /\ DOMAIN m.path.nodes = DOMAIN PathOf(t, m.sender)

Awaited(t, m, c, secret) == \E own : AwaitedAt(t, m, c, secret, own)

KeysInv ==
  /\ TreesInv
  /\ KeyedTree(groupInfo.ratchetTree, commit) /\ groupInfo.signer = commit.sender
  /\ UpdatesOf(groupInfo.ratchetTree, Epoch, updates)
  /\ \A c \in Client : HasKeys(c, state[c], groupInfo.ratchetTree, commit)
  /\ \A c \in DOMAIN welcome : c \in Client /\ Awaited(groupInfo.ratchetTree, commit, c, welcome[c])

\* What the next epoch begins with.
LEMMA BegunAs ==
  ASSUME TreesInv, NEW c \in Client, NEW l, NEW external, NEW updated, NEW removed, NEW added,
         NEW path, NEW keys, NEW new, NEW secret, NEW secrets,
         Begins(c, l, external, updated, removed, added, path, keys, new, secret, secrets)
  PROVE  /\ commit'.epoch = Epoch /\ commit'.sender = l /\ commit'.external = external /\ commit'.updates = updated
         /\ commit'.removes = removed /\ commit'.adds = added /\ commit'.path = path
         /\ groupInfo'.ratchetTree = new /\ groupInfo'.signer = l
         /\ updates' = {} /\ welcome' = secrets
         /\ state'[c].kind = "member" /\ state'[c].epoch = Epoch + 1 /\ state'[c].leafIndex = l
         /\ state'[c].privateKeys = keys /\ state'[c].ratchetTree = new
         /\ \A d \in Client : d # c => state'[d] = state[d]
<1>1. /\ commit'.epoch = Epoch /\ commit'.sender = l /\ commit'.external = external /\ commit'.updates = updated
      /\ commit'.removes = removed /\ commit'.adds = added /\ commit'.path = path
      /\ groupInfo'.ratchetTree = new /\ groupInfo'.signer = l
      /\ updates' = {} /\ welcome' = secrets
  BY DEF Begins
<1>2. state' = [state EXCEPT ![c] = Member(Epoch + 1, l, keys, new, AllHashes(new))]
  BY DEF Begins
<1>3. state = [d \in Client |-> state[d]]
  BY DEF TreesInv
<1>4. state'[c] = Member(Epoch + 1, l, keys, new, AllHashes(new)) /\ \A d \in Client : d # c => state'[d] = state[d]
  BY <1>2, <1>3
<1>5. /\ state'[c].kind = "member" /\ state'[c].epoch = Epoch + 1 /\ state'[c].leafIndex = l
      /\ state'[c].privateKeys = keys /\ state'[c].ratchetTree = new
  BY <1>4, MemberIs
<1> QED
  BY <1>1, <1>4, <1>5

LEMMA CommitIsMade ==
  ASSUME KeysInv, NEW c \in Client, NEW l, NEW external, NEW updated, NEW removed, NEW invited, NEW added, NEW tree,
         NEW hasPath, NEW keys, NEW new,
         Commits(c, l, external, updated, removed, invited, added, tree, hasPath, keys, new)
  PROVE  /\ \E place : CommitMade(groupInfo.ratchetTree, new, Epoch, c, commit', place)
         /\ IF commit'.external THEN keys = <<>>
            ELSE KeysFit(groupInfo.ratchetTree, c, LeafToNodeIndex(commit'.sender), Epoch, keys)
<1> DEFINE old == groupInfo.ratchetTree
           path == IF hasPath THEN SentPath(tree, new, l, added) ELSE NoPath
           ks == IF hasPath THEN CommitterKeys(tree, l, keys) ELSE keys
           secret == IF hasPath THEN GetCommitSecret(new, FilteredDirectPath(l, tree)) ELSE 0
           secrets == IF hasPath THEN Secrets(new, FilteredDirectPath(l, tree), added, TRUE)
                                 ELSE Secrets(tree, <<>>, added, FALSE)
<1>1. Begins(c, l, external, updated, removed, added, path, ks, new, secret, secrets)
  BY DEF Commits
<1> HIDE DEF path, ks, secret, secrets
<1>2. TreesInv
  BY DEF KeysInv
<1>3. /\ commit'.sender = l /\ commit'.external = external /\ commit'.updates = updated
      /\ commit'.removes = removed /\ commit'.adds = added
  BY <1>1, <1>2, BegunAs
<1>4. CommitOf(old, Epoch, c, commit', new)
  BY DEF Commits
<1>5. PICK place : Changed(old, new, commit', place)
  BY <1>4, CommitChanges
<1>6. commit.epoch \in Nat /\ Epoch = commit.epoch + 1 /\ Epoch \in Nat /\ \E h : IsTreeOf(old, h)
  BY <1>2 DEF TreesInv, Epoch
<1>7. SoundTree(old, Epoch)
  BY <1>6 DEF KeysInv, KeyedTree
<1>8. UpdatesOf(old, Epoch, commit'.updates)
  <2>1. UpdatesOf(old, Epoch, updates)
    BY DEF KeysInv
  <2>2. updated \subseteq updates
    BY DEF Commits
  <2> QED
    BY <1>3, <2>1, <2>2 DEF UpdatesOf
<1>9. AddsOf(old, Epoch, commit'.adds)
  <2>1. /\ \A i \in 1 .. Len(added) : /\ invited[i] \in Client /\ LeavesOf(old, invited[i]) = {}
                                      /\ added[i] = LeafNode(PackageKey(Epoch, invited[i]), invited[i])
        /\ \A i, j \in 1 .. Len(added) : invited[i] = invited[j] => i = j
    BY DEF Commits
  <2>2. PICK h : IsTreeOf(old, h)
    BY <1>6
  <2>3. \A i \in 1 .. Len(added) : \A y : ~LeafAt(old, invited[i], y)
    BY <2>1, <2>2, LeavesAreLeafAt
  <2>4. \A i, j \in 1 .. Len(added) : added[i] = added[j] => i = j
    <3> SUFFICES ASSUME NEW i \in 1 .. Len(added), NEW j \in 1 .. Len(added), added[i] = added[j]  PROVE i = j
      OBVIOUS
    <3>1. added[i].client = invited[i] /\ added[j].client = invited[j]
      BY <2>1, LeafNodeIs
    <3> QED
      BY <2>1, <3>1
  <2>5. \A i \in 1 .. Len(added) :
          added[i] = LeafNode(PackageKey(Epoch, invited[i]), invited[i]) /\ \A y : ~LeafAt(old, invited[i], y)
    BY <2>1, <2>3
  <2>6. AddsOf(old, Epoch, added)
    BY <2>4, <2>5 DEF AddsOf
  <2> QED
    BY <1>3, <2>6
<1>10. IF external THEN keys = <<>> ELSE KeysFit(old, c, LeafToNodeIndex(l), Epoch, keys)
  <2>1. CASE external
    BY <2>1 DEF Commits
  <2>2. CASE ~external
    <3>1. state[c].kind = "member" /\ state[c].epoch = Epoch /\ l = state[c].leafIndex /\ keys = state[c].privateKeys
      BY <2>2 DEF Commits
    <3>2. HasKeys(c, state[c], old, commit)
      BY DEF KeysInv
    <3> QED
      BY <1>6, <2>2, <3>1, <3>2 DEF HasKeys
  <2> QED
    BY <2>1, <2>2
<1>11. SenderOf(old, c, commit')
  <2>1. CASE external
    <3>1. removed = LeavesOf(old, c)
      BY <2>1 DEF Commits
    <3> QED
      BY <1>3, <2>1, <3>1 DEF SenderOf
  <2>2. CASE ~external
    BY <1>3, <1>10, <2>2 DEF SenderOf, KeysFit
  <2> QED
    BY <2>1, <2>2
<1>12. CommitMade(old, new, Epoch, c, commit', place)
  BY <1>4, <1>5, <1>6, <1>7, <1>8, <1>9, <1>11 DEF CommitMade
<1> QED
  BY <1>3, <1>10, <1>12

\* Those who did not commit: what they have is for the tree before.
LEMMA OthersKeepKeys ==
  ASSUME NEW old, NEW new, NEW e \in Nat, NEW c, NEW m, NEW place, CommitMade(old, new, e + 1, c, m, place), m.epoch = e + 1,
         NEW p, p.epoch = e, NEW d, d # c, NEW s, HasKeys(d, s, old, p),
         s.kind = "member" => s.epoch \in Nat /\ s.epoch <= e + 1 /\ (s.epoch = e + 1 => s.ratchetTree = old)
  PROVE  HasKeys(d, s, new, m)
<1> DEFINE f == e + 1
           keys == s.privateKeys
           own == LeafToNodeIndex(s.leafIndex)
<1>1. SoundKeys(old, d, ValuesOf(keys)) /\ OldKeys(f, ValuesOf(keys)) /\ f \in Nat /\ CommitMade(old, new, f, c, m, place)
  BY DEF HasKeys
<1>2. s.kind = "member" /\ s.epoch = f => KeysFit(old, d, own, f, keys)
  BY DEF HasKeys
<1>3. m.epoch = f /\ ~(s.kind = "member" /\ s.epoch = f + 1)
  OBVIOUS
<1>4. s.kind = "member" /\ s.epoch = f => s.ratchetTree = old
  OBVIOUS
<1> HIDE DEF f, keys, own
<1>5. SoundKeys(new, d, ValuesOf(keys))
  BY <1>1, OldKeysStaySound
<1>6. OldKeys(f + 1, ValuesOf(keys))
  BY <1>1 DEF OldKeys
<1>7. s.kind = "member" /\ s.epoch = f =>
        \E a, q : a # d /\ CommitMade(s.ratchetTree, new, f, a, m, q) /\ KeysFit(s.ratchetTree, d, own, f, keys)
  BY <1>1, <1>2, <1>4
<1> QED
  BY <1>3, <1>5, <1>6, <1>7 DEF HasKeys, keys, own

LEMMA CommitsKeepKeys ==
  ASSUME KeysInv, NEW c \in Client, NEW l, NEW external, NEW updated, NEW removed, NEW invited, NEW added, NEW tree,
         NEW hasPath, NEW keys, NEW new,
         Commits(c, l, external, updated, removed, invited, added, tree, hasPath, keys, new)
  PROVE  KeysInv'
<1> DEFINE old == groupInfo.ratchetTree
           fdp == FilteredDirectPath(l, tree)
           path == IF hasPath THEN SentPath(tree, new, l, added) ELSE NoPath
           ks == IF hasPath THEN CommitterKeys(tree, l, keys) ELSE keys
           secret == IF hasPath THEN GetCommitSecret(new, fdp) ELSE 0
           secrets == IF hasPath THEN Secrets(new, fdp, added, TRUE) ELSE Secrets(tree, <<>>, added, FALSE)
           m == commit'
<1>1. Begins(c, l, external, updated, removed, added, path, ks, new, secret, secrets)
  BY DEF Commits
<1> HIDE DEF path, ks, secret, secrets
<1>2. TreesInv /\ commit.epoch \in Nat /\ Epoch = commit.epoch + 1 /\ Epoch \in Nat
  BY DEF KeysInv, TreesInv, Epoch
<1>3. /\ m.epoch = Epoch /\ m.sender = l /\ m.adds = added /\ m.path = path
      /\ groupInfo'.ratchetTree = new /\ groupInfo'.signer = l /\ updates' = {} /\ welcome' = secrets
      /\ state'[c].kind = "member" /\ state'[c].epoch = Epoch + 1 /\ state'[c].leafIndex = l
      /\ state'[c].privateKeys = ks
      /\ \A d \in Client : d # c => state'[d] = state[d]
  BY <1>1, <1>2, BegunAs
<1>4. PICK place : CommitMade(old, new, Epoch, c, m, place)
  BY CommitIsMade
<1>5. IF m.external THEN keys = <<>> ELSE KeysFit(old, c, LeafToNodeIndex(m.sender), Epoch, keys)
  BY CommitIsMade
<1>6. SoundTree(new, Epoch + 1) /\ PathKnown(new, m)
  BY <1>3, <1>4, SoundTreeStep, PathBecomesKnown
<1>7. PICK k : IsTreeOf(tree, k) /\ IsTreeOf(new, k) /\ LeafToNodeIndex(l) \in Full(k)
  BY DEF Commits
<1>8. l \in Nat /\ new = IF hasPath THEN PathMade(tree, l, c, Epoch) ELSE tree
  BY DEF Commits
<1>9. hasPath => /\ m.path # NoPath /\ m.path = SentPath(tree, new, l, added)
                 /\ SentToNodes(new, m.path) /\ fdp = FilteredDirectPath(l, new)
                 /\ DOMAIN m.path.nodes = DOMAIN PathOf(new, m.sender)
  <2> HAVE hasPath
  <2>1. new = PathMade(tree, l, c, Epoch) /\ m.path = SentPath(tree, new, l, added)
    BY <1>3, <1>8 DEF path
  <2>2. m.path # NoPath /\ DOMAIN m.path.nodes = DOMAIN PathOf(tree, l)
    BY <1>7, <1>8, <2>1, SentPathFits
  <2> DEFINE f == Epoch + 1
  <2>3. SoundTree(new, f)
    BY <1>6
  <2> HIDE DEF f
  <2>4. SentToNodes(new, SentPath(tree, new, l, added)) /\ fdp = FilteredDirectPath(l, new)
    BY <1>7, <1>8, <2>1, <2>3, PathIsSentToNodes
  <2>5. PathOf(tree, l) = PathOf(new, m.sender)
    BY <1>3, <2>4 DEF PathOf
  <2> QED
    BY <2>1, <2>2, <2>4, <2>5
<1>10. ~hasPath => m.path = NoPath
  BY <1>3 DEF path
<1>11. KeyedTree(new, m)
  BY <1>3, <1>6, <1>9, <1>10 DEF KeyedTree
<1>12. ASSUME NEW d \in Client  PROVE HasKeys(d, state'[d], new, m)
  <2>1. CASE d = c
    <3>1. ks = IF m.path = NoPath THEN keys ELSE KeysFrom(Epoch, <<LeafToNodeIndex(m.sender)>> \o PathOf(new, m.sender), 0) ++ keys
      <4>1. CASE hasPath
        <5>1. ks = KeysFrom(Epoch, <<LeafToNodeIndex(l)>> \o PathOf(tree, l), 0) ++ keys
          BY <4>1 DEF ks, CommitterKeys
        <5>2. PathOf(tree, l) = PathOf(new, l)
          BY <1>9, <4>1 DEF PathOf
        <5> QED
          BY <1>3, <1>9, <4>1, <5>1, <5>2
      <4>2. CASE ~hasPath
        BY <1>10, <4>2 DEF ks
      <4> QED
        BY <4>1, <4>2
    <3>2. KeysFit(new, c, LeafToNodeIndex(l), Epoch + 1, ks)
      <4>1. KeysFit(new, c, LeafToNodeIndex(m.sender), Epoch + 1, ks)
        BY <1>3, <1>4, <1>5, <3>1, CommitterHasItsKeys
      <4> QED
        BY <1>3, <4>1
    <3>3. SoundKeys(new, c, ValuesOf(ks)) /\ OldKeys(Epoch + 1, ValuesOf(ks))
      BY <3>2 DEF KeysFit
    <3> QED
      BY <1>2, <1>3, <2>1, <3>2, <3>3 DEF HasKeys
  <2>2. CASE d # c
    <3>1. state'[d] = state[d] /\ HasKeys(d, state[d], old, commit)
      BY <1>3, <2>2 DEF KeysInv
    <3>2. state[d].kind = "member" =>
            /\ state[d].epoch \in Nat /\ state[d].epoch <= commit.epoch + 1
            /\ state[d].epoch = commit.epoch + 1 => state[d].ratchetTree = old
      BY <1>2 DEF TreesInv, HasTree
    <3> DEFINE e == commit.epoch
    <3>3. e \in Nat /\ CommitMade(old, new, e + 1, c, m, place) /\ m.epoch = e + 1
      BY <1>2, <1>3, <1>4
    <3>4. HasKeys(d, state[d], new, m)
      <4> HIDE DEF m, old
      <4> QED
        BY <2>2, <3>1, <3>2, <3>3, OthersKeepKeys
    <3> QED
      BY <3>1, <3>4
  <2> QED
    BY <2>1, <2>2
<1>13. UpdatesOf(groupInfo'.ratchetTree, Epoch', updates')
  BY <1>3 DEF UpdatesOf
<1>14. ASSUME NEW d \in DOMAIN welcome'  PROVE d \in Client /\ Awaited(new, m, d, welcome'[d])
  <2> DEFINE one == IF m.path = NoPath THEN <<>> ELSE FilteredDirectPath(l, new)
             sec == IF m.path = NoPath THEN 0 ELSE FirstMatch(new, FilteredDirectPath(l, new), AddedLeafOf(new, m.adds, d))
  <2>1. welcome' = [b \in {added[i].client : i \in DOMAIN added} |->
                      IF ~hasPath THEN 0 ELSE FirstMatch(new, fdp, AddedLeafOf(new, added, b))]
    <3>1. CASE hasPath
      BY <1>3, <3>1 DEF secrets, Secrets, AddedLeafOf
    <3>2. CASE ~hasPath
      BY <1>3, <3>2 DEF secrets, Secrets
    <3> QED
      BY <3>1, <3>2
  <2>2. PICK i \in DOMAIN added : added[i].client = d
    BY <2>1
  <2>3. welcome'[d] = sec
    BY <1>3, <1>9, <1>10, <2>1, <2>2
  <2>4. i \in DOMAIN m.adds /\ m.adds[i].client = d
    BY <1>3, <2>2
  <2>5. NodesOf(FilteredDirectPath(l, new)) = PathOf(new, m.sender)
    BY <1>3 DEF PathOf
  <2>6. AwaitedAt(new, m, d, sec, place[i])
    BY <1>3, <1>4, <2>4, <2>5, InvitedAreAwaited
  <2>7. d \in Client
    <3>1. i \in 1 .. Len(added) /\ \A j \in 1 .. Len(added) :
            invited[j] \in Client /\ added[j] = LeafNode(PackageKey(Epoch, invited[j]), invited[j])
      BY DEF Commits
    <3>2. added[i].client = invited[i]
      BY <3>1, LeafNodeIs
    <3> QED
      BY <2>2, <3>1, <3>2
  <2> QED
    BY <2>3, <2>6, <2>7 DEF Awaited
<1>15. TreesInv'
  BY <1>2, CommitsKeepTrees
<1> QED
  BY <1>3, <1>11, <1>12, <1>13, <1>14, <1>15 DEF KeysInv

\* The follower's path is the sender's, also where the sender's leaf is new.
FollowsPath(u, new, l, k) ==
  /\ IsTreeOf(u, k) /\ IsTreeOf(new, k) /\ LeafToNodeIndex(l) \in Full(k)
  /\ FilteredDirectPath(l, u) = FilteredDirectPath(l, new)

LEMMA FollowedPathIs ==
  ASSUME NEW old, NEW e, NEW c, NEW m, NEW new, CommitOf(old, e, c, m, new), m.path # NoPath
  PROVE  \E k : FollowsPath(FollowedTree(old, m), new, m.sender, k)
<1> DEFINE u == FollowedTree(old, m)
           d == DeriveTreeHashCache(u, EmptyCache, TouchedLeaves(u, m))
           s == LeafToNodeIndex(m.sender)
           w == Proposing(old, m)
<1>1. Coherent(old, EmptyCache)
  BY EmptyCacheIsCoherent
<1>2. PICK k : Follows(u, k, d, m, new)
  BY <1>1, CommitCanBeFollowed
<1>3. IsTreeOf(u, k) /\ IsTreeOf(new, k) /\ s \in Full(k) /\ m.sender \in Nat
  BY <1>2 DEF Follows, CommitOf
<1>4. \A x \in Nat : s \notin Block(x) => At(new, x) = At(w, x)
  BY PathOfCommit
<1>5. \A x \in Nat : s \notin Block(x) => At(u, x) = At(w, x)
  <2>1. CASE m.external
    <3>1. u = AddLeafNode(w, m.path.leafNode)
      BY <2>1 DEF FollowedTree
    <3>2. PICK h : IsTreeOf(w, h)
      <4>1. PICK g : ForTheTree(old, g, m.updates, m.removes, m.adds)
        BY DEF CommitOf
      <4>2. DOMAIN m.adds = 1 .. Len(m.adds)
        BY DEF CommitOf
      <4>3. Prepared(old, w, Touched(w, m.updates, m.removes, m.adds))
        BY <4>1, <4>2, ProposalsPrepare DEF Proposing
      <4> QED
        BY <4>3 DEF Prepared
    <3>3. IsNode(m.path.leafNode)
      <4>1. m.path.leafNode = new[s]
        BY DEF CommitOf
      <4> QED
        BY <1>3, <4>1, TreeShape
    <3>4. FindBlankLeafNodeIndexOrExtend(w) = s
      BY <2>1 DEF CommitOf
    <3>5. LeafAdded(w, h, m.path.leafNode, s, u)
      BY <3>1, <3>2, <3>3, <3>4, AddLeafNodeIs
    <3>6. s \in Block(s)
      BY <1>3, LeafNumbers
    <3> QED
      BY <3>5, <3>6 DEF LeafAdded
  <2>2. CASE ~m.external
    BY <2>2 DEF FollowedTree
  <2> QED
    BY <2>1, <2>2
<1> HIDE DEF u, d, w
<1>6. OffPath(k, s, u, new)
  <2> SUFFICES ASSUME NEW x \in Full(k), s \notin Block(x)  PROVE u[x] = new[x]
    BY DEF OffPath
  <2>1. x \in Nat /\ At(u, x) = u[x] /\ At(new, x) = new[x]
    BY <1>3, TreeShape DEF At
  <2> QED
    BY <1>4, <1>5, <2>1
<1>7. FilteredDirectPath(m.sender, u) = FilteredDirectPath(m.sender, new)
  BY <1>3, <1>6, FilteredPathLocal
<1> QED
  BY <1>3, <1>7 DEF FollowsPath, u

\* Who decrypts a path secret has a key of the tree.
LEMMA DecryptedKeyIsOfTree ==
  ASSUME NEW fdp, NEW kw, NEW w, NEW excluded, DecryptsPath(fdp, kw, w, excluded),
         NEW t, SentToNodes(t, commit.path), w \in DOMAIN commit.path.nodes
  PROVE  \E x \in Nat : At(t, x).key \in ValuesOf(kw)
<1> DEFINE resolution == Excluding(fdp[w].resolution, excluded)
           held == {i \in DOMAIN resolution : resolution[i] \in DOMAIN kw}
           j == Min(held)
<1>1. /\ held # {} /\ j \in DOMAIN commit.path.nodes[w].encryptedTo
      /\ kw[resolution[j]] = commit.path.nodes[w].encryptedTo[j]
  BY DEF DecryptsPath
<1>2. held \subseteq Nat
  <2>1. DOMAIN resolution \subseteq Nat
    BY DEF Excluding, AtPositions
  <2> HIDE DEF resolution
  <2> QED
    BY <2>1
<1> HIDE DEF resolution
<1>3. j \in held
  BY <1>1, <1>2, Least
<1> HIDE DEF j
<1>4. kw[resolution[j]] \in ValuesOf(kw)
  BY <1>3 DEF ValuesOf
<1>5. PICK x \in Nat : commit.path.nodes[w].encryptedTo[j] = At(t, x).key
  BY <1>1 DEF SentToNodes
<1> QED
  BY <1>1, <1>4, <1>5

\* A client whose keys are of the new tree has its leaf there.
LEMMA KeyLeadsToLeaf ==
  ASSUME NEW old, NEW new, NEW e, NEW a, NEW m, NEW place, CommitMade(old, new, e, a, m, place), m.epoch = e,
         NEW c, c # a, NEW own, NEW keys, KeysFit(old, c, own, e, keys),
         NEW x \in Nat, At(new, x).key \in ValuesOf(WithUpdateKey(m, c, own, keys))
  PROVE  LeafAt(new, c, own)
<1> DEFINE K == ValuesOf(WithUpdateKey(m, c, own, keys))
<1>1. SoundKeys(new, c, K) /\ OldKeys(e + 1, K)
  BY UpdateKeysAreSound
<1>2. At(new, x) # Blank
  BY <1>1, BlankIsNode DEF OldKeys
<1>3. PICK y : LeafAt(new, c, y)
  BY <1>1, <1>2 DEF SoundKeys, HolderAt
<1>4. LeafAt(old, c, y) \/ \A z : ~LeafAt(old, c, z)
  BY <1>3, LeafOrigin
<1>5. LeafAt(old, c, own) /\ SoundTree(old, e)
  BY DEF KeysFit, CommitMade
<1>6. y = own
  BY <1>4, <1>5 DEF SoundTree
<1> QED
  BY <1>3, <1>6

\* What a follower of a path gets: the path secrets from where its leaf meets the path.
FollowsRoute(c, w, route) ==
  LET new == groupInfo.ratchetTree
      own == OwnLeaf(c)
      P   == PathOf(new, commit.sender)
  IN  /\ LeafAt(new, c, own)
      /\ w # 0 /\ MeetsAt(P, own, w) /\ RouteKeys(route, P, w, commit.epoch, LeafToNodeIndex(commit.sender))
      /\ FollowerKeys(c, new) = route ++ KeysWithUpdate(c)

LEMMA FollowerTakesRoute ==
  ASSUME KeysInv, NEW c \in Client, state[c].kind = "member", state[c].epoch = commit.epoch,
         NEW p, FollowedAs(c, p), commit.path # NoPath
  PROVE  \E w, route : FollowsRoute(c, w, route)
<1> DEFINE old == state[c].ratchetTree
           new == groupInfo.ratchetTree
           own == OwnLeaf(c)
           keys == state[c].privateKeys
           kw == WithUpdateKey(commit, c, own, keys)
           e == commit.epoch
           s == LeafToNodeIndex(commit.sender)
           P == PathOf(new, commit.sender)
           w == Match(c)
           route == KeysFrom(e, PathToRoot(new, P[w]), w)
           K == FollowerKeys(c, new)
<1>1. TreesInv /\ e \in Nat /\ Epoch = e + 1 /\ state[c].leafIndex \in Nat
  BY DEF KeysInv, TreesInv, Epoch, HasTree
<1>2. HasKeys(c, state[c], new, commit) /\ KeyedTree(new, commit)
  BY DEF KeysInv
<1>3. PICK a, place : a # c /\ CommitMade(old, new, e, a, commit, place) /\ KeysFit(old, c, own, e, keys)
  BY <1>2 DEF HasKeys, OwnLeaf
<1>4. CommitOf(old, e, a, commit, new)
  BY <1>3 DEF CommitMade
<1>5. KeysWithUpdate(c) = kw
  BY DEF KeysWithUpdate, WithUpdateKey, OwnLeaf
<1>6. commit.path # NoPath =>
        w # 0 /\ DecryptsPath(FollowedPath(c), kw, w, NotEncryptedTo(c))
  BY <1>5 DEF FollowedAs
<1> HIDE DEF kw, w, P, s
<1>7. PICK k : FollowsPath(FollowedTree(old, commit), new, commit.sender, k)
  BY <1>4, FollowedPathIs
<1> DEFINE u == FollowedTree(old, commit)
           fdp == FollowedPath(c)
           q == state[c].leafIndex
<1>8. /\ IsTreeOf(u, k) /\ IsTreeOf(new, k) /\ s \in Full(k) /\ fdp = FilteredDirectPath(commit.sender, u)
      /\ fdp = FilteredDirectPath(commit.sender, new)
  BY <1>7 DEF FollowsPath, FollowedPath, s
<1>9. NodesOf(fdp) = P
  BY <1>8 DEF PathOf, P
<1>10. DOMAIN commit.path.nodes = DOMAIN P /\ SentToNodes(new, commit.path) /\ PathKnown(new, commit)
  BY <1>2 DEF KeyedTree, P
<1>11. w = FirstMatch(u, fdp, q)
  BY DEF w, Match
<1>12. PICK b : HasPath(new, commit.sender, b, e)
  BY <1>10 DEF PathKnown
<1>13. commit.sender \in Nat
  BY <1>10 DEF PathKnown
<1>14. Ascending(k, s, P)
  BY <1>8, <1>9, <1>13, FilteredPathIs DEF s
<1>15. w \in DOMAIN P
  <2>1. DOMAIN fdp = DOMAIN P
    BY <1>9 DEF NodesOf
  <2>2. DOMAIN P \subseteq Nat
    BY <1>14 DEF Ascending
  <2>3. w \in DOMAIN fdp
    <3> DEFINE above == {i \in DOMAIN fdp : fdp[i].nodeIndex \in Above(u, LeafToNodeIndex(q))}
    <3>1. w = IF above = {} THEN 0 ELSE Min(above)
      BY <1>11 DEF FirstMatch
    <3>2. above # {}
      BY <1>6, <3>1
    <3>3. above \subseteq DOMAIN fdp /\ above \subseteq Nat
      BY <2>1, <2>2
    <3> HIDE DEF above
    <3> QED
      BY <3>1, <3>2, <3>3, Least
  <2> QED
    BY <2>1, <2>3
<1> HIDE DEF u, fdp
<1>16. PICK x \in Nat : At(new, x).key \in ValuesOf(kw)
  BY <1>6, <1>10, <1>15, DecryptedKeyIsOfTree
<1>17. LeafAt(new, c, own)
  BY <1>3, <1>16, KeyLeadsToLeaf DEF kw
<1>18. own = LeafToNodeIndex(q) /\ own \in Full(k) /\ q \in Nat
  BY <1>1, <1>8, <1>17, TreeShape DEF OwnLeaf, LeafAt, At
<1>19. MeetsAt(P, own, w)
  <2>1. LeafToNodeIndex(q) \in Full(k) /\ Ascending(k, s, NodesOf(fdp))
    BY <1>9, <1>14, <1>18
  <2>2. MeetsAt(NodesOf(fdp), LeafToNodeIndex(q), FirstMatch(u, fdp, q))
    <3> HIDE DEF q
    <3> QED
      BY <1>8, <1>18, <2>1, FirstMatchIs
  <2> QED
    BY <1>9, <1>11, <1>18, <2>2
<1>20. RouteKeys(route, P, w, e, s)
  BY <1>12, <1>13, <1>15, RouteIs DEF P, s
<1>21. fdp[w].nodeIndex = P[w]
  BY <1>9, <1>15 DEF NodesOf
<1>22. K = route ++ kw
  BY <1>5, <1>21 DEF FollowerKeys, fdp, w
<1>23. FollowsRoute(c, w, route)
  <2>1. LeafToNodeIndex(commit.sender) = s /\ PathOf(new, commit.sender) = P
    BY DEF s, P
  <2>2. KeysWithUpdate(c) = kw
    BY <1>5
  <2> HIDE DEF route, K, q
  <2> QED
    BY <1>6, <1>17, <1>19, <1>20, <1>22, <2>1, <2>2 DEF FollowsRoute, K
<1> QED
  BY <1>23

\* A follower gets the keys of the tree that are its to hold.
LEMMA FollowerKeysFit ==
  ASSUME KeysInv, NEW c \in Client, state[c].kind = "member", state[c].epoch = commit.epoch,
         NEW p, FollowedAs(c, p)
  PROVE  KeysFit(groupInfo.ratchetTree, c, OwnLeaf(c), Epoch, FollowerKeys(c, groupInfo.ratchetTree))
<1> DEFINE old == state[c].ratchetTree
           new == groupInfo.ratchetTree
           own == OwnLeaf(c)
           keys == state[c].privateKeys
           kw == WithUpdateKey(commit, c, own, keys)
           e == commit.epoch
           K == FollowerKeys(c, new)
<1>1. TreesInv /\ e \in Nat /\ Epoch = e + 1
  BY DEF KeysInv, TreesInv, Epoch
<1>2. HasKeys(c, state[c], new, commit)
  BY DEF KeysInv
<1>3. PICK a, place : a # c /\ CommitMade(old, new, e, a, commit, place) /\ KeysFit(old, c, own, e, keys)
  BY <1>2 DEF HasKeys, OwnLeaf
<1>4. KeysWithUpdate(c) = kw
  BY DEF KeysWithUpdate, WithUpdateKey, OwnLeaf
<1> HIDE DEF kw
<1>5. CASE commit.path = NoPath
  <2>1. LeafAt(new, c, own)
    <3>1. LeafAt(old, c, own)
      BY <1>3 DEF KeysFit
    <3> QED
      BY <1>3, <1>5, <3>1, NoPathRenewsNothing
  <2>2. K = IF commit.path = NoPath THEN kw ELSE <<>> ++ kw
    BY <1>4, <1>5 DEF FollowerKeys
  <2> HIDE DEF K, own, keys, old, new, e
  <2>3. KeysFit(new, c, own, e + 1, K)
    <3>1. K = IF commit.path = NoPath THEN WithUpdateKey(commit, c, own, keys)
              ELSE <<>> ++ WithUpdateKey(commit, c, own, keys)
      BY <2>2 DEF kw
    <3>2. commit.epoch = e
      BY DEF e
    <3>3. commit.path # NoPath => /\ 1 # 0 /\ MeetsAt(PathOf(new, commit.sender), own, 1)
                                  /\ RouteKeys(<<>>, PathOf(new, commit.sender), 1, e, LeafToNodeIndex(commit.sender))
      BY <1>5
    <3> QED
      BY <1>3, <2>1, <3>1, <3>2, <3>3, FollowerHasItsKeys
  <2> QED
    BY <1>1, <2>3 DEF K, own, new
<1>6. CASE commit.path # NoPath
  <2>1. PICK w, route : FollowsRoute(c, w, route)
    BY <1>6, FollowerTakesRoute
  <2>2. /\ LeafAt(new, c, own) /\ w # 0 /\ MeetsAt(PathOf(new, commit.sender), own, w)
        /\ RouteKeys(route, PathOf(new, commit.sender), w, e, LeafToNodeIndex(commit.sender))
        /\ K = route ++ kw
    BY <1>4, <2>1 DEF FollowsRoute
  <2> HIDE DEF K, own, keys, old, new, e
  <2>3. KeysFit(new, c, own, e + 1, K)
    <3>1. K = IF commit.path = NoPath THEN WithUpdateKey(commit, c, own, keys)
              ELSE route ++ WithUpdateKey(commit, c, own, keys)
      BY <1>6, <2>2 DEF kw
    <3>2. commit.epoch = e
      BY DEF e
    <3> QED
      BY <1>3, <2>2, <3>1, <3>2, FollowerHasItsKeys
  <2> QED
    BY <1>1, <2>3 DEF K, own, new
<1> QED
  BY <1>5, <1>6

\* A step of one client within an epoch.
LEMMA OneKeepsKeys ==
  ASSUME KeysInv, TreesInv', NEW c \in Client, NEW p, state' = [state EXCEPT ![c] = p],
         HasKeys(c, p, groupInfo.ratchetTree, commit),
         updates' = updates, commit' = commit, groupInfo' = groupInfo,
         \A d \in DOMAIN welcome' : d \in DOMAIN welcome /\ welcome'[d] = welcome[d]
  PROVE  KeysInv'
<1>1. \A d \in Client : state'[d] = IF d = c THEN p ELSE state[d]
  BY DEF KeysInv, TreesInv
<1>2. \A d \in Client : HasKeys(d, state'[d], groupInfo'.ratchetTree, commit')
  BY <1>1 DEF KeysInv
<1>3. /\ KeyedTree(groupInfo'.ratchetTree, commit') /\ groupInfo'.signer = commit'.sender
      /\ UpdatesOf(groupInfo'.ratchetTree, Epoch', updates')
  BY DEF KeysInv, Epoch
<1>4. \A d \in DOMAIN welcome' : d \in Client /\ Awaited(groupInfo'.ratchetTree, commit', d, welcome'[d])
  BY DEF KeysInv
<1> QED
  BY <1>2, <1>3, <1>4 DEF KeysInv

LEMMA FittingKeys ==
  ASSUME NEW c, NEW s, NEW t, NEW m, m.epoch \in Nat, s.kind = "member", s.epoch = m.epoch + 1,
         KeysFit(t, c, LeafToNodeIndex(s.leafIndex), m.epoch + 1, s.privateKeys)
  PROVE  HasKeys(c, s, t, m)
<1>1. SoundKeys(t, c, ValuesOf(s.privateKeys)) /\ OldKeys(m.epoch + 1, ValuesOf(s.privateKeys))
  BY DEF KeysFit
<1>2. s.epoch # m.epoch
  OBVIOUS
<1> QED
  BY <1>1, <1>2 DEF HasKeys

LEMMA KeysProcess ==
  ASSUME KeysInv, NEW c \in Client, ProcessCommit(c)
  PROVE  KeysInv'
<1> DEFINE new == groupInfo.ratchetTree
<1>1. /\ state[c].kind = "member" /\ state[c].epoch = commit.epoch
      /\ updates' = updates /\ commit' = commit /\ groupInfo' = groupInfo /\ welcome' = welcome
  BY DEF ProcessCommit
<1>2. PICK p \in Processed(c) : state' = [state EXCEPT ![c] = p]
  BY DEF ProcessCommit
<1>3. TreesInv /\ commit.epoch \in Nat /\ Epoch = commit.epoch + 1
  BY DEF KeysInv, TreesInv, Epoch
<1>4. FollowedAs(c, p)
  BY <1>1, <1>3, ProcessedIs
<1>5. KeysFit(new, c, OwnLeaf(c), Epoch, FollowerKeys(c, new))
  BY <1>1, <1>4, FollowerKeysFit
<1>6. p = Member(Epoch, state[c].leafIndex, FollowerKeys(c, new), new, AllHashes(new))
  BY <1>4 DEF FollowedAs
<1>7. p.kind = "member" /\ p.epoch = Epoch /\ p.leafIndex = state[c].leafIndex /\ p.privateKeys = FollowerKeys(c, new)
  BY <1>6, MemberIs
<1>8. KeysFit(new, c, LeafToNodeIndex(p.leafIndex), commit.epoch + 1, p.privateKeys)
  BY <1>3, <1>5, <1>7 DEF OwnLeaf
<1>9. HasKeys(c, p, new, commit)
  BY <1>3, <1>7, <1>8, FittingKeys
<1>10. TreesInv'
  BY <1>3, TreesProcess
<1> QED
  BY <1>1, <1>2, <1>9, <1>10, OneKeepsKeys

LEMMA KeysRemoval ==
  ASSUME KeysInv, NEW c \in Client, ProcessRemoval(c)
  PROVE  KeysInv'
<1>1. updates' = updates /\ commit' = commit /\ groupInfo' = groupInfo /\ welcome' = welcome
  BY DEF ProcessRemoval
<1>2. PICK tree : state' = [state EXCEPT ![c].kind = "removed", ![c].ratchetTree = tree]
  BY DEF ProcessRemoval
<1> DEFINE p == [state[c] EXCEPT !.kind = "removed", !.ratchetTree = tree]
<1>3. TreesInv
  BY DEF KeysInv
<1>4. state' = [state EXCEPT ![c] = p]
  BY <1>2, <1>3 DEF TreesInv
<1>5. p.kind = "removed" /\ p.privateKeys = state[c].privateKeys
  BY <1>3, RemovedIs DEF TreesInv
<1>6. HasKeys(c, p, groupInfo.ratchetTree, commit)
  <2>1. HasKeys(c, state[c], groupInfo.ratchetTree, commit)
    BY DEF KeysInv
  <2> HIDE DEF p
  <2> QED
    BY <1>5, <2>1 DEF HasKeys
<1>7. TreesInv'
  BY <1>3, TreesRemoval
<1> HIDE DEF p
<1> QED
  BY <1>1, <1>4, <1>6, <1>7, OneKeepsKeys

LEMMA KeysUpdateProposal ==
  ASSUME KeysInv, NEW c \in Client, CreateUpdateProposal(c)
  PROVE  KeysInv'
<1> DEFINE new == groupInfo.ratchetTree
           u == [leafIndex |-> state[c].leafIndex, leafNode |-> LeafNode(UpdateKey(Epoch, c), c)]
<1>1. /\ state[c].kind = "member" /\ state[c].epoch = Epoch /\ updates' = updates \union {u}
      /\ state' = state /\ commit' = commit /\ groupInfo' = groupInfo /\ welcome' = welcome
  BY DEF CreateUpdateProposal
<1>2. TreesInv /\ Epoch = commit.epoch + 1
  BY DEF KeysInv, Epoch
<1>3. HasKeys(c, state[c], new, commit)
  BY DEF KeysInv
<1>4. LeafAt(new, c, LeafToNodeIndex(state[c].leafIndex))
  BY <1>1, <1>2, <1>3 DEF HasKeys, KeysFit
<1>5. u.leafNode = LeafNode(UpdateKey(Epoch, c), c) /\ u.leafIndex = state[c].leafIndex
  OBVIOUS
<1>6. UpdatesOf(new, Epoch, updates)
  BY DEF KeysInv
<1> HIDE DEF u, new
<1>7. UpdatesOf(new, Epoch, updates')
  BY <1>1, <1>4, <1>5, <1>6 DEF UpdatesOf
<1>8. Epoch' = Epoch /\ groupInfo'.ratchetTree = new
  BY <1>1 DEF Epoch, new
<1>9. TreesInv'
  BY <1>2, TreesUpdateProposal
<1> QED
  BY <1>1, <1>7, <1>8, <1>9 DEF KeysInv, new

\* What a newcomer that joins gets.
JoinsAs(c, p, own, secret, route) ==
  LET t == groupInfo.ratchetTree
  IN  /\ AwaitedAt(t, commit, c, secret, own)
      /\ p.kind = "member" /\ p.epoch = Epoch /\ LeafToNodeIndex(p.leafIndex) = own /\ p.ratchetTree = t
      /\ p.privateKeys = JoinerKeys(commit, c, own, secret, route)
      /\ commit.path # NoPath =>
           secret # 0 /\ RouteKeys(route, PathOf(t, commit.sender), secret, commit.epoch, LeafToNodeIndex(commit.sender))

LEMMA JoinerIs ==
  ASSUME KeysInv, NEW c \in DOMAIN welcome, NEW p \in JoinedBy(c)
  PROVE  \E own, secret, route : JoinsAs(c, p, own, secret, route)
<1> DEFINE t == groupInfo.ratchetTree
           m == commit
           e == commit.epoch
           fdp == FilteredDirectPath(groupInfo.signer, t)
           P == PathOf(t, commit.sender)
           secret == welcome[c]
           Fm(l) == FirstMatch(t, fdp, l)
           Route(l) == KeysFrom(e, PathToRoot(t, fdp[Fm(l)].nodeIndex), secret)
           K(l) == [n \in {LeafToNodeIndex(l)} |-> PackageKey(e, c)] ++ IF secret = 0 THEN <<>> ELSE Route(l)
<1>1. p \in Joined(c, t, fdp)
  BY DEF JoinedBy
<1>2. PICK l \in LeavesOf(t, c) : Fm(l) # 0 /\ p = Member(Epoch, l, K(l), t, TreeHashes(t, EmptyCache))
  BY <1>1 DEF Joined
<1> DEFINE w == Fm(l)
           route == Route(l)
           keys == K(l)
<1>3. /\ TreesInv /\ e \in Nat /\ Epoch = e + 1 /\ SoundTree(t, e + 1) /\ PathKnown(t, m)
      /\ groupInfo.signer = commit.sender
  BY DEF KeysInv, TreesInv, Epoch, KeyedTree
<1>4. PICK own : AwaitedAt(t, m, c, secret, own)
  BY DEF KeysInv, Awaited
<1>5. PICK h : IsTreeOf(t, h)
  BY <1>3 DEF TreesInv
<1>6. l \in Nat /\ LeafToNodeIndex(l) = own
  <2>1. l \in Nat /\ LeafAt(t, c, LeafToNodeIndex(l))
    BY <1>5, LeavesAreLeafAt
  <2>2. LeafAt(t, c, own)
    BY <1>4 DEF AwaitedAt
  <2> QED
    BY <1>3, <2>1, <2>2 DEF SoundTree
<1>7. NodesOf(fdp) = P
  BY <1>3 DEF PathOf
<1> HIDE DEF fdp, P
<1>8. m.path # NoPath => secret = w /\ RouteKeys(route, P, secret, e, LeafToNodeIndex(m.sender))
  <2> HAVE m.path # NoPath
  <2>1. m.sender \in Nat /\ \E b : HasPath(t, m.sender, b, e)
    BY <1>3 DEF PathKnown
  <2>2. PICK b : HasPath(t, m.sender, b, e)
    BY <2>1
  <2>3. PICK k : IsTreeOf(t, k) /\ LeafToNodeIndex(m.sender) \in Full(k) /\ Ascending(k, LeafToNodeIndex(m.sender), P)
    BY <2>2 DEF HasPath, P
  <2>4. own \in Full(k)
    BY <1>4, <2>3, TreeShape DEF AwaitedAt, LeafAt, At
  <2>5. MeetsAt(P, own, w)
    <3>1. Ascending(k, LeafToNodeIndex(m.sender), NodesOf(fdp))
      BY <1>7, <2>3
    <3>2. MeetsAt(NodesOf(fdp), LeafToNodeIndex(l), FirstMatch(t, fdp, l))
      BY <1>6, <2>3, <2>4, <3>1, FirstMatchIs
    <3> QED
      BY <1>6, <1>7, <3>2
  <2>6. MeetsAt(P, own, secret)
    BY <1>4 DEF AwaitedAt, P
  <2>7. DOMAIN P \subseteq Nat
    BY <2>3 DEF Ascending
  <2>8. w # 0
    BY <1>2
  <2> HIDE DEF w, secret
  <2>9. secret = w
    BY <2>5, <2>6, <2>7, <2>8, MeetsOnce
  <2>10. w \in DOMAIN P
    BY <2>5, <2>8 DEF MeetsAt
  <2>11. fdp[w].nodeIndex = P[w]
    BY <1>7, <2>10 DEF NodesOf
  <2>12. route = KeysFrom(e, PathToRoot(t, P[w]), w)
    BY <2>9, <2>11 DEF w, secret
  <2>13. RouteKeys(KeysFrom(e, PathToRoot(t, P[w]), w), P, w, e, LeafToNodeIndex(m.sender))
    BY <2>1, <2>2, <2>10, RouteIs DEF P
  <2> QED
    BY <2>9, <2>12, <2>13
<1>9. keys = JoinerKeys(m, c, own, secret, route)
  BY <1>6 DEF JoinerKeys
<1>10. p.kind = "member" /\ p.epoch = Epoch /\ p.leafIndex = l /\ p.privateKeys = keys /\ p.ratchetTree = t
  BY <1>2, MemberIs
<1>11. JoinsAs(c, p, own, secret, route)
  <2>1. m.path # NoPath => secret # 0
    BY <1>2, <1>8
  <2>2. m.path # NoPath => RouteKeys(route, PathOf(t, m.sender), secret, e, LeafToNodeIndex(m.sender))
    BY <1>8 DEF P
  <2> HIDE DEF secret, route, keys
  <2> QED
    BY <1>4, <1>6, <1>9, <1>10, <2>1, <2>2 DEF JoinsAs
<1> QED
  BY <1>11

LEMMA KeysJoin ==
  ASSUME KeysInv, NEW c \in Client, JoinGroup(c)
  PROVE  KeysInv'
<1> DEFINE t == groupInfo.ratchetTree
           m == commit
           e == commit.epoch
<1>1. /\ c \in DOMAIN welcome /\ updates' = updates /\ commit' = commit /\ groupInfo' = groupInfo
      /\ welcome' = [d \in DOMAIN welcome \ {c} |-> welcome[d]]
  BY DEF JoinGroup
<1>2. PICK p \in JoinedBy(c) : state' = [state EXCEPT ![c] = p]
  BY DEF JoinGroup
<1>3. PICK own, secret, route : JoinsAs(c, p, own, secret, route)
  BY <1>1, JoinerIs
<1>4. TreesInv /\ e \in Nat /\ Epoch = e + 1 /\ SoundTree(t, e + 1) /\ PathKnown(t, m)
  BY DEF KeysInv, TreesInv, Epoch, KeyedTree
<1>5. /\ AwaitedAt(t, m, c, secret, own) /\ p.kind = "member" /\ p.epoch = Epoch
      /\ LeafToNodeIndex(p.leafIndex) = own /\ p.privateKeys = JoinerKeys(m, c, own, secret, route)
      /\ m.path # NoPath => secret # 0 /\ RouteKeys(route, PathOf(t, m.sender), secret, e, LeafToNodeIndex(m.sender))
  BY <1>3 DEF JoinsAs
<1>6. KeysFit(t, c, own, e + 1, p.privateKeys)
  <2>1. m.epoch = e
    OBVIOUS
  <2> HIDE DEF m, e, t
  <2>2. KeysFit(t, c, own, e + 1, JoinerKeys(m, c, own, secret, route))
    BY <1>4, <1>5, <2>1, JoinerHasItsKeys
  <2> QED
    BY <1>5, <2>2
<1>7. HasKeys(c, p, t, commit)
  <2>1. KeysFit(t, c, LeafToNodeIndex(p.leafIndex), commit.epoch + 1, p.privateKeys)
    BY <1>5, <1>6
  <2> QED
    BY <1>4, <1>5, <2>1, FittingKeys
<1>8. TreesInv'
  BY <1>4, TreesJoin
<1>9. \A d \in DOMAIN welcome' : d \in DOMAIN welcome /\ welcome'[d] = welcome[d]
  BY <1>1
<1> QED
  BY <1>1, <1>2, <1>7, <1>8, <1>9, OneKeepsKeys

\* A tree of leaves with the keys of their clients' first key packages.
LEMMA FoundersTree ==
  ASSUME scenario \in Scenarios
  PROVE  /\ SoundTree(FoundingTree, 1)
         /\ \A x \in Nat : At(FoundingTree, x) # Blank =>
              \E d : LeafAt(FoundingTree, d, x) /\ At(FoundingTree, x).key = PackageKey(0, d)
<1> DEFINE r == FoundingTree
           f == scenario.founders
<1>1. \A x \in Nat : At(r, x) # Blank => \E i \in 1 .. Len(f) : IsLeaf(x) /\ At(r, x) = Founding(i)
  BY FoundingTreeIs
<1>2. \A x, y \in Nat : At(r, x) # Blank /\ At(r, x) = At(r, y) => x = y
  BY FoundingTreeIs
<1> HIDE DEF r
<1>3. ASSUME NEW x \in Nat, At(r, x) # Blank
      PROVE  \E d : /\ LeafAt(r, d, x) /\ At(r, x) = LeafNode(PackageKey(0, d), d)
                    /\ At(r, x).key = PackageKey(0, d) /\ At(r, x).client = d /\ At(r, x).unmergedLeaves = <<>>
  <2>1. PICK i \in 1 .. Len(f) : IsLeaf(x) /\ At(r, x) = LeafNode(PackageKey(0, f[i]), f[i])
    BY <1>1, <1>3 DEF Founding
  <2>2. /\ At(r, x).client = f[i] /\ At(r, x).key = PackageKey(0, f[i])
        /\ At(r, x).unmergedLeaves = <<>>
    BY <2>1, LeafNodeIs
  <2>3. LeafAt(r, f[i], x)
    BY <1>3, <2>1, <2>2 DEF LeafAt
  <2> QED
    BY <2>1, <2>2, <2>3
<1>4. ASSUME NEW c, NEW x, NEW y, LeafAt(r, c, x), LeafAt(r, c, y)  PROVE x = y
  <2>1. x \in Nat /\ y \in Nat /\ At(r, x) # Blank /\ At(r, y) # Blank /\ At(r, x).client = c /\ At(r, y).client = c
    BY <1>4 DEF LeafAt
  <2>2. At(r, x) = LeafNode(PackageKey(0, c), c) /\ At(r, y) = LeafNode(PackageKey(0, c), c)
    BY <1>3, <2>1
  <2> QED
    BY <1>2, <2>1, <2>2
<1>5. ASSUME NEW x \in Nat, At(r, x) # Blank
      PROVE  /\ At(r, x).key[2] \in Nat /\ At(r, x).key[2] < 1
             /\ \A c, g : At(r, x).key = UpdateKey(g, c) \/ At(r, x).key = PackageKey(g, c) => LeafAt(r, c, x)
             /\ \A l \in ToSet(At(r, x).unmergedLeaves) : l \in Nat /\ LeafToNodeIndex(l) \in Block(x)
  <2>1. PICK d : LeafAt(r, d, x) /\ At(r, x).key = PackageKey(0, d) /\ At(r, x).unmergedLeaves = <<>>
    BY <1>3, <1>5
  <2>2. At(r, x).key[2] = 0
    BY <2>1, KeysAreNotEmpty
  <2>3. ASSUME NEW c, NEW g, At(r, x).key = UpdateKey(g, c) \/ At(r, x).key = PackageKey(g, c)  PROVE LeafAt(r, c, x)
    <3>1. At(r, x).key[3] = c
      BY <2>3, NodeKeys
    <3>2. At(r, x).key[3] = d
      BY <2>1, NodeKeys
    <3> QED
      BY <2>1, <3>1, <3>2
  <2>4. ToSet(At(r, x).unmergedLeaves) = {}
    BY <2>1 DEF ToSet
  <2> QED
    BY <2>2, <2>3, <2>4
<1>6. SoundTree(r, 1)
  BY <1>4, <1>5 DEF SoundTree
<1>7. \A x \in Nat : At(r, x) # Blank => \E d : LeafAt(r, d, x) /\ At(r, x).key = PackageKey(0, d)
  BY <1>3
<1> QED
  BY <1>6, <1>7 DEF r

LEMMA FoundersKeys ==
  ASSUME scenario \in Scenarios, NEW c, NEW own, LeafAt(FoundingTree, c, own),
         NEW K, K = [n \in {own} |-> PackageKey(0, c)]
  PROVE  KeysFit(FoundingTree, c, own, 1, K)
<1> DEFINE r == FoundingTree
<1>1. /\ SoundTree(r, 1)
      /\ \A x \in Nat : At(r, x) # Blank => \E d : LeafAt(r, d, x) /\ At(r, x).key = PackageKey(0, d)
  BY FoundersTree
<1>2. LeafAt(r, c, own)
  OBVIOUS
<1> HIDE DEF r
<1>3. ValuesOf(K) = {PackageKey(0, c)} /\ own \in DOMAIN K /\ K[own] = PackageKey(0, c)
  BY DEF ValuesOf
<1>4. SoundKeys(r, c, ValuesOf(K))
  <2> SUFFICES ASSUME NEW x \in Nat, At(r, x) # Blank, At(r, x).key \in ValuesOf(K)  PROVE HolderAt(r, c, x)
    BY DEF SoundKeys
  <2>1. At(r, x).key = PackageKey(0, c)
    BY <1>3
  <2>2. LeafAt(r, c, x)
    BY <1>1, <2>1 DEF SoundTree
  <2>3. x \in Block(x)
    BY NodeBasics
  <2> QED
    BY <2>2, <2>3 DEF HolderAt
<1>5. OldKeys(1, ValuesOf(K))
  <2>1. PackageKey(0, c) # NoKey /\ PackageKey(0, c)[2] = 0
    BY KeysAreNotEmpty
  <2> QED
    BY <1>3, <2>1 DEF OldKeys
<1>6. Complete(r, c, K)
  <2> SUFFICES ASSUME NEW x \in Nat, At(r, x) # Blank, HolderAt(r, c, x)  PROVE x \in DOMAIN K /\ K[x] = At(r, x).key
    BY DEF Complete
  <2>1. PICK d : LeafAt(r, d, x) /\ At(r, x).key = PackageKey(0, d)
    BY <1>1
  <2>2. PICK y : LeafAt(r, c, y) /\ y \in Block(x)
    BY DEF HolderAt
  <2>3. Block(x) = {x}
    BY <2>1, LeafNodesNumber DEF LeafAt
  <2>4. y = x
    BY <2>2, <2>3
  <2>5. x = own
    BY <1>1, <1>2, <2>2, <2>4 DEF SoundTree
  <2>6. d = c
    BY <2>1, <2>2, <2>4 DEF LeafAt
  <2> QED
    BY <1>3, <2>1, <2>5, <2>6
<1> QED
  BY <1>2, <1>4, <1>5, <1>6 DEF KeysFit, r

LEMMA KeysInit ==
  ASSUME Init
  PROVE  KeysInv
<1> DEFINE r == FoundingTree
           L(c) == CHOOSE i \in LeavesOf(r, c) : TRUE
           K(c) == [n \in {LeafToNodeIndex(L(c))} |-> PackageKey(0, c)]
<1>1. /\ scenario \in Scenarios /\ commit.epoch = 0 /\ commit.path = NoPath /\ commit.sender = 0
      /\ updates = {} /\ welcome = <<>> /\ groupInfo.ratchetTree = r /\ groupInfo.signer = 0
  BY DEF Init
<1>2. state = [c \in Client |-> IF c \in ToSet(scenario.founders)
                                THEN Member(1, L(c), K(c), r, TreeHashes(r, EmptyCache)) ELSE Outside]
  BY DEF Init
<1>3. TreesInv
  BY TreesInit
<1>4. /\ SoundTree(r, 1)
      /\ \A x \in Nat : At(r, x) # Blank => \E d : LeafAt(r, d, x) /\ At(r, x).key = PackageKey(0, d)
  BY <1>1, FoundersTree
<1>5. PICK h : IsTreeOf(r, h)
  BY <1>1, FoundingTreeIs
<1>6. \A c \in ToSet(scenario.founders) : L(c) \in LeavesOf(r, c)
  BY <1>1, FoundingTreeIs
<1>7. PathKnown(r, commit)
  <2>1. ASSUME NEW x \in Nat, At(r, x) # Blank, NEW i  PROVE At(r, x).key # PathKey(commit.epoch, i)
    <3>1. PICK d : At(r, x).key = PackageKey(0, d)
      BY <1>4, <2>1
    <3> QED
      BY <3>1, NodeKeys
  <2> QED
    BY <1>1, <2>1 DEF PathKnown
<1>8. KeyedTree(r, commit)
  BY <1>1, <1>4, <1>7 DEF KeyedTree
<1>9. UpdatesOf(r, Epoch, updates)
  BY <1>1 DEF UpdatesOf
<1>10. ASSUME NEW c \in Client  PROVE HasKeys(c, state[c], r, commit)
  <2>1. CASE c \in ToSet(scenario.founders)
    <3>1. state[c] = Member(1, L(c), K(c), r, TreeHashes(r, EmptyCache))
      BY <1>2, <2>1
    <3>2. LeafAt(r, c, LeafToNodeIndex(L(c)))
      BY <1>5, <1>6, <2>1, LeavesAreLeafAt
    <3> DEFINE l == L(c)
               keys == K(c)
    <3>3. keys = [n \in {LeafToNodeIndex(l)} |-> PackageKey(0, c)]
      OBVIOUS
    <3> HIDE DEF keys, l
    <3>4. KeysFit(r, c, LeafToNodeIndex(l), 1, keys)
      BY <1>1, <3>2, <3>3, FoundersKeys DEF l
    <3>5. /\ state[c].kind = "member" /\ state[c].epoch = 1 /\ state[c].leafIndex = l /\ state[c].privateKeys = keys
      BY <3>1, MemberIs DEF keys, l
    <3>6. commit.epoch + 1 = 1 /\ commit.epoch \in Nat
      BY <1>1
    <3>7. KeysFit(r, c, LeafToNodeIndex(state[c].leafIndex), commit.epoch + 1, state[c].privateKeys)
      BY <3>4, <3>5, <3>6
    <3> QED
      BY <3>5, <3>6, <3>7, FittingKeys
  <2>2. CASE c \notin ToSet(scenario.founders)
    <3>1. state[c] = Outside
      BY <1>2, <2>2
    <3>2. state[c].kind # "member" /\ state[c].privateKeys = <<>>
      BY <3>1 DEF Outside
    <3>3. ValuesOf(<<>>) = {}
      BY DEF ValuesOf
    <3> QED
      BY <3>2, <3>3 DEF HasKeys, SoundKeys, OldKeys
  <2> QED
    BY <2>1, <2>2
<1>11. \A c \in DOMAIN welcome : c \in Client /\ Awaited(r, commit, c, welcome[c])
  BY <1>1
<1> QED
  BY <1>1, <1>3, <1>8, <1>9, <1>10, <1>11 DEF KeysInv

LEMMA KeysStep ==
  ASSUME KeysInv, [Next]_vars
  PROVE  KeysInv'
<1>1. CASE UNCHANGED vars
  <2>1. /\ scenario' = scenario /\ state' = state /\ updates' = updates /\ commit' = commit /\ welcome' = welcome
        /\ groupInfo' = groupInfo
    BY <1>1 DEF vars
  <2>2. TreesInv'
    BY <1>1, TreesStep DEF KeysInv
  <2> QED
    BY <2>1, <2>2 DEF KeysInv, Epoch
<1>2. ASSUME NEW c \in Client, CreateUpdateProposal(c)  PROVE KeysInv'
  BY <1>2, KeysUpdateProposal
<1>3. ASSUME NEW c \in Client, CreateCommit(c)  PROVE KeysInv'
  <2>1. TreesInv
    BY DEF KeysInv
  <2> QED
    BY <1>3, <2>1, MemberCommits, CommitsKeepKeys
<1>4. ASSUME NEW c \in Client, JoinGroupExternal(c)  PROVE KeysInv'
  <2>1. TreesInv
    BY DEF KeysInv
  <2> QED
    BY <1>4, <2>1, NewcomerCommits, CommitsKeepKeys
<1>5. ASSUME NEW c \in Client, ProcessCommit(c)  PROVE KeysInv'
  BY <1>5, KeysProcess
<1>6. ASSUME NEW c \in Client, ProcessRemoval(c)  PROVE KeysInv'
  BY <1>6, KeysRemoval
<1>7. ASSUME NEW c \in Client, JoinGroup(c)  PROVE KeysInv'
  BY <1>7, KeysJoin
<1> QED
  BY <1>1, <1>2, <1>3, <1>4, <1>5, <1>6, <1>7 DEF Next

LEMMA KeysInvariant == Spec => []KeysInv
<1>1. Init => KeysInv
  BY KeysInit
<1>2. KeysInv /\ [Next]_vars => KeysInv'
  BY KeysStep
<1> QED
  BY <1>1, <1>2, PTL DEF Spec

\* Who holds a key according to the tree, by leaf indices and by leaf nodes.
LEMMA HoldersAre ==
  ASSUME NEW t, NEW h, IsTreeOf(t, h), NEW n \in NonBlank(t), NEW c \in Client
  PROVE  c \in HoldersInTree(t, n) <=> HolderAt(t, c, n)
<1>1. DOMAIN t = Full(h) /\ Full(h) \subseteq Nat
  BY TreeShape
<1>2. n \in Full(h) /\ n \in Nat /\ At(t, n) = t[n]
  BY <1>1 DEF NonBlank, At
<1>3. ASSUME c \in HoldersInTree(t, n)  PROVE HolderAt(t, c, n)
  <2>1. PICK l \in LeavesOf(t, c) :
               \/ n = LeafToNodeIndex(l)
               \/ n \in Above(t, LeafToNodeIndex(l)) /\ l \notin ToSet(t[n].unmergedLeaves)
    BY <1>3 DEF HoldersInTree
  <2>2. l \in Nat /\ LeafAt(t, c, LeafToNodeIndex(l)) /\ LeafToNodeIndex(l) \in Full(h)
    BY <2>1, LeavesAreLeafAt, LeafIndicesOf
  <2>3. NodeToLeafIndex(LeafToNodeIndex(l)) = l
    BY <2>2, LeafNumbers
  <2>4. CASE n = LeafToNodeIndex(l)
    <3>1. LeafToNodeIndex(l) \in Block(n)
      BY <1>2, <2>4, NodeBasics
    <3> QED
      BY <2>2, <2>4, <3>1 DEF HolderAt
  <2>5. CASE n \in Above(t, LeafToNodeIndex(l)) /\ l \notin ToSet(t[n].unmergedLeaves)
    <3>1. LeafToNodeIndex(l) \in Block(n)
      BY <2>2, <2>5, AboveNode
    <3> QED
      BY <1>2, <2>2, <2>3, <2>5, <3>1 DEF HolderAt
  <2> QED
    BY <2>1, <2>4, <2>5
<1>4. ASSUME HolderAt(t, c, n)  PROVE c \in HoldersInTree(t, n)
  <2>1. PICK y : /\ LeafAt(t, c, y) /\ y \in Block(n)
                 /\ y = n \/ NodeToLeafIndex(y) \notin ToSet(At(t, n).unmergedLeaves)
    BY <1>4 DEF HolderAt
  <2>2. y \in Leaves(t) /\ NodeToLeafIndex(y) \in LeavesOf(t, c) /\ y \in Nat /\ IsLeaf(y)
    BY <2>1, LeavesAreLeafAt DEF LeafAt
  <2>3. LeafToNodeIndex(NodeToLeafIndex(y)) = y /\ y \in Full(h)
    BY <1>1, <2>2, LeafNodesNumber DEF Leaves, NonBlank
  <2>4. y # n => n \in Above(t, y)
    BY <1>2, <2>1, <2>3, AboveNode
  <2> QED
    BY <1>2, <2>1, <2>2, <2>3, <2>4 DEF HoldersInTree
<1> QED
  BY <1>3, <1>4

(***************************************************************************)
(* The tree invariant of TreeKEM, for every group of clients and every     *)
(* sequence of commits: the private key of a node is held by the members   *)
(* below it that are not unmerged there, and by nobody else, whether they  *)
(* committed, followed a path from its lowest node they know the secret    *)
(* of, or joined (applyUpdatePathSecret and createCommit of                *)
(* createCommit.ts, joinGroup of clientState.ts).                          *)
(***************************************************************************)
THEOREM KeysAreWithTheirHolders == Spec => []KeyHolders
<1>1. KeysInv => KeyHolders
  <2> SUFFICES ASSUME KeysInv  PROVE KeyHolders
    OBVIOUS
  <2> DEFINE t == groupInfo.ratchetTree
  <2>1. PICK h : IsTreeOf(t, h)
    BY DEF KeysInv, TreesInv
  <2>2. \A n \in NonBlank(t) : n \in Nat /\ At(t, n) = t[n] /\ At(t, n) # Blank
    BY <2>1, TreeShape DEF NonBlank, At
  <2>3. \A n \in NonBlank(t), c \in Client : c \in HoldersInTree(t, n) <=> HolderAt(t, c, n)
    BY <2>1, HoldersAre
  <2>4. \A c \in Client : HasKeys(c, state[c], t, commit)
    BY DEF KeysInv
  <2>5. ASSUME NEW n \in NonBlank(t), NEW c \in Client, state[c].kind = "member", state[c].epoch = Epoch
        PROVE  Holds(c, t, n) <=> c \in HoldersInTree(t, n)
    <3>1. /\ SoundKeys(t, c, ValuesOf(state[c].privateKeys))
          /\ Complete(t, c, state[c].privateKeys)
      BY <2>4, <2>5 DEF HasKeys, KeysFit, Epoch
    <3>2. ASSUME Holds(c, t, n)  PROVE HolderAt(t, c, n)
      <4>1. At(t, n).key \in ValuesOf(state[c].privateKeys)
        BY <2>2, <3>2 DEF Holds, ValuesOf
      <4> QED
        BY <2>2, <3>1, <4>1 DEF SoundKeys
    <3>3. ASSUME HolderAt(t, c, n)  PROVE Holds(c, t, n)
      BY <2>2, <3>1, <3>3 DEF Complete, Holds
    <3> QED
      BY <2>3, <3>2, <3>3
  <2>6. ASSUME NEW c \in Client, NEW k \in KeysOf(c) \intersect KeysIn(t)
        PROVE  k \in {t[n].key : n \in {m \in NonBlank(t) : c \in HoldersInTree(t, m)}}
    <3>1. k \in ValuesOf(state[c].privateKeys)
      BY DEF KeysOf, ValuesOf
    <3>2. PICK n \in NonBlank(t) : k = t[n].key
      BY DEF KeysIn
    <3>3. SoundKeys(t, c, ValuesOf(state[c].privateKeys))
      BY <2>4 DEF HasKeys
    <3>4. HolderAt(t, c, n)
      BY <2>2, <3>1, <3>2, <3>3 DEF SoundKeys
    <3> QED
      BY <2>3, <3>2, <3>4
  <2> QED
    BY <2>5, <2>6 DEF KeyHolders
<1> QED
  BY <1>1, KeysInvariant, PTL

-----------------------------------------------------------------------------
\* The tree a commit makes is the one of the new epoch, and dated by the old.
LEMMA CommitMakesTree ==
  ASSUME KeysInv, NEW c \in Client, NEW l, NEW external, NEW updated, NEW removed, NEW invited, NEW added, NEW tree,
         NEW hasPath, NEW keys, NEW new,
         Commits(c, l, external, updated, removed, invited, added, tree, hasPath, keys, new)
  PROVE  /\ groupInfo'.ratchetTree = new /\ commit'.epoch = Epoch
         /\ \E place : CommitMade(groupInfo.ratchetTree, new, Epoch, c, commit', place)
         /\ \E h : IsTreeOf(new, h)
<1> DEFINE path == IF hasPath THEN SentPath(tree, new, l, added) ELSE NoPath
           ks == IF hasPath THEN CommitterKeys(tree, l, keys) ELSE keys
           secret == IF hasPath THEN GetCommitSecret(new, FilteredDirectPath(l, tree)) ELSE 0
           secrets == IF hasPath THEN Secrets(new, FilteredDirectPath(l, tree), added, TRUE)
                                 ELSE Secrets(tree, <<>>, added, FALSE)
<1>1. Begins(c, l, external, updated, removed, added, path, ks, new, secret, secrets)
  BY DEF Commits
<1> HIDE DEF path, ks, secret, secrets
<1>2. TreesInv
  BY DEF KeysInv
<1>3. groupInfo'.ratchetTree = new /\ commit'.epoch = Epoch
  BY <1>1, <1>2, BegunAs
<1>4. \E place : CommitMade(groupInfo.ratchetTree, new, Epoch, c, commit', place)
  BY CommitIsMade
<1>5. TreesInv'
  BY <1>2, CommitsKeepTrees
<1>6. \E h : IsTreeOf(new, h)
  BY <1>3, <1>5 DEF TreesInv
<1> QED
  BY <1>3, <1>4, <1>6

\* A member whose leaf a commit renews has no key of the tree the commit makes.
LEMMA RenewedIsHealed ==
  ASSUME NEW old, NEW new, NEW e, NEW a, NEW m, NEW place, CommitMade(old, new, e, a, m, place),
         NEW c, NEW own, NEW keys, KeysFit(old, c, own, e, keys), own \in Renewed(m),
         NEW x \in Nat, At(new, x) # Blank
  PROVE  At(new, x).key \notin ValuesOf(keys)
<1> SUFFICES ASSUME At(new, x).key \in ValuesOf(keys)  PROVE FALSE
  OBVIOUS
<1> DEFINE k == At(new, x).key
<1>1. k[2] \in Nat /\ k[2] < e /\ e \in Nat
  BY DEF KeysFit, OldKeys, CommitMade
<1>2. k[2] # e
  BY <1>1
<1>3. ~AddedNode(m, place, new, x)
  <2> SUFFICES ASSUME AddedNode(m, place, new, x)  PROVE FALSE
    OBVIOUS
  <2>1. \E d : At(new, x).key = PackageKey(e, d)
    BY NodesOfCommit
  <2> QED
    BY <1>2, <2>1, KeysAreNotEmpty
<1>4. ~UpdatedNode(m, new, x)
  <2> SUFFICES ASSUME UpdatedNode(m, new, x)  PROVE FALSE
    OBVIOUS
  <2>1. \E d : At(new, x).key = UpdateKey(e, d)
    BY NodesOfCommit
  <2> QED
    BY <1>2, <2>1, KeysAreNotEmpty
<1>5. ~SenderNode(m, x)
  <2> SUFFICES ASSUME SenderNode(m, x)  PROVE FALSE
    OBVIOUS
  <2>1. At(new, x).key = PathKey(e, 0)
    BY NodesOfCommit
  <2> QED
    BY <1>2, <2>1, KeysAreNotEmpty
<1>6. ~PathNode(m, new, x)
  <2> SUFFICES ASSUME PathNode(m, new, x)  PROVE FALSE
    OBVIOUS
  <2>1. \E i \in Nat : At(new, x).key = PathKey(e, i)
    BY NodesOfCommit
  <2> QED
    BY <1>2, <2>1, KeysAreNotEmpty
<1>7. KeptNode(old, new, m, place, x)
  BY <1>3, <1>4, <1>5, <1>6, OriginOfNode
<1>8. At(new, x).key = At(old, x).key /\ At(old, x) # Blank /\ Spared(m, x)
  <2>1. At(new, x).key = At(old, x).key
    BY <1>7, NodesOfCommit
  <2> QED
    BY <1>7, <2>1 DEF KeptNode
<1>9. HolderAt(old, c, x)
  BY <1>8 DEF KeysFit, SoundKeys
<1>10. own \in Block(x)
  <2>1. SoundTree(old, e) /\ LeafAt(old, c, own)
    BY DEF CommitMade, KeysFit
  <2> QED
    BY <1>9, <2>1, HoldersLeaf
<1> QED
  BY <1>8, <1>10 DEF Spared

(***************************************************************************)
(* Post-compromise security, for every group of clients and every sequence *)
(* of commits: whoever a commit removes, updates, or commits with a path   *)
(* itself, of all the private keys it had none is of a node of the new     *)
(* tree (applyTreeMutations, createUpdatePath of updatePath.ts).           *)
(***************************************************************************)
THEOREM CommitsHealMembers == Spec => CommitHeals
<1>1. ASSUME KeysInv, [Next]_vars
      PROVE  commit' # commit =>
               \A c \in Client :
                 Healed(c, commit') => KeysOf(c) \intersect KeysIn(groupInfo'.ratchetTree) = {}
  <2> DEFINE old == groupInfo.ratchetTree
             new == groupInfo'.ratchetTree
  <2> SUFFICES ASSUME commit' # commit, NEW c \in Client, Healed(c, commit')
               PROVE  KeysOf(c) \intersect KeysIn(new) = {}
    OBVIOUS
  <2>1. \E a, place : CommitMade(old, new, Epoch, a, commit', place) /\ commit'.epoch = Epoch /\ \E h : IsTreeOf(new, h)
    <3>1. PICK d \in Client : CreateCommit(d) \/ JoinGroupExternal(d)
      BY <1>1 DEF Next, vars, CreateUpdateProposal, ProcessCommit, ProcessRemoval, JoinGroup
    <3>2. TreesInv
      BY <1>1 DEF KeysInv
    <3>3. CASE CreateCommit(d)
      <4>1. PICK updated, removed, invited, added, tree, hasPath, made :
                   Commits(d, state[d].leafIndex, FALSE, updated, removed, invited, added, tree, hasPath,
                           state[d].privateKeys, made)
        BY <3>2, <3>3, MemberCommits
      <4> QED
        BY <1>1, <4>1, CommitMakesTree
    <3>4. CASE JoinGroupExternal(d)
      <4>1. PICK l, tree, made :
                   Commits(d, l, TRUE, {}, LeavesOf(old, d), <<>>, <<>>, tree, TRUE, <<>>, made)
        BY <3>2, <3>4, NewcomerCommits
      <4> QED
        BY <1>1, <4>1, CommitMakesTree
    <3> QED
      BY <3>1, <3>3, <3>4
  <2>2. PICK a, place : CommitMade(old, new, Epoch, a, commit', place) /\ commit'.epoch = Epoch /\ \E h : IsTreeOf(new, h)
    BY <2>1
  <2> HIDE DEF new, old
  <2>3. KeysFit(old, c, OwnLeaf(c), Epoch, state[c].privateKeys)
    <3>1. state[c].kind = "member" /\ state[c].epoch = commit.epoch + 1
      BY <2>2 DEF Healed, Epoch
    <3>2. HasKeys(c, state[c], old, commit)
      BY <1>1 DEF KeysInv, old
    <3> QED
      BY <3>1, <3>2 DEF HasKeys, Epoch, OwnLeaf
  <2>4. OwnLeaf(c) \in Renewed(commit')
    BY DEF Healed, Renewed, UpdatedAt, RemovedAt, OwnLeaf
  <2>5. ASSUME NEW n \in NonBlank(new)  PROVE new[n].key \notin KeysOf(c)
    <3>1. n \in Nat /\ At(new, n) = new[n] /\ At(new, n) # Blank
      BY <2>2, TreeShape DEF NonBlank, At
    <3>2. At(new, n).key \notin ValuesOf(state[c].privateKeys)
      BY <2>2, <2>3, <2>4, <3>1, RenewedIsHealed
    <3> QED
      BY <3>1, <3>2 DEF ValuesOf, KeysOf
  <2> QED
    BY <2>5 DEF KeysIn
<1> QED
  BY <1>1, KeysInvariant, PTL DEF Spec, CommitHeals

-----------------------------------------------------------------------------
(***************************************************************************)
(* Whoever has a leaf has a key of the resolution next to the path.        *)
(***************************************************************************)
\* A client that is to hold the key of node r because of its leaf y.
Reaches(t, r, y) ==
  /\ y \in Block(r) /\ At(t, r) # Blank
  /\ r = y \/ NodeToLeafIndex(y) \notin ToSet(At(t, r).unmergedLeaves)

\* The nodes of a resolution of x are in its subtree and reach every leaf there.
Covers(t, x, r) ==
  /\ \A i \in DOMAIN r : r[i] \in Block(x) /\ (At(t, r[i]) # Blank \/ IsLeaf(r[i]))
  /\ \A y \in Block(x) : IsLeaf(y) /\ At(t, y) # Blank => \E i \in DOMAIN r : Reaches(t, r[i], y)

LEMMA OwnResolutionCovers ==
  ASSUME NEW t, NEW h, IsTreeOf(t, h), NEW e, SoundTree(t, e), NEW x \in Full(h), t[x] # Blank
  PROVE  Covers(t, x, OwnResolution(t, x))
<1> DEFINE u == t[x].unmergedLeaves
           f == [i \in DOMAIN u |-> LeafToNodeIndex(u[i])]
           r == OwnResolution(t, x)
<1>1. x \in Nat /\ At(t, x) = t[x] /\ x \in Block(x) /\ Block(x) \subseteq Nat
  BY TreeShape, NodeBasics DEF At
<1>2. u \in Seq(Nat)
  BY TreeShape DEF IsNode
<1>3. \A l \in ToSet(u) : l \in Nat /\ LeafToNodeIndex(l) \in Block(x)
  BY <1>1 DEF SoundTree
<1>4. Len(u) \in Nat /\ DOMAIN u = 1 .. Len(u)
  BY <1>2
<1>5. r = <<x>> \o f
  BY DEF OwnResolution
<1> DEFINE n == Len(u)
<1> HIDE DEF u, r
<1>6. \A i \in 1 .. n : u[i] \in Nat /\ f[i] = LeafToNodeIndex(u[i]) /\ f[i] \in Block(x) /\ IsLeaf(f[i]) /\ f[i] \in Nat
  <2> TAKE i \in 1 .. n
  <2>1. u[i] \in ToSet(u) /\ f[i] = LeafToNodeIndex(u[i])
    BY <1>4 DEF ToSet
  <2> QED
    BY <1>3, <2>1, LeafNumbers
<1>7. f \in [1 .. n -> Nat]
  BY <1>4, <1>6
<1> HIDE DEF f
<1>8. f \in Seq(Nat) /\ Len(f) = n /\ n \in Nat
  BY <1>4, <1>7, FunctionIsSequence
<1>9. DOMAIN r = 1 .. n + 1 /\ r[1] = x /\ \A i \in 1 .. n : r[i + 1] = f[i]
  BY <1>1, <1>5, <1>8
<1>10. ASSUME NEW i \in DOMAIN r  PROVE r[i] \in Block(x) /\ (At(t, r[i]) # Blank \/ IsLeaf(r[i]))
  <2>1. CASE i = 1
    BY <1>1, <1>9, <2>1
  <2>2. CASE i # 1
    <3>1. i - 1 \in 1 .. n /\ i - 1 + 1 = i
      BY <1>8, <1>9, <2>2
    <3> QED
      BY <1>6, <1>9, <3>1
  <2> QED
    BY <2>1, <2>2
<1>11. ASSUME NEW y \in Block(x), IsLeaf(y), At(t, y) # Blank  PROVE \E i \in DOMAIN r : Reaches(t, r[i], y)
  <2>1. y \in Nat /\ y \in Block(y) /\ NodeToLeafIndex(y) \in Nat /\ LeafToNodeIndex(NodeToLeafIndex(y)) = y
    BY <1>1, <1>11, NodeBasics, LeafNodesNumber
  <2>2. CASE NodeToLeafIndex(y) \in ToSet(u)
    <3>1. PICK i \in 1 .. n : u[i] = NodeToLeafIndex(y)
      BY <1>4, <2>2 DEF ToSet
    <3>2. r[i + 1] = y /\ i + 1 \in DOMAIN r
      BY <1>6, <1>8, <1>9, <2>1, <3>1
    <3> QED
      BY <1>11, <2>1, <3>2 DEF Reaches
  <2>3. CASE NodeToLeafIndex(y) \notin ToSet(u)
    <3>1. 1 \in DOMAIN r /\ r[1] = x /\ At(t, x).unmergedLeaves = u
      BY <1>1, <1>8, <1>9 DEF u
    <3> QED
      BY <1>1, <1>11, <2>3, <3>1 DEF Reaches
  <2> QED
    BY <2>2, <2>3
<1> QED
  BY <1>10, <1>11 DEF Covers, r

LEMMA ResolutionsCover ==
  ASSUME NEW t, NEW h, IsTreeOf(t, h), NEW e, SoundTree(t, e)
  PROVE  \A x \in Full(h) : Covers(t, x, Resolution(t)[x])
<1> DEFINE r == Resolution(t)
           S == {k \in Nat : \A n \in Full(h) : Level(n) <= k => Covers(t, n, r[n])}
<1>1. h \in Nat /\ DOMAIN t = Full(h)
      /\ \A n \in Full(h) : n \in Nat /\ Level(n) \in 0 .. h /\ Block(n) \subseteq Full(h) /\ At(t, n) = t[n]
  BY TreeShape, NodeOfTree, NodeBasics DEF At
<1>2. Resolves(t, r, Full(h)) /\ \A n \in Full(h) : r[n] \in Seq(Full(h))
  BY ResolutionIs, ResolutionFits
<1> HIDE DEF r
<1>3. \A n \in Full(h) : r[n] = IF t[n] # Blank THEN OwnResolution(t, n)
                                ELSE IF IsLeaf(n) THEN <<>> ELSE r[Left(n)] \o r[Right(n)]
  BY <1>2 DEF Resolves
<1>4. ASSUME NEW n \in Full(h), t[n] # Blank  PROVE Covers(t, n, r[n])
  BY <1>3, <1>4, OwnResolutionCovers
<1>5. ASSUME NEW n \in Full(h), t[n] = Blank, IsLeaf(n)  PROVE Covers(t, n, r[n])
  <2>1. r[n] = <<>> /\ Block(n) = {n}
    BY <1>1, <1>3, <1>5, NodeBasics
  <2> QED
    BY <1>1, <1>5, <2>1 DEF Covers
<1>6. 0 \in S
  <2>1. \A n \in Full(h) : Level(n) <= 0 => IsLeaf(n)
    BY <1>1, NodeBasics
  <2> QED
    BY <1>4, <1>5, <2>1
<1>7. ASSUME NEW k \in Nat, k \in S  PROVE k + 1 \in S
  <2> SUFFICES ASSUME NEW n \in Full(h), Level(n) <= k + 1  PROVE Covers(t, n, r[n])
    OBVIOUS
  <2>1. CASE t[n] # Blank \/ IsLeaf(n)
    BY <1>4, <1>5, <2>1
  <2>2. CASE t[n] = Blank /\ ~IsLeaf(n)
    <3> DEFINE a == r[Left(n)]
               b == r[Right(n)]
    <3>1. /\ Left(n) \in Full(h) /\ Right(n) \in Full(h)
          /\ Level(Left(n)) <= k /\ Level(Right(n)) <= k
          /\ Block(n) = Block(Left(n)) \union {n} \union Block(Right(n))
      BY <1>1, <2>2, ChildrenInTree
    <3>2. Covers(t, Left(n), a) /\ Covers(t, Right(n), b)
      BY <1>7, <3>1
    <3>3. a \in Seq(Full(h)) /\ b \in Seq(Full(h)) /\ r[n] = a \o b
      BY <1>2, <1>3, <2>2, <3>1
    <3> HIDE DEF a, b
    <3>4. /\ Len(a) \in Nat /\ Len(b) \in Nat /\ DOMAIN a = 1 .. Len(a) /\ DOMAIN b = 1 .. Len(b)
          /\ DOMAIN r[n] = 1 .. Len(a) + Len(b)
          /\ \A i \in 1 .. Len(a) : r[n][i] = a[i]
          /\ \A i \in 1 .. Len(b) : r[n][Len(a) + i] = b[i]
      BY <3>3
    <3>5. ASSUME NEW i \in DOMAIN r[n]  PROVE r[n][i] \in Block(n) /\ (At(t, r[n][i]) # Blank \/ IsLeaf(r[n][i]))
      <4>1. CASE i <= Len(a)
        <5>1. i \in DOMAIN a /\ r[n][i] = a[i]
          BY <3>4, <4>1
        <5> QED
          BY <3>1, <3>2, <5>1 DEF Covers
      <4>2. CASE i > Len(a)
        <5>1. i - Len(a) \in DOMAIN b /\ Len(a) + (i - Len(a)) = i
          BY <3>4, <4>2
        <5>2. r[n][i] = b[i - Len(a)]
          BY <3>4, <5>1
        <5> QED
          BY <3>1, <3>2, <5>1, <5>2 DEF Covers
      <4> QED
        BY <3>4, <4>1, <4>2
    <3>6. ASSUME NEW y \in Block(n), IsLeaf(y), At(t, y) # Blank  PROVE \E i \in DOMAIN r[n] : Reaches(t, r[n][i], y)
      <4>1. CASE y \in Block(Left(n))
        <5>1. PICK i \in DOMAIN a : Reaches(t, a[i], y)
          BY <3>2, <3>6, <4>1 DEF Covers
        <5>2. i \in DOMAIN r[n] /\ r[n][i] = a[i]
          BY <3>4
        <5> QED
          BY <5>1, <5>2
      <4>2. CASE y \in Block(Right(n))
        <5>1. PICK i \in DOMAIN b : Reaches(t, b[i], y)
          BY <3>2, <3>6, <4>2 DEF Covers
        <5>2. Len(a) + i \in DOMAIN r[n] /\ r[n][Len(a) + i] = b[i]
          BY <3>4
        <5> QED
          BY <5>1, <5>2
      <4> QED
        BY <2>2, <3>1, <3>6, <4>1, <4>2
    <3> QED
      BY <3>5, <3>6 DEF Covers
  <2> QED
    BY <2>1, <2>2
<1>8. Nat \subseteq S
  <2> HIDE DEF S
  <2> QED
    BY <1>6, <1>7, InductionOnSet
<1> QED
  BY <1>1, <1>8 DEF r

\* The node of the copath below which a leaf is, and where it meets the path.
Branches(t, h, l, y, k, x) ==
  /\ k \in DOMAIN FilteredDirectPath(l, t) /\ MeetsAt(PathOf(t, l), y, k)
  /\ x \in Full(h) /\ y \in Block(x) /\ LeafToNodeIndex(l) \notin Block(x)
  /\ FilteredDirectPath(l, t)[k].resolution = Resolution(t)[x]

LEMMA EveryLeafMeetsThePath ==
  ASSUME NEW t, NEW h, IsTreeOf(t, h), NEW e, SoundTree(t, e),
         NEW l \in Nat, LeafToNodeIndex(l) \in Full(h),
         NEW y \in Full(h), IsLeaf(y), At(t, y) # Blank, y # LeafToNodeIndex(l)
  PROVE  \E k, x : Branches(t, h, l, y, k, x)
<1> DEFINE s == LeafToNodeIndex(l)
           path == DirectPath(s, 2^h)
           copath == Copath(s, 2^h)
           all == Resolution(t)
           seq == [i \in DOMAIN path |-> [nodeIndex |-> path[i], resolution |-> all[copath[i]]]]
           P == {i \in DOMAIN path : all[copath[i]] # <<>>}
           fdp == FilteredDirectPath(l, t)
<1>1. h \in Nat /\ WidthOf(t) = 2^h
  BY TreeShape
<1>2. s \in Nat /\ s \in Full(h) /\ Level(s) = 0 /\ Block(s) = {s} /\ y \in Nat /\ s # y
  BY LeafNumbers, NodeBasics, NodeOfTree, <1>1
<1>3. fdp = AtPositions(seq, P)
  BY <1>1 DEF FilteredDirectPath
<1>4. PathFrom(s, h, path) /\ CopathFrom(s, h, path, copath)
  BY <1>1, <1>2, DirectPathIs, CopathIs
<1>5. \A x \in Full(h) : Covers(t, x, all[x])
  BY ResolutionsCover
<1> HIDE DEF s, path, copath, all, fdp
<1>6. DOMAIN path = 1 .. h /\ \A i \in 1 .. h : path[i] \in Full(h) /\ path[i] \in Nat /\ Level(path[i]) = i
  <2>1. DOMAIN path = 1 .. h /\ \A i \in 1 .. h : path[i] \in Full(h) /\ Level(path[i]) = i
    BY <1>1, <1>2, <1>4 DEF PathFrom
  <2> QED
    BY <1>1, <2>1, NodeOfTree
<1>7. P \subseteq 1 .. h /\ \A i \in P : seq[i].nodeIndex = path[i] /\ seq[i].resolution = all[copath[i]]
  BY <1>6
<1>8. \A i \in DOMAIN path : i \in P <=> all[copath[i]] # <<>>
  OBVIOUS
<1> HIDE DEF P, seq
<1>9. PICK nth : Selected(seq, P, fdp, nth)
  BY <1>1, <1>3, <1>7, AtPositionsIs
<1>10. \A i \in 1 .. h : y # path[i]
  <2> TAKE i \in 1 .. h
  <2>1. Level(y) = 0 /\ i # 0
    BY <1>2, NodeBasics
  <2> QED
    BY <1>6, <2>1
<1>11. y \notin Block(s) /\ \A i \in DOMAIN path : y # path[i]
  BY <1>2, <1>6, <1>10
<1>12. PICK i \in DOMAIN copath : y \in Block(copath[i])
  BY <1>1, <1>2, <1>4, <1>11, CopathCovers
<1>13. /\ i \in 1 .. h /\ copath[i] \in Full(h) /\ i \in DOMAIN path
       /\ Block(path[i]) = Block(Before(s, path, i)) \union {path[i]} \union Block(copath[i])
       /\ Block(copath[i]) \intersect Block(Before(s, path, i)) = {}
  BY <1>4, <1>6, <1>12 DEF CopathFrom
<1>14. s \notin Block(copath[i])
  BY <1>1, <1>2, <1>4, <1>12, CopathDisjoint
<1>15. i \in P
  <2>1. PICK j \in DOMAIN all[copath[i]] : Reaches(t, all[copath[i]][j], y)
    BY <1>5, <1>12, <1>13 DEF Covers
  <2>2. all[copath[i]] # <<>>
    BY <2>1
  <2> QED
    BY <1>8, <1>13, <2>2
<1>16. PICK k \in DOMAIN fdp : nth[k] = i
  BY <1>9, <1>15 DEF Selected
<1>17. /\ Cardinality(P) \in Nat /\ DOMAIN fdp = 1 .. Cardinality(P)
       /\ \A j \in DOMAIN fdp : nth[j] \in 1 .. h /\ fdp[j].nodeIndex = path[nth[j]] /\ fdp[j].resolution = all[copath[nth[j]]]
       /\ \A j, g \in DOMAIN fdp : j < g => nth[j] < nth[g]
  BY <1>7, <1>9 DEF Selected
<1>18. \A j \in 1 .. h : y \in Block(path[j]) <=> j >= i
  <2> TAKE j \in 1 .. h
  <2>1. CASE j >= i
    <3>1. Block(path[i]) \subseteq Block(path[j])
      BY <1>1, <1>2, <1>4, <1>6, <1>13, <2>1, PathGrows
    <3> QED
      BY <1>12, <1>13, <2>1, <3>1
  <2>2. CASE j < i
    <3>3. i # 1 /\ i - 1 \in 1 .. h /\ j <= i - 1
      BY <1>1, <1>13, <2>2
    <3>1. i # 1 /\ i - 1 \in 1 .. h /\ j <= i - 1 /\ Before(s, path, i) = path[i - 1]
      BY <3>3 DEF Before
    <3>2. Block(path[j]) \subseteq Block(path[i - 1])
      BY <1>1, <1>2, <1>4, <1>6, <3>1, PathGrows
    <3> QED
      BY <1>12, <1>13, <2>2, <3>1, <3>2
  <2> QED
    BY <2>1, <2>2, <1>13
<1> DEFINE Q == NodesOf(fdp)
<1>19. DOMAIN Q = DOMAIN fdp /\ \A j \in DOMAIN fdp : Q[j] = path[nth[j]]
  BY <1>17 DEF NodesOf
<1> HIDE DEF Q
<1>20. \A j \in DOMAIN Q : y \in Block(Q[j]) <=> j >= k
  <2> TAKE j \in DOMAIN Q
  <2>1. nth[j] >= i <=> j >= k
    BY <1>16, <1>17, <1>19
  <2> QED
    BY <1>17, <1>18, <1>19, <2>1
<1>21. MeetsAt(Q, y, k)
  <2>1. k # 0
    BY <1>17
  <2> QED
    BY <1>19, <1>20, <2>1 DEF MeetsAt
<1>22. fdp[k].resolution = all[copath[i]]
  BY <1>16, <1>17
<1>23. Branches(t, h, l, y, k, copath[i])
  BY <1>12, <1>13, <1>14, <1>21, <1>22 DEF Branches, Q, fdp, s, all, PathOf
<1> QED
  BY <1>23

(***************************************************************************)
(* The parent hashes of a path: each is that of the finished tree, so that *)
(* the follower's check of the sender's leaf node does not fail.           *)
(***************************************************************************)
LinkedAt(t, x) == t[x].parentHash = CalculateParentHash(t, AllHashes(t), x)

LEMMA PathIsLinked ==
  ASSUME NEW t, NEW h, IsTreeOf(t, h), NEW l \in Nat, LeafToNodeIndex(l) \in Full(h), NEW c, NEW e
  PROVE  \A x \in ToSet(PathOf(t, l)) \union {LeafToNodeIndex(l)} : LinkedAt(PathMade(t, l, c, e), x)
<1> DEFINE s == LeafToNodeIndex(l)
           nodes == PathOf(t, l)
           leafNode == LeafNode(PathKey(e, 0), c)
           keys == [i \in DOMAIN nodes |-> PathKey(e, i)]
           p == InsertPathKeys(t, l, leafNode, nodes, keys)
           N == ToSet(nodes) \union {s}
           q == PathMade(t, l, c, e)
           a == AllHashes(t)
           b == AllHashes(q)
<1>1. Ascending(h, s, nodes)
  BY FilteredPathIs DEF PathOf
<1>2. q = InsertParentHashes(p, a, N)
  BY DEF PathMade
<1>3. \A i \in DOMAIN nodes : keys[i] = PathKey(e, i) /\ keys[i] # NoKey
  BY KeysAreNotEmpty
<1>4. IsNode(leafNode) /\ leafNode # Blank
  BY KeysAreNotEmpty, NewNodes
<1>5. NewPath(t, h, s, nodes, c, e, q)
  BY PathMadeIs
<1>6. h \in Nat /\ DOMAIN t = Full(h) /\ s \in Full(h) /\ IsLeaf(s) /\ s \in Nat
  BY TreeShape, LeafNumbers
<1> HIDE DEF s, nodes, leafNode, keys, q, a, b
<1>7. PathInserted(t, h, s, leafNode, nodes, keys, p)
  BY <1>1, <1>3, <1>4, InsertPathKeysIs DEF s
<1> HIDE DEF p
<1>8. IsTreeOf(p, h) /\ p[s] = leafNode /\ \A i \in DOMAIN nodes : p[nodes[i]] = ParentNode(keys[i])
  BY <1>7 DEF PathInserted
<1>9. N = {nodes[i] : i \in DOMAIN nodes} \union {s} /\ N \subseteq Full(h) /\ \A x \in N : s \in Block(x)
  <2>1. s \in Block(s)
    BY <1>6, NodeBasics
  <2> QED
    BY <1>1, <1>6, <2>1 DEF ToSet, Ascending
<1> HIDE DEF N
<1>10. \A x \in N : p[x] # Blank /\ p[x].key # NoKey /\ p[x].unmergedLeaves \in Seq(Nat)
  <2> TAKE x \in N
  <2>1. p[x] # Blank
    <3>1. CASE x = s
      BY <1>4, <1>8, <3>1
    <3>2. CASE x # s
      <4>1. PICK i \in DOMAIN nodes : x = nodes[i]
        BY <1>9, <3>2
      <4>2. ParentNode(keys[i]) # Blank
        BY <1>3, NewNodes
      <4> QED
        BY <1>8, <4>1, <4>2
    <3> QED
      BY <3>1, <3>2
  <2>2. IsNode(p[x])
    BY <1>8, <1>9, TreeShape
  <2> QED
    BY <2>1, <2>2 DEF IsNode
<1>11. HashesInserted(p, h, a, N, q)
  BY <1>2, <1>8, <1>9, <1>10, InsertParentHashesIs
<1>12. /\ IsTreeOf(q, h)
       /\ \A x \in Full(h) : q[x] = IF x \in N THEN WithParentHash(p[x], CalculateParentHash(p, a, x)) ELSE p[x]
  BY <1>11 DEF HashesInserted
<1>13. \A x \in Full(h) : x # s => Alike(p[x], q[x])
  <2> TAKE x \in Full(h)
  <2>1. CASE x \in N
    <3> DEFINE hash == CalculateParentHash(p, a, x)
               old == p[x]
               new == q[x]
    <3>1. new = WithParentHash(old, hash) /\ old # Blank /\ old.key # NoKey
      BY <1>10, <1>12, <2>1
    <3> HIDE DEF hash, old, new
    <3>2. new.key = old.key /\ new.unmergedLeaves = old.unmergedLeaves
      BY <3>1 DEF WithParentHash
    <3>3. new # Blank
      BY <3>1, <3>2, BlankIsNode
    <3>4. Alike(old, new)
      BY <3>1, <3>2, <3>3 DEF Alike
    <3> QED
      BY <3>4 DEF old, new
  <2>2. CASE x \notin N
    BY <1>12, <2>2 DEF Alike
  <2> QED
    BY <2>1, <2>2
<1>14. DOMAIN q = Full(h)
  BY <1>12, TreeShape
<1>15. \A x \in Full(h) : s \notin Block(x) => a[x] = b[x]
  <2> TAKE x \in Full(h)
  <2> HAVE s \notin Block(x)
  <2>1. \A y \in Block(x) : y \in Full(h) /\ s \notin Block(y) /\ y # s
    <3>1. x \in Nat /\ Block(x) \subseteq Full(h)
      BY <1>6, NodeOfTree
    <3> QED
      BY <1>6, <3>1, NodeOfTree, BlocksNest
  <2>2. \A y \in Block(x) : t[y] = q[y]
    <3> TAKE y \in Block(x)
    <3>1. \A i \in DOMAIN nodes : nodes[i] # y
      BY <1>9, <2>1
    <3> QED
      BY <1>5, <2>1, <3>1 DEF NewPath
  <2>3. FreshHash(t, x) = FreshHash(q, x)
    <3>1. FreshHash(t, x) = [y \in Block(x) |-> Content(t[y])] /\ FreshHash(q, x) = [y \in Block(x) |-> Content(q[y])]
      BY FreshHashIs
    <3> QED
      BY <2>2, <3>1
  <2> QED
    BY <1>6, <1>14, <2>3 DEF a, b, AllHashes
<1>16. ASSUME NEW x \in N  PROVE LinkedAt(q, x)
  <2> DEFINE hash == CalculateParentHash(p, a, x)
             old == p[x]
             new == q[x]
  <2>1. new = WithParentHash(old, hash) /\ x \in Full(h) /\ s \in Block(x)
    BY <1>9, <1>12, <1>16
  <2>2. hash = CalculateParentHash(q, b, x)
    BY <1>6, <1>8, <1>12, <1>13, <1>15, <2>1, ParentHashLocal
  <2> HIDE DEF hash, old, new
  <2>3. new.parentHash = hash
    BY <2>1 DEF WithParentHash
  <2> QED
    BY <2>2, <2>3 DEF LinkedAt, new, b
<1> QED
  BY <1>16 DEF q, N, nodes, s

(***************************************************************************)
(* A member a commit does not remove has its leaf in the new tree, and its *)
(* keys are at nodes above it, its own to hold where they have a key.      *)
(***************************************************************************)
LEMMA LeafStays ==
  ASSUME NEW old, NEW new, NEW e, NEW a, NEW m, NEW place, CommitMade(old, new, e, a, m, place),
         NEW c, c # a, NEW own, LeafAt(old, c, own), own \notin RemovedAt(m.removes)
  PROVE  /\ LeafAt(new, c, own) /\ At(new, own) = At(Proposing(old, m), own)
         /\ m.path # NoPath => own # LeafToNodeIndex(m.sender)
         /\ \A i \in 1 .. Len(m.adds) : place[i] # own
<1> DEFINE s == LeafToNodeIndex(m.sender)
           w == Proposing(old, m)
<1>1. /\ CommitOf(old, e, a, m, new) /\ Changed(old, new, m, place) /\ SoundTree(old, e) /\ SenderOf(old, a, m)
      /\ DOMAIN m.adds = 1 .. Len(m.adds)
  BY DEF CommitMade, CommitOf
<1>2. own \in Nat /\ IsLeaf(own) /\ At(old, own) # Blank /\ At(old, own).client = c
  BY DEF LeafAt
<1>3. PICK h : ForTheTree(old, h, m.updates, m.removes, m.adds)
  BY <1>1 DEF CommitOf
<1>4. At(w, own) # Blank
  <2>1. KeepsLeaves(old, w, m.removes)
    BY <1>1, <1>3, ProposalsPrepare DEF Proposing
  <2> QED
    BY <1>2, <2>1 DEF KeepsLeaves
<1>5. m.path # NoPath => own # s
  <2> SUFFICES ASSUME m.path # NoPath, own = s  PROVE FALSE
    OBVIOUS
  <2>1. CASE m.external
    <3>1. s = FindBlankLeafNodeIndexOrExtend(w)
      BY <1>1, <2>1 DEF CommitOf
    <3>2. Prepared(old, w, Touched(w, m.updates, m.removes, m.adds))
      BY <1>1, <1>3, ProposalsPrepare DEF Proposing
    <3>3. PICK k : IsTreeOf(w, k)
      BY <3>2 DEF Prepared
    <3>4. LeafAdded(w, k, Blank, s, AddLeafNode(w, Blank))
      BY <3>1, <3>3, BlankIsNode, AddLeafNodeIs
    <3> QED
      BY <1>4, <3>4 DEF LeafAdded
  <2>2. CASE ~m.external
    <3>1. LeafAt(old, a, s)
      BY <1>1, <2>2 DEF SenderOf
    <3> QED
      BY <3>1 DEF LeafAt
  <2> QED
    BY <2>1, <2>2
<1>6. At(new, own) = At(w, own)
  BY <1>1, <1>2, <1>5, LeavesOfCommit
<1>7. \A i \in 1 .. Len(m.adds) : place[i] # own
  BY <1>1, <1>2 DEF Changed
<1> DEFINE d == At(new, own).client
<1>8. LeafAt(new, d, own)
  BY <1>2, <1>4, <1>6 DEF LeafAt
<1> HIDE DEF d
<1>9. d = c
  <2>1. IF m.external /\ d = a THEN SenderNode(m, own)
        ELSE LeafAt(old, d, own) \/ (AddedNode(m, place, new, own) /\ \A y : ~LeafAt(old, d, y))
    BY <1>8, LeafOrigin
  <2>2. ~SenderNode(m, own) /\ ~AddedNode(m, place, new, own)
    BY <1>5, <1>7 DEF SenderNode, AddedNode
  <2>3. LeafAt(old, d, own)
    BY <2>1, <2>2
  <2> QED
    BY <1>2, <2>3 DEF LeafAt
<1> QED
  BY <1>5, <1>6, <1>7, <1>8, <1>9

PlacedKeys(t, c, own, keys) ==
  \A q \in DOMAIN keys : q \in Nat /\ own \in Block(q) /\ (At(t, q) # Blank => HolderAt(t, c, q))

LEMMA PlacedTogether ==
  ASSUME NEW t, NEW c, NEW own, NEW f, NEW g, PlacedKeys(t, c, own, f), PlacedKeys(t, c, own, g)
  PROVE  PlacedKeys(t, c, own, f ++ g)
<1>1. DOMAIN (f ++ g) = (DOMAIN f) \union (DOMAIN g)
  BY DEF ++
<1> QED
  BY <1>1 DEF PlacedKeys

LEMMA PlacedAtLeaf ==
  ASSUME NEW t, NEW c, NEW own, LeafAt(t, c, own), NEW K, DOMAIN K = {own}
  PROVE  PlacedKeys(t, c, own, K)
<1>1. own \in Nat /\ own \in Block(own)
  BY NodeBasics DEF LeafAt
<1> QED
  BY <1>1 DEF PlacedKeys, HolderAt

\* The nodes of the path above a leaf, and of the rest of the way to the root.
LEMMA PlacedOnRoute ==
  ASSUME NEW t, NEW l \in Nat, NEW a, NEW e, HasPath(t, l, a, e),
         NEW c, NEW own, LeafAt(t, c, own), NEW w, w # 0, MeetsAt(PathOf(t, l), own, w),
         NEW K, RouteKeys(K, PathOf(t, l), w, e, LeafToNodeIndex(l))
  PROVE  PlacedKeys(t, c, own, K)
<1> DEFINE P == PathOf(t, l)
           s == LeafToNodeIndex(l)
<1>1. w \in DOMAIN P /\ own \in Block(P[w])
  <2>1. w \in DOMAIN P /\ \A i \in DOMAIN P : own \in Block(P[i]) <=> i >= w
    BY DEF MeetsAt
  <2>2. DOMAIN P \subseteq Nat
    BY DEF HasPath, Ascending
  <2> QED
    BY <2>1, <2>2
<1>2. P[w] \in Nat
  <2>1. PICK h : IsTreeOf(t, h) /\ Ascending(h, s, P)
    BY DEF HasPath
  <2> QED
    BY <1>1, <2>1, TreeShape DEF Ascending
<1> HIDE DEF P, s
<1>3. ASSUME NEW q \in DOMAIN K
      PROVE  q \in Nat /\ own \in Block(q) /\ (At(t, q) # Blank => HolderAt(t, c, q))
  <2>1. q \in Nat /\ s \in Block(q) /\ q # s /\ P[w] \in Block(q)
    BY DEF RouteKeys, P, s
  <2>2. own \in Block(q)
    BY <1>1, <1>2, <2>1, BlocksNest
  <2>3. ASSUME At(t, q) # Blank  PROVE HolderAt(t, c, q)
    <3>1. PICK i \in DOMAIN P : P[i] = q
      BY <2>1, <2>3 DEF HasPath, P, s
    <3> QED
      BY <2>2, <3>1, BelowThePath DEF P
  <2> QED
    BY <2>1, <2>2, <2>3
<1> QED
  BY <1>3 DEF PlacedKeys

LEMMA PlacedOnOwnPath ==
  ASSUME NEW t, NEW l \in Nat, NEW c, NEW e, HasPath(t, l, c, e),
         NEW K, OwnPath(K, LeafToNodeIndex(l), PathOf(t, l), e)
  PROVE  PlacedKeys(t, c, LeafToNodeIndex(l), K)
<1> DEFINE P == PathOf(t, l)
           s == LeafToNodeIndex(l)
<1>1. PICK h : IsTreeOf(t, h) /\ s \in Full(h) /\ Ascending(h, s, P)
  BY DEF HasPath
<1>2. LeafAt(t, c, s)
  BY LeafNumbers DEF HasPath, LeafAt
<1>3. s \in Nat /\ s \in Block(s)
  BY <1>2, NodeBasics DEF LeafAt
<1> HIDE DEF P, s
<1>4. \A q \in DOMAIN K : q = s \/ \E i \in DOMAIN P : q = P[i]
  BY DEF OwnPath, P, s
<1>5. \A i \in DOMAIN P : P[i] \in Nat /\ s \in Block(P[i])
  BY <1>1, TreeShape DEF Ascending
<1>6. \A i \in DOMAIN P : HolderAt(t, c, P[i])
  BY <1>2, <1>5, BelowThePath DEF P
<1>7. HolderAt(t, c, s)
  BY <1>2, <1>3 DEF HolderAt
<1>8. PlacedKeys(t, c, s, K)
  BY <1>3, <1>4, <1>5, <1>6, <1>7 DEF PlacedKeys
<1> QED
  BY <1>8 DEF s

\* Keys stay in their places.
LEMMA PlacedStay ==
  ASSUME NEW old, NEW new, NEW e, NEW a, NEW m, NEW place, CommitMade(old, new, e, a, m, place), m.epoch = e,
         NEW c, NEW own, LeafAt(new, c, own), NEW keys, PlacedKeys(old, c, own, keys)
  PROVE  PlacedKeys(new, c, own, keys)
<1>1. own \in Nat /\ IsLeaf(own) /\ own \in Block(own)
  BY NodeBasics DEF LeafAt
<1>2. ASSUME NEW q \in DOMAIN keys, At(new, q) # Blank
      PROVE  HolderAt(new, c, q)
  <2>1. q \in Nat /\ own \in Block(q) /\ (At(old, q) # Blank => HolderAt(old, c, q))
    BY DEF PlacedKeys
  <2>2. CASE IsLeaf(q)
    <3>1. q = own
      BY <2>1, <2>2, NodeBasics
    <3> QED
      BY <1>1, <3>1 DEF HolderAt
  <2>3. CASE PathNode(m, new, q)
    <3>1. PICK i \in DOMAIN PathOf(new, m.sender) : q = PathOf(new, m.sender)[i]
      BY <2>3 DEF PathNode
    <3>2. HasPath(new, m.sender, a, e) /\ m.sender \in Nat
      BY <2>3, PathOfCommit DEF PathNode, CommitMade, CommitOf
    <3> QED
      BY <2>1, <3>1, <3>2, BelowThePath
  <2>4. CASE KeptNode(old, new, m, place, q)
    <3>1. HolderAt(old, c, q)
      BY <2>1, <2>4 DEF KeptNode
    <3> QED
      BY <2>1, <2>4, <3>1, HoldersKept
  <2>5. CASE ~IsLeaf(q) /\ ~PathNode(m, new, q) /\ ~KeptNode(old, new, m, place, q)
    <3>1. AddedNode(m, place, new, q) \/ UpdatedNode(m, new, q) \/ SenderNode(m, q)
      BY <1>2, <2>1, <2>5, OriginOfNode
    <3>2. \E d : LeafAt(new, d, q)
      BY <2>1, <3>1, NodesOfCommit
    <3> QED
      BY <2>5, <3>2 DEF LeafAt
  <2> QED
    BY <2>2, <2>3, <2>4, <2>5
<1> QED
  BY <1>2 DEF PlacedKeys

\* No key of the path is one that was there before it.
LEMMA ProposedKeysAreOld ==
  ASSUME NEW old, NEW new, NEW e, NEW a, NEW m, NEW place, CommitMade(old, new, e, a, m, place),
         NEW x \in Nat, At(Proposing(old, m), x) # Blank, NEW i
  PROVE  At(Proposing(old, m), x).key # PathKey(e, i)
<1> DEFINE w == Proposing(old, m)
<1>1. /\ CommitOf(old, e, a, m, new) /\ SoundTree(old, e) /\ UpdatesOf(old, e, m.updates) /\ AddsOf(old, e, m.adds)
  BY DEF CommitMade
<1>2. PICK h : ForTheTree(old, h, m.updates, m.removes, m.adds)
  BY <1>1 DEF CommitOf
<1>3. PICK at : Mutated(old, w, m.updates, m.removes, m.adds, at)
  BY <1>2, MutationIs DEF Proposing
<1> HIDE DEF w
<1>4. CASE \E j \in 1 .. Len(m.adds) : at[j] = x
  <2>1. PICK j \in 1 .. Len(m.adds) : at[j] = x
    BY <1>4
  <2>2. At(w, x) = m.adds[j]
    BY <1>3, <2>1 DEF Mutated
  <2>3. PICK d : m.adds[j] = LeafNode(PackageKey(e, d), d)
    BY <1>1 DEF AddsOf
  <2>4. At(w, x).key = PackageKey(e, d)
    BY <2>2, <2>3, LeafNodeIs
  <2> QED
    BY <2>4, NodeKeys DEF w
<1>5. CASE x \in UpdatedAt(m.updates)
  <2>1. PICK u \in m.updates : At(w, x) = u.leafNode
    BY <1>3, <1>5 DEF Mutated
  <2>2. PICK d : u.leafNode = LeafNode(UpdateKey(e, d), d)
    BY <1>1 DEF UpdatesOf
  <2>3. At(w, x).key = UpdateKey(e, d)
    BY <2>1, <2>2, LeafNodeIs
  <2> QED
    BY <2>3, NodeKeys DEF w
<1>6. CASE x \notin UpdatedAt(m.updates) /\ \A j \in 1 .. Len(m.adds) : at[j] # x
  <2>1. \A n \in UpdatedAt(m.updates) \union RemovedAt(m.removes) : n \notin Block(x)
    BY <1>3, <1>6 DEF Mutated, w
  <2>2. IF At(old, x) = Blank THEN At(w, x) = Blank
        ELSE Unmerging(At(old, x), At(w, x), LeavesBelow(at, Len(m.adds), x))
    BY <1>3, <1>6, <2>1 DEF Mutated
  <2>3. At(old, x) # Blank /\ At(w, x).key = At(old, x).key
    BY <2>2 DEF Unmerging, w
  <2>4. At(old, x).key[2] \in Nat /\ At(old, x).key[2] < e
    BY <1>1, <2>3 DEF SoundTree
  <2>5. PathKey(e, i)[2] = e
    BY KeysAreNotEmpty
  <2>6. e \in Nat
    BY DEF CommitMade
  <2> QED
    BY <2>3, <2>4, <2>5, <2>6 DEF w
<1> QED
  BY <1>4, <1>5, <1>6

LEMMA FollowedParentsAreOld ==
  ASSUME NEW old, NEW new, NEW e, NEW a, NEW m, NEW place, CommitMade(old, new, e, a, m, place), m.path # NoPath,
         NEW x \in Nat, ~IsLeaf(x), At(FollowedTree(old, m), x) # Blank, NEW i
  PROVE  At(FollowedTree(old, m), x).key # PathKey(e, i)
<1> DEFINE w == Proposing(old, m)
           u == FollowedTree(old, m)
           s == LeafToNodeIndex(m.sender)
<1>1. CommitOf(old, e, a, m, new)
  BY DEF CommitMade
<1>2. CASE ~m.external
  BY <1>2, ProposedKeysAreOld DEF FollowedTree
<1>3. CASE m.external
  <2>1. s = FindBlankLeafNodeIndexOrExtend(w) /\ u = AddLeafNode(w, m.path.leafNode)
    BY <1>1, <1>3 DEF CommitOf, FollowedTree
  <2>2. PICK g : ForTheTree(old, g, m.updates, m.removes, m.adds)
    BY <1>1 DEF CommitOf
  <2>3. DOMAIN m.adds = 1 .. Len(m.adds) /\ m.sender \in Nat
    BY <1>1 DEF CommitOf
  <2>4. Prepared(old, w, Touched(w, m.updates, m.removes, m.adds))
    BY <2>2, <2>3, ProposalsPrepare DEF Proposing
  <2>5. PICK k : IsTreeOf(w, k)
    BY <2>4 DEF Prepared
  <2>6. IsNode(m.path.leafNode)
    <3>1. PICK k2 : FollowsPath(u, new, m.sender, k2)
      BY <1>1, FollowedPathIs
    <3>2. m.path.leafNode = new[s]
      BY <1>1 DEF CommitOf
    <3> QED
      BY <3>1, <3>2, TreeShape DEF FollowsPath
  <2> HIDE DEF w, u, s
  <2>7. LeafAdded(w, k, m.path.leafNode, s, u)
    BY <2>1, <2>5, <2>6, AddLeafNodeIs
  <2>8. IsLeaf(s) /\ x # s
    BY <2>7 DEF LeafAdded
  <2>9. At(u, x) = IF s \in Block(x) /\ At(w, x) # Blank THEN WithUnmerged(At(w, x), s) ELSE At(w, x)
    BY <2>7, <2>8 DEF LeafAdded
  <2>10. At(w, x) # Blank
    BY <2>9 DEF u
  <2>11. IsNode(At(w, x)) /\ s \in Nat
    BY <2>5, <2>7, <2>10, TreeShape, BlankIsNode DEF At, LeafAdded
  <2>12. At(u, x).key = At(w, x).key
    BY <2>8, <2>9, <2>10, <2>11, WithUnmergedIs
  <2> QED
    BY <2>10, <2>12, ProposedKeysAreOld DEF u, w
<1> QED
  BY <1>2, <1>3

(***************************************************************************)
(* A follower finds its ciphertext.                                        *)
(***************************************************************************)
RightKey(t, keys, r) == r \in Nat /\ keys[r] = At(t, r).key

\* The key a follower has at a node off the sender's path is that of the node.
LEMMA HeldKeyIsRight ==
  ASSUME NEW old, NEW new, NEW e, NEW a, NEW m, NEW place, CommitMade(old, new, e, a, m, place), m.epoch = e,
         m.path # NoPath, NEW c, c # a, NEW own, NEW keys, KeysFit(old, c, own, e, keys),
         PlacedKeys(old, c, own, keys), own \notin RemovedAt(m.removes),
         NEW kw, kw = WithUpdateKey(m, c, own, keys),
         NEW r, r \in DOMAIN kw, LeafToNodeIndex(m.sender) \notin Block(r), At(new, r) # Blank \/ IsLeaf(r)
  PROVE  RightKey(new, kw, r)
<1> DEFINE s == LeafToNodeIndex(m.sender)
           updated == UpdateKey(m.epoch, c) \in {u.leafNode.key : u \in m.updates}
<1>1. LeafAt(old, c, own) /\ Complete(old, c, keys) /\ UpdatesOf(old, e, m.updates) /\ SoundTree(old, e)
  BY DEF KeysFit, CommitMade
<1>2. LeafAt(new, c, own) /\ \A i \in 1 .. Len(m.adds) : place[i] # own
  BY <1>1, LeafStays
<1>3. own \in Nat /\ IsLeaf(own) /\ own \in Block(own) /\ At(new, own) # Blank /\ At(old, own) # Blank
  BY <1>1, <1>2, NodeBasics DEF LeafAt
<1>4. DOMAIN kw \subseteq (DOMAIN keys) \union {own}
  BY DEF WithUpdateKey, ++
<1>5. r \in Nat /\ own \in Block(r)
  BY <1>3, <1>4 DEF PlacedKeys
<1>6. IsLeaf(r) => r = own
  BY <1>5, NodeBasics
<1>7. At(new, r) # Blank
  BY <1>3, <1>6
<1>8. updated => own \in UpdatedAt(m.updates)
  <2> SUFFICES ASSUME updated  PROVE own \in UpdatedAt(m.updates)
    OBVIOUS
  <2>1. PICK u \in m.updates : u.leafNode.key = UpdateKey(m.epoch, c)
    OBVIOUS
  <2>2. PICK d : u.leafNode = LeafNode(UpdateKey(e, d), d) /\ LeafAt(old, d, LeafToNodeIndex(u.leafIndex))
    BY <1>1 DEF UpdatesOf
  <2>3. d = c
    <3>1. UpdateKey(e, d) = UpdateKey(e, c)
      BY <2>1, <2>2, LeafNodeIs
    <3> QED
      BY <3>1, NodeKeys
  <2>4. LeafToNodeIndex(u.leafIndex) = own
    BY <1>1, <2>2, <2>3 DEF SoundTree
  <2> QED
    BY <2>4 DEF UpdatedAt
<1>9. CASE UpdatedNode(m, new, r)
  <2>1. PICK u \in m.updates : r = LeafToNodeIndex(u.leafIndex) /\ At(new, r) = u.leafNode
    BY <1>9 DEF UpdatedNode
  <2>2. PICK d : u.leafNode = LeafNode(UpdateKey(e, d), d) /\ LeafAt(old, d, r)
    BY <1>1, <2>1 DEF UpdatesOf
  <2>3. r = own /\ d = c
    BY <1>1, <1>6, <2>2 DEF LeafAt
  <2>4. At(new, own).key = UpdateKey(e, c) /\ updated
    BY <2>1, <2>2, <2>3, LeafNodeIs
  <2>5. kw[own] = UpdateKey(e, c)
    BY <2>4 DEF WithUpdateKey, ++
  <2> QED
    BY <1>5, <2>3, <2>4, <2>5 DEF RightKey
<1>10. CASE KeptNode(old, new, m, place, r)
  <2>1. At(old, r) # Blank /\ At(new, r).key = At(old, r).key /\ Spared(m, r)
    BY <1>10 DEF KeptNode, Unmerging
  <2>2. HolderAt(old, c, r)
    <3>1. CASE r = own
      BY <1>1, <1>3, <3>1 DEF HolderAt
    <3>2. CASE r # own
      BY <1>4, <2>1, <3>2 DEF PlacedKeys
    <3> QED
      BY <3>1, <3>2
  <2>3. r \in DOMAIN keys /\ keys[r] = At(old, r).key
    BY <1>1, <1>5, <2>1, <2>2 DEF Complete
  <2>4. updated => r # own
    BY <1>3, <1>8, <2>1 DEF Spared, Renewed
  <2>5. kw[r] = keys[r]
    BY <2>3, <2>4 DEF WithUpdateKey, ++
  <2> QED
    BY <1>5, <2>1, <2>3, <2>5 DEF RightKey
<1>11. ~AddedNode(m, place, new, r)
  <2> SUFFICES ASSUME AddedNode(m, place, new, r)  PROVE FALSE
    OBVIOUS
  <2>1. PICK i \in 1 .. Len(m.adds) : r = place[i]
    BY DEF AddedNode
  <2>2. IsLeaf(r)
    BY <2>1 DEF CommitMade, Changed
  <2> QED
    BY <1>2, <1>6, <2>1, <2>2
<1>12. ~SenderNode(m, r) /\ ~PathNode(m, new, r)
  <2>1. r # s
    BY <1>5, NodeBasics
  <2>2. ASSUME PathNode(m, new, r)  PROVE FALSE
    <3>1. PICK i \in DOMAIN PathOf(new, m.sender) : r = PathOf(new, m.sender)[i]
      BY <2>2 DEF PathNode
    <3>2. HasPath(new, m.sender, a, e)
      BY PathOfCommit DEF CommitMade
    <3> QED
      BY <3>1, <3>2 DEF HasPath, Ascending
  <2> QED
    BY <2>1, <2>2 DEF SenderNode
<1> QED
  BY <1>5, <1>7, <1>9, <1>10, <1>11, <1>12, OriginOfNode DEF RightKey

\* A follower has the key of a node that reaches its leaf.
LEMMA HeldKeyIsThere ==
  ASSUME NEW old, NEW new, NEW e, NEW a, NEW m, NEW place, CommitMade(old, new, e, a, m, place), m.epoch = e,
         m.path # NoPath, NEW c, c # a, NEW own, NEW keys, KeysFit(old, c, own, e, keys),
         own \notin RemovedAt(m.removes), NEW kw, kw = WithUpdateKey(m, c, own, keys),
         NEW r \in Nat, LeafToNodeIndex(m.sender) \notin Block(r), Reaches(new, r, own)
  PROVE  r \in DOMAIN kw
<1>1. LeafAt(old, c, own) /\ Complete(old, c, keys)
  BY DEF KeysFit
<1>2. LeafAt(new, c, own)
  BY <1>1, LeafStays
<1>3. (DOMAIN keys) \subseteq DOMAIN kw
  BY DEF WithUpdateKey, ++
<1>4. own \in DOMAIN keys
  <2>1. own \in Nat /\ At(old, own) # Blank /\ own \in Block(own)
    BY <1>1, NodeBasics DEF LeafAt
  <2>2. HolderAt(old, c, own)
    BY <1>1, <2>1 DEF HolderAt
  <2> QED
    BY <1>1, <2>1, <2>2 DEF Complete
<1>5. own \in Block(r) /\ At(new, r) # Blank /\ HolderAt(new, c, r)
  BY <1>2 DEF Reaches, HolderAt
<1>6. IsLeaf(r) => r = own
  BY <1>5, NodeBasics
<1>7. CASE ~IsLeaf(r)
  <2>1. ~AddedNode(m, place, new, r) /\ ~UpdatedNode(m, new, r) /\ ~SenderNode(m, r)
    <3>1. AddedNode(m, place, new, r) \/ UpdatedNode(m, new, r) \/ SenderNode(m, r) => \E d : LeafAt(new, d, r)
      BY NodesOfCommit
    <3> QED
      BY <1>7, <3>1 DEF LeafAt
  <2>2. ~PathNode(m, new, r)
    <3> SUFFICES ASSUME PathNode(m, new, r)  PROVE FALSE
      OBVIOUS
    <3>1. PICK i \in DOMAIN PathOf(new, m.sender) : r = PathOf(new, m.sender)[i]
      BY DEF PathNode
    <3>2. HasPath(new, m.sender, a, e)
      BY PathOfCommit DEF CommitMade
    <3> QED
      BY <3>1, <3>2 DEF HasPath, Ascending
  <2>3. KeptNode(old, new, m, place, r)
    BY <1>5, <2>1, <2>2, OriginOfNode
  <2>4. HolderAt(old, c, r) /\ At(old, r) # Blank
    BY <1>5, <2>3, HoldersKept DEF KeptNode
  <2> QED
    BY <1>1, <1>3, <2>4 DEF Complete
<1> QED
  BY <1>3, <1>4, <1>6, <1>7

LEMMA FollowerDecrypts ==
  ASSUME NEW old, NEW new, NEW e, NEW a, NEW place, CommitMade(old, new, e, a, commit, place), commit.epoch = e,
         commit.path # NoPath, NEW c, c # a, NEW own, NEW keys, KeysFit(old, c, own, e, keys),
         PlacedKeys(old, c, own, keys), own \notin RemovedAt(commit.removes),
         NEW kw, kw = WithUpdateKey(commit, c, own, keys),
         NEW h, IsTreeOf(new, h), SoundTree(new, e + 1),
         NEW k, NEW x, Branches(new, h, commit.sender, own, k, x),
         NEW A, NEW B, AlikeBut(A, B, LeafToNodeIndex(commit.sender)), own \notin B,
         \A y \in B : IsLeaf(y) /\ y \in Nat,
         commit.path.nodes = EncryptSecretsForPath(new, FilteredDirectPath(commit.sender, new), A)
  PROVE  DecryptsPath(FilteredDirectPath(commit.sender, new), kw, k, B)
<1> DEFINE s == LeafToNodeIndex(commit.sender)
           fdp == FilteredDirectPath(commit.sender, new)
           all == fdp[k].resolution
           sendTo == Excluding(all, A)
           resolution == Excluding(all, B)
           held == {i \in DOMAIN resolution : resolution[i] \in DOMAIN kw}
           j == Min(held)
<1>1. /\ k \in DOMAIN fdp /\ x \in Full(h) /\ own \in Block(x) /\ s \notin Block(x) /\ all = Resolution(new)[x]
  BY DEF Branches
<1>2. all \in Seq(Full(h)) /\ Covers(new, x, all)
  BY <1>1, ResolutionFits, ResolutionsCover
<1>3. commit.path.nodes[k].encryptedTo = [i \in DOMAIN sendTo |-> new[sendTo[i]].key]
  <2> DEFINE nodes == commit.path.nodes
  <2>1. nodes = EncryptSecretsForPath(new, fdp, A) /\ k \in DOMAIN fdp
    BY <1>1
  <2> HIDE DEF nodes, fdp
  <2>2. nodes[k].encryptedTo = [i \in DOMAIN sendTo |-> new[sendTo[i]].key]
    BY <2>1 DEF EncryptSecretsForPath
  <2> QED
    BY <2>2 DEF nodes
<1>4. h \in Nat /\ Full(h) \subseteq Nat /\ DOMAIN new = Full(h) /\ x \in Nat
  BY <1>1, TreeShape
<1>5. LeafAt(new, c, own) /\ own \in Nat /\ IsLeaf(own) /\ At(new, own) # Blank
  <2>1. LeafAt(old, c, own)
    BY DEF KeysFit
  <2>2. LeafAt(new, c, own)
    BY <2>1, LeafStays
  <2> QED
    BY <2>2 DEF LeafAt
<1> HIDE DEF s, fdp, all
<1>6. \A i \in DOMAIN all : all[i] \in Full(h) /\ all[i] \in Block(x) /\ (At(new, all[i]) # Blank \/ IsLeaf(all[i]))
  BY <1>2 DEF Covers
<1>7. \A i \in DOMAIN all : s \notin Block(all[i])
  BY <1>1, <1>4, <1>6, BlocksNest
<1>8. sendTo = resolution
  <2>1. \A i \in DOMAIN all : all[i] # s
    BY <1>1, <1>6
  <2> QED
    BY <2>1, ExcludingAlike DEF s
<1>9. /\ DOMAIN resolution \subseteq Nat
      /\ \A n \in DOMAIN resolution : \E i \in DOMAIN all : resolution[n] = all[i]
      /\ \A i \in DOMAIN all : all[i] \notin B => \E n \in DOMAIN resolution : resolution[n] = all[i]
  BY <1>2, ExcludingElements
<1> HIDE DEF resolution, sendTo
<1>10. held # {}
  <2>1. PICK i \in DOMAIN all : Reaches(new, all[i], own)
    BY <1>1, <1>2, <1>5 DEF Covers
  <2>2. all[i] \notin B
    <3>1. own \in Block(all[i])
      BY <2>1 DEF Reaches
    <3> QED
      BY <3>1, NodeBasics
  <2>3. PICK n \in DOMAIN resolution : resolution[n] = all[i]
    BY <1>9, <2>2
  <2>4. all[i] \in Nat /\ s \notin Block(all[i])
    BY <1>4, <1>6, <1>7
  <2>5. all[i] \in DOMAIN kw
    BY <2>1, <2>4, HeldKeyIsThere DEF s
  <2> QED
    BY <2>3, <2>5
<1>11. j \in held
  <2>1. held \subseteq Nat
    BY <1>9
  <2> HIDE DEF held
  <2> QED
    BY <1>10, <2>1, Least
<1>13. ASSUME NEW r \in DOMAIN kw, s \notin Block(r), At(new, r) # Blank \/ IsLeaf(r)
       PROVE  kw[r] = At(new, r).key
  <2> HIDE DEF j, held
  <2>1. LeafToNodeIndex(commit.sender) \notin Block(r)
    BY <1>13 DEF s
  <2>2. CommitMade(old, new, e, a, commit, place) /\ KeysFit(old, c, own, e, keys)
    OBVIOUS
  <2>3. RightKey(new, kw, r)
    BY <1>13, <2>1, <2>2, HeldKeyIsRight
  <2> QED
    BY <2>3 DEF RightKey
<1>12. kw[resolution[j]] = new[resolution[j]].key
  <2>1. j \in DOMAIN resolution /\ resolution[j] \in DOMAIN kw
    BY <1>11
  <2> HIDE DEF j, held
  <2>2. PICK i \in DOMAIN all : resolution[j] = all[i]
    BY <1>9, <2>1
  <2> DEFINE r == resolution[j]
  <2>3. r \in DOMAIN kw /\ s \notin Block(r) /\ (At(new, r) # Blank \/ IsLeaf(r)) /\ r \in Full(h)
    BY <1>6, <1>7, <2>1, <2>2
  <2> HIDE DEF r
  <2>4. kw[r] = At(new, r).key
    BY <1>13, <2>3
  <2>5. At(new, r) = new[r]
    BY <1>4, <2>3 DEF At
  <2> QED
    BY <2>4, <2>5 DEF r
<1>16. j \in DOMAIN resolution
  BY <1>11
<1>14. /\ j \in DOMAIN commit.path.nodes[k].encryptedTo
       /\ commit.path.nodes[k].encryptedTo[j] = new[resolution[j]].key
  <2> HIDE DEF j, held
  <2> QED
    BY <1>3, <1>8, <1>16
<1>15. kw[resolution[j]] = commit.path.nodes[k].encryptedTo[j]
  BY <1>12, <1>14
<1> QED
  BY <1>10, <1>14, <1>15 DEF DecryptsPath, resolution, held, j, all, fdp

\* The nodes of the leaves a path is not sent to.
AddedNodes(t, added) == {LeafToNodeIndex(l) : l \in AddedLeaves(t, added)}

LEMMA AddedNodesAre ==
  ASSUME NEW t, NEW h, IsTreeOf(t, h), NEW added
  PROVE  \A y : y \in AddedNodes(t, added) <=>
                  /\ y \in Nat /\ IsLeaf(y) /\ At(t, y) # Blank
                  /\ \E i \in DOMAIN added : added[i].key = At(t, y).key
<1>1. DOMAIN t = Full(h) /\ Full(h) \subseteq Nat
  BY TreeShape
<1> DEFINE N == {l \in Leaves(t) : \E i \in DOMAIN added : added[i].key = t[l].key}
<1>2. \A y \in N : LeafToNodeIndex(NodeToLeafIndex(y)) = y
  BY <1>1, LeafNodesNumber DEF Leaves, NonBlank
<1>3. AddedNodes(t, added) = N
  BY <1>2 DEF AddedNodes, AddedLeaves
<1>4. \A y : y \in N <=> /\ y \in Nat /\ IsLeaf(y) /\ At(t, y) # Blank
                         /\ \E i \in DOMAIN added : added[i].key = At(t, y).key
  BY <1>1 DEF Leaves, NonBlank, At
<1> QED
  BY <1>3, <1>4

\* Two trees have the same leaves but for s.
SameLeavesBut(t, u, s) ==
  /\ (\E h : IsTreeOf(t, h)) /\ (\E k : IsTreeOf(u, k))
  /\ \A x \in Nat : IsLeaf(x) /\ x # s => At(t, x) = At(u, x)

LEMMA AddedAlike ==
  ASSUME NEW t, NEW u, NEW s, SameLeavesBut(t, u, s), NEW added
  PROVE  AlikeBut(AddedNodes(t, added), AddedNodes(u, added), s)
<1>1. PICK h : IsTreeOf(t, h)
  BY DEF SameLeavesBut
<1>2. PICK k : IsTreeOf(u, k)
  BY DEF SameLeavesBut
<1>3. \A y : y \in AddedNodes(t, added) <=>
               /\ y \in Nat /\ IsLeaf(y) /\ At(t, y) # Blank
               /\ \E i \in DOMAIN added : added[i].key = At(t, y).key
  BY <1>1, AddedNodesAre
<1>4. \A y : y \in AddedNodes(u, added) <=>
               /\ y \in Nat /\ IsLeaf(y) /\ At(u, y) # Blank
               /\ \E i \in DOMAIN added : added[i].key = At(u, y).key
  BY <1>2, AddedNodesAre
<1> QED
  BY <1>3, <1>4 DEF AlikeBut, SameLeavesBut

\* A leaf that was there before has not the key of one the commit adds.
LEMMA OwnIsNotAdded ==
  ASSUME NEW old, NEW new, NEW e, NEW a, NEW m, NEW place, CommitMade(old, new, e, a, m, place), m.path # NoPath,
         NEW c, c # a, NEW own, LeafAt(old, c, own), own \notin RemovedAt(m.removes)
  PROVE  own \notin AddedNodes(Proposing(old, m), m.adds)
<1> DEFINE w == Proposing(old, m)
<1>1. /\ LeafAt(new, c, own) /\ At(new, own) = At(w, own) /\ own # LeafToNodeIndex(m.sender)
      /\ \A i \in 1 .. Len(m.adds) : place[i] # own
  BY LeafStays
<1>2. /\ CommitOf(old, e, a, m, new) /\ AddsOf(old, e, m.adds) /\ DOMAIN m.adds = 1 .. Len(m.adds)
      /\ UpdatesOf(old, e, m.updates) /\ e \in Nat /\ SoundTree(old, e)
  BY DEF CommitMade, CommitOf
<1>3. PICK g : ForTheTree(old, g, m.updates, m.removes, m.adds)
  BY <1>2 DEF CommitOf
<1>4. Prepared(old, w, Touched(w, m.updates, m.removes, m.adds))
  BY <1>2, <1>3, ProposalsPrepare DEF Proposing
<1>5. PICK k : IsTreeOf(w, k)
  BY <1>4 DEF Prepared
<1> HIDE DEF w
<1>6. SUFFICES ASSUME own \in AddedNodes(w, m.adds)  PROVE FALSE
  BY DEF w
<1>7. PICK i \in DOMAIN m.adds : m.adds[i].key = At(w, own).key
  BY <1>5, <1>6, AddedNodesAre
<1>8. PICK d : m.adds[i] = LeafNode(PackageKey(e, d), d)
  BY <1>2 DEF AddsOf
<1>9. At(new, own).key = PackageKey(e, d)
  BY <1>1, <1>7, <1>8, LeafNodeIs
<1>10. own \in Nat /\ At(new, own) # Blank /\ IsLeaf(own)
  BY <1>1 DEF LeafAt
<1>11. ~AddedNode(m, place, new, own) /\ ~SenderNode(m, own)
  BY <1>1 DEF AddedNode, SenderNode
<1>12. ~PathNode(m, new, own)
  <2>1. HasPath(new, m.sender, a, e)
    BY <1>2, PathOfCommit
  <2> QED
    BY <1>10, <2>1 DEF HasPath, Ascending, PathNode
<1>13. ~UpdatedNode(m, new, own)
  <2> SUFFICES ASSUME UpdatedNode(m, new, own)  PROVE FALSE
    OBVIOUS
  <2>1. PICK u \in m.updates : At(new, own) = u.leafNode
    BY DEF UpdatedNode
  <2>2. PICK b : u.leafNode = LeafNode(UpdateKey(e, b), b)
    BY <1>2 DEF UpdatesOf
  <2>3. At(new, own).key = UpdateKey(e, b)
    BY <2>1, <2>2, LeafNodeIs
  <2> QED
    BY <1>9, <2>3 DEF UpdateKey, PackageKey
<1>14. ~KeptNode(old, new, m, place, own)
  <2> SUFFICES ASSUME KeptNode(old, new, m, place, own)  PROVE FALSE
    OBVIOUS
  <2>1. At(new, own).key = At(old, own).key /\ At(old, own) # Blank
    BY DEF KeptNode, Unmerging
  <2>3. At(old, own).key[2] \in Nat /\ At(old, own).key[2] < e
    BY <1>2, <1>10, <2>1 DEF SoundTree
  <2>2. PackageKey(e, d)[2] = e
    BY KeysAreNotEmpty
  <2> QED
    BY <1>2, <1>9, <2>1, <2>2, <2>3
<1> QED
  BY <1>10, <1>11, <1>12, <1>13, <1>14, OriginOfNode

\* What a commit says of the tree of its epoch.
CommitSent(t, m) ==
  /\ m.treeHash = AllHashes(t)[RootOf(t)]
  /\ m.path # NoPath =>
       /\ LinkedAt(t, LeafToNodeIndex(m.sender))
       /\ m.commitSecret = GetCommitSecret(t, FilteredDirectPath(m.sender, t))
       /\ \E A : /\ AlikeBut(A, AddedNodes(t, m.adds), LeafToNodeIndex(m.sender))
                 /\ m.path.nodes = EncryptSecretsForPath(t, FilteredDirectPath(m.sender, t), A)

\* The leaves a follower does not look for a ciphertext at are those the sender left out.
LEMMA FollowerExcludes ==
  ASSUME NEW old, NEW new, NEW e, NEW a, NEW m, NEW place, CommitMade(old, new, e, a, m, place), m.path # NoPath,
         NEW c, c # a, NEW own, LeafAt(old, c, own), own \notin RemovedAt(m.removes),
         NEW A, AlikeBut(A, AddedNodes(new, m.adds), LeafToNodeIndex(m.sender)),
         NEW B, B = IF m.external THEN {FindBlankLeafNodeIndexOrExtend(Proposing(old, m))}
                    ELSE AddedNodes(Proposing(old, m), m.adds)
  PROVE  /\ AlikeBut(A, B, LeafToNodeIndex(m.sender)) /\ own \notin B
         /\ \A y \in B : IsLeaf(y) /\ y \in Nat
<1> DEFINE w == Proposing(old, m)
           s == LeafToNodeIndex(m.sender)
<1>1. CommitOf(old, e, a, m, new) /\ m.sender \in Nat /\ DOMAIN m.adds = 1 .. Len(m.adds)
  BY DEF CommitMade, CommitOf
<1>2. own # s
  BY LeafStays
<1>3. s \in Nat /\ IsLeaf(s)
  BY <1>1, LeafNumbers
<1>4. (\E k : IsTreeOf(new, k)) /\ \A x \in Nat : IsLeaf(x) /\ x # s => At(new, x) = At(w, x)
  BY <1>1, LeavesOfCommit
<1>5. PICK g : ForTheTree(old, g, m.updates, m.removes, m.adds)
  BY <1>1 DEF CommitOf
<1>6. Prepared(old, w, Touched(w, m.updates, m.removes, m.adds))
  BY <1>1, <1>5, ProposalsPrepare DEF Proposing
<1>7. PICK h : IsTreeOf(w, h)
  BY <1>6 DEF Prepared
<1> HIDE DEF w, s
<1>8. CASE m.external
  <2>1. m.adds = <<>> /\ s = FindBlankLeafNodeIndexOrExtend(w)
    BY <1>1, <1>8 DEF CommitOf, w, s
  <2>2. B = {s}
    BY <1>8, <2>1 DEF w
  <2>3. PICK k : IsTreeOf(new, k)
    BY <1>4
  <2>4. AddedNodes(new, m.adds) = {}
    BY <2>1, <2>3, AddedNodesAre
  <2>5. AlikeBut(A, B, s)
    BY <2>2, <2>4 DEF AlikeBut, s
  <2> QED
    BY <1>2, <1>3, <2>2, <2>5 DEF s
<1>9. CASE ~m.external
  <2>1. B = AddedNodes(w, m.adds)
    BY <1>9 DEF w
  <2>2. SameLeavesBut(new, w, s)
    BY <1>4, <1>7 DEF SameLeavesBut
  <2>3. AlikeBut(AddedNodes(new, m.adds), AddedNodes(w, m.adds), s)
    BY <2>2, AddedAlike
  <2>4. AlikeBut(A, B, s)
    BY <2>1, <2>3 DEF AlikeBut, s
  <2>5. own \notin B
    BY <2>1, OwnIsNotAdded DEF w
  <2>6. \A y \in B : IsLeaf(y) /\ y \in Nat
    BY <1>7, <2>1, AddedNodesAre
  <2> QED
    BY <2>4, <2>5, <2>6 DEF s
<1> QED
  BY <1>8, <1>9

\* Where a follower's leaf meets the path of the commit, its ciphertext is found.
FindsCiphertext(c) ==
  /\ Match(c) # 0
  /\ DecryptsPath(FollowedPath(c), KeysWithUpdate(c), Match(c), NotEncryptedTo(c))

Follower(c) ==
  /\ Following(c) /\ PlacedKeys(state[c].ratchetTree, c, OwnLeaf(c), state[c].privateKeys)
  /\ CommitSent(groupInfo.ratchetTree, commit)

LEMMA OwnIsNotRemoved ==
  ASSUME NEW l \in Nat, NEW R, R \subseteq Nat, l \notin R
  PROVE  LeafToNodeIndex(l) \notin RemovedAt(R)
<1> SUFFICES ASSUME NEW r \in R, LeafToNodeIndex(r) = LeafToNodeIndex(l)  PROVE FALSE
  BY DEF RemovedAt
<1>1. r = l
  BY DEF LeafToNodeIndex
<1> QED
  BY <1>1

\* The commit as a follower sees it.
Seen(c, a, place) ==
  /\ a # c /\ CommitMade(state[c].ratchetTree, groupInfo.ratchetTree, commit.epoch, a, commit, place)
  /\ KeysFit(state[c].ratchetTree, c, OwnLeaf(c), commit.epoch, state[c].privateKeys)
  /\ LeafAt(state[c].ratchetTree, c, OwnLeaf(c)) /\ OwnLeaf(c) \notin RemovedAt(commit.removes)

LEMMA FollowerSees ==
  ASSUME KeysInv, NEW c \in Client, Following(c)
  PROVE  \E a, place : Seen(c, a, place)
<1> DEFINE old == state[c].ratchetTree
           new == groupInfo.ratchetTree
<1>1. state[c].kind = "member" /\ state[c].epoch = commit.epoch /\ state[c].leafIndex \notin commit.removes
  BY DEF Following
<1>2. HasKeys(c, state[c], new, commit) /\ state[c].leafIndex \in Nat
  BY <1>1 DEF KeysInv, TreesInv, HasTree
<1>3. PICK a, place : a # c /\ CommitMade(old, new, commit.epoch, a, commit, place)
                      /\ KeysFit(old, c, OwnLeaf(c), commit.epoch, state[c].privateKeys)
  BY <1>1, <1>2 DEF HasKeys, OwnLeaf
<1>4. LeafAt(old, c, OwnLeaf(c))
  BY <1>3 DEF KeysFit
<1>5. commit.removes \subseteq Nat
  BY <1>3 DEF CommitMade, CommitOf, ForTheTree
<1>6. OwnLeaf(c) \notin RemovedAt(commit.removes)
  BY <1>1, <1>2, <1>5, OwnIsNotRemoved DEF OwnLeaf
<1>7. Seen(c, a, place)
  BY <1>3, <1>4, <1>6 DEF Seen
<1> QED
  BY <1>7

LEMMA FollowerFindsCiphertext ==
  ASSUME KeysInv, NEW c \in Client, Follower(c), commit.path # NoPath
  PROVE  FindsCiphertext(c)
<1> DEFINE old == state[c].ratchetTree
           new == groupInfo.ratchetTree
           own == OwnLeaf(c)
           keys == state[c].privateKeys
           kw == WithUpdateKey(commit, c, own, keys)
           e == commit.epoch
           q == state[c].leafIndex
           s == LeafToNodeIndex(commit.sender)
           fdp == FilteredDirectPath(commit.sender, new)
           B == NotEncryptedTo(c)
<1>1. PICK a, place : Seen(c, a, place)
  BY FollowerSees DEF Follower
<1>2. /\ a # c /\ CommitMade(old, new, e, a, commit, place) /\ KeysFit(old, c, own, e, keys)
      /\ LeafAt(old, c, own) /\ own \notin RemovedAt(commit.removes) /\ PlacedKeys(old, c, own, keys)
  BY <1>1 DEF Seen, Follower
<1>3. q \in Nat /\ own = LeafToNodeIndex(q) /\ e \in Nat
  BY DEF Follower, Following, KeysInv, TreesInv, HasTree, OwnLeaf
<1>4. CommitOf(old, e, a, commit, new) /\ commit.sender \in Nat
  BY <1>2 DEF CommitMade, CommitOf
<1>5. PICK k : FollowsPath(FollowedTree(old, commit), new, commit.sender, k)
  BY <1>4, FollowedPathIs
<1> DEFINE u == FollowedTree(old, commit)
<1>6. /\ IsTreeOf(u, k) /\ IsTreeOf(new, k) /\ s \in Full(k) /\ FollowedPath(c) = fdp
  BY <1>5 DEF FollowsPath, FollowedPath
<1>7. SoundTree(new, e + 1)
  BY DEF KeysInv, KeyedTree
<1>8. LeafAt(new, c, own) /\ own # s
  BY <1>2, LeafStays
<1>9. own \in Full(k) /\ IsLeaf(own) /\ At(new, own) # Blank
  BY <1>6, <1>8, TreeShape DEF LeafAt, At
<1>10. PICK n, x : Branches(new, k, commit.sender, own, n, x)
  BY <1>4, <1>6, <1>7, <1>8, <1>9, EveryLeafMeetsThePath
<1>11. n \in DOMAIN fdp /\ MeetsAt(PathOf(new, commit.sender), own, n)
  BY <1>10 DEF Branches
<1>12. Match(c) = FirstMatch(u, fdp, q)
  BY <1>6 DEF Match
<1>13. Ascending(k, s, NodesOf(fdp)) /\ NodesOf(fdp) = PathOf(new, commit.sender)
  BY <1>4, <1>6, FilteredPathIs DEF PathOf
<1> HIDE DEF fdp, u, q, s
<1>14. MeetsAt(NodesOf(fdp), own, Match(c))
  BY <1>3, <1>6, <1>9, <1>12, <1>13, FirstMatchIs
<1>15. n \in Nat \ {0} /\ DOMAIN NodesOf(fdp) \subseteq Nat
  <2>1. DOMAIN NodesOf(fdp) = DOMAIN fdp
    BY DEF NodesOf
  <2> QED
    BY <1>11, <1>13, <2>1 DEF Ascending
<1>16. Match(c) = n
  BY <1>11, <1>13, <1>14, <1>15, MeetsOnce
<1>17. KeysWithUpdate(c) = kw
  BY DEF KeysWithUpdate, WithUpdateKey, OwnLeaf
<1>18. PICK A : AlikeBut(A, AddedNodes(new, commit.adds), s) /\ commit.path.nodes = EncryptSecretsForPath(new, fdp, A)
  BY DEF Follower, CommitSent, s, fdp
<1>19. B = IF commit.external THEN {FindBlankLeafNodeIndexOrExtend(Proposing(old, commit))}
           ELSE AddedNodes(Proposing(old, commit), commit.adds)
  BY DEF NotEncryptedTo, Proposed, Proposing, AddedNodes
<1> HIDE DEF kw, own, keys, old, new, e, B
<1>20. AlikeBut(A, B, s) /\ own \notin B /\ \A y \in B : IsLeaf(y) /\ y \in Nat
  BY <1>2, <1>18, <1>19, FollowerExcludes DEF s
<1>21. commit.epoch = e
  BY DEF e
<1>22. DecryptsPath(FilteredDirectPath(commit.sender, new), kw, n, B)
  <2>1. kw = WithUpdateKey(commit, c, own, keys)
    BY DEF kw
  <2>2. commit.path.nodes = EncryptSecretsForPath(new, FilteredDirectPath(commit.sender, new), A)
    BY <1>18 DEF fdp
  <2>3. AlikeBut(A, B, LeafToNodeIndex(commit.sender))
    BY <1>20 DEF s
  <2> QED
    BY <1>2, <1>6, <1>7, <1>10, <1>20, <1>21, <2>1, <2>2, <2>3, FollowerDecrypts
<1> QED
  BY <1>6, <1>15, <1>16, <1>17, <1>22 DEF FindsCiphertext, fdp, B, new

LEMMA LengthOfFunction ==
  ASSUME NEW n \in Nat, NEW f, f = [i \in 1 .. n |-> f[i]]
  PROVE  Len(f) = n
<1> DEFINE S == {f[i] : i \in 1 .. n}
<1>1. f \in [1 .. n -> S]
  OBVIOUS
<1> HIDE DEF S
<1> QED
  BY <1>1, FunctionIsSequence

LEMMA FilteredPathLength ==
  ASSUME NEW t, NEW h, IsTreeOf(t, h), NEW l \in Nat, LeafToNodeIndex(l) \in Full(h)
  PROVE  /\ Len(FilteredDirectPath(l, t)) \in Nat
         /\ DOMAIN FilteredDirectPath(l, t) = 1 .. Len(FilteredDirectPath(l, t))
         /\ Len(PathOf(t, l)) = Len(FilteredDirectPath(l, t)) /\ DOMAIN PathOf(t, l) = DOMAIN FilteredDirectPath(l, t)
<1> DEFINE fdp == FilteredDirectPath(l, t)
           n == Len(PathOf(t, l))
<1>1. n \in Nat /\ DOMAIN PathOf(t, l) = 1 .. n /\ PathOf(t, l) = NodesOf(fdp)
  BY FilteredPathIs DEF PathOf, Ascending
<1>2. DOMAIN NodesOf(fdp) = DOMAIN fdp
  BY DEF NodesOf
<1>3. fdp = [i \in DOMAIN fdp |-> fdp[i]]
  BY DEF FilteredDirectPath, AtPositions
<1> HIDE DEF fdp, n
<1>4. Len(fdp) = n
  BY <1>1, <1>2, <1>3, LengthOfFunction
<1> QED
  BY <1>1, <1>2, <1>4 DEF fdp, n

\* The secret a follower derives last is the one the sender does.
LEMMA SameCommitSecret ==
  ASSUME NEW t, NEW l \in Nat, NEW a, NEW e, HasPath(t, l, a, e), NEW w \in DOMAIN PathOf(t, l)
  PROVE  w + Len(PathToRoot(t, FilteredDirectPath(l, t)[w].nodeIndex)) = GetCommitSecret(t, FilteredDirectPath(l, t))
<1> DEFINE fdp == FilteredDirectPath(l, t)
           P == PathOf(t, l)
           n == Len(P)
           extra == IF P[n] = RootOf(t) THEN 1 ELSE 2
<1>1. PICK h : IsTreeOf(t, h) /\ LeafToNodeIndex(l) \in Full(h)
  BY DEF HasPath
<1>2. Len(fdp) = n /\ n \in Nat /\ DOMAIN fdp = 1 .. n /\ DOMAIN P = 1 .. n
  BY <1>1, FilteredPathLength
<1>3. \A i \in DOMAIN fdp : P[i] = fdp[i].nodeIndex
  BY DEF PathOf, NodesOf
<1>4. n \in DOMAIN P /\ w \in Nat /\ fdp # <<>>
  BY <1>2
<1>5. Len(PathToRoot(t, P[w])) = n - w + extra
  BY RouteLength
<1>6. Len(PathToRoot(t, P[n])) = n - n + extra
  BY <1>4, RouteLength
<1>7. GetCommitSecret(t, fdp) = n + Len(PathToRoot(t, fdp[n].nodeIndex))
  BY <1>2, <1>4 DEF GetCommitSecret
<1>8. fdp[w].nodeIndex = P[w] /\ fdp[n].nodeIndex = P[n]
  BY <1>2, <1>3, <1>4
<1>9. extra \in Nat
  OBVIOUS
<1> HIDE DEF fdp, P, n, extra
<1>10. w + Len(PathToRoot(t, fdp[w].nodeIndex)) = GetCommitSecret(t, fdp)
  <2>1. w + (n - w + extra) = n + (n - n + extra)
    BY <1>2, <1>4, <1>9
  <2> QED
    BY <1>5, <1>6, <1>7, <1>8, <2>1
<1> QED
  BY <1>10 DEF fdp

(***************************************************************************)
(* Nothing a follower checks fails.                                        *)
(***************************************************************************)
LEMMA FollowerProcesses ==
  ASSUME KeysInv, NEW c \in Client, Follower(c)
  PROVE  Processed(c) # {}
<1> DEFINE old == state[c].ratchetTree
           u == FollowedTree(old, commit)
           d == DeriveTreeHashCache(u, state[c].treeHashCache, TouchedLeaves(u, commit))
           new == groupInfo.ratchetTree
           kw == KeysWithUpdate(c)
           fdp == FollowedPath(c)
           match == Match(c)
           leaf == state[c].leafIndex
           excluded == NotEncryptedTo(c)
           own == OwnLeaf(c)
           e == commit.epoch
           s == LeafToNodeIndex(commit.sender)
<1>1. PICK a, place : Seen(c, a, place)
  BY FollowerSees DEF Follower
<1>2. /\ a # c /\ CommitMade(old, new, e, a, commit, place) /\ KeysFit(old, c, own, e, state[c].privateKeys)
      /\ LeafAt(old, c, own) /\ own \notin RemovedAt(commit.removes)
  BY <1>1 DEF Seen
<1>3. CommitOf(old, e, a, commit, new) /\ commit.sender \in Nat
  BY <1>2 DEF CommitMade, CommitOf
<1>4. Coherent(old, state[c].treeHashCache)
  BY DEF TreesInv, HasTree, KeysInv, Follower, Following
<1>5. PICK k : Follows(u, k, d, commit, new)
  BY <1>3, <1>4, CommitCanBeFollowed
<1>6. Proposed(c) = Proposing(old, commit)
  BY DEF Proposed, Proposing
<1>7. own \in NonBlank(Proposed(c))
  <2>1. LeafAt(new, c, own) /\ At(new, own) = At(Proposing(old, commit), own)
    BY <1>2, LeafStays
  <2> QED
    BY <1>6, <2>1 DEF LeafAt, NonBlank, At
<1>8. u = IF commit.external THEN AddLeafNode(Proposed(c), commit.path.leafNode) ELSE Proposed(c)
  BY <1>6 DEF FollowedTree
<1>9. d = DeriveTreeHashCache(u, state[c].treeHashCache, TouchedBy(u))
  BY DEF TouchedBy, TouchedLeaves
<1>10. fdp = FilteredDirectPath(commit.sender, u) /\ match = FirstMatch(u, fdp, leaf)
  BY DEF FollowedPath, Match
<1>11. excluded = IF commit.external
                  THEN {FindBlankLeafNodeIndexOrExtend(Proposed(c))}
                  ELSE {LeafToNodeIndex(l) : l \in AddedLeaves(Proposed(c), commit.adds)}
  BY DEF NotEncryptedTo
<1>12. CommitSent(new, commit)
  BY DEF Follower
<1> HIDE DEF u, d, kw, fdp, match, excluded
<1>13. SUFFICES IF commit.path = NoPath
                THEN FollowWithoutPath(c, u, d, kw) # {}
                ELSE FollowPath(c, u, d, excluded, kw, fdp) # {}
  <2>1. IF commit.path = NoPath
        THEN \E p : p \in FollowWithoutPath(c, u, d, kw)
        ELSE \E p : p \in FollowPath(c, u, d, excluded, kw, fdp)
    BY <1>13
  <2>2. PICK p : IF commit.path = NoPath THEN p \in FollowWithoutPath(c, u, d, kw)
                 ELSE p \in FollowPath(c, u, d, excluded, kw, fdp)
    BY <2>1
  <2>4. CASE commit.path = NoPath
    <3>1. p \in Follow(c, Proposed(c), kw)
      BY <1>8, <1>9, <2>2, <2>4 DEF Follow
    <3> QED
      BY <1>7, <3>1 DEF Processed, kw
  <2>5. CASE commit.path # NoPath
    <3> DEFINE After == UNION {FollowPath(c, u, d, excluded, kw, f) : f \in {FilteredDirectPath(commit.sender, u)}}
    <3>1. p \in After
      BY <1>10, <2>2, <2>5
    <3>2. Follow(c, Proposed(c), kw) = After
      BY <1>8, <1>9, <1>11, <2>5 DEF Follow
    <3>3. p \in Follow(c, Proposed(c), kw)
      BY <3>1, <3>2
    <3> QED
      BY <1>7, <3>3 DEF Processed, kw
  <2> QED
    BY <2>4, <2>5
<1>14. TreeHashes(u, d) = AllHashes(u) /\ TreeHashes(new, d) = AllHashes(new) /\ IsTreeOf(u, k) /\ IsTreeOf(new, k)
  BY <1>5, TreeHashesAre DEF Follows
<1>15. AllHashes(new)[RootOf(new)] = commit.treeHash
  BY <1>12 DEF CommitSent
<1>16. CASE commit.path = NoPath
  <2>1. u = new
    BY <1>5, <1>16 DEF Follows
  <2>2. TreeHashes(u, d) \in {h \in {TreeHashes(u, d)} : h[RootOf(u)] = commit.treeHash}
    BY <1>14, <1>15, <2>1
  <2>3. FollowWithoutPath(c, u, d, kw) # {}
    BY <2>2 DEF FollowWithoutPath
  <2> QED
    BY <1>16, <2>3
<1>17. CASE commit.path # NoPath
  <2> DEFINE keys == [i \in DOMAIN fdp |-> commit.path.nodes[i].key]
             inserted == InsertPathKeys(u, commit.sender, commit.path.leafNode, NodesOf(fdp), keys)
             made == InsertParentHashes(inserted, TreeHashes(u, d), ToSet(NodesOf(fdp)))
  <2>1. PICK k2 : FollowsPath(u, new, commit.sender, k2)
    BY <1>3, <1>17, FollowedPathIs DEF u
  <2>2. fdp = FilteredDirectPath(commit.sender, new) /\ IsTreeOf(u, k2) /\ IsTreeOf(new, k2) /\ s \in Full(k2)
    BY <1>10, <2>1 DEF FollowsPath
  <2>3. FindsCiphertext(c)
    BY <1>17, FollowerFindsCiphertext
  <2>4. match # 0 /\ DecryptsPath(fdp, kw, match, excluded)
    BY <2>3 DEF FindsCiphertext, match, fdp, kw, excluded
  <2>5. /\ LinkedAt(new, s) /\ commit.commitSecret = GetCommitSecret(new, fdp)
        /\ \E A : commit.path.nodes = EncryptSecretsForPath(new, fdp, A)
    BY <1>12, <1>17, <2>2 DEF CommitSent
  <2>6. HasPath(new, commit.sender, a, e) /\ PathOf(new, commit.sender) = PathOf(CommitTree(old, e, a, commit), commit.sender)
    BY <1>3, <1>17, PathOfCommit
  <2>7. /\ commit.path.leafNode = new[s]
        /\ \A i \in DOMAIN PathOf(new, commit.sender) : commit.path.nodes[i].key = PathKey(e, i)
    BY <1>3, <1>17, <2>6 DEF CommitOf
  <2>8. /\ DOMAIN fdp = 1 .. Len(fdp) /\ Len(fdp) \in Nat /\ NodesOf(fdp) = PathOf(new, commit.sender)
        /\ DOMAIN NodesOf(fdp) = DOMAIN fdp
    BY <1>3, <2>2, FilteredPathLength DEF PathOf, NodesOf
  <2>9. Len(commit.path.nodes) = Len(fdp)
    <3>1. PICK A : commit.path.nodes = EncryptSecretsForPath(new, fdp, A)
      BY <2>5
    <3> DEFINE nodes == commit.path.nodes
    <3>2. nodes = EncryptSecretsForPath(new, fdp, A)
      BY <3>1
    <3> HIDE DEF nodes
    <3>3. nodes = [i \in DOMAIN fdp |-> nodes[i]]
      BY <3>2 DEF EncryptSecretsForPath
    <3>4. Len(nodes) = Len(fdp)
      BY <2>8, <3>3, LengthOfFunction
    <3> QED
      BY <3>4 DEF nodes
  <2>10. commit.external \/ u[s].key # commit.path.leafNode.key
    <3> SUFFICES ASSUME ~commit.external  PROVE u[s].key # commit.path.leafNode.key
      OBVIOUS
    <3>1. u = Proposing(old, commit)
      BY DEF u, FollowedTree
    <3>2. s \in Nat /\ At(u, s) = u[s] /\ At(new, s) = new[s]
      BY <2>2, TreeShape DEF At
    <3>3. new[s].key = PathKey(e, 0)
      BY <2>6, <3>2 DEF HasPath
    <3>4. CASE u[s] = Blank
      BY <2>7, <3>3, <3>4, BlankIsNode, KeysAreNotEmpty
    <3>5. CASE u[s] # Blank
      <4>1. At(Proposing(old, commit), s).key # PathKey(e, 0)
        BY <1>2, <3>1, <3>2, <3>5, ProposedKeysAreOld
      <4> QED
        BY <2>7, <3>1, <3>2, <3>3, <4>1
    <3> QED
      BY <3>4, <3>5
  <2>11. \A i \in DOMAIN fdp : commit.path.nodes[i].key \notin {u[n].key : n \in Parents(u)}
    <3> SUFFICES ASSUME NEW i \in DOMAIN fdp, NEW n \in Parents(u)  PROVE commit.path.nodes[i].key # u[n].key
      OBVIOUS
    <3>1. commit.path.nodes[i].key = PathKey(e, i)
      BY <2>7, <2>8
    <3>2. n \in Nat /\ ~IsLeaf(n) /\ At(u, n) = u[n] /\ At(u, n) # Blank
      BY <2>2, TreeShape DEF Parents, NonBlank, At
    <3>3. At(u, n).key # PathKey(e, i)
      BY <1>2, <1>17, <3>2, FollowedParentsAreOld DEF u
    <3> QED
      BY <3>1, <3>2, <3>3
  <2>12. made = new
    <3>1. PathOf(u, commit.sender) = NodesOf(fdp)
      BY <1>10 DEF PathOf
    <3>2. \A i \in DOMAIN PathOf(u, commit.sender) : keys[i] = commit.path.nodes[i].key
      BY <2>8, <3>1
    <3>3. made = PathRebuilt(u, commit.sender, commit.path.leafNode, keys)
      BY <1>14, <3>1 DEF PathRebuilt
    <3> HIDE DEF keys, made
    <3> QED
      BY <1>5, <1>17, <3>2, <3>3 DEF Follows
  <2>13. made \in ApplyUpdatePath(u, d, commit.path, fdp)
    <3>1. inserted \in {v \in {InsertPathKeys(u, commit.sender, commit.path.leafNode, NodesOf(fdp), keys)} :
                          \A i \in DOMAIN fdp : commit.path.nodes[i].key \notin {u[n].key : n \in Parents(u)}}
      BY <2>11
    <3> QED
      BY <3>1 DEF ApplyUpdatePath
  <2> HIDE DEF made, inserted, keys
  <2>14. commit.path.leafNode.parentHash = CalculateParentHash(new, AllHashes(new), s)
    BY <2>5, <2>7 DEF LinkedAt
  <2>15. match + Len(PathToRoot(new, fdp[match].nodeIndex)) = commit.commitSecret
    <3>1. match \in DOMAIN PathOf(new, commit.sender)
      <4>1. MeetsAt(NodesOf(fdp), LeafToNodeIndex(leaf), match)
        <5>1. LeafToNodeIndex(leaf) \in Full(k2) /\ leaf \in Nat
          <6>1. LeafAt(new, c, own) /\ own = LeafToNodeIndex(leaf)
            BY <1>2, LeafStays DEF OwnLeaf
          <6>2. leaf \in Nat
            BY DEF Follower, Following, KeysInv, TreesInv, HasTree
          <6> QED
            BY <2>2, <6>1, <6>2, TreeShape DEF LeafAt, At
        <5>2. Ascending(k2, s, NodesOf(fdp))
          BY <1>3, <2>2, <2>8, FilteredPathIs
        <5> QED
          BY <1>10, <2>2, <5>1, <5>2, FirstMatchIs
      <4> QED
        BY <2>4, <2>8, <4>1 DEF MeetsAt
    <3> QED
      BY <1>3, <2>2, <2>5, <2>6, <3>1, SameCommitSecret
  <2>16. new \in ApplyUpdatePath(u, d, commit.path, fdp)
    BY <2>12, <2>13
  <2>17. TreeHashes(new, d) \in {h \in {TreeHashes(new, d)} :
           /\ commit.path.leafNode.parentHash = CalculateParentHash(new, h, s)
           /\ h[RootOf(new)] = commit.treeHash
           /\ match + Len(PathToRoot(new, fdp[match].nodeIndex)) = commit.commitSecret}
    BY <1>14, <1>15, <2>14, <2>15
  <2>18. FirstMatch(u, fdp, leaf) = match
    BY <1>10
  <2>19. Member(Epoch, leaf, KeysFrom(e, PathToRoot(new, fdp[match].nodeIndex), match) ++ kw, new, TreeHashes(new, d))
           \in FollowPath(c, u, d, excluded, kw, fdp)
    BY <2>4, <2>9, <2>10, <2>16, <2>17, <2>18 DEF FollowPath
  <2> QED
    BY <1>17, <2>19
<1> QED
  BY <1>16, <1>17

\* The places of a member's keys.
KeysPlaced(c, s) ==
  s.kind = "member" => PlacedKeys(s.ratchetTree, c, LeafToNodeIndex(s.leafIndex), s.privateKeys)

\* What a commit says of its tree, and the leaves of the tree before it.
LEMMA CommitIsSent ==
  ASSUME KeysInv, NEW c \in Client, NEW l, NEW external, NEW updated, NEW removed, NEW invited, NEW added, NEW tree,
         NEW hasPath, NEW keys, NEW new,
         Commits(c, l, external, updated, removed, invited, added, tree, hasPath, keys, new)
  PROVE  CommitSent(groupInfo'.ratchetTree, commit')
<1> DEFINE old == groupInfo.ratchetTree
           fdp == FilteredDirectPath(l, tree)
           path == IF hasPath THEN SentPath(tree, new, l, added) ELSE NoPath
           ks == IF hasPath THEN CommitterKeys(tree, l, keys) ELSE keys
           secret == IF hasPath THEN GetCommitSecret(new, fdp) ELSE 0
           secrets == IF hasPath THEN Secrets(new, fdp, added, TRUE) ELSE Secrets(tree, <<>>, added, FALSE)
           m == commit'
           s == LeafToNodeIndex(l)
<1>1. Begins(c, l, external, updated, removed, added, path, ks, new, secret, secrets)
  BY DEF Commits
<1>2. /\ m.sender = l /\ m.adds = added /\ m.path = path /\ m.commitSecret = secret /\ m.epoch = Epoch
      /\ m.treeHash = AllHashes(new)[RootOf(new)] /\ groupInfo'.ratchetTree = new
  <2> HIDE DEF path, ks, secret, secrets
  <2> QED
    BY <1>1 DEF Begins
<1>3. PICK k : IsTreeOf(tree, k) /\ IsTreeOf(new, k) /\ s \in Full(k)
  BY DEF Commits
<1>4. l \in Nat /\ new = IF hasPath THEN PathMade(tree, l, c, Epoch) ELSE tree
  BY DEF Commits
<1>5. CASE ~hasPath
  BY <1>2, <1>5 DEF CommitSent
<1>6. CASE hasPath
  <2>1. new = PathMade(tree, l, c, Epoch) /\ m.path = SentPath(tree, new, l, added)
    BY <1>2, <1>4, <1>6
  <2>2. m.path # NoPath
    BY <1>3, <1>4, <2>1, SentPathFits
  <2>3. PICK place : CommitMade(old, new, Epoch, c, m, place)
    BY CommitIsMade
  <2> DEFINE f == Epoch + 1
  <2>4. SoundTree(new, f)
    BY <1>2, <2>3, SoundTreeStep
  <2> HIDE DEF f
  <2>5. fdp = FilteredDirectPath(l, new)
    BY <1>3, <1>4, <2>1, <2>4, PathIsSentToNodes
  <2>6. LinkedAt(new, s)
    BY <1>3, <1>4, <2>1, PathIsLinked
  <2>7. SameLeavesBut(tree, new, s)
    <3>1. NewPath(tree, k, s, PathOf(tree, l), c, Epoch, new)
      BY <1>3, <1>4, <2>1, PathMadeIs
    <3>2. Ascending(k, s, PathOf(tree, l))
      BY <1>3, <1>4, FilteredPathIs DEF PathOf
    <3>3. ASSUME NEW x \in Nat, IsLeaf(x), x # s  PROVE At(tree, x) = At(new, x)
      <4>1. \A i \in DOMAIN PathOf(tree, l) : PathOf(tree, l)[i] # x
        <5> SUFFICES ASSUME NEW i \in DOMAIN PathOf(tree, l), PathOf(tree, l)[i] = x  PROVE FALSE
          OBVIOUS
        <5>1. s \in Block(x)
          BY <3>2 DEF Ascending
        <5>2. Block(x) = {x}
          BY <3>3, NodeBasics
        <5> QED
          BY <3>3, <5>1, <5>2
      <4>2. s \notin Block(x)
        BY <3>3, NodeBasics
      <4>3. DOMAIN tree = Full(k) /\ DOMAIN new = Full(k)
        BY <1>3 DEF IsTreeOf
      <4> QED
        BY <3>1, <3>3, <4>1, <4>2, <4>3 DEF NewPath, At
    <3> QED
      BY <1>3, <3>3 DEF SameLeavesBut
  <2>8. AlikeBut(AddedNodes(tree, added), AddedNodes(new, added), s)
    BY <2>7, AddedAlike
  <2>9. m.path.nodes = EncryptSecretsForPath(new, fdp, AddedNodes(tree, added))
    BY <2>1 DEF SentPath, AddedNodes
  <2>10. m.commitSecret = GetCommitSecret(new, fdp)
    BY <1>2, <1>6
  <2>11. CommitSent(new, m)
    <3> HIDE DEF fdp, path, secret, m
    <3>1. m.path.nodes = EncryptSecretsForPath(new, FilteredDirectPath(m.sender, new), AddedNodes(tree, added))
      BY <1>2, <2>5, <2>9
    <3>2. AlikeBut(AddedNodes(tree, added), AddedNodes(new, m.adds), LeafToNodeIndex(m.sender))
      BY <1>2, <2>8 DEF s
    <3>3. LinkedAt(new, LeafToNodeIndex(m.sender))
      BY <1>2, <2>6 DEF s
    <3>4. m.commitSecret = GetCommitSecret(new, FilteredDirectPath(m.sender, new))
      BY <1>2, <2>5, <2>10
    <3> QED
      BY <1>2, <3>1, <3>2, <3>3, <3>4 DEF CommitSent
  <2> QED
    BY <1>2, <2>11
<1> QED
  BY <1>5, <1>6

\* The committer's keys are in their places.
LEMMA CommitterKeysPlaced ==
  ASSUME KeysInv, NEW c \in Client, NEW l, NEW external, NEW updated, NEW removed, NEW invited, NEW added, NEW tree,
         NEW hasPath, NEW keys, NEW new,
         Commits(c, l, external, updated, removed, invited, added, tree, hasPath, keys, new),
         \A d \in Client : KeysPlaced(d, state[d])
  PROVE  \A d \in Client : KeysPlaced(d, state'[d])
<1> DEFINE old == groupInfo.ratchetTree
           fdp == FilteredDirectPath(l, tree)
           path == IF hasPath THEN SentPath(tree, new, l, added) ELSE NoPath
           ks == IF hasPath THEN CommitterKeys(tree, l, keys) ELSE keys
           secret == IF hasPath THEN GetCommitSecret(new, fdp) ELSE 0
           secrets == IF hasPath THEN Secrets(new, fdp, added, TRUE) ELSE Secrets(tree, <<>>, added, FALSE)
           m == commit'
           s == LeafToNodeIndex(l)
           own == KeysFrom(Epoch, <<s>> \o PathOf(new, l), 0)
<1>1. Begins(c, l, external, updated, removed, added, path, ks, new, secret, secrets)
  BY DEF Commits
<1> HIDE DEF path, ks, secret, secrets
<1>2. TreesInv /\ Epoch \in Nat
  BY DEF KeysInv, TreesInv, Epoch
<1>3. /\ m.epoch = Epoch /\ m.sender = l /\ m.external = external /\ m.path = path
      /\ state'[c].kind = "member" /\ state'[c].leafIndex = l
      /\ state'[c].privateKeys = ks /\ state'[c].ratchetTree = new
      /\ \A d \in Client : d # c => state'[d] = state[d]
  BY <1>1, <1>2, BegunAs
<1>4. PICK place : CommitMade(old, new, Epoch, c, m, place)
  BY CommitIsMade
<1>5. CommitOf(old, Epoch, c, m, new)
  BY <1>4 DEF CommitMade
<1>6. PICK k : IsTreeOf(tree, k) /\ IsTreeOf(new, k) /\ s \in Full(k)
  BY DEF Commits
<1>7. l \in Nat /\ new = IF hasPath THEN PathMade(tree, l, c, Epoch) ELSE tree
  BY DEF Commits
<1>8. LeafAt(new, c, s)
  <2>1. IF m.external THEN keys = <<>> ELSE KeysFit(old, c, LeafToNodeIndex(m.sender), Epoch, keys)
    BY CommitIsMade
  <2> DEFINE K == IF m.path = NoPath THEN keys
                  ELSE KeysFrom(Epoch, <<LeafToNodeIndex(m.sender)>> \o PathOf(new, m.sender), 0) ++ keys
             f == Epoch + 1
  <2>2. KeysFit(new, c, LeafToNodeIndex(m.sender), f, K)
    BY <1>3, <1>4, <2>1, CommitterHasItsKeys
  <2> HIDE DEF K, f
  <2> QED
    BY <1>3, <2>2 DEF KeysFit
<1>9. PlacedKeys(new, c, s, keys)
  <2>1. CASE external
    <3>1. keys = <<>>
      BY <2>1 DEF Commits
    <3> QED
      BY <3>1 DEF PlacedKeys
  <2>2. CASE ~external
    <3>1. /\ state[c].kind = "member" /\ state[c].epoch = Epoch
          /\ l = state[c].leafIndex /\ keys = state[c].privateKeys
      BY <2>2 DEF Commits
    <3>2. state[c].ratchetTree = old
      BY <1>2, <3>1 DEF TreesInv, Epoch
    <3>3. PlacedKeys(old, c, s, keys)
      BY <3>1, <3>2 DEF KeysPlaced
    <3> QED
      BY <1>3, <1>4, <1>8, <3>3, PlacedStay
  <2> QED
    BY <2>1, <2>2
<1>10. PlacedKeys(new, c, s, ks)
  <2>1. CASE ~hasPath
    BY <1>9, <2>1 DEF ks
  <2>2. CASE hasPath
    <3>1. new = PathMade(tree, l, c, Epoch) /\ m.path = SentPath(tree, new, l, added)
      BY <1>3, <1>7, <2>2 DEF path
    <3>2. m.path # NoPath
      BY <1>6, <1>7, <3>1, SentPathFits
    <3>3. HasPath(new, l, c, Epoch)
      BY <1>3, <1>5, <3>2, PathOfCommit
    <3>4. OwnPath(own, s, PathOf(new, l), Epoch)
      BY <1>7, <3>3, OwnPathKeys
    <3>5. PlacedKeys(new, c, s, own)
      BY <1>7, <3>3, <3>4, PlacedOnOwnPath
    <3> DEFINE f == Epoch + 1
    <3>6. SoundTree(new, f)
      BY <1>3, <1>4, SoundTreeStep
    <3> HIDE DEF f
    <3>7. fdp = FilteredDirectPath(l, new)
      BY <1>6, <1>7, <3>1, <3>6, PathIsSentToNodes
    <3>8. ks = own ++ keys
      BY <2>2, <3>7 DEF ks, CommitterKeys, PathOf
    <3> HIDE DEF own
    <3> QED
      BY <1>9, <3>5, <3>8, PlacedTogether
  <2> QED
    BY <2>1, <2>2
<1>11. ASSUME NEW d \in Client  PROVE KeysPlaced(d, state'[d])
  <2>1. CASE d = c
    BY <1>3, <1>10, <2>1 DEF KeysPlaced
  <2>2. CASE d # c
    BY <1>3, <2>2
  <2> QED
    BY <2>1, <2>2
<1> QED
  BY <1>11

\* A follower's keys are in their places.
LEMMA FollowerKeysPlaced ==
  ASSUME KeysInv, NEW c \in Client, state[c].kind = "member", state[c].epoch = commit.epoch,
         KeysPlaced(c, state[c]), NEW p \in Processed(c)
  PROVE  KeysPlaced(c, p)
<1> DEFINE old == state[c].ratchetTree
           new == groupInfo.ratchetTree
           own == OwnLeaf(c)
           keys == state[c].privateKeys
           kw == KeysWithUpdate(c)
           e == commit.epoch
<1>1. TreesInv /\ e \in Nat /\ Epoch = e + 1
  BY DEF KeysInv, TreesInv, Epoch
<1>2. FollowedAs(c, p)
  BY <1>1, ProcessedIs
<1>3. p = Member(Epoch, state[c].leafIndex, FollowerKeys(c, new), new, AllHashes(new))
  BY <1>2 DEF FollowedAs
<1>4. /\ p.kind = "member" /\ p.leafIndex = state[c].leafIndex /\ p.privateKeys = FollowerKeys(c, new)
      /\ p.ratchetTree = new
  BY <1>3, MemberIs
<1>5. KeysFit(new, c, own, Epoch, FollowerKeys(c, new))
  BY <1>2, FollowerKeysFit
<1>6. LeafAt(new, c, own)
  BY <1>5 DEF KeysFit
<1>7. PICK a, place : a # c /\ CommitMade(old, new, e, a, commit, place)
  BY DEF KeysInv, HasKeys
<1>8. PlacedKeys(old, c, own, keys)
  BY DEF KeysPlaced, OwnLeaf
<1>9. PlacedKeys(new, c, own, keys)
  BY <1>6, <1>7, <1>8, PlacedStay
<1>10. PlacedKeys(new, c, own, kw)
  <2> DEFINE key == UpdateKey(e, c)
             one == [n \in {own} |-> key]
  <2>1. kw = one ++ keys \/ kw = keys
    BY DEF KeysWithUpdate, OwnLeaf
  <2>2. DOMAIN one = {own}
    OBVIOUS
  <2> HIDE DEF key, one, kw
  <2>3. PlacedKeys(new, c, own, one)
    BY <1>6, <2>2, PlacedAtLeaf
  <2> QED
    BY <1>9, <2>1, <2>3, PlacedTogether
<1>11. PlacedKeys(new, c, own, FollowerKeys(c, new))
  <2>1. CASE commit.path = NoPath
    BY <1>10, <2>1 DEF FollowerKeys
  <2>2. CASE commit.path # NoPath
    <3>1. PICK w, route : FollowsRoute(c, w, route)
      BY <1>2, <2>2, FollowerTakesRoute
    <3>2. /\ w # 0 /\ MeetsAt(PathOf(new, commit.sender), own, w)
          /\ RouteKeys(route, PathOf(new, commit.sender), w, e, LeafToNodeIndex(commit.sender))
          /\ FollowerKeys(c, new) = route ++ kw
      BY <3>1 DEF FollowsRoute
    <3>3. commit.sender \in Nat /\ \E b : HasPath(new, commit.sender, b, e)
      BY <2>2 DEF KeysInv, KeyedTree, PathKnown
    <3>4. PICK b : HasPath(new, commit.sender, b, e)
      BY <3>3
    <3>5. PlacedKeys(new, c, own, route)
      BY <1>6, <3>2, <3>3, <3>4, PlacedOnRoute
    <3> HIDE DEF kw
    <3> QED
      BY <1>10, <3>2, <3>5, PlacedTogether
  <2> QED
    BY <2>1, <2>2
<1> QED
  BY <1>4, <1>11 DEF KeysPlaced, OwnLeaf

\* So are a newcomer's.
LEMMA JoinerKeysPlaced ==
  ASSUME KeysInv, NEW c \in DOMAIN welcome, NEW p \in JoinedBy(c)
  PROVE  KeysPlaced(c, p)
<1> DEFINE t == groupInfo.ratchetTree
           m == commit
           e == commit.epoch
           key == PackageKey(e, c)
<1>1. PICK own, secret, route : JoinsAs(c, p, own, secret, route)
  BY JoinerIs
<1> DEFINE one == [n \in {own} |-> key]
<1>2. /\ AwaitedAt(t, m, c, secret, own) /\ LeafToNodeIndex(p.leafIndex) = own /\ p.ratchetTree = t
      /\ p.privateKeys = JoinerKeys(m, c, own, secret, route)
      /\ m.path # NoPath => secret # 0 /\ RouteKeys(route, PathOf(t, m.sender), secret, e, LeafToNodeIndex(m.sender))
  BY <1>1 DEF JoinsAs
<1>3. LeafAt(t, c, own) /\ IF m.path = NoPath THEN secret = 0 ELSE MeetsAt(PathOf(t, m.sender), own, secret)
  BY <1>2 DEF AwaitedAt
<1>4. p.privateKeys = one ++ IF secret = 0 THEN <<>> ELSE route
  BY <1>2 DEF JoinerKeys
<1>5. PlacedKeys(t, c, own, one)
  <2>1. DOMAIN one = {own}
    OBVIOUS
  <2> HIDE DEF one
  <2> QED
    BY <1>3, <2>1, PlacedAtLeaf
<1>6. PlacedKeys(t, c, own, <<>>)
  BY DEF PlacedKeys
<1>7. secret # 0 => PlacedKeys(t, c, own, route)
  <2> HAVE secret # 0
  <2>1. m.path # NoPath
    BY <1>3
  <2>2. m.sender \in Nat /\ \E b : HasPath(t, m.sender, b, e)
    BY <2>1 DEF KeysInv, KeyedTree, PathKnown
  <2>3. PICK b : HasPath(t, m.sender, b, e)
    BY <2>2
  <2> QED
    BY <1>2, <1>3, <2>1, <2>2, <2>3, PlacedOnRoute
<1> HIDE DEF one
<1>8. PlacedKeys(t, c, own, p.privateKeys)
  <2>1. CASE secret = 0
    <3>1. p.privateKeys = one ++ <<>>
      BY <1>4, <2>1
    <3> QED
      BY <1>5, <1>6, <3>1, PlacedTogether
  <2>2. CASE secret # 0
    <3>1. p.privateKeys = one ++ route
      BY <1>4, <2>2
    <3> QED
      BY <1>5, <1>7, <2>2, <3>1, PlacedTogether
  <2> QED
    BY <2>1, <2>2
<1> QED
  BY <1>2, <1>8 DEF KeysPlaced

(***************************************************************************)
(* The invariant behind the members' half of EveryMemberCanFollow: besides *)
(* that of KeyHolders, the commit says of the new tree what its sender     *)
(* does, and no member has a key elsewhere than above its leaf.            *)
(***************************************************************************)
FollowInv ==
  /\ KeysInv
  /\ CommitSent(groupInfo.ratchetTree, commit)
  /\ \A c \in Client : KeysPlaced(c, state[c])

LEMMA FollowInit ==
  ASSUME Init
  PROVE  FollowInv
<1> DEFINE r == FoundingTree
           L(c) == CHOOSE i \in LeavesOf(r, c) : TRUE
           K(c) == [n \in {LeafToNodeIndex(L(c))} |-> PackageKey(0, c)]
<1>1. /\ scenario \in Scenarios /\ commit.path = NoPath /\ commit.treeHash = FreshHash(r, RootOf(r))
      /\ groupInfo.ratchetTree = r
  BY DEF Init
<1>2. state = [c \in Client |-> IF c \in ToSet(scenario.founders)
                                THEN Member(1, L(c), K(c), r, TreeHashes(r, EmptyCache)) ELSE Outside]
  BY DEF Init
<1>3. PICK h : IsTreeOf(r, h)
  BY <1>1, FoundingTreeIs
<1>4. CommitSent(groupInfo.ratchetTree, commit)
  <2>1. RootOf(r) \in DOMAIN r
    BY <1>3, TreeShape
  <2>2. AllHashes(r)[RootOf(r)] = FreshHash(r, RootOf(r))
    BY <2>1 DEF AllHashes
  <2> QED
    BY <1>1, <2>2 DEF CommitSent
<1>5. ASSUME NEW c \in Client  PROVE KeysPlaced(c, state[c])
  <2>1. CASE c \in ToSet(scenario.founders)
    <3>1. state[c] = Member(1, L(c), K(c), r, TreeHashes(r, EmptyCache))
      BY <1>2, <2>1
    <3>2. L(c) \in LeavesOf(r, c)
      BY <1>1, <2>1, FoundingTreeIs
    <3> DEFINE l == L(c)
               keys == K(c)
    <3>3. DOMAIN keys = {LeafToNodeIndex(l)} /\ l \in LeavesOf(r, c)
      BY <3>2
    <3>4. state[c].ratchetTree = r /\ state[c].leafIndex = l /\ state[c].privateKeys = keys
      BY <3>1, MemberIs
    <3> HIDE DEF keys, l, r
    <3>5. LeafAt(r, c, LeafToNodeIndex(l))
      BY <1>3, <3>3, LeavesAreLeafAt
    <3>6. PlacedKeys(r, c, LeafToNodeIndex(l), keys)
      BY <3>3, <3>5, PlacedAtLeaf
    <3> QED
      BY <3>4, <3>6 DEF KeysPlaced
  <2>2. CASE c \notin ToSet(scenario.founders)
    BY <1>2, <2>2 DEF KeysPlaced, Outside
  <2> QED
    BY <2>1, <2>2
<1> QED
  BY <1>4, <1>5, KeysInit DEF FollowInv

\* A step of one client within an epoch.
LEMMA OneKeepsFollowing ==
  ASSUME FollowInv, KeysInv', NEW c \in Client, NEW p, state' = [state EXCEPT ![c] = p], KeysPlaced(c, p),
         commit' = commit, groupInfo' = groupInfo
  PROVE  FollowInv'
<1>1. \A d \in Client : state'[d] = IF d = c THEN p ELSE state[d]
  BY DEF FollowInv, KeysInv, TreesInv
<1>2. \A d \in Client : KeysPlaced(d, state'[d])
  BY <1>1 DEF FollowInv
<1> QED
  BY <1>2 DEF FollowInv

LEMMA FollowStep ==
  ASSUME FollowInv, [Next]_vars
  PROVE  FollowInv'
<1>1. KeysInv /\ TreesInv
  BY DEF FollowInv, KeysInv
<1>2. KeysInv'
  BY <1>1, KeysStep
<1>3. \A c \in Client : KeysPlaced(c, state[c])
  BY DEF FollowInv
<1>4. CASE UNCHANGED vars
  BY <1>2, <1>4 DEF FollowInv, vars
<1>5. ASSUME NEW c \in Client, CreateUpdateProposal(c)  PROVE FollowInv'
  <2>1. state' = state /\ commit' = commit /\ groupInfo' = groupInfo
    BY <1>5 DEF CreateUpdateProposal
  <2> QED
    BY <1>2, <2>1 DEF FollowInv
<1>6. ASSUME NEW c \in Client, NEW l, NEW external, NEW updated, NEW removed, NEW invited, NEW added, NEW tree,
             NEW hasPath, NEW keys, NEW new,
             Commits(c, l, external, updated, removed, invited, added, tree, hasPath, keys, new)
      PROVE  FollowInv'
  <2>1. CommitSent(groupInfo'.ratchetTree, commit')
    BY <1>1, <1>6, CommitIsSent
  <2>2. \A d \in Client : KeysPlaced(d, state'[d])
    BY <1>1, <1>3, <1>6, CommitterKeysPlaced
  <2> QED
    BY <1>2, <2>1, <2>2 DEF FollowInv
<1>7. ASSUME NEW c \in Client, CreateCommit(c)  PROVE FollowInv'
  BY <1>1, <1>6, <1>7, MemberCommits
<1>8. ASSUME NEW c \in Client, JoinGroupExternal(c)  PROVE FollowInv'
  BY <1>1, <1>6, <1>8, NewcomerCommits
<1>9. ASSUME NEW c \in Client, ProcessCommit(c)  PROVE FollowInv'
  <2>1. state[c].kind = "member" /\ state[c].epoch = commit.epoch /\ commit' = commit /\ groupInfo' = groupInfo
    BY <1>9 DEF ProcessCommit
  <2>2. PICK p \in Processed(c) : state' = [state EXCEPT ![c] = p]
    BY <1>9 DEF ProcessCommit
  <2>3. KeysPlaced(c, p)
    BY <1>1, <1>3, <2>1, FollowerKeysPlaced
  <2> QED
    BY <1>2, <2>1, <2>2, <2>3, OneKeepsFollowing
<1>10. ASSUME NEW c \in Client, ProcessRemoval(c)  PROVE FollowInv'
  <2>1. commit' = commit /\ groupInfo' = groupInfo
    BY <1>10 DEF ProcessRemoval
  <2>2. PICK tree : state' = [state EXCEPT ![c].kind = "removed", ![c].ratchetTree = tree]
    BY <1>10 DEF ProcessRemoval
  <2> DEFINE p == [state[c] EXCEPT !.kind = "removed", !.ratchetTree = tree]
  <2>3. state' = [state EXCEPT ![c] = p]
    BY <1>1, <2>2 DEF TreesInv
  <2>4. p.kind = "removed"
    BY <1>1, RemovedIs DEF TreesInv
  <2>5. KeysPlaced(c, p)
    BY <2>4 DEF KeysPlaced
  <2> HIDE DEF p
  <2> QED
    BY <1>2, <2>1, <2>3, <2>5, OneKeepsFollowing
<1>11. ASSUME NEW c \in Client, JoinGroup(c)  PROVE FollowInv'
  <2>1. c \in DOMAIN welcome /\ commit' = commit /\ groupInfo' = groupInfo
    BY <1>11 DEF JoinGroup
  <2>2. PICK p \in JoinedBy(c) : state' = [state EXCEPT ![c] = p]
    BY <1>11 DEF JoinGroup
  <2>3. KeysPlaced(c, p)
    BY <1>1, <2>1, JoinerKeysPlaced
  <2> QED
    BY <1>2, <2>1, <2>2, <2>3, OneKeepsFollowing
<1> QED
  BY <1>4, <1>5, <1>7, <1>8, <1>9, <1>10, <1>11 DEF Next

LEMMA FollowInvariant == Spec => []FollowInv
<1>1. Init => FollowInv
  BY FollowInit
<1>2. FollowInv /\ [Next]_vars => FollowInv'
  BY FollowStep
<1> QED
  BY <1>1, <1>2, PTL DEF Spec

\* The first half of EveryMemberCanFollow.
LEMMA FollowersProcess ==
  ASSUME FollowInv
  PROVE  \A c \in Client : Following(c) => Processed(c) # {}
<1> SUFFICES ASSUME NEW c \in Client, Following(c)  PROVE Processed(c) # {}
  OBVIOUS
<1>1. KeysInv /\ CommitSent(groupInfo.ratchetTree, commit) /\ KeysPlaced(c, state[c]) /\ state[c].kind = "member"
  BY DEF FollowInv, Following
<1>2. Follower(c)
  BY <1>1 DEF Follower, KeysPlaced, OwnLeaf
<1> QED
  BY <1>1, <1>2, FollowerProcesses

-----------------------------------------------------------------------------
(***************************************************************************)
(* What makes a tree valid.  No key is at two nodes; the unmerged leaves   *)
(* of a node are below it, from the left, and unmerged at every node in    *)
(* between; a parent hash is of the node with the next path secret; and    *)
(* below every parent node a node with the path secret before has the      *)
(* parent hash that it gives.                                              *)
(***************************************************************************)
OneNodePerKey(t) ==
  \A x, y \in Nat : At(t, x) # Blank /\ At(t, y) # Blank /\ At(t, x).key = At(t, y).key => x = y

PlainLeaves(t) == \A x \in Nat : IsLeaf(x) => At(t, x).unmergedLeaves = <<>>

UnmergedAt(t, p, l) ==
  LET y == LeafToNodeIndex(l)
  IN  /\ l \in Nat /\ y \in Block(p) /\ At(t, y) # Blank
      /\ \A z \in Block(p) : IsLeaf(z) /\ z < y => At(t, z) # Blank
      /\ \A x \in Nat : x # y /\ y \in Block(x) /\ x \in Block(p) /\ At(t, x) # Blank
                          => l \in ToSet(At(t, x).unmergedLeaves)

Rising(s) == \A i, j \in DOMAIN s : i < j => s[i] < s[j]

UnmergedFit(t) ==
  \A p \in Nat : At(t, p) # Blank =>
    /\ \A l \in ToSet(At(t, p).unmergedLeaves) : UnmergedAt(t, p, l)
    /\ Rising(At(t, p).unmergedLeaves)

NextSecret(a, b) == \E f : \E j \in Nat : a = PathKey(f, j) /\ b = PathKey(f, j + 1)

HashesOfNext(t) ==
  \A x \in Nat : At(t, x) # Blank =>
    At(t, x).parentHash = NoHash \/ NextSecret(At(t, x).key, At(t, x).parentHash.key)

Backs(t, p, x) ==
  /\ NextUp(t, x, p) /\ At(t, x) # Blank /\ NextSecret(At(t, x).key, At(t, p).key)
  /\ At(t, x).parentHash = HashUnder(t, p, x)

Backed(t) == \A p \in Nat : At(t, p) # Blank /\ ~IsLeaf(p) => \E x : Backs(t, p, x)

ValidTree(t) ==
  OneNodePerKey(t) /\ PlainLeaves(t) /\ UnmergedFit(t) /\ HashesOfNext(t) /\ Backed(t)

LEMMA OneSecretBefore ==
  \A a, b, c : NextSecret(a, c) /\ NextSecret(b, c) => a = b
<1> SUFFICES ASSUME NEW a, NEW b, NEW c, NextSecret(a, c), NextSecret(b, c)  PROVE a = b
  OBVIOUS
<1>1. PICK f : \E j \in Nat : a = PathKey(f, j) /\ c = PathKey(f, j + 1)
  BY DEF NextSecret
<1>2. PICK j \in Nat : a = PathKey(f, j) /\ c = PathKey(f, j + 1)
  BY <1>1
<1>3. PICK g : \E k \in Nat : b = PathKey(g, k) /\ c = PathKey(g, k + 1)
  BY DEF NextSecret
<1>4. PICK k \in Nat : b = PathKey(g, k) /\ c = PathKey(g, k + 1)
  BY <1>3
<1>5. f = g /\ j + 1 = k + 1
  BY <1>2, <1>4 DEF PathKey
<1>6. j = k
  BY <1>5
<1> QED
  BY <1>2, <1>4, <1>5, <1>6

LEMMA CoveredOnce ==
  ASSUME NEW t, NEW h, IsTreeOf(t, h), ValidTree(t), NEW p \in Parents(t)
  PROVE  CoveredByOne(t, p)
<1>1. h \in Nat /\ DOMAIN t = Full(h) /\ Full(h) \subseteq Nat /\ \A n \in Full(h) : IsNode(t[n])
  BY TreeShape
<1>2. p \in Full(h) /\ t[p] # Blank /\ ~IsLeaf(p) /\ At(t, p) = t[p] /\ p \in Nat
  BY <1>1 DEF Parents, NonBlank, At
<1>3. PICK x : Backs(t, p, x)
  BY <1>2 DEF ValidTree, Backed
<1>4. NextUp(t, x, p) /\ At(t, x) # Blank /\ NextSecret(At(t, x).key, At(t, p).key) /\ At(t, x).parentHash = HashUnder(t, p, x)
  BY <1>3 DEF Backs
<1>5. FindFirstNonBlankAncestor(t, x) = p /\ x \in Full(h) /\ x # RootOf(t)
  BY <1>4, NextUpIs
<1>6. x \in Block(p) /\ x # p /\ At(t, x) = t[x]
  BY <1>1, <1>4, <1>5 DEF NextUp, At
<1>7. TreeHashes(t, EmptyCache) = AllHashes(t)
  <2>1. Coherent(t, EmptyCache)
    BY EmptyCacheIsCoherent
  <2> QED
    BY <2>1, TreeHashesAre
<1>8. \A n : n \in Linked(t) <=> /\ n \in NonBlank(t) \ {RootOf(t)}
                                 /\ IsLeaf(n) => t[n].key[1] = "path"
                                 /\ t[n].parentHash = CalculateParentHash(t, AllHashes(t), n)
  <2>1. \A n : n \in Linked(t) <=> /\ n \in NonBlank(t) \ {RootOf(t)}
                                   /\ IsLeaf(n) => t[n].key[1] = "path"
                                   /\ t[n].parentHash = CalculateParentHash(t, TreeHashes(t, EmptyCache), n)
    BY DEF Linked
  <2> QED
    BY <1>7, <2>1
<1>9. Subtree(p) = Block(p)
  BY SubtreeIs
<1>10. x \in Linked(t)
  <2>1. t[x].parentHash = CalculateParentHash(t, AllHashes(t), x)
    BY <1>4, <1>6, ParentHashIs
  <2>2. t[x].key[1] = "path"
    <3>1. \E f, j : t[x].key = PathKey(f, j)
      BY <1>4, <1>6 DEF NextSecret
    <3> QED
      BY <3>1 DEF PathKey
  <2>3. x \in NonBlank(t) \ {RootOf(t)}
    BY <1>1, <1>4, <1>5, <1>6 DEF NonBlank
  <2> QED
    BY <1>8, <2>1, <2>2, <2>3
<1>11. x \in CoveredFrom(t, Linked(t), p)
  BY <1>5, <1>6, <1>9, <1>10 DEF CoveredFrom
<1>12. ASSUME NEW z \in CoveredFrom(t, Linked(t), p)  PROVE z = x
  <2>1. z \in Linked(t) /\ FindFirstNonBlankAncestor(t, z) = p
    BY <1>12 DEF CoveredFrom
  <2>2. z \in NonBlank(t) /\ z # RootOf(t) /\ t[z].parentHash = CalculateParentHash(t, AllHashes(t), z)
    BY <1>8, <2>1
  <2>3. z \in Full(h) /\ z \in Nat /\ At(t, z) = t[z] /\ t[z] # Blank
    BY <1>1, <2>2 DEF NonBlank, At
  <2>4. t[z].parentHash.key = t[p].key
    <3> DEFINE s == IF z < p THEN Right(p) ELSE Left(p)
               U == ToSet(t[p].unmergedLeaves)
               S == IF U = {} THEN AllHashes(t)[s] ELSE HashWithout(t, U, s)
    <3>1. CalculateParentHash(t, AllHashes(t), z) = [key |-> t[p].key, sibling |-> S]
      BY <1>2, <2>1, <2>2 DEF CalculateParentHash
    <3> HIDE DEF S
    <3> QED
      BY <2>2, <3>1
  <2>5. t[p].key # NoKey
    BY <1>1, <1>2 DEF IsNode
  <2>6. t[z].parentHash # NoHash
    BY <2>4, <2>5 DEF NoHash
  <2>7. NextSecret(t[z].key, t[z].parentHash.key)
    BY <2>3, <2>6 DEF ValidTree, HashesOfNext
  <2>8. t[z].key = t[x].key
    BY <1>2, <1>4, <1>6, <2>4, <2>7, OneSecretBefore
  <2> QED
    BY <1>1, <1>4, <1>5, <1>6, <2>3, <2>8 DEF ValidTree, OneNodePerKey
<1>13. CoveredFrom(t, Linked(t), p) = {x}
  <2> DEFINE C == CoveredFrom(t, Linked(t), p)
  <2>1. x \in C /\ \A z \in C : z = x
    BY <1>11, <1>12
  <2> HIDE DEF C
  <2>2. C = {x}
    BY <2>1
  <2> QED
    BY <2>2 DEF C
<1> QED
  BY <1>13 DEF CoveredByOne

LEMMA UnmergedIsAccepted ==
  ASSUME NEW t, NEW h, IsTreeOf(t, h), NEW p \in Full(h), ~IsLeaf(p), NEW l, UnmergedAt(t, p, l)
  PROVE  /\ UnmergedLeafAccepted(t, p, l)
         /\ LeafToNodeIndex(l) \in Leaves(t) /\ p \in Above(t, LeafToNodeIndex(l))
<1> DEFINE y == LeafToNodeIndex(l)
           path == AncestorsOf(t, y)
<1>1. h \in Nat /\ DOMAIN t = Full(h) /\ Full(h) \subseteq Nat
  BY TreeShape
<1>2. /\ l \in Nat /\ y \in Block(p) /\ At(t, y) # Blank
      /\ \A x \in Nat : x # y /\ y \in Block(x) /\ x \in Block(p) /\ At(t, x) # Blank
                          => l \in ToSet(At(t, x).unmergedLeaves)
  BY DEF UnmergedAt
<1>3. y \in Full(h) /\ t[y] # Blank /\ IsLeaf(y)
  <2>1. IsLeaf(y)
    BY <1>2, LeafNumbers
  <2> QED
    BY <1>1, <1>2, <2>1 DEF At
<1>4. y # p
  BY <1>3
<1>5. PathFrom(y, h, path) /\ Above(t, y) = {z \in Full(h) \ {y} : y \in Block(z)}
  BY <1>3, AboveNode
<1>6. Above(t, y) = {path[i] : i \in DOMAIN path}
  BY DEF Above, ToSet
<1>7. p \in Above(t, y) /\ y \in Leaves(t)
  BY <1>1, <1>2, <1>3, <1>4, <1>5 DEF Leaves, NonBlank
<1>8. UnmergedLeafAccepted(t, p, l)
  <2> HIDE DEF path
  <2>1. PICK k \in DOMAIN path : path[k] = p
    BY <1>6, <1>7
  <2>2. DOMAIN path \subseteq Nat
    <3>1. DOMAIN path = 1 .. h - Level(y) /\ Level(y) \in Nat
      BY <1>1, <1>3, <1>5, NodeBasics DEF PathFrom
    <3> QED
      BY <1>1, <3>1
  <2>3. ASSUME NEW i \in DOMAIN path, \A j \in 1 .. i : path[j] # p, t[path[i]] # Blank
        PROVE  l \in ToSet(t[path[i]].unmergedLeaves)
    <3>1. i < k
      <4>1. k \in Nat /\ i \in Nat /\ 1 <= k
        <5>1. 1 <= k
          BY <1>5, <2>1 DEF PathFrom
        <5> QED
          BY <2>2, <5>1
      <4>2. ~(k <= i)
        BY <2>1, <2>3, <4>1
      <4> QED
        BY <4>1, <4>2
    <3>2. path[i] \in Block(p)
      <4>1. i <= k
        BY <2>2, <3>1
      <4> QED
        BY <1>1, <1>3, <1>5, <2>1, <4>1, PathGrows
    <3>3. path[i] \in Full(h) /\ path[i] # y /\ y \in Block(path[i])
      BY <1>5, <1>6
    <3>4. path[i] \in Nat /\ At(t, path[i]) = t[path[i]]
      BY <1>1, <3>3 DEF At
    <3> QED
      BY <1>2, <2>3, <3>2, <3>3, <3>4
  <2> DEFINE below == {i \in DOMAIN path : \A j \in 1 .. i : path[j] # p}
  <2>4. \A i \in below : t[path[i]] # Blank => l \in ToSet(t[path[i]].unmergedLeaves)
    BY <2>3
  <2> QED
    BY <1>3, <2>4 DEF UnmergedLeafAccepted, path
<1> QED
  BY <1>7, <1>8

UnmergedRight(t) ==
  \A p \in Parents(t) :
    LET unmerged == t[p].unmergedLeaves
    IN  /\ \A i \in DOMAIN unmerged :
             /\ LeafToNodeIndex(unmerged[i]) \in Leaves(t)
             /\ p \in Above(t, LeafToNodeIndex(unmerged[i]))
        /\ \A i, j \in DOMAIN unmerged : i < j => unmerged[i] < unmerged[j]

LEMMA ValidTreeIsAccepted ==
  ASSUME NEW t, NEW h, IsTreeOf(t, h), NEW e, SoundTree(t, e), ValidTree(t)
  PROVE  ValidateRatchetTree(t, FreshHash(t, RootOf(t))) /\ UnmergedRight(t)
<1>1. h \in Nat /\ DOMAIN t = Full(h) /\ Full(h) \subseteq Nat
  BY TreeShape
<1>2. \A n \in NonBlank(t) : n \in Nat /\ n \in Full(h) /\ t[n] # Blank /\ At(t, n) = t[n]
  BY <1>1 DEF NonBlank, At
<1>3. \A m, n \in NonBlank(t) : t[m].key = t[n].key => m = n
  BY <1>2 DEF ValidTree, OneNodePerKey
<1>4. \A m, n \in Leaves(t) : t[m].client = t[n].client => m = n
  <2> TAKE m, n \in Leaves(t)
  <2> HAVE t[m].client = t[n].client
  <2>1. LeafAt(t, t[m].client, m) /\ LeafAt(t, t[m].client, n)
    BY <1>2 DEF LeafAt, Leaves
  <2> QED
    BY <2>1 DEF SoundTree
<1>5. \A p \in Parents(t) :
        /\ \A l \in ToSet(t[p].unmergedLeaves) : UnmergedAt(t, p, l)
        /\ Rising(t[p].unmergedLeaves) /\ p \in Full(h) /\ ~IsLeaf(p)
  BY <1>2 DEF ValidTree, UnmergedFit, Parents
<1>6. \A p \in Parents(t) : \A l \in ToSet(t[p].unmergedLeaves) :
        /\ UnmergedLeafAccepted(t, p, l)
        /\ LeafToNodeIndex(l) \in Leaves(t) /\ p \in Above(t, LeafToNodeIndex(l))
  BY <1>5, UnmergedIsAccepted
<1>7. VerifyParentHashes(t)
  BY CoveredOnce, ParentHashesVerify
<1>8. UnmergedRight(t)
  <2> SUFFICES ASSUME NEW p \in Parents(t)
               PROVE  LET unmerged == t[p].unmergedLeaves
                      IN  /\ \A i \in DOMAIN unmerged :
                               /\ LeafToNodeIndex(unmerged[i]) \in Leaves(t)
                               /\ p \in Above(t, LeafToNodeIndex(unmerged[i]))
                          /\ \A i, j \in DOMAIN unmerged : i < j => unmerged[i] < unmerged[j]
    BY DEF UnmergedRight
  <2>1. \A i \in DOMAIN t[p].unmergedLeaves : t[p].unmergedLeaves[i] \in ToSet(t[p].unmergedLeaves)
    BY DEF ToSet
  <2>2. \A i \in DOMAIN t[p].unmergedLeaves :
          /\ LeafToNodeIndex(t[p].unmergedLeaves[i]) \in Leaves(t)
          /\ p \in Above(t, LeafToNodeIndex(t[p].unmergedLeaves[i]))
    BY <1>6, <2>1
  <2> QED
    BY <1>5, <2>2 DEF Rising
<1> QED
  BY <1>3, <1>4, <1>6, <1>7, <1>8 DEF ValidateRatchetTree

(***************************************************************************)
(* A commit keeps a tree valid.  Below a node that is kept, everything is  *)
(* kept but for the leaves that are added.                                 *)
(***************************************************************************)
AddedUnder(old, new, m, place, x) ==
  \E i \in 1 .. Len(m.adds) : x = place[i] /\ At(old, x) = Blank /\ At(new, x) = m.adds[i] /\ At(new, x) # Blank

KeptUnder(old, new, m, place, x) ==
  \/ IsLeaf(x) /\ AddedUnder(old, new, m, place, x)
  \/ At(old, x) = Blank /\ At(new, x) = Blank
  \/ KeptNode(old, new, m, place, x) /\ At(new, x) # Blank

LEMMA KeptBelow ==
  ASSUME NEW old, NEW new, NEW e, NEW c, NEW m, NEW place, CommitMade(old, new, e, c, m, place),
         NEW p \in Nat, KeptNode(old, new, m, place, p), NEW x \in Block(p)
  PROVE  KeptUnder(old, new, m, place, x) /\ x \in Nat
<1>1. CommitOf(old, e, c, m, new) /\ Changed(old, new, m, place)
  BY DEF CommitMade
<1>2. x \in Nat /\ x \in Block(x)
  BY NodeBasics
<1>3. Spared(m, x)
  <2>1. \A n \in Block(x) : n \in Block(p)
    BY <1>2, BlocksNest
  <2> QED
    BY <2>1 DEF KeptNode, Spared
<1>4. x \notin RemovedAt(m.removes)
  BY <1>2, <1>3 DEF Spared, Renewed
<1>5. CASE \E i \in 1 .. Len(m.adds) : place[i] = x
  <2>1. PICK i \in 1 .. Len(m.adds) : place[i] = x
    BY <1>5
  <2>2. IsLeaf(x) /\ At(new, x) = m.adds[i] /\ At(old, x) = Blank
    BY <1>1, <1>4, <2>1 DEF Changed
  <2>3. m.adds[i] # Blank
    BY <1>1 DEF CommitOf, ForTheTree
  <2> QED
    BY <1>2, <2>1, <2>2, <2>3 DEF KeptUnder, AddedUnder
<1>6. CASE \A i \in 1 .. Len(m.adds) : place[i] # x
  <2>1. IF At(old, x) = Blank THEN At(new, x) = Blank
        ELSE Unmerging(At(old, x), At(new, x), LeavesBelow(place, Len(m.adds), x))
    BY <1>1, <1>2, <1>3, <1>6 DEF Changed
  <2>2. CASE At(old, x) = Blank
    BY <1>2, <2>1, <2>2 DEF KeptUnder
  <2>3. CASE At(old, x) # Blank
    <3>1. At(new, x) # Blank
      BY <2>1, <2>3 DEF Unmerging
    <3> QED
      BY <1>2, <1>3, <1>6, <2>1, <2>3, <3>1 DEF KeptUnder, KeptNode
  <2> QED
    BY <2>2, <2>3
<1> QED
  BY <1>5, <1>6

LEMMA LeavesBelowAre ==
  ASSUME NEW place, NEW n, NEW x
  PROVE  \A l : l \in LeavesBelow(place, n, x) <=> \E i \in 1 .. n : place[i] \in Block(x) /\ l = NodeToLeafIndex(place[i])
BY DEF LeavesBelow

LEMMA KeysStayUnique ==
  ASSUME NEW old, NEW new, NEW e, NEW c, NEW m, NEW place, CommitMade(old, new, e, c, m, place), m.epoch = e,
         OneNodePerKey(old)
  PROVE  OneNodePerKey(new)
<1> SUFFICES ASSUME NEW x \in Nat, NEW y \in Nat, At(new, x) # Blank, At(new, y) # Blank, At(new, x).key = At(new, y).key
             PROVE  x = y
  BY DEF OneNodePerKey
<1>1. SoundTree(new, e + 1) /\ PathKnown(new, m)
  BY SoundTreeStep, PathBecomesKnown
<1>2. ASSUME NEW u \in Nat, At(new, u) # Blank
      PROVE  \/ \E i : At(new, u).key = PathKey(e, i)
             \/ \E d : At(new, u).key = UpdateKey(e, d) \/ At(new, u).key = PackageKey(e, d)
             \/ KeptNode(old, new, m, place, u)
  BY <1>2, OriginOfNode, NodesOfCommit
<1>3. CASE \E i : At(new, x).key = PathKey(e, i)
  <2>1. PICK i : At(new, x).key = PathKey(e, i)
    BY <1>3
  <2>2. (i = 0 /\ SenderNode(m, x)) \/ (i \in DOMAIN PathOf(new, m.sender) /\ x = PathOf(new, m.sender)[i])
    BY <1>1, <2>1 DEF PathKnown
  <2>3. (i = 0 /\ SenderNode(m, y)) \/ (i \in DOMAIN PathOf(new, m.sender) /\ y = PathOf(new, m.sender)[i])
    BY <1>1, <2>1 DEF PathKnown
  <2>4. 0 \notin DOMAIN PathOf(new, m.sender)
    <3>1. m.path # NoPath
      BY <1>1, <2>1 DEF PathKnown
    <3>2. PICK a : HasPath(new, m.sender, a, m.epoch)
      BY <1>1, <3>1 DEF PathKnown
    <3>3. PICK h : Ascending(h, LeafToNodeIndex(m.sender), PathOf(new, m.sender))
      BY <3>2 DEF HasPath
    <3> QED
      BY <3>3 DEF Ascending
  <2> QED
    BY <2>2, <2>3, <2>4 DEF SenderNode
<1>4. CASE \E d : At(new, x).key = UpdateKey(e, d) \/ At(new, x).key = PackageKey(e, d)
  <2>1. PICK d : At(new, x).key = UpdateKey(e, d) \/ At(new, x).key = PackageKey(e, d)
    BY <1>4
  <2>2. LeafAt(new, d, x) /\ LeafAt(new, d, y)
    BY <1>1, <2>1 DEF SoundTree
  <2> QED
    BY <1>1, <2>2 DEF SoundTree
<1>5. CASE KeptNode(old, new, m, place, x)
  <2>1. At(new, x).key = At(old, x).key /\ At(old, x).key[2] \in Nat /\ At(old, x).key[2] < e /\ At(old, x) # Blank
    BY <1>5, NodesOfCommit DEF KeptNode
  <2>2. e \in Nat
    BY DEF CommitMade
  <2>3. At(new, y).key[2] # e
    BY <2>1, <2>2
  <2>4. KeptNode(old, new, m, place, y)
    BY <1>2, <2>3, KeysAreNotEmpty
  <2>5. At(new, y).key = At(old, y).key /\ At(old, y) # Blank
    BY <2>4, NodesOfCommit DEF KeptNode
  <2> QED
    BY <2>1, <2>5 DEF OneNodePerKey
<1> QED
  BY <1>2, <1>3, <1>4, <1>5

LEMMA LeavesStayPlain ==
  ASSUME NEW old, NEW new, NEW e, NEW c, NEW m, NEW place, CommitMade(old, new, e, c, m, place), PlainLeaves(old)
  PROVE  PlainLeaves(new)
<1> SUFFICES ASSUME NEW x \in Nat, IsLeaf(x)  PROVE At(new, x).unmergedLeaves = <<>>
  BY DEF PlainLeaves
<1>1. CASE At(new, x) = Blank
  BY <1>1, BlankIsNode
<1>2. CASE KeptNode(old, new, m, place, x)
  <2>1. LeavesBelow(place, Len(m.adds), x) = {}
    <3>1. Block(x) = {x} /\ \A i \in 1 .. Len(m.adds) : place[i] # x
      BY <1>2, NodeBasics DEF KeptNode
    <3> QED
      BY <3>1 DEF LeavesBelow
  <2>2. At(new, x) = At(old, x)
    BY <1>2, <2>1 DEF KeptNode, Unmerging
  <2> QED
    BY <2>2 DEF PlainLeaves
<1>3. CASE At(new, x) # Blank /\ ~KeptNode(old, new, m, place, x)
  <2>1. AddedNode(m, place, new, x) \/ UpdatedNode(m, new, x) \/ SenderNode(m, x) \/ PathNode(m, new, x)
    BY <1>3, OriginOfNode
  <2> QED
    BY <2>1, NodesOfCommit
<1> QED
  BY <1>1, <1>2, <1>3

\* Only a node that is kept has unmerged leaves.
LEMMA UnmergedIsKept ==
  ASSUME NEW old, NEW new, NEW e, NEW c, NEW m, NEW place, CommitMade(old, new, e, c, m, place),
         NEW x \in Nat, At(new, x).unmergedLeaves # <<>>
  PROVE  KeptNode(old, new, m, place, x)
<1>1. At(new, x) # Blank
  BY BlankIsNode
<1>2. SUFFICES ASSUME ~KeptNode(old, new, m, place, x)  PROVE FALSE
  OBVIOUS
<1>3. AddedNode(m, place, new, x) \/ UpdatedNode(m, new, x) \/ SenderNode(m, x) \/ PathNode(m, new, x)
  BY <1>1, <1>2, OriginOfNode
<1> QED
  BY <1>3, NodesOfCommit

\* An unmerged leaf of before still is one, and so are the added leaves.
LEMMA UnmergedStays ==
  ASSUME NEW old, NEW new, NEW e, NEW c, NEW m, NEW place, CommitMade(old, new, e, c, m, place),
         NEW p \in Nat, KeptNode(old, new, m, place, p), NEW l, UnmergedAt(old, p, l)
  PROVE  UnmergedAt(new, p, l)
<1> DEFINE y == LeafToNodeIndex(l)
<1>1. /\ l \in Nat /\ y \in Block(p) /\ At(old, y) # Blank
      /\ \A z \in Block(p) : IsLeaf(z) /\ z < y => At(old, z) # Blank
      /\ \A x \in Nat : x # y /\ y \in Block(x) /\ x \in Block(p) /\ At(old, x) # Blank
                          => l \in ToSet(At(old, x).unmergedLeaves)
  BY DEF UnmergedAt
<1>2. \A x \in Block(p) : At(old, x) # Blank => At(new, x) # Blank
  BY KeptBelow DEF KeptUnder, AddedUnder
<1>3. ASSUME NEW x \in Nat, x # y, y \in Block(x), x \in Block(p), At(new, x) # Blank
      PROVE  l \in ToSet(At(new, x).unmergedLeaves)
  <2>1. ~IsLeaf(x)
    BY <1>3, NodeBasics
  <2>2. KeptUnder(old, new, m, place, x)
    BY <1>3, KeptBelow
  <2>3. KeptNode(old, new, m, place, x)
    BY <1>3, <2>1, <2>2 DEF KeptUnder
  <2>4. l \in ToSet(At(old, x).unmergedLeaves)
    BY <1>1, <1>3, <2>3 DEF KeptNode
  <2> QED
    BY <2>3, <2>4 DEF KeptNode, Unmerging
<1> HIDE DEF y
<1>4. /\ l \in Nat /\ y \in Block(p) /\ At(new, y) # Blank
      /\ \A z \in Block(p) : IsLeaf(z) /\ z < y => At(new, z) # Blank
  BY <1>1, <1>2
<1> QED
  BY <1>3, <1>4 DEF UnmergedAt, y

LEMMA AddedIsUnmerged ==
  ASSUME NEW old, NEW new, NEW e, NEW c, NEW m, NEW place, CommitMade(old, new, e, c, m, place),
         NEW p \in Nat, KeptNode(old, new, m, place, p), NEW l \in LeavesBelow(place, Len(m.adds), p)
  PROVE  /\ UnmergedAt(new, p, l)
         /\ LeafToNodeIndex(l) \in Block(p) /\ IsLeaf(LeafToNodeIndex(l)) /\ At(old, LeafToNodeIndex(l)) = Blank
<1>1. CommitOf(old, e, c, m, new) /\ Changed(old, new, m, place)
  BY DEF CommitMade
<1>2. PICK i \in 1 .. Len(m.adds) : place[i] \in Block(p) /\ l = NodeToLeafIndex(place[i])
  BY LeavesBelowAre
<1> DEFINE y == place[i]
<1>3. y \in Nat /\ IsLeaf(y) /\ At(new, y) = m.adds[i] /\ m.adds[i] # Blank
  BY <1>1 DEF Changed, CommitOf, ForTheTree
<1>4. l \in Nat /\ LeafToNodeIndex(l) = y
  BY <1>2, <1>3, LeafNodesNumber
<1>5. FilledBefore(new, y)
  BY <1>1 DEF Changed, Packed
<1>6. \A z \in Block(p) : IsLeaf(z) /\ z < y => At(new, z) # Blank
  BY <1>5, NodeBasics DEF FilledBefore
<1>7. ASSUME NEW x \in Nat, x # y, y \in Block(x), x \in Block(p), At(new, x) # Blank
      PROVE  l \in ToSet(At(new, x).unmergedLeaves)
  <2>1. ~IsLeaf(x)
    BY <1>7, NodeBasics
  <2>2. KeptUnder(old, new, m, place, x)
    BY <1>7, KeptBelow
  <2>3. KeptNode(old, new, m, place, x)
    BY <1>7, <2>1, <2>2 DEF KeptUnder
  <2>4. l \in LeavesBelow(place, Len(m.adds), x)
    BY <1>2, <1>7, LeavesBelowAre
  <2> QED
    BY <2>3, <2>4 DEF KeptNode, Unmerging
<1>8. At(old, y) = Blank
  <2>1. KeptUnder(old, new, m, place, y)
    BY <1>2, KeptBelow
  <2> QED
    BY <2>1 DEF KeptUnder, AddedUnder, KeptNode
<1> HIDE DEF y
<1>9. y \in Block(p)
  BY <1>2 DEF y
<1> QED
  BY <1>3, <1>4, <1>6, <1>7, <1>8, <1>9 DEF UnmergedAt

LEMMA UnmergedStaysFit ==
  ASSUME NEW old, NEW new, NEW e, NEW c, NEW m, NEW place, CommitMade(old, new, e, c, m, place), UnmergedFit(old)
  PROVE  UnmergedFit(new)
<1> SUFFICES ASSUME NEW p \in Nat, At(new, p) # Blank
             PROVE  /\ \A l \in ToSet(At(new, p).unmergedLeaves) : UnmergedAt(new, p, l)
                    /\ Rising(At(new, p).unmergedLeaves)
  BY DEF UnmergedFit
<1>1. CASE At(new, p).unmergedLeaves = <<>>
  BY <1>1 DEF ToSet, Rising
<1>2. CASE At(new, p).unmergedLeaves # <<>>
  <2> DEFINE s == At(old, p).unmergedLeaves
             r == At(new, p).unmergedLeaves
             W == LeavesBelow(place, Len(m.adds), p)
  <2>1. KeptNode(old, new, m, place, p)
    BY <1>2, UnmergedIsKept
  <2>2. ToSet(r) = ToSet(s) \union W /\ Lengthened(s, r, W)
    BY <2>1 DEF KeptNode, Unmerging
  <2>3. (\A l \in ToSet(s) : UnmergedAt(old, p, l)) /\ Rising(s)
    BY <2>1 DEF KeptNode, UnmergedFit
  <2>4. \A l \in ToSet(r) : UnmergedAt(new, p, l)
    BY <2>1, <2>2, <2>3, UnmergedStays, AddedIsUnmerged
  <2>5. ASSUME NEW l \in ToSet(s), NEW k \in W  PROVE l < k
    <3>1. /\ l \in Nat /\ At(old, LeafToNodeIndex(l)) # Blank
          /\ \A z \in Block(p) : IsLeaf(z) /\ z < LeafToNodeIndex(l) => At(old, z) # Blank
      BY <2>3 DEF UnmergedAt
    <3>2. LeafToNodeIndex(k) \in Block(p) /\ IsLeaf(LeafToNodeIndex(k)) /\ At(old, LeafToNodeIndex(k)) = Blank
      BY <2>1, AddedIsUnmerged
    <3>3. k \in Nat
      BY <2>1, AddedIsUnmerged DEF UnmergedAt
    <3>4. ~(LeafToNodeIndex(k) < LeafToNodeIndex(l)) /\ LeafToNodeIndex(k) # LeafToNodeIndex(l)
      BY <3>1, <3>2
    <3> QED
      BY <3>1, <3>3, <3>4 DEF LeafToNodeIndex
  <2> HIDE DEF s, r, W
  <2>6. /\ s \in Seq(Nat) /\ r \in Seq(Nat) /\ Len(s) <= Len(r) /\ Len(s) \in Nat /\ Len(r) \in Nat
        /\ DOMAIN s = 1 .. Len(s) /\ DOMAIN r = 1 .. Len(r)
        /\ \A i \in 1 .. Len(s) : r[i] = s[i]
        /\ \A i \in Len(s) + 1 .. Len(r) : r[i] \in W
        /\ \A i, j \in Len(s) + 1 .. Len(r) : i < j => r[i] < r[j]
    BY <2>2 DEF Lengthened
  <2>7. ASSUME NEW i \in DOMAIN r, NEW j \in DOMAIN r, i < j  PROVE r[i] < r[j]
    <3>1. i \in Nat /\ j \in Nat /\ 1 <= i /\ j <= Len(r)
      BY <2>6
    <3>2. CASE j <= Len(s)
      <4>1. i \in DOMAIN s /\ j \in DOMAIN s
        BY <2>6, <2>7, <3>1, <3>2
      <4> QED
        BY <2>3, <2>6, <2>7, <4>1 DEF Rising
    <3>3. CASE i <= Len(s) /\ ~(j <= Len(s))
      <4>1. i \in DOMAIN s /\ j \in Len(s) + 1 .. Len(r)
        BY <2>6, <3>1, <3>3
      <4>2. s[i] \in ToSet(s) /\ r[j] \in W /\ r[i] = s[i]
        BY <2>6, <4>1 DEF ToSet
      <4> QED
        BY <2>5, <4>2
    <3>4. CASE ~(i <= Len(s))
      <4>1. i \in Len(s) + 1 .. Len(r) /\ j \in Len(s) + 1 .. Len(r)
        BY <2>6, <2>7, <3>1, <3>4
      <4> QED
        BY <2>6, <2>7, <4>1
    <3> QED
      BY <3>2, <3>3, <3>4
  <2>8. Rising(r)
    BY <2>7 DEF Rising
  <2> QED
    BY <2>4, <2>8 DEF r
<1> QED
  BY <1>1, <1>2

LEMMA ExcludingFromNone ==
  \A U : Excluding(<<>>, U) = <<>>
<1> TAKE U
<1>1. {i \in DOMAIN <<>> : <<>>[i] \notin U} = {}
  OBVIOUS
<1>2. Excluding(<<>>, U) = AtPositions(<<>>, {})
  BY <1>1 DEF Excluding
<1>3. Cardinality({}) = 0
  BY FS_EmptySet
<1> DEFINE s == AtPositions(<<>>, {})
<1>4. DOMAIN s = {} /\ s = [k \in DOMAIN s |-> s[k]]
  BY <1>3 DEF AtPositions
<1> HIDE DEF s
<1>5. s = <<>>
  BY <1>4
<1> QED
  BY <1>2, <1>5 DEF s

\* What the hash without its unmerged leaves says of the nodes below a kept node.
LEMMA ContentStays ==
  ASSUME NEW old, NEW new, NEW e, NEW c, NEW m, NEW place, CommitMade(old, new, e, c, m, place),
         UnmergedFit(old), PlainLeaves(old),
         NEW p \in Nat, KeptNode(old, new, m, place, p), NEW x \in Block(p),
         NEW U, U = ToSet(At(old, p).unmergedLeaves), NEW V, V = ToSet(At(new, p).unmergedLeaves),
         x \in DOMAIN old, x \in DOMAIN new
  PROVE  ContentWithout(new, V, x) = ContentWithout(old, U, x)
<1> DEFINE W == LeavesBelow(place, Len(m.adds), p)
           a == At(old, x)
           b == At(new, x)
<1>1. old[x] = a /\ new[x] = b
  BY DEF At
<1>2. V = U \union W
  BY DEF KeptNode, Unmerging
<1>3. KeptUnder(old, new, m, place, x) /\ x \in Nat
  BY KeptBelow
<1>4. CommitOf(old, e, c, m, new) /\ Changed(old, new, m, place)
  BY DEF CommitMade
<1>5. ContentWithout(new, V, x) = (IF IsLeaf(x) /\ NodeToLeafIndex(x) \in V THEN Content(Blank)
                                  ELSE [key |-> b.key, unmergedLeaves |-> Excluding(b.unmergedLeaves, V)])
  BY <1>1 DEF ContentWithout
<1>6. ContentWithout(old, U, x) = (IF IsLeaf(x) /\ NodeToLeafIndex(x) \in U THEN Content(Blank)
                                  ELSE [key |-> a.key, unmergedLeaves |-> Excluding(a.unmergedLeaves, U)])
  BY <1>1 DEF ContentWithout
<1>7. Content(Blank) = [key |-> NoKey, unmergedLeaves |-> <<>>]
  BY BlankIsNode DEF Content
<1> HIDE DEF a, b, W
<1>8. a = Blank => ContentWithout(old, U, x) = Content(Blank)
  BY <1>6, <1>7, BlankIsNode, ExcludingFromNone
<1>9. b = Blank => ContentWithout(new, V, x) = Content(Blank)
  BY <1>5, <1>7, BlankIsNode, ExcludingFromNone
<1>10. CASE IsLeaf(x) /\ AddedUnder(old, new, m, place, x)
  <2>1. PICK i \in 1 .. Len(m.adds) : x = place[i] /\ a = Blank
    BY <1>10 DEF AddedUnder, a
  <2>2. NodeToLeafIndex(x) \in V
    BY <1>2, <2>1, LeavesBelowAre DEF W
  <2> QED
    BY <1>5, <1>8, <1>10, <2>1, <2>2
<1>11. CASE a = Blank /\ b = Blank
  BY <1>8, <1>9, <1>11
<1>12. CASE KeptNode(old, new, m, place, x)
  <2> DEFINE B == LeavesBelow(place, Len(m.adds), x)
  <2>1. Unmerging(a, b, B) /\ a # Blank /\ \A i \in 1 .. Len(m.adds) : place[i] # x
    BY <1>12 DEF KeptNode, a, b
  <2>2. b.key = a.key /\ Lengthened(a.unmergedLeaves, b.unmergedLeaves, B)
    BY <2>1 DEF Unmerging
  <2>3. CASE IsLeaf(x)
    <3>1. NodeToLeafIndex(x) \notin W
      <4> SUFFICES ASSUME NEW i \in 1 .. Len(m.adds), NodeToLeafIndex(x) = NodeToLeafIndex(place[i])  PROVE FALSE
        BY LeavesBelowAre DEF W
      <4>1. place[i] \in Nat /\ IsLeaf(place[i])
        BY <1>4 DEF Changed
      <4>2. LeafToNodeIndex(NodeToLeafIndex(x)) = x /\ LeafToNodeIndex(NodeToLeafIndex(place[i])) = place[i]
        BY <1>3, <2>3, <4>1, LeafNodesNumber
      <4> QED
        BY <2>1, <4>2
    <3>2. a.unmergedLeaves = <<>> /\ b.unmergedLeaves = <<>>
      BY <1>3, <2>3, LeavesStayPlain DEF PlainLeaves, a, b
    <3>3. Excluding(a.unmergedLeaves, U) = <<>> /\ Excluding(b.unmergedLeaves, V) = <<>>
      BY <3>2, ExcludingFromNone
    <3> QED
      BY <1>2, <1>5, <1>6, <2>2, <3>1, <3>3
  <2>4. CASE ~IsLeaf(x)
    <3>1. B \subseteq W
      <4>1. \A y \in Block(x) : y \in Block(p)
        BY <1>3, BlocksNest
      <4> QED
        BY <4>1, LeavesBelowAre DEF W
    <3>2. ASSUME NEW l \in ToSet(a.unmergedLeaves)  PROVE l \in U <=> l \in V
      <4>1. UnmergedAt(old, x, l)
        BY <1>3, <2>1, <3>2 DEF UnmergedFit, a
      <4>2. l \notin W
        BY <4>1, AddedIsUnmerged DEF W, UnmergedAt
      <4> QED
        BY <1>2, <4>2
    <3>3. Excluding(b.unmergedLeaves, V) = Excluding(a.unmergedLeaves, U)
      <4>1. B \subseteq V
        BY <1>2, <3>1
      <4> HIDE DEF B
      <4> QED
        BY <2>2, <3>2, <4>1, ExcludingLonger
    <3> QED
      BY <1>5, <1>6, <2>2, <2>4, <3>3
  <2> QED
    BY <2>3, <2>4
<1> QED
  BY <1>3, <1>10, <1>11, <1>12 DEF KeptUnder, a, b

LEMMA HashStays ==
  ASSUME NEW old, NEW new, NEW e, NEW c, NEW m, NEW place, CommitMade(old, new, e, c, m, place),
         UnmergedFit(old), PlainLeaves(old),
         NEW p \in Nat, KeptNode(old, new, m, place, p), ~IsLeaf(p), NEW x
  PROVE  HashUnder(new, p, x) = HashUnder(old, p, x)
<1> DEFINE U == ToSet(At(old, p).unmergedLeaves)
           V == ToSet(At(new, p).unmergedLeaves)
           n == Other(p, x)
<1>1. CommitOf(old, e, c, m, new) /\ \E h : IsTreeOf(old, h)
  BY DEF CommitMade, CommitOf, ForTheTree
<1>2. PICK h : IsTreeOf(old, h)
  BY <1>1
<1>3. PICK k : IsTreeOf(new, k)
  BY <1>1, LeavesOfCommit
<1>4. At(old, p) # Blank /\ At(new, p) # Blank /\ At(new, p).key = At(old, p).key
  BY DEF KeptNode, Unmerging
<1>5. Block(p) \subseteq DOMAIN old
  BY <1>2, <1>4, TreeShape, NodeOfTree DEF At
<1>6. Block(p) \subseteq DOMAIN new
  BY <1>3, <1>4, TreeShape, NodeOfTree DEF At
<1>7. Block(n) \subseteq Block(p)
  BY ChildBasics DEF Other
<1> HIDE DEF n
<1>8. \A y \in Block(n) : ContentWithout(new, V, y) = ContentWithout(old, U, y)
  BY <1>5, <1>6, <1>7, ContentStays
<1> HIDE DEF U, V
<1>9. HashWithout(new, V, n) = [y \in Block(n) |-> ContentWithout(new, V, y)]
  BY HashWithoutIs
<1>10. HashWithout(old, U, n) = [y \in Block(n) |-> ContentWithout(old, U, y)]
  BY HashWithoutIs
<1>11. HashWithout(new, V, n) = HashWithout(old, U, n)
  BY <1>8, <1>9, <1>10
<1> QED
  BY <1>4, <1>11 DEF HashUnder, n, U, V

LEMMA BacksStays ==
  ASSUME NEW old, NEW new, NEW e, NEW c, NEW m, NEW place, CommitMade(old, new, e, c, m, place),
         UnmergedFit(old), PlainLeaves(old),
         NEW p \in Nat, KeptNode(old, new, m, place, p), ~IsLeaf(p), NEW x, Backs(old, p, x)
  PROVE  Backs(new, p, x)
<1>1. NextUp(old, x, p) /\ At(old, x) # Blank /\ NextSecret(At(old, x).key, At(old, p).key) /\ At(old, x).parentHash = HashUnder(old, p, x)
  BY DEF Backs
<1>2. x \in Nat /\ x \in Block(p) /\ x # p
  BY <1>1 DEF NextUp
<1>3. KeptNode(old, new, m, place, x)
  <2>1. KeptUnder(old, new, m, place, x)
    BY <1>2, KeptBelow
  <2> QED
    BY <1>1, <2>1 DEF KeptUnder, AddedUnder
<1>4. /\ At(new, x) # Blank /\ At(new, x).key = At(old, x).key /\ At(new, x).parentHash = At(old, x).parentHash
      /\ At(new, p) # Blank /\ At(new, p).key = At(old, p).key
  BY <1>3 DEF KeptNode, Unmerging
<1>5. ASSUME NEW z \in Nat, x \in Block(z), z \in Block(p), z # x, z # p  PROVE At(new, z) = Blank
  <2>1. At(old, z) = Blank
    BY <1>1, <1>5 DEF NextUp
  <2>2. ~IsLeaf(z)
    BY <1>5, NodeBasics
  <2>3. KeptUnder(old, new, m, place, z)
    BY <1>5, KeptBelow
  <2> QED
    BY <2>1, <2>2, <2>3 DEF KeptUnder, KeptNode
<1>6. NextUp(new, x, p)
  BY <1>2, <1>4, <1>5 DEF NextUp
<1>7. HashUnder(new, p, x) = HashUnder(old, p, x)
  BY HashStays
<1> QED
  BY <1>1, <1>4, <1>6, <1>7 DEF Backs

\* The new path and its parent hashes.
LinkedPath(t, l) == \A x \in ToSet(PathOf(t, l)) \union {LeafToNodeIndex(l)} : LinkedAt(t, x)

LEMMA CommitPathIsLinked ==
  ASSUME NEW old, NEW e, NEW c, NEW m, NEW new, CommitOf(old, e, c, m, new), m.path # NoPath
  PROVE  LinkedPath(new, m.sender)
<1> DEFINE t == CommitTree(old, e, c, m)
<1>1. new = PathMade(t, m.sender, c, e) /\ m.sender \in Nat
  BY DEF CommitOf
<1>2. PICK k : PathReady(t, k, LeafToNodeIndex(m.sender), Proposing(old, m))
  BY CommitTreeIs
<1>3. IsTreeOf(t, k) /\ LeafToNodeIndex(m.sender) \in Full(k)
  BY <1>2 DEF PathReady
<1>4. PathOf(new, m.sender) = PathOf(t, m.sender)
  BY PathOfCommit
<1> HIDE DEF t
<1>5. \A x \in ToSet(PathOf(t, m.sender)) \union {LeafToNodeIndex(m.sender)} : LinkedAt(new, x)
  BY <1>1, <1>3, PathIsLinked
<1> QED
  BY <1>4, <1>5 DEF LinkedPath

\* Node j of a path, which begins at the leaf.
PathAt(t, l, j) == IF j = 0 THEN LeafToNodeIndex(l) ELSE PathOf(t, l)[j]

PathNodeAt(t, l, e, j, x) ==
  /\ x = PathAt(t, l, j) /\ x \in Nat /\ At(t, x) # Blank /\ At(t, x).key = PathKey(e, j)
  /\ LeafToNodeIndex(l) \in Block(x) /\ x \in DOMAIN t

LEMMA PathNodeIs ==
  ASSUME NEW t, NEW l \in Nat, NEW c, NEW e, HasPath(t, l, c, e), NEW j, j = 0 \/ j \in DOMAIN PathOf(t, l)
  PROVE  PathNodeAt(t, l, e, j, PathAt(t, l, j))
<1> DEFINE s == LeafToNodeIndex(l)
           P == PathOf(t, l)
<1>1. PICK h : IsTreeOf(t, h) /\ s \in Full(h) /\ Ascending(h, s, P)
  BY DEF HasPath
<1>2. DOMAIN t = Full(h) /\ Full(h) \subseteq Nat
  BY <1>1, TreeShape
<1>3. CASE j = 0
  <2>1. At(t, s) # Blank /\ At(t, s).key = PathKey(e, 0)
    BY DEF HasPath
  <2>2. s \in Block(s) /\ s \in Nat /\ s \in DOMAIN t
    BY <1>1, <1>2, NodeBasics
  <2> QED
    BY <1>3, <2>1, <2>2 DEF PathNodeAt, PathAt
<1>4. CASE j \in DOMAIN P
  <2>1. At(t, P[j]) # Blank /\ At(t, P[j]).key = PathKey(e, j)
    BY <1>4 DEF HasPath
  <2>2. P[j] \in Full(h) /\ s \in Block(P[j]) /\ j # 0
    BY <1>1, <1>4 DEF Ascending
  <2> HIDE DEF s, P
  <2>3. PathAt(t, l, j) = P[j]
    BY <2>2 DEF PathAt, P
  <2> QED
    BY <1>2, <2>1, <2>2, <2>3 DEF PathNodeAt, s
<1> QED
  BY <1>3, <1>4

\* The nodes above a leaf that are not on its path are blank.
LEMMA PathClimbs ==
  ASSUME NEW t, NEW l \in Nat, NEW c, NEW e, HasPath(t, l, c, e), NEW j, j = 0 \/ j \in DOMAIN PathOf(t, l),
         NEW z \in Nat, PathAt(t, l, j) \in Block(z), z # PathAt(t, l, j), At(t, z) # Blank
  PROVE  \E k \in DOMAIN PathOf(t, l) : z = PathOf(t, l)[k] /\ j < k
<1> DEFINE s == LeafToNodeIndex(l)
           P == PathOf(t, l)
           x == PathAt(t, l, j)
<1>1. PICK h : IsTreeOf(t, h) /\ s \in Full(h) /\ Ascending(h, s, P)
  BY DEF HasPath
<1>2. x \in Nat /\ s \in Block(x)
  BY PathNodeIs DEF PathNodeAt
<1>3. s \in Block(z) /\ Level(x) < Level(z)
  BY <1>2, BlocksNest, BelowHasLowerLevel
<1>4. z # s
  <2>1. IsLeaf(s) /\ Block(s) = {s}
    BY LeafNumbers
  <2> QED
    BY <1>2, <2>1
<1>5. \E k \in DOMAIN P : P[k] = z
  BY <1>3, <1>4 DEF HasPath
<1>6. PICK k \in DOMAIN P : P[k] = z
  BY <1>5
<1>7. DOMAIN P = 1 .. Len(P) /\ Len(P) \in Nat
  BY <1>1 DEF Ascending
<1>8. j < k
  <2>1. CASE j = 0
    BY <1>7, <2>1
  <2>2. CASE j \in DOMAIN P
    <3>1. j # 0 /\ j \in Nat /\ k \in Nat
      BY <1>7, <2>2
    <3>2. x = P[j]
      BY <3>1 DEF PathAt
    <3>3. \A a, b \in DOMAIN P : a < b => Level(P[a]) < Level(P[b])
      <4> HIDE DEF P
      <4> QED
        BY <1>1 DEF Ascending
    <3>4. Level(x) \in Nat /\ Level(z) \in Nat
      BY <1>2, NodeBasics
    <3>8. z # x
      OBVIOUS
    <3> HIDE DEF x, P
    <3>5. k < j => Level(z) < Level(x)
      BY <1>6, <2>2, <3>2, <3>3
    <3>6. k # j
      BY <1>6, <3>2, <3>8
    <3>7. ~(k < j)
      <4>1. Level(x) < Level(z)
        BY <1>3
      <4> QED
        BY <3>4, <3>5, <4>1
    <3> QED
      BY <3>1, <3>6, <3>7
  <2> QED
    BY <2>1, <2>2
<1> QED
  BY <1>6, <1>8

LEMMA PathBacks ==
  ASSUME NEW t, NEW l \in Nat, NEW c, NEW e, HasPath(t, l, c, e), LinkedPath(t, l),
         NEW i \in DOMAIN PathOf(t, l), NEW j \in Nat, i = j + 1
  PROVE  Backs(t, PathOf(t, l)[i], PathAt(t, l, j))
<1> DEFINE s == LeafToNodeIndex(l)
           P == PathOf(t, l)
           p == P[i]
           x == PathAt(t, l, j)
<1>1. PICK h : IsTreeOf(t, h) /\ s \in Full(h) /\ Ascending(h, s, P)
  BY DEF HasPath
<1>2. /\ DOMAIN P = 1 .. Len(P) /\ Len(P) \in Nat
      /\ \A a \in DOMAIN P : P[a] \in Full(h) /\ P[a] # s /\ s \in Block(P[a]) /\ ~IsLeaf(P[a])
      /\ \A a, b \in DOMAIN P : a < b => Level(P[a]) < Level(P[b])
  BY <1>1 DEF Ascending
<1>3. j = 0 \/ j \in DOMAIN P
  BY <1>2
<1>4. PathNodeAt(t, l, e, j, x)
  BY <1>3, PathNodeIs
<1>5. i # 0 /\ p = PathAt(t, l, i)
  BY <1>2 DEF PathAt
<1>6. PathNodeAt(t, l, e, i, p)
  BY <1>5, PathNodeIs
<1>7. /\ x \in Nat /\ At(t, x) # Blank /\ At(t, x).key = PathKey(e, j) /\ s \in Block(x) /\ x \in DOMAIN t
      /\ p \in Nat /\ At(t, p) # Blank /\ At(t, p).key = PathKey(e, i) /\ s \in Block(p)
  BY <1>4, <1>6 DEF PathNodeAt
<1>8. x # p /\ x \in Block(p)
  <2>1. CASE j = 0
    BY <1>2, <1>7, <2>1 DEF PathAt
  <2>2. CASE j # 0
    <3>1. j \in DOMAIN P /\ x = P[j] /\ j < i
      BY <1>2, <1>3, <2>2 DEF PathAt
    <3>2. Level(x) < Level(p) /\ Level(x) \in Nat /\ Level(p) \in Nat
      BY <1>2, <1>7, <3>1, NodeBasics
    <3> HIDE DEF x, p, s
    <3>3. s \in Nat
      BY LeafNumbers DEF s
    <3> QED
      BY <1>7, <3>2, <3>3, BlocksMeet
  <2> QED
    BY <2>1, <2>2
<1>9. ASSUME NEW z \in Nat, x \in Block(z), z \in Block(p), z # x, z # p  PROVE At(t, z) = Blank
  <2> SUFFICES ASSUME At(t, z) # Blank  PROVE FALSE
    OBVIOUS
  <2>1. PICK k \in DOMAIN P : z = P[k] /\ j < k
    BY <1>3, <1>9, PathClimbs
  <2>2. Level(z) < Level(p) /\ Level(z) \in Nat /\ Level(p) \in Nat
    BY <1>7, <1>9, BelowHasLowerLevel, NodeBasics
  <2>3. ~(i < k) /\ k # i
    BY <1>2, <1>9, <2>1, <2>2
  <2> QED
    BY <1>2, <2>1, <2>3
<1>10. NextUp(t, x, p)
  BY <1>7, <1>8, <1>9 DEF NextUp
<1>11. At(t, x).parentHash = HashUnder(t, p, x)
  <2>1. LinkedAt(t, x)
    <3>1. CASE j = 0
      BY <3>1 DEF LinkedPath, PathAt
    <3>2. CASE j # 0
      <4>1. x \in ToSet(P)
        BY <1>3, <3>2 DEF ToSet, PathAt
      <4> QED
        BY <4>1 DEF LinkedPath
    <3> QED
      BY <3>1, <3>2
  <2>2. CalculateParentHash(t, AllHashes(t), x) = HashUnder(t, p, x)
    BY <1>1, <1>10, ParentHashIs
  <2>3. t[x] = At(t, x)
    BY <1>7 DEF At
  <2> QED
    BY <2>1, <2>2, <2>3 DEF LinkedAt
<1>12. NextSecret(At(t, x).key, At(t, p).key)
  <2>1. At(t, x).key = PathKey(e, j) /\ At(t, p).key = PathKey(e, j + 1)
    BY <1>7
  <2> QED
    BY <2>1 DEF NextSecret
<1> QED
  BY <1>7, <1>10, <1>11, <1>12 DEF Backs

LEMMA PathEnds ==
  ASSUME NEW t, NEW l \in Nat, NEW c, NEW e, HasPath(t, l, c, e), LinkedPath(t, l),
         NEW j, j = 0 \/ j \in DOMAIN PathOf(t, l), \A i \in DOMAIN PathOf(t, l) : ~(j < i)
  PROVE  At(t, PathAt(t, l, j)).parentHash = NoHash
<1> DEFINE x == PathAt(t, l, j)
<1>1. PICK h : IsTreeOf(t, h)
  BY DEF HasPath
<1>2. x \in Nat /\ x \in DOMAIN t
  BY PathNodeIs DEF PathNodeAt
<1>3. x \in Full(h) /\ t[x] = At(t, x)
  BY <1>1, <1>2, TreeShape DEF At
<1>4. \A z \in Nat : x \in Block(z) /\ z # x => At(t, z) = Blank
  BY PathClimbs
<1>5. CalculateParentHash(t, AllHashes(t), x) = NoHash
  BY <1>1, <1>3, <1>4, NothingUp
<1>6. LinkedAt(t, x)
  <2>1. CASE j = 0
    BY <2>1 DEF LinkedPath, PathAt
  <2>2. CASE j # 0
    <3>1. x \in ToSet(PathOf(t, l))
      BY <2>2 DEF ToSet, PathAt
    <3> QED
      BY <3>1 DEF LinkedPath
  <2> QED
    BY <2>1, <2>2
<1> QED
  BY <1>3, <1>5, <1>6 DEF LinkedAt

LEMMA NewLeafNodesHaveNoHash ==
  ASSUME NEW old, NEW new, NEW e, NEW c, NEW m, NEW place, CommitMade(old, new, e, c, m, place), NEW x,
         AddedNode(m, place, new, x) \/ UpdatedNode(m, new, x)
  PROVE  At(new, x).parentHash = NoHash
<1>1. UpdatesOf(old, e, m.updates) /\ AddsOf(old, e, m.adds)
  BY DEF CommitMade
<1>2. \E k, d : At(new, x) = LeafNode(k, d)
  BY <1>1 DEF AddedNode, UpdatedNode, UpdatesOf, AddsOf
<1> QED
  BY <1>2 DEF LeafNode

LEMMA NodeOfPathIs ==
  ASSUME NEW old, NEW new, NEW e, NEW c, NEW m, NEW place, CommitMade(old, new, e, c, m, place), NEW x,
         SenderNode(m, x) \/ PathNode(m, new, x)
  PROVE  /\ m.sender \in Nat /\ HasPath(new, m.sender, c, e) /\ LinkedPath(new, m.sender)
         /\ \E j : (j = 0 \/ j \in DOMAIN PathOf(new, m.sender)) /\ x = PathAt(new, m.sender, j)
<1>1. m.path # NoPath /\ CommitOf(old, e, c, m, new)
  BY DEF CommitMade, SenderNode, PathNode
<1>2. m.sender \in Nat /\ HasPath(new, m.sender, c, e) /\ LinkedPath(new, m.sender)
  BY <1>1, PathOfCommit, CommitPathIsLinked DEF CommitOf
<1>3. CASE SenderNode(m, x)
  <2>1. x = PathAt(new, m.sender, 0)
    BY <1>3 DEF SenderNode, PathAt
  <2> QED
    BY <1>2, <2>1
<1>4. CASE PathNode(m, new, x)
  <2>1. PICK i \in DOMAIN PathOf(new, m.sender) : x = PathOf(new, m.sender)[i]
    BY <1>4 DEF PathNode
  <2>2. i # 0
    BY <1>2 DEF HasPath, Ascending
  <2>3. x = PathAt(new, m.sender, i)
    BY <2>1, <2>2 DEF PathAt
  <2> QED
    BY <1>2, <2>3
<1> QED
  BY <1>3, <1>4

LEMMA HashesStayOfNext ==
  ASSUME NEW old, NEW new, NEW e, NEW c, NEW m, NEW place, CommitMade(old, new, e, c, m, place), HashesOfNext(old)
  PROVE  HashesOfNext(new)
<1> SUFFICES ASSUME NEW x \in Nat, At(new, x) # Blank
             PROVE  At(new, x).parentHash = NoHash \/ NextSecret(At(new, x).key, At(new, x).parentHash.key)
  BY DEF HashesOfNext
<1>1. CASE AddedNode(m, place, new, x) \/ UpdatedNode(m, new, x)
  BY <1>1, NewLeafNodesHaveNoHash
<1>2. CASE SenderNode(m, x) \/ PathNode(m, new, x)
  <2> DEFINE l == m.sender
             P == PathOf(new, l)
  <2>1. l \in Nat /\ HasPath(new, l, c, e) /\ LinkedPath(new, l)
    BY <1>2, NodeOfPathIs
  <2>2. PICK j : (j = 0 \/ j \in DOMAIN P) /\ x = PathAt(new, l, j)
    BY <1>2, NodeOfPathIs
  <2>3. DOMAIN P = 1 .. Len(P) /\ Len(P) \in Nat
    BY <2>1 DEF HasPath, Ascending
  <2> DEFINE i == j + 1
  <2>4. j \in Nat /\ i = j + 1
    BY <2>2, <2>3
  <2>5. CASE i \in DOMAIN P
    <3> HIDE DEF i
    <3>1. Backs(new, P[i], x)
      BY <2>1, <2>2, <2>4, <2>5, PathBacks
    <3> HIDE DEF P
    <3>2. NextSecret(At(new, x).key, At(new, P[i]).key) /\ At(new, x).parentHash = HashUnder(new, P[i], x)
      BY <3>1 DEF Backs
    <3>3. At(new, x).parentHash.key = At(new, P[i]).key
      BY <3>2 DEF HashUnder
    <3> QED
      BY <3>2, <3>3
  <2>6. CASE i \notin DOMAIN P
    <3>1. \A k \in DOMAIN P : ~(j < k)
      BY <2>2, <2>3, <2>4, <2>6
    <3> QED
      BY <2>1, <2>2, <3>1, PathEnds
  <2> QED
    BY <2>5, <2>6
<1>3. CASE KeptNode(old, new, m, place, x)
  <2>1. At(old, x) # Blank /\ At(new, x).key = At(old, x).key /\ At(new, x).parentHash = At(old, x).parentHash
    BY <1>3 DEF KeptNode, Unmerging
  <2> QED
    BY <2>1 DEF HashesOfNext
<1> QED
  BY <1>1, <1>2, <1>3, OriginOfNode

LEMMA StaysBacked ==
  ASSUME NEW old, NEW new, NEW e, NEW c, NEW m, NEW place, CommitMade(old, new, e, c, m, place),
         UnmergedFit(old), PlainLeaves(old), Backed(old)
  PROVE  Backed(new)
<1> SUFFICES ASSUME NEW p \in Nat, At(new, p) # Blank, ~IsLeaf(p)  PROVE \E x : Backs(new, p, x)
  BY DEF Backed
<1>1. CASE KeptNode(old, new, m, place, p)
  <2>1. At(old, p) # Blank
    BY <1>1 DEF KeptNode
  <2>2. PICK x : Backs(old, p, x)
    BY <2>1 DEF Backed
  <2>3. Backs(new, p, x)
    BY <1>1, <2>2, BacksStays
  <2> QED
    BY <2>3
<1>2. CASE PathNode(m, new, p)
  <2> DEFINE l == m.sender
             P == PathOf(new, l)
  <2>1. l \in Nat /\ HasPath(new, l, c, e) /\ LinkedPath(new, l)
    BY <1>2, NodeOfPathIs
  <2>2. PICK i \in DOMAIN P : p = P[i]
    BY <1>2 DEF PathNode
  <2>3. DOMAIN P = 1 .. Len(P) /\ Len(P) \in Nat
    BY <2>1 DEF HasPath, Ascending
  <2> DEFINE j == i - 1
  <2>4. j \in Nat /\ i = j + 1
    BY <2>3
  <2> HIDE DEF j
  <2>5. Backs(new, P[i], PathAt(new, l, j))
    BY <2>1, <2>4, PathBacks
  <2> QED
    BY <2>2, <2>5
<1>3. ~AddedNode(m, place, new, p) /\ ~UpdatedNode(m, new, p) /\ ~SenderNode(m, p)
  BY NodesOfCommit DEF LeafAt
<1> QED
  BY <1>1, <1>2, <1>3, OriginOfNode

LEMMA TreeStaysValid ==
  ASSUME NEW old, NEW new, NEW e, NEW c, NEW m, NEW place, CommitMade(old, new, e, c, m, place), m.epoch = e,
         ValidTree(old)
  PROVE  ValidTree(new)
<1>1. OneNodePerKey(old) /\ PlainLeaves(old) /\ UnmergedFit(old) /\ HashesOfNext(old) /\ Backed(old)
  BY DEF ValidTree
<1>2. OneNodePerKey(new)
  BY <1>1, KeysStayUnique
<1>3. PlainLeaves(new)
  BY <1>1, LeavesStayPlain
<1>4. UnmergedFit(new)
  BY <1>1, UnmergedStaysFit
<1>5. HashesOfNext(new)
  BY <1>1, HashesStayOfNext
<1>6. Backed(new)
  BY <1>1, StaysBacked
<1> QED
  BY <1>2, <1>3, <1>4, <1>5, <1>6 DEF ValidTree

LEMMA FoundersTreeIsValid ==
  ASSUME scenario \in Scenarios
  PROVE  ValidTree(FoundingTree)
<1> DEFINE r == FoundingTree
<1>1. \A x \in Nat : At(r, x) # Blank => \E i \in 1 .. Len(scenario.founders) : IsLeaf(x) /\ At(r, x) = Founding(i)
  BY FoundingTreeIs
<1>2. SoundTree(r, 1) /\ \A x \in Nat : At(r, x) # Blank => \E d : LeafAt(r, d, x) /\ At(r, x).key = PackageKey(0, d)
  BY FoundersTree
<1> HIDE DEF r
<1>3. ASSUME NEW x \in Nat, At(r, x) # Blank
      PROVE  IsLeaf(x) /\ At(r, x).parentHash = NoHash /\ At(r, x).unmergedLeaves = <<>>
  <2>1. IsLeaf(x) /\ \E k, d : At(r, x) = LeafNode(k, d)
    BY <1>1, <1>3 DEF Founding
  <2> QED
    BY <2>1 DEF LeafNode
<1>4. OneNodePerKey(r)
  <2> SUFFICES ASSUME NEW x \in Nat, NEW y \in Nat, At(r, x) # Blank, At(r, y) # Blank, At(r, x).key = At(r, y).key
               PROVE  x = y
    BY DEF OneNodePerKey
  <2>1. PICK d : LeafAt(r, d, x) /\ At(r, x).key = PackageKey(0, d)
    BY <1>2
  <2>2. LeafAt(r, d, y)
    BY <1>2, <2>1 DEF SoundTree
  <2> QED
    BY <1>2, <2>1, <2>2 DEF SoundTree
<1>5. PlainLeaves(r)
  BY <1>3, BlankIsNode DEF PlainLeaves
<1>6. UnmergedFit(r)
  BY <1>3 DEF UnmergedFit, ToSet, Rising
<1>7. HashesOfNext(r) /\ Backed(r)
  BY <1>3 DEF HashesOfNext, Backed
<1> QED
  BY <1>4, <1>5, <1>6, <1>7 DEF ValidTree, r

(***************************************************************************)
(* The invariant behind TreeIsValid and the joining of newcomers: besides  *)
(* that of the followers, the tree of the epoch is valid and the hash that *)
(* newcomers are told is its hash.                                         *)
(***************************************************************************)
ToldTree(info) == ValidTree(info.ratchetTree) /\ info.treeHash = FreshHash(info.ratchetTree, RootOf(info.ratchetTree))

ValidInv == FollowInv /\ ToldTree(groupInfo)

LEMMA CommitTellsTree ==
  ASSUME ValidInv, NEW c \in Client, NEW l, NEW external, NEW updated, NEW removed, NEW invited, NEW added, NEW tree,
         NEW hasPath, NEW keys, NEW new,
         Commits(c, l, external, updated, removed, invited, added, tree, hasPath, keys, new)
  PROVE  ToldTree(groupInfo')
<1>1. KeysInv /\ ValidTree(groupInfo.ratchetTree)
  BY DEF ValidInv, FollowInv, ToldTree
<1> DEFINE m == commit'
           info == groupInfo'
           old == groupInfo.ratchetTree
<1>2. info.ratchetTree = new /\ m.epoch = Epoch
  BY <1>1, CommitMakesTree
<1>3. \E place : CommitMade(old, new, Epoch, c, m, place)
  BY <1>1, CommitMakesTree
<1>4. \E h : IsTreeOf(new, h)
  BY <1>1, CommitMakesTree
<1>5. info = [ratchetTree |-> new, treeHash |-> AllHashes(new)[RootOf(new)], signer |-> l]
  BY DEF Commits, Begins
<1>6. ToldTree(info)
  <2> HIDE DEF m, info, old
  <2>1. PICK place : CommitMade(old, new, Epoch, c, m, place)
    BY <1>3
  <2>2. ValidTree(new)
    BY <1>1, <1>2, <2>1, TreeStaysValid DEF old
  <2>3. PICK h : IsTreeOf(new, h)
    BY <1>4
  <2>4. RootOf(new) \in DOMAIN new
    BY <2>3, TreeShape
  <2>5. info.treeHash = FreshHash(new, RootOf(new))
    BY <1>5, <2>4 DEF AllHashes
  <2> QED
    BY <1>2, <2>2, <2>5 DEF ToldTree
<1> QED
  BY <1>6

LEMMA ValidStep ==
  ASSUME ValidInv, [Next]_vars
  PROVE  ValidInv'
<1>1. FollowInv /\ TreesInv /\ ToldTree(groupInfo)
  BY DEF ValidInv, FollowInv, KeysInv
<1>2. FollowInv'
  BY <1>1, FollowStep
<1>3. ASSUME groupInfo' = groupInfo  PROVE ToldTree(groupInfo')
  BY <1>1, <1>3
<1>4. CASE UNCHANGED vars
  BY <1>2, <1>3, <1>4 DEF ValidInv, vars
<1>5. ASSUME NEW c \in Client, CreateUpdateProposal(c) \/ ProcessCommit(c) \/ ProcessRemoval(c) \/ JoinGroup(c)
      PROVE  groupInfo' = groupInfo
  BY <1>5 DEF CreateUpdateProposal, ProcessCommit, ProcessRemoval, JoinGroup
<1>6. ASSUME NEW c \in Client, CreateCommit(c)  PROVE ToldTree(groupInfo')
  BY <1>1, <1>6, MemberCommits, CommitTellsTree
<1>7. ASSUME NEW c \in Client, JoinGroupExternal(c)  PROVE ToldTree(groupInfo')
  BY <1>1, <1>7, NewcomerCommits, CommitTellsTree
<1>8. CASE Next
  BY <1>2, <1>3, <1>5, <1>6, <1>7, <1>8 DEF Next, ValidInv
<1> QED
  BY <1>4, <1>8

LEMMA ValidInvariant == Spec => []ValidInv
<1>1. Init => ValidInv
  <2> SUFFICES ASSUME Init  PROVE ValidInv
    OBVIOUS
  <2>1. /\ scenario \in Scenarios /\ groupInfo.ratchetTree = FoundingTree
        /\ groupInfo.treeHash = FreshHash(FoundingTree, RootOf(FoundingTree))
    BY DEF Init
  <2>2. FollowInv /\ ValidTree(FoundingTree)
    BY <2>1, FollowInit, FoundersTreeIsValid
  <2> QED
    BY <2>1, <2>2 DEF ValidInv, ToldTree
<1>2. ValidInv /\ [Next]_vars => ValidInv'
  BY ValidStep
<1> QED
  BY <1>1, <1>2, PTL DEF Spec

LEMMA ToldTreeIsAccepted ==
  ASSUME ValidInv
  PROVE  /\ ValidateRatchetTree(groupInfo.ratchetTree, groupInfo.treeHash)
         /\ UnmergedRight(groupInfo.ratchetTree)
<1> DEFINE t == groupInfo.ratchetTree
<1>1. KeysInv /\ ToldTree(groupInfo)
  BY DEF ValidInv, FollowInv
<1>2. PICK h : IsTreeOf(t, h)
  BY <1>1 DEF KeysInv, TreesInv
<1>3. SoundTree(t, commit.epoch + 1)
  BY <1>1 DEF KeysInv, KeyedTree
<1>4. ValidTree(t) /\ groupInfo.treeHash = FreshHash(t, RootOf(t))
  BY <1>1 DEF ToldTree
<1> HIDE DEF t
<1>5. ValidateRatchetTree(t, FreshHash(t, RootOf(t))) /\ UnmergedRight(t)
  BY <1>2, <1>3, <1>4, ValidTreeIsAccepted
<1> QED
  BY <1>4, <1>5 DEF t

(***************************************************************************)
(* For every group of clients and every sequence of commits the tree of    *)
(* the epoch is one a newcomer accepts: no key twice, every unmerged leaf  *)
(* below the node that lists it and listed by all in between, in order,    *)
(* and every parent node covered by exactly one chain of parent hashes,    *)
(* however leaves came and went since the hashes were set                  *)
(* (validateRatchetTree of validation.ts, verifyParentHashes of            *)
(* parentHash.ts).                                                         *)
(***************************************************************************)
THEOREM EveryTreeIsValid == Spec => []TreeIsValid
<1>1. ValidInv => TreeIsValid
  BY ToldTreeIsAccepted DEF TreeIsValid, UnmergedRight
<1> QED
  BY <1>1, ValidInvariant, PTL

-----------------------------------------------------------------------------
(***************************************************************************)
(* The invariant behind EveryMemberCanFollow: besides that of the members, *)
(* while newcomers are awaited the committer's leaf is there and is not    *)
(* one the commit adds, so that a newcomer's path meets the committer's.   *)
(***************************************************************************)
SignerApart(t, m) ==
  LET leaf == At(t, LeafToNodeIndex(m.sender))
  IN  m.sender \in Nat /\ leaf # Blank /\ \A d : leaf.key # PackageKey(m.epoch, d)

JoinInv == ValidInv /\ (DOMAIN welcome # {} => SignerApart(groupInfo.ratchetTree, commit))

LEMMA CommitterStaysApart ==
  ASSUME NEW old, NEW new, NEW e, NEW c, NEW m, NEW place, CommitMade(old, new, e, c, m, place), m.epoch = e
  PROVE  SignerApart(new, m)
<1> DEFINE s == LeafToNodeIndex(m.sender)
<1>1. CommitOf(old, e, c, m, new) /\ Changed(old, new, m, place) /\ m.sender \in Nat /\ e \in Nat
  BY DEF CommitMade, CommitOf
<1>2. CASE m.path # NoPath
  <2>1. PathKnown(new, m)
    BY PathBecomesKnown
  <2>2. PICK a : HasPath(new, m.sender, a, e)
    BY <1>2, <2>1 DEF PathKnown
  <2>3. At(new, s) # Blank /\ At(new, s).key = PathKey(e, 0)
    BY <2>2 DEF HasPath
  <2> QED
    BY <1>1, <2>3, NodeKeys DEF SignerApart
<1>3. CASE m.path = NoPath
  <2>1. m.updates = {} /\ m.removes = {} /\ ~m.external
    BY <1>1, <1>3 DEF CommitOf
  <2>2. Renewed(m) = {} /\ RemovedAt(m.removes) = {}
    BY <1>3, <2>1 DEF Renewed, RemovedAt, UpdatedAt
  <2>3. LeafAt(old, c, s)
    BY <2>1 DEF CommitMade, SenderOf
  <2>4. s \in Nat /\ At(old, s) # Blank /\ \A i \in 1 .. Len(m.adds) : place[i] # s
    BY <1>1, <2>2, <2>3 DEF LeafAt, Changed
  <2>5. Unmerging(At(old, s), At(new, s), LeavesBelow(place, Len(m.adds), s))
    BY <1>1, <2>2, <2>4 DEF Changed, Spared
  <2>6. At(new, s) # Blank /\ At(new, s).key = At(old, s).key
    BY <2>5 DEF Unmerging
  <2>7. At(old, s).key[2] \in Nat /\ At(old, s).key[2] < e
    BY <2>4 DEF CommitMade, SoundTree
  <2>8. ASSUME NEW d  PROVE At(new, s).key # PackageKey(e, d)
    <3>1. PackageKey(e, d)[2] = e
      BY DEF PackageKey
    <3> QED
      BY <1>1, <2>6, <2>7, <3>1
  <2> QED
    BY <1>1, <2>6, <2>8 DEF SignerApart
<1> QED
  BY <1>2, <1>3

LEMMA CommitApart ==
  ASSUME ValidInv, NEW c \in Client, NEW l, NEW external, NEW updated, NEW removed, NEW invited, NEW added, NEW tree,
         NEW hasPath, NEW keys, NEW new,
         Commits(c, l, external, updated, removed, invited, added, tree, hasPath, keys, new)
  PROVE  SignerApart(groupInfo'.ratchetTree, commit')
<1>1. KeysInv
  BY DEF ValidInv, FollowInv
<1> DEFINE m == commit'
           info == groupInfo'
           old == groupInfo.ratchetTree
<1>2. info.ratchetTree = new /\ m.epoch = Epoch /\ \E place : CommitMade(old, new, Epoch, c, m, place)
  BY <1>1, CommitMakesTree
<1>3. SignerApart(info.ratchetTree, m)
  <2> HIDE DEF m, info, old
  <2>1. PICK place : CommitMade(old, new, Epoch, c, m, place)
    BY <1>2
  <2>2. SignerApart(new, m)
    BY <1>2, <2>1, CommitterStaysApart
  <2> QED
    BY <1>2, <2>2
<1> QED
  BY <1>3

LEMMA JoinStep ==
  ASSUME JoinInv, [Next]_vars
  PROVE  JoinInv'
<1>1. ValidInv /\ TreesInv
  BY DEF JoinInv, ValidInv, FollowInv, KeysInv
<1>2. ValidInv'
  BY <1>1, ValidStep
<1>3. ASSUME groupInfo' = groupInfo, commit' = commit, DOMAIN welcome' \subseteq DOMAIN welcome
      PROVE  DOMAIN welcome' # {} => SignerApart(groupInfo'.ratchetTree, commit')
  <2>1. DOMAIN welcome' # {} => SignerApart(groupInfo.ratchetTree, commit)
    BY <1>3 DEF JoinInv
  <2> QED
    BY <1>3, <2>1
<1>4. CASE UNCHANGED vars
  BY <1>2, <1>3, <1>4 DEF JoinInv, vars
<1>5. ASSUME NEW c \in Client, CreateUpdateProposal(c) \/ ProcessCommit(c) \/ ProcessRemoval(c) \/ JoinGroup(c)
      PROVE  groupInfo' = groupInfo /\ commit' = commit /\ DOMAIN welcome' \subseteq DOMAIN welcome
  BY <1>5 DEF CreateUpdateProposal, ProcessCommit, ProcessRemoval, JoinGroup
<1>6. ASSUME NEW c \in Client, CreateCommit(c)  PROVE SignerApart(groupInfo'.ratchetTree, commit')
  BY <1>1, <1>6, MemberCommits, CommitApart
<1>7. ASSUME NEW c \in Client, JoinGroupExternal(c)  PROVE SignerApart(groupInfo'.ratchetTree, commit')
  BY <1>1, <1>7, NewcomerCommits, CommitApart
<1>8. CASE Next
  BY <1>2, <1>3, <1>5, <1>6, <1>7, <1>8 DEF Next, JoinInv
<1> QED
  BY <1>4, <1>8

LEMMA JoinInvariant == Spec => []JoinInv
<1>1. Init => JoinInv
  <2> SUFFICES ASSUME Init  PROVE JoinInv
    OBVIOUS
  <2>1. DOMAIN welcome = {}
    BY DEF Init
  <2>2. scenario \in Scenarios /\ groupInfo.ratchetTree = FoundingTree
        /\ groupInfo.treeHash = FreshHash(FoundingTree, RootOf(FoundingTree))
    BY DEF Init
  <2>3. FollowInv /\ ValidTree(FoundingTree)
    BY <2>2, FollowInit, FoundersTreeIsValid
  <2> QED
    BY <2>1, <2>2, <2>3 DEF JoinInv, ValidInv, ToldTree
<1>2. JoinInv /\ [Next]_vars => JoinInv'
  BY JoinStep
<1> QED
  BY <1>1, <1>2, PTL DEF Spec

\* The newcomer's path meets the committer's.
LEMMA NewcomerMeetsThePath ==
  ASSUME JoinInv, NEW c \in DOMAIN welcome, NEW own, AwaitedAt(groupInfo.ratchetTree, commit, c, welcome[c], own),
         NEW h, IsTreeOf(groupInfo.ratchetTree, h)
  PROVE  /\ own \in Full(h) /\ LeafToNodeIndex(commit.sender) \in Full(h) /\ commit.sender \in Nat
         /\ FirstMatch(groupInfo.ratchetTree, FilteredDirectPath(commit.sender, groupInfo.ratchetTree),
                       NodeToLeafIndex(own)) # 0
<1> DEFINE t == groupInfo.ratchetTree
           m == commit
           s == LeafToNodeIndex(m.sender)
           l == NodeToLeafIndex(own)
           fdp == FilteredDirectPath(m.sender, t)
           e == m.epoch + 1
<1>1. /\ LeafAt(t, c, own) /\ At(t, own).key = PackageKey(m.epoch, c)
      /\ own \in Nat /\ IsLeaf(own) /\ At(t, own) # Blank
  BY DEF AwaitedAt, LeafAt
<1>2. m.sender \in Nat /\ At(t, s) # Blank /\ s # own
  <2>1. SignerApart(t, m)
    BY DEF JoinInv
  <2> QED
    BY <1>1, <2>1 DEF SignerApart
<1>3. SoundTree(t, e)
  BY DEF JoinInv, ValidInv, FollowInv, KeysInv, KeyedTree
<1> HIDE DEF t, m, e, s, l, fdp
<1>4. DOMAIN t = Full(h)
  BY TreeShape DEF t
<1>5. own \in Full(h) /\ s \in Full(h)
  BY <1>1, <1>2, <1>4 DEF At
<1>6. l \in Nat /\ LeafToNodeIndex(l) = own
  BY <1>1, LeafNodesNumber DEF l
<1>7. IsTreeOf(t, h)
  BY DEF t
<1>8. \E k, x : Branches(t, h, m.sender, own, k, x)
  BY <1>1, <1>2, <1>3, <1>5, <1>7, EveryLeafMeetsThePath DEF s
<1>9. PICK k, x : Branches(t, h, m.sender, own, k, x)
  BY <1>8
<1>10. k \in DOMAIN fdp /\ MeetsAt(NodesOf(fdp), own, k)
  BY <1>9 DEF Branches, PathOf, fdp
<1>11. Ascending(h, s, NodesOf(fdp))
  BY <1>2, <1>5, <1>7, FilteredPathIs DEF fdp, s
<1>12. MeetsAt(NodesOf(fdp), LeafToNodeIndex(l), FirstMatch(t, fdp, l))
  BY <1>5, <1>6, <1>7, <1>11, FirstMatchIs
<1>13. k # 0 /\ DOMAIN NodesOf(fdp) \subseteq Nat
  <2>1. DOMAIN NodesOf(fdp) = 1 .. Len(NodesOf(fdp))
    BY <1>11 DEF Ascending
  <2> QED
    BY <1>10, <2>1 DEF NodesOf
<1>14. FirstMatch(t, fdp, l) = k
  <2> DEFINE P == NodesOf(fdp)
             w == FirstMatch(t, fdp, l)
  <2>1. MeetsAt(P, own, w) /\ MeetsAt(P, own, k) /\ DOMAIN P \subseteq Nat
    BY <1>6, <1>10, <1>12, <1>13
  <2> HIDE DEF P, w
  <2>2. w = k
    BY <1>13, <2>1, MeetsOnce
  <2> QED
    BY <2>2 DEF w
<1> QED
  BY <1>2, <1>5, <1>13, <1>14 DEF t, m, s, l, fdp

\* Whoever is awaited can join.
LEMMA NewcomersJoin ==
  ASSUME JoinInv, NEW c \in DOMAIN welcome
  PROVE  JoinedBy(c) # {}
<1> DEFINE t == groupInfo.ratchetTree
           fdp == FilteredDirectPath(groupInfo.signer, t)
<1>1. ValidInv /\ KeysInv
  BY DEF JoinInv, ValidInv, FollowInv
<1>2. ValidateRatchetTree(t, groupInfo.treeHash)
  BY <1>1, ToldTreeIsAccepted
<1>3. PICK own : AwaitedAt(t, commit, c, welcome[c], own)
  BY <1>1 DEF KeysInv, Awaited
<1>4. PICK h : IsTreeOf(t, h)
  BY <1>1 DEF KeysInv, TreesInv
<1>5. groupInfo.signer = commit.sender
  BY <1>1 DEF KeysInv
<1> DEFINE l == NodeToLeafIndex(own)
<1>6. FirstMatch(t, fdp, l) # 0
  BY <1>3, <1>4, <1>5, NewcomerMeetsThePath
<1>7. l \in LeavesOf(t, c)
  <2>1. LeafAt(t, c, own)
    BY <1>3 DEF AwaitedAt
  <2> QED
    BY <1>4, <2>1, LeavesAreLeafAt
<1>8. Joined(c, t, fdp) # {}
  <2> HIDE DEF t, fdp, l
  <2> QED
    BY <1>6, <1>7 DEF Joined
<1>9. JoinedBy(c) = UNION {Joined(c, t, f) : f \in {path \in {fdp} : ValidateRatchetTree(t, groupInfo.treeHash)}}
  BY DEF JoinedBy
<1> HIDE DEF t, fdp
<1> QED
  BY <1>2, <1>8, <1>9

(***************************************************************************)
(* For every group of clients and every sequence of commits: whoever a     *)
(* commit leaves in the group decrypts a path secret with the key it is    *)
(* encrypted to and arrives at the committer's tree hash and commit        *)
(* secret, and whoever it invites finds a valid tree, its own leaf and the *)
(* node where its path meets the committer's (applyUpdatePathSecret of     *)
(* createCommit.ts, processCommit of processMessages.ts, joinGroup of      *)
(* clientState.ts).                                                        *)
(***************************************************************************)
THEOREM EveryoneCanFollow == Spec => []EveryMemberCanFollow
<1>1. JoinInv => EveryMemberCanFollow
  <2> SUFFICES ASSUME JoinInv  PROVE EveryMemberCanFollow
    OBVIOUS
  <2>1. FollowInv
    BY DEF JoinInv, ValidInv
  <2>2. \A c \in Client : Following(c) => Processed(c) # {}
    BY <2>1, FollowersProcess
  <2>3. \A c \in DOMAIN welcome : JoinedBy(c) # {}
    BY NewcomersJoin
  <2> QED
    BY <2>2, <2>3 DEF EveryMemberCanFollow
<1> QED
  BY <1>1, JoinInvariant, PTL
=============================================================================
