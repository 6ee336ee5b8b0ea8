---------------------------- MODULE RatchetTree ----------------------------
(***************************************************************************)
(* The ratchet tree (ratchetTree.ts), its hashes (treeHash.ts,             *)
(* parentHash.ts, deriveTreeHashCache of createCommit.ts), the checks of a *)
(* received tree (validateRatchetTree of validation.ts) and the paths      *)
(* along which secrets are derived (pathSecrets.ts), as operators on       *)
(* values.                                                                 *)
(*                                                                         *)
(* A tree is a function on the node indices 0 .. 2w - 2; a node records    *)
(*   key             the public key, which names the key pair: <<"path",   *)
(*                   e, i>> is derived from path secret i of the commit    *)
(*                   that ends epoch e, <<"update", e, c>> belongs to an   *)
(*                   update proposal and <<"package", e, c>> to a key      *)
(*                   package of client c                                   *)
(*   unmergedLeaves  leaf indices, <<>> for a leaf                         *)
(*   client          the credential of a leaf, nobody for a parent         *)
(*   parentHash                                                            *)
(* A hash is the value it is taken of.  Keys are fresh for every commit    *)
(* and a parent hash is set together with its node's key, so that the hash *)
(* of a subtree is given by the keys and unmerged leaves of its nodes.     *)
(***************************************************************************)
EXTENDS TreeMath, FiniteSetsExt, SequencesExt, TLC

NoKey == <<>>
Nobody == "nobody"
NoHash == [key |-> NoKey, sibling |-> <<>>]

Blank == [key |-> NoKey, unmergedLeaves |-> <<>>, client |-> Nobody, parentHash |-> NoHash]

LeafNode(key, client) ==
  [key |-> key, unmergedLeaves |-> <<>>, client |-> client, parentHash |-> NoHash]

ParentNode(key) ==
  [key |-> key, unmergedLeaves |-> <<>>, client |-> Nobody, parentHash |-> NoHash]

\* The nodes of one function, and those of another that it does not have.
new ++ old ==
  [n \in DOMAIN new \union DOMAIN old |-> IF n \in DOMAIN new THEN new[n] ELSE old[n]]

WidthOf(tree) == LeafWidthOf(Cardinality(DOMAIN tree))

RootOf(tree) == RootFromNodeWidth(Cardinality(DOMAIN tree))

NonBlank(tree) == {n \in DOMAIN tree : tree[n] # Blank}

Leaves(tree) == {n \in NonBlank(tree) : IsLeaf(n)}

Parents(tree) == {n \in NonBlank(tree) : ~IsLeaf(n)}

\* The ancestors of a node as a sequence from its parent to the root, and as a set.
AncestorsOf(tree, n) == DirectPath(n, WidthOf(tree))

Above(tree, n) == ToSet(AncestorsOf(tree, n))

\* The leaf index at which a client's leaf is, or none.
LeavesOf(tree, client) == {NodeToLeafIndex(n) : n \in {l \in Leaves(tree) : tree[l].client = client}}

-----------------------------------------------------------------------------
FindBlankLeafNodeIndexOrExtend(tree) ==
  LET blank == {n \in DOMAIN tree \ NonBlank(tree) : IsLeaf(n)}
  IN  IF blank = {} THEN Cardinality(DOMAIN tree) + 1 ELSE Min(blank)

AddLeafNodeMerged(tree, leafNode) ==  \* mutant: the new leaf is not recorded as unmerged
  LET at   == FindBlankLeafNodeIndexOrExtend(tree)
      size == Cardinality(DOMAIN tree)
  IN  [n \in {at} |-> leafNode] ++ tree ++ [n \in 0 .. (IF at > size THEN 2 * size ELSE 0) |-> Blank]

\* addLeafNodeMutable: at the leftmost blank leaf, unmerged at the nodes above
\* it that have a key; or the first leaf of a new right half.
AddLeafNode(tree, leafNode) ==
  LET at    == FindBlankLeafNodeIndexOrExtend(tree)
      size  == Cardinality(DOMAIN tree)
      With(node) == [node EXCEPT !.unmergedLeaves = Append(@, NodeToLeafIndex(at))]
  IN  IF at > size
      THEN [n \in {at} |-> leafNode] ++ tree ++ [n \in 0 .. 2 * size |-> Blank]
      ELSE [n \in {at} |-> leafNode] ++ [n \in Above(tree, at) \intersect NonBlank(tree) |-> With(tree[n])] ++ tree

UpdateLeafNodesOnly(tree, leafNodes) ==  \* mutant: the path above is not blanked
  leafNodes ++ tree

\* updateLeafNodeMutable at every node that has one of these leaf nodes.
UpdateLeafNodes(tree, leafNodes) ==
  leafNodes ++ [n \in UNION {Above(tree, at) : at \in DOMAIN leafNodes} |-> Blank] ++ tree

\* condenseRatchetTreeAfterRemove: the smallest full tree that holds the last node.
Condense(tree) ==
  LET size == 2^(Log2(Max(NonBlank(tree)) + 1) + 1) - 1
  IN  [n \in 0 .. size - 1 |-> IF n \in DOMAIN tree THEN tree[n] ELSE Blank]

\* removeLeafNodeMutable for each of these leaves; what the code condenses after
\* every one of them is condensed when the last one has gone.
RemoveLeafNodes(tree, leafIndices) ==
  IF leafIndices = {} THEN tree
  ELSE Condense(UpdateLeafNodes(tree, [n \in {LeafToNodeIndex(l) : l \in leafIndices} |-> Blank]))

-----------------------------------------------------------------------------
\* The resolution of every node: itself and its unmerged leaves, or that of its children.
Resolution(tree) ==
  LET UnmergedNodes(n) == [i \in DOMAIN tree[n].unmergedLeaves |->
                             LeafToNodeIndex(tree[n].unmergedLeaves[i])]
      resolution[n \in DOMAIN tree] ==
        IF tree[n] # Blank THEN <<n>> \o UnmergedNodes(n)
        ELSE IF IsLeaf(n) THEN <<>> ELSE resolution[Left(n)] \o resolution[Right(n)]
  IN  resolution

\* The elements of a sequence at some of its positions, in their order.
AtPositions(seq, positions) ==
  [k \in 1 .. Cardinality(positions) |->
     seq[CHOOSE i \in positions : Cardinality({j \in positions : j <= i}) = k]]

Excluding(seq, excluded) == AtPositions(seq, {i \in DOMAIN seq : seq[i] \notin excluded})

\* The nodes above a leaf whose child off the path resolves to somebody, each
\* with the resolution of that child.
FilteredDirectPath(leafIndex, tree) ==
  LET path   == DirectPath(LeafToNodeIndex(leafIndex), WidthOf(tree))
      copath == Copath(LeafToNodeIndex(leafIndex), WidthOf(tree))
      all    == Resolution(tree)
  IN  AtPositions([i \in DOMAIN path |-> [nodeIndex |-> path[i], resolution |-> all[copath[i]]]],
                  {i \in DOMAIN path : all[copath[i]] # <<>>})

NodesOf(fdp) == [i \in DOMAIN fdp |-> fdp[i].nodeIndex]

\* The first entry of the sender's path above a leaf; 0 where the code throws.
\* firstCommonAncestor is its node, firstMatchAncestor its node and position.
FirstMatch(tree, path, leafIndex) ==
  LET above == {i \in DOMAIN path : path[i].nodeIndex \in Above(tree, LeafToNodeIndex(leafIndex))}
  IN  IF above = {} THEN 0 ELSE Min(above)

FindFirstNonBlankAncestor(tree, n) ==
  LET path  == AncestorsOf(tree, n)
      known == {i \in DOMAIN path : tree[path[i]] # Blank}
  IN  IF known = {} THEN RootOf(tree) ELSE path[Min(known)]

\* pathToRoot: the nodes that get a secret when node n has one, each derived
\* from the one before; the root has one even when it is blank.
PathToRoot(tree, n) ==
  LET path == AncestorsOf(tree, n)
  IN  <<n>> \o AtPositions(path, {i \in DOMAIN path : tree[path[i]] # Blank \/ path[i] = RootOf(tree)})

-----------------------------------------------------------------------------
Subtree(n) == LET half == 2^Level(n) - 1 IN n - half .. n + half

Content(node) == [key |-> node.key, unmergedLeaves |-> node.unmergedLeaves]

\* The hash of a subtree, taken anew.
FreshHash(tree, n) == [x \in Subtree(n) |-> Content(tree[x])]

\* The hash of a subtree without some leaves, which removeLeaves also takes
\* out of the unmerged leaves; the blank nodes it then drops hash as blank.
HashWithout(tree, leafIndices, n) ==
  [x \in Subtree(n) |->
     IF IsLeaf(x) /\ NodeToLeafIndex(x) \in leafIndices THEN Content(Blank)
     ELSE [key |-> tree[x].key, unmergedLeaves |-> Excluding(tree[x].unmergedLeaves, leafIndices)]]

\* A cache is a function on the nodes whose hash it has.
EmptyCache == [n \in {} |-> <<>>]

\* treeHash for every node: what the cache has is taken from it, and every
\* hash computed enters it.
TreeHashes(tree, cache) ==
  LET hash[n \in DOMAIN tree] ==
        IF n \in DOMAIN cache THEN cache[n]
        ELSE IF IsLeaf(n) THEN [x \in {n} |-> Content(tree[x])]
        ELSE hash[Left(n)] ++ hash[Right(n)] ++ [x \in {n} |-> Content(tree[x])]
  IN  cache ++ [n \in DOMAIN tree \ DOMAIN cache |-> hash[n]]

DeriveTreeHashCacheUntruncated(tree, cache, touched) ==  \* mutant: kept beyond the end of a smaller tree
  LET leaves == {LeafToNodeIndex(l) : l \in touched} \intersect DOMAIN tree
  IN  [n \in DOMAIN cache \ (leaves \union UNION {Above(tree, n) : n \in leaves}) |-> cache[n]]

\* deriveTreeHashCache: forget the touched leaves and everything above them.
DeriveTreeHashCache(tree, cache, touched) ==
  LET leaves == {LeafToNodeIndex(l) : l \in touched} \intersect DOMAIN tree
      stale  == leaves \union UNION {Above(tree, n) : n \in leaves}
  IN  [n \in (DOMAIN cache \intersect DOMAIN tree) \ stale |-> cache[n]]

ParentHashOfCurrentSibling(tree, hashes, n) ==  \* mutant: unmerged leaves not taken out
  LET p       == FindFirstNonBlankAncestor(tree, n)
      sibling == IF n < p THEN Right(p) ELSE Left(p)
  IN  IF n = RootOf(tree) \/ tree[p] = Blank THEN NoHash
      ELSE [key |-> tree[p].key, sibling |-> hashes[sibling]]

\* calculateParentHash: of the next node up that has a key, with its other
\* child as it was before the unmerged leaves came.
CalculateParentHash(tree, hashes, n) ==
  LET p        == FindFirstNonBlankAncestor(tree, n)
      sibling  == IF n < p THEN Right(p) ELSE Left(p)
      unmerged == ToSet(tree[p].unmergedLeaves)
  IN  IF n = RootOf(tree) \/ tree[p] = Blank THEN NoHash
      ELSE [key     |-> tree[p].key,
            sibling |-> IF unmerged = {} THEN hashes[sibling]
                                         ELSE HashWithout(tree, unmerged, sibling)]

-----------------------------------------------------------------------------
\* The nodes whose parent hash is that of the next node up with a key; only the
\* leaf node of a commit has one.
Linked(tree) ==
  LET hashes == TreeHashes(tree, EmptyCache)
  IN  {n \in NonBlank(tree) \ {RootOf(tree)} :
         /\ IsLeaf(n) => tree[n].key[1] = "path"
         /\ tree[n].parentHash = CalculateParentHash(tree, hashes, n)}

\* parentHashCoverage: how many leaves reach each node along linked nodes.
Coverage(tree) ==
  LET linked == Linked(tree)
      covered[n \in DOMAIN tree] ==
        IF IsLeaf(n) THEN 1
        ELSE MapThenSumSet(LAMBDA x : covered[x],
                           {x \in linked \intersect (Subtree(n) \ {n}) :
                              FindFirstNonBlankAncestor(tree, x) = n})
  IN  covered

VerifyParentHashes(tree) ==
  LET coverage == Coverage(tree)
  IN  \A n \in Parents(tree) : coverage[n] = 1

\* What validateRatchetTree requires of an unmerged leaf: its two conditions on
\* the leaf itself are joined such that one of them is enough.
UnmergedLeafAccepted(tree, parent, leafIndex) ==
  LET path  == AncestorsOf(tree, LeafToNodeIndex(leafIndex))
      below == {i \in DOMAIN path : \A j \in 1 .. i : path[j] # parent}
  IN  /\ tree[LeafToNodeIndex(leafIndex)] # Blank \/ parent \in ToSet(path)
      /\ \A i \in below : tree[path[i]] # Blank => leafIndex \in ToSet(tree[path[i]].unmergedLeaves)

\* validateRatchetTree, of what it checks the parts about the tree's structure.
ValidateRatchetTree(tree, treeHash) ==
  /\ \A m, n \in NonBlank(tree) : tree[m].key = tree[n].key => m = n
  /\ \A m, n \in Leaves(tree) : tree[m].client = tree[n].client => m = n
  /\ \A p \in Parents(tree) :
       \A l \in ToSet(tree[p].unmergedLeaves) : UnmergedLeafAccepted(tree, p, l)
  /\ VerifyParentHashes(tree)
  /\ treeHash = FreshHash(tree, RootOf(tree))
=============================================================================
