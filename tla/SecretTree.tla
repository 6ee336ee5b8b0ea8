----------------------------- MODULE SecretTree -----------------------------
(***************************************************************************)
(* The secret tree of one epoch (secretTree.ts) as operators on values.    *)
(* Derivation is deterministic, so a secret is identified by its place:    *)
(* an inner secret by its node, a ratchet secret by leaf, ratchet and      *)
(* generation.  A tree records which secrets are held:                     *)
(*   intermediateNodes  the nodes whose secret is held                     *)
(*   leafNodes          the leaves whose secret became two ratchets        *)
(*   ratchets           those ratchets; RatchetRoot for the other leaves   *)
(* A ratchet holds the secret of its current generation and those of the   *)
(* skipped generations in unusedGenerations.                               *)
(*                                                                         *)
(* Every operation answers a record: ok is FALSE where the code throws     *)
(* (the caller then has no new tree), and consumedNodes/consumedSecrets    *)
(* are the secrets it hands to the application for zeroing.                *)
(***************************************************************************)
EXTENDS TreeMath, FiniteSets

CONSTANTS
  LeafWidth,                  \* leaves of the tree, a power of two
  RetainKeysForGenerations,   \* keyRetentionConfig: skipped generations kept
  MaximumForwardRatchetSteps  \* keyRetentionConfig: how far a receiver ratchets ahead

ASSUME WidthAssumption == LeafWidth \in Nat /\ \E h \in 0 .. LeafWidth : LeafWidth = 2^h
ASSUME RetainAssumption == RetainKeysForGenerations \in Nat
ASSUME ForwardAssumption == MaximumForwardRatchetSteps \in Nat

Leaf == 0 .. LeafWidth - 1
Node == 0 .. NodeWidthOf(LeafWidth) - 1
RatchetKind == {"application", "handshake"}

Ratchet == [generation : Nat, unusedGenerations : SUBSET Nat]
Tree == [intermediateNodes : SUBSET Node,
         leafNodes         : SUBSET Leaf,
         ratchets          : [Leaf -> [RatchetKind -> Ratchet]]]

RatchetRoot == [generation |-> 0, unusedGenerations |-> {}]

\* Proposals and commits share the handshake ratchet.
RatchetForContentType(contentType) ==
  IF contentType = "application" THEN "application" ELSE "handshake"

CreateSecretTreeOutside ==  \* mutant: root index off by one tree
  [intermediateNodes |-> {NodeWidthOf(LeafWidth)},
   leafNodes         |-> {},
   ratchets          |-> [l \in Leaf |-> [k \in RatchetKind |-> RatchetRoot]]]

CreateSecretTree ==
  [intermediateNodes |-> {Root(LeafWidth)},
   leafNodes         |-> {},
   ratchets          |-> [l \in Leaf |-> [k \in RatchetKind |-> RatchetRoot]]]

-----------------------------------------------------------------------------
PathFromLeaf(leaf) ==
  LET up == DirectPath(LeafToNodeIndex(leaf), LeafWidth)
  IN  {LeafToNodeIndex(leaf)} \union {up[i] : i \in DOMAIN up}

Below(leaf, node) == {p \in PathFromLeaf(leaf) : Level(p) < Level(node)}

\* The nodes that hang off the path from node down to the leaf.
CopathBelow(leaf, node) == {Sibling(p) : p \in Below(leaf, node)}

-----------------------------------------------------------------------------
Highest(nodes) == CHOOSE p \in nodes : \A q \in nodes : Level(q) <= Level(p)

DeriveLeafKeepingParents(leaf, nodes) ==  \* mutant: delete updatedIntermediateNodes[current] lost
  LET held   == PathFromLeaf(leaf) \intersect nodes
      start  == Highest(held)
      walked == Below(leaf, start) \union {start}
  IN  [ok       |-> held # {},
       nodes    |-> nodes \union CopathBelow(leaf, start),
       consumed |-> walked]

\* From the highest held node of the leaf's path, derive both children of
\* every node down to the leaf and delete the node; throws if none is held.
\* What is deleted is consumed.  The leaf's own secret is among it: the caller
\* turns it into ratchets and removes it.
DeriveLeafSecret(leaf, nodes) ==
  LET held   == PathFromLeaf(leaf) \intersect nodes
      start  == Highest(held)
      walked == Below(leaf, start) \union {start}
  IN  [ok       |-> held # {},
       nodes    |-> (nodes \ walked) \union CopathBelow(leaf, start),
       consumed |-> walked]

UpdateTreeDroppingLeafSecret(tree, leaf) ==  \* mutant: leaf secret missing from consumed
  IF leaf \in tree.leafNodes
  THEN [ok |-> TRUE, tree |-> tree, consumedNodes |-> {}]
  ELSE LET derived == DeriveLeafSecret(leaf, tree.intermediateNodes)
       IN  [ok            |-> derived.ok,
            tree          |-> [intermediateNodes |-> derived.nodes,
                               leafNodes         |-> tree.leafNodes \union {leaf},
                               ratchets          |-> tree.ratchets],
            consumedNodes |-> derived.consumed \ {LeafToNodeIndex(leaf)}]

\* The first use of a leaf turns its secret into two ratchets.
UpdateTreeWithLeafSecret(tree, leaf) ==
  IF leaf \in tree.leafNodes
  THEN [ok |-> TRUE, tree |-> tree, consumedNodes |-> {}]
  ELSE LET derived == DeriveLeafSecret(leaf, tree.intermediateNodes)
       IN  [ok            |-> derived.ok,
            tree          |-> [intermediateNodes |-> derived.nodes,
                               leafNodes         |-> tree.leafNodes \union {leaf},
                               ratchets          |-> tree.ratchets],
            consumedNodes |-> derived.consumed]

-----------------------------------------------------------------------------
NewestButOne(generations, max) ==  \* mutant: cutoff one too high
  {g \in generations : Cardinality({h \in generations : h > g}) + 1 < max}

\* The max highest generations: what removeOldGenerations keeps.
Newest(generations, max) ==
  {g \in generations : Cardinality({h \in generations : h > g}) < max}

Skipped(ratchet, desired) ==
  ratchet.unusedGenerations \union ratchet.generation .. desired - 1

RetainedTrimmingNewOnly(ratchet, desired) ==  \* mutant: earlier skipped generations never dropped
  ratchet.unusedGenerations
    \union Newest(ratchet.generation .. desired - 1, RetainKeysForGenerations)

\* Stepping up to desired one generation at a time, the code retains the secret
\* passed over and drops all but the newest.  What it adds is always newest, so
\* the drops add up to one (MCSecretTree compares with the loop).
Retained(ratchet, desired) ==
  IF desired = ratchet.generation THEN ratchet.unusedGenerations
                                  ELSE Newest(Skipped(ratchet, desired), RetainKeysForGenerations)


\* ratchetUntil: up to a generation that is not too far ahead.
RatchetUntil(ratchet, desired) ==
  [ok       |-> desired <= ratchet.generation + MaximumForwardRatchetSteps,
   ratchet  |-> [generation |-> desired, unusedGenerations |-> Retained(ratchet, desired)],
   consumed |-> Skipped(ratchet, desired) \ Retained(ratchet, desired)]

Advanced(ratchet) == [generation        |-> ratchet.generation + 1,
                      unusedGenerations |-> ratchet.unusedGenerations]

Without(ratchet, generation) ==
  [generation        |-> ratchet.generation,
   unusedGenerations |-> ratchet.unusedGenerations \ {generation}]

WithRatchet(tree, leaf, kind, ratchet) ==
  [intermediateNodes |-> tree.intermediateNodes,
   leafNodes         |-> tree.leafNodes,
   ratchets          |-> [tree.ratchets EXCEPT ![leaf][kind] = ratchet]]

SecretsOf(leaf, kind, generations) == {<<leaf, kind, g>> : g \in generations}

\* consumeRatchet, the sender's side: uses the current generation.
ConsumeRatchet(tree, leaf, kind) ==
  LET init    == UpdateTreeWithLeafSecret(tree, leaf)
      ratchet == init.tree.ratchets[leaf][kind]
  IN  [ok              |-> init.ok,
       generation      |-> ratchet.generation,
       tree            |-> WithRatchet(init.tree, leaf, kind, Advanced(ratchet)),
       consumedNodes   |-> init.consumedNodes,
       consumedSecrets |-> SecretsOf(leaf, kind, {ratchet.generation})]

RatchetBackKeepingSecret(init, leaf, kind, generation) ==  \* mutant: unused entry not removed
  LET ratchet == init.tree.ratchets[leaf][kind]
  IN  [ok              |-> init.ok /\ generation \in ratchet.unusedGenerations,
       generation      |-> generation,
       tree            |-> init.tree,
       consumedNodes   |-> init.consumedNodes,
       consumedSecrets |-> SecretsOf(leaf, kind, {generation})]

\* A generation the ratchet has passed: only a retained secret opens it, once.
RatchetBack(init, leaf, kind, generation) ==
  LET ratchet == init.tree.ratchets[leaf][kind]
  IN  [ok              |-> init.ok /\ generation \in ratchet.unusedGenerations,
       generation      |-> generation,
       tree            |-> WithRatchet(init.tree, leaf, kind, Without(ratchet, generation)),
       consumedNodes   |-> init.consumedNodes,
       consumedSecrets |-> SecretsOf(leaf, kind, {generation})]

RatchetForwardWithoutAdvance(init, leaf, kind, generation) ==  \* mutant: generation + 1 lost
  LET step == RatchetUntil(init.tree.ratchets[leaf][kind], generation)
  IN  [ok              |-> init.ok /\ step.ok,
       generation      |-> generation,
       tree            |-> WithRatchet(init.tree, leaf, kind, step.ratchet),
       consumedNodes   |-> init.consumedNodes,
       consumedSecrets |-> SecretsOf(leaf, kind, step.consumed \union {generation})]

\* The current or a later generation: ratchet up to it, use it, move past it.
RatchetForward(init, leaf, kind, generation) ==
  LET step == RatchetUntil(init.tree.ratchets[leaf][kind], generation)
  IN  [ok              |-> init.ok /\ step.ok,
       generation      |-> generation,
       tree            |-> WithRatchet(init.tree, leaf, kind, Advanced(step.ratchet)),
       consumedNodes   |-> init.consumedNodes,
       consumedSecrets |-> SecretsOf(leaf, kind, step.consumed \union {generation})]

\* ratchetToGeneration, the receiver's side.
RatchetToGeneration(tree, leaf, kind, generation) ==
  LET init == UpdateTreeWithLeafSecret(tree, leaf)
  IN  IF init.tree.ratchets[leaf][kind].generation > generation
      THEN RatchetBack(init, leaf, kind, generation)
      ELSE RatchetForward(init, leaf, kind, generation)

-----------------------------------------------------------------------------
\* The ratchet secrets a tree holds (appendSecretTreeValues lists them with the nodes).
HeldSecrets(tree) ==
  UNION {SecretsOf(l, k, {tree.ratchets[l][k].generation}
                         \union tree.ratchets[l][k].unusedGenerations)
         : l \in tree.leafNodes, k \in RatchetKind}
=============================================================================
