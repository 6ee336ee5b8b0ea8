----------------------- MODULE SecretTreeClient_proofs -----------------------
(***************************************************************************)
(* Proofs about SecretTreeClient, for every power of two of leaves, every  *)
(* retention configuration and every set of streams.                       *)
(* What one use does to a tree is proved in SecretTree_proofs.             *)
(***************************************************************************)
EXTENDS SecretTreeClient, SecretTree_proofs

-----------------------------------------------------------------------------
(* The shape of a step: one stream's ratchet moves back or forward.        *)

Granted(l, k, g) ==
  \E result :
    /\ Uses(tree, l, k, g, result)
    /\ tree' = result.tree
    /\ used' = used \union {<<<<l, k>>, g>>}
    /\ consumedNodes' = consumedNodes \union result.consumedNodes
    /\ consumedSecrets' = consumedSecrets \union result.consumedSecrets
    /\ answer' = [stream |-> <<l, k>>, generation |-> g, granted |-> TRUE]

TreeInv == TypeOK /\ Sound(tree)

\* Sealing uses the current generation of the member's own ratchet.
LEMMA SealShape ==
  ASSUME TreeInv, NEW k \in RatchetKind, Seal(k)
  PROVE  Granted(OwnLeaf, k, tree.ratchets[OwnLeaf][k].generation)
<1> DEFINE result == ConsumeRatchet(tree, OwnLeaf, k)
           g == tree.ratchets[OwnLeaf][k].generation
<1>1. Uses(tree, OwnLeaf, k, g, result)
  BY OwnLeafAssumption, ConsumeShape DEF TreeInv
<1>2. Apply(<<OwnLeaf, k>>, result)
  BY DEF Seal
<1>3. result.generation = g
  BY <1>1 DEF Uses
<1> HIDE DEF result
<1> QED
  BY <1>1, <1>2, <1>3 DEF Granted, Apply

\* Opening uses the generation of the message.
LEMMA OpenShape ==
  ASSUME TreeInv, NEW l \in Leaf, NEW k \in RatchetKind, NEW g \in Nat,
         Open(<<l, k>>, g)
  PROVE  Granted(l, k, g)
<1> DEFINE result == RatchetToGeneration(tree, l, k, g)
<1>1. Apply(<<l, k>>, result)
  BY DEF Open
<1>2. Uses(tree, l, k, g, result)
  BY <1>1, RatchetToShape DEF TreeInv, Apply
<1>3. result.generation = g
  BY <1>2 DEF Uses
<1> HIDE DEF result
<1> QED
  BY <1>1, <1>2, <1>3 DEF Granted, Apply

\* Every step either refuses a request or grants one on one stream.
LEMMA StepShape ==
  ASSUME TreeInv, Next
  PROVE  \/ \E l \in Leaf, k \in RatchetKind, g \in 0 .. MaxGeneration :
               <<l, k>> \in Streams /\ Granted(l, k, g)
         \/ \E s \in Streams, g \in 0 .. MaxGeneration : Reject(s, g)
<1>1. ASSUME NEW k \in RatchetKind, <<OwnLeaf, k>> \in Streams, Seal(k)
      PROVE  \E g \in 0 .. MaxGeneration : <<OwnLeaf, k>> \in Streams /\ Granted(OwnLeaf, k, g)
  <2>1. tree.ratchets[OwnLeaf][k].generation \in 0 .. MaxGeneration
    BY <1>1, OwnLeafAssumption, MaxGenerationAssumption, RatchetsOf DEF TreeInv, Sound, Seal
  <2> QED
    BY <1>1, <2>1, SealShape
<1>2. ASSUME NEW s \in Streams, NEW g \in 0 .. MaxGeneration, Open(s, g)
      PROVE  \E l \in Leaf, k \in RatchetKind : <<l, k>> \in Streams /\ Granted(l, k, g)
  <2>1. PICK l \in Leaf, k \in RatchetKind : s = <<l, k>>
    BY StreamsAssumption
  <2>2. g \in Nat
    BY MaxGenerationAssumption
  <2> QED
    BY <1>2, <2>1, <2>2, OpenShape
<1>3. CASE \E k \in {j \in RatchetKind : <<OwnLeaf, j>> \in Streams} : Seal(k)
  BY <1>1, <1>3, OwnLeafAssumption
<1>4. CASE \E s \in Streams, g \in 0 .. MaxGeneration : Open(s, g)
  BY <1>2, <1>4
<1>5. CASE \E s \in Streams, g \in 0 .. MaxGeneration : Reject(s, g)
  BY <1>5
<1> QED
  BY <1>3, <1>4, <1>5 DEF Next

-----------------------------------------------------------------------------
(* Types and the single source of every leaf.                              *)

\* A granted request keeps the state well formed and the tree sound.
LEMMA GrantedKeepsTree ==
  ASSUME TreeInv, NEW l \in Leaf, NEW k \in RatchetKind, NEW g \in Nat,
         <<l, k>> \in Streams, Granted(l, k, g)
  PROVE  TreeInv'
<1>1. PICK result :
        /\ Uses(tree, l, k, g, result)
        /\ tree' = result.tree
        /\ used' = used \union {<<<<l, k>>, g>>}
        /\ consumedNodes' = consumedNodes \union result.consumedNodes
        /\ consumedSecrets' = consumedSecrets \union result.consumedSecrets
        /\ answer' = [stream |-> <<l, k>>, generation |-> g, granted |-> TRUE]
  BY DEF Granted
<1>2. Sound(tree)'
  BY <1>1, UsesSound DEF TreeInv
<1>3. /\ result.consumedNodes \subseteq Node
      /\ result.consumedSecrets \subseteq Leaf \X RatchetKind \X Nat
  BY <1>1, UsesTypes DEF TreeInv
<1>4. TypeOK'
  BY <1>1, <1>2, <1>3 DEF TreeInv, TypeOK, Sound
<1> QED
  BY <1>2, <1>4 DEF TreeInv

LEMMA InitTreeInv == Init => TreeInv
<1> SUFFICES ASSUME Init PROVE TreeInv
  OBVIOUS
<1>1. tree = CreateSecretTree /\ Sound(tree)
  BY NewTreeSound DEF Init
<1>2. TypeOK
  BY <1>1 DEF Init, TypeOK, Sound
<1> QED
  BY <1>1, <1>2 DEF TreeInv

LEMMA NextTreeInv == TreeInv /\ [Next]_vars => TreeInv'
<1>1. ASSUME TreeInv, Next PROVE TreeInv'
  <2>1. CASE \E s \in Streams, g \in 0 .. MaxGeneration : Reject(s, g)
    BY <1>1, <2>1, MaxGenerationAssumption DEF Reject, Throw, TreeInv, TypeOK
  <2>2. CASE \E l \in Leaf, k \in RatchetKind, g \in 0 .. MaxGeneration :
                <<l, k>> \in Streams /\ Granted(l, k, g)
    <3>1. 0 .. MaxGeneration \subseteq Nat
      BY MaxGenerationAssumption
    <3> QED
      BY <1>1, <2>2, <3>1, GrantedKeepsTree
  <2> QED
    BY <1>1, <2>1, <2>2, StepShape
<1>2. ASSUME TreeInv, UNCHANGED vars PROVE TreeInv'
  BY <1>2 DEF TreeInv, TypeOK, vars
<1> QED
  BY <1>1, <1>2

(***************************************************************************)
(* The state is always well formed.                                        *)
(***************************************************************************)
THEOREM TypeCorrect == Spec => []TypeOK
<1>1. TreeInv => TypeOK
  BY DEF TreeInv
<1> QED
  BY <1>1, InitTreeInv, NextTreeInv, PTL DEF Spec

(***************************************************************************)
(* Whatever the order in which leaves are first used, each leaf's secrets  *)
(* have exactly one source: deriveLeafSecret never throws and never derives*)
(* the same ratchets twice.                                                *)
(***************************************************************************)
THEOREM SingleSource == Spec => []OneSourcePerLeaf
<1>1. TreeInv => OneSourcePerLeaf
  BY DEF TreeInv, Sound, OneSource, OneSourcePerLeaf
<1> QED
  BY <1>1, InitTreeInv, NextTreeInv, PTL DEF Spec

-----------------------------------------------------------------------------
(* Zeroing what was consumed destroys nothing that is held.                *)

\* The inductive invariant of everything that follows.
SecretsInv ==
  /\ TreeInv
  /\ AboveSources(tree, consumedNodes)
  /\ BehindRatchets(tree, consumedSecrets)

LEMMA InitSecretsInv == Init => SecretsInv
<1> SUFFICES ASSUME Init PROVE SecretsInv
  OBVIOUS
<1>1. consumedNodes = {} /\ consumedSecrets = {}
  BY DEF Init
<1> QED
  BY <1>1, InitTreeInv DEF SecretsInv, AboveSources, BehindRatchets

LEMMA NextSecretsInv == SecretsInv /\ [Next]_vars => SecretsInv'
<1>1. ASSUME SecretsInv, UNCHANGED <<tree, consumedNodes, consumedSecrets>>, TreeInv'
      PROVE  SecretsInv'
  BY <1>1 DEF SecretsInv
<1>2. ASSUME SecretsInv, Next PROVE SecretsInv'
  <2>1. CASE \E s \in Streams, g \in 0 .. MaxGeneration : Reject(s, g)
    BY <1>1, <1>2, <2>1, NextTreeInv DEF SecretsInv, Reject, Throw
  <2>2. CASE \E l \in Leaf, k \in RatchetKind, g \in 0 .. MaxGeneration :
                <<l, k>> \in Streams /\ Granted(l, k, g)
    <3>1. PICK l \in Leaf, k \in RatchetKind, g \in Nat : Granted(l, k, g)
      BY <2>2, MaxGenerationAssumption
    <3>2. PICK result :
            /\ Uses(tree, l, k, g, result)
            /\ tree' = result.tree
            /\ consumedNodes' = consumedNodes \union result.consumedNodes
            /\ consumedSecrets' = consumedSecrets \union result.consumedSecrets
      BY <3>1 DEF Granted
    <3>3. AboveSources(tree, consumedNodes)'
      BY <1>2, <3>2, UsesKeepsAbove DEF SecretsInv, TreeInv
    <3>4. BehindRatchets(tree, consumedSecrets)'
      BY <1>2, <3>2, UsesKeepsBehind DEF SecretsInv, TreeInv
    <3> QED
      BY <1>2, <3>3, <3>4, NextTreeInv DEF SecretsInv
  <2> QED
    BY <1>2, <2>1, <2>2, StepShape DEF SecretsInv
<1>3. ASSUME SecretsInv, UNCHANGED vars PROVE SecretsInv'
  BY <1>1, <1>3, NextTreeInv DEF SecretsInv, vars
<1> QED
  BY <1>2, <1>3

(***************************************************************************)
(* Zeroing every consumed secret, as the documentation asks applications   *)
(* to do, never destroys a secret the tree still holds.                    *)
(***************************************************************************)
THEOREM ZeroingIsSafe == Spec => []ConsumedNotHeld
<1>1. SecretsInv => ConsumedNotHeld
  <2> SUFFICES ASSUME SecretsInv PROVE ConsumedNotHeld
    OBVIOUS
  <2>1. ASSUME NEW c \in consumedNodes, c \in tree.intermediateNodes PROVE FALSE
    <3>1. c \in Node
      BY <2>1 DEF SecretsInv, TreeInv, TypeOK
    <3>2. PICK m \in Leaf : c \in PathFromLeaf(m)
      BY <3>1, TreeGeometry
    <3>3. Level(c) < Level(c) /\ Level(c) \in Nat
      BY <2>1, <3>1, <3>2, TreeGeometry DEF SecretsInv, AboveSources
    <3> QED
      BY <3>3
  <2>2. ASSUME NEW x \in consumedSecrets, x \in HeldSecrets(tree) PROVE FALSE
    <3>1. PICK l, k, g :
            /\ l \in tree.leafNodes /\ k \in RatchetKind
            /\ x = <<l, k, g>>
            /\ g = tree.ratchets[l][k].generation
                 \/ g \in tree.ratchets[l][k].unusedGenerations
      BY <2>2, HeldMeans
    <3>2. l \in Leaf /\ tree.ratchets[l][k] \in Ratchet
      BY <3>1 DEF SecretsInv, TreeInv, TypeOK, Tree
    <3>3. g \in Nat
      BY <3>1, <3>2 DEF Ratchet
    <3> QED
      BY <2>2, <3>1, <3>2, <3>3 DEF SecretsInv, BehindRatchets, Ratchet
  <2> QED
    BY <2>1, <2>2 DEF ConsumedNotHeld
<1> QED
  BY <1>1, InitSecretsInv, NextSecretsInv, PTL DEF Spec

(***************************************************************************)
(* No step drops a secret without handing it over for zeroing.             *)
(***************************************************************************)
THEOREM NothingDroppedSilently == Spec => DroppedIsConsumed
<1> DEFINE Drop == /\ tree.intermediateNodes \ tree'.intermediateNodes \subseteq consumedNodes'
                   /\ HeldSecrets(tree) \ HeldSecrets(tree') \subseteq consumedSecrets'
<1>1. ASSUME TreeInv, Next PROVE Drop \/ UNCHANGED vars
  <2>1. CASE \E s \in Streams, g \in 0 .. MaxGeneration : Reject(s, g)
    BY <2>1 DEF Reject, Throw
  <2>2. CASE \E l \in Leaf, k \in RatchetKind, g \in 0 .. MaxGeneration :
                <<l, k>> \in Streams /\ Granted(l, k, g)
    <3>1. PICK l \in Leaf, k \in RatchetKind, g \in Nat : Granted(l, k, g)
      BY <2>2, MaxGenerationAssumption
    <3> QED
      BY <1>1, <3>1, UsesDropsConsumed DEF Granted, TreeInv
  <2> QED
    BY <1>1, <2>1, <2>2, StepShape
<1>2. TreeInv /\ [Next]_vars => [Drop]_vars
  BY <1>1
<1> QED
  BY <1>2, InitTreeInv, NextTreeInv, PTL DEF Spec, DroppedIsConsumed

-----------------------------------------------------------------------------
(***************************************************************************)
(* The secret tree implements the replay window.                           *)
(***************************************************************************)
\* The generations whose key was handed out on a ratchet.
UsedOn(l, k) == {g \in Nat : <<<<l, k>>, g>> \in used}

-----------------------------------------------------------------------------
WindowInv ==
  /\ TreeInv
  /\ \A l \in Leaf, k \in RatchetKind : InWindow(tree.ratchets[l][k], UsedOn(l, k))

LEMMA InitWindowInv == Init => WindowInv
<1> SUFFICES ASSUME Init PROVE WindowInv
  OBVIOUS
<1>1. \A l \in Leaf, k \in RatchetKind : tree.ratchets[l][k] = RatchetRoot /\ UsedOn(l, k) = {}
  BY DEF Init, CreateSecretTree, UsedOn
<1>2. InWindow(RatchetRoot, {})
  <2>1. IsFiniteSet({}) /\ Cardinality({}) = 0
    BY FS_EmptySet
  <2> QED
    BY <2>1, RetainAssumption DEF InWindow, RatchetRoot
<1> QED
  BY <1>1, <1>2, InitTreeInv DEF WindowInv

\* What a granted request does to the ratchets and to the generations used.
LEMMA GrantedMoves ==
  ASSUME TreeInv, NEW l \in Leaf, NEW k \in RatchetKind, NEW g \in Nat, Granted(l, k, g)
  PROVE  \E r2 \in Ratchet, gens \in SUBSET Nat :
           /\ Stepped(tree.ratchets[l][k], g, r2, gens)
           /\ \A m \in Leaf, j \in RatchetKind :
                /\ tree'.ratchets[m][j] = IF m = l /\ j = k THEN r2 ELSE tree.ratchets[m][j]
                /\ UsedOn(m, j)' = IF m = l /\ j = k THEN UsedOn(m, j) \union {g} ELSE UsedOn(m, j)
<1>1. PICK result :
        /\ Uses(tree, l, k, g, result)
        /\ tree' = result.tree
        /\ used' = used \union {<<<<l, k>>, g>>}
  BY DEF Granted
<1>2. PICK r2 \in Ratchet, gens \in SUBSET Nat :
        /\ Stepped(tree.ratchets[l][k], g, r2, gens)
        /\ \A m \in Leaf, j \in RatchetKind :
             result.tree.ratchets[m][j] = IF m = l /\ j = k THEN r2 ELSE tree.ratchets[m][j]
  BY <1>1, UsesRatchets DEF TreeInv, Sound
<1>3. \A m \in Leaf, j \in RatchetKind :
         UsedOn(m, j)' = IF m = l /\ j = k THEN UsedOn(m, j) \union {g} ELSE UsedOn(m, j)
  BY <1>1 DEF UsedOn
<1> QED
  BY <1>1, <1>2, <1>3

\* A granted request keeps every ratchet in its window.
LEMMA GrantedKeepsWindow ==
  ASSUME WindowInv, NEW l \in Leaf, NEW k \in RatchetKind, NEW g \in Nat, Granted(l, k, g)
  PROVE  \A m \in Leaf, j \in RatchetKind : InWindow(tree'.ratchets[m][j], UsedOn(m, j)')
<1> DEFINE r == tree.ratchets[l][k]
<1>1. r \in Ratchet /\ InWindow(r, UsedOn(l, k)) /\ UsedOn(l, k) \in SUBSET Nat
  BY RatchetsOf DEF WindowInv, TreeInv, Sound, UsedOn
<1>2. PICK r2 \in Ratchet, gens \in SUBSET Nat :
        /\ Stepped(r, g, r2, gens)
        /\ \A m \in Leaf, j \in RatchetKind :
             /\ tree'.ratchets[m][j] = IF m = l /\ j = k THEN r2 ELSE tree.ratchets[m][j]
             /\ UsedOn(m, j)' = IF m = l /\ j = k THEN UsedOn(m, j) \union {g} ELSE UsedOn(m, j)
  BY GrantedMoves DEF WindowInv
<1>3. InWindow(r2, UsedOn(l, k) \union {g})
  BY <1>1, <1>2, SteppedInWindow
<1> TAKE m \in Leaf, j \in RatchetKind
<1>4. CASE m = l /\ j = k
  BY <1>2, <1>3, <1>4
<1>5. CASE ~ (m = l /\ j = k)
  BY <1>2, <1>5 DEF WindowInv
<1> QED
  BY <1>4, <1>5

LEMMA NextWindowInv == WindowInv /\ [Next]_vars => WindowInv'
<1>1. ASSUME WindowInv, UNCHANGED <<tree, used>>, TreeInv' PROVE WindowInv'
  BY <1>1 DEF WindowInv, UsedOn
<1>2. ASSUME WindowInv, Next PROVE WindowInv'
  <2>1. CASE \E s \in Streams, g \in 0 .. MaxGeneration : Reject(s, g)
    BY <1>1, <1>2, <2>1, NextTreeInv DEF Reject, Throw, WindowInv
  <2>2. CASE \E l \in Leaf, k \in RatchetKind, g \in 0 .. MaxGeneration :
                <<l, k>> \in Streams /\ Granted(l, k, g)
    <3>1. PICK l \in Leaf, k \in RatchetKind, g \in Nat : Granted(l, k, g)
      BY <2>2, MaxGenerationAssumption
    <3> QED
      BY <1>2, <3>1, GrantedKeepsWindow, NextTreeInv DEF WindowInv
  <2> QED
    BY <1>2, <2>1, <2>2, StepShape DEF WindowInv
<1>3. ASSUME WindowInv, UNCHANGED vars PROVE WindowInv'
  <2>1. TreeInv'
    BY <1>3, NextTreeInv DEF WindowInv
  <2> QED
    BY <1>1, <1>3, <2>1 DEF vars
<1> QED
  BY <1>2, <1>3

(***************************************************************************)
(* Skipped generations are retained for the whole window, no more of them  *)
(* than configured, and never one that was used.                           *)
(***************************************************************************)
THEOREM WindowRetained == Spec => []RetentionWindow
<1>1. WindowInv => RetentionWindow
  <2> SUFFICES ASSUME WindowInv, NEW s \in Streams
               PROVE  LET ratchet == tree.ratchets[s[1]][s[2]]
                      IN  /\ Cardinality(ratchet.unusedGenerations) <= RetainKeysForGenerations
                          /\ \A g \in ratchet.unusedGenerations :
                               g < ratchet.generation /\ <<s, g>> \notin used
                          /\ \A g \in 0 .. ratchet.generation - 1 :
                               g + RetainKeysForGenerations + 1 >= ratchet.generation
                                 => g \in ratchet.unusedGenerations \/ <<s, g>> \in used
    BY DEF RetentionWindow
  <2>1. PICK l \in Leaf, k \in RatchetKind : s = <<l, k>>
    BY StreamsAssumption
  <2> DEFINE r == tree.ratchets[l][k]
  <2>2. InWindow(r, UsedOn(l, k)) /\ r \in Ratchet
    BY RatchetsOf DEF WindowInv, TreeInv, Sound
  <2>3. r.generation \in Nat /\ r.unusedGenerations \subseteq Nat
    BY <2>2 DEF Ratchet
  <2> HIDE DEF r
  <2>4. \A g \in Nat : g \in UsedOn(l, k) <=> <<s, g>> \in used
    BY <2>1 DEF UsedOn
  <2> QED
    BY <2>1, <2>2, <2>3, <2>4 DEF InWindow, r
<1> QED
  BY <1>1, InitWindowInv, NextWindowInv, PTL DEF Spec

-----------------------------------------------------------------------------
(* The refinement.                                                         *)

LEMMA GrantImplements ==
  ASSUME WindowInv, NEW l \in Leaf, NEW k \in RatchetKind, NEW g \in 0 .. MaxGeneration,
         <<l, k>> \in Streams, Granted(l, k, g)
  PROVE  Window!Grant(<<l, k>>, g)
<1> DEFINE r == tree.ratchets[l][k]
           head == [s \in Streams |-> tree.ratchets[s[1]][s[2]].generation]
           s0 == <<l, k>>
           r2 == tree'.ratchets[l][k]
<1>1. /\ g \in Nat /\ r \in Ratchet /\ r.generation \in Nat
      /\ InWindow(r, UsedOn(l, k)) /\ TreeInv
  BY MaxGenerationAssumption, RatchetsOf DEF WindowInv, TreeInv, Sound
<1>2. /\ used' = used \union {<<s0, g>>}
      /\ answer' = [stream |-> s0, generation |-> g, granted |-> TRUE]
  BY DEF Granted
<1>3. /\ g \notin UsedOn(l, k)
      /\ g <= r.generation + MaximumForwardRatchetSteps
      /\ r2.generation = IF g < r.generation THEN r.generation ELSE g + 1
      /\ \A m \in Leaf, j \in RatchetKind :
            ~ (m = l /\ j = k) => tree'.ratchets[m][j] = tree.ratchets[m][j]
  <2>1. PICK q, gens :
          /\ Stepped(r, g, q, gens)
          /\ \A m \in Leaf, j \in RatchetKind :
               tree'.ratchets[m][j] = IF m = l /\ j = k THEN q ELSE tree.ratchets[m][j]
    BY <1>1, GrantedMoves
  <2>2. r2 = q
    BY <2>1
  <2>3. CASE g \in r.unusedGenerations /\ g < r.generation /\ q = Without(r, g)
    <3>1. q.generation = r.generation
      BY <2>3 DEF Without
    <3> HIDE DEF r, r2
    <3> QED
      BY <1>1, <2>1, <2>2, <2>3, <3>1, ForwardAssumption DEF InWindow, r, r2
  <2>4. CASE /\ r.generation <= g /\ g <= r.generation + MaximumForwardRatchetSteps
             /\ q = [generation |-> g + 1, unusedGenerations |-> Retained(r, g)]
    <3>1. q.generation = g + 1
      BY <2>4
    <3> QED
      BY <1>1, <2>1, <2>2, <2>4, <3>1 DEF InWindow
  <2> QED
    BY <2>1, <2>3, <2>4 DEF Stepped
<1>4. <<s0, g>> \notin used
  BY <1>1, <1>3 DEF UsedOn
<1>5. head[s0] = r.generation
  OBVIOUS
<1>6. head' = [head EXCEPT ![s0] = IF g < @ THEN @ ELSE g + 1]
  <2>1. SUFFICES ASSUME NEW t \in Streams
                 PROVE  tree'.ratchets[t[1]][t[2]].generation
                          = IF t = s0 THEN (IF g < head[s0] THEN head[s0] ELSE g + 1) ELSE head[t]
    OBVIOUS
  <2>2. PICK m \in Leaf, j \in RatchetKind : t = <<m, j>>
    BY StreamsAssumption
  <2>3. CASE m = l /\ j = k
    BY <1>3, <1>5, <2>2, <2>3
  <2>4. CASE ~ (m = l /\ j = k)
    BY <1>3, <2>2, <2>4
  <2> QED
    BY <2>3, <2>4
<1> QED
  BY <1>2, <1>3, <1>4, <1>5, <1>6 DEF Window!Grant

LEMMA RejectImplements ==
  ASSUME WindowInv, NEW s \in Streams, NEW g \in 0 .. MaxGeneration, Reject(s, g)
  PROVE  Window!Refuse(s, g)
<1>1. PICK l \in Leaf, k \in RatchetKind : s = <<l, k>>
  BY StreamsAssumption
<1> DEFINE r == tree.ratchets[l][k]
<1>2. g \in Nat /\ r.generation \in Nat /\ InWindow(r, UsedOn(l, k)) /\ Sound(tree)
  BY MaxGenerationAssumption, RatchetsOf DEF WindowInv, TreeInv, Sound
<1>3. ~ RatchetToGeneration(tree, l, k, g).ok
  BY <1>1 DEF Reject
<1>4. ~ IF g < r.generation THEN g \in r.unusedGenerations
                            ELSE g <= r.generation + MaximumForwardRatchetSteps
  BY <1>2, <1>3, WhenGranted
<1>5. \/ <<s, g>> \in used
      \/ g + RetainKeysForGenerations + 1 < r.generation
      \/ g > r.generation + MaximumForwardRatchetSteps
  <2>1. CASE g < r.generation
    <3>1. g + RetainKeysForGenerations + 1 >= r.generation => <<s, g>> \in used
      BY <1>1, <1>2, <1>4, <2>1 DEF InWindow, UsedOn
    <3> QED
      BY <1>2, <3>1, RetainAssumption
  <2>2. CASE ~(g < r.generation)
    BY <1>2, <1>4, <2>2, ForwardAssumption
  <2> QED
    BY <2>1, <2>2
<1> QED
  BY <1>1, <1>5 DEF Reject, Throw, Window!Refuse, Window!MayRefuse

(***************************************************************************)
(* The secret tree implements the replay window: a generation is used at   *)
(* most once, and refused only when used, too old or too far ahead.        *)
(***************************************************************************)
THEOREM SecretTreeIsReplayWindow == Spec => ImplementsReplayWindow
<1>1. Init => Window!Init
  <2> SUFFICES ASSUME Init PROVE Window!Init
    OBVIOUS
  <2>1. \A s \in Streams : tree.ratchets[s[1]][s[2]].generation = 0
    BY StreamsAssumption DEF Init, CreateSecretTree, RatchetRoot
  <2> QED
    BY <2>1 DEF Init, Window!Init
<1>2. WindowInv /\ [Next]_vars => [Window!Next]_(Window!vars)
  <2>1. ASSUME WindowInv, Next PROVE Window!Next
    <3>1. ASSUME NEW s \in Streams, NEW g \in 0 .. MaxGeneration, Reject(s, g)
          PROVE  Window!Next
      BY <2>1, <3>1, RejectImplements DEF Window!Next
    <3>2. ASSUME NEW l \in Leaf, NEW k \in RatchetKind, NEW g \in 0 .. MaxGeneration,
                 <<l, k>> \in Streams, Granted(l, k, g)
          PROVE  Window!Next
      BY <2>1, <3>2, GrantImplements DEF Window!Next
    <3> QED
      BY <2>1, <3>1, <3>2, StepShape DEF WindowInv
  <2>2. ASSUME UNCHANGED vars PROVE UNCHANGED Window!vars
    BY <2>2 DEF vars, Window!vars
  <2> QED
    BY <2>1, <2>2
<1> QED
  BY <1>1, <1>2, InitWindowInv, NextWindowInv, PTL DEF Spec, ImplementsReplayWindow, Window!Spec
=============================================================================
