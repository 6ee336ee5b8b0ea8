-------------------------- MODULE SecretTreeClient --------------------------
(***************************************************************************)
(* One member's use of the secret tree of one epoch: it seals its own      *)
(* messages (consumeRatchet, called by protect) and opens messages in      *)
(* whatever order the network delivers them (ratchetToGeneration, called   *)
(* by unprotectPrivateMessage).  An operation that throws returns no new   *)
(* tree, so the member keeps the one it had.                               *)
(***************************************************************************)
EXTENDS SecretTree

CONSTANTS
  OwnLeaf,        \* the member's leaf
  Streams,        \* the <<leaf, ratchet>> pairs messages are opened on
  MaxGeneration   \* bound on the generations in messages

ASSUME OwnLeafAssumption == OwnLeaf \in Leaf
ASSUME StreamsAssumption == Streams \subseteq Leaf \X RatchetKind
ASSUME MaxGenerationAssumption == MaxGeneration \in Nat

VARIABLES
  tree,             \* the secret tree
  used,             \* <<stream, generation>> whose key was handed out
  consumedNodes,    \* inner secrets handed to the application for zeroing
  consumedSecrets,  \* ratchet secrets handed to the application for zeroing
  answer            \* the last request and whether it was granted

vars == <<tree, used, consumedNodes, consumedSecrets, answer>>

Init ==
  /\ tree = CreateSecretTree
  /\ used = {}
  /\ consumedNodes = {}
  /\ consumedSecrets = {}
  /\ answer = [stream |-> "none", generation |-> 0, granted |-> FALSE]

\* The caller replaces its tree by the returned one and zeroes what is consumed.
Apply(s, result) ==
  /\ result.ok
  /\ tree' = result.tree
  /\ used' = used \union {<<s, result.generation>>}
  /\ consumedNodes' = consumedNodes \union result.consumedNodes
  /\ consumedSecrets' = consumedSecrets \union result.consumedSecrets
  /\ answer' = [stream |-> s, generation |-> result.generation, granted |-> TRUE]

Throw(s, generation) ==
  /\ answer' = [stream |-> s, generation |-> generation, granted |-> FALSE]
  /\ UNCHANGED <<tree, used, consumedNodes, consumedSecrets>>

Seal(kind) ==
  /\ tree.ratchets[OwnLeaf][kind].generation <= MaxGeneration
  /\ Apply(<<OwnLeaf, kind>>, ConsumeRatchet(tree, OwnLeaf, kind))

Open(s, generation) ==
  Apply(s, RatchetToGeneration(tree, s[1], s[2], generation))

Reject(s, generation) ==
  /\ ~RatchetToGeneration(tree, s[1], s[2], generation).ok
  /\ Throw(s, generation)

Next ==
  \/ \E kind \in {k \in RatchetKind : <<OwnLeaf, k>> \in Streams} : Seal(kind)
  \/ \E s \in Streams, generation \in 0 .. MaxGeneration :
       Open(s, generation) \/ Reject(s, generation)

Spec == Init /\ [][Next]_vars

-----------------------------------------------------------------------------
TypeOK ==
  /\ tree \in Tree
  /\ used \subseteq Streams \X Nat
  /\ consumedNodes \subseteq Node
  /\ consumedSecrets \subseteq Leaf \X RatchetKind \X Nat
  /\ answer.generation \in Nat /\ answer.granted \in BOOLEAN

(***************************************************************************)
(* Every leaf's secrets have exactly one source: a leaf without ratchets   *)
(* has one held ancestor (so deriveLeafSecret never throws, whatever the   *)
(* order in which leaves are first used), a leaf with ratchets has none    *)
(* (so its ratchets can never be derived again from generation 0).         *)
(***************************************************************************)
OneSourcePerLeaf ==
  \A l \in Leaf :
    LET source == PathFromLeaf(l) \intersect tree.intermediateNodes
    IN  IF l \in tree.leafNodes THEN source = {} ELSE \E n \in Node : source = {n}

(***************************************************************************)
(* Zeroing what the operations returned as consumed destroys nothing the   *)
(* new tree still needs.                                                   *)
(***************************************************************************)
ConsumedNotHeld ==
  /\ consumedNodes \intersect tree.intermediateNodes = {}
  /\ consumedSecrets \intersect HeldSecrets(tree) = {}

(***************************************************************************)
(* A secret leaves the tree only by being handed over as consumed: nothing *)
(* is dropped without the application being able to zero it.               *)
(***************************************************************************)
DroppedIsConsumed ==
  [][/\ tree.intermediateNodes \ tree'.intermediateNodes \subseteq consumedNodes'
     /\ HeldSecrets(tree) \ HeldSecrets(tree') \subseteq consumedSecrets']_vars

(***************************************************************************)
(* Out-of-order messages: skipped generations are kept for the last        *)
(* RetainKeysForGenerations steps before the newest used one, never more   *)
(* of them than configured, and none of them was used already.             *)
(***************************************************************************)
RetentionWindow ==
  \A s \in Streams :
    LET ratchet == tree.ratchets[s[1]][s[2]]
    IN  /\ Cardinality(ratchet.unusedGenerations) <= RetainKeysForGenerations
        /\ \A g \in ratchet.unusedGenerations : g < ratchet.generation /\ <<s, g>> \notin used
        /\ \A g \in 0 .. ratchet.generation - 1 :
             g + RetainKeysForGenerations + 1 >= ratchet.generation
               => g \in ratchet.unusedGenerations \/ <<s, g>> \in used

(***************************************************************************)
(* The secret tree is a replay window per ratchet.                         *)
(***************************************************************************)
Window == INSTANCE ReplayWindow WITH
            Stream <- Streams,
            Behind <- RetainKeysForGenerations,
            Ahead  <- MaximumForwardRatchetSteps,
            head   <- [s \in Streams |-> tree.ratchets[s[1]][s[2]].generation]

ImplementsReplayWindow == Window!Spec
=============================================================================
