-------------------------- MODULE EpochKeys_proofs --------------------------
(***************************************************************************)
(* Proofs about EpochKeys, for every tree and membership, every retention  *)
(* configuration, every choice of wire formats and every number of epochs  *)
(* and messages.  What one use does to a secret tree is proved in          *)
(* SecretTree_proofs.                                                      *)
(***************************************************************************)
EXTENDS EpochKeys, SecretTree_proofs

-----------------------------------------------------------------------------
(* The inductive invariant.                                                *)

Kind(msg) == RatchetForContentType(msg.contentType)

\* The types, with the histories as functions on earlier epochs.
StateInv ==
  /\ epoch \in [Member -> FirstEpoch .. MaxEpoch]
  /\ secretTree = [m \in Member |-> secretTree[m]]
  /\ historicalReceiverData = [m \in Member |-> historicalReceiverData[m]]
  /\ \A m \in Member :
       /\ historicalReceiverData[m]
            = [e \in DOMAIN historicalReceiverData[m] |-> historicalReceiverData[m][e]]
       /\ DOMAIN historicalReceiverData[m] \subseteq 0 .. epoch[m] - 1
  /\ zeroed \in [Member -> SUBSET Buffer]
  /\ network \subseteq Message
  /\ opened \in [Member -> SUBSET network]

\* The trees of the epochs the group was in are sound; epoch 0, in which the
\* creator was alone, has a tree of its own.
TreesInv ==
  \A m \in Member : \A e \in ReceiverEpochs(m) :
    /\ ReceiverTree(m, e) \in Tree
    /\ e >= FirstEpoch => Sound(ReceiverTree(m, e))

\* Nothing is ahead of the member that sent, opened or zeroed it, and a commit
\* is behind its sender.
MessagesInv ==
  /\ \A msg \in network :
       /\ msg.epoch >= FirstEpoch /\ msg.epoch <= epoch[msg.sender]
       /\ msg.contentType = "commit" => msg.epoch < epoch[msg.sender]
       /\ msg.contentType # "commit" => msg.wire = "private"
  /\ \A m \in Member :
       /\ \A msg \in opened[m] : msg.epoch <= epoch[m]
       /\ \A e \in Epoch : \A b : <<e, b>> \in zeroed[m] => e <= epoch[m]

\* A message the member has opened or sent finds its generation spent, or, in a
\* former epoch the member sealed its own commit in, the secret it comes from zeroed.
UsedUp(m, msg) ==
  LET t == ReceiverTree(m, msg.epoch)
  IN  msg.epoch \in ReceiverEpochs(m) =>
        \/ Spent(t, msg.sender, Kind(msg), msg.generation)
        \/ /\ msg.epoch # epoch[m]
           /\ <<msg.epoch, SourceOf(t, msg.sender, Kind(msg), msg.generation)>> \in zeroed[m]

UsedUpInv ==
  \A m \in Member, msg \in network :
    msg.wire = "private" /\ (msg \in opened[m] \/ msg.sender = m) => UsedUp(m, msg)

KeysInv == StateInv /\ TreesInv /\ MessagesInv /\ UsedUpInv

-----------------------------------------------------------------------------
(* Buffers.                                                                *)

LEMMA BuffersMeans ==
  ASSUME NEW e, NEW nodes, NEW secrets, NEW x \in BuffersOf(e, nodes, secrets)
  PROVE  \E b : x = <<e, b>> /\ (b \in secrets \/ \E n \in nodes : b = <<n>>)
  BY DEF BuffersOf

LEMMA MeansBuffers ==
  ASSUME NEW e, NEW nodes, NEW secrets, NEW b, b \in secrets \/ \E n \in nodes : b = <<n>>
  PROVE  <<e, b>> \in BuffersOf(e, nodes, secrets)
<1> DEFINE B == {<<n>> : n \in nodes} \union secrets
<1>1. b \in B
  OBVIOUS
<1> HIDE DEF B
<1>2. <<e, b>> \in {<<e, x>> : x \in B}
  BY <1>1
<1> QED
  BY <1>2 DEF BuffersOf, B

\* Buffers of well-formed secrets are buffers.
LEMMA BuffersType ==
  ASSUME NEW e \in Epoch, NEW nodes, nodes \subseteq Node,
         NEW secrets, secrets \subseteq Leaf \X RatchetKind \X Nat
  PROVE  BuffersOf(e, nodes, secrets) \subseteq Buffer
<1> SUFFICES ASSUME NEW x \in BuffersOf(e, nodes, secrets) PROVE x \in Buffer
  OBVIOUS
<1> DEFINE B == {<<n>> : n \in Node} \union (Leaf \X RatchetKind \X Nat)
<1>1. PICK b : x = <<e, b>> /\ (b \in secrets \/ \E n \in nodes : b = <<n>>)
  BY BuffersMeans
<1>2. b \in B
  BY <1>1
<1> HIDE DEF B
<1>3. x \in Epoch \X B
  BY <1>1, <1>2
<1> QED
  BY <1>3 DEF Buffer, B

LEMMA TreeBuffersType ==
  ASSUME NEW e \in Epoch, NEW T \in Tree
  PROVE  TreeBuffers(e, T) \subseteq Buffer
<1>1. T.intermediateNodes \subseteq Node
  BY DEF Tree
<1>2. HeldSecrets(T) \subseteq Leaf \X RatchetKind \X Nat
  <2> SUFFICES ASSUME NEW x \in HeldSecrets(T) PROVE x \in Leaf \X RatchetKind \X Nat
    OBVIOUS
  <2>1. PICK l, k, g :
          /\ l \in T.leafNodes /\ k \in RatchetKind
          /\ x = <<l, k, g>>
          /\ g = T.ratchets[l][k].generation \/ g \in T.ratchets[l][k].unusedGenerations
    BY HeldMeans
  <2>2. l \in Leaf
    BY <2>1 DEF Tree
  <2>3. g \in Nat
    BY <2>1, <2>2, RatchetsOf
  <2> QED
    BY <2>1, <2>2, <2>3
<1> QED
  BY <1>1, <1>2, BuffersType DEF TreeBuffers

-----------------------------------------------------------------------------
(* The history of trees.                                                   *)

\* addHistoricalReceiverData keeps or hands over every tree; what it hands over
\* it does not keep, unless it is configured to retain no epochs.
LEMMA HistoryAfter ==
  ASSUME NEW H, NEW E, NEW t
  PROVE  LET added == AddHistoricalReceiverData(H, E, t)
             tree(d) == IF d = E THEN t ELSE H[d]
         IN  /\ DOMAIN added.history \subseteq DOMAIN H \union {E}
             /\ added.history = [d \in DOMAIN added.history |-> tree(d)]
             /\ \A d \in (DOMAIN H \union {E}) \ DOMAIN added.history :
                  TreeBuffers(d, tree(d)) \subseteq added.dropped
             /\ \A x \in added.dropped :
                  \E d \in DOMAIN H \union {E} :
                    /\ x \in TreeBuffers(d, tree(d))
                    /\ RetainKeysForEpochs # 0 => d \notin DOMAIN added.history
<1> DEFINE D == DOMAIN H \union {E}
           tree(d) == IF d = E THEN t ELSE H[d]
           withNew == [d \in D |-> tree(d)]
           newest == Newest(D, RetainKeysForEpochs)
           kept == IF RetainKeysForEpochs = 0 THEN D ELSE newest
           added == AddHistoricalReceiverData(H, E, t)
<1>1. CASE Cardinality(D) >= RetainKeysForEpochs
  <2>1. added = RemoveOldHistoricalReceiverData(withNew, RetainKeysForEpochs)
    BY <1>1 DEF AddHistoricalReceiverData
  <2>2. newest \subseteq D /\ kept \subseteq D
    BY DEF Newest
  <2>3. DOMAIN withNew = D /\ \A d \in D : withNew[d] = tree(d)
    OBVIOUS
  <2>4. /\ added.history = [d \in kept |-> withNew[d]]
        /\ added.dropped = UNION {TreeBuffers(d, withNew[d]) : d \in D \ newest}
    <3> HIDE DEF withNew
    <3> QED
      BY <2>1, <2>3 DEF RemoveOldHistoricalReceiverData
  <2>5. DOMAIN added.history = kept
    BY <2>4
  <2>6. added.history = [d \in kept |-> tree(d)]
    BY <2>2, <2>3, <2>4
  <2>7. ASSUME NEW d \in D \ kept PROVE TreeBuffers(d, tree(d)) \subseteq added.dropped
    <3>1. d \in D \ newest
      BY <2>7
    <3> HIDE DEF withNew, newest, kept, added, D
    <3>2. TreeBuffers(d, withNew[d]) \in {TreeBuffers(c, withNew[c]) : c \in D \ newest}
      BY <3>1
    <3>3. withNew[d] = tree(d)
      BY <2>3, <3>1
    <3> QED
      BY <2>4, <3>2, <3>3
  <2>8. ASSUME NEW x \in added.dropped
        PROVE  \E d \in D : x \in TreeBuffers(d, tree(d)) /\ (RetainKeysForEpochs # 0 => d \notin kept)
    <3>1. PICK d \in D \ newest : x \in TreeBuffers(d, withNew[d])
      BY <2>4
    <3>2. withNew[d] = tree(d)
      BY <2>3, <3>1
    <3>3. RetainKeysForEpochs # 0 => d \notin kept
      BY <3>1
    <3> HIDE DEF withNew, newest, kept, added, D
    <3> QED
      BY <3>1, <3>2, <3>3
  <2> QED
    BY <2>2, <2>5, <2>6, <2>7, <2>8
<1>2. CASE ~(Cardinality(D) >= RetainKeysForEpochs)
  <2>1. added = [history |-> withNew, dropped |-> {}]
    BY <1>2 DEF AddHistoricalReceiverData
  <2> QED
    BY <2>1
<1> QED
  BY <1>1, <1>2

-----------------------------------------------------------------------------
(* How the two ways to take over a state change the trees.                 *)

\* Within an epoch, the tree that was used is replaced
LEMMA SameEpochTree ==
  ASSUME StateInv, NEW m \in Member, NEW e \in ReceiverEpochs(m), NEW result,
         SameEpoch(m, e, result),
         NEW n \in Member, NEW d \in ReceiverEpochs(n)
  PROVE  /\ n = m /\ d = e => ReceiverTree(n, d)' = result.tree
         /\ ~(n = m /\ d = e) => ReceiverTree(n, d)' = ReceiverTree(n, d)
<1>0. /\ secretTree = [k \in Member |-> secretTree[k]]
      /\ historicalReceiverData = [k \in Member |-> historicalReceiverData[k]]
      /\ historicalReceiverData[n]
            = [c \in DOMAIN historicalReceiverData[n] |-> historicalReceiverData[n][c]]
  BY DEF StateInv
<1>1. epoch' = epoch
  BY DEF SameEpoch
<1>2. CASE e = epoch[m]
  <2>1. secretTree' = [secretTree EXCEPT ![m] = result.tree] /\ historicalReceiverData' = historicalReceiverData
    BY <1>2 DEF SameEpoch
  <2>2. secretTree'[n] = IF n = m THEN result.tree ELSE secretTree[n]
    BY <1>0, <2>1
  <2> QED
    BY <1>1, <1>2, <2>1, <2>2 DEF ReceiverTree
<1>3. CASE e # epoch[m]
  <2>1. /\ historicalReceiverData' = [historicalReceiverData EXCEPT ![m][e] = result.tree]
        /\ secretTree' = secretTree
    BY <1>3 DEF SameEpoch
  <2>2. CASE d = epoch[n]
    BY <1>1, <1>3, <2>1, <2>2 DEF ReceiverTree
  <2>3. CASE d # epoch[n]
    <3>1. d \in DOMAIN historicalReceiverData[n]
      BY <2>3 DEF ReceiverEpochs
    <3>2. historicalReceiverData'[n][d]
            = IF n = m /\ d = e THEN result.tree ELSE historicalReceiverData[n][d]
      BY <1>0, <2>1, <3>1
    <3> QED
      BY <1>1, <2>3, <3>2 DEF ReceiverTree
  <2> QED
    BY <2>2, <2>3
<1> QED
  BY <1>2, <1>3

\* and the maps keep their domains.
LEMMA SameEpochShape ==
  ASSUME StateInv, NEW m \in Member, NEW e \in ReceiverEpochs(m), NEW result,
         SameEpoch(m, e, result)
  PROVE  /\ epoch' = epoch
         /\ secretTree' = [n \in Member |-> secretTree'[n]]
         /\ historicalReceiverData' = [n \in Member |-> historicalReceiverData'[n]]
         /\ \A n \in Member :
              /\ historicalReceiverData'[n] = [d \in DOMAIN historicalReceiverData[n] |-> historicalReceiverData'[n][d]]
              /\ DOMAIN historicalReceiverData'[n] = DOMAIN historicalReceiverData[n]
              /\ ReceiverEpochs(n)' = ReceiverEpochs(n)
         /\ zeroed' = [zeroed EXCEPT ![m] = zeroed[m] \union ConsumedBy(e, result)]
<1>0. /\ secretTree = [n \in Member |-> secretTree[n]]
      /\ historicalReceiverData = [n \in Member |-> historicalReceiverData[n]]
      /\ \A n \in Member : historicalReceiverData[n]
            = [d \in DOMAIN historicalReceiverData[n] |-> historicalReceiverData[n][d]]
  BY DEF StateInv
<1>1. epoch' = epoch /\ zeroed' = [zeroed EXCEPT ![m] = zeroed[m] \union ConsumedBy(e, result)]
  BY DEF SameEpoch
<1>2. CASE e = epoch[m]
  BY <1>0, <1>1, <1>2 DEF SameEpoch, ReceiverEpochs
<1>3. CASE e # epoch[m]
  <2>1. /\ historicalReceiverData' = [historicalReceiverData EXCEPT ![m][e] = result.tree]
        /\ secretTree' = secretTree
    BY <1>3 DEF SameEpoch
  <2>2. e \in DOMAIN historicalReceiverData[m]
    BY <1>3 DEF ReceiverEpochs
  <2>3. /\ historicalReceiverData' = [n \in Member |-> historicalReceiverData'[n]]
        /\ \A n \in Member : n # m => historicalReceiverData'[n] = historicalReceiverData[n]
        /\ historicalReceiverData'[m] = [historicalReceiverData[m] EXCEPT ![e] = result.tree]
    BY <1>0, <2>1
  <2>4. \A n \in Member :
          /\ historicalReceiverData'[n] = [d \in DOMAIN historicalReceiverData[n] |-> historicalReceiverData'[n][d]]
          /\ DOMAIN historicalReceiverData'[n] = DOMAIN historicalReceiverData[n]
    BY <1>0, <2>2, <2>3
  <2>5. \A n \in Member : ReceiverEpochs(n)' = ReceiverEpochs(n)
    BY <1>1, <2>4 DEF ReceiverEpochs
  <2> QED
    BY <1>0, <1>1, <2>1, <2>3, <2>4, <2>5
<1> QED
  BY <1>2, <1>3

\* Everything else stays.
LEMMA SameEpochRest ==
  ASSUME StateInv, NEW m \in Member, NEW e \in ReceiverEpochs(m), NEW result,
         SameEpoch(m, e, result)
  PROVE  /\ epoch' = epoch
         /\ \A n \in Member : ReceiverEpochs(n)' = ReceiverEpochs(n)
         /\ zeroed' = [zeroed EXCEPT ![m] = zeroed[m] \union ConsumedBy(e, result)]
<1>1. epoch' = epoch /\ zeroed' = [zeroed EXCEPT ![m] = zeroed[m] \union ConsumedBy(e, result)]
  BY DEF SameEpoch
<1>2. \A n \in Member : ReceiverEpochs(n)' = ReceiverEpochs(n)
  BY SameEpochShape
<1> QED
  BY <1>1, <1>2

\* The trees of the member whose epoch ends, before the new epoch.
EndedTree(m, endingTree, e) == IF e = epoch[m] THEN endingTree ELSE ReceiverTree(m, e)

\* A new epoch has a new tree; the one that ends joins the history, which may
\* give up some of its trees.
LEMMA NextEpochTrees ==
  ASSUME StateInv, NEW m \in Member, NEW endingTree, NEW consumed,
         NextEpoch(m, endingTree, consumed)
  PROVE  LET next == epoch[m] + 1
         IN  /\ epoch' = [epoch EXCEPT ![m] = next]
             /\ secretTree' = [n \in Member |-> secretTree'[n]]
             /\ historicalReceiverData' = [n \in Member |-> historicalReceiverData'[n]]
             /\ \A n \in Member :
                  /\ historicalReceiverData'[n]
                       = [d \in DOMAIN historicalReceiverData'[n] |-> historicalReceiverData'[n][d]]
                  /\ n # m => /\ ReceiverEpochs(n)' = ReceiverEpochs(n)
                              /\ \A d \in ReceiverEpochs(n) : ReceiverTree(n, d)' = ReceiverTree(n, d)
             /\ \A d \in ReceiverEpochs(m)' :
                  \/ d = next /\ ReceiverTree(m, d)' = CreateSecretTree
                  \/ /\ d \in ReceiverEpochs(m) /\ d # next
                     /\ ReceiverTree(m, d)' = EndedTree(m, endingTree, d)
             /\ DOMAIN historicalReceiverData'[m] \subseteq DOMAIN historicalReceiverData[m] \union {epoch[m]}
             /\ \A n \in Member : n # m => historicalReceiverData'[n] = historicalReceiverData[n]
             /\ \E dropped :
                  /\ zeroed' = [zeroed EXCEPT ![m] = zeroed[m] \union consumed \union dropped]
                  /\ \A d \in ReceiverEpochs(m) \ ReceiverEpochs(m)' :
                       TreeBuffers(d, EndedTree(m, endingTree, d)) \subseteq dropped
                  /\ \A x \in dropped :
                       \E d \in ReceiverEpochs(m) :
                         /\ x \in TreeBuffers(d, EndedTree(m, endingTree, d))
                         /\ RetainKeysForEpochs # 0 => d \notin ReceiverEpochs(m)'
<1> DEFINE next == epoch[m] + 1
           H == historicalReceiverData[m]
           added == AddHistoricalReceiverData(H, epoch[m], endingTree)
           tree(d) == IF d = epoch[m] THEN endingTree ELSE H[d]
<1>0. /\ secretTree = [n \in Member |-> secretTree[n]]
      /\ historicalReceiverData = [n \in Member |-> historicalReceiverData[n]]
      /\ \A n \in Member : historicalReceiverData[n]
            = [d \in DOMAIN historicalReceiverData[n] |-> historicalReceiverData[n][d]]
      /\ epoch \in [Member -> FirstEpoch .. MaxEpoch]
      /\ DOMAIN H \subseteq 0 .. epoch[m] - 1
      /\ zeroed = [n \in Member |-> zeroed[n]]
  BY DEF StateInv
<1>1. /\ epoch' = [epoch EXCEPT ![m] = next]
      /\ secretTree' = [secretTree EXCEPT ![m] = CreateSecretTree]
      /\ historicalReceiverData' = [historicalReceiverData EXCEPT ![m] = added.history]
      /\ zeroed' = [zeroed EXCEPT ![m] = zeroed[m] \union consumed \union added.dropped]
  BY DEF NextEpoch
<1>2. /\ DOMAIN added.history \subseteq DOMAIN H \union {epoch[m]}
      /\ added.history = [d \in DOMAIN added.history |-> tree(d)]
      /\ \A d \in (DOMAIN H \union {epoch[m]}) \ DOMAIN added.history :
           TreeBuffers(d, tree(d)) \subseteq added.dropped
      /\ \A x \in added.dropped :
           \E d \in DOMAIN H \union {epoch[m]} :
             /\ x \in TreeBuffers(d, tree(d))
             /\ RetainKeysForEpochs # 0 => d \notin DOMAIN added.history
  BY HistoryAfter
<1> HIDE DEF added
<1>3. epoch[m] \in Nat /\ epoch[m] \notin DOMAIN H /\ next \notin DOMAIN H \union {epoch[m]}
  BY <1>0 DEF FirstEpoch
<1>4. /\ epoch'[m] = next /\ secretTree'[m] = CreateSecretTree
      /\ historicalReceiverData'[m] = added.history
      /\ \A n \in Member : n # m => /\ epoch'[n] = epoch[n] /\ secretTree'[n] = secretTree[n]
                                    /\ historicalReceiverData'[n] = historicalReceiverData[n]
  BY <1>0, <1>1
<1>5. \A d \in DOMAIN H \union {epoch[m]} : tree(d) = EndedTree(m, endingTree, d)
  BY <1>3 DEF ReceiverTree, EndedTree
<1>6. ReceiverEpochs(m)' = {next} \union DOMAIN added.history /\ ReceiverEpochs(m) = {epoch[m]} \union DOMAIN H
  BY <1>4 DEF ReceiverEpochs
<1>7. ASSUME NEW d \in ReceiverEpochs(m)'
      PROVE  \/ d = next /\ ReceiverTree(m, d)' = CreateSecretTree
             \/ /\ d \in ReceiverEpochs(m) /\ d # next
                /\ ReceiverTree(m, d)' = EndedTree(m, endingTree, d)
  <2>1. CASE d = next
    BY <1>4, <2>1 DEF ReceiverTree
  <2>2. CASE d \in DOMAIN added.history
    <3>1. d \in DOMAIN H \union {epoch[m]} /\ d # next
      BY <1>2, <1>3, <2>2
    <3>2. ReceiverTree(m, d)' = added.history[d]
      BY <1>4, <3>1 DEF ReceiverTree
    <3>3. added.history[d] = tree(d)
      BY <1>2, <2>2
    <3> QED
      BY <1>5, <1>6, <3>1, <3>2, <3>3
  <2> QED
    BY <1>6, <1>7, <2>1, <2>2
<1>8. ASSUME NEW n \in Member, n # m
      PROVE  /\ ReceiverEpochs(n)' = ReceiverEpochs(n)
             /\ \A d \in ReceiverEpochs(n) : ReceiverTree(n, d)' = ReceiverTree(n, d)
  BY <1>4, <1>8 DEF ReceiverEpochs, ReceiverTree
<1>9. \A n \in Member : historicalReceiverData'[n]
            = [d \in DOMAIN historicalReceiverData'[n] |-> historicalReceiverData'[n][d]]
  <2> TAKE n \in Member
  <2>1. CASE n = m
    BY <1>2, <1>4, <2>1
  <2>2. CASE n # m
    BY <1>0, <1>4, <2>2
  <2> QED
    BY <2>1, <2>2
<1>10. /\ \A d \in ReceiverEpochs(m) \ ReceiverEpochs(m)' : TreeBuffers(d, EndedTree(m, endingTree, d)) \subseteq added.dropped
       /\ \A x \in added.dropped :
             \E d \in ReceiverEpochs(m) :
               /\ x \in TreeBuffers(d, EndedTree(m, endingTree, d))
               /\ RetainKeysForEpochs # 0 => d \notin ReceiverEpochs(m)'
  <2> HIDE DEF tree, H
  <2> QED
    BY <1>2, <1>3, <1>5, <1>6
<1>11. /\ secretTree' = [n \in Member |-> secretTree'[n]]
       /\ historicalReceiverData' = [n \in Member |-> historicalReceiverData'[n]]
  BY <1>0, <1>1
<1> HIDE DEF tree
<1> QED
  BY <1>1, <1>2, <1>4, <1>7, <1>8, <1>9, <1>10, <1>11

\* What was zeroed stays so, and the consumed secrets are.
LEMMA NextEpochZeroes ==
  ASSUME NEW m \in Member, NEW endingTree, NEW consumed, NextEpoch(m, endingTree, consumed)
  PROVE  \E dropped : zeroed' = [zeroed EXCEPT ![m] = zeroed[m] \union consumed \union dropped]
  BY DEF NextEpoch

-----------------------------------------------------------------------------
(* The shape of a step.                                                    *)

SourceOfMessage(m, msg) ==
  <<msg.epoch, SourceOf(ReceiverTree(m, msg.epoch), msg.sender, Kind(msg), msg.generation)>>

\* Member m uses up the generation of a message.
UsesMessage(m, msg, result) ==
  /\ msg \in Message /\ msg.wire = "private" /\ msg.epoch \in ReceiverEpochs(m)
  /\ Uses(ReceiverTree(m, msg.epoch), msg.sender, Kind(msg), msg.generation, result)

\* It sends the message,
Sends(m, msg) ==
  msg.epoch = epoch[m] /\ msg.sender = m /\ network' = network \union {msg} /\ UNCHANGED opened

\* or opens it.
Opens(m, msg) ==
  msg \in network /\ opened' = [opened EXCEPT ![m] = opened[m] \union {msg}] /\ UNCHANGED network

SendsInEpoch(m, msg, result) ==
  /\ msg.contentType # "commit"
  /\ UsesMessage(m, msg, result) /\ Sends(m, msg)
  /\ SameEpoch(m, msg.epoch, result)

OpensInEpoch(m, msg, result) ==
  /\ SourceOfMessage(m, msg) \notin zeroed[m]
  /\ UsesMessage(m, msg, result) /\ Opens(m, msg)
  /\ SameEpoch(m, msg.epoch, result)

EndsWith(m, msg) ==
  msg.contentType = "commit" /\ msg.epoch = epoch[m] /\ epoch[m] < MaxEpoch

EndsPublicly(m, msg) ==
  /\ EndsWith(m, msg) /\ msg \in Message /\ msg.wire = "public"
  /\ Sends(m, msg) \/ Opens(m, msg)
  /\ NextEpoch(m, secretTree[m], {})

EndsBySealing(m, msg, result) ==
  /\ EndsWith(m, msg)
  /\ UsesMessage(m, msg, result) /\ Sends(m, msg)
  /\ msg.generation = secretTree[m].ratchets[m]["handshake"].generation
  /\ NextEpoch(m, secretTree[m], ConsumedBy(epoch[m], result))

EndsByOpening(m, msg, result) ==
  /\ EndsWith(m, msg)
  /\ UsesMessage(m, msg, result) /\ Opens(m, msg)
  /\ NextEpoch(m, result.tree, ConsumedBy(epoch[m], result))

Step(m, msg, result) ==
  \/ SendsInEpoch(m, msg, result) \/ OpensInEpoch(m, msg, result)
  \/ EndsPublicly(m, msg) \/ EndsBySealing(m, msg, result) \/ EndsByOpening(m, msg, result)

\* The fields of a message.
LEMMA MessageFields ==
  ASSUME NEW msg \in Message
  PROVE  /\ msg.epoch \in Epoch /\ msg.epoch \in Nat /\ msg.generation \in Nat
         /\ msg.sender \in Member /\ msg.sender \in Leaf /\ Kind(msg) \in RatchetKind
         /\ msg.wire \in {"public", "private"} /\ msg.contentType \in Content
<1>1. /\ msg.epoch \in Epoch /\ msg.generation \in Nat /\ msg.sender \in Member
      /\ msg.wire \in {"public", "private"} /\ msg.contentType \in Content
  BY DEF Message
<1>2. msg.epoch \in Nat
  BY <1>1 DEF Epoch
<1>3. Kind(msg) \in RatchetKind
  BY DEF Kind, RatchetForContentType, RatchetKind
<1> QED
  BY <1>1, <1>2, <1>3, MemberAssumption

\* What unprotectPrivateMessage answers.
LEMMA UnprotectMeans ==
  ASSUME StateInv, TreesInv, MessagesInv, NEW m \in Member, NEW msg \in network,
         NEW result \in Unprotect(m, msg)
  PROVE  /\ msg.epoch \in ReceiverEpochs(m)
         /\ Sound(ReceiverTree(m, msg.epoch))
         /\ RatchetToGeneration(ReceiverTree(m, msg.epoch), msg.sender, Kind(msg), msg.generation).ok
         /\ SourceOfMessage(m, msg) \notin zeroed[m]
         /\ msg.wire = "private" => UsesMessage(m, msg, result)
<1>1. msg \in Message /\ msg.epoch >= FirstEpoch
  BY DEF StateInv, MessagesInv
<1>2. /\ msg.epoch \in ReceiverEpochs(m)
      /\ result = RatchetToGeneration(ReceiverTree(m, msg.epoch), msg.sender, Kind(msg), msg.generation)
      /\ result.ok
      /\ SourceOfMessage(m, msg) \notin zeroed[m]
  <2> DEFINE answers(tree, kind) ==
               {r \in {RatchetToGeneration(tree, msg.sender, kind, msg.generation)} :
                  /\ r.ok
                  /\ <<msg.epoch, SourceOf(tree, msg.sender, kind, msg.generation)>> \notin zeroed[m]}
             trees == {ReceiverTree(m, e) : e \in ReceiverEpochs(m) \intersect {msg.epoch}}
  <2>1. Unprotect(m, msg) = UNION {answers(tree, kind) : tree \in trees, kind \in {Kind(msg)}}
    BY DEF Unprotect, Kind
  <2>2. PICK tree \in trees : result \in answers(tree, Kind(msg))
    <3> HIDE DEF answers, trees
    <3> QED
      BY <2>1
  <2>3. tree = ReceiverTree(m, msg.epoch) /\ msg.epoch \in ReceiverEpochs(m)
    BY <2>2
  <2> QED
    BY <2>2, <2>3 DEF SourceOfMessage
<1>3. Sound(ReceiverTree(m, msg.epoch))
  BY <1>1, <1>2 DEF TreesInv
<1>4. Uses(ReceiverTree(m, msg.epoch), msg.sender, Kind(msg), msg.generation, result)
  BY <1>1, <1>2, <1>3, MessageFields, RatchetToShape
<1> QED
  BY <1>1, <1>2, <1>3, <1>4 DEF UsesMessage

\* When it answers.
LEMMA MeansUnprotect ==
  ASSUME NEW m \in Member, NEW msg, msg.epoch \in ReceiverEpochs(m),
         RatchetToGeneration(ReceiverTree(m, msg.epoch), msg.sender, Kind(msg), msg.generation).ok,
         SourceOfMessage(m, msg) \notin zeroed[m]
  PROVE  Unprotect(m, msg) # {}
<1> DEFINE t == ReceiverTree(m, msg.epoch)
           result == RatchetToGeneration(t, msg.sender, Kind(msg), msg.generation)
           answers(tree, kind) ==
             {r \in {RatchetToGeneration(tree, msg.sender, kind, msg.generation)} :
                /\ r.ok
                /\ <<msg.epoch, SourceOf(tree, msg.sender, kind, msg.generation)>> \notin zeroed[m]}
           trees == {ReceiverTree(m, e) : e \in ReceiverEpochs(m) \intersect {msg.epoch}}
<1>1. result.ok /\ t \in trees
  OBVIOUS
<1>2. result \in answers(t, Kind(msg))
  BY <1>1 DEF SourceOfMessage
<1>3. Unprotect(m, msg) = UNION {answers(tree, kind) : tree \in trees, kind \in {Kind(msg)}}
  BY DEF Unprotect, Kind
<1> HIDE DEF answers, trees, result, t
<1>4. answers(t, Kind(msg)) \in {answers(tree, kind) : tree \in trees, kind \in {Kind(msg)}}
  BY <1>1
<1> QED
  BY <1>2, <1>3, <1>4

\* Every step is one of the five.
LEMMA StepShape ==
  ASSUME StateInv, TreesInv, MessagesInv, Next
  PROVE  \E m \in Member : \E msg, result : Step(m, msg, result)
<1>1. PICK m \in Member :
        \/ \E contentType \in {"application", "proposal"} : Create(m, contentType)
        \/ CreateCommit(m)
        \/ \E msg \in network : ProcessMessage(m, msg) \/ AcceptCommit(m, msg) \/ RejectCommit(m, msg)
  BY DEF Next
<1>2. /\ epoch[m] \in ReceiverEpochs(m) /\ ReceiverTree(m, epoch[m]) = secretTree[m]
      /\ epoch[m] \in Epoch /\ epoch[m] \in Nat /\ epoch[m] >= FirstEpoch /\ Sound(secretTree[m])
      /\ m \in Leaf
  <2>1. epoch[m] \in FirstEpoch .. MaxEpoch
    BY DEF StateInv
  <2>2. epoch[m] \in ReceiverEpochs(m) /\ ReceiverTree(m, epoch[m]) = secretTree[m]
    BY DEF ReceiverEpochs, ReceiverTree
  <2> QED
    BY <2>1, <2>2, MemberAssumption, BoundsAssumption DEF TreesInv, Epoch, FirstEpoch
<1>3. \A contentType \in Content, wire \in {"public", "private"}, g \in Nat :
         Sent(m, wire, contentType, g) \in Message
  BY <1>2 DEF Sent, Message
<1>4. ASSUME NEW contentType \in {"application", "proposal"}, Create(m, contentType)
      PROVE  \E msg, result : SendsInEpoch(m, msg, result)
  <2> DEFINE k == RatchetForContentType(contentType)
             result == ConsumeRatchet(secretTree[m], m, k)
             g == secretTree[m].ratchets[m][k].generation
             msg == Sent(m, "private", contentType, result.generation)
  <2>1. k \in RatchetKind
    BY DEF RatchetForContentType, RatchetKind
  <2>2. g \in Nat /\ Uses(secretTree[m], m, k, g, result)
    BY <1>2, <2>1, ConsumeShape
  <2>3. result.generation = g
    BY <2>2 DEF Uses
  <2>4. SameEpoch(m, epoch[m], result) /\ network' = network \union {msg} /\ UNCHANGED opened
    BY <1>4 DEF Create
  <2> HIDE DEF result
  <2>5. msg \in Message /\ Kind(msg) = k
    BY <1>3, <2>2, <2>3 DEF Content, Kind, Sent
  <2>6. /\ msg.epoch = epoch[m] /\ msg.sender = m /\ msg.wire = "private"
        /\ msg.contentType # "commit" /\ msg.generation = g
    BY <2>3 DEF Sent
  <2> HIDE DEF msg, k, g
  <2>7. UsesMessage(m, msg, result)
    BY <1>2, <2>2, <2>5, <2>6 DEF UsesMessage
  <2> QED
    BY <2>4, <2>6, <2>7 DEF SendsInEpoch, Sends
<1>5. ASSUME CreatePublicCommit(m) PROVE \E msg : EndsPublicly(m, msg)
  <2> DEFINE msg == Sent(m, "public", "commit", 0)
  <2>1. /\ epoch[m] < MaxEpoch /\ NextEpoch(m, secretTree[m], {})
        /\ network' = network \union {msg} /\ UNCHANGED opened
    BY <1>5 DEF CreatePublicCommit, CommitAllowed
  <2>2. /\ msg \in Message /\ msg.epoch = epoch[m] /\ msg.sender = m /\ msg.wire = "public"
        /\ msg.contentType = "commit"
    BY <1>3 DEF Sent, Content
  <2> HIDE DEF msg
  <2> QED
    BY <2>1, <2>2 DEF EndsPublicly, EndsWith, Sends
<1>6. ASSUME CreatePrivateCommit(m) PROVE \E msg, result : EndsBySealing(m, msg, result)
  <2> DEFINE result == ConsumeRatchet(secretTree[m], m, "handshake")
             g == secretTree[m].ratchets[m]["handshake"].generation
             msg == Sent(m, "private", "commit", result.generation)
  <2>1. g \in Nat /\ Uses(secretTree[m], m, "handshake", g, result)
    BY <1>2, ConsumeShape DEF RatchetKind
  <2>2. result.generation = g
    BY <2>1 DEF Uses
  <2>3. /\ epoch[m] < MaxEpoch /\ NextEpoch(m, secretTree[m], ConsumedBy(epoch[m], result))
        /\ network' = network \union {msg} /\ UNCHANGED opened
    BY <1>6 DEF CreatePrivateCommit, CommitAllowed
  <2> HIDE DEF result
  <2>4. /\ msg \in Message /\ Kind(msg) = "handshake" /\ msg.epoch = epoch[m] /\ msg.sender = m
        /\ msg.wire = "private" /\ msg.contentType = "commit" /\ msg.generation = g
    BY <1>3, <2>1, <2>2 DEF Sent, Content, Kind, RatchetForContentType
  <2> HIDE DEF msg, g
  <2>5. UsesMessage(m, msg, result)
    BY <1>2, <2>1, <2>4 DEF UsesMessage
  <2> QED
    BY <2>3, <2>4, <2>5 DEF EndsBySealing, EndsWith, Sends, g
<1>7. ASSUME NEW msg \in network, ProcessMessage(m, msg) PROVE \E result : OpensInEpoch(m, msg, result)
  <2>1. msg.contentType # "commit"
    BY <1>7 DEF ProcessMessage
  <2>2. msg.wire = "private"
    BY <2>1 DEF MessagesInv
  <2>3. PICK result \in Unprotect(m, msg) : SameEpoch(m, msg.epoch, result)
    BY <1>7 DEF ProcessMessage
  <2>4. Opens(m, msg)
    BY <1>7 DEF ProcessMessage, Opens
  <2> QED
    BY <2>2, <2>3, <2>4, UnprotectMeans DEF OpensInEpoch
<1>8. ASSUME NEW msg \in network, RejectCommit(m, msg) PROVE \E result : OpensInEpoch(m, msg, result)
  <2>1. msg.epoch = epoch[m] /\ msg.wire = "private"
    BY <1>8 DEF RejectCommit, IsCommitFor
  <2>2. PICK result \in Unprotect(m, msg) : SameEpoch(m, msg.epoch, result)
    BY <1>8, <2>1 DEF RejectCommit
  <2>3. Opens(m, msg)
    BY <1>8 DEF RejectCommit, Opens
  <2> QED
    BY <2>1, <2>2, <2>3, UnprotectMeans DEF OpensInEpoch
<1>9. ASSUME NEW msg \in network, AcceptCommit(m, msg)
      PROVE  EndsPublicly(m, msg) \/ \E result : EndsByOpening(m, msg, result)
  <2>1. msg.contentType = "commit" /\ msg.epoch = epoch[m] /\ Opens(m, msg)
    BY <1>9 DEF AcceptCommit, IsCommitFor, Opens
  <2>2. msg \in Message /\ epoch[msg.sender] \in FirstEpoch .. MaxEpoch
    BY MessageFields DEF StateInv
  <2>3. epoch[m] < MaxEpoch
    BY <1>2, <2>1, <2>2, BoundsAssumption DEF MessagesInv, FirstEpoch
  <2>4. CASE msg.wire = "private"
    <3>1. PICK result \in Unprotect(m, msg) : NextEpoch(m, result.tree, ConsumedBy(epoch[m], result))
      BY <1>9, <2>4 DEF AcceptCommit
    <3> QED
      BY <2>1, <2>3, <2>4, <3>1, UnprotectMeans DEF EndsByOpening, EndsWith
  <2>5. CASE msg.wire # "private"
    <3>1. NextEpoch(m, secretTree[m], {})
      BY <1>9, <2>5 DEF AcceptCommit
    <3> QED
      BY <2>1, <2>2, <2>3, <2>5, <3>1, MessageFields DEF EndsPublicly, EndsWith
  <2> QED
    BY <2>4, <2>5
<1>10. CASE \E contentType \in {"application", "proposal"} : Create(m, contentType)
  BY <1>4, <1>10 DEF Step
<1>11. CASE CreateCommit(m)
  BY <1>5, <1>6, <1>11 DEF Step, CreateCommit
<1>12. CASE \E msg \in network : ProcessMessage(m, msg) \/ AcceptCommit(m, msg) \/ RejectCommit(m, msg)
  BY <1>7, <1>8, <1>9, <1>12 DEF Step
<1> QED
  BY <1>1, <1>10, <1>11, <1>12

-----------------------------------------------------------------------------
(* The secrets that messages come from.                                    *)

\* What a leaf with and a leaf without ratchets derives a message's secret from.
LEMMA SourceOfShape ==
  ASSUME NEW t, Sound(t), NEW l \in Leaf, NEW k \in RatchetKind, NEW g \in Nat
  PROVE  /\ l \in t.leafNodes =>
              SourceOf(t, l, k, g)
                = <<l, k, IF g < t.ratchets[l][k].generation THEN g ELSE t.ratchets[l][k].generation>>
         /\ l \notin t.leafNodes =>
              \E n \in PathFromLeaf(l) :
                /\ PathFromLeaf(l) \intersect t.intermediateNodes = {n}
                /\ SourceOf(t, l, k, g) = <<n>>
<1>1. ASSUME l \notin t.leafNodes
      PROVE  \E n \in PathFromLeaf(l) :
                /\ PathFromLeaf(l) \intersect t.intermediateNodes = {n}
                /\ SourceOf(t, l, k, g) = <<n>>
  BY <1>1, DeriveFromSource DEF SourceOf
<1> QED
  BY <1>1 DEF SourceOf

\* Sending consumes the secret the message comes from.
LEMMA SourceConsumed ==
  ASSUME NEW t, Sound(t), NEW l \in Leaf, NEW k \in RatchetKind, NEW e, NEW result,
         Uses(t, l, k, t.ratchets[l][k].generation, result)
  PROVE  <<e, SourceOf(t, l, k, t.ratchets[l][k].generation)>> \in ConsumedBy(e, result)
<1> DEFINE g == t.ratchets[l][k].generation
           b == SourceOf(t, l, k, g)
<1>1. g \in Nat /\ t.ratchets[l][k] \in Ratchet
  BY RatchetsOf DEF Sound
<1>2. CASE l \in t.leafNodes
  <2>1. b = <<l, k, g>>
    BY <1>1, <1>2, SourceOfShape
  <2>2. PICK r2 \in Ratchet, gens \in SUBSET Nat :
          Stepped(t.ratchets[l][k], g, r2, gens) /\ result.consumedSecrets = SecretsOf(l, k, gens)
    BY DEF Uses
  <2>3. g \in gens
    BY <2>2 DEF Stepped
  <2>4. b \in result.consumedSecrets
    BY <2>1, <2>2, <2>3 DEF SecretsOf
  <2> HIDE DEF b
  <2> QED
    BY <2>4, MeansBuffers DEF ConsumedBy, b
<1>3. CASE l \notin t.leafNodes
  <2>1. PICK n \in PathFromLeaf(l) :
          PathFromLeaf(l) \intersect t.intermediateNodes = {n} /\ b = <<n>>
    BY <1>1, <1>3, SourceOfShape
  <2>2. n \in result.consumedNodes
    BY <1>3, <2>1, DeriveEffect DEF Uses
  <2> HIDE DEF b
  <2> QED
    BY <2>1, <2>2, MeansBuffers DEF ConsumedBy, b
<1> QED
  BY <1>2, <1>3

\* A use does not change the source of messages that come from another secret.
LEMMA SourceKept ==
  ASSUME NEW t, Sound(t), NEW l \in Leaf, NEW k \in RatchetKind, NEW g \in Nat, NEW result,
         Uses(t, l, k, g, result),
         NEW m \in Leaf, NEW j \in RatchetKind, NEW x \in Nat,
         SourceOf(t, m, j, x) # SourceOf(t, l, k, g)
  PROVE  SourceOf(result.tree, m, j, x) = SourceOf(t, m, j, x)
<1> DEFINE T == result.tree
           r == t.ratchets[l][k]
<1>1. Sound(T) /\ T.leafNodes = t.leafNodes \union {l}
      /\ T.intermediateNodes = UpdateTreeWithLeafSecret(t, l).tree.intermediateNodes
  BY UsesSound DEF Uses
<1>2. PICK r2 \in Ratchet, gens \in SUBSET Nat :
        /\ Stepped(r, g, r2, gens)
        /\ \A n \in Leaf, i \in RatchetKind :
             T.ratchets[n][i] = IF n = l /\ i = k THEN r2 ELSE t.ratchets[n][i]
  BY UsesRatchets DEF Sound
<1>3. r \in Ratchet /\ r.generation \in Nat /\ r2.generation \in Nat
      /\ \A y \in r.unusedGenerations : y < r.generation
  BY RatchetsOf DEF Sound, UnusedBehind, Ratchet
<1>4. r.generation <= r2.generation /\ (g < r.generation => r2.generation = r.generation)
  <2> HIDE DEF r
  <2> QED
    BY <1>2, <1>3, SteppedFacts
<1> HIDE DEF T
<1>5. CASE m \in t.leafNodes
  <2>1. m \in T.leafNodes
    BY <1>1, <1>5
  <2>2. /\ SourceOf(t, m, j, x) = <<m, j, IF x < t.ratchets[m][j].generation THEN x ELSE t.ratchets[m][j].generation>>
        /\ SourceOf(T, m, j, x) = <<m, j, IF x < T.ratchets[m][j].generation THEN x ELSE T.ratchets[m][j].generation>>
    BY <1>1, <1>5, <2>1, SourceOfShape
  <2>3. CASE ~(m = l /\ j = k)
    BY <1>2, <2>2, <2>3 DEF T
  <2>4. CASE m = l /\ j = k
    <3>1. SourceOf(t, l, k, g) = <<l, k, IF g < r.generation THEN g ELSE r.generation>>
      BY <1>5, <2>4, SourceOfShape
    <3>2. T.ratchets[m][j].generation = r2.generation
      BY <1>2, <2>4 DEF T
    <3>3. (IF x < r.generation THEN x ELSE r.generation) # (IF g < r.generation THEN g ELSE r.generation)
      BY <2>2, <2>4, <3>1
    <3>4. (IF x < r.generation THEN x ELSE r.generation) = (IF x < r2.generation THEN x ELSE r2.generation)
      <4> HIDE DEF r
      <4> QED
        BY <1>3, <1>4, <3>3
    <3> QED
      BY <2>2, <2>4, <3>2, <3>4 DEF T
  <2> QED
    BY <2>3, <2>4
<1>6. CASE m \notin t.leafNodes
  <2>1. PICK n \in PathFromLeaf(m) :
          PathFromLeaf(m) \intersect t.intermediateNodes = {n} /\ SourceOf(t, m, j, x) = <<n>>
    BY <1>6, SourceOfShape
  <2>2. m # l /\ PathFromLeaf(m) \intersect T.intermediateNodes = {n}
    <3>1. CASE l \in t.leafNodes
      <4>1. T.intermediateNodes = t.intermediateNodes
        BY <1>1, <3>1 DEF UpdateTreeWithLeafSecret
      <4> QED
        BY <1>6, <2>1, <3>1, <4>1
    <3>2. CASE l \notin t.leafNodes
      <4>1. PICK y \in PathFromLeaf(l) :
              PathFromLeaf(l) \intersect t.intermediateNodes = {y} /\ SourceOf(t, l, k, g) = <<y>>
        BY <3>2, SourceOfShape
      <4>2. y # n /\ y \notin PathFromLeaf(m) /\ m # l
        BY <2>1, <4>1
      <4>3. T.intermediateNodes = (t.intermediateNodes \ (Below(l, y) \union {y})) \union CopathBelow(l, y)
        <5>1. PICK z \in PathFromLeaf(l) :
                /\ PathFromLeaf(l) \intersect t.intermediateNodes = {z}
                /\ T.intermediateNodes = (t.intermediateNodes \ (Below(l, z) \union {z})) \union CopathBelow(l, z)
          BY <1>1, <3>2, DeriveEffect
        <5>2. z = y
          BY <4>1, <5>1
        <5> QED
          BY <5>1, <5>2
      <4>4. Below(l, y) \intersect t.intermediateNodes = {}
        BY <4>1, TreeGeometry DEF Below
      <4>5. PathFromLeaf(m) \intersect CopathBelow(l, y) = {}
        BY <4>1, <4>2, TreeGeometry DEF CoveredOnce
      <4> QED
        BY <2>1, <4>2, <4>3, <4>4, <4>5
    <3> QED
      BY <3>1, <3>2
  <2>3. m \notin T.leafNodes
    BY <1>1, <1>6, <2>2
  <2>4. PICK z \in PathFromLeaf(m) :
          PathFromLeaf(m) \intersect T.intermediateNodes = {z} /\ SourceOf(T, m, j, x) = <<z>>
    BY <1>1, <2>3, SourceOfShape
  <2> QED
    BY <2>1, <2>2, <2>4 DEF T
<1> QED
  BY <1>5, <1>6

-----------------------------------------------------------------------------
(* The invariant is preserved.                                             *)

\* What is zeroed has the type of buffers.
LEMMA ConsumedType ==
  ASSUME NEW e \in Epoch, NEW t, Sound(t), NEW l \in Leaf, NEW k \in RatchetKind, NEW g \in Nat,
         NEW result, Uses(t, l, k, g, result)
  PROVE  ConsumedBy(e, result) \subseteq Buffer
  BY UsesTypes, BuffersType DEF ConsumedBy

\* The tree that a message uses is sound, and so is the one it leaves.
LEMMA UsesMessageFacts ==
  ASSUME StateInv, TreesInv, NEW m \in Member, NEW msg, NEW result,
         UsesMessage(m, msg, result), msg.epoch >= FirstEpoch
  PROVE  /\ Sound(ReceiverTree(m, msg.epoch)) /\ Sound(result.tree)
         /\ Spent(result.tree, msg.sender, Kind(msg), msg.generation)
         /\ ConsumedBy(msg.epoch, result) \subseteq Buffer
<1> DEFINE t == ReceiverTree(m, msg.epoch)
<1>1. /\ msg \in Message /\ msg.epoch \in ReceiverEpochs(m)
      /\ Uses(t, msg.sender, Kind(msg), msg.generation, result)
  BY DEF UsesMessage
<1>2. Sound(t)
  BY <1>1 DEF TreesInv
<1> HIDE DEF t
<1> QED
  BY <1>1, <1>2, MessageFields, UsesSound, UsesSpends, ConsumedType DEF t

LEMMA UsesMessageDrops ==
  ASSUME StateInv, TreesInv, NEW m \in Member, NEW msg, NEW result,
         UsesMessage(m, msg, result), msg.epoch >= FirstEpoch
  PROVE  LET e == msg.epoch
         IN  TreeBuffers(e, ReceiverTree(m, e)) \subseteq TreeBuffers(e, result.tree) \union ConsumedBy(e, result)
<1> DEFINE e == msg.epoch
           t == ReceiverTree(m, e)
<1>1. /\ msg \in Message /\ Sound(t)
      /\ Uses(t, msg.sender, Kind(msg), msg.generation, result)
  BY DEF UsesMessage, TreesInv
<1>2. /\ t.intermediateNodes \ result.tree.intermediateNodes \subseteq result.consumedNodes
      /\ HeldSecrets(t) \ HeldSecrets(result.tree) \subseteq result.consumedSecrets
  <2> HIDE DEF t
  <2> QED
    BY <1>1, MessageFields, UsesDropsConsumed
<1> HIDE DEF t, e
<1>3. ASSUME NEW x \in TreeBuffers(e, t)
      PROVE  x \in TreeBuffers(e, result.tree) \/ x \in ConsumedBy(e, result)
  <2>1. PICK b : x = <<e, b>> /\ (b \in HeldSecrets(t) \/ \E n \in t.intermediateNodes : b = <<n>>)
    BY BuffersMeans DEF TreeBuffers
  <2>2. \/ b \in HeldSecrets(result.tree) \/ \E n \in result.tree.intermediateNodes : b = <<n>>
        \/ b \in result.consumedSecrets \/ \E n \in result.consumedNodes : b = <<n>>
    BY <1>2, <2>1
  <2> QED
    BY <2>1, <2>2, MeansBuffers DEF TreeBuffers, ConsumedBy
<1> QED
  BY <1>3 DEF t, e

\* What the three ways to end an epoch have in common: what the member held is
\* in the tree it keeps or consumed, and the commit's own generation is spent
\* or comes from a consumed secret.
Ending(m, msg, endingTree, consumed) ==
  /\ EndsWith(m, msg) /\ msg \in Message /\ (Sends(m, msg) \/ Opens(m, msg))
  /\ NextEpoch(m, endingTree, consumed)
  /\ Sound(endingTree)
  /\ consumed \subseteq Buffer
  /\ \A e, b : <<e, b>> \in consumed => e = epoch[m]
  /\ TreeBuffers(epoch[m], secretTree[m]) \subseteq TreeBuffers(epoch[m], endingTree) \union consumed
  /\ \A l \in Leaf, k \in RatchetKind, g \in Nat :
       Spent(secretTree[m], l, k, g) => Spent(endingTree, l, k, g)
  /\ msg.wire = "private" =>
       \/ Spent(endingTree, msg.sender, Kind(msg), msg.generation)
       \/ <<msg.epoch, SourceOf(endingTree, msg.sender, Kind(msg), msg.generation)>> \in consumed

LEMMA EndsShape ==
  ASSUME StateInv, TreesInv, NEW m \in Member, NEW msg, NEW result,
         EndsPublicly(m, msg) \/ EndsBySealing(m, msg, result) \/ EndsByOpening(m, msg, result)
  PROVE  \E endingTree, consumed : Ending(m, msg, endingTree, consumed)
<1>1. /\ epoch[m] \in ReceiverEpochs(m) /\ ReceiverTree(m, epoch[m]) = secretTree[m]
      /\ epoch[m] >= FirstEpoch
  BY DEF ReceiverEpochs, ReceiverTree, StateInv, FirstEpoch
<1>2. Sound(secretTree[m])
  BY <1>1 DEF TreesInv
<1>3. ASSUME EndsPublicly(m, msg) PROVE Ending(m, msg, secretTree[m], {})
  BY <1>2, <1>3 DEF EndsPublicly, Ending
<1>4. ASSUME UsesMessage(m, msg, result), EndsWith(m, msg)
      PROVE  /\ msg.epoch = epoch[m] /\ msg \in Message
             /\ Uses(secretTree[m], msg.sender, Kind(msg), msg.generation, result)
             /\ ConsumedBy(epoch[m], result) \subseteq Buffer /\ Sound(result.tree)
             /\ \A e, b : <<e, b>> \in ConsumedBy(epoch[m], result) => e = epoch[m]
             /\ TreeBuffers(epoch[m], secretTree[m])
                  \subseteq TreeBuffers(epoch[m], result.tree) \union ConsumedBy(epoch[m], result)
  <2>1. msg.epoch = epoch[m]
    BY <1>4 DEF EndsWith
  <2>2. \A e, b : <<e, b>> \in ConsumedBy(epoch[m], result) => e = epoch[m]
    BY BuffersMeans DEF ConsumedBy
  <2>3. Uses(secretTree[m], msg.sender, Kind(msg), msg.generation, result) /\ msg \in Message
    BY <1>1, <1>4, <2>1 DEF UsesMessage
  <2> QED
    BY <1>1, <1>4, <2>1, <2>2, <2>3, UsesMessageFacts, UsesMessageDrops
<1>5. ASSUME EndsBySealing(m, msg, result)
      PROVE  Ending(m, msg, secretTree[m], ConsumedBy(epoch[m], result))
  <2>1. UsesMessage(m, msg, result) /\ EndsWith(m, msg) /\ Sends(m, msg)
        /\ NextEpoch(m, secretTree[m], ConsumedBy(epoch[m], result))
        /\ msg.generation = secretTree[m].ratchets[m]["handshake"].generation
    BY <1>5 DEF EndsBySealing
  <2>2. msg.sender = m /\ Kind(msg) = "handshake"
    BY <2>1 DEF Sends, EndsWith, Kind, RatchetForContentType
  <2>3. Uses(secretTree[m], m, "handshake", secretTree[m].ratchets[m]["handshake"].generation, result)
    BY <1>4, <2>1, <2>2
  <2>4. <<msg.epoch, SourceOf(secretTree[m], m, "handshake", msg.generation)>> \in ConsumedBy(epoch[m], result)
    BY <1>2, <1>4, <2>1, <2>3, MemberAssumption, SourceConsumed DEF RatchetKind
  <2> QED
    BY <1>2, <1>4, <2>1, <2>2, <2>4 DEF Ending
<1>6. ASSUME EndsByOpening(m, msg, result)
      PROVE  Ending(m, msg, result.tree, ConsumedBy(epoch[m], result))
  <2>1. UsesMessage(m, msg, result) /\ EndsWith(m, msg) /\ Opens(m, msg)
        /\ NextEpoch(m, result.tree, ConsumedBy(epoch[m], result))
    BY <1>6 DEF EndsByOpening
  <2>2. /\ Spent(result.tree, msg.sender, Kind(msg), msg.generation)
        /\ \A l \in Leaf, k \in RatchetKind, g \in Nat :
             Spent(secretTree[m], l, k, g) => Spent(result.tree, l, k, g)
    BY <1>2, <1>4, <2>1, MessageFields, UsesSpends
  <2> QED
    BY <1>4, <2>1, <2>2 DEF Ending
<1> QED
  BY <1>3, <1>5, <1>6

\* What the two kinds of step within an epoch have in common.
Within(m, msg, result) ==
  /\ UsesMessage(m, msg, result)
  /\ \/ Sends(m, msg) /\ msg.contentType # "commit"
     \/ Opens(m, msg) /\ SourceOfMessage(m, msg) \notin zeroed[m]
  /\ SameEpoch(m, msg.epoch, result)

LEMMA TwoWays ==
  ASSUME StateInv, TreesInv, NEW m \in Member, NEW msg, NEW result, Step(m, msg, result)
  PROVE  Within(m, msg, result) \/ \E endingTree, consumed : Ending(m, msg, endingTree, consumed)
<1>1. CASE SendsInEpoch(m, msg, result) \/ OpensInEpoch(m, msg, result)
  BY <1>1 DEF SendsInEpoch, OpensInEpoch, Within
<1> QED
  BY <1>1, EndsShape DEF Step

\* The network and the opened messages.
LEMMA TrafficTypes ==
  ASSUME StateInv, NEW m \in Member, NEW msg \in Message, Sends(m, msg) \/ Opens(m, msg)
  PROVE  /\ network \subseteq network' /\ network' \subseteq network \union {msg} /\ network' \subseteq Message
         /\ opened' \in [Member -> SUBSET network']
         /\ \A n \in Member : opened'[n] \subseteq opened[n] \union (IF n = m THEN {msg} ELSE {})
<1>1. network \subseteq Message /\ opened \in [Member -> SUBSET network]
  BY DEF StateInv
<1>2. CASE Sends(m, msg)
  BY <1>1, <1>2 DEF Sends
<1>3. CASE Opens(m, msg)
  BY <1>1, <1>3 DEF Opens
<1> QED
  BY <1>2, <1>3

LEMMA StateInvKept ==
  ASSUME StateInv, TreesInv, MessagesInv, NEW m \in Member, NEW msg, NEW result, Step(m, msg, result)
  PROVE  StateInv'
<1>0. /\ epoch \in [Member -> FirstEpoch .. MaxEpoch] /\ MaxEpoch \in Nat
      /\ zeroed \in [Member -> SUBSET Buffer]
      /\ \A n \in Member : DOMAIN historicalReceiverData[n] \subseteq 0 .. epoch[n] - 1
  BY BoundsAssumption DEF StateInv
<1>1. ASSUME Within(m, msg, result) PROVE StateInv'
  <2>1. /\ msg \in Message /\ msg.epoch \in ReceiverEpochs(m)
        /\ UsesMessage(m, msg, result) /\ (Sends(m, msg) \/ Opens(m, msg))
        /\ SameEpoch(m, msg.epoch, result)
    BY <1>1 DEF UsesMessage, Within
  <2>2. msg.epoch >= FirstEpoch
    BY <1>0, <2>1 DEF Sends, Opens, MessagesInv, FirstEpoch
  <2>3. ConsumedBy(msg.epoch, result) \subseteq Buffer
    BY <2>1, <2>2, UsesMessageFacts
  <2>4. /\ epoch' = epoch
        /\ secretTree' = [n \in Member |-> secretTree'[n]]
        /\ historicalReceiverData' = [n \in Member |-> historicalReceiverData'[n]]
        /\ \A n \in Member :
             /\ historicalReceiverData'[n] = [d \in DOMAIN historicalReceiverData[n] |-> historicalReceiverData'[n][d]]
             /\ DOMAIN historicalReceiverData'[n] = DOMAIN historicalReceiverData[n]
        /\ zeroed' = [zeroed EXCEPT ![m] = zeroed[m] \union ConsumedBy(msg.epoch, result)]
    BY <2>1, SameEpochShape
  <2>5. zeroed' \in [Member -> SUBSET Buffer]
    BY <1>0, <2>3, <2>4
  <2>6. network' \subseteq Message /\ opened' \in [Member -> SUBSET network']
    BY <2>1, TrafficTypes
  <2>7. \A n \in Member :
          /\ historicalReceiverData'[n] = [d \in DOMAIN historicalReceiverData'[n] |-> historicalReceiverData'[n][d]]
          /\ DOMAIN historicalReceiverData'[n] \subseteq 0 .. epoch'[n] - 1
    BY <1>0, <2>4
  <2> QED
    BY <1>0, <2>4, <2>5, <2>6, <2>7 DEF StateInv
<1>2. ASSUME NEW endingTree, NEW consumed, Ending(m, msg, endingTree, consumed) PROVE StateInv'
  <2>1. /\ epoch[m] < MaxEpoch /\ NextEpoch(m, endingTree, consumed)
        /\ Sound(endingTree) /\ consumed \subseteq Buffer
    BY <1>2 DEF Ending, EndsWith
  <2>2. /\ epoch' = [epoch EXCEPT ![m] = epoch[m] + 1]
        /\ secretTree' = [n \in Member |-> secretTree'[n]]
        /\ historicalReceiverData' = [n \in Member |-> historicalReceiverData'[n]]
        /\ \A n \in Member : historicalReceiverData'[n]
                = [d \in DOMAIN historicalReceiverData'[n] |-> historicalReceiverData'[n][d]]
        /\ DOMAIN historicalReceiverData'[m] \subseteq DOMAIN historicalReceiverData[m] \union {epoch[m]}
        /\ \A n \in Member : n # m => historicalReceiverData'[n] = historicalReceiverData[n]
    BY <2>1, NextEpochTrees
  <2>3. PICK dropped :
          /\ zeroed' = [zeroed EXCEPT ![m] = zeroed[m] \union consumed \union dropped]
          /\ \A x \in dropped :
               \E d \in ReceiverEpochs(m) :
                  x \in TreeBuffers(d, EndedTree(m, endingTree, d))
    BY <2>1, NextEpochTrees, SMTT(30)
  <2>4. dropped \subseteq Buffer
    <3>1. ReceiverEpochs(m) \subseteq Epoch
      BY <1>0 DEF ReceiverEpochs, Epoch, FirstEpoch
    <3>2. \A d \in ReceiverEpochs(m) : EndedTree(m, endingTree, d) \in Tree
      BY <2>1 DEF TreesInv, Sound, EndedTree
    <3> QED
      BY <2>3, <3>1, <3>2, TreeBuffersType
  <2>5. zeroed' \in [Member -> SUBSET Buffer]
    BY <1>0, <2>1, <2>3, <2>4
  <2>6. network' \subseteq Message /\ opened' \in [Member -> SUBSET network']
    BY <1>2, TrafficTypes DEF Ending
  <2>7. epoch' \in [Member -> FirstEpoch .. MaxEpoch]
    BY <1>0, <2>1, <2>2 DEF FirstEpoch
  <2>8. \A n \in Member : DOMAIN historicalReceiverData'[n] \subseteq 0 .. epoch'[n] - 1
    <3> TAKE n \in Member
    <3>1. CASE n # m
      BY <1>0, <2>2, <3>1
    <3>2. CASE n = m
      <4>1. epoch'[m] = epoch[m] + 1 /\ epoch[m] \in Nat
        BY <1>0, <2>2 DEF FirstEpoch
      <4>2. DOMAIN historicalReceiverData[m] \union {epoch[m]} \subseteq 0 .. epoch'[m] - 1
        BY <1>0, <4>1
      <4> QED
        BY <2>2, <3>2, <4>2
    <3> QED
      BY <3>1, <3>2
  <2> QED
    BY <2>2, <2>5, <2>6, <2>7, <2>8 DEF StateInv
<1> QED
  BY <1>1, <1>2, TwoWays

\* A message that is used is of an epoch from FirstEpoch to the member's own.
LEMMA WithinEpoch ==
  ASSUME StateInv, MessagesInv, NEW m \in Member, NEW msg, NEW result, Within(m, msg, result)
  PROVE  /\ msg \in Message /\ msg.epoch \in ReceiverEpochs(m)
         /\ msg.epoch \in Nat /\ epoch[m] \in Nat
         /\ msg.epoch >= FirstEpoch /\ msg.epoch <= epoch[m]
<1>1. /\ epoch[m] \in FirstEpoch .. MaxEpoch
      /\ DOMAIN historicalReceiverData[m] \subseteq 0 .. epoch[m] - 1
  BY DEF StateInv
<1>2. epoch[m] \in Nat /\ epoch[m] >= FirstEpoch
  BY <1>1, BoundsAssumption DEF FirstEpoch
<1>3. msg \in Message /\ msg.epoch \in ReceiverEpochs(m)
  BY DEF Within, UsesMessage
<1>4. msg.epoch \in Nat /\ msg.epoch <= epoch[m]
  BY <1>1, <1>2, <1>3, MessageFields DEF ReceiverEpochs
<1>5. msg.epoch >= FirstEpoch
  BY <1>2 DEF Within, Sends, Opens, MessagesInv
<1> QED
  BY <1>2, <1>3, <1>4, <1>5

LEMMA TreesInvKept ==
  ASSUME StateInv, TreesInv, MessagesInv, NEW m \in Member, NEW msg, NEW result, Step(m, msg, result)
  PROVE  TreesInv'
<1>1. ASSUME Within(m, msg, result) PROVE TreesInv'
  <2>1. /\ msg.epoch \in ReceiverEpochs(m) /\ msg.epoch >= FirstEpoch
        /\ SameEpoch(m, msg.epoch, result)
    BY <1>1, WithinEpoch DEF Within
  <2>2. Sound(result.tree) /\ result.tree \in Tree
    BY <1>1, <2>1, UsesMessageFacts DEF Within, Sound
  <2>3. \A n \in Member : ReceiverEpochs(n)' = ReceiverEpochs(n)
    BY <2>1, SameEpochRest
  <2>4. ASSUME NEW n \in Member, NEW d \in ReceiverEpochs(n)
        PROVE  ReceiverTree(n, d)' = result.tree \/ ReceiverTree(n, d)' = ReceiverTree(n, d)
    BY <2>1, SameEpochTree
  <2> SUFFICES ASSUME NEW n \in Member, NEW e \in ReceiverEpochs(n)'
               PROVE  /\ ReceiverTree(n, e)' \in Tree
                      /\ e >= FirstEpoch => Sound(ReceiverTree(n, e)')
    BY DEF TreesInv, Sound, OneSource, UnusedBehind
  <2> QED
    BY <2>2, <2>3, <2>4 DEF TreesInv
<1>2. ASSUME NEW endingTree, NEW consumed, Ending(m, msg, endingTree, consumed) PROVE TreesInv'
  <2>1. /\ NextEpoch(m, endingTree, consumed) /\ Sound(endingTree) /\ endingTree \in Tree
        /\ Sound(CreateSecretTree) /\ CreateSecretTree \in Tree
    BY <1>2, NewTreeSound DEF Ending, Sound
  <2>2. /\ \A n \in Member : n # m =>
             /\ ReceiverEpochs(n)' = ReceiverEpochs(n)
             /\ \A d \in ReceiverEpochs(n) : ReceiverTree(n, d)' = ReceiverTree(n, d)
        /\ \A d \in ReceiverEpochs(m)' :
             \/ ReceiverTree(m, d)' = CreateSecretTree
             \/ d \in ReceiverEpochs(m) /\ ReceiverTree(m, d)' = EndedTree(m, endingTree, d)
    BY <2>1, NextEpochTrees
  <2> SUFFICES ASSUME NEW n \in Member, NEW e \in ReceiverEpochs(n)'
               PROVE  /\ ReceiverTree(n, e)' \in Tree
                      /\ e >= FirstEpoch => Sound(ReceiverTree(n, e)')
    BY DEF TreesInv, Sound, OneSource, UnusedBehind
  <2>3. CASE n # m
    BY <2>2, <2>3 DEF TreesInv
  <2>4. CASE n = m
    BY <2>1, <2>2, <2>4 DEF TreesInv, EndedTree
  <2> QED
    BY <2>3, <2>4
<1> QED
  BY <1>1, <1>2, TwoWays

LEMMA MessagesInvKept ==
  ASSUME StateInv, TreesInv, MessagesInv, NEW m \in Member, NEW msg, NEW result, Step(m, msg, result)
  PROVE  MessagesInv'
<1>0. /\ \A n \in Member : epoch[n] \in Nat /\ epoch[n] >= FirstEpoch
      /\ DOMAIN historicalReceiverData[m] \subseteq 0 .. epoch[m] - 1
      /\ epoch = [n \in Member |-> epoch[n]]
      /\ network \subseteq Message
      /\ zeroed = [n \in Member |-> zeroed[n]]
  BY BoundsAssumption DEF StateInv, FirstEpoch
<1>1. ASSUME Within(m, msg, result) PROVE MessagesInv'
  <2>1. /\ msg \in Message /\ msg.epoch \in ReceiverEpochs(m)
        /\ msg.epoch \in Nat /\ msg.epoch >= FirstEpoch /\ msg.epoch <= epoch[m]
    BY <1>1, WithinEpoch
  <2>2. epoch' = epoch /\ zeroed' = [zeroed EXCEPT ![m] = zeroed[m] \union ConsumedBy(msg.epoch, result)]
    BY <1>1, <2>1, SameEpochRest DEF Within
  <2>3. /\ network' \subseteq network \union {msg}
        /\ \A n \in Member : opened'[n] \subseteq opened[n] \union (IF n = m THEN {msg} ELSE {})
    BY <1>1, <2>1, TrafficTypes DEF Within
  <2>4. ASSUME NEW x \in network'
        PROVE  /\ x.epoch >= FirstEpoch /\ x.epoch <= epoch'[x.sender]
               /\ x.contentType = "commit" => x.epoch < epoch'[x.sender]
               /\ x.contentType # "commit" => x.wire = "private"
    <3>1. CASE x \in network
      BY <2>2, <3>1 DEF MessagesInv
    <3>2. CASE x \notin network
      <4>1. x = msg /\ Sends(m, msg) /\ msg.contentType # "commit" /\ msg.wire = "private"
        BY <1>1, <2>3, <3>2 DEF Within, Opens, UsesMessage
      <4>2. x.sender = m
        BY <4>1 DEF Sends
      <4> QED
        BY <2>1, <2>2, <4>1, <4>2
    <3> QED
      BY <3>1, <3>2
  <2>5. ASSUME NEW n \in Member, NEW x \in opened'[n] PROVE x.epoch <= epoch'[n]
    BY <2>1, <2>2, <2>3 DEF MessagesInv
  <2>6. ASSUME NEW n \in Member, NEW e \in Epoch, NEW b, <<e, b>> \in zeroed'[n] PROVE e <= epoch'[n]
    <3>1. <<e, b>> \in zeroed[n] \/ (n = m /\ <<e, b>> \in ConsumedBy(msg.epoch, result))
      BY <1>0, <2>2, <2>6
    <3>2. <<e, b>> \in ConsumedBy(msg.epoch, result) => e = msg.epoch
      BY BuffersMeans DEF ConsumedBy
    <3> QED
      BY <2>1, <2>2, <3>1, <3>2 DEF MessagesInv
  <2> QED
    BY <2>4, <2>5, <2>6 DEF MessagesInv
<1>2. ASSUME NEW endingTree, NEW consumed, Ending(m, msg, endingTree, consumed) PROVE MessagesInv'
  <2>1. /\ NextEpoch(m, endingTree, consumed) /\ msg \in Message /\ (Sends(m, msg) \/ Opens(m, msg))
        /\ \A e, b : <<e, b>> \in consumed => e = epoch[m]
        /\ msg.epoch = epoch[m] /\ msg.contentType = "commit"
    BY <1>2 DEF Ending, EndsWith
  <2>2. epoch' = [epoch EXCEPT ![m] = epoch[m] + 1]
    BY <2>1, NextEpochTrees
  <2>3. \A n \in Member : epoch'[n] = IF n = m THEN epoch[n] + 1 ELSE epoch[n]
    BY <1>0, <2>2
  <2>4. PICK dropped :
          /\ zeroed' = [zeroed EXCEPT ![m] = zeroed[m] \union consumed \union dropped]
          /\ \A x \in dropped :
               \E d \in ReceiverEpochs(m) : x \in TreeBuffers(d, EndedTree(m, endingTree, d))
    BY <2>1, NextEpochTrees, ZenonT(30)
  <2>5. /\ network' \subseteq network \union {msg}
        /\ \A n \in Member : opened'[n] \subseteq opened[n] \union (IF n = m THEN {msg} ELSE {})
    BY <2>1, TrafficTypes
  <2>6. ASSUME NEW x \in network'
        PROVE  /\ x.epoch >= FirstEpoch /\ x.epoch <= epoch'[x.sender]
               /\ x.contentType = "commit" => x.epoch < epoch'[x.sender]
               /\ x.contentType # "commit" => x.wire = "private"
    <3>1. CASE x \in network
      <4>1. x.sender \in Member /\ x.epoch \in Nat
        BY <1>0, <3>1, MessageFields
      <4>2. epoch[x.sender] \in Nat /\ epoch'[x.sender] \in Nat /\ epoch[x.sender] <= epoch'[x.sender]
        BY <1>0, <2>3, <4>1
      <4>3. /\ x.epoch >= FirstEpoch /\ x.epoch <= epoch[x.sender]
            /\ x.contentType = "commit" => x.epoch < epoch[x.sender]
            /\ x.contentType # "commit" => x.wire = "private"
        BY <3>1 DEF MessagesInv
      <4> QED
        BY <4>1, <4>2, <4>3
    <3>2. CASE x \notin network
      <4>1. x = msg /\ Sends(m, msg)
        BY <2>1, <2>5, <3>2 DEF Opens
      <4>2. x.sender = m /\ x.epoch = epoch[m] /\ x.contentType = "commit"
        BY <2>1, <4>1 DEF Sends
      <4> QED
        BY <1>0, <2>3, <4>2
    <3> QED
      BY <3>1, <3>2
  <2>7. ASSUME NEW n \in Member, NEW x \in opened'[n] PROVE x.epoch <= epoch'[n]
    <3>1. (x = msg /\ n = m) \/ (x.epoch <= epoch[n] /\ x \in network)
      BY <2>5 DEF MessagesInv, StateInv
    <3>2. x \in network => x.epoch \in Nat
      BY <1>0, MessageFields
    <3> QED
      BY <1>0, <2>1, <2>3, <3>1, <3>2
  <2>8. ASSUME NEW n \in Member, NEW e \in Epoch, NEW b, <<e, b>> \in zeroed'[n] PROVE e <= epoch'[n]
    <3>1. \/ <<e, b>> \in zeroed[n]
          \/ n = m /\ <<e, b>> \in consumed
          \/ n = m /\ <<e, b>> \in dropped
      BY <1>0, <2>4, <2>8
    <3>2. ASSUME <<e, b>> \in dropped PROVE e \in ReceiverEpochs(m)
      <4>1. PICK d \in ReceiverEpochs(m) : <<e, b>> \in TreeBuffers(d, EndedTree(m, endingTree, d))
        BY <2>4, <3>2
      <4>2. e = d
        BY <4>1, BuffersMeans DEF TreeBuffers
      <4> QED
        BY <4>1, <4>2
    <3>3. e \in ReceiverEpochs(m) => e <= epoch[m]
      BY <1>0 DEF ReceiverEpochs
    <3>4. e \in Nat
      BY DEF Epoch
    <3>5. e <= epoch[n]
      BY <1>0, <2>1, <3>1, <3>2, <3>3, <3>4 DEF MessagesInv
    <3> QED
      BY <1>0, <2>3, <3>4, <3>5
  <2> QED
    BY <2>6, <2>7, <2>8 DEF MessagesInv
<1> QED
  BY <1>1, <1>2, TwoWays

\* A message is used up when it is in the tree of its epoch,
LEMMA UsedUpMeans ==
  ASSUME NEW n \in Member, NEW x, NEW t
  PROVE  /\ ReceiverTree(n, x.epoch) = t
         /\ x.epoch \in ReceiverEpochs(n) =>
              \/ Spent(t, x.sender, Kind(x), x.generation)
              \/ /\ x.epoch # epoch[n]
                 /\ <<x.epoch, SourceOf(t, x.sender, Kind(x), x.generation)>> \in zeroed[n]
         => UsedUp(n, x)
  BY DEF UsedUp

\* also after a step.
LEMMA UsedUpNext ==
  ASSUME NEW n \in Member, NEW x, NEW t
  PROVE  (/\ ReceiverTree(n, x.epoch) = t
          /\ x.epoch \in ReceiverEpochs(n) =>
               \/ Spent(t, x.sender, Kind(x), x.generation)
               \/ /\ x.epoch # epoch[n]
                  /\ <<x.epoch, SourceOf(t, x.sender, Kind(x), x.generation)>> \in zeroed[n])'
         => UsedUp(n, x)'
  BY UsedUpMeans, PTL

\* What a member opened or sent earlier stays used up within an epoch.
LEMMA UsedUpWithin ==
  ASSUME StateInv, TreesInv, MessagesInv, UsedUpInv,
         NEW m \in Member, NEW msg, NEW result, Within(m, msg, result),
         NEW n \in Member, NEW x \in network', x.wire = "private", x \in opened'[n] \/ x.sender = n
  PROVE  UsedUp(n, x)'
<1>1. /\ msg \in Message /\ msg.epoch \in ReceiverEpochs(m) /\ msg.epoch >= FirstEpoch
      /\ UsesMessage(m, msg, result) /\ (Sends(m, msg) \/ Opens(m, msg))
      /\ SameEpoch(m, msg.epoch, result)
  BY WithinEpoch DEF Within
<1>2. /\ epoch' = epoch
      /\ \A k \in Member : ReceiverEpochs(k)' = ReceiverEpochs(k)
      /\ zeroed' = [zeroed EXCEPT ![m] = zeroed[m] \union ConsumedBy(msg.epoch, result)]
  BY <1>1, SameEpochRest
<1>3. \A b \in zeroed[n] : b \in zeroed'[n]
  BY <1>2 DEF StateInv
<1>4. /\ network' \subseteq network \union {msg} /\ network' \subseteq Message
      /\ opened'[n] \subseteq opened[n] \union (IF n = m THEN {msg} ELSE {})
      /\ opened[n] \subseteq network
  BY <1>1, TrafficTypes DEF StateInv
<1>5. PICK t : ReceiverTree(n, x.epoch)' = t
  OBVIOUS
<1>6. CASE x.epoch \notin ReceiverEpochs(n)'
  BY <1>5, <1>6, UsedUpNext
<1>7. CASE x.epoch \in ReceiverEpochs(n)' /\ n = m /\ x = msg
  <2>1. t = result.tree
    BY <1>1, <1>5, <1>7, SameEpochTree
  <2>2. Spent(t, x.sender, Kind(x), x.generation)
    BY <1>1, <1>7, <2>1, UsesMessageFacts
  <2> QED
    BY <1>5, <2>2, UsedUpNext
<1>8. CASE x.epoch \in ReceiverEpochs(n)' /\ ~(n = m /\ x = msg)
  <2>1. x \in network /\ (x \in opened[n] \/ x.sender = n)
    <3>1. x.sender = m /\ x = msg => n = m \/ x \in network
      BY <1>4
    <3> QED
      BY <1>1, <1>4, <1>8, <3>1 DEF Sends, Opens
  <2>2. UsedUp(n, x) /\ x.epoch \in ReceiverEpochs(n)
    BY <1>2, <1>8, <2>1 DEF UsedUpInv
  <2>3. CASE ~(n = m /\ x.epoch = msg.epoch)
    <3>1. t = ReceiverTree(n, x.epoch)
      BY <1>1, <1>5, <2>2, <2>3, SameEpochTree
    <3> QED
      BY <1>2, <1>3, <1>5, <2>2, <3>1, UsedUpNext DEF UsedUp
  <2>4. CASE n = m /\ x.epoch = msg.epoch
    <3> DEFINE t0 == ReceiverTree(m, msg.epoch)
    <3>1. t = result.tree
      BY <1>1, <1>5, <2>4, SameEpochTree
    <3>2. Sound(t0) /\ Uses(t0, msg.sender, Kind(msg), msg.generation, result)
      BY <1>1, UsesMessageFacts DEF UsesMessage
    <3>3. /\ msg.sender \in Leaf /\ Kind(msg) \in RatchetKind /\ msg.generation \in Nat
          /\ x.sender \in Leaf /\ Kind(x) \in RatchetKind /\ x.generation \in Nat
      BY <1>1, <1>4, MessageFields
    <3> HIDE DEF t0
    <3>4. CASE Spent(t0, x.sender, Kind(x), x.generation)
      <4>1. Spent(t, x.sender, Kind(x), x.generation)
        BY <3>1, <3>2, <3>3, <3>4, UsesSpends
      <4> QED
        BY <1>5, <4>1, UsedUpNext
    <3>5. CASE /\ x.epoch # epoch[m]
               /\ <<x.epoch, SourceOf(t0, x.sender, Kind(x), x.generation)>> \in zeroed[m]
      <4>1. <<msg.epoch, SourceOf(t0, msg.sender, Kind(msg), msg.generation)>> \notin zeroed[m]
        BY <2>4, <3>5 DEF Within, Sends, SourceOfMessage, t0
      <4>2. SourceOf(t0, x.sender, Kind(x), x.generation) # SourceOf(t0, msg.sender, Kind(msg), msg.generation)
        BY <2>4, <3>5, <4>1
      <4>3. SourceOf(t, x.sender, Kind(x), x.generation) = SourceOf(t0, x.sender, Kind(x), x.generation)
        BY <3>1, <3>2, <3>3, <4>2, SourceKept
      <4>4. <<x.epoch, SourceOf(t, x.sender, Kind(x), x.generation)>> \in zeroed'[n]
        BY <1>3, <2>4, <3>5, <4>3
      <4> QED
        BY <1>2, <1>5, <2>4, <3>5, <4>4, UsedUpNext
    <3> QED
      BY <2>2, <2>4, <3>4, <3>5 DEF UsedUp, t0
  <2> QED
    BY <2>3, <2>4
<1> QED
  BY <1>6, <1>7, <1>8

\* It stays used up when an epoch ends.
LEMMA UsedUpEnding ==
  ASSUME StateInv, TreesInv, MessagesInv, UsedUpInv,
         NEW m \in Member, NEW msg, NEW endingTree, NEW consumed, Ending(m, msg, endingTree, consumed),
         NEW n \in Member, NEW x \in network', x.wire = "private", x \in opened'[n] \/ x.sender = n
  PROVE  UsedUp(n, x)'
<1>1. /\ NextEpoch(m, endingTree, consumed) /\ msg \in Message /\ (Sends(m, msg) \/ Opens(m, msg))
      /\ msg.epoch = epoch[m]
  BY DEF Ending, EndsWith
<1>2. /\ network' \subseteq network \union {msg} /\ network' \subseteq Message
      /\ opened'[n] \subseteq opened[n] \union (IF n = m THEN {msg} ELSE {})
      /\ opened[n] \subseteq network
  BY <1>1, TrafficTypes DEF StateInv
<1>3. /\ epoch = [k \in Member |-> epoch[k]] /\ epoch[m] \in Nat
      /\ zeroed = [k \in Member |-> zeroed[k]]
  BY BoundsAssumption DEF StateInv, FirstEpoch
<1>4. epoch' = [epoch EXCEPT ![m] = epoch[m] + 1]
  BY <1>1, NextEpochTrees
<1>5. PICK dropped : zeroed' = [zeroed EXCEPT ![m] = zeroed[m] \union consumed \union dropped]
  BY <1>1, NextEpochZeroes
<1>6. /\ epoch'[m] = epoch[m] + 1 /\ (n # m => epoch'[n] = epoch[n])
      /\ zeroed[n] \subseteq zeroed'[n] /\ consumed \subseteq zeroed'[m]
  BY <1>3, <1>4, <1>5
<1>7. PICK t : ReceiverTree(n, x.epoch)' = t
  OBVIOUS
<1>8. CASE x.epoch \notin ReceiverEpochs(n)'
  BY <1>7, <1>8, UsedUpNext
<1>9. CASE x.epoch \in ReceiverEpochs(n)' /\ n # m
  <2>1. /\ ReceiverEpochs(n)' = ReceiverEpochs(n)
        /\ \A d \in ReceiverEpochs(n) : ReceiverTree(n, d)' = ReceiverTree(n, d)
    BY <1>1, <1>9, NextEpochTrees
  <2>2. t = ReceiverTree(n, x.epoch) /\ x.epoch \in ReceiverEpochs(n)
    BY <1>7, <1>9, <2>1
  <2>3. x \in network /\ (x \in opened[n] \/ x.sender = n)
    BY <1>1, <1>2, <1>9 DEF Sends, Opens
  <2>4. UsedUp(n, x)
    BY <2>3 DEF UsedUpInv
  <2> QED
    BY <1>6, <1>7, <1>9, <2>2, <2>4, UsedUpNext DEF UsedUp
<1>10. CASE x.epoch \in ReceiverEpochs(n)' /\ n = m
  <2>1. x.epoch \in Nat /\ x.epoch <= epoch[m]
    <3>1. x \in network \/ x = msg
      BY <1>2
    <3>2. x.epoch \in Nat
      BY <1>2, MessageFields
    <3>3. CASE x = msg
      BY <1>1, <1>3, <3>3
    <3>4. CASE x # msg
      <4>1. x \in network /\ (x \in opened[m] \/ x.sender = m)
        BY <1>2, <1>10, <3>4
      <4> QED
        BY <4>1, <3>2 DEF MessagesInv
    <3> QED
      BY <3>2, <3>3, <3>4
  <2>2. x.epoch # epoch'[m]
    BY <1>3, <1>6, <2>1
  <2>3. \A d \in ReceiverEpochs(m)' :
          \/ d = epoch[m] + 1
          \/ d \in ReceiverEpochs(m) /\ ReceiverTree(m, d)' = EndedTree(m, endingTree, d)
    BY <1>1, NextEpochTrees
  <2>4. x.epoch \in ReceiverEpochs(m) /\ t = EndedTree(m, endingTree, x.epoch)
    BY <1>6, <1>7, <1>10, <2>2, <2>3
  <2>5. CASE x = msg
    <3>1. t = endingTree
      BY <1>1, <2>4, <2>5 DEF EndedTree
    <3>2. \/ Spent(t, x.sender, Kind(x), x.generation)
          \/ <<x.epoch, SourceOf(t, x.sender, Kind(x), x.generation)>> \in consumed
      BY <2>5, <3>1 DEF Ending
    <3> QED
      BY <1>6, <1>7, <1>10, <2>2, <3>2, UsedUpNext
  <2>6. CASE x # msg
    <3>1. UsedUp(m, x)
      BY <1>2, <1>10, <2>6 DEF UsedUpInv
    <3>2. x.sender \in Leaf /\ Kind(x) \in RatchetKind /\ x.generation \in Nat
      BY <1>2, MessageFields
    <3>3. CASE x.epoch = epoch[m]
      <4>1. Spent(secretTree[m], x.sender, Kind(x), x.generation)
        BY <2>4, <3>1, <3>3 DEF UsedUp, ReceiverTree
      <4>2. Spent(t, x.sender, Kind(x), x.generation)
        BY <2>4, <3>2, <3>3, <4>1 DEF Ending, EndedTree
      <4> QED
        BY <1>7, <4>2, UsedUpNext
    <3>4. CASE x.epoch # epoch[m]
      <4>1. t = ReceiverTree(m, x.epoch)
        BY <2>4, <3>4 DEF EndedTree
      <4>2. \/ Spent(t, x.sender, Kind(x), x.generation)
            \/ <<x.epoch, SourceOf(t, x.sender, Kind(x), x.generation)>> \in zeroed[m]
        BY <2>4, <3>1, <4>1 DEF UsedUp
      <4> QED
        BY <1>6, <1>7, <1>10, <2>2, <4>2, UsedUpNext
    <3> QED
      BY <3>3, <3>4
  <2> QED
    BY <2>5, <2>6
<1> QED
  BY <1>8, <1>9, <1>10

LEMMA UsedUpInvKept ==
  ASSUME KeysInv, NEW m \in Member, NEW msg, NEW result, Step(m, msg, result)
  PROVE  UsedUpInv'
<1>1. StateInv /\ TreesInv /\ MessagesInv /\ UsedUpInv
  BY DEF KeysInv
<1> SUFFICES ASSUME NEW n \in Member, NEW x \in network', x.wire = "private", x \in opened'[n] \/ x.sender = n
             PROVE  UsedUp(n, x)'
  BY DEF UsedUpInv
<1> QED
  BY <1>1, TwoWays, UsedUpWithin, UsedUpEnding

LEMMA NextKeysInv == KeysInv /\ [Next]_vars => KeysInv'
<1> SUFFICES ASSUME KeysInv, [Next]_vars PROVE KeysInv'
  OBVIOUS
<1>1. StateInv /\ TreesInv /\ MessagesInv /\ UsedUpInv
  BY DEF KeysInv
<1>2. CASE Next
  <2>1. PICK m \in Member : \E msg, result : Step(m, msg, result)
    BY <1>1, <1>2, StepShape
  <2>2. PICK msg, result : Step(m, msg, result)
    BY <2>1
  <2>3. StateInv' /\ TreesInv'
    BY <1>1, <2>2, StateInvKept, TreesInvKept
  <2>4. MessagesInv' /\ UsedUpInv'
    BY <1>1, <2>2, MessagesInvKept, UsedUpInvKept
  <2> QED
    BY <2>3, <2>4 DEF KeysInv
<1>3. CASE UNCHANGED vars
  <2>1. /\ StateInv' /\ MessagesInv'
    BY <1>1, <1>3 DEF vars, StateInv, MessagesInv
  <2>2. TreesInv'
    BY <1>1, <1>3 DEF vars, TreesInv, ReceiverEpochs, ReceiverTree, Sound, OneSource, UnusedBehind
  <2>3. \A n \in Member : \A x : ReceiverTree(n, x.epoch)' = ReceiverTree(n, x.epoch) /\ ReceiverEpochs(n)' = ReceiverEpochs(n)
    BY <1>3 DEF vars, ReceiverEpochs, ReceiverTree
  <2>4. UsedUpInv'
    <3> SUFFICES ASSUME NEW n \in Member, NEW x \in network', x.wire = "private", x \in opened'[n] \/ x.sender = n
                 PROVE  UsedUp(n, x)'
      BY DEF UsedUpInv
    <3>1. UsedUp(n, x) /\ epoch' = epoch /\ zeroed' = zeroed
      BY <1>1, <1>3 DEF vars, UsedUpInv
    <3> QED
      BY <2>3, <3>1, UsedUpNext DEF UsedUp
  <2> QED
    BY <2>1, <2>2, <2>4 DEF KeysInv
<1> QED
  BY <1>2, <1>3

-----------------------------------------------------------------------------
(* The first state.                                                        *)

\* The root of a tree of one leaf is that leaf.
LEMMA RootOfOne == Root(1) = 0
<1>1. 2^0 = 1 /\ 2^1 = 2
  BY SMT
<1>2. 0 .. 1 = {0, 1}
  OBVIOUS
<1>3. Log2(1) = CHOOSE k \in {0, 1} : 2^k <= 1 /\ 1 < 2^(k + 1)
  BY <1>2 DEF Log2
<1>4. \A k \in {0, 1} : (2^k <= 1 /\ 1 < 2^(k + 1)) <=> k = 0
  <2>1. (2^0 <= 1 /\ 1 < 2^(0 + 1)) <=> TRUE
    BY <1>1
  <2>2. (2^1 <= 1 /\ 1 < 2^(1 + 1)) <=> FALSE
    BY <1>1
  <2> QED
    BY <2>1, <2>2
<1>5. Log2(1) = 0
  <2> DEFINE P(k) == 2^k <= 1 /\ 1 < 2^(k + 1)
  <2>1. /\ \A k \in {0, 1} : P(k) <=> k = 0
        /\ Log2(1) = CHOOSE k \in {0, 1} : P(k)
    BY <1>3, <1>4
  <2> HIDE DEF P
  <2> QED
    BY <2>1
<1>6. NodeWidthOf(1) = 1
  BY DEF NodeWidthOf
<1>7. Root(1) = 2^0 - 1
  BY <1>5, <1>6 DEF Root, RootFromNodeWidth
<1> QED
  BY <1>1, <1>7

LEMMA InitKeysInv == Init => KeysInv
<1> DEFINE none == [e \in {} |-> CreateSecretTree]
           aloneTree == [CreateSecretTree EXCEPT !.intermediateNodes = {Root(1)}]
           alone == AddHistoricalReceiverData(none, 0, aloneTree).history
<1> SUFFICES ASSUME Init PROVE KeysInv
  OBVIOUS
<1>2. aloneTree \in Tree
  <2>1. 0 \in Node
    <3>1. PICK h : Height(h)
      BY HeightExists
    <3>2. 2^h \in Nat \ {0} /\ 2^(h + 1) = 2 * 2^h
      BY <3>1, PowerOfTwo DEF Height
    <3>3. 0 \in Full(h)
      BY <3>2 DEF Full
    <3> QED
      BY <3>1, <3>3, LeavesAre
  <2>2. CreateSecretTree \in Tree
    BY NewTreeSound DEF Sound
  <2> QED
    BY <2>1, <2>2, RootOfOne DEF Tree
<1>3. PICK creator \in Member :
        historicalReceiverData = [m \in Member |-> IF m = creator THEN alone ELSE none]
  BY DEF Init
<1>4. /\ epoch = [m \in Member |-> FirstEpoch] /\ secretTree = [m \in Member |-> CreateSecretTree]
      /\ zeroed = [m \in Member |-> {}] /\ network = {} /\ opened = [m \in Member |-> {}]
  BY DEF Init
<1>5. DOMAIN none = {} /\ none = [e \in DOMAIN none |-> none[e]]
  OBVIOUS
<1> HIDE DEF none, aloneTree
<1>1. /\ DOMAIN alone \subseteq {0}
      /\ alone = [d \in DOMAIN alone |-> IF d = 0 THEN aloneTree ELSE none[d]]
  BY <1>5, HistoryAfter
<1> HIDE DEF alone
<1>6. ASSUME NEW m \in Member
      PROVE  /\ historicalReceiverData[m] = [e \in DOMAIN historicalReceiverData[m] |-> historicalReceiverData[m][e]]
             /\ DOMAIN historicalReceiverData[m] \subseteq {0}
             /\ \A e \in DOMAIN historicalReceiverData[m] : historicalReceiverData[m][e] \in Tree
  <2>1. CASE m = creator
    BY <1>1, <1>2, <1>3, <2>1
  <2>2. CASE m # creator
    BY <1>3, <1>5, <2>2
  <2> QED
    BY <2>1, <2>2
<1>7. \A m \in Member : DOMAIN historicalReceiverData[m] \subseteq {0}
  BY <1>6
<1>8. StateInv
  <2>1. epoch \in [Member -> FirstEpoch .. MaxEpoch]
    BY <1>4, BoundsAssumption DEF FirstEpoch
  <2>2. \A m \in Member : DOMAIN historicalReceiverData[m] \subseteq 0 .. epoch[m] - 1
    BY <1>4, <1>7 DEF FirstEpoch
  <2> QED
    BY <1>3, <1>4, <1>6, <2>1, <2>2 DEF StateInv
<1>9. TreesInv
  <2> SUFFICES ASSUME NEW m \in Member, NEW e \in ReceiverEpochs(m)
               PROVE  /\ ReceiverTree(m, e) \in Tree
                      /\ e >= FirstEpoch => Sound(ReceiverTree(m, e))
    BY DEF TreesInv
  <2>1. CASE e = epoch[m]
    BY <1>4, <2>1, NewTreeSound DEF ReceiverTree, Sound
  <2>2. CASE e # epoch[m]
    <3>1. e \in DOMAIN historicalReceiverData[m] /\ e = 0
      BY <1>7, <2>2 DEF ReceiverEpochs
    <3>2. historicalReceiverData[m][e] \in Tree
      BY <1>6, <3>1
    <3>3. ~(e >= FirstEpoch)
      BY <3>1 DEF FirstEpoch
    <3> QED
      BY <2>2, <3>2, <3>3 DEF ReceiverTree
  <2> QED
    BY <2>1, <2>2
<1> QED
  BY <1>4, <1>8, <1>9 DEF KeysInv, MessagesInv, UsedUpInv

LEMMA KeysInvariant == Spec => []KeysInv
<1>1. Init => KeysInv
  BY InitKeysInv
<1>2. KeysInv /\ [Next]_vars => KeysInv'
  BY NextKeysInv
<1> QED
  BY <1>1, <1>2, PTL DEF Spec

-----------------------------------------------------------------------------
(* The properties.                                                         *)

(***************************************************************************)
(* The state is well typed: every member's current tree and every tree in  *)
(* its historicalReceiverData is a secret tree, the zeroed buffers are     *)
(* buffers and only sent messages are opened (clientState.ts, secretTree.ts,*)
(* epochReceiverData.ts).                                                  *)
(***************************************************************************)
THEOREM KeysTyped == Spec => []TypeOK
<1>1. KeysInv => TypeOK
  <2> SUFFICES ASSUME KeysInv PROVE TypeOK
    OBVIOUS
  <2>1. StateInv /\ TreesInv
    BY DEF KeysInv
  <2>2. \A m \in Member : /\ epoch[m] \in Nat /\ epoch[m] <= MaxEpoch /\ epoch[m] >= 0
                          /\ DOMAIN historicalReceiverData[m] \subseteq 0 .. epoch[m] - 1
    BY <2>1, BoundsAssumption DEF StateInv, FirstEpoch
  <2>3. ASSUME NEW m \in Member
        PROVE  /\ epoch[m] \in Epoch /\ secretTree[m] \in Tree
               /\ DOMAIN historicalReceiverData[m] \subseteq Epoch
               /\ \A e \in DOMAIN historicalReceiverData[m] : historicalReceiverData[m][e] \in Tree
    <3>1. epoch[m] \in Epoch /\ DOMAIN historicalReceiverData[m] \subseteq Epoch
      BY <2>2, BoundsAssumption DEF Epoch
    <3>2. epoch[m] \notin DOMAIN historicalReceiverData[m]
      BY <2>2
    <3>3. secretTree[m] \in Tree
      BY <2>1 DEF TreesInv, ReceiverEpochs, ReceiverTree
    <3>4. \A e \in DOMAIN historicalReceiverData[m] : historicalReceiverData[m][e] \in Tree
      BY <2>1, <3>2 DEF TreesInv, ReceiverEpochs, ReceiverTree
    <3> QED
      BY <3>1, <3>3, <3>4
  <2> QED
    BY <2>1, <2>3 DEF TypeOK, StateInv
<1> QED
  BY <1>1, KeysInvariant, PTL

(***************************************************************************)
(* A private message is opened at most once by each member and never by    *)
(* its sender, however late or often it is delivered and whatever the      *)
(* member has committed, rejected or received in between: the generation   *)
(* is spent in the tree the receiver looks in (ratchetToGeneration), or    *)
(* the secret it would come from has been zeroed (createCommit keeps the   *)
(* tree from before the commit was sealed).                                *)
(***************************************************************************)
THEOREM MessagesOpenAtMostOnce == Spec => []OpenedAtMostOnce
<1>1. KeysInv => OpenedAtMostOnce
  <2> SUFFICES ASSUME KeysInv, NEW m \in Member, NEW msg \in network,
                      msg \in opened[m] \/ msg.sender = m, CanUnprotect(m, msg)
               PROVE  FALSE
    BY DEF OpenedAtMostOnce
  <2>1. StateInv /\ TreesInv /\ MessagesInv /\ UsedUpInv
    BY DEF KeysInv
  <2>2. PICK result : result \in Unprotect(m, msg)
    BY DEF CanUnprotect
  <2>3. /\ msg.epoch \in ReceiverEpochs(m)
        /\ Sound(ReceiverTree(m, msg.epoch))
        /\ RatchetToGeneration(ReceiverTree(m, msg.epoch), msg.sender, Kind(msg), msg.generation).ok
        /\ SourceOfMessage(m, msg) \notin zeroed[m]
    BY <2>1, <2>2, UnprotectMeans
  <2>4. UsedUp(m, msg)
    BY <2>1 DEF UsedUpInv, CanUnprotect
  <2>5. Spent(ReceiverTree(m, msg.epoch), msg.sender, Kind(msg), msg.generation)
    BY <2>3, <2>4 DEF UsedUp, SourceOfMessage
  <2>6. msg.sender \in Leaf /\ Kind(msg) \in RatchetKind /\ msg.generation \in Nat
    BY <2>1, MessageFields DEF StateInv
  <2> QED
    BY <2>3, <2>5, <2>6, SpentRefused
<1> QED
  BY <1>1, KeysInvariant, PTL

-----------------------------------------------------------------------------
(* The secrets of the secret trees a member holds.                         *)

\* A tree secret is in the tree of one of the member's epochs.
LEMMA InTreesMeans ==
  ASSUME StateInv, NEW m \in Member, NEW x \in TreeSecrets(m)
  PROVE  \E d \in ReceiverEpochs(m) : x \in TreeBuffers(d, ReceiverTree(m, d))
<1> DEFINE H == historicalReceiverData[m]
<1>0. epoch[m] \notin DOMAIN H
  BY BoundsAssumption DEF StateInv, FirstEpoch
<1>1. CASE x \in TreeBuffers(epoch[m], secretTree[m])
  BY <1>1 DEF ReceiverEpochs, ReceiverTree
<1>2. CASE x \in UNION {TreeBuffers(d, H[d]) : d \in DOMAIN H}
  <2>1. PICK d \in DOMAIN H : x \in TreeBuffers(d, H[d])
    BY <1>2
  <2>2. ReceiverTree(m, d) = H[d] /\ d \in ReceiverEpochs(m)
    BY <1>0, <2>1 DEF ReceiverTree, ReceiverEpochs
  <2> QED
    BY <2>1, <2>2
<1> QED
  BY <1>1, <1>2 DEF TreeSecrets, TreeSecretsIn

\* What is in the tree of one of its epochs is one,
LEMMA MeansInTrees ==
  ASSUME NEW m \in Member, NEW d, NEW t, NEW x
  PROVE  d \in ReceiverEpochs(m) /\ ReceiverTree(m, d) = t /\ x \in TreeBuffers(d, t) => x \in TreeSecrets(m)
<1> DEFINE H == historicalReceiverData[m]
<1> SUFFICES ASSUME d \in ReceiverEpochs(m), ReceiverTree(m, d) = t, x \in TreeBuffers(d, t)
             PROVE  x \in TreeSecrets(m)
  OBVIOUS
<1>1. CASE d = epoch[m]
  BY <1>1 DEF TreeSecrets, TreeSecretsIn, ReceiverTree
<1>2. CASE d # epoch[m]
  <2>1. d \in DOMAIN H /\ x \in TreeBuffers(d, H[d])
    BY <1>2 DEF ReceiverEpochs, ReceiverTree
  <2> HIDE DEF H
  <2>2. x \in UNION {TreeBuffers(c, H[c]) : c \in DOMAIN H}
    BY <2>1
  <2> QED
    BY <2>2 DEF TreeSecrets, TreeSecretsIn, H
<1> QED
  BY <1>1, <1>2

\* also after a step.
LEMMA MeansInTreesNext ==
  ASSUME NEW m \in Member, NEW d, NEW t, NEW x
  PROVE  (d \in ReceiverEpochs(m) /\ ReceiverTree(m, d) = t /\ x \in TreeBuffers(d, t))'
           => (x \in TreeSecrets(m))'
  BY MeansInTrees, PTL

LEMMA StepZeroes ==
  ASSUME KeysInv, NEW m \in Member, NEW msg, NEW result, Step(m, msg, result),
         NEW n \in Member, NEW x \in TreeSecrets(n), x \notin zeroed'[n]
  PROVE  (x \in TreeSecrets(n))'
<1>0. StateInv /\ TreesInv /\ MessagesInv
  BY DEF KeysInv
<1>1. PICK d \in ReceiverEpochs(n) : x \in TreeBuffers(d, ReceiverTree(n, d))
  BY <1>0, InTreesMeans
<1>2. PICK t : ReceiverTree(n, d)' = t
  OBVIOUS
<1>3. d \in ReceiverEpochs(n)' /\ x \in TreeBuffers(d, t) => (x \in TreeSecrets(n))'
  BY <1>2, MeansInTreesNext
<1>4. CASE Within(m, msg, result)
  <2>1. /\ msg.epoch \in ReceiverEpochs(m) /\ msg.epoch >= FirstEpoch
        /\ UsesMessage(m, msg, result) /\ SameEpoch(m, msg.epoch, result)
    BY <1>0, <1>4, WithinEpoch DEF Within
  <2>2. /\ ReceiverEpochs(n)' = ReceiverEpochs(n)
        /\ zeroed' = [zeroed EXCEPT ![m] = zeroed[m] \union ConsumedBy(msg.epoch, result)]
    BY <1>0, <2>1, SameEpochRest
  <2>3. ConsumedBy(msg.epoch, result) \subseteq zeroed'[m]
    BY <1>0, <2>2 DEF StateInv
  <2>4. CASE n = m /\ d = msg.epoch
    <3>1. t = result.tree
      BY <1>0, <1>2, <2>1, <2>4, SameEpochTree
    <3>2. x \in TreeBuffers(d, t)
      BY <1>0, <1>1, <2>1, <2>3, <2>4, <3>1, UsesMessageDrops
    <3> QED
      BY <1>3, <2>2, <3>2
  <2>5. CASE ~(n = m /\ d = msg.epoch)
    <3>1. t = ReceiverTree(n, d)
      BY <1>0, <1>2, <2>1, <2>5, SameEpochTree
    <3> QED
      BY <1>1, <1>3, <2>2, <3>1
  <2> QED
    BY <2>4, <2>5
<1>5. ASSUME NEW endingTree, NEW consumed, Ending(m, msg, endingTree, consumed)
      PROVE  (x \in TreeSecrets(n))'
  <2>1. /\ NextEpoch(m, endingTree, consumed)
        /\ TreeBuffers(epoch[m], secretTree[m]) \subseteq TreeBuffers(epoch[m], endingTree) \union consumed
    BY <1>5 DEF Ending
  <2>2. CASE n # m
    <3>1. ReceiverEpochs(n)' = ReceiverEpochs(n) /\ ReceiverTree(n, d)' = ReceiverTree(n, d)
      BY <1>0, <2>1, <2>2, NextEpochTrees
    <3> QED
      BY <1>1, <1>2, <1>3, <3>1
  <2>3. CASE n = m
    <3>1. \A c \in ReceiverEpochs(m)' :
            \/ c = epoch[m] + 1
            \/ ReceiverTree(m, c)' = EndedTree(m, endingTree, c)
      BY <1>0, <2>1, NextEpochTrees
    <3>2. PICK dropped :
            /\ zeroed' = [zeroed EXCEPT ![m] = zeroed[m] \union consumed \union dropped]
            /\ \A c \in ReceiverEpochs(m) \ ReceiverEpochs(m)' :
                 TreeBuffers(c, EndedTree(m, endingTree, c)) \subseteq dropped
      BY <1>0, <2>1, NextEpochTrees
    <3>3. consumed \subseteq zeroed'[m] /\ dropped \subseteq zeroed'[m]
      BY <1>0, <3>2 DEF StateInv
    <3>4. x \in TreeBuffers(d, EndedTree(m, endingTree, d))
      BY <1>1, <2>1, <2>3, <3>3 DEF EndedTree, ReceiverTree
    <3>5. d \in ReceiverEpochs(m)'
      BY <1>1, <2>3, <3>2, <3>3, <3>4
    <3>6. d # epoch[m] + 1
      <4>1. epoch[m] \in Nat /\ DOMAIN historicalReceiverData[m] \subseteq 0 .. epoch[m] - 1
        BY <1>0, BoundsAssumption DEF StateInv, FirstEpoch
      <4> QED
        BY <1>1, <2>3, <4>1 DEF ReceiverEpochs
    <3>7. t = EndedTree(m, endingTree, d)
      BY <1>2, <2>3, <3>1, <3>5, <3>6
    <3> QED
      BY <1>3, <2>3, <3>4, <3>5, <3>7
  <2> QED
    BY <2>2, <2>3
<1> QED
  BY <1>0, <1>4, <1>5, TwoWays

(***************************************************************************)
(* Forward secrecy of the message keys, over the epochs: whatever of its   *)
(* secret trees, current or retained, a member stops holding, because it   *)
(* used a generation, derived a leaf, ended an epoch or let an old one go, *)
(* is among what the operation returned as consumed (secretTree.ts,        *)
(* addHistoricalReceiverData in clientState.ts), so that zeroing that list *)
(* leaves none of them alive.  Nothing is said of the key schedule, the    *)
(* sender-data secret and the resumption PSK of an epoch, which the model  *)
(* does not have and the code returns in part only.                        *)
(***************************************************************************)
THEOREM ForgottenTreeSecretsAreZeroed == Spec => TreeSecretsAreZeroed
<1> DEFINE Zeroes ==
      \A m \in Member :
        TreeSecrets(m) \ TreeSecretsIn(epoch'[m], secretTree'[m], historicalReceiverData'[m]) \subseteq zeroed'[m]
<1>1. KeysInv /\ [Next]_vars => [Zeroes]_vars
  <2> SUFFICES ASSUME KeysInv, Next, NEW n \in Member, NEW x \in TreeSecrets(n), x \notin zeroed'[n]
               PROVE  x \in TreeSecretsIn(epoch'[n], secretTree'[n], historicalReceiverData'[n])
    BY DEF Zeroes
  <2>1. PICK m \in Member : \E msg, result : Step(m, msg, result)
    BY StepShape DEF KeysInv
  <2>2. PICK msg, result : Step(m, msg, result)
    BY <2>1
  <2>3. (x \in TreeSecrets(n))'
    BY <2>2, StepZeroes
  <2>4. TreeSecrets(n)' = TreeSecretsIn(epoch'[n], secretTree'[n], historicalReceiverData'[n])
    BY SMTT(30) DEF TreeSecrets, TreeSecretsIn, TreeBuffers, BuffersOf, HeldSecrets
  <2> QED
    BY <2>3, <2>4
<1> QED
  BY <1>1, KeysInvariant, PTL DEF Spec, TreeSecretsAreZeroed

-----------------------------------------------------------------------------
(* The epochs that are retained.                                           *)

\* D holds the RetainKeysForEpochs epochs before E, but perhaps not epoch 0.
Retaining(D, E) ==
  /\ D \subseteq {e \in 0 .. E - 1 : e + RetainKeysForEpochs >= E}
  /\ {e \in 1 .. E - 1 : e + RetainKeysForEpochs >= E} \subseteq D

\* addHistoricalReceiverData keeps it so for the next epoch.
LEMMA AddRetains ==
  ASSUME RetainKeysForEpochs # 0, NEW H, NEW E \in Nat, NEW t, Retaining(DOMAIN H, E)
  PROVE  Retaining(DOMAIN AddHistoricalReceiverData(H, E, t).history, E + 1)
<1> DEFINE R == RetainKeysForEpochs
           D == DOMAIN H \union {E}
           kept == IF Cardinality(D) >= R THEN Newest(D, R) ELSE D
<1>1. R \in Nat /\ R >= 1
  BY RetainEpochsAssumption
<1>2. DOMAIN AddHistoricalReceiverData(H, E, t).history = kept
  BY DEF AddHistoricalReceiverData, RemoveOldHistoricalReceiverData
<1>3. /\ D \subseteq {e \in 0 .. E : e + R >= E}
      /\ {e \in 1 .. E : e + R >= E} \subseteq D
  BY <1>1 DEF Retaining
<1>4. D \subseteq 0 .. (E + 1) - 1 /\ D \subseteq Nat
  BY <1>3
<1> HIDE DEF D, R
<1>5. IsFiniteSet(D)
  <2>1. IsFiniteSet(0 .. (E + 1) - 1)
    BY FS_Interval
  <2> QED
    BY <1>4, <2>1, FS_Subset
<1>6. kept \subseteq D /\ IsFiniteSet(kept)
  <2>1. kept \subseteq D
    BY DEF Newest
  <2> HIDE DEF kept
  <2> QED
    BY <1>5, <2>1, FS_Subset
<1>7. ASSUME NEW g \in D, g + R >= E + 1 PROVE g \in kept
  <2> DEFINE top == E + 1
  <2>1. top \in Nat /\ D \subseteq 0 .. top - 1 /\ g + R >= top
    BY <1>4, <1>7
  <2> HIDE DEF top
  <2>2. g \in Newest(D, R)
    BY <1>1, <2>1, NewestKeepsWindow
  <2> QED
    BY <2>2
<1>8. ASSUME NEW g \in kept PROVE g \in 0 .. E /\ g + R >= E + 1
  <2>1. g \in 0 .. E /\ g + R >= E
    BY <1>3, <1>6
  <2>2. ASSUME g + R = E PROVE FALSE
    <3>1. ASSUME NEW x \in g .. E PROVE x \in kept
      <4>1. CASE x = g
        BY <4>1
      <4>2. CASE x # g
        <5>1. x \in 1 .. E /\ x + R >= E + 1
          BY <1>1, <2>1, <2>2, <4>2
        <5>2. x \in D
          BY <1>1, <1>3, <5>1
        <5> QED
          BY <1>7, <5>1, <5>2
      <4> QED
        BY <4>1, <4>2
    <3>2. Cardinality(g .. E) = R + 1
      <4>1. g \in Int /\ E \in Int /\ g <= E
        BY <2>1
      <4>2. Cardinality(g .. E) = E - g + 1
        BY <4>1, FS_Interval
      <4> QED
        BY <1>1, <2>1, <2>2, <4>2
    <3>3. Cardinality(g .. E) <= Cardinality(kept) /\ Cardinality(kept) \in Nat
      BY <1>6, <3>1, FS_Subset, FS_CardinalityType
    <3>4. Cardinality(kept) <= R
      <4>1. CASE Cardinality(D) >= R
        BY <1>1, <1>4, <1>5, <4>1, NewestBounded
      <4>2. CASE ~(Cardinality(D) >= R)
        <5>1. Cardinality(D) \in Nat
          BY <1>5, FS_CardinalityType
        <5> QED
          BY <1>1, <4>2, <5>1
      <4> QED
        BY <4>1, <4>2
    <3> HIDE DEF kept
    <3> QED
      BY <1>1, <3>2, <3>3, <3>4
  <2> QED
    BY <1>1, <2>1, <2>2
<1> HIDE DEF kept
<1>9. kept \subseteq {e \in 0 .. (E + 1) - 1 : e + R >= E + 1}
  BY <1>8
<1>10. ASSUME NEW e \in 1 .. (E + 1) - 1, e + R >= E + 1 PROVE e \in kept
  BY <1>1, <1>3, <1>7, <1>10
<1> QED
  BY <1>2, <1>9, <1>10 DEF Retaining, R

RetentionInv == \A m \in Member : Retaining(DOMAIN historicalReceiverData[m], epoch[m])

\* The creator of the group retains the epoch in which it was alone.
LEMMA InitRetains ==
  ASSUME RetainKeysForEpochs # 0, Init
  PROVE  RetentionInv
<1> DEFINE none == [e \in {} |-> CreateSecretTree]
           aloneTree == [CreateSecretTree EXCEPT !.intermediateNodes = {Root(1)}]
           alone == AddHistoricalReceiverData(none, 0, aloneTree).history
<1>0. RetainKeysForEpochs \in Nat /\ RetainKeysForEpochs >= 1
  BY RetainEpochsAssumption
<1>1. PICK creator \in Member :
        historicalReceiverData = [m \in Member |-> IF m = creator THEN alone ELSE none]
  BY DEF Init
<1>2. epoch = [m \in Member |-> FirstEpoch]
  BY DEF Init
<1>3. DOMAIN none = {}
  OBVIOUS
<1> HIDE DEF none, aloneTree
<1>4. Retaining({}, 0) /\ Retaining({}, 1)
  BY <1>0 DEF Retaining
<1>5. Retaining(DOMAIN alone, 1)
  <2>1. Retaining(DOMAIN alone, 0 + 1)
    BY <1>3, <1>4, AddRetains
  <2> QED
    BY <2>1
<1> HIDE DEF alone
<1> SUFFICES ASSUME NEW m \in Member PROVE Retaining(DOMAIN historicalReceiverData[m], epoch[m])
  BY DEF RetentionInv
<1>6. epoch[m] = 1
  BY <1>2 DEF FirstEpoch
<1>7. CASE m = creator
  BY <1>1, <1>5, <1>6, <1>7
<1>8. CASE m # creator
  BY <1>1, <1>3, <1>4, <1>6, <1>8
<1> QED
  BY <1>7, <1>8

LEMMA StepRetains ==
  ASSUME RetainKeysForEpochs # 0, KeysInv, RetentionInv,
         NEW m \in Member, NEW msg, NEW result, Step(m, msg, result)
  PROVE  RetentionInv'
<1>0. StateInv /\ TreesInv /\ MessagesInv
  BY DEF KeysInv
<1>1. ASSUME NEW n \in Member,
             epoch'[n] = epoch[n], DOMAIN historicalReceiverData'[n] = DOMAIN historicalReceiverData[n]
      PROVE  Retaining(DOMAIN historicalReceiverData'[n], epoch'[n])
  BY <1>1 DEF RetentionInv
<1>2. CASE Within(m, msg, result)
  <2>1. msg.epoch \in ReceiverEpochs(m) /\ SameEpoch(m, msg.epoch, result)
    BY <1>0, <1>2, WithinEpoch DEF Within
  <2>2. epoch' = epoch /\ \A n \in Member : DOMAIN historicalReceiverData'[n] = DOMAIN historicalReceiverData[n]
    BY <1>0, <2>1, SameEpochShape
  <2> QED
    BY <1>1, <2>2 DEF RetentionInv, Retaining
<1>3. ASSUME NEW endingTree, NEW consumed, Ending(m, msg, endingTree, consumed)
      PROVE  RetentionInv'
  <2> DEFINE added == AddHistoricalReceiverData(historicalReceiverData[m], epoch[m], endingTree)
  <2>1. /\ epoch' = [epoch EXCEPT ![m] = epoch[m] + 1]
        /\ historicalReceiverData' = [historicalReceiverData EXCEPT ![m] = added.history]
    BY <1>3 DEF Ending, NextEpoch
  <2>2. epoch[m] \in Nat /\ epoch = [n \in Member |-> epoch[n]]
        /\ historicalReceiverData = [n \in Member |-> historicalReceiverData[n]]
    BY <1>0, BoundsAssumption DEF StateInv, FirstEpoch
  <2>3. Retaining(DOMAIN added.history, epoch[m] + 1)
    BY <2>2, AddRetains DEF RetentionInv
  <2> HIDE DEF added
  <2>4. ASSUME NEW n \in Member PROVE Retaining(DOMAIN historicalReceiverData'[n], epoch'[n])
    <3>1. CASE n = m
      BY <2>1, <2>2, <2>3, <3>1
    <3>2. CASE n # m
      BY <1>1, <2>1, <2>2, <3>2
    <3> QED
      BY <3>1, <3>2
  <2> QED
    BY <2>4 DEF RetentionInv, Retaining
<1> QED
  BY <1>0, <1>2, <1>3, TwoWays

(***************************************************************************)
(* A member's history holds exactly the configured number of epochs, those *)
(* just before its own, for as long as it has been a member; only epoch 0, *)
(* in which the creator was alone, is its alone (addHistoricalReceiverData,*)
(* removeOldHistoricalReceiverData).  Retention of no epochs is excepted:  *)
(* slice(-0) keeps them all, as the run on TooOldIsRefused shows.          *)
(***************************************************************************)
THEOREM ConfiguredEpochsAreRetained ==
  RetainKeysForEpochs # 0 => (Spec => []RetainsConfiguredEpochs)
<1> SUFFICES ASSUME RetainKeysForEpochs # 0 PROVE Spec => []RetainsConfiguredEpochs
  OBVIOUS
<1>1. Init => RetentionInv
  BY InitRetains
<1>2. KeysInv /\ RetentionInv /\ [Next]_vars => RetentionInv'
  <2> SUFFICES ASSUME KeysInv, RetentionInv, [Next]_vars PROVE RetentionInv'
    OBVIOUS
  <2>1. CASE Next
    <3>1. PICK m \in Member : \E msg, result : Step(m, msg, result)
      BY <2>1, StepShape DEF KeysInv
    <3>2. PICK msg, result : Step(m, msg, result)
      BY <3>1
    <3> QED
      BY <3>2, StepRetains
  <2>2. CASE UNCHANGED vars
    BY <2>2 DEF vars, RetentionInv, Retaining
  <2> QED
    BY <2>1, <2>2
<1>3. RetentionInv /\ KeysInv => RetainsConfiguredEpochs
  <2> SUFFICES ASSUME RetentionInv, KeysInv, NEW m \in Member
               PROVE  LET retained == {e \in 0 .. epoch[m] - 1 : e + RetainKeysForEpochs >= epoch[m]}
                      IN  /\ DOMAIN historicalReceiverData[m] \subseteq retained
                          /\ retained \ {0} \subseteq DOMAIN historicalReceiverData[m]
    BY DEF RetainsConfiguredEpochs
  <2>1. epoch[m] \in Nat
    BY BoundsAssumption DEF KeysInv, StateInv, FirstEpoch
  <2> QED
    BY <2>1 DEF RetentionInv, Retaining
<1> QED
  BY <1>1, <1>2, <1>3, KeysInvariant, PTL DEF Spec

-----------------------------------------------------------------------------
(* What late messages find.                                                *)

\* The generations of a leaf's application ratchet among opened messages.
OpenedOn(messages, e, l) ==
  {msg.generation : msg \in {x \in messages : /\ x.contentType = "application"
                                              /\ x.epoch = e /\ x.sender = l}}

NodesAmong(e, buffers) == {n \in Node : <<e, <<n>>>> \in buffers}
SecretsAmong(e, buffers) == {s \in Leaf \X RatchetKind \X Nat : <<e, s>> \in buffers}

\* The application ratchets of the other leaves keep what was not opened,
Windows(m, e, t, messages) ==
  \A l \in Leaf \ {m} : InWindow(t.ratchets[l]["application"], OpenedOn(messages, e, l))

\* and nothing the tree still derives secrets from is among the buffers.
Usable(e, t, buffers) ==
  AboveSources(t, NodesAmong(e, buffers)) /\ BehindRatchets(t, SecretsAmong(e, buffers))

Readable(m, e) ==
  /\ Windows(m, e, ReceiverTree(m, e), opened[m])
  /\ SealedBy(m, e) \/ Usable(e, ReceiverTree(m, e), zeroed[m])

ReadableInv ==
  \A m \in Member : \A e \in ReceiverEpochs(m) : e >= FirstEpoch => Readable(m, e)

LEMMA ReadableMeans ==
  ASSUME NEW m \in Member, NEW e, NEW t, NEW o, NEW z
  PROVE  /\ ReceiverTree(m, e) = t /\ opened[m] = o /\ zeroed[m] = z
         /\ Windows(m, e, t, o) /\ (SealedBy(m, e) \/ Usable(e, t, z))
         => Readable(m, e)
  BY DEF Readable

LEMMA ReadableNext ==
  ASSUME NEW m \in Member, NEW e, NEW t, NEW o, NEW z
  PROVE  (/\ ReceiverTree(m, e) = t /\ opened[m] = o /\ zeroed[m] = z
          /\ Windows(m, e, t, o) /\ (SealedBy(m, e) \/ Usable(e, t, z)))'
         => Readable(m, e)'
  BY ReadableMeans, PTL

\* Only an application message of the leaf in the epoch counts.
LEMMA OpenedOnSame ==
  ASSUME NEW o, NEW o2, NEW msg, NEW e, NEW l,
         o \subseteq o2, o2 \subseteq o \union {msg},
         ~(msg.contentType = "application" /\ msg.epoch = e /\ msg.sender = l)
  PROVE  OpenedOn(o2, e, l) = OpenedOn(o, e, l)
<1>1. {x \in o2 : x.contentType = "application" /\ x.epoch = e /\ x.sender = l}
        = {x \in o : x.contentType = "application" /\ x.epoch = e /\ x.sender = l}
  OBVIOUS
<1> QED
  BY <1>1 DEF OpenedOn

LEMMA OpenedOnMore ==
  ASSUME NEW o, NEW msg, NEW e, NEW l,
         msg.contentType = "application", msg.epoch = e, msg.sender = l
  PROVE  OpenedOn(o \union {msg}, e, l) = OpenedOn(o, e, l) \union {msg.generation}
  BY DEF OpenedOn

\* A tree stays usable when no buffers of its epoch are zeroed,
LEMMA UsableStays ==
  ASSUME NEW e, NEW t, NEW z, NEW z2, Usable(e, t, z),
         \A b : <<e, b>> \in z2 => <<e, b>> \in z
  PROVE  Usable(e, t, z2)
<1>1. NodesAmong(e, z2) \subseteq NodesAmong(e, z) /\ SecretsAmong(e, z2) \subseteq SecretsAmong(e, z)
  BY DEF NodesAmong, SecretsAmong
<1> QED
  BY <1>1 DEF Usable, AboveSources, BehindRatchets

\* and the tree a use leaves, when only what it consumed is.
LEMMA UsableAfterUse ==
  ASSUME NEW e, NEW t, Sound(t), NEW z, NEW z2, Usable(e, t, z),
         NEW l \in Leaf, NEW k \in RatchetKind, NEW g \in Nat, NEW result, Uses(t, l, k, g, result),
         \A b : <<e, b>> \in z2 => <<e, b>> \in z \/ <<e, b>> \in ConsumedBy(e, result)
  PROVE  Usable(e, result.tree, z2)
<1>0. result.consumedNodes \subseteq Node /\ result.consumedSecrets \subseteq Leaf \X RatchetKind \X Nat
  BY UsesTypes
<1>1. \A b : <<e, b>> \in ConsumedBy(e, result) =>
                b \in result.consumedSecrets \/ \E n \in result.consumedNodes : b = <<n>>
  <2> SUFFICES ASSUME NEW b, <<e, b>> \in ConsumedBy(e, result)
               PROVE  b \in result.consumedSecrets \/ \E n \in result.consumedNodes : b = <<n>>
    OBVIOUS
  <2>1. PICK c : <<e, b>> = <<e, c>>
                 /\ (c \in result.consumedSecrets \/ \E n \in result.consumedNodes : c = <<n>>)
    BY BuffersMeans DEF ConsumedBy
  <2> QED
    BY <2>1
<1>2. NodesAmong(e, z2) \subseteq NodesAmong(e, z) \union result.consumedNodes
  <2> SUFFICES ASSUME NEW n \in Node, <<e, <<n>>>> \in z2, <<e, <<n>>>> \notin z
               PROVE  n \in result.consumedNodes
    BY DEF NodesAmong
  <2>1. <<n>> \in result.consumedSecrets \/ \E c \in result.consumedNodes : <<n>> = <<c>>
    BY <1>1
  <2>2. <<n>> \notin Leaf \X RatchetKind \X Nat
    OBVIOUS
  <2> QED
    BY <1>0, <2>1, <2>2
<1>3. SecretsAmong(e, z2) \subseteq SecretsAmong(e, z) \union result.consumedSecrets
  <2> SUFFICES ASSUME NEW s \in Leaf \X RatchetKind \X Nat, <<e, s>> \in z2, <<e, s>> \notin z
               PROVE  s \in result.consumedSecrets
    BY DEF SecretsAmong
  <2>1. s \in result.consumedSecrets \/ \E c \in result.consumedNodes : s = <<c>>
    BY <1>1
  <2>2. \A c : s # <<c>>
    OBVIOUS
  <2> QED
    BY <2>1, <2>2
<1>4. AboveSources(result.tree, NodesAmong(e, z) \union result.consumedNodes)
  BY UsesKeepsAbove DEF Usable
<1>5. BehindRatchets(result.tree, SecretsAmong(e, z) \union result.consumedSecrets)
  BY UsesKeepsBehind DEF Usable
<1> QED
  BY <1>2, <1>3, <1>4, <1>5 DEF Usable, AboveSources, BehindRatchets

\* A new tree has full windows and no buffers zeroed.
LEMMA NewTreeReadable ==
  ASSUME NEW m, NEW e, NEW o, NEW z,
         \A x \in o : x.epoch # e, \A b : <<e, b>> \notin z
  PROVE  Windows(m, e, CreateSecretTree, o) /\ Usable(e, CreateSecretTree, z)
<1>1. ASSUME NEW l \in Leaf
      PROVE  InWindow(CreateSecretTree.ratchets[l]["application"], OpenedOn(o, e, l))
  <2>1. OpenedOn(o, e, l) = {}
    BY DEF OpenedOn
  <2>2. CreateSecretTree.ratchets[l]["application"] = RatchetRoot
    BY DEF CreateSecretTree, RatchetKind
  <2>3. IsFiniteSet({}) /\ Cardinality({}) = 0
    BY FS_EmptySet
  <2>4. InWindow(RatchetRoot, {})
    BY <2>3, RetainAssumption DEF InWindow, RatchetRoot
  <2> QED
    BY <2>1, <2>2, <2>4
<1>2. NodesAmong(e, z) = {} /\ SecretsAmong(e, z) = {}
  BY DEF NodesAmong, SecretsAmong
<1> QED
  BY <1>1, <1>2 DEF Windows, Usable, AboveSources, BehindRatchets

\* A commit once sealed stays so.
LEMMA SealedStays ==
  ASSUME NEW m, NEW e, network \subseteq network'
  PROVE  SealedBy(m, e) => SealedBy(m, e)'
  BY DEF SealedBy

\* Where nothing changed, a tree stays readable.
LEMMA ReadableStays ==
  ASSUME NEW n \in Member, NEW e, Readable(n, e), network \subseteq network',
         ReceiverTree(n, e)' = ReceiverTree(n, e),
         NEW msg, opened[n] \subseteq opened'[n], opened'[n] \subseteq opened[n] \union {msg},
         msg \in opened'[n] => msg \in opened[n] \/ msg.epoch # e \/ msg.contentType # "application",
         \A b : <<e, b>> \in zeroed'[n] => <<e, b>> \in zeroed[n]
  PROVE  Readable(n, e)'
<1>1. PICK t, o, z : t = ReceiverTree(n, e)' /\ o = opened'[n] /\ z = zeroed'[n]
  OBVIOUS
<1>2. Windows(n, e, t, o)
  <2> SUFFICES ASSUME NEW l \in Leaf \ {n} PROVE InWindow(t.ratchets[l]["application"], OpenedOn(o, e, l))
    BY DEF Windows
  <2>1. OpenedOn(o, e, l) = OpenedOn(opened[n], e, l)
    <3>1. CASE o = opened[n]
      BY <3>1
    <3>2. CASE o # opened[n]
      <4>1. ~(msg.contentType = "application" /\ msg.epoch = e /\ msg.sender = l)
        BY <1>1, <3>2
      <4> QED
        BY <1>1, <4>1, OpenedOnSame
    <3> QED
      BY <3>1, <3>2
  <2> QED
    BY <1>1, <2>1 DEF Readable, Windows
<1>3. SealedBy(n, e)' \/ Usable(e, t, z)
  BY <1>1, SealedStays, UsableStays DEF Readable
<1> QED
  BY <1>1, <1>2, <1>3, ReadableNext

LEMMA ReadableWithin ==
  ASSUME KeysInv, ReadableInv, NEW m \in Member, NEW msg, NEW result, Within(m, msg, result)
  PROVE  ReadableInv'
<1>0. StateInv /\ TreesInv /\ MessagesInv
  BY DEF KeysInv
<1>1. /\ msg \in Message /\ msg.epoch \in ReceiverEpochs(m) /\ msg.epoch >= FirstEpoch
      /\ UsesMessage(m, msg, result) /\ (Sends(m, msg) \/ Opens(m, msg))
      /\ SameEpoch(m, msg.epoch, result)
  BY <1>0, WithinEpoch DEF Within
<1>2. /\ \A n \in Member : ReceiverEpochs(n)' = ReceiverEpochs(n)
      /\ zeroed' = [zeroed EXCEPT ![m] = zeroed[m] \union ConsumedBy(msg.epoch, result)]
  BY <1>0, <1>1, SameEpochRest
<1>3. network \subseteq network'
  BY <1>0, <1>1, TrafficTypes
<1>4. ASSUME NEW n \in Member
      PROVE  /\ opened[n] \subseteq opened'[n]
             /\ opened'[n] \subseteq opened[n] \union (IF n = m THEN {msg} ELSE {})
             /\ zeroed'[n] = IF n = m THEN zeroed[n] \union ConsumedBy(msg.epoch, result) ELSE zeroed[n]
  BY <1>0, <1>1, <1>2, ZenonT(30) DEF Sends, Opens, StateInv
<1>5. \A e, b : <<e, b>> \in ConsumedBy(msg.epoch, result) => e = msg.epoch
  BY BuffersMeans DEF ConsumedBy
<1> SUFFICES ASSUME NEW n \in Member, NEW e \in ReceiverEpochs(n)', e >= FirstEpoch
             PROVE  Readable(n, e)'
  BY DEF ReadableInv
<1>6. e \in ReceiverEpochs(n) /\ Readable(n, e)
  BY <1>2 DEF ReadableInv
<1>7. CASE ~(n = m /\ e = msg.epoch)
  <2>1. ReceiverTree(n, e)' = ReceiverTree(n, e)
    BY <1>0, <1>1, <1>6, <1>7, SameEpochTree
  <2>2. \A b : <<e, b>> \in zeroed'[n] => <<e, b>> \in zeroed[n]
    BY <1>4, <1>5, <1>7
  <2>3. msg \in opened'[n] => msg \in opened[n] \/ msg.epoch # e
    BY <1>4, <1>7
  <2> QED
    BY <1>3, <1>4, <1>6, <2>1, <2>2, <2>3, ReadableStays
<1>8. CASE n = m /\ e = msg.epoch
  <2> DEFINE t == ReceiverTree(m, e)
             T == result.tree
             l == msg.sender
             k == Kind(msg)
             g == msg.generation
  <2>1. ReceiverTree(m, e)' = T
    BY <1>0, <1>1, <1>8, SameEpochTree
  <2>2. PICK o, z : o = opened'[m] /\ z = zeroed'[m]
    OBVIOUS
  <2>3. Sound(t) /\ Uses(t, l, k, g, result)
    BY <1>0, <1>1, <1>8, UsesMessageFacts DEF UsesMessage
  <2>4. l \in Leaf /\ k \in RatchetKind /\ g \in Nat
    BY <1>1, MessageFields
  <2>5. Windows(m, e, t, opened[m]) /\ (SealedBy(m, e) \/ Usable(e, t, zeroed[m]))
    BY <1>6, <1>8 DEF Readable
  <2>6. k = "application" <=> msg.contentType = "application"
    BY DEF Kind, RatchetForContentType
  <2>7. l # m => o = opened[m] \union {msg}
    BY <1>0, <1>1, <2>2 DEF Sends, Opens, StateInv
  <2>8. PICK r2 \in Ratchet, gens \in SUBSET Nat :
          /\ Stepped(t.ratchets[l][k], g, r2, gens)
          /\ \A i \in Leaf, j \in RatchetKind :
               T.ratchets[i][j] = IF i = l /\ j = k THEN r2 ELSE t.ratchets[i][j]
    BY <2>3, <2>4, UsesRatchets DEF Sound
  <2>9. opened[m] \subseteq o /\ o \subseteq opened[m] \union {msg}
    BY <1>4, <2>2
  <2>10. \A x \in opened[m] : x.generation \in Nat
    BY <1>0, MessageFields DEF StateInv
  <2>11. Sound(t) /\ \A i \in Leaf : t.ratchets[i]["application"] \in Ratchet
    BY <2>3, RatchetsOf DEF Sound, RatchetKind
  <2> HIDE DEF t, T, k, g
  <2>12. Windows(m, e, T, o)
    <3> SUFFICES ASSUME NEW i \in Leaf \ {m} PROVE InWindow(T.ratchets[i]["application"], OpenedOn(o, e, i))
      BY DEF Windows
    <3>1. InWindow(t.ratchets[i]["application"], OpenedOn(opened[m], e, i))
      BY <2>5 DEF Windows
    <3>2. CASE i = l /\ k = "application"
      <4>1. OpenedOn(o, e, i) = OpenedOn(opened[m], e, i) \union {g}
        BY <1>8, <2>6, <2>7, <3>2, OpenedOnMore DEF g
      <4>2. T.ratchets[i]["application"] = r2
        BY <2>4, <2>8, <3>2
      <4>3. OpenedOn(opened[m], e, i) \in SUBSET Nat
        BY <2>10 DEF OpenedOn
      <4>4. Stepped(t.ratchets[i]["application"], g, r2, gens)
        BY <2>8, <3>2
      <4> QED
        BY <2>4, <2>11, <3>1, <4>1, <4>2, <4>3, <4>4, SteppedInWindow
    <3>3. CASE ~(i = l /\ k = "application")
      <4>1. T.ratchets[i]["application"] = t.ratchets[i]["application"]
        BY <2>8, <3>3 DEF RatchetKind
      <4>2. OpenedOn(o, e, i) = OpenedOn(opened[m], e, i)
        BY <2>6, <2>9, <3>3, OpenedOnSame
      <4> QED
        BY <3>1, <4>1, <4>2
    <3> QED
      BY <3>2, <3>3
  <2>13. ASSUME ~SealedBy(m, e)' PROVE Usable(e, T, z)
    <3>1. Usable(e, t, zeroed[m])
      BY <1>3, <2>5, <2>13, SealedStays
    <3>2. \A b : <<e, b>> \in z => <<e, b>> \in zeroed[m] \/ <<e, b>> \in ConsumedBy(e, result)
      BY <1>4, <1>8, <2>2
    <3> QED
      BY <2>3, <2>4, <3>1, <3>2, UsableAfterUse DEF T
  <2> QED
    BY <1>8, <2>1, <2>2, <2>12, <2>13, ReadableNext
<1> QED
  BY <1>7, <1>8

\* The trees stay readable when an epoch ends, given that the ending tree is.
LEMMA ReadableEnding ==
  ASSUME RetainKeysForEpochs # 0, KeysInv, ReadableInv,
         NEW m \in Member, NEW E, epoch[m] = E,
         NEW msg \in Message, msg.epoch = E, msg.contentType = "commit",
         Sends(m, msg) \/ Opens(m, msg),
         NEW endingTree, NEW consumed, NextEpoch(m, endingTree, consumed),
         \A e, b : <<e, b>> \in consumed => e = E,
         Windows(m, E, endingTree, opened[m]),
         \A z : (\A b : <<E, b>> \in z => <<E, b>> \in zeroed[m] \/ <<E, b>> \in consumed)
                  => SealedBy(m, E)' \/ Usable(E, endingTree, z)
  PROVE  ReadableInv'
<1>0. StateInv /\ TreesInv /\ MessagesInv
  BY DEF KeysInv
<1>1. network \subseteq network'
  BY <1>0, TrafficTypes
<1>2. ASSUME NEW n \in Member
      PROVE  /\ opened[n] \subseteq opened'[n]
             /\ opened'[n] \subseteq opened[n] \union (IF n = m THEN {msg} ELSE {})
  BY <1>0 DEF Sends, Opens, StateInv
<1>3. /\ \A n \in Member : n # m =>
           /\ ReceiverEpochs(n)' = ReceiverEpochs(n)
           /\ \A d \in ReceiverEpochs(n) : ReceiverTree(n, d)' = ReceiverTree(n, d)
      /\ \A d \in ReceiverEpochs(m)' :
           \/ d = epoch[m] + 1 /\ ReceiverTree(m, d)' = CreateSecretTree
           \/ /\ d \in ReceiverEpochs(m) /\ d # epoch[m] + 1
              /\ ReceiverTree(m, d)' = EndedTree(m, endingTree, d)
  BY <1>0, NextEpochTrees
<1>4. PICK dropped :
        /\ zeroed' = [zeroed EXCEPT ![m] = zeroed[m] \union consumed \union dropped]
        /\ \A x \in dropped :
             \E d \in ReceiverEpochs(m) :
               /\ x \in TreeBuffers(d, EndedTree(m, endingTree, d))
               /\ RetainKeysForEpochs # 0 => d \notin ReceiverEpochs(m)'
  BY <1>0, NextEpochTrees
<1>5. ASSUME NEW d, NEW b, <<d, b>> \in dropped
      PROVE  d \in ReceiverEpochs(m) /\ d \notin ReceiverEpochs(m)'
  <2>1. PICK c \in ReceiverEpochs(m) :
          /\ <<d, b>> \in TreeBuffers(c, EndedTree(m, endingTree, c))
          /\ c \notin ReceiverEpochs(m)'
    BY <1>4, <1>5
  <2>2. d = c
    BY <2>1, BuffersMeans DEF TreeBuffers
  <2> QED
    BY <2>1, <2>2
<1>6. zeroed'[m] = zeroed[m] \union consumed \union dropped
      /\ \A n \in Member : n # m => zeroed'[n] = zeroed[n]
  BY <1>0, <1>4 DEF StateInv
<1> SUFFICES ASSUME NEW n \in Member, NEW e \in ReceiverEpochs(n)', e >= FirstEpoch
             PROVE  Readable(n, e)'
  BY DEF ReadableInv
<1>7. CASE n # m
  <2>1. Readable(n, e) /\ ReceiverTree(n, e)' = ReceiverTree(n, e)
    BY <1>3, <1>7 DEF ReadableInv
  <2> QED
    BY <1>1, <1>2, <1>6, <1>7, <2>1, ReadableStays
<1>8. CASE n = m
  <2>1. PICK o, z : o = opened'[m] /\ z = zeroed'[m]
    OBVIOUS
  <2>2. \A b : <<e, b>> \in z => <<e, b>> \in zeroed[m] \/ (<<e, b>> \in consumed /\ e = epoch[m])
    BY <1>5, <1>6, <1>8, <2>1
  <2>3. epoch[m] \in Nat /\ epoch[m] \in FirstEpoch .. MaxEpoch
        /\ DOMAIN historicalReceiverData[m] \subseteq 0 .. epoch[m] - 1
    BY <1>0, BoundsAssumption DEF StateInv, FirstEpoch
  <2>4. CASE e = epoch[m] + 1
    <3>1. ReceiverTree(m, e)' = CreateSecretTree
      BY <1>3, <1>8, <2>4
    <3>2. \A x \in o : x.epoch # e
      <4>1. \A x \in opened[m] : x.epoch \in Nat /\ x.epoch <= epoch[m]
        BY <1>0, MessageFields DEF StateInv, MessagesInv
      <4> QED
        BY <1>2, <2>1, <2>3, <2>4, <4>1
    <3>3. \A b : <<e, b>> \notin z
      <4>1. \A b : <<e, b>> \in zeroed[m] => e \in Epoch
        BY <1>0 DEF StateInv, Buffer
      <4>2. \A b : <<e, b>> \in zeroed[m] => e <= epoch[m]
        BY <1>0, <4>1 DEF MessagesInv
      <4>3. ~(e <= epoch[m]) /\ e # epoch[m]
        BY <2>3, <2>4
      <4> QED
        BY <2>2, <4>2, <4>3
    <3>4. Windows(m, e, CreateSecretTree, o) /\ Usable(e, CreateSecretTree, z)
      BY <3>2, <3>3, NewTreeReadable
    <3> QED
      BY <1>8, <2>1, <3>1, <3>4, ReadableNext
  <2>5. CASE e # epoch[m] + 1 /\ e # epoch[m]
    <3>1. e \in ReceiverEpochs(m) /\ ReceiverTree(m, e)' = ReceiverTree(m, e)
      BY <1>3, <1>8, <2>5 DEF EndedTree
    <3>2. Readable(m, e)
      BY <3>1 DEF ReadableInv
    <3> QED
      BY <1>1, <1>2, <1>8, <2>1, <2>2, <2>5, <3>1, <3>2, ReadableStays
  <2>6. CASE e = epoch[m]
    <3>1. ReceiverTree(m, e)' = endingTree
      BY <1>3, <1>8, <2>3, <2>6 DEF EndedTree
    <3>2. Windows(m, e, endingTree, o)
      <4>1. \A l : OpenedOn(o, e, l) = OpenedOn(opened[m], e, l)
        <5>1. opened[m] \subseteq o /\ o \subseteq opened[m] \union {msg}
          BY <1>2, <2>1
        <5>2. msg.contentType # "application"
          OBVIOUS
        <5> QED
          BY <5>1, <5>2, OpenedOnSame
      <4> QED
        BY <2>6, <4>1 DEF Windows
    <3>3. SealedBy(m, e)' \/ Usable(e, endingTree, z)
      BY <2>2, <2>6
    <3> QED
      BY <1>8, <2>1, <3>1, <3>2, <3>3, ReadableNext
  <2> QED
    BY <2>4, <2>5, <2>6
<1> QED
  BY <1>7, <1>8

\* Every step keeps the trees readable.
LEMMA StepReadable ==
  ASSUME RetainKeysForEpochs # 0, KeysInv, ReadableInv,
         NEW m \in Member, NEW msg, NEW result, Step(m, msg, result)
  PROVE  ReadableInv'
<1>0. StateInv /\ TreesInv /\ MessagesInv
  BY DEF KeysInv
<1>1. PICK E : E = epoch[m]
  OBVIOUS
<1>2. /\ E \in ReceiverEpochs(m) /\ ReceiverTree(m, E) = secretTree[m]
      /\ E >= FirstEpoch
  BY <1>0, <1>1, BoundsAssumption DEF ReceiverEpochs, ReceiverTree, StateInv, FirstEpoch
<1>3. /\ Windows(m, E, secretTree[m], opened[m])
      /\ SealedBy(m, E) \/ Usable(E, secretTree[m], zeroed[m])
  BY <1>2 DEF ReadableInv, Readable
<1>4. ASSUME EndsWith(m, msg), msg \in Message, Sends(m, msg) \/ Opens(m, msg)
      PROVE  /\ msg.epoch = E /\ msg.contentType = "commit"
             /\ SealedBy(m, E) => SealedBy(m, E)'
  BY <1>0, <1>1, <1>4, TrafficTypes, SealedStays DEF EndsWith
<1>5. \A e, b : <<e, b>> \in ConsumedBy(E, result) => e = E
  BY BuffersMeans DEF ConsumedBy
<1>6. CASE SendsInEpoch(m, msg, result) \/ OpensInEpoch(m, msg, result)
  <2>1. Within(m, msg, result)
    BY <1>6 DEF Within, SendsInEpoch, OpensInEpoch
  <2> QED
    BY <2>1, ReadableWithin
<1>7. CASE EndsPublicly(m, msg)
  <2>1. /\ EndsWith(m, msg) /\ msg \in Message /\ (Sends(m, msg) \/ Opens(m, msg))
        /\ NextEpoch(m, secretTree[m], {})
    BY <1>7 DEF EndsPublicly
  <2>2. PICK t : t = secretTree[m]
    OBVIOUS
  <2>3. ASSUME NEW z, \A b : <<E, b>> \in z => <<E, b>> \in zeroed[m] \/ <<E, b>> \in {}
        PROVE  SealedBy(m, E)' \/ Usable(E, t, z)
    BY <1>3, <1>4, <2>1, <2>2, <2>3, UsableStays
  <2> QED
    BY <1>1, <1>3, <1>4, <2>1, <2>2, <2>3, ReadableEnding
<1>8. CASE EndsBySealing(m, msg, result)
  <2>1. /\ EndsWith(m, msg) /\ msg \in Message /\ Sends(m, msg) /\ msg.wire = "private"
        /\ NextEpoch(m, secretTree[m], ConsumedBy(E, result))
    BY <1>1, <1>8 DEF EndsBySealing, UsesMessage
  <2>2. PICK t : t = secretTree[m]
    OBVIOUS
  <2>3. SealedBy(m, E)'
    BY <1>4, <2>1 DEF SealedBy, Sends
  <2> QED
    BY <1>1, <1>3, <1>4, <1>5, <2>1, <2>2, <2>3, ReadableEnding
<1>9. CASE EndsByOpening(m, msg, result)
  <2>1. /\ EndsWith(m, msg) /\ msg \in Message /\ Opens(m, msg) /\ UsesMessage(m, msg, result)
        /\ NextEpoch(m, result.tree, ConsumedBy(E, result))
    BY <1>1, <1>9 DEF EndsByOpening, UsesMessage
  <2>2. PICK t : t = secretTree[m]
    OBVIOUS
  <2>3. msg.epoch = E /\ Kind(msg) = "handshake"
    BY <1>4, <2>1 DEF Kind, RatchetForContentType
  <2>4. Sound(t) /\ Uses(t, msg.sender, Kind(msg), msg.generation, result)
    BY <1>0, <1>2, <2>1, <2>2, <2>3, UsesMessageFacts DEF UsesMessage
  <2>5. msg.sender \in Leaf /\ Kind(msg) \in RatchetKind /\ msg.generation \in Nat
    BY <2>1, MessageFields
  <2>6. \A l \in Leaf : result.tree.ratchets[l]["application"] = t.ratchets[l]["application"]
    <3> DEFINE i == msg.sender
               k == Kind(msg)
               g == msg.generation
    <3>0. t \in Tree /\ i \in Leaf /\ k \in RatchetKind /\ Uses(t, i, k, g, result)
      BY <2>4, <2>5 DEF Sound
    <3> HIDE DEF i, k, g
    <3>1. PICK r2 \in Ratchet, gens \in SUBSET Nat :
            /\ Stepped(t.ratchets[i][k], g, r2, gens)
            /\ \A l \in Leaf, j \in RatchetKind :
                 result.tree.ratchets[l][j] = IF l = i /\ j = k THEN r2 ELSE t.ratchets[l][j]
      BY <3>0, UsesRatchets
    <3> QED
      BY <2>3, <3>1 DEF RatchetKind, k
  <2>7. Windows(m, E, result.tree, opened[m])
    BY <1>3, <2>2, <2>6 DEF Windows
  <2>8. ASSUME NEW z, \A b : <<E, b>> \in z => <<E, b>> \in zeroed[m] \/ <<E, b>> \in ConsumedBy(E, result)
        PROVE  SealedBy(m, E)' \/ Usable(E, result.tree, z)
    BY <1>3, <1>4, <2>1, <2>2, <2>4, <2>5, <2>8, UsableAfterUse
  <2> QED
    BY <1>1, <1>4, <1>5, <2>1, <2>7, <2>8, ReadableEnding
<1> QED
  BY <1>6, <1>7, <1>8, <1>9 DEF Step

LEMMA InitReadable == Init => ReadableInv
<1> SUFFICES ASSUME Init, NEW m \in Member, NEW e \in ReceiverEpochs(m), e >= FirstEpoch
             PROVE  Readable(m, e)
  BY DEF ReadableInv
<1>1. /\ epoch[m] = FirstEpoch /\ secretTree[m] = CreateSecretTree
      /\ zeroed[m] = {} /\ opened[m] = {}
  BY DEF Init
<1>2. DOMAIN historicalReceiverData[m] \subseteq 0 .. epoch[m] - 1
  BY InitKeysInv DEF KeysInv, StateInv
<1>3. e = epoch[m]
  BY <1>1, <1>2 DEF ReceiverEpochs, FirstEpoch
<1>4. ReceiverTree(m, e) = CreateSecretTree
  BY <1>1, <1>3 DEF ReceiverTree
<1>5. Windows(m, e, CreateSecretTree, {}) /\ Usable(e, CreateSecretTree, {})
  BY NewTreeReadable
<1> QED
  BY <1>1, <1>4, <1>5 DEF Readable

\* An unopened message within the generations finds its secret, not zeroed.
LEMMA ReadableOpens ==
  ASSUME KeysInv, ReadableInv, NEW m \in Member, NEW msg \in network,
         Openable(m, msg), ~SealedBy(m, msg.epoch)
  PROVE  CanUnprotect(m, msg)
<1> DEFINE e == msg.epoch
           l == msg.sender
           g == msg.generation
           t == ReceiverTree(m, msg.epoch)
           r == t.ratchets[l]["application"]
<1>0. StateInv /\ TreesInv /\ MessagesInv
  BY DEF KeysInv
<1>1. /\ msg.contentType = "application" /\ l # m /\ msg \notin opened[m]
      /\ e \in ReceiverEpochs(m) /\ WithinGenerations(t, msg)
  BY DEF Openable
<1>2. msg \in Message /\ e >= FirstEpoch /\ msg.wire = "private" /\ Kind(msg) = "application"
  BY <1>0, <1>1 DEF StateInv, MessagesInv, Kind, RatchetForContentType
<1>3. l \in Leaf \ {m} /\ "application" \in RatchetKind /\ g \in Nat
  BY <1>1, <1>2, MessageFields DEF RatchetKind
<1>4. Sound(t) /\ Windows(m, e, t, opened[m]) /\ Usable(e, t, zeroed[m])
  BY <1>0, <1>1, <1>2 DEF TreesInv, ReadableInv, Readable
<1>5. r \in Ratchet /\ r.generation \in Nat /\ r.unusedGenerations \subseteq Nat
  BY <1>3, <1>4, RatchetsOf DEF Sound
<1>6. g \notin OpenedOn(opened[m], e, l)
  <2> SUFFICES ASSUME NEW x \in opened[m], x.contentType = "application",
                      x.epoch = e, x.sender = l, x.generation = g
               PROVE  FALSE
    BY DEF OpenedOn
  <2>1. x \in Message /\ x.wire = "private"
    BY <1>0 DEF StateInv, MessagesInv
  <2>2. x = msg
    BY <1>1, <1>2, <2>1 DEF Message
  <2> QED
    BY <1>1, <2>2
<1>7. InWindow(r, OpenedOn(opened[m], e, l))
  BY <1>3, <1>4 DEF Windows
<1>8. g + RetainKeysForGenerations + 1 >= r.generation /\ g <= r.generation + MaximumForwardRatchetSteps
  BY <1>1 DEF WithinGenerations
<1>9. g < r.generation => g \in r.unusedGenerations
  <2> HIDE DEF g, r
  <2>1. g < r.generation => g \in 0 .. r.generation - 1
    BY <1>3, <1>5
  <2> QED
    BY <1>6, <1>7, <1>8, <2>1 DEF InWindow
<1>10. RatchetToGeneration(t, l, "application", g).ok
  <2> HIDE DEF t, l, g
  <2> QED
    BY <1>3, <1>4, <1>8, <1>9, WhenGranted DEF r
<1>11. <<e, SourceOf(t, l, "application", g)>> \notin zeroed[m]
  <2>1. CASE l \in t.leafNodes
    <3> DEFINE h == IF g < r.generation THEN g ELSE r.generation
    <3>1. SourceOf(t, l, "application", g) = <<l, "application", h>>
      BY <1>3, <1>4, <2>1, SourceOfShape
    <3>2. h \in Nat /\ ~(h < r.generation /\ h \notin r.unusedGenerations)
      <4> HIDE DEF r, g
      <4> QED
        BY <1>3, <1>5, <1>9
    <3> HIDE DEF h
    <3>3. <<l, "application", h>> \notin SecretsAmong(e, zeroed[m])
      BY <1>3, <1>4, <3>2 DEF Usable, BehindRatchets
    <3>4. <<l, "application", h>> \in Leaf \X RatchetKind \X Nat
      BY <1>3, <3>2
    <3> QED
      BY <3>1, <3>3, <3>4 DEF SecretsAmong
  <2>2. CASE l \notin t.leafNodes
    <3>1. PICK n \in PathFromLeaf(l) :
            /\ PathFromLeaf(l) \intersect t.intermediateNodes = {n}
            /\ SourceOf(t, l, "application", g) = <<n>>
      BY <1>3, <1>4, <2>2, SourceOfShape
    <3>2. n \in Node /\ Level(n) \in Nat
      BY <1>3, TreeGeometry
    <3>3. n \notin NodesAmong(e, zeroed[m])
      BY <1>3, <1>4, <3>1, <3>2 DEF Usable, AboveSources
    <3> QED
      BY <3>1, <3>2, <3>3 DEF NodesAmong
  <2> QED
    BY <2>1, <2>2
<1>12. Unprotect(m, msg) # {}
  BY <1>1, <1>2, <1>10, <1>11, MeansUnprotect DEF SourceOfMessage
<1> QED
  BY <1>2, <1>12 DEF CanUnprotect

(***************************************************************************)
(* What the history is for: an application message of the current or a     *)
(* retained epoch that the member has not opened, within the generations   *)
(* it keeps and reaches, can be opened however late it comes and whatever  *)
(* was used, zeroed and committed in between; except for the epochs the    *)
(* member ended with a private commit of its own, where createCommit keeps *)
(* the tree whose secrets it returned as consumed.  Retention of no epochs *)
(* is excepted: removeOldHistoricalReceiverData then hands over for        *)
(* zeroing the trees that it keeps.                                        *)
(***************************************************************************)
THEOREM LateMessagesStayReadable ==
  RetainKeysForEpochs # 0 => (Spec => []LateMessagesSurviveCommits)
<1> SUFFICES ASSUME RetainKeysForEpochs # 0 PROVE Spec => []LateMessagesSurviveCommits
  OBVIOUS
<1>1. Init => ReadableInv
  BY InitReadable
<1>2. KeysInv /\ ReadableInv /\ [Next]_vars => ReadableInv'
  <2> SUFFICES ASSUME KeysInv, ReadableInv, [Next]_vars PROVE ReadableInv'
    OBVIOUS
  <2>1. CASE Next
    <3>1. PICK m \in Member : \E msg, result : Step(m, msg, result)
      BY <2>1, StepShape DEF KeysInv
    <3>2. PICK msg, result : Step(m, msg, result)
      BY <3>1
    <3> QED
      BY <3>2, StepReadable
  <2>2. CASE UNCHANGED vars
    <3> SUFFICES ASSUME NEW n \in Member, NEW e \in ReceiverEpochs(n)', e >= FirstEpoch
                 PROVE  Readable(n, e)'
      BY DEF ReadableInv
    <3>1. /\ ReceiverEpochs(n)' = ReceiverEpochs(n) /\ ReceiverTree(n, e)' = ReceiverTree(n, e)
          /\ opened' = opened /\ zeroed' = zeroed /\ network' = network
      BY <2>2 DEF vars, ReceiverEpochs, ReceiverTree
    <3>2. Readable(n, e)
      BY <3>1 DEF ReadableInv
    <3> QED
      BY <3>1, <3>2, ReadableStays
  <2> QED
    BY <2>1, <2>2
<1>3. KeysInv /\ ReadableInv => LateMessagesSurviveCommits
  BY ReadableOpens DEF LateMessagesSurviveCommits
<1> QED
  BY <1>1, <1>2, <1>3, KeysInvariant, PTL DEF Spec
=============================================================================
