----------------------------- MODULE EpochKeys -----------------------------
(***************************************************************************)
(* The message keys of a group across epochs: each member holds the secret *)
(* tree of its epoch and, in historicalReceiverData, those of the epochs   *)
(* before, so that application messages that arrive late can be opened.    *)
(* The application zeroes every buffer an operation returns as consumed,   *)
(* as docs/01-basic-functionality.md asks; the trees share buffers with    *)
(* the trees they were made from, so a zeroed secret is useless wherever   *)
(* it is referenced.                                                       *)
(*                                                                         *)
(* The network keeps every message: it may deliver any of them late, more  *)
(* than once, out of order or never.  The delivery service (external)      *)
(* accepts one commit per epoch; a commit it refuses reaches nobody and    *)
(* the committer keeps its old state, so only accepted ones are modelled.  *)
(* The membership is fixed and what commits change besides the keys is     *)
(* left to Group.                                                          *)
(***************************************************************************)
EXTENDS SecretTree

CONSTANTS
  Member,               \* the leaves that are occupied
  RetainKeysForEpochs,  \* keyRetentionConfig: earlier epochs kept
  CommitWire,           \* the wire formats commits are created with
  MayReject,            \* members whose callback may reject a commit
  MaxEpoch,             \* bound on the epochs
  MaxSent               \* bound on the application messages and proposals

ASSUME MemberAssumption == Member \subseteq Leaf /\ MayReject \subseteq Member
ASSUME RetainEpochsAssumption == RetainKeysForEpochs \in Nat
ASSUME WireAssumption == CommitWire \subseteq {"public", "private"}
ASSUME BoundsAssumption == MaxEpoch \in Nat \ {0} /\ MaxSent \in Nat

FirstEpoch == 1  \* the epoch in which the last member joined
Epoch == 0 .. MaxEpoch
Content == {"application", "proposal", "commit"}

Message == [epoch : Epoch, sender : Member, wire : {"public", "private"},
            contentType : Content, generation : Nat]

\* A buffer is an inner node's secret <<node>> or a ratchet secret
\* <<leaf, ratchet, generation>> of an epoch.
Buffer == Epoch \X ({<<n>> : n \in Node} \union (Leaf \X RatchetKind \X Nat))

VARIABLES
  epoch,                   \* groupContext.epoch of each member
  secretTree,              \* the secret tree of that epoch
  historicalReceiverData,  \* earlier epochs' secret trees
  zeroed,                  \* the buffers the application has zeroed
  network,                 \* every message sent
  opened                   \* the messages each member has opened

vars == <<epoch, secretTree, historicalReceiverData, zeroed, network, opened>>

-----------------------------------------------------------------------------
BuffersOf(e, nodes, secrets) == {<<e, b>> : b \in {<<n>> : n \in nodes} \union secrets}

TreeBuffers(e, tree) == BuffersOf(e, tree.intermediateNodes, HeldSecrets(tree))

\* The secrets of the secret trees alone: the key schedule of an epoch, and the
\* sender-data secret and resumption PSK kept with a former one, are not modelled.
TreeSecretsIn(e, tree, history) ==
  TreeBuffers(e, tree) \union UNION {TreeBuffers(d, history[d]) : d \in DOMAIN history}

TreeSecrets(m) == TreeSecretsIn(epoch[m], secretTree[m], historicalReceiverData[m])

\* What the secret of a message is derived from in a tree.
SourceOf(tree, leaf, kind, generation) ==
  LET ratchet == tree.ratchets[leaf][kind]
  IN  IF leaf \in tree.leafNodes
      THEN <<leaf, kind, IF generation < ratchet.generation THEN generation ELSE ratchet.generation>>
      ELSE <<Highest(PathFromLeaf(leaf) \intersect tree.intermediateNodes)>>

ReceiverTree(m, e) ==
  IF e = epoch[m] THEN secretTree[m] ELSE historicalReceiverData[m][e]

ReceiverEpochs(m) == {epoch[m]} \union DOMAIN historicalReceiverData[m]

\* unprotectPrivateMessage: what comes of it, or nothing when it throws: it
\* succeeds when the ratchet of the message's epoch yields a key, the right one.
Unprotect(m, msg) ==
  UNION {{result \in {RatchetToGeneration(tree, msg.sender, kind, msg.generation)} :
            /\ result.ok
            /\ <<msg.epoch, SourceOf(tree, msg.sender, kind, msg.generation)>> \notin zeroed[m]}
         : tree \in {ReceiverTree(m, e) : e \in ReceiverEpochs(m) \intersect {msg.epoch}},
           kind \in {RatchetForContentType(msg.contentType)}}

CanUnprotect(m, msg) == msg.wire = "private" /\ Unprotect(m, msg) # {}

ConsumedBy(e, result) == BuffersOf(e, result.consumedNodes, result.consumedSecrets)

-----------------------------------------------------------------------------
HistoryKeepingNewest(history, max) ==  \* mutant: slice(-max) read as "the newest max", one too many
  LET kept == Newest(DOMAIN history, max + 1)
  IN  [history |-> [e \in kept |-> history[e]],
       dropped |-> UNION {TreeBuffers(e, history[e]) : e \in DOMAIN history \ kept}]

HistoryDroppingSilently(history, max) ==  \* mutant: secrets of the deleted epochs not handed over
  LET kept == IF max = 0 THEN DOMAIN history ELSE Newest(DOMAIN history, max)
  IN  [history |-> [e \in kept |-> history[e]],
       dropped |-> {}]

\* removeOldHistoricalReceiverData: the epochs below the cutoff are handed over
\* for zeroing; slice(-max) keeps the newest max epochs, but all of them for 0.
RemoveOldHistoricalReceiverData(history, max) ==
  LET newest == Newest(DOMAIN history, max)
      kept   == IF max = 0 THEN DOMAIN history ELSE newest
  IN  [history |-> [e \in kept |-> history[e]],
       dropped |-> UNION {TreeBuffers(e, history[e]) : e \in DOMAIN history \ newest}]

\* addHistoricalReceiverData: the epoch that ends joins the history.
AddHistoricalReceiverData(history, e, tree) ==
  LET withNew == [d \in DOMAIN history \union {e} |-> IF d = e THEN tree ELSE history[d]]
  IN  IF Cardinality(DOMAIN withNew) >= RetainKeysForEpochs
      THEN RemoveOldHistoricalReceiverData(withNew, RetainKeysForEpochs)
      ELSE [history |-> withNew, dropped |-> {}]

\* Member m ends its epoch, whose tree is by now endingTree.
NextEpoch(m, endingTree, consumed) ==
  \E added \in {AddHistoricalReceiverData(historicalReceiverData[m], epoch[m], endingTree)} :
    /\ epoch' = [epoch EXCEPT ![m] = @ + 1]
    /\ secretTree' = [secretTree EXCEPT ![m] = CreateSecretTree]
    /\ historicalReceiverData' = [historicalReceiverData EXCEPT ![m] = added.history]
    /\ zeroed' = [zeroed EXCEPT ![m] = @ \union consumed \union added.dropped]

\* Member m keeps its epoch and takes over the new tree of epoch e.
SameEpoch(m, e, result) ==
  /\ IF e = epoch[m]
     THEN /\ secretTree' = [secretTree EXCEPT ![m] = result.tree]
          /\ UNCHANGED historicalReceiverData
     ELSE /\ historicalReceiverData' = [historicalReceiverData EXCEPT ![m][e] = result.tree]
          /\ UNCHANGED secretTree
  /\ zeroed' = [zeroed EXCEPT ![m] = @ \union ConsumedBy(e, result)]
  /\ UNCHANGED epoch

-----------------------------------------------------------------------------
\* The creator of the group was alone in epoch 0, the others joined in
\* FirstEpoch by Welcome, without any history.
Init ==
  /\ epoch = [m \in Member |-> FirstEpoch]
  /\ secretTree = [m \in Member |-> CreateSecretTree]
  /\ LET none      == [e \in {} |-> CreateSecretTree]
         aloneTree == [CreateSecretTree EXCEPT !.intermediateNodes = {Root(1)}]
     IN  \E creator \in Member :
           historicalReceiverData =
             [m \in Member |-> IF m = creator
                               THEN AddHistoricalReceiverData(none, 0, aloneTree).history
                               ELSE none]
  /\ zeroed = [m \in Member |-> {}]
  /\ network = {}
  /\ opened = [m \in Member |-> {}]

Sent(m, wire, contentType, generation) ==
  [epoch |-> epoch[m], sender |-> m, wire |-> wire,
   contentType |-> contentType, generation |-> generation]

\* createApplicationMessage and createProposal as a private message.
Create(m, contentType) ==
  /\ Cardinality({msg \in network : msg.contentType # "commit"}) < MaxSent
  /\ \E result \in {ConsumeRatchet(secretTree[m], m, RatchetForContentType(contentType))} :
       /\ result.ok
       /\ SameEpoch(m, epoch[m], result)
       /\ network' = network \union {Sent(m, "private", contentType, result.generation)}
  /\ UNCHANGED opened

Committed(e) == \E msg \in network : msg.epoch = e /\ msg.contentType = "commit"

CommitAllowed(m) == epoch[m] < MaxEpoch /\ ~Committed(epoch[m])

CreatePublicCommitSealed(m) ==  \* mutant: the ratchet is consumed for a public commit too
  LET result == ConsumeRatchet(secretTree[m], m, "handshake")
  IN  /\ CommitAllowed(m)
      /\ result.ok
      /\ NextEpoch(m, secretTree[m], ConsumedBy(epoch[m], result))
      /\ network' = network \union {Sent(m, "public", "commit", 0)}
      /\ UNCHANGED opened

\* createCommit as a public message uses no ratchet.
CreatePublicCommit(m) ==
  /\ CommitAllowed(m)
  /\ NextEpoch(m, secretTree[m], {})
  /\ network' = network \union {Sent(m, "public", "commit", 0)}
  /\ UNCHANGED opened

\* createCommit as a private message: the tree that enters the history is the
\* one from before the commit was sealed; the advanced tree is discarded.
CreatePrivateCommit(m) ==
  /\ CommitAllowed(m)
  /\ \E result \in {ConsumeRatchet(secretTree[m], m, "handshake")} :
       /\ result.ok
       /\ NextEpoch(m, secretTree[m], ConsumedBy(epoch[m], result))
       /\ network' = network \union {Sent(m, "private", "commit", result.generation)}
  /\ UNCHANGED opened

CreateCommit(m) ==
  \/ "public" \in CommitWire /\ CreatePublicCommit(m)
  \/ "private" \in CommitWire /\ CreatePrivateCommit(m)

ProcessFormerEpochStateless(m, msg) ==  \* mutant: a former epoch's message leaves no trace
  /\ msg.contentType = "application" \/ (msg.contentType = "proposal" /\ msg.epoch = epoch[m])
  /\ \E result \in Unprotect(m, msg) :
       IF msg.epoch = epoch[m]
       THEN SameEpoch(m, msg.epoch, result)
       ELSE UNCHANGED <<epoch, secretTree, historicalReceiverData, zeroed>>
  /\ opened' = [opened EXCEPT ![m] = @ \union {msg}]
  /\ UNCHANGED network

\* processPrivateMessage on an application message of this or a former epoch,
\* or on a proposal of this one; a former epoch's proposal throws.
ProcessMessage(m, msg) ==
  /\ msg.contentType = "application" \/ (msg.contentType = "proposal" /\ msg.epoch = epoch[m])
  /\ \E result \in Unprotect(m, msg) : SameEpoch(m, msg.epoch, result)
  /\ opened' = [opened EXCEPT ![m] = @ \union {msg}]
  /\ UNCHANGED network

IsCommitFor(m, msg) ==
  /\ msg.contentType = "commit"
  /\ msg.epoch = epoch[m]
  /\ msg.wire = "private" => CanUnprotect(m, msg)

\* processCommit: a private commit first advances the handshake ratchet.
AcceptCommit(m, msg) ==
  /\ IsCommitFor(m, msg)
  /\ IF msg.wire = "private"
     THEN \E result \in Unprotect(m, msg) :
            NextEpoch(m, result.tree, ConsumedBy(epoch[m], result))
     ELSE NextEpoch(m, secretTree[m], {})
  /\ opened' = [opened EXCEPT ![m] = @ \union {msg}]
  /\ UNCHANGED network

\* The callback rejects: a public commit leaves the state as it was, a private
\* one has been consumed all the same.
RejectCommit(m, msg) ==
  /\ m \in MayReject
  /\ IsCommitFor(m, msg)
  /\ msg.wire = "private"
  /\ \E result \in Unprotect(m, msg) : SameEpoch(m, epoch[m], result)
  /\ opened' = [opened EXCEPT ![m] = @ \union {msg}]
  /\ UNCHANGED network

Next ==
  \E m \in Member :
    \/ \E contentType \in {"application", "proposal"} : Create(m, contentType)
    \/ CreateCommit(m)
    \/ \E msg \in network :
         ProcessMessage(m, msg) \/ AcceptCommit(m, msg) \/ RejectCommit(m, msg)

Spec == Init /\ [][Next]_vars

\* The network gives each member the accepted commit of its epoch in the end,
\* and the application processes it: weak fairness of AcceptCommit, written out
\* with the condition that enables it.
Fairness ==
  \A m \in Member :
    <>[](\E msg \in network : IsCommitFor(m, msg))
      => []<><<\E msg \in network : AcceptCommit(m, msg)>>_vars

FairSpec == Spec /\ Fairness

-----------------------------------------------------------------------------
TypeOK ==
  /\ epoch \in [Member -> Epoch]
  /\ secretTree \in [Member -> Tree]
  /\ \A m \in Member :
       /\ DOMAIN historicalReceiverData[m] \subseteq Epoch
       /\ \A e \in DOMAIN historicalReceiverData[m] : historicalReceiverData[m][e] \in Tree
  /\ zeroed \in [Member -> SUBSET Buffer]
  /\ network \subseteq Message
  /\ opened \in [Member -> SUBSET network]

(***************************************************************************)
(* What epochReceiverData.ts says of it: everything necessary to receive   *)
(* application messages of an earlier epoch.  A message of an epoch that   *)
(* is current or retained, not opened yet and within the generations the   *)
(* receiver keeps and reaches, can be opened however late it comes.        *)
(***************************************************************************)
WithinGenerations(tree, msg) ==
  LET head == tree.ratchets[msg.sender]["application"].generation
  IN  /\ msg.generation + RetainKeysForGenerations + 1 >= head
      /\ msg.generation <= head + MaximumForwardRatchetSteps

Openable(m, msg) ==
  /\ msg.contentType = "application"
  /\ msg.sender # m
  /\ msg \notin opened[m]
  /\ msg.epoch \in ReceiverEpochs(m)
  /\ WithinGenerations(ReceiverTree(m, msg.epoch), msg)

LateMessagesCanBeOpened ==
  \A m \in Member, msg \in network : Openable(m, msg) => CanUnprotect(m, msg)

(***************************************************************************)
(* The same but for the epochs a member ended with a private commit of its *)
(* own: with either wire format, messages of retained epochs stay readable *)
(* for everybody who followed somebody else's commit or made a public one  *)
(* (clientState.ts:980-1018, createCommit.ts:460-512).                     *)
(***************************************************************************)
SealedBy(m, e) ==
  \E msg \in network : /\ msg.contentType = "commit" /\ msg.wire = "private"
                       /\ msg.sender = m /\ msg.epoch = e

LateMessagesSurviveCommits ==
  \A m \in Member, msg \in network :
    Openable(m, msg) /\ ~SealedBy(m, msg.epoch) => CanUnprotect(m, msg)

(***************************************************************************)
(* A private message is opened at most once by each member and never by    *)
(* its sender, in whatever epoch the receiver is by then.                  *)
(***************************************************************************)
OpenedAtMostOnce ==
  \A m \in Member, msg \in network :
    msg \in opened[m] \/ msg.sender = m => ~CanUnprotect(m, msg)

(***************************************************************************)
(* What epochOutOfOrder.test.ts checks for one configuration: a message of *)
(* more than RetainKeysForEpochs epochs ago is refused as too old: the     *)
(* history has nothing to open it with.                                    *)
(***************************************************************************)
TooOldIsRefused ==
  \A m \in Member, msg \in network :
    msg.epoch + RetainKeysForEpochs < epoch[m] => msg.epoch \notin ReceiverEpochs(m)

(***************************************************************************)
(* The history holds the configured number of epochs: those just before    *)
(* the current one, for every member from the epoch it joined in.          *)
(***************************************************************************)
RetainsConfiguredEpochs ==
  \A m \in Member :
    LET retained == {e \in 0 .. epoch[m] - 1 : e + RetainKeysForEpochs >= epoch[m]}
    IN  /\ DOMAIN historicalReceiverData[m] \subseteq retained
        /\ retained \ {0} \subseteq DOMAIN historicalReceiverData[m]

(***************************************************************************)
(* Forward secrecy of the message keys: a secret of a member's secret      *)
(* trees, that of its epoch or one retained for a former epoch, goes out   *)
(* of its state only zeroed, whether a use, a commit or the trimming of    *)
(* the history drops it.  This is about the secret trees alone: the other  *)
(* secrets of an epoch that ends or leaves the history are not handed over *)
(* (clientState.ts:1010-1015 returns the tree and neither senderDataSecret *)
(* nor resumptionPsk; createCommit.ts:275 and processMessages.ts:469, of   *)
(* the old key schedule, initSecret only).                                 *)
(***************************************************************************)
TreeSecretsAreZeroed ==
  [][\A m \in Member :
       TreeSecrets(m) \ TreeSecretsIn(epoch'[m], secretTree'[m], historicalReceiverData'[m])
         \subseteq zeroed'[m]]_vars

(***************************************************************************)
(* A member whose application rejects nothing reaches every epoch that     *)
(* another has reached, but for one case: the commit of its epoch is       *)
(* private and more than MaximumForwardRatchetSteps generations ahead of   *)
(* the proposals of that sender it has seen.  ratchetToGeneration throws   *)
(* then (secretTree.ts:196), for ever unless enough of them arrive late.   *)
(***************************************************************************)
OutOfReach(m) ==
  \E msg \in network :
    /\ msg.contentType = "commit" /\ msg.wire = "private" /\ msg.epoch = epoch[m]
    /\ msg.generation >
         secretTree[m].ratchets[msg.sender]["handshake"].generation + MaximumForwardRatchetSteps

=============================================================================
