------------------------------- MODULE Group -------------------------------
(***************************************************************************)
(* One group and its clients: proposals, commits, Welcomes, external joins *)
(* and what each client's state makes of them (clientState.ts,             *)
(* createCommit.ts, processMessages.ts, createMessage.ts).                 *)
(*                                                                         *)
(* The delivery service (external) accepts the first commit of every epoch *)
(* and refuses the others, whose creators then keep the state they had: so *)
(* the commits are a log, and creating one is creating the accepted one.   *)
(* Clients process the log at their own pace.  Proposals travel over a     *)
(* network that may reorder, repeat or lose them.                          *)
(*                                                                         *)
(* Messages are public: a rejected one then leaves the state as it was, so *)
(* a rejection is no step (what a private one consumes is in EpochKeys).   *)
(* Key packages, signatures and credentials are valid; a client has one    *)
(* signature key, so its key packages all stand for the same client.       *)
(***************************************************************************)
EXTENDS Integers, FiniteSets, SequencesExt

CONSTANTS
  Client,
  Nobody,           \* a blank leaf; the sender that is no member
  FoundingTree,     \* the leaves in epoch 0, where the model starts
  ProposalKind,     \* the kinds of proposals the applications use
  Uninvited,        \* what clients do without a Welcome: "commit" (external), "propose"
  MaxEpoch,         \* bound on the epochs
  MaxProposals      \* bound on the proposals sent as messages

ASSUME ClientAssumption == IsFiniteSet(Client) /\ Nobody \notin Client
ASSUME KindAssumption == ProposalKind \subseteq {"add", "update", "remove", "reinit"}
ASSUME UninvitedAssumption == Uninvited \subseteq {"commit", "propose"}
ASSUME BoundsAssumption == MaxEpoch \in Nat /\ MaxProposals \in Nat

Leaf == 0 .. Cardinality(Client) - 1
Tree == [Leaf -> Client \union {Nobody}]

ASSUME FoundingTreeAssumption ==
  /\ FoundingTree \in Tree
  /\ \A k, l \in Leaf : FoundingTree[k] = FoundingTree[l] /\ FoundingTree[k] # Nobody => k = l
  /\ \E leaf \in Leaf : FoundingTree[leaf] # Nobody

Epoch == 0 .. MaxEpoch
Status == {"outside", "active", "suspendedPendingReinit", "removedFromGroup"}

\* The sender is a leaf, or Nobody for a new member that proposes its own
\* addition; the target a client (add), a leaf (remove) or Nobody.
Proposal == [epoch : Epoch, sender : Leaf \union {Nobody}, kind : ProposalKind \union {"add", "remove"},
             target : Client \union Leaf \union {Nobody}]

VARIABLES
  status,    \* groupActiveState, or "outside" for a client without a state
  epoch,     \* groupContext.epoch
  tree,      \* the leaves of ratchetTree
  leafIndex, \* privatePath.leafIndex
  unapplied, \* unappliedProposals, in the order of their keys
  log,       \* log[e + 1] is the commit that ended epoch e
  network    \* the proposals sent

vars == <<status, epoch, tree, leafIndex, unapplied, log, network>>

-----------------------------------------------------------------------------
InGroup(c) == status[c] \in {"active", "suspendedPendingReinit"}

MembersOf(t) == {c \in Client : \E leaf \in Leaf : t[leaf] = c}

OfKind(proposals, kind) == {i \in DOMAIN proposals : proposals[i].kind = kind}

LeafTouched(proposal) ==
  IF proposal.kind = "update" THEN proposal.sender ELSE proposal.target

\* validateReinit and the group rules of validateProposals.
ValidateProposals(t, proposals, committer) ==
  LET updates == OfKind(proposals, "update")
      removes == OfKind(proposals, "remove")
      adds    == OfKind(proposals, "add")
  IN  /\ \A i \in updates : proposals[i].sender # committer
      /\ \A i \in removes : proposals[i].target # committer /\ t[proposals[i].target] # Nobody
      /\ \A i, j \in updates \union removes :
           LeafTouched(proposals[i]) = LeafTouched(proposals[j]) => i = j
      /\ \A i, j \in adds : proposals[i].target = proposals[j].target => i = j
      /\ \A i \in adds : proposals[i].target \notin MembersOf(t)

\* How many elements of a set of numbers are up to x.
Rank(x, set) == Cardinality({y \in set : y <= x})

\* The leaves that are free once the removals have been applied.
BlankLeaves(t, proposals) ==
  {leaf \in Leaf : \/ t[leaf] = Nobody
                   \/ \E i \in OfKind(proposals, "remove") : proposals[i].target = leaf}

\* Each added client takes the leftmost leaf that is blank by then: the k-th one
\* added takes the k-th blank leaf.
Takes(i, leaf, adds, blank) == Rank(i, adds) = Rank(leaf, blank)

\* The removed leaves become blank, then the added clients take theirs.
ApplyTreeMutations(t, proposals) ==
  LET adds  == OfKind(proposals, "add")
      blank == BlankLeaves(t, proposals)
  IN  [leaf \in Leaf |->
         IF leaf \notin blank THEN t[leaf]
         ELSE IF \E i \in adds : Takes(i, leaf, adds, blank)
         THEN proposals[CHOOSE i \in adds : Takes(i, leaf, adds, blank)].target
         ELSE Nobody]

ApplyProposals(t, proposals, committer) ==
  IF OfKind(proposals, "reinit") # {}
  THEN [ok |-> Len(proposals) = 1, reinit |-> TRUE, tree |-> t]
  ELSE [ok |-> ValidateProposals(t, proposals, committer), reinit |-> FALSE,
        tree |-> ApplyTreeMutations(t, proposals)]

AddUnappliedProposal(proposals, proposal) ==
  IF proposal \in ToSet(proposals) THEN proposals ELSE Append(proposals, proposal)

LeafOfFromOne(t, c) ==  \* mutant: leaves counted from one
  1 + CHOOSE leaf \in Leaf : t[leaf] = c

LeafOf(t, c) == CHOOSE leaf \in Leaf : t[leaf] = c

\* The tree of an epoch, as its GroupInfo and Welcome carry it.
TreeAt(e) == IF e = 0 THEN FoundingTree ELSE log[e].tree

Newest == Len(log)

Sent(c, kind, target) ==
  [epoch |-> epoch[c], sender |-> leafIndex[c], kind |-> kind, target |-> target]

\* What an application proposes: to add a client that is not in its tree, to
\* remove a member, itself included, and the rest without a target.
Targets(c, kind) ==
  CASE kind = "add"    -> Client \ MembersOf(tree[c])
    [] kind = "remove" -> {leaf \in Leaf : tree[c][leaf] # Nobody}
    [] OTHER           -> {Nobody}

\* Client c takes over the state of an epoch.
Enter(c, e, t, leaf, active) ==
  /\ status' = [status EXCEPT ![c] = active]
  /\ epoch' = [epoch EXCEPT ![c] = e]
  /\ tree' = [tree EXCEPT ![c] = t]
  /\ leafIndex' = [leafIndex EXCEPT ![c] = leaf]
  /\ unapplied' = [unapplied EXCEPT ![c] = <<>>]

-----------------------------------------------------------------------------
\* The founders have reached epoch 0 of the model by commits and Welcomes.
Init ==
  /\ status = [c \in Client |-> IF c \in MembersOf(FoundingTree) THEN "active" ELSE "outside"]
  /\ epoch = [c \in Client |-> 0]
  /\ tree = [c \in Client |-> FoundingTree]
  /\ leafIndex = [c \in Client |->
                    IF c \in MembersOf(FoundingTree) THEN LeafOf(FoundingTree, c) ELSE 0]
  /\ unapplied = [c \in Client |-> <<>>]
  /\ log = <<>>
  /\ network = {}

\* createProposal and createUpdateProposal; neither looks at groupActiveState,
\* the second needs the own leaf.
CreateProposal(c) ==
  /\ status[c] # "outside"
  /\ Cardinality(network) < MaxProposals
  /\ \E kind \in ProposalKind, target \in Client \union Leaf \union {Nobody} :
       LET proposal == Sent(c, kind, target)
       IN  /\ target \in Targets(c, kind)
           /\ kind = "update" => tree[c][leafIndex[c]] # Nobody
           /\ network' = network \union {proposal}
           /\ unapplied' = [unapplied EXCEPT ![c] = AddUnappliedProposal(@, proposal)]
  /\ UNCHANGED <<status, epoch, tree, leafIndex, log>>

\* proposeAddExternal with the newest GroupInfo.
ProposeAddExternal(c) ==
  /\ "propose" \in Uninvited
  /\ status[c] = "outside"
  /\ Cardinality(network) < MaxProposals
  /\ c \notin MembersOf(TreeAt(Newest))
  /\ network' = network \union
                  {[epoch |-> Newest, sender |-> Nobody, kind |-> "add", target |-> c]}
  /\ UNCHANGED <<status, epoch, tree, leafIndex, unapplied, log>>

ProcessProposalOfAnyEpoch(c, proposal) ==  \* mutant: the epoch is left to the signature
  /\ status[c] # "outside"
  /\ proposal.sender # Nobody => proposal.epoch = epoch[c]
  /\ proposal.kind = "add" => proposal.target \notin MembersOf(tree[c])
  /\ unapplied' = [unapplied EXCEPT ![c] = AddUnappliedProposal(@, proposal)]
  /\ UNCHANGED <<status, epoch, tree, leafIndex, log, network>>

\* processPublicMessage and processProposal: a member's proposal is verified
\* with the keys of the epoch, a new member's needs only not to be older.
ProcessProposal(c, proposal) ==
  /\ status[c] # "outside"
  /\ IF proposal.sender = Nobody THEN proposal.epoch >= epoch[c]
                                 ELSE proposal.epoch = epoch[c]
  /\ proposal.kind = "add" => proposal.target \notin MembersOf(tree[c])
  /\ unapplied' = [unapplied EXCEPT ![c] = AddUnappliedProposal(@, proposal)]
  /\ UNCHANGED <<status, epoch, tree, leafIndex, log, network>>

CheckCanSendHandshakeMessages(c) == status[c] = "active"

\* createCommit: by reference everything pending, by value what the
\* application adds.
CreateCommit(c) ==
  /\ CheckCanSendHandshakeMessages(c)
  /\ epoch[c] = Newest /\ Newest < MaxEpoch
  /\ \E extra \in {<<>>} \union
                  {<<Sent(c, kind, target)>> :
                     kind \in ProposalKind, target \in Client \union Leaf \union {Nobody}} :
       LET result == ApplyProposals(tree[c], unapplied[c] \o extra, leafIndex[c])
       IN  /\ \A i \in DOMAIN extra : extra[i].target \in Targets(c, extra[i].kind)
           /\ result.ok
           /\ log' = Append(log, [committer |-> leafIndex[c], joiner |-> Nobody,
                                  references |-> unapplied[c], byValue |-> extra,
                                  tree |-> result.tree])
           /\ Enter(c, Newest + 1, result.tree, leafIndex[c],
                    IF result.reinit THEN "suspendedPendingReinit" ELSE "active")
  /\ UNCHANGED network

\* The tree after an external commit: the leaves it removes become blank, the
\* joiner takes the leftmost blank one.
ExternalTree(t, removes, joiner) ==
  ApplyTreeMutations(t, Append(removes, [kind |-> "add", target |-> joiner]))

JoinGroupExternalTwice(c) ==  \* mutant: resync leaves the former leaf
  LET current == TreeAt(Newest)
      t       == ExternalTree(current, <<>>, c)
  IN  /\ "commit" \in Uninvited
      /\ Newest < MaxEpoch
      /\ MembersOf(current) # {c}
      /\ \E leaf \in Leaf : current[leaf] = Nobody
      /\ log' = Append(log, [committer |-> Nobody, joiner |-> c, references |-> <<>>,
                             byValue |-> <<>>, tree |-> t])
      /\ Enter(c, Newest + 1, t, LeafOf(t, c), "active")
      /\ UNCHANGED network

\* joinGroupExternal with the newest GroupInfo; with resync the client's
\* former leaf is removed first, which fails for the last member.
JoinGroupExternal(c) ==
  LET current == TreeAt(Newest)
      removes == IF c \in MembersOf(current)
                 THEN <<[epoch |-> Newest, sender |-> Nobody,
                         kind |-> "remove", target |-> LeafOf(current, c)]>>
                 ELSE <<>>
      t       == ExternalTree(current, removes, c)
  IN  /\ "commit" \in Uninvited
      /\ Newest < MaxEpoch
      /\ MembersOf(current) # {c}
      /\ log' = Append(log, [committer |-> Nobody, joiner |-> c, references |-> <<>>,
                             byValue |-> removes, tree |-> t])
      /\ Enter(c, Newest + 1, t, LeafOf(t, c), "active")
      /\ UNCHANGED network

\* joinGroup with the Welcome of the commit that started epoch e; the
\* application uses it while the client is not in the group.
JoinGroup(c, e) ==
  /\ ~InGroup(c)
  /\ e > epoch[c]
  /\ \E proposal \in ToSet(log[e].references \o log[e].byValue) :
       proposal.kind = "add" /\ proposal.target = c
  /\ Enter(c, e, log[e].tree, LeafOf(log[e].tree, c), "active")
  /\ UNCHANGED <<log, network>>

AppliedInOwnOrder(c, commit) ==  \* mutant: the receiver's order of what it has pending
  LET proposals == SelectSeq(unapplied[c], LAMBDA p : p \in ToSet(commit.references))
                     \o commit.byValue
  IN  IF commit.joiner = Nobody
      THEN ApplyProposals(tree[c], proposals, commit.committer)
      ELSE [ok |-> commit.joiner \notin MembersOf(ApplyTreeMutations(tree[c], proposals)),
            reinit |-> FALSE,
            tree |-> ExternalTree(tree[c], proposals, commit.joiner)]

\* What a receiver makes of a commit.
Applied(c, commit) ==
  LET proposals == commit.references \o commit.byValue
  IN  IF commit.joiner = Nobody
      THEN ApplyProposals(tree[c], proposals, commit.committer)
      ELSE [ok |-> commit.joiner \notin MembersOf(ApplyTreeMutations(tree[c], proposals)),
            reinit |-> FALSE,
            tree |-> ExternalTree(tree[c], proposals, commit.joiner)]

CanApplyWhenAllPending(c) ==  \* mutant: what is pending must all be referred to
  /\ status[c] # "outside"
  /\ epoch[c] < Newest
  /\ ToSet(log[epoch[c] + 1].references) = ToSet(unapplied[c])
  /\ Applied(c, log[epoch[c] + 1]).ok

\* The receiver holds the commit of its epoch and all the proposals it refers to.
CanApply(c) ==
  /\ status[c] # "outside"
  /\ epoch[c] < Newest
  /\ ToSet(log[epoch[c] + 1].references) \subseteq ToSet(unapplied[c])
  /\ Applied(c, log[epoch[c] + 1]).ok

ProcessRemovalBeforeTheRemoves(c) ==  \* mutant: looks at the tree from before the proposals
  /\ CanApply(c)
  /\ LET commit == log[epoch[c] + 1]
         t      == Applied(c, commit).tree
     IN  /\ commit.joiner = Nobody
         /\ tree[c][leafIndex[c]] = Nobody
         /\ Enter(c, epoch[c], t, leafIndex[c], "removedFromGroup")
  /\ UNCHANGED <<log, network>>

\* processCommit when a member commit left the receiver's leaf blank.
ProcessRemoval(c) ==
  /\ CanApply(c)
  /\ LET commit == log[epoch[c] + 1]
         t      == Applied(c, commit).tree
     IN  /\ commit.joiner = Nobody
         /\ t[leafIndex[c]] = Nobody
         /\ Enter(c, epoch[c], t, leafIndex[c], "removedFromGroup")
  /\ UNCHANGED <<log, network>>

ProcessCommitWithoutOwnLeaf(c) ==  \* mutant: who has the own leaf does not matter
  /\ CanApply(c)
  /\ LET result == Applied(c, log[epoch[c] + 1])
     IN  /\ result.tree[leafIndex[c]] # Nobody
         /\ Enter(c, epoch[c] + 1, result.tree, leafIndex[c],
                  IF result.reinit THEN "suspendedPendingReinit" ELSE "active")
  /\ UNCHANGED <<log, network>>

\* processCommit otherwise; a receiver whose leaf is another's by now finds no
\* secret for it in the update path and throws.
ProcessCommit(c) ==
  /\ CanApply(c)
  /\ LET result == Applied(c, log[epoch[c] + 1])
     IN  /\ result.tree[leafIndex[c]] = c
         /\ Enter(c, epoch[c] + 1, result.tree, leafIndex[c],
                  IF result.reinit THEN "suspendedPendingReinit" ELSE "active")
  /\ UNCHANGED <<log, network>>

Next ==
  \E c \in Client :
    \/ CreateProposal(c)
    \/ ProposeAddExternal(c)
    \/ CreateCommit(c)
    \/ JoinGroupExternal(c)
    \/ \E proposal \in network : ProcessProposal(c, proposal)
    \/ \E e \in 1 .. Newest : JoinGroup(c, e)
    \/ ProcessRemoval(c)
    \/ ProcessCommit(c)

Spec == Init /\ [][Next]_vars

\* Every message reaches every client in the end, and its application has it
\* processed.
Fairness ==
  \A c \in Client :
    /\ WF_vars(ProcessCommit(c))
    /\ WF_vars(ProcessRemoval(c))
    /\ WF_vars(\E proposal \in network : ProcessProposal(c, proposal))

FairSpec == Spec /\ Fairness

-----------------------------------------------------------------------------
Commit == [committer : Leaf \union {Nobody}, joiner : Client \union {Nobody},
           references : Seq(Proposal), byValue : Seq(Proposal), tree : Tree]

TypeOK ==
  /\ status \in [Client -> Status]
  /\ epoch \in [Client -> Epoch]
  /\ tree \in [Client -> Tree]
  /\ leafIndex \in [Client -> Leaf]
  /\ unapplied \in [Client -> Seq(Proposal)]
  /\ log \in Seq(Commit)
  /\ network \subseteq Proposal

(***************************************************************************)
(* Every client in the group has, for its epoch, the tree of the committer *)
(* of that epoch, whose GroupInfo and Welcome newcomers start from: what   *)
(* receivers compute from the proposals is what the committer computed.    *)
(***************************************************************************)
SameTree == \A c \in Client : InGroup(c) => tree[c] = TreeAt(epoch[c])

(***************************************************************************)
(* A client in the group is at the leaf it takes for its own, and at no    *)
(* other, whatever leaves have been freed and reused meanwhile.            *)
(***************************************************************************)
OwnLeaf ==
  \A c \in Client : InGroup(c) =>
    \A leaf \in Leaf : tree[c][leaf] = c <=> leaf = leafIndex[c]

(***************************************************************************)
(* What is pending was proposed in the epoch the client is in, by a leaf   *)
(* that is occupied in it, or by a newcomer and is not older.              *)
(***************************************************************************)
PendingIsCurrent ==
  \A c \in Client : InGroup(c) =>
    \A proposal \in ToSet(unapplied[c]) :
      \/ proposal.sender = Nobody /\ proposal.epoch >= epoch[c]
      \/ proposal.epoch = epoch[c] /\ tree[c][proposal.sender] # Nobody

(***************************************************************************)
(* The clients walk through one history of rosters (GroupHistory).         *)
(***************************************************************************)
History == INSTANCE GroupHistory WITH
  history  <- [i \in 1 .. Newest + 1 |-> MembersOf(TreeAt(i - 1))],
  position <- [c \in Client |-> IF InGroup(c) THEN epoch[c] + 1 ELSE 0],
  roster   <- [c \in Client |-> IF InGroup(c) THEN MembersOf(tree[c]) ELSE {}]

ImplementsGroupHistory == History!Spec

(***************************************************************************)
(* Nothing follows the commit of a reinit: a client whose group is         *)
(* suspended stays so until it leaves for the new group.                   *)
(***************************************************************************)
SuspendedIsFinal ==
  [][\A c \in Client : status[c] = "suspendedPendingReinit" =>
                         status'[c] = "suspendedPendingReinit"]_vars

(***************************************************************************)
(* A client that keeps its leaf follows the group to its newest epoch: a   *)
(* commit its creator could apply can be applied by every other member.    *)
(***************************************************************************)
KeepsItsLeaf(c, e) == \A d \in epoch[c] + 1 .. e : TreeAt(d)[leafIndex[c]] = c

MembersCatchUp ==
  \A c \in Client, e \in 1 .. MaxEpoch :
    (InGroup(c) /\ e <= Newest /\ KeepsItsLeaf(c, e)) ~> epoch[c] >= e

(***************************************************************************)
(* docs/04-remove.md: the state of a removed client indicates, after the   *)
(* removal commit, that it is no longer a member.                          *)
(***************************************************************************)
Evicted(c) == \E d \in epoch[c] + 1 .. Newest : TreeAt(d)[leafIndex[c]] # c

RemovedLearnOfIt ==
  \A c \in Client : (InGroup(c) /\ Evicted(c)) ~> ~(InGroup(c) /\ Evicted(c))

(***************************************************************************)
(* What holds of that: a client whose leaf a commit leaves blank learns of *)
(* its removal or joins anew, however far it lags behind.  Only a removal  *)
(* whose leaf the same commit gives away goes unnoticed.                   *)
(***************************************************************************)
EvictedToBlank(c) ==
  \E d \in epoch[c] + 1 .. Newest :
    KeepsItsLeaf(c, d - 1) /\ TreeAt(d)[leafIndex[c]] = Nobody

RemovedLearnUnlessReused ==
  \A c \in Client : (InGroup(c) /\ EvictedToBlank(c)) ~> ~(InGroup(c) /\ EvictedToBlank(c))
=============================================================================
