------------------------------ MODULE TreeKEM ------------------------------
(***************************************************************************)
(* The ratchet trees and private keys of a group through its commits: who  *)
(* can follow a commit and who holds which key.  Proposals and commits are *)
(* applied to the tree (applyProposals, applyTreeMutations), the committer *)
(* makes a path of new keys (createCommit, createUpdatePath), the others   *)
(* decrypt their part of it (processCommit, applyTreeUpdate), newcomers    *)
(* join by Welcome or by an external commit of their own.                  *)
(*                                                                         *)
(* A path secret of the commit that ends epoch e is its number i: secret 0 *)
(* is drawn, i + 1 is derived from i, and <<"path", e, i>> is the key pair *)
(* derived from secret i.  A ciphertext is the key it is encrypted to.     *)
(*                                                                         *)
(* The delivery service (external) accepts one commit per epoch; Group     *)
(* models the choice and the lag, here everybody follows before the next   *)
(* commit.  Following a commit touches the member's own state only, so the *)
(* members follow in the order of their leaves.                            *)
(***************************************************************************)
EXTENDS RatchetTree

CONSTANTS
  Client,    \* the clients there are
  Scenarios  \* bounds: the groups examined, of which a behaviour has one

(***************************************************************************)
(* A scenario has the founders of epoch 1 in the order of their leaves,    *)
(* those who can be invited, commit, propose updates, be removed and join  *)
(* by themselves, and bounds on the epochs, the proposals in a commit and  *)
(* the update proposals sent in an epoch.                                  *)
(***************************************************************************)
ASSUME ClientAssumption == IsFiniteSet(Client) /\ Nobody \notin Client
ASSUME ScenariosAssumption ==
  \A s \in Scenarios :
    /\ s.founders \in Seq(Client) /\ IsInjective(s.founders) /\ Len(s.founders) > 1
    /\ s.maxEpoch \in Nat /\ s.maxProposals \in Nat /\ s.maxUpdates \in Nat
    /\ s.invited \union s.committers \union s.proposers \union s.removable \union s.joiners \subseteq Client

VARIABLES
  scenario,   \* the group examined
  state,      \* the ClientState of each client, of which the tree and the keys
  updates,    \* the update proposals of the current epoch
  commit,     \* the commit that began the current epoch
  welcome,    \* the path secret each invited client is sent, 0 for none
  groupInfo   \* what a newcomer is told of the current epoch

vars == <<scenario, state, updates, commit, welcome, groupInfo>>

-----------------------------------------------------------------------------
PathKey(e, i) == <<"path", e, i>>
UpdateKey(e, c) == <<"update", e, c>>
PackageKey(e, c) == <<"package", e, c>>

NoPath == <<>>

Outside == [kind |-> "outside", epoch |-> 0, leafIndex |-> 0,
            privateKeys |-> <<>>, ratchetTree |-> <<>>, treeHashCache |-> <<>>]

Member(e, leafIndex, privateKeys, tree, cache) ==
  [kind |-> "member", epoch |-> e, leafIndex |-> leafIndex,
   privateKeys |-> privateKeys, ratchetTree |-> tree, treeHashCache |-> cache]

Epoch == commit.epoch + 1  \* the current epoch

\* The members that are to follow the last commit: it does not remove them.
Following(c) ==
  /\ state[c].kind = "member"
  /\ state[c].epoch = commit.epoch
  /\ state[c].leafIndex \notin commit.removes

AddLeafNodes(tree, added) ==
  LET grown[i \in 0 .. Len(added)] == IF i = 0 THEN tree ELSE AddLeafNode(grown[i - 1], added[i])
  IN  grown[Len(added)]

UpdatedNodes(updated) ==
  [n \in {LeafToNodeIndex(u.leafIndex) : u \in updated} |->
     (CHOOSE u \in updated : LeafToNodeIndex(u.leafIndex) = n).leafNode]

\* applyTreeMutations: updates, then removes, then adds.
ApplyTreeMutations(tree, updated, removed, added) ==
  AddLeafNodes(RemoveLeafNodes(UpdateLeafNodes(tree, UpdatedNodes(updated)), removed), added)

\* The leaves at which the added leaf nodes are.
AddedLeaves(tree, added) ==
  {NodeToLeafIndex(n) : n \in {l \in Leaves(tree) : \E i \in DOMAIN added : added[i].key = tree[l].key}}

TouchedWithoutAdds(tree, updated, removed, added) ==  \* mutant: added leaves missing from updatedLeaves
  {u.leafIndex : u \in updated} \union removed

\* updatedLeaves and removedLeaves of applyProposals.
Touched(tree, updated, removed, added) ==
  {u.leafIndex : u \in updated} \union AddedLeaves(tree, added) \union removed

NeedsUpdatePath(updated, removed, added) == updated # {} \/ removed # {} \/ added = <<>>

\* The private keys of the path secrets from secret i at the first node on.
KeysFrom(e, nodes, i) ==
  [n \in ToSet(nodes) |-> PathKey(e, i - 1 + (CHOOSE j \in DOMAIN nodes : nodes[j] = n))]

-----------------------------------------------------------------------------
\* The path of the sender with its new keys, the rest of the direct path blank.
InsertPathKeys(tree, sender, leafNode, nodes, keys) ==
  [n \in ToSet(nodes) |-> ParentNode(keys[CHOOSE i \in DOMAIN nodes : nodes[i] = n])]
    ++ UpdateLeafNodes(tree, [n \in {LeafToNodeIndex(sender)} |-> leafNode])

\* insertParentHashes: every hash is that of the node above, whose key is new.
InsertParentHashes(tree, hashes, nodes) ==
  [n \in nodes |-> [tree[n] EXCEPT !.parentHash = CalculateParentHash(tree, hashes, n)]] ++ tree

\* createUpdatePath, the tree it makes for the filtered direct path fdp.
CreateUpdatePath(tree, cache, sender, client, fdp) ==
  {InsertParentHashes(t, hashes, ToSet(NodesOf(fdp)) \union {LeafToNodeIndex(sender)})
     : t \in {InsertPathKeys(tree, sender, LeafNode(PathKey(Epoch, 0), client), NodesOf(fdp),
                             [i \in DOMAIN fdp |-> PathKey(Epoch, i)])},
       hashes \in {TreeHashes(tree, cache)}}

EncryptToAll(tree, fdp, excluded) ==  \* mutant: excludeNodes ignored
  [i \in DOMAIN fdp |->
     [key         |-> tree[fdp[i].nodeIndex].key,
      encryptedTo |-> [j \in DOMAIN fdp[i].resolution |-> tree[fdp[i].resolution[j]].key]]]

\* encryptSecretsForPath: each path secret to the resolution next to the path,
\* the leaves the commit adds excluded.
EncryptSecretsForPath(tree, fdp, excluded) ==
  [i \in DOMAIN fdp |->
     LET sendTo == Excluding(fdp[i].resolution, excluded)
     IN  [key         |-> tree[fdp[i].nodeIndex].key,
          encryptedTo |-> [j \in DOMAIN sendTo |-> tree[sendTo[j]].key]]]

\* getCommitSecret: one derivation beyond the root; none for an empty path.
GetCommitSecret(tree, fdp) ==
  IF fdp = <<>> THEN 0
  ELSE Len(fdp) + Len(PathToRoot(tree, fdp[Len(fdp)].nodeIndex))

\* createWelcome: the secret of the node where the newcomer's path meets the
\* committer's; none when there is no path.
Secrets(tree, fdp, added, hasPath) ==
  [c \in {added[i].client : i \in DOMAIN added} |->
     IF ~hasPath THEN 0
     ELSE FirstMatch(tree, fdp, CHOOSE l \in AddedLeaves(tree, added) :
                                  tree[LeafToNodeIndex(l)].client = c)]

\* A client's commit begins the next epoch with this tree and these keys.
Publish(c, leafIndex, message, keys, tree, hashes, secrets) ==
  /\ state' = [state EXCEPT ![c] = Member(Epoch + 1, leafIndex, keys, tree, hashes)]
  /\ commit' = message
  /\ welcome' = secrets
  /\ groupInfo' = [ratchetTree |-> tree, treeHash |-> hashes[RootOf(tree)], signer |-> leafIndex]
  /\ updates' = {}
  /\ UNCHANGED scenario

Message(sender, external, updated, removed, added, path, tree, hashes, secret) ==
  [epoch |-> Epoch, sender |-> sender, external |-> external,
   updates |-> updated, removes |-> removed, adds |-> added,
   path |-> path, treeHash |-> hashes[RootOf(tree)], commitSecret |-> secret]

-----------------------------------------------------------------------------
\* Client c makes the commit with a path for the tree the proposals left.
CommitPath(c, leafIndex, external, updated, removed, added, tree, cache, keys) ==
  \E fdp \in {FilteredDirectPath(leafIndex, tree)},
     excluded \in {{LeafToNodeIndex(l) : l \in AddedLeaves(tree, added)}} :
    \E new \in CreateUpdatePath(tree, cache, leafIndex, c, fdp) :
      \E hashes \in {TreeHashes(new, cache)},
         path \in {[leafNode |-> new[LeafToNodeIndex(leafIndex)],
                    nodes    |-> EncryptSecretsForPath(new, fdp, excluded)]} :
        Publish(c, leafIndex,
                Message(leafIndex, external, updated, removed, added, path, new, hashes,
                        GetCommitSecret(new, fdp)),
                KeysFrom(Epoch, <<LeafToNodeIndex(leafIndex)>> \o NodesOf(fdp), 0) ++ keys,
                new, hashes,
                Secrets(new, fdp, added, TRUE))

CommitWithoutPath(c, updated, removed, added, tree, cache) ==
  \E hashes \in {TreeHashes(tree, cache)} :
    Publish(c, state[c].leafIndex,
            Message(state[c].leafIndex, FALSE, updated, removed, added, NoPath, tree, hashes, 0),
            state[c].privateKeys, tree, hashes,
            Secrets(tree, <<>>, added, FALSE))

EverybodyFollowed == welcome = <<>> /\ \A c \in Client : ~Following(c)

\* createUpdateProposal; the application keeps the new private key.
CreateUpdateProposal(c) ==
  /\ EverybodyFollowed
  /\ state[c].kind = "member" /\ state[c].epoch = Epoch
  /\ c \in scenario.proposers /\ Cardinality(updates) < scenario.maxUpdates
  /\ updates' = updates \union
       {[leafIndex |-> state[c].leafIndex, leafNode |-> LeafNode(UpdateKey(Epoch, c), c)]}
  /\ UNCHANGED <<scenario, state, commit, welcome, groupInfo>>

\* What a commit can be asked to contain, within validateProposals.
ValidProposals(c, updated, removed, added) ==
  /\ Cardinality(updated) + Cardinality(removed) + Len(added) <= scenario.maxProposals
  /\ state[c].leafIndex \notin {u.leafIndex : u \in updated} \union removed
  /\ {u.leafIndex : u \in updated} \intersect removed = {}

\* createCommit, of the proposals it received and its own; patched when it is
\* called with a leafNodePatch.
CreateCommit(c) ==
  /\ EverybodyFollowed
  /\ c \in scenario.committers /\ Epoch < scenario.maxEpoch
  /\ state[c].kind = "member" /\ state[c].epoch = Epoch
  /\ \E updated \in SUBSET updates,
        removed \in SUBSET UNION {LeavesOf(state[c].ratchetTree, d) : d \in scenario.removable},
        invited \in SetToAllKPermutations({d \in scenario.invited : LeavesOf(state[c].ratchetTree, d) = {}}),
        patched \in BOOLEAN :
       /\ ValidProposals(c, updated, removed, invited)
       /\ \E added \in {[i \in DOMAIN invited |-> LeafNode(PackageKey(Epoch, invited[i]), invited[i])]} :
            \E tree \in {ApplyTreeMutations(state[c].ratchetTree, updated, removed, added)},
               hasPath \in {NeedsUpdatePath(updated, removed, added) \/ patched} :
              \E cache \in {DeriveTreeHashCache(tree, state[c].treeHashCache,
                                                Touched(tree, updated, removed, added)
                                                  \union IF hasPath THEN {state[c].leafIndex} ELSE {})} :
                IF hasPath
                THEN CommitPath(c, state[c].leafIndex, FALSE, updated, removed, added, tree, cache,
                                state[c].privateKeys)
                ELSE CommitWithoutPath(c, updated, removed, added, tree, cache)

\* joinGroupExternal: a client outside the group adds itself, or one that has a
\* leaf replaces itself (resync), which throws for the only member
\* (extendRatchetTree); it starts from a validated tree.
JoinGroupExternal(c) ==
  /\ EverybodyFollowed
  /\ c \in scenario.joiners /\ Epoch < scenario.maxEpoch
  /\ ValidateRatchetTree(groupInfo.ratchetTree, groupInfo.treeHash)
  /\ \E removed \in {LeavesOf(groupInfo.ratchetTree, c)} :
       /\ Cardinality(Leaves(groupInfo.ratchetTree)) > Cardinality(removed)
       /\ \E left \in {RemoveLeafNodes(groupInfo.ratchetTree, removed)} :
            \E leafIndex \in {NodeToLeafIndex(FindBlankLeafNodeIndexOrExtend(left))},
               tree \in {AddLeafNode(left, LeafNode(PackageKey(Epoch, c), c))} :
              CommitPath(c, leafIndex, TRUE, {}, removed, <<>>, tree, EmptyCache, <<>>)

-----------------------------------------------------------------------------
\* The application installs the new leaf key when the commit has its update.
KeysWithUpdate(c) ==
  IF UpdateKey(commit.epoch, c) \in {u.leafNode.key : u \in commit.updates}
  THEN [n \in {LeafToNodeIndex(state[c].leafIndex)} |-> UpdateKey(commit.epoch, c)] ++ state[c].privateKeys
  ELSE state[c].privateKeys

ApplyUpdatePathUnhashed(tree, cache, path, fdp) ==  \* mutant: insertParentHashes left out
  {InsertPathKeys(tree, commit.sender, path.leafNode, NodesOf(fdp),
                  [i \in DOMAIN fdp |-> path.nodes[i].key])}

\* applyUpdatePath: the receiver's tree with the sender's path, if it fits.
ApplyUpdatePath(tree, cache, path, fdp) ==
  {InsertParentHashes(t, hashes, ToSet(NodesOf(fdp)))
     : hashes \in {TreeHashes(tree, cache)},
       t \in {new \in {InsertPathKeys(tree, commit.sender, path.leafNode, NodesOf(fdp),
                                      [i \in DOMAIN fdp |-> path.nodes[i].key])} :
                \A i \in DOMAIN fdp : path.nodes[i].key \notin {tree[n].key : n \in Parents(tree)}}}

\* applyUpdatePathSecret: the first node of the resolution a private key is held
\* for says which ciphertext is taken, and the key must be the one it is for.
DecryptsPath(fdp, keys, match, excluded) ==
  LET resolution == Excluding(fdp[match].resolution, excluded)
      held       == {i \in DOMAIN resolution : resolution[i] \in DOMAIN keys}
  IN  /\ held # {}
      /\ Min(held) \in DOMAIN commit.path.nodes[match].encryptedTo
      /\ keys[resolution[Min(held)]] = commit.path.nodes[match].encryptedTo[Min(held)]

\* applyTreeUpdate with a path: the states it can lead to, none when it throws
\* or the confirmation tag, made with tree hash and commit secret, is another.
\* What is off the sender's path is the same before and after the new keys
\* are inserted, so that fdp serves for both.
FollowPath(c, tree, cache, excluded, keys, fdp) ==
  LET match  == FirstMatch(tree, fdp, state[c].leafIndex)
      sender == LeafToNodeIndex(commit.sender)
      Route(new) == PathToRoot(new, fdp[match].nodeIndex)
      Confirmed(new, hashes) ==
        /\ commit.path.leafNode.parentHash = CalculateParentHash(new, hashes, sender)
        /\ hashes[RootOf(new)] = commit.treeHash
        /\ match + Len(Route(new)) = commit.commitSecret
  IN  IF \/ Len(fdp) # Len(commit.path.nodes)
         \/ ~commit.external /\ tree[sender].key = commit.path.leafNode.key
         \/ match = 0
         \/ ~DecryptsPath(fdp, keys, match, excluded)
      THEN {}
      ELSE UNION {{Member(Epoch, state[c].leafIndex,
                          KeysFrom(commit.epoch, Route(new), match) ++ keys, new, hashes)
                     : hashes \in {h \in {TreeHashes(new, cache)} : Confirmed(new, h)}}
                  : new \in ApplyUpdatePath(tree, cache, commit.path, fdp)}

\* applyTreeUpdate without a path.
FollowWithoutPath(c, tree, cache, keys) ==
  {Member(Epoch, state[c].leafIndex, keys, tree, hashes)
     : hashes \in {h \in {TreeHashes(tree, cache)} : h[RootOf(tree)] = commit.treeHash}}

\* The leaves processCommit takes as touched: with the sender's when there is a path.
TouchedBy(tree) ==
  Touched(tree, commit.updates, commit.removes, commit.adds)
    \union IF commit.path = NoPath THEN {} ELSE {commit.sender}

\* applyTreeUpdate on the tree the proposals left.  An external sender's leaf
\* is added first; its index is what findBlankLeafNodeIndex says.
Follow(c, proposed, keys) ==
  LET After(tree, cache, excluded) ==
        IF commit.path = NoPath
        THEN FollowWithoutPath(c, tree, cache, keys)
        ELSE UNION {FollowPath(c, tree, cache, excluded, keys, fdp)
                    : fdp \in {FilteredDirectPath(commit.sender, tree)}}
  IN  UNION {After(tree, DeriveTreeHashCache(tree, state[c].treeHashCache, TouchedBy(tree)),
                   IF commit.external
                   THEN {FindBlankLeafNodeIndexOrExtend(proposed)}
                   ELSE {LeafToNodeIndex(l) : l \in AddedLeaves(proposed, commit.adds)})
             : tree \in {IF commit.external THEN AddLeafNode(proposed, commit.path.leafNode) ELSE proposed}}

OwnLeaf(c) == LeafToNodeIndex(state[c].leafIndex)

Proposed(c) ==
  ApplyTreeMutations(state[c].ratchetTree, commit.updates, commit.removes, commit.adds)

\* The state a commit leads to that leaves the client its leaf.
Processed(c) ==
  UNION {Follow(c, proposed, KeysWithUpdate(c))
         : proposed \in {tree \in {Proposed(c)} : OwnLeaf(c) \in NonBlank(tree)}}

\* processCommit
ProcessCommit(c) ==
  /\ state[c].kind = "member" /\ state[c].epoch = commit.epoch
  /\ \E processed \in Processed(c) : state' = [state EXCEPT ![c] = processed]
  /\ UNCHANGED <<scenario, updates, commit, welcome, groupInfo>>

\* processCommit of a commit that leaves the client's leaf blank: its state
\* stays, but for the tree, and is that of a removed client.
ProcessRemoval(c) ==
  /\ state[c].kind = "member" /\ state[c].epoch = commit.epoch /\ ~commit.external
  /\ \E tree \in {Proposed(c)} :
       /\ OwnLeaf(c) \notin NonBlank(tree)
       /\ state' = [state EXCEPT ![c].kind = "removed", ![c].ratchetTree = tree]
  /\ UNCHANGED <<scenario, updates, commit, welcome, groupInfo>>

\* joinGroup: the newcomer validates the tree, finds its leaf and, with the path
\* secret, gets the keys from where its path meets the committer's.
Joined(c, tree, fdp) ==
  {Member(Epoch, leafIndex,
          [n \in {LeafToNodeIndex(leafIndex)} |-> PackageKey(commit.epoch, c)]
            ++ IF welcome[c] = 0 THEN <<>>
               ELSE KeysFrom(commit.epoch,
                             PathToRoot(tree, fdp[FirstMatch(tree, fdp, leafIndex)].nodeIndex), welcome[c]),
          tree, TreeHashes(tree, EmptyCache))
     : leafIndex \in {l \in LeavesOf(tree, c) : FirstMatch(tree, fdp, l) # 0}}

JoinedBy(c) ==
  UNION {Joined(c, groupInfo.ratchetTree, fdp)
         : fdp \in {path \in {FilteredDirectPath(groupInfo.signer, groupInfo.ratchetTree)} :
                      ValidateRatchetTree(groupInfo.ratchetTree, groupInfo.treeHash)}}

JoinGroup(c) ==
  /\ c \in DOMAIN welcome
  /\ \E joined \in JoinedBy(c) : state' = [state EXCEPT ![c] = joined]
  /\ welcome' = [d \in DOMAIN welcome \ {c} |-> welcome[d]]
  /\ UNCHANGED <<scenario, updates, commit, groupInfo>>

-----------------------------------------------------------------------------
Founding(i) == LeafNode(PackageKey(0, scenario.founders[i]), scenario.founders[i])

FoundingTree ==
  AddLeafNodes([n \in {0} |-> Founding(1)],
               [i \in 1 .. Len(scenario.founders) - 1 |-> Founding(i + 1)])

\* createGroup, a commit that adds the other founders and needs no path, and
\* their joining.
Init ==
  /\ scenario \in Scenarios
  /\ state = [c \in Client |->
                IF c \in ToSet(scenario.founders)
                THEN LET l == CHOOSE i \in LeavesOf(FoundingTree, c) : TRUE
                     IN  Member(1, l, [n \in {LeafToNodeIndex(l)} |-> PackageKey(0, c)], FoundingTree,
                                TreeHashes(FoundingTree, EmptyCache))
                ELSE Outside]
  /\ updates = {}
  /\ commit = [epoch |-> 0, sender |-> 0, external |-> FALSE,
               updates |-> {}, removes |-> {},
               adds |-> [i \in 1 .. Len(scenario.founders) - 1 |-> FoundingTree[2 * i]],
               path |-> NoPath, treeHash |-> FreshHash(FoundingTree, RootOf(FoundingTree)),
               commitSecret |-> 0]
  /\ welcome = <<>>
  /\ groupInfo = [ratchetTree |-> FoundingTree,
                  treeHash    |-> FreshHash(FoundingTree, RootOf(FoundingTree)),
                  signer      |-> 0]

\* The members follow in the order of their leaves.
Turn(c) ==
  \A d \in Client : Following(d) => state[c].leafIndex <= state[d].leafIndex

Next ==
  \E c \in Client :
    \/ CreateUpdateProposal(c)
    \/ CreateCommit(c)
    \/ JoinGroupExternal(c)
    \/ Turn(c) /\ ProcessCommit(c)
    \/ ProcessRemoval(c)
    \/ JoinGroup(c)

Spec == Init /\ [][Next]_vars

-----------------------------------------------------------------------------
KeysOf(c) == {state[c].privateKeys[n] : n \in DOMAIN state[c].privateKeys}

KeysIn(tree) == {tree[n].key : n \in NonBlank(tree)}

Key ==
  LET epochs == 0 .. scenario.maxEpoch
  IN  ({"path"} \X epochs \X Nat) \union ({"update", "package"} \X epochs \X Client)

IsTree(tree) ==
  /\ \E k \in 0 .. Cardinality(Client) : DOMAIN tree = 0 .. 2^(k + 1) - 2
  /\ Leaves(tree) # {}
  /\ \A n \in NonBlank(tree) : tree[n].key \in Key
  /\ \A n \in DOMAIN tree : tree[n].client \in Client <=> n \in Leaves(tree)

TypeOK ==
  /\ DOMAIN state = Client
  /\ \A c \in Client :
       /\ state[c].kind \in {"outside", "member", "removed"}
       /\ state[c].epoch \in 0 .. scenario.maxEpoch
       /\ KeysOf(c) \subseteq Key
       /\ state[c].kind = "member" =>
            /\ IsTree(state[c].ratchetTree)
            /\ DOMAIN state[c].treeHashCache \subseteq DOMAIN state[c].ratchetTree
            /\ LeafToNodeIndex(state[c].leafIndex) \in Leaves(state[c].ratchetTree)
  /\ Epoch \in 1 .. scenario.maxEpoch
  /\ \A u \in updates : u.leafNode.key \in Key
  /\ DOMAIN welcome \subseteq Client
  /\ IsTree(groupInfo.ratchetTree)

(***************************************************************************)
(* A commit that its sender could make can be followed by every member it  *)
(* does not remove, and every client it invites can join: they find their  *)
(* ciphertext and the key it is encrypted to, and arrive at the sender's   *)
(* tree and commit secret, whatever proposals the commit has and whatever  *)
(* the tree went through before (processMessages.ts, applyUpdatePathSecret *)
(* of createCommit.ts).                                                    *)
(***************************************************************************)
EveryMemberCanFollow ==
  /\ \A c \in Client : Following(c) => Processed(c) # {}
  /\ \A c \in DOMAIN welcome : JoinedBy(c) # {}

(***************************************************************************)
(* The tree invariant of TreeKEM: the private key of a parent node is held *)
(* by the members below it that are not unmerged there and by no other, a  *)
(* leaf's by its member; a client without a leaf holds no key of the tree. *)
(***************************************************************************)
Holds(c, tree, n) ==
  /\ n \in DOMAIN state[c].privateKeys
  /\ state[c].privateKeys[n] = tree[n].key

HoldersInTree(tree, n) ==
  {c \in Client :
     \E l \in LeavesOf(tree, c) :
       \/ n = LeafToNodeIndex(l)
       \/ n \in Above(tree, LeafToNodeIndex(l)) /\ l \notin ToSet(tree[n].unmergedLeaves)}

KeyHolders ==
  LET tree == groupInfo.ratchetTree
  IN  /\ \A n \in NonBlank(tree), c \in Client :
           state[c].kind = "member" /\ state[c].epoch = Epoch
             => (Holds(c, tree, n) <=> c \in HoldersInTree(tree, n))
      /\ \A c \in Client :
           KeysOf(c) \intersect KeysIn(tree)
             \subseteq {tree[n].key : n \in {m \in NonBlank(tree) : c \in HoldersInTree(tree, m)}}

(***************************************************************************)
(* The members of an epoch have one and the same tree, the parent hashes   *)
(* included: what the committer made of its own path, every follower       *)
(* rebuilds from the commit and every newcomer is sent (createUpdatePath,  *)
(* applyUpdatePath of updatePath.ts).                                      *)
(***************************************************************************)
MembersAgree ==
  \A c \in Client :
    state[c].kind = "member" /\ state[c].epoch = Epoch
      => state[c].ratchetTree = groupInfo.ratchetTree

(***************************************************************************)
(* The tree hash cache a member keeps from commit to commit and cuts,      *)
(* extends and invalidates as the tree changes (deriveTreeHashCache of     *)
(* createCommit.ts) has no stale hash: what is in it is the hash of the    *)
(* tree it goes with.                                                      *)
(***************************************************************************)
CacheCoherent ==
  \A c \in Client :
    state[c].kind = "member" =>
      \A n \in DOMAIN state[c].treeHashCache :
        state[c].treeHashCache[n] = FreshHash(state[c].ratchetTree, n)

(***************************************************************************)
(* The tree of every epoch is one a newcomer accepts, also by the rules    *)
(* the comment on validateRatchetTree states and its code does not ask for *)
(* in full: an unmerged leaf is a non-blank descendant of the node that    *)
(* lists it.  The lists are sorted, though nothing sorts them.             *)
(***************************************************************************)
TreeIsValid ==
  LET tree == groupInfo.ratchetTree
  IN  /\ ValidateRatchetTree(tree, groupInfo.treeHash)
      /\ \A p \in Parents(tree) :
           LET unmerged == tree[p].unmergedLeaves
           IN  /\ \A i \in DOMAIN unmerged :
                    /\ LeafToNodeIndex(unmerged[i]) \in Leaves(tree)
                    /\ p \in Above(tree, LeafToNodeIndex(unmerged[i]))
               /\ \A i, j \in DOMAIN unmerged : i < j => unmerged[i] < unmerged[j]

(***************************************************************************)
(* Post-compromise security: when a commit with a path updates or removes  *)
(* a member, or is its own, every private key the member had before is of  *)
(* no use any more: none belongs to a node of the new tree.                *)
(***************************************************************************)
Healed(c, message) ==
  /\ state[c].kind = "member" /\ state[c].epoch = message.epoch
  /\ \/ state[c].leafIndex \in message.removes
     \/ \E u \in message.updates : u.leafIndex = state[c].leafIndex
     \/ message.path # NoPath /\ ~message.external /\ message.sender = state[c].leafIndex

CommitHeals ==
  [][commit' # commit =>
       \A c \in Client :
         Healed(c, commit') => KeysOf(c) \intersect KeysIn(groupInfo'.ratchetTree) = {}]_vars
=============================================================================
