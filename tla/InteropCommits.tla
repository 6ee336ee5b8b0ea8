--------------------------- MODULE InteropCommits ---------------------------
(***************************************************************************)
(* The interoperability service (src/interop): a store of groups, key      *)
(* packages, reinits and PSKs, and a handler per call, each of which takes *)
(* a group's state from the store, asks the library for the next one and   *)
(* puts it back.  The store keeps with each group the state its own commit *)
(* will lead to, the key pair of its own Update proposal, and which        *)
(* messages it has ingested.                                               *)
(*                                                                         *)
(* Every client is a service of its own; the calls on it come one after    *)
(* the other.  The test runner (external) is the delivery service: it      *)
(* accepts one commit per epoch, asks each client for one commit per       *)
(* epoch, and gives everybody the accepted commit with the proposals it    *)
(* refers to.  The tree has a path secret for every other leaf: committers *)
(* sit next to each other, so that a path secret is encrypted to leaves.   *)
(***************************************************************************)
EXTENDS KeySchedule, SequencesExt

CONSTANTS
  Client,    \* the clients there are
  Scenarios  \* what the test runner asks for: see ScenarioAssumption

\* A scenario says who is a member at first, who created the group, who commits
\* and who has yet to store the PSK; which kinds of proposals and whether a
\* branch are asked for; whether handshake messages are private; which parameters
\* the creator of a reinitialized group chooses and whether it takes everybody
\* along; and bounds the epochs and the proposals.
ASSUME ScenarioAssumption ==
  \A s \in Scenarios :
    /\ s.committers \union {s.creator} \subseteq s.members
    /\ s.members \union s.withoutPsk \subseteq Client
    /\ s.byReference \union s.byValue \subseteq {"update", "external", "resumption", "add", "reinit"}
    /\ s.private \in BOOLEAN /\ s.branch \in BOOLEAN /\ s.everybody \in BOOLEAN
    /\ s.parameters \subseteq {"old", "agreed", "other"}
    /\ s.maxEpoch \in Nat \ {0} /\ s.maxProposals \in Nat

ASSUME ClientAssumption == IsFiniteSet(Client)

VARIABLES
  scenario,     \* the one that is played
  entry,        \* store.groups, the entry of the group at each client that has it
  psks,         \* store.psks of each client
  keyPackages,  \* store.pendingKeyPackages of all clients
  reinits,      \* store.reinits of each client that handled a reinit commit
  resumed,      \* the state of the group each client created or joined to resume
  proposals, commits,  \* the messages sent
  accepted,     \* the commit the delivery service accepted for each epoch
  welcomes      \* the Welcomes sent

vars == <<scenario, entry, psks, keyPackages, reinits, resumed, proposals, commits, accepted, welcomes>>

-----------------------------------------------------------------------------
PackageKey(c, group) == <<"package", group, c>>
UpdateKey(c, e, n) == <<"update", c, e, n>>
PathKey(c, group, e) == <<"path", c, group, e>>

NoReinit == [groupId |-> "none", parameters |-> "old"]

\* A state, of the tree only the keys of the leaves and of the private keys only
\* the own leaf's; opened are the handshake generations used of each sender.
ClientState(context, tree, privateKey, epochSecret, history) ==
  [groupContext |-> context, ratchetTree |-> tree, privateKey |-> privateKey,
   unappliedProposals |-> {}, generation |-> 0, opened |-> {},
   epochSecret |-> epochSecret, historicalReceiverData |-> history,
   groupActiveState |-> "active", reinit |-> NoReinit]

Context(groupId, parameters, e) ==
  [groupId |-> groupId, parameters |-> parameters, epoch |-> e, confirmedTranscriptHash |-> <<>>]

\* insertGroup
Inserted(state) == [state |-> state, pendingNewState |-> {}, pendingLeafUpdate |-> {}, ingestedBytes |-> {}]

EpochOf(state) == state.groupContext.epoch

-----------------------------------------------------------------------------
\* The proposals of a commit, with their senders; one by reference has its message.
Item(proposal, sender, reference) == [proposal |-> proposal, sender |-> sender, reference |-> reference]

KindsOf(items) == {items[i].proposal.kind : i \in DOMAIN items}

\* groupProposals: the places of the proposals of a kind.
OfKind(items, kind) == {i \in DOMAIN items : items[i].proposal.kind = kind}

\* The PSK ids in the order of their proposals.
PskIds(items) ==
  LET places == OfKind(items, "psk")
      Nth(n) == CHOOSE i \in places : Cardinality({j \in places : j <= i}) = n
  IN  [n \in 1 .. Cardinality(places) |-> items[Nth(n)].proposal.id]

\* bundleAllProposals: everything pending, then what the caller adds.
BundleAllProposals(state, sender, extra) ==
  LET pending == SetToSeq(state.unappliedProposals)
  IN  [i \in DOMAIN pending |-> Item(pending[i].proposal, pending[i].sender, {pending[i]})]
        \o [i \in DOMAIN extra |-> Item(extra[i], sender, {})]

\* validateReinit and what of validateProposals concerns these kinds.
ValidateProposals(items, committer, tree) ==
  IF "reinit" \in KindsOf(items) THEN Len(items) = 1
  ELSE LET updates == OfKind(items, "update")
           adds    == OfKind(items, "add")
       IN  /\ \A i \in updates : items[i].sender # committer
           /\ \A i, j \in updates : items[i].sender = items[j].sender => i = j
           /\ \A i, j \in adds : items[i].proposal.client = items[j].proposal.client => i = j
           /\ \A i \in adds : items[i].proposal.client \notin DOMAIN tree

\* applyTreeMutations: the leaves after the updates and adds.
ApplyTreeMutations(tree, items) ==
  LET Updated(c) == {i \in OfKind(items, "update") : items[i].sender = c}
      Added(c)   == {i \in OfKind(items, "add") : items[i].proposal.client = c}
      Key(at)    == items[CHOOSE i \in at : TRUE].proposal.key
  IN  [c \in DOMAIN tree \union {items[i].proposal.client : i \in OfKind(items, "add")} |->
         IF c \notin DOMAIN tree THEN Key(Added(c))
         ELSE IF Updated(c) # {} THEN Key(Updated(c))
         ELSE tree[c]]

\* applyProposals: what the commit of these proposals comes to, or nothing.
ApplyProposals(state, items, committer, pskState, externalPsks) ==
  {[tree            |-> ApplyTreeMutations(state.ratchetTree, items),
    pskIds          |-> PskIds(items),
    pskSecret       |-> pskSecret,
    needsUpdatePath |-> items = <<>> \/ KindsOf(items) \ {"add", "psk", "reinit"} # {},
    reinit          |-> {items[i].proposal.reinit : i \in OfKind(items, "reinit")}]
     : pskSecret \in IF ValidateProposals(items, committer, state.ratchetTree)
                     THEN AccumulatePskSecret(PskIds(items), pskState, externalPsks)
                     ELSE {}}

EpochStartedWithPending(state, applied, content, tree, privateKey) ==  \* mutant: pending proposals survive
  LET context == NextEpochContext(state.groupContext, content)
      joiner  == ExtractJoinerSecret(context, InitSecret(state.epochSecret), content.path)
  IN  [ClientState(context, tree, privateKey, ExtractEpochSecret(context, joiner, applied.pskSecret),
                   AddHistoricalReceiverData(state))
        EXCEPT !.unappliedProposals = state.unappliedProposals,
               !.groupActiveState = IF applied.reinit = {} THEN "active" ELSE "suspendedPendingReinit",
               !.reinit = IF applied.reinit = {} THEN NoReinit ELSE CHOOSE r \in applied.reinit : TRUE]

\* initializeEpoch and the state it leads to.
EpochStarted(state, applied, content, tree, privateKey) ==
  LET context == NextEpochContext(state.groupContext, content)
      joiner  == ExtractJoinerSecret(context, InitSecret(state.epochSecret), content.path)
  IN  [ClientState(context, tree, privateKey, ExtractEpochSecret(context, joiner, applied.pskSecret),
                   AddHistoricalReceiverData(state))
        EXCEPT !.groupActiveState = IF applied.reinit = {} THEN "active" ELSE "suspendedPendingReinit",
               !.reinit = IF applied.reinit = {} THEN NoReinit ELSE CHOOSE r \in applied.reinit : TRUE]

NoPath == [leafKey |-> <<>>, encryptedTo |-> <<>>]

\* createCommit by c: the commit and the state it leads to, nothing when it throws.
CreateCommit(c, state, pskState, externalPsks, extra) ==
  LET e       == EpochOf(state)
      items   == BundleAllProposals(state, c, extra)
      newKey  == PathKey(c, state.groupContext.groupId, e)
      Others(applied) == DOMAIN state.ratchetTree \ {c}
      PathOf(applied) ==
        IF applied.needsUpdatePath
        THEN [leafKey |-> newKey, encryptedTo |-> [d \in Others(applied) |-> applied.tree[d]]]
        ELSE NoPath
      Committed(applied, path) ==
        LET content == [epoch |-> e, sender |-> c, proposals |-> items, path |-> path]
        IN  {[content   |-> content,
              newState  |-> new,
              added     |-> DOMAIN applied.tree \ DOMAIN state.ratchetTree,
              pskIds    |-> applied.pskIds,
              pskSecret |-> applied.pskSecret]
               : new \in {IF path = NoPath
                          THEN EpochStarted(state, applied, content, applied.tree, state.privateKey)
                          ELSE EpochStarted(state, applied, content,
                                            [applied.tree EXCEPT ![c] = newKey], newKey)}}
  IN  UNION {Committed(applied, PathOf(applied))
             : applied \in {a \in ApplyProposals(state, items, c, pskState, externalPsks) :
                              state.groupActiveState = "active"}}

\* createWelcome
Welcome(created, state) ==
  LET context == created.newState.groupContext
      joiner  == ExtractJoinerSecret(context, InitSecret(state.epochSecret), created.content.path)
  IN  [to           |-> created.added,
       joinerSecret |-> joiner,
       psks         |-> created.pskIds,
       sealedWith   |-> ExtractWelcomeSecret(joiner, created.pskSecret),
       groupInfo    |-> [groupContext |-> context, ratchetTree |-> created.newState.ratchetTree]]

\* processCommit by c: the next state, nothing when it throws.  A private commit
\* needs a generation of its sender that is not used; a path secret is encrypted
\* to the leaf key the tree has after the proposals.
ProcessCommit(c, state, externalPsks, commit) ==
  LET content == commit.content
      path    == content.path
      Followed(applied) ==
        EpochStarted(state, applied, content,
                     IF path = NoPath THEN applied.tree ELSE [applied.tree EXCEPT ![content.sender] = path.leafKey],
                     state.privateKey)
      Decrypted(applied) ==
        /\ applied.needsUpdatePath => path # NoPath
        /\ path # NoPath => state.privateKey = path.encryptedTo[c]
      Opened ==
        /\ content.epoch = EpochOf(state)
        /\ <<content.sender, commit.generation>> \notin state.opened
        /\ \A i \in DOMAIN content.proposals : content.proposals[i].reference \subseteq state.unappliedProposals
  IN  UNION {{new \in {Followed(applied)} : ConfirmationTag(new.epochSecret) = commit.confirmationTag}
             : applied \in {a \in IF Opened
                                  THEN ApplyProposals(state, content.proposals, content.sender, {state}, externalPsks)
                                  ELSE {} : Decrypted(a)}}

\* processProposal: the messages are opened and pending from then on.
ProcessProposals(state, messages) ==
  [state EXCEPT !.unappliedProposals = @ \union messages,
                !.opened = @ \union IF scenario.private THEN {<<m.sender, m.generation>> : m \in messages} ELSE {}]

CanOpen(state, message) ==
  /\ message.epoch = EpochOf(state)
  /\ <<message.sender, message.generation>> \notin state.opened

-----------------------------------------------------------------------------
\* The messages tryIngest processes, one after the other: those of others that can
\* be opened, and of private ones under one generation the first.
Ingestible(c, messages) ==
  LET state    == entry[c].state
      Openable == {m \in messages \ entry[c].ingestedBytes : m.sender # c /\ CanOpen(state, m)}
      First(m) == CHOOSE x \in Openable : x.sender = m.sender /\ x.generation = m.generation
  IN  {m \in Openable : scenario.private => m = First(m)}

\* tryIngest of each message: it is marked as ingested when it is an own one or
\* has been processed; an error is swallowed.
IngestAll(c, messages) ==
  LET processed == Ingestible(c, messages)
  IN  [entry[c] EXCEPT !.ingestedBytes = @ \union {m \in messages : m.sender = c} \union processed,
                       !.state = ProcessProposals(@, processed)]

ProcessCommitWithNewKeyOnly(c, e, commit) ==  \* mutant: no second try with the key in use
  LET keys == IF e.pendingLeafUpdate = {} THEN {e.state.privateKey} ELSE e.pendingLeafUpdate
  IN  UNION {ProcessCommit(c, [e.state EXCEPT !.privateKey = key], psks[c], commit) : key \in keys}

\* processCommitWithPendingLeaf: with the pending key first, then without.
ProcessCommitWithPendingLeaf(c, e, commit) ==
  LET WithKeys(keys) ==
        UNION {ProcessCommit(c, [e.state EXCEPT !.privateKey = key], psks[c], commit) : key \in keys}
      withNewKey == WithKeys(e.pendingLeafUpdate)
  IN  IF withNewKey # {} THEN withNewKey ELSE ProcessCommit(c, e.state, psks[c], commit)

ApplyPendingLeafUpdateForgetting(c, e, newState) ==  \* mutant: the pending key dropped with every commit
  [e EXCEPT !.state = IF newState.ratchetTree[c] \in e.pendingLeafUpdate
                      THEN [newState EXCEPT !.privateKey = newState.ratchetTree[c]]
                      ELSE newState,
            !.pendingLeafUpdate = {},
            !.pendingNewState = {}]

ApplyPendingLeafUpdateOnly(c, e, newState) ==  \* mutant: pendingNewState not cleared
  IF newState.ratchetTree[c] \in e.pendingLeafUpdate
  THEN [e EXCEPT !.state = [newState EXCEPT !.privateKey = newState.ratchetTree[c]],
                 !.pendingLeafUpdate = {}]
  ELSE [e EXCEPT !.state = newState]

\* applyPendingLeafUpdate and the updateGroup that follows it.
ApplyPendingLeafUpdate(c, e, newState) ==
  IF newState.ratchetTree[c] \in e.pendingLeafUpdate
  THEN [e EXCEPT !.state = [newState EXCEPT !.privateKey = newState.ratchetTree[c]],
                 !.pendingLeafUpdate = {},
                 !.pendingNewState = {}]
  ELSE [e EXCEPT !.state = newState, !.pendingNewState = {}]

\* A call that throws leaves the store as it was, but for the set of ingested
\* messages, which the entry before and after share.
Threw(c, e) == entry' = [entry EXCEPT ![c].ingestedBytes = e.ingestedBytes]

-----------------------------------------------------------------------------
ProposalsOf(e) == {p \in proposals : p.epoch = e}

ReInit == [kind |-> "reinit", reinit |-> [groupId |-> "new", parameters |-> "agreed"]]
Psk(id) == [kind |-> "psk", id |-> id]
Add(d, groupId) == [kind |-> "add", client |-> d, key |-> PackageKey(d, groupId)]

\* The proposals of these kinds a client can be asked for, but for updates.
Requests(kinds, state) ==
  {ReInit : k \in kinds \intersect {"reinit"}}
    \union {Psk(External("psk")) : k \in kinds \intersect {"external"}}
    \union {Psk(Resumption("application", "group", e)) :
              e \in IF "resumption" \in kinds THEN 1 .. EpochOf(state) ELSE {}}
    \union {Add(d, "group") : d \in IF "add" \in kinds THEN Client \ DOMAIN state.ratchetTree ELSE {}}

MakeProposalUnsaved(c, proposal, pending) ==  \* mutant: the advanced secret tree not stored
  LET state   == entry[c].state
      message == [epoch |-> EpochOf(state), sender |-> c, generation |-> state.generation, proposal |-> proposal]
  IN  /\ EpochOf(state) < scenario.maxEpoch
      /\ Cardinality(proposals) < scenario.maxProposals
      /\ proposals' = proposals \union {message}
      /\ entry' = [entry EXCEPT ![c].state.unappliedProposals = @ \union {message},
                                ![c].pendingLeafUpdate = pending]
      /\ UNCHANGED <<scenario, psks, keyPackages, reinits, resumed, commits, accepted, welcomes>>

\* createProposal: the sender keeps the proposal, and a private one uses up a
\* generation.  A PSK is proposed once by a client, its nonce being left out.
MakeProposal(c, proposal, pending) ==
  LET state   == entry[c].state
      message == [epoch |-> EpochOf(state), sender |-> c, generation |-> state.generation, proposal |-> proposal]
  IN  /\ EpochOf(state) < scenario.maxEpoch
      /\ Cardinality(proposals) < scenario.maxProposals
      /\ \A p \in ProposalsOf(EpochOf(state)) : ~(p.sender = c /\ p.proposal = proposal)
      /\ proposals' = proposals \union {message}
      /\ entry' = [entry EXCEPT ![c].state.unappliedProposals = @ \union {message},
                                ![c].state.generation = IF scenario.private THEN @ + 1 ELSE @,
                                ![c].pendingLeafUpdate = pending]
      /\ UNCHANGED <<scenario, psks, keyPackages, reinits, resumed, commits, accepted, welcomes>>

\* AddProposal, ExternalPSKProposal, ResumptionPSKProposal, ReInitProposal
Propose(c) ==
  \E proposal \in Requests(scenario.byReference, entry[c].state) :
    MakeProposal(c, proposal, entry[c].pendingLeafUpdate)

\* UpdateProposal: the new key pair takes the place of one that is pending.
UpdateProposal(c) ==
  /\ "update" \in scenario.byReference
  /\ LET e   == EpochOf(entry[c].state)
         key == UpdateKey(c, e, Cardinality({p \in ProposalsOf(e) : p.sender = c}))
     IN  MakeProposal(c, [kind |-> "update", key |-> key], {key})

PskStore == [i \in {"psk"} |-> "value"]

StorePSK(c) ==
  /\ psks[c] = <<>>
  /\ psks' = [psks EXCEPT ![c] = PskStore]
  /\ UNCHANGED <<scenario, entry, keyPackages, reinits, resumed, proposals, commits, accepted, welcomes>>

\* Commit and ReInitCommit: what is given by reference is ingested, everything
\* pending is committed; the state after it waits beside the one before.
Commit(c) ==
  /\ c \in scenario.committers /\ EpochOf(entry[c].state) < scenario.maxEpoch
  /\ \A commit \in commits : ~(commit.content.sender = c /\ commit.content.epoch = EpochOf(entry[c].state))
  /\ \E byReference \in SUBSET {p \in ProposalsOf(EpochOf(entry[c].state)) : p.sender # c},
        extra \in {<<>>} \union {<<p>> : p \in Requests(scenario.byValue, entry[c].state)} :
       \E e \in {IngestAll(c, byReference)} :
         \E results \in {CreateCommit(c, e.state, {e.state}, psks[c], extra)} :
           \/ /\ results = {}
              /\ Threw(c, e)
              /\ UNCHANGED commits
           \/ \E created \in results :
                /\ entry' = [entry EXCEPT ![c] = [e EXCEPT !.pendingNewState = {created.newState}]]
                /\ commits' = commits \union
                     {[content         |-> created.content,
                       generation      |-> e.state.generation,
                       confirmationTag |-> ConfirmationTag(created.newState.epochSecret),
                       welcome         |-> Welcome(created, e.state)]}
  /\ UNCHANGED <<scenario, psks, keyPackages, reinits, resumed, proposals, accepted, welcomes>>

\* The delivery service accepts one commit of the newest epoch.
Accept(commit) ==
  /\ commit.content.epoch = Len(accepted) + 1
  /\ accepted' = Append(accepted, commit)
  /\ UNCHANGED <<scenario, entry, psks, keyPackages, reinits, resumed, proposals, commits, welcomes>>

\* The accepted commit that ends the epoch client c is in.
Awaited(c) ==
  {accepted[e] : e \in {EpochOf(entry[c].state)} \intersect DOMAIN accepted}

IsReInit(commit) == "reinit" \in KindsOf(commit.content.proposals)

References(commit) ==
  UNION {commit.content.proposals[i].reference : i \in DOMAIN commit.content.proposals}

\* HandleCommit, with all proposals the commit refers to.
HandleCommit(c) ==
  /\ \E commit \in Awaited(c) :
       /\ commit.content.sender # c /\ ~IsReInit(commit)
       /\ \E e \in {IngestAll(c, References(commit))} :
            \E results \in {ProcessCommitWithPendingLeaf(c, e, commit)} :
              \/ results = {} /\ Threw(c, e)
              \/ \E new \in results : entry' = [entry EXCEPT ![c] = ApplyPendingLeafUpdate(c, e, new)]
  /\ UNCHANGED <<scenario, psks, keyPackages, reinits, resumed, proposals, commits, accepted, welcomes>>

HandlePendingCommit(c) ==
  /\ \E commit \in Awaited(c), new \in entry[c].pendingNewState :
       /\ commit.content.sender = c /\ ~IsReInit(commit)
       /\ entry' = [entry EXCEPT ![c] = ApplyPendingLeafUpdate(c, @, new)]
  /\ UNCHANGED <<scenario, psks, keyPackages, reinits, resumed, proposals, commits, accepted, welcomes>>

\* JoinGroup: the key package is taken whether or not joining succeeds.
JoinGroup(c) ==
  /\ <<c, "group">> \in keyPackages
  /\ keyPackages' = keyPackages \ {<<c, "group">>}
  /\ \E e \in DOMAIN accepted :
       /\ c \in accepted[e].welcome.to
       /\ \E welcome \in {accepted[e].welcome} :
            \E secrets \in {WelcomedSecret(welcome, {}, psks[c])} :
              \/ secrets = {} /\ UNCHANGED entry
              \/ \E secret \in secrets :
                   entry' = [d \in DOMAIN entry \union {c} |->
                               IF d = c
                               THEN Inserted(ClientState(welcome.groupInfo.groupContext, welcome.groupInfo.ratchetTree,
                                                         PackageKey(c, "group"), secret, <<>>))
                               ELSE entry[d]]
  /\ UNCHANGED <<scenario, psks, reinits, resumed, proposals, commits, accepted, welcomes>>
==============================================================================
