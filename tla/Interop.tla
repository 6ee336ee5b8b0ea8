------------------------------- MODULE Interop -------------------------------
(***************************************************************************)
(* The handlers of the interoperability service that create and join the   *)
(* group which resumes another: a branch, or the successor of a group that *)
(* was reinitialized (service.ts, resumption.ts); and the service as a     *)
(* whole, with the properties of its clients.                              *)
(***************************************************************************)
EXTENDS InteropCommits

\* finishReInit: the suspended state goes to the reinits, with a new key package.
FinishReInit(c, e, suspended) ==
  /\ reinits' = [d \in DOMAIN reinits \union {c} |-> IF d = c THEN suspended ELSE reinits[d]]
  /\ entry' = [entry EXCEPT ![c] = [e EXCEPT !.state = suspended, !.pendingNewState = {}]]

HandlePendingReInitCommit(c) ==
  /\ \E commit \in Awaited(c), suspended \in entry[c].pendingNewState :
       /\ commit.content.sender = c
       /\ suspended.groupActiveState = "suspendedPendingReinit"
       /\ FinishReInit(c, entry[c], suspended)
  /\ UNCHANGED <<scenario, psks, keyPackages, resumed, proposals, commits, accepted, welcomes>>

\* HandleReInitCommit, a call of the runner for a commit with a reinit proposal.
HandleReInitCommit(c) ==
  /\ \E commit \in Awaited(c) :
       /\ commit.content.sender # c /\ IsReInit(commit)
       /\ \E e \in {IngestAll(c, References(commit))} :
            \E results \in {ProcessCommit(c, e.state, psks[c], commit)} :
              \/ results = {} /\ Threw(c, e) /\ UNCHANGED reinits
              \/ \E suspended \in results : FinishReInit(c, e, suspended)
  /\ UNCHANGED <<scenario, psks, keyPackages, resumed, proposals, commits, accepted, welcomes>>

-----------------------------------------------------------------------------
\* A resumed group's state at a client, and the state the client resumed from.
Resumed(c, state, old) ==
  resumed' = [d \in DOMAIN resumed \union {c} |->
                IF d = c THEN [state |-> state, from |-> old] ELSE resumed[d]]

\* branchGroup and reinitCreateNewGroup: a new group of the creator alone and a
\* commit that adds the others and refers to the old group's current epoch.
CreateResuming(c, old, usage, groupId, parameters, with) ==
  LET key      == PackageKey(c, groupId)
      newGroup == ClientState(Context(groupId, parameters, 0), [d \in {c} |-> key], key,
                              <<"created", groupId>>, <<>>)
      adds     == SetToSeq(with)
      extra    == [i \in DOMAIN adds |-> Add(adds[i], groupId)]
                    \o <<Psk(Resumption(usage, old.groupContext.groupId, EpochOf(old)))>>
  IN  \E created \in CreateCommit(c, newGroup, {old}, psks[c], extra) :
        /\ Resumed(c, created.newState, old)
        /\ welcomes' = welcomes \union {Welcome(created, newGroup)}

\* joinGroupFromBranch and joinGroupFromReinit: the states joining leads to.
JoinResuming(c, old, welcome) ==
  {ClientState(welcome.groupInfo.groupContext, welcome.groupInfo.ratchetTree,
               PackageKey(c, welcome.groupInfo.groupContext.groupId), secret, <<>>)
     : secret \in WelcomedSecret(welcome, {old}, psks[c])}

WelcomesFor(c, groupId) ==
  {w \in welcomes : c \in w.to /\ w.groupInfo.groupContext.groupId = groupId}

\* The runner branches a group once.
CreateBranch(c) ==
  /\ scenario.branch
  /\ \A d \in DOMAIN resumed : resumed[d].state.groupContext.groupId # "branch"
  /\ c \notin DOMAIN resumed
  /\ \E with \in SUBSET {d \in Client \ {c} : <<d, "branch">> \in keyPackages} :
       CreateResuming(c, entry[c].state, "branch", "branch", entry[c].state.groupContext.parameters, with)
  /\ UNCHANGED <<scenario, entry, psks, keyPackages, reinits, proposals, commits, accepted>>

\* HandleBranch: the key package is taken whether or not joining succeeds.
HandleBranch(c) ==
  /\ <<c, "branch">> \in keyPackages
  /\ keyPackages' = keyPackages \ {<<c, "branch">>}
  /\ \E welcome \in WelcomesFor(c, "branch") :
       \E states \in {JoinResuming(c, entry[c].state, welcome)} :
         \/ states = {} /\ UNCHANGED resumed
         \/ \E state \in states : Resumed(c, state, entry[c].state)
  /\ UNCHANGED <<scenario, entry, psks, reinits, proposals, commits, accepted, welcomes>>

\* ReInitWelcome, of any of the clients that handled the reinit commit, whose
\* new key packages the runner passes on.  The service takes the parameters from
\* the reinit proposal; reinitCreateNewGroup takes any its caller gives.
ReInitWelcome(c, parameters, with) ==
  /\ c \notin DOMAIN resumed /\ welcomes = {}
  /\ scenario.everybody => with \union {c} = DOMAIN entry
  /\ CreateResuming(c, reinits[c], "reinit", reinits[c].reinit.groupId, parameters, with)
  /\ UNCHANGED <<scenario, entry, psks, keyPackages, reinits, proposals, commits, accepted>>

HandleReInitWelcome(c) ==
  /\ c \notin DOMAIN resumed
  /\ \E welcome \in WelcomesFor(c, reinits[c].reinit.groupId) :
       \E state \in JoinResuming(c, reinits[c], welcome) : Resumed(c, state, reinits[c])
  /\ UNCHANGED <<scenario, entry, psks, keyPackages, reinits, proposals, commits, accepted, welcomes>>

-----------------------------------------------------------------------------
\* The first client made the group, with the other members' key packages;
\* CreateKeyPackage has been called for whoever may be added or branch.
FoundingTree(members) == [c \in members |-> PackageKey(c, "group")]

FirstState(c, creator, members) ==
  ClientState(Context("group", "old", 1), FoundingTree(members), PackageKey(c, "group"), <<"founded">>,
              [e \in IF c = creator THEN {0} ELSE {} |-> ResumptionPsk(<<"created", "group">>)])

Init ==
  /\ scenario \in Scenarios
  /\ entry = [c \in scenario.members |-> Inserted(FirstState(c, scenario.creator, scenario.members))]
  /\ psks = [c \in Client |-> IF c \in scenario.withoutPsk THEN <<>> ELSE PskStore]
  /\ keyPackages = ((Client \ scenario.members) \X {"group"})
                     \union (IF scenario.branch THEN scenario.members \X {"branch"} ELSE {})
  /\ reinits = <<>> /\ resumed = <<>>
  /\ proposals = {} /\ commits = {} /\ accepted = <<>> /\ welcomes = {}

Next ==
  \/ \E c \in DOMAIN entry :
       \/ Propose(c) \/ UpdateProposal(c)
       \/ Commit(c) \/ HandleCommit(c) \/ HandlePendingCommit(c)
       \/ HandlePendingReInitCommit(c) \/ HandleReInitCommit(c)
       \/ CreateBranch(c) \/ HandleBranch(c)
  \/ \E c \in Client : StorePSK(c) \/ JoinGroup(c)
  \/ \E c \in DOMAIN reinits :
       \/ \E parameters \in scenario.parameters, with \in SUBSET (DOMAIN reinits \ {c}) :
            ReInitWelcome(c, parameters, with)
       \/ HandleReInitWelcome(c)
  \/ \E commit \in commits : Accept(commit)

Spec == Init /\ [][Next]_vars

\* The runner stores the PSKs, gives everybody the accepted commit and whoever
\* can resume the Welcome, and asks one client for it.
Fairness ==
  \A c \in Client :
    /\ WF_vars(StorePSK(c))
    /\ WF_vars(c \in DOMAIN entry /\ HandleCommit(c))
    /\ WF_vars(c \in DOMAIN entry /\ HandlePendingCommit(c))
    /\ WF_vars(c \in DOMAIN entry /\ HandleReInitCommit(c))
    /\ WF_vars(c \in DOMAIN entry /\ HandlePendingReInitCommit(c))
    /\ WF_vars(c \in DOMAIN reinits /\ HandleReInitWelcome(c))
    /\ WF_vars(/\ c \in DOMAIN reinits
               /\ \E parameters \in scenario.parameters, with \in SUBSET (DOMAIN reinits \ {c}) :
                    ReInitWelcome(c, parameters, with))

FairSpec == Spec /\ Fairness

-----------------------------------------------------------------------------
State ==
  {entry[c].state : c \in DOMAIN entry} \union (UNION {entry[c].pendingNewState : c \in DOMAIN entry})
    \union {resumed[c].state : c \in DOMAIN resumed}

TypeOK ==
  /\ DOMAIN entry \subseteq Client /\ DOMAIN reinits \subseteq DOMAIN entry /\ DOMAIN resumed \subseteq DOMAIN entry
  /\ \A s \in State :
       /\ DOMAIN s.ratchetTree \subseteq Client
       /\ EpochOf(s) \in 1 .. scenario.maxEpoch
       /\ Len(s.groupContext.confirmedTranscriptHash) \in {EpochOf(s), EpochOf(s) - 1}
       /\ s.unappliedProposals \subseteq ProposalsOf(EpochOf(s))
       /\ DOMAIN s.historicalReceiverData \subseteq 0 .. EpochOf(s) - 1
       /\ s.groupActiveState = "suspendedPendingReinit" <=> s.reinit # NoReinit
  /\ \A c \in DOMAIN entry : entry[c].ingestedBytes \subseteq proposals
  /\ \A c \in DOMAIN reinits : reinits[c].groupActiveState = "suspendedPendingReinit"
  /\ accepted \in Seq(commits)
  /\ keyPackages \subseteq Client \X {"group", "branch"}

(***************************************************************************)
(* The state a client's own commit leads to waits beside the state it was  *)
(* made from, through everything the client ingests or proposes meanwhile, *)
(* and never survives into another epoch: it is always a successor of the  *)
(* state beside it (pendingNewState of state.ts).                          *)
(***************************************************************************)
PendingIsSuccessor ==
  \A c \in DOMAIN entry : \A new \in entry[c].pendingNewState :
    LET context == entry[c].state.groupContext
        next    == new.groupContext.confirmedTranscriptHash
    IN  /\ new.groupContext.epoch = context.epoch + 1
        /\ SubSeq(next, 1, Len(next) - 1) = context.confirmedTranscriptHash

(***************************************************************************)
(* The private key of the leaf that the tree has for a client is never     *)
(* lost: the client holds it, or keeps it with its Update proposal.        *)
(* createMessage.ts (CreateUpdateProposalResult) asks that the new key be  *)
(* installed only with the commit that applies the proposal, since others  *)
(* leave the leaf unchanged.                                               *)
(***************************************************************************)
LeafKeyKept ==
  \A c \in DOMAIN entry :
    entry[c].state.ratchetTree[c] \in {entry[c].state.privateKey} \union entry[c].pendingLeafUpdate

(***************************************************************************)
(* With no Update proposal waiting, a client holds the key of its leaf.    *)
(***************************************************************************)
HoldsLeafKey ==
  \A c \in DOMAIN entry :
    entry[c].pendingLeafUpdate = {} => entry[c].state.privateKey = entry[c].state.ratchetTree[c]

(***************************************************************************)
(* A client given the accepted commit with the proposals it refers to can  *)
(* handle it (HandleCommit), but for four reasons: the key of its leaf is  *)
(* gone, as by a second Update proposal; a proposal was ingested by a call *)
(* that failed later, and is never processed again; the sender proposed    *)
(* something after it made the commit, under the same generation; or a PSK *)
(* the commit refers to is not known.                                      *)
(***************************************************************************)
LeafKeyLost(c, commit) ==
  /\ commit.content.path # NoPath
  /\ commit.content.path.encryptedTo[c] \notin {entry[c].state.privateKey} \union entry[c].pendingLeafUpdate

IngestedInVain(c, commit) ==
  (References(commit) \intersect entry[c].ingestedBytes) \ entry[c].state.unappliedProposals # {}

GenerationUsed(e, commit) == <<commit.content.sender, commit.generation>> \in e.state.opened

PskMissing(c, commit) ==
  LET ids == PskIds(commit.content.proposals)
  IN  \E i \in DOMAIN ids : FindPsk({entry[c].state}, psks[c], ids[i]) = {}

StuckForAReason ==
  \A c \in DOMAIN entry : \A commit \in Awaited(c) :
    commit.content.sender # c =>
      \A e \in {IngestAll(c, References(commit))} :
        \/ ProcessCommitWithPendingLeaf(c, e, commit) # {}
        \/ LeafKeyLost(c, commit)
        \/ IngestedInVain(c, commit)
        \/ GenerationUsed(e, commit)
        \/ PskMissing(c, commit)

(***************************************************************************)
(* No two private proposals of a client use one generation: every handler  *)
(* stores the state its message left, also while a commit is pending.  (A  *)
(* commit does share its generation with the next proposal.)               *)
(***************************************************************************)
ProposalsHaveOwnGeneration ==
  scenario.private =>
    \A p, q \in proposals :
      p.epoch = q.epoch /\ p.sender = q.sender /\ p.generation = q.generation => p = q

(***************************************************************************)
(* The resumption PSK a client finds for an epoch is the one of that epoch,*)
(* the same for all its members, whoever committed and whoever followed;   *)
(* and it finds those of the configured number of epochs it has been in    *)
(* (makePskIndex, addHistoricalReceiverData).                              *)
(***************************************************************************)
JoinedIn(c) ==
  IF c \in scenario.members THEN 1
  ELSE CHOOSE e \in 2 .. Len(accepted) + 1 : c \in accepted[e - 1].welcome.to

PskOfItsEpoch ==
  \A c \in DOMAIN entry :
    \A e \in 1 .. EpochOf(entry[c].state) :
      \A found \in {FindPsk({entry[c].state}, <<>>, Resumption("application", "group", e))} :
        /\ e >= JoinedIn(c) /\ e + RetainKeysForEpochs >= EpochOf(entry[c].state) => found # {}
        /\ e > 1 => found \subseteq {ResumptionPsk(accepted[e - 1].confirmationTag[2])}

(***************************************************************************)
(* The members of a resumed group all come from one epoch of the group it  *)
(* resumes and share its secrets, although each joins from wherever it is  *)
(* by then (joinGroupInternal).                                            *)
(***************************************************************************)
FromOneEpoch ==
  \A c, d \in DOMAIN resumed :
    resumed[c].state.groupContext.groupId = resumed[d].state.groupContext.groupId =>
      /\ resumed[c].from.epochSecret = resumed[d].from.epochSecret
      /\ resumed[c].state.epochSecret = resumed[d].state.epochSecret

(***************************************************************************)
(* Whoever joins the successor of a reinitialized group joins one with the *)
(* group id and the parameters that the commit agreed on, whatever its     *)
(* creator chose.                                                          *)
(***************************************************************************)
ReinitAsAgreed ==
  \A c \in DOMAIN resumed \intersect DOMAIN reinits :
    LET context == resumed[c].state.groupContext
    IN  /\ context.groupId # "branch"
        /\ \E w \in welcomes : c \in w.to /\ w.groupInfo.groupContext.groupId = context.groupId
        => context.groupId = ReInit.reinit.groupId /\ context.parameters = ReInit.reinit.parameters

(***************************************************************************)
(* When all are asked to come along, a reinit commit that is accepted ends *)
(* with every member in the new group.                                     *)
(***************************************************************************)
ReinitCompletes ==
  (scenario.everybody /\ \E i \in DOMAIN accepted : IsReInit(accepted[i])) ~> DOMAIN entry \subseteq DOMAIN resumed
=============================================================================
