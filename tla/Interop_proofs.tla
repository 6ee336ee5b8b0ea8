---------------------------- MODULE Interop_proofs ----------------------------
(***************************************************************************)
(* Proofs about Interop, for every set of clients and scenarios: what the  *)
(* states in the stores of the services are worth after any calls.         *)
(***************************************************************************)
EXTENDS Interop, FiniteSetTheorems, SequenceTheorems, TLAPS

-----------------------------------------------------------------------------
(* The records the stores hold.  Their secrets are terms of any depth, so   *)
(* that there is no set of them; a record is known by its fields.          *)

\* A confirmed transcript hash: the commits, one after the other.
IsTranscript(h) == h \in Seq({h[i] : i \in DOMAIN h})

IsContext(x) ==
  /\ x = [groupId |-> x.groupId, parameters |-> x.parameters, epoch |-> x.epoch,
          confirmedTranscriptHash |-> x.confirmedTranscriptHash]
  /\ x.epoch \in Nat /\ IsTranscript(x.confirmedTranscriptHash)

IsClientState(s) ==
  /\ s = [groupContext |-> s.groupContext, ratchetTree |-> s.ratchetTree, privateKey |-> s.privateKey,
          unappliedProposals |-> s.unappliedProposals, generation |-> s.generation, opened |-> s.opened,
          epochSecret |-> s.epochSecret, historicalReceiverData |-> s.historicalReceiverData,
          groupActiveState |-> s.groupActiveState, reinit |-> s.reinit]
  /\ IsContext(s.groupContext)

IsEntry(e) ==
  /\ e = [state |-> e.state, pendingNewState |-> e.pendingNewState,
          pendingLeafUpdate |-> e.pendingLeafUpdate, ingestedBytes |-> e.ingestedBytes]
  /\ IsClientState(e.state)

\* s has the fields of t, but for the proposals that are pending and the
\* generations that are used.
SameButPending(s, t) ==
  /\ IsClientState(s)
  /\ s.groupContext = t.groupContext /\ s.ratchetTree = t.ratchetTree /\ s.privateKey = t.privateKey
  /\ s.epochSecret = t.epochSecret /\ s.historicalReceiverData = t.historicalReceiverData
  /\ s.groupActiveState = t.groupActiveState /\ s.reinit = t.reinit

LEMMA ProcessedProposals ==
  ASSUME NEW s, IsClientState(s), NEW messages
  PROVE  /\ SameButPending(ProcessProposals(s, messages), s)
         /\ ProcessProposals(s, messages).unappliedProposals = s.unappliedProposals \union messages
         /\ ProcessProposals(s, messages).generation = s.generation
<1> DEFINE new == ProcessProposals(s, messages)
           opened == s.opened \union IF scenario.private THEN {<<m.sender, m.generation>> : m \in messages} ELSE {}
<1>1. new = [groupContext |-> s.groupContext, ratchetTree |-> s.ratchetTree, privateKey |-> s.privateKey,
             unappliedProposals |-> s.unappliedProposals \union messages, generation |-> s.generation,
             opened |-> opened, epochSecret |-> s.epochSecret,
             historicalReceiverData |-> s.historicalReceiverData,
             groupActiveState |-> s.groupActiveState, reinit |-> s.reinit]
  <2> HIDE DEF opened
  <2>1. new = [s EXCEPT !.unappliedProposals = s.unappliedProposals \union messages, !.opened = opened]
    BY DEF ProcessProposals, opened
  <2> HIDE DEF new
  <2> QED
    BY <2>1 DEF IsClientState
<1> HIDE DEF new, opened
<1> QED
  BY <1>1 DEF SameButPending, IsClientState, new

\* A client that tries another key changes nothing else.
WithKey(s, key) == [s EXCEPT !.privateKey = key]

LEMMA WithPrivateKey ==
  ASSUME NEW s, IsClientState(s), NEW key, NEW t, t = WithKey(s, key)
  PROVE  /\ IsClientState(t) /\ t.privateKey = key
         /\ t.groupContext = s.groupContext /\ t.ratchetTree = s.ratchetTree
         /\ t.unappliedProposals = s.unappliedProposals /\ t.generation = s.generation
         /\ t.epochSecret = s.epochSecret /\ t.historicalReceiverData = s.historicalReceiverData
         /\ t.groupActiveState = s.groupActiveState /\ t.reinit = s.reinit
<1>1. t = [groupContext |-> s.groupContext, ratchetTree |-> s.ratchetTree, privateKey |-> key,
           unappliedProposals |-> s.unappliedProposals, generation |-> s.generation,
           opened |-> s.opened, epochSecret |-> s.epochSecret,
           historicalReceiverData |-> s.historicalReceiverData,
           groupActiveState |-> s.groupActiveState, reinit |-> s.reinit]
  BY DEF IsClientState, WithKey
<1> QED
  BY <1>1 DEF IsClientState

LEMMA WithSameKey ==
  ASSUME NEW s, IsClientState(s)
  PROVE  WithKey(s, s.privateKey) = s
BY DEF IsClientState, WithKey

\* tryIngest.
LEMMA Ingested ==
  ASSUME NEW c, IsEntry(entry[c]), NEW messages
  PROVE  LET e == IngestAll(c, messages)
         IN  /\ IsEntry(e)
             /\ SameButPending(e.state, entry[c].state) /\ e.state.generation = entry[c].state.generation
             /\ e.pendingNewState = entry[c].pendingNewState
             /\ e.pendingLeafUpdate = entry[c].pendingLeafUpdate
             /\ e.ingestedBytes \subseteq entry[c].ingestedBytes \union messages
             /\ entry[c].state.unappliedProposals \subseteq e.state.unappliedProposals
             /\ \A p \in e.state.unappliedProposals :
                  p \in entry[c].state.unappliedProposals \/ (p \in messages /\ p.epoch = EpochOf(entry[c].state))
<1> DEFINE e == IngestAll(c, messages)
           processed == Ingestible(c, messages)
           state == ProcessProposals(entry[c].state, processed)
           bytes == entry[c].ingestedBytes \union {m \in messages : m.sender = c} \union processed
<1>1. \A p \in processed : p \in messages /\ p.epoch = EpochOf(entry[c].state)
  BY DEF Ingestible, CanOpen
<1> HIDE DEF processed
<1>2. /\ SameButPending(state, entry[c].state) /\ state.generation = entry[c].state.generation
      /\ state.unappliedProposals = entry[c].state.unappliedProposals \union processed
  BY ProcessedProposals DEF IsEntry
<1>3. bytes \subseteq entry[c].ingestedBytes \union messages
  BY <1>1
<1>4. e = [state |-> state, pendingNewState |-> entry[c].pendingNewState,
           pendingLeafUpdate |-> entry[c].pendingLeafUpdate, ingestedBytes |-> bytes]
  <2>1. e = [entry[c] EXCEPT !.ingestedBytes = bytes, !.state = state]
    BY DEF IngestAll, processed
  <2> HIDE DEF e, bytes, state
  <2> QED
    BY <2>1 DEF IsEntry
<1> HIDE DEF e, bytes, state
<1>5. /\ e.state = state /\ e.pendingNewState = entry[c].pendingNewState
      /\ e.pendingLeafUpdate = entry[c].pendingLeafUpdate /\ e.ingestedBytes = bytes
  BY <1>4
<1>6. IsEntry(e)
  BY <1>2, <1>4, <1>5 DEF IsEntry, SameButPending
<1> QED
  BY <1>1, <1>2, <1>3, <1>5, <1>6 DEF e

-----------------------------------------------------------------------------
(* What a commit is made of and what it comes to.                          *)

LEMMA LongerTranscript ==
  ASSUME NEW h, IsTranscript(h), NEW content
  PROVE  /\ IsTranscript(Append(h, content))
         /\ Len(h) \in Nat /\ Len(Append(h, content)) = Len(h) + 1
         /\ SubSeq(Append(h, content), 1, Len(h)) = h
<1> DEFINE S == {h[i] : i \in DOMAIN h}
           T == S \union {content}
           new == Append(h, content)
           R == {new[i] : i \in DOMAIN new}
<1>1. h \in Seq(S)
  BY DEF IsTranscript
<1> HIDE DEF S
<1>2. h \in Seq(T) /\ content \in T
  BY <1>1
<1> HIDE DEF T
<1>3. /\ new \in Seq(T) /\ Len(new) = Len(h) + 1 /\ Len(h) \in Nat
      /\ \A i \in 1 .. Len(h) : new[i] = h[i]
  BY <1>2, AppendProperties
<1> HIDE DEF new
<1>4. new \in Seq(R)
  <2>1. DOMAIN new = 1 .. Len(new) /\ Len(new) \in Nat /\ new = [i \in 1 .. Len(new) |-> new[i]]
    BY <1>3
  <2>2. \A i \in 1 .. Len(new) : new[i] \in R
    BY <2>1
  <2> HIDE DEF R
  <2>3. [i \in 1 .. Len(new) |-> new[i]] \in Seq(R)
    BY <2>1, <2>2, IsASeq
  <2> QED
    BY <2>1, <2>3
<1>5. SubSeq(new, 1, Len(h)) = h
  <2> DEFINE cut == SubSeq(new, 1, Len(h))
  <2>1. /\ cut \in Seq(T) /\ Len(cut) = Len(h)
        /\ \A i \in 1 .. Len(h) : cut[i] = new[i]
    BY <1>3, SubSeqProperties
  <2>2. \A i \in 1 .. Len(cut) : cut[i] = h[i]
    BY <1>3, <2>1
  <2> HIDE DEF cut
  <2>3. cut = h
    BY <1>2, <2>1, <2>2, SeqEqual
  <2> QED
    BY <2>3 DEF cut
<1> QED
  BY <1>3, <1>4, <1>5 DEF IsTranscript, new, R

LEMMA NextContext ==
  ASSUME NEW x, IsContext(x), NEW content
  PROVE  LET next == NextEpochContext(x, content)
         IN  /\ IsContext(next) /\ next.groupId = x.groupId /\ next.parameters = x.parameters
             /\ next.epoch = x.epoch + 1
             /\ next.confirmedTranscriptHash = Append(x.confirmedTranscriptHash, content)
             /\ Len(x.confirmedTranscriptHash) \in Nat
             /\ Len(next.confirmedTranscriptHash) = Len(x.confirmedTranscriptHash) + 1
             /\ SubSeq(next.confirmedTranscriptHash, 1, Len(x.confirmedTranscriptHash)) = x.confirmedTranscriptHash
<1> DEFINE next == NextEpochContext(x, content)
           hash == Append(x.confirmedTranscriptHash, content)
<1>1. next = [groupId |-> x.groupId, parameters |-> x.parameters, epoch |-> x.epoch + 1,
              confirmedTranscriptHash |-> hash]
  <2>1. next = [x EXCEPT !.epoch = x.epoch + 1, !.confirmedTranscriptHash = hash]
    BY DEF NextEpochContext, CreateConfirmedHash
  <2> HIDE DEF next, hash
  <2> QED
    BY <2>1 DEF IsContext
<1>2. /\ IsTranscript(hash) /\ Len(x.confirmedTranscriptHash) \in Nat
      /\ Len(hash) = Len(x.confirmedTranscriptHash) + 1
      /\ SubSeq(hash, 1, Len(x.confirmedTranscriptHash)) = x.confirmedTranscriptHash
  BY LongerTranscript DEF IsContext
<1> HIDE DEF next
<1>3. next.confirmedTranscriptHash = hash /\ next.epoch = x.epoch + 1
      /\ next.groupId = x.groupId /\ next.parameters = x.parameters
  BY <1>1
<1> HIDE DEF hash
<1>4. IsContext(next)
  BY <1>1, <1>2, <1>3 DEF IsContext
<1> QED
  BY <1>2, <1>3, <1>4 DEF next, hash

LEMMA StartedEpoch ==
  ASSUME NEW s, IsClientState(s), NEW applied, NEW content, NEW tree, NEW key
  PROVE  LET new == EpochStarted(s, applied, content, tree, key)
         IN  /\ IsClientState(new)
             /\ new.groupContext = NextEpochContext(s.groupContext, content)
             /\ new.ratchetTree = tree /\ new.privateKey = key
             /\ new.unappliedProposals = {} /\ new.generation = 0
             /\ new.historicalReceiverData = AddHistoricalReceiverData(s)
             /\ new.epochSecret = ExtractEpochSecret(new.groupContext,
                                    ExtractJoinerSecret(new.groupContext, InitSecret(s.epochSecret), content.path),
                                    applied.pskSecret)
             /\ applied.reinit = {} => new.groupActiveState = "active" /\ new.reinit = NoReinit
             /\ applied.reinit # {} => new.groupActiveState = "suspendedPendingReinit" /\ new.reinit \in applied.reinit
<1> DEFINE new == EpochStarted(s, applied, content, tree, key)
           context == NextEpochContext(s.groupContext, content)
           joiner == ExtractJoinerSecret(context, InitSecret(s.epochSecret), content.path)
           secret == ExtractEpochSecret(context, joiner, applied.pskSecret)
           history == AddHistoricalReceiverData(s)
           active == IF applied.reinit = {} THEN "active" ELSE "suspendedPendingReinit"
           reinit == IF applied.reinit = {} THEN NoReinit ELSE CHOOSE r \in applied.reinit : TRUE
<1>1. new = [groupContext |-> context, ratchetTree |-> tree, privateKey |-> key,
             unappliedProposals |-> {}, generation |-> 0, opened |-> {},
             epochSecret |-> secret, historicalReceiverData |-> history,
             groupActiveState |-> active, reinit |-> reinit]
  <2>1. new = [ClientState(context, tree, key, secret, history)
                 EXCEPT !.groupActiveState = active, !.reinit = reinit]
    BY DEF EpochStarted
  <2> HIDE DEF new, context, joiner, secret, history, active, reinit
  <2> QED
    BY <2>1 DEF ClientState
<1>2. IsContext(context)
  BY NextContext DEF IsClientState
<1>3. /\ applied.reinit = {} => active = "active" /\ reinit = NoReinit
      /\ applied.reinit # {} => active = "suspendedPendingReinit" /\ reinit \in applied.reinit
  OBVIOUS
<1> HIDE DEF new, context, secret, history, active, reinit
<1>4. /\ new.groupContext = context /\ new.ratchetTree = tree /\ new.privateKey = key
      /\ new.unappliedProposals = {} /\ new.generation = 0
      /\ new.historicalReceiverData = history /\ new.epochSecret = secret
      /\ new.groupActiveState = active /\ new.reinit = reinit
  BY <1>1
<1>5. IsClientState(new)
  BY <1>1, <1>2, <1>4 DEF IsClientState
<1>6. secret = ExtractEpochSecret(context, ExtractJoinerSecret(context, InitSecret(s.epochSecret), content.path),
                                  applied.pskSecret)
  BY DEF secret, joiner
<1> QED
  BY <1>3, <1>4, <1>5, <1>6 DEF new, context, history

\* applyProposals.
LEMMA AppliedProposals ==
  ASSUME NEW s, NEW items, NEW committer, NEW pskState, NEW external,
         NEW applied \in ApplyProposals(s, items, committer, pskState, external)
  PROVE  /\ ValidateProposals(items, committer, s.ratchetTree)
         /\ applied.pskSecret \in AccumulatePskSecret(PskIds(items), pskState, external)
         /\ applied.pskIds = PskIds(items)
         /\ applied.tree = ApplyTreeMutations(s.ratchetTree, items)
         /\ applied.reinit = {items[i].proposal.reinit : i \in OfKind(items, "reinit")}
<1> DEFINE S == IF ValidateProposals(items, committer, s.ratchetTree)
                THEN AccumulatePskSecret(PskIds(items), pskState, external) ELSE {}
           tree == ApplyTreeMutations(s.ratchetTree, items)
           ids == PskIds(items)
           needs == items = <<>> \/ KindsOf(items) \ {"add", "psk", "reinit"} # {}
           reinit == {items[i].proposal.reinit : i \in OfKind(items, "reinit")}
<1>1. ApplyProposals(s, items, committer, pskState, external)
        = {[tree |-> tree, pskIds |-> ids, pskSecret |-> p, needsUpdatePath |-> needs, reinit |-> reinit] : p \in S}
  BY DEF ApplyProposals
<1> HIDE DEF tree, ids, needs, reinit, S
<1>2. PICK p \in S : applied = [tree |-> tree, pskIds |-> ids, pskSecret |-> p, needsUpdatePath |-> needs, reinit |-> reinit]
  BY <1>1
<1>3. applied.tree = tree /\ applied.pskIds = ids /\ applied.pskSecret \in S /\ applied.reinit = reinit
  BY <1>2
<1> QED
  BY <1>3 DEF S, tree, ids, reinit

\* createCommit: the commit and the state it leads to.
Creates(c, s, items, applied, created) ==
  /\ s.groupActiveState = "active"
  /\ created.content.epoch = EpochOf(s) /\ created.content.sender = c /\ created.content.proposals = items
  /\ created.added = DOMAIN applied.tree \ DOMAIN s.ratchetTree
  /\ created.pskIds = applied.pskIds /\ created.pskSecret = applied.pskSecret
  /\ \/ created.newState = EpochStarted(s, applied, created.content, applied.tree, s.privateKey)
     \/ \E key : created.newState = EpochStarted(s, applied, created.content, [applied.tree EXCEPT ![c] = key], key)

LEMMA CreatedCommit ==
  ASSUME NEW c, NEW s, NEW pskState, NEW external, NEW extra,
         NEW created \in CreateCommit(c, s, pskState, external, extra)
  PROVE  \E applied \in ApplyProposals(s, BundleAllProposals(s, c, extra), c, pskState, external) :
           Creates(c, s, BundleAllProposals(s, c, extra), applied, created)
<1> DEFINE e == EpochOf(s)
           items == BundleAllProposals(s, c, extra)
           newKey == PathKey(c, s.groupContext.groupId, e)
           all == ApplyProposals(s, items, c, pskState, external)
           A == {a \in all : s.groupActiveState = "active"}
           PathOf(applied) ==
             IF applied.needsUpdatePath
             THEN [leafKey |-> newKey, encryptedTo |-> [d \in DOMAIN s.ratchetTree \ {c} |-> applied.tree[d]]]
             ELSE NoPath
           Content(path) == [epoch |-> e, sender |-> c, proposals |-> items, path |-> path]
           States(applied, path) ==
             {IF path = NoPath
              THEN EpochStarted(s, applied, Content(path), applied.tree, s.privateKey)
              ELSE EpochStarted(s, applied, Content(path), [applied.tree EXCEPT ![c] = newKey], newKey)}
           Result(applied, path, new) ==
             [content |-> Content(path), newState |-> new,
              added |-> DOMAIN applied.tree \ DOMAIN s.ratchetTree,
              pskIds |-> applied.pskIds, pskSecret |-> applied.pskSecret]
           Committed(applied, path) == {Result(applied, path, new) : new \in States(applied, path)}
<1>1. CreateCommit(c, s, pskState, external, extra) = UNION {Committed(applied, PathOf(applied)) : applied \in A}
  BY DEF CreateCommit
<1> HIDE DEF Committed, A, PathOf
<1>2. PICK applied \in A : created \in Committed(applied, PathOf(applied))
  BY <1>1
<1>3. PICK path : created \in Committed(applied, path)
  BY <1>2
<1>4. applied \in all /\ s.groupActiveState = "active"
  BY <1>2 DEF A
<1>5. PICK new \in States(applied, path) : created = Result(applied, path, new)
  BY <1>3 DEF Committed
<1>6. /\ created.content = Content(path) /\ created.newState = new
      /\ created.added = DOMAIN applied.tree \ DOMAIN s.ratchetTree
      /\ created.pskIds = applied.pskIds /\ created.pskSecret = applied.pskSecret
  BY <1>5
<1>7. /\ created.content.epoch = e /\ created.content.sender = c /\ created.content.proposals = items
  BY <1>6
<1>8. \/ new = EpochStarted(s, applied, Content(path), applied.tree, s.privateKey)
      \/ new = EpochStarted(s, applied, Content(path), [applied.tree EXCEPT ![c] = newKey], newKey)
  BY <1>5
<1> HIDE DEF Content, States, Result, newKey
<1>9. Creates(c, s, items, applied, created)
  BY <1>4, <1>6, <1>7, <1>8 DEF Creates
<1> QED
  BY <1>4, <1>9

\* processCommit.
Follows(s, commit, applied, new) ==
  \E tree :
    /\ new = EpochStarted(s, applied, commit.content, tree, s.privateKey)
    /\ \/ tree = applied.tree
       \/ \E key : tree = [applied.tree EXCEPT ![commit.content.sender] = key]

IsFollowed(s, external, commit, new) ==
  /\ commit.content.epoch = EpochOf(s)
  /\ \A i \in DOMAIN commit.content.proposals : commit.content.proposals[i].reference \subseteq s.unappliedProposals
  /\ ConfirmationTag(new.epochSecret) = commit.confirmationTag
  /\ \E applied \in ApplyProposals(s, commit.content.proposals, commit.content.sender, {s}, external) :
       Follows(s, commit, applied, new)

LEMMA ProcessedCommit ==
  ASSUME NEW c, NEW s, NEW external, NEW commit, NEW new \in ProcessCommit(c, s, external, commit)
  PROVE  IsFollowed(s, external, commit, new)
<1> DEFINE content == commit.content
           path == content.path
           all == ApplyProposals(s, content.proposals, content.sender, {s}, external)
           Opened ==
             /\ content.epoch = EpochOf(s)
             /\ <<content.sender, commit.generation>> \notin s.opened
             /\ \A i \in DOMAIN content.proposals : content.proposals[i].reference \subseteq s.unappliedProposals
           Decrypted(applied) ==
             /\ applied.needsUpdatePath => path # NoPath
             /\ path # NoPath => s.privateKey = path.encryptedTo[c]
           Followed(applied) ==
             EpochStarted(s, applied, content,
                          IF path = NoPath THEN applied.tree ELSE [applied.tree EXCEPT ![content.sender] = path.leafKey],
                          s.privateKey)
           A == {a \in IF Opened THEN all ELSE {} : Decrypted(a)}
           States(applied) == {x \in {Followed(applied)} : ConfirmationTag(x.epochSecret) = commit.confirmationTag}
<1>1. ProcessCommit(c, s, external, commit) = UNION {States(applied) : applied \in A}
  BY DEF ProcessCommit
<1> HIDE DEF States, A
<1>2. PICK applied \in A : new \in States(applied)
  BY <1>1
<1>3. applied \in all /\ Opened
  BY <1>2 DEF A
<1>4. new = Followed(applied) /\ ConfirmationTag(new.epochSecret) = commit.confirmationTag
  BY <1>2 DEF States
<1>5. Follows(s, commit, applied, new)
  BY <1>4 DEF Follows
<1> QED
  BY <1>3, <1>4, <1>5 DEF IsFollowed

\* processCommitWithPendingLeaf: one of two keys is the private key.
LEMMA ProcessedWithPendingLeaf ==
  ASSUME NEW c, NEW e, IsEntry(e), NEW commit, NEW new \in ProcessCommitWithPendingLeaf(c, e, commit)
  PROVE  \E key \in {e.state.privateKey} \union e.pendingLeafUpdate :
           new \in ProcessCommit(c, WithKey(e.state, key), psks[c], commit)
<1> DEFINE With(key) == ProcessCommit(c, WithKey(e.state, key), psks[c], commit)
           withNewKey == UNION {With(key) : key \in e.pendingLeafUpdate}
<1>1. new \in withNewKey \/ new \in ProcessCommit(c, e.state, psks[c], commit)
  BY DEF ProcessCommitWithPendingLeaf, WithKey
<1>2. CASE new \in withNewKey
  <2> HIDE DEF With
  <2>1. PICK key \in e.pendingLeafUpdate : new \in With(key)
    BY <1>2
  <2> QED
    BY <2>1 DEF With
<1>3. CASE new \in ProcessCommit(c, e.state, psks[c], commit)
  <2>1. WithKey(e.state, e.state.privateKey) = e.state
    BY WithSameKey DEF IsEntry
  <2> QED
    BY <1>3, <2>1
<1> QED
  BY <1>1, <1>2, <1>3

\* SetToSeq lists the elements of a finite set.
LEMMA Listed ==
  ASSUME NEW S, IsFiniteSet(S)
  PROVE  /\ SetToSeq(S) \in Seq(S)
         /\ Len(SetToSeq(S)) = Cardinality(S)
         /\ DOMAIN SetToSeq(S) = 1 .. Cardinality(S) /\ Cardinality(S) \in Nat
         /\ \A i \in 1 .. Cardinality(S) : SetToSeq(S)[i] \in S
<1> DEFINE n == Cardinality(S)
           list == SetToSeq(S)
<1>1. n \in Nat /\ ExistsBijection(1 .. n, S)
  BY FS_CardinalityType
<1>2. \E f \in [1 .. n -> S] : IsInjective(f)
  BY <1>1 DEF ExistsBijection, Bijection, Injection
<1>3. list \in [1 .. n -> S]
  BY <1>2 DEF SetToSeq
<1> HIDE DEF list, n
<1>4. list = [i \in 1 .. n |-> list[i]] /\ \A i \in 1 .. n : list[i] \in S
  BY <1>3
<1>5. [i \in 1 .. n |-> list[i]] \in Seq(S)
  BY <1>1, <1>4, IsASeq
<1>6. list \in Seq(S)
  BY <1>4, <1>5
<1>7. DOMAIN list = 1 .. n /\ DOMAIN list = 1 .. Len(list) /\ Len(list) \in Nat
  BY <1>3, <1>6, LenProperties
<1>8. Len(list) = n
  BY <1>1, <1>7
<1> QED
  BY <1>1, <1>4, <1>6, <1>7, <1>8 DEF list, n

\* bundleAllProposals: an item is a pending proposal or one the caller adds.
IsBundled(item, s, c, extra) ==
  \/ \E p \in s.unappliedProposals : item = Item(p.proposal, p.sender, {p})
  \/ \E j \in DOMAIN extra : item = Item(extra[j], c, {})

LEMMA Bundled ==
  ASSUME NEW s, IsFiniteSet(s.unappliedProposals), NEW c, NEW P, NEW extra \in Seq(P),
         NEW i \in DOMAIN BundleAllProposals(s, c, extra)
  PROVE  IsBundled(BundleAllProposals(s, c, extra)[i], s, c, extra)
<1> DEFINE pending == SetToSeq(s.unappliedProposals)
           n == Cardinality(s.unappliedProposals)
           Pending(j) == Item(pending[j].proposal, pending[j].sender, {pending[j]})
           Extra(j) == Item(extra[j], c, {})
           S == {Pending(j) : j \in 1 .. n}
           T == {Extra(j) : j \in 1 .. Len(extra)}
           first == [j \in DOMAIN pending |-> Pending(j)]
           second == [j \in DOMAIN extra |-> Extra(j)]
<1>1. n \in Nat /\ DOMAIN pending = 1 .. n /\ \A j \in 1 .. n : pending[j] \in s.unappliedProposals
  BY Listed
<1>2. Len(extra) \in Nat /\ DOMAIN extra = 1 .. Len(extra)
  BY LenProperties
<1>3. BundleAllProposals(s, c, extra) = first \o second
  BY DEF BundleAllProposals
<1> HIDE DEF n, pending, Pending, Extra
<1>4. /\ \A j \in 1 .. n : Pending(j) \in S
      /\ \A j \in 1 .. Len(extra) : Extra(j) \in T
  OBVIOUS
<1>5. \A x \in S : \E p \in s.unappliedProposals : x = Item(p.proposal, p.sender, {p})
  BY <1>1 DEF Pending
<1>6. \A x \in T : \E j \in DOMAIN extra : x = Item(extra[j], c, {})
  BY <1>2 DEF Extra
<1> HIDE DEF S, T
<1>7. first \in Seq(S \union T)
  <2>1. \A j \in 1 .. n : Pending(j) \in S \union T
    BY <1>4
  <2>2. [j \in 1 .. n |-> Pending(j)] \in Seq(S \union T)
    BY <1>1, <2>1, IsASeq
  <2> QED
    BY <1>1, <2>2
<1>8. second \in Seq(S \union T)
  <2>1. \A j \in 1 .. Len(extra) : Extra(j) \in S \union T
    BY <1>4
  <2>2. [j \in 1 .. Len(extra) |-> Extra(j)] \in Seq(S \union T)
    BY <1>2, <2>1, IsASeq
  <2> QED
    BY <1>2, <2>2
<1> HIDE DEF first, second
<1>9. first \o second \in Seq(S \union T)
  BY <1>7, <1>8, ConcatProperties
<1>10. (first \o second)[i] \in S \union T
  <2>1. i \in 1 .. Len(first \o second)
    BY <1>3, <1>9, LenProperties
  <2> QED
    BY <1>9, <2>1, ElementOfSeq
<1> QED
  BY <1>3, <1>5, <1>6, <1>10 DEF IsBundled

\* applyTreeMutations: whose leaf changes, and to what.
ClientsAdded(items) == {items[i].proposal.client : i \in OfKind(items, "add")}

LEMMA MutatedLeaves ==
  ASSUME NEW tree, NEW items
  PROVE  DOMAIN ApplyTreeMutations(tree, items) = DOMAIN tree \union ClientsAdded(items)
  BY DEF ApplyTreeMutations, ClientsAdded

LEMMA UnmutatedLeaf ==
  ASSUME NEW tree, NEW items, NEW c \in DOMAIN tree, \A i \in OfKind(items, "update") : items[i].sender # c
  PROVE  ApplyTreeMutations(tree, items)[c] = tree[c]
<1> DEFINE Updated == {i \in OfKind(items, "update") : items[i].sender = c}
<1>1. Updated = {}
  OBVIOUS
<1>2. c \in DOMAIN tree \union ClientsAdded(items)
  OBVIOUS
<1> QED
  BY <1>1, <1>2 DEF ApplyTreeMutations, ClientsAdded

LEMMA AddedLeaf ==
  ASSUME NEW tree, NEW items, NEW c \in DOMAIN ApplyTreeMutations(tree, items), c \notin DOMAIN tree
  PROVE  \E i \in OfKind(items, "add") :
           items[i].proposal.client = c /\ ApplyTreeMutations(tree, items)[c] = items[i].proposal.key
<1> DEFINE all == DOMAIN tree \union ClientsAdded(items)
           Added == {i \in OfKind(items, "add") : items[i].proposal.client = c}
           first == CHOOSE i \in Added : TRUE
<1>1. c \in all
  BY MutatedLeaves
<1>2. first \in Added
  <2>1. PICK i \in OfKind(items, "add") : items[i].proposal.client = c
    BY <1>1 DEF ClientsAdded
  <2>2. i \in Added
    BY <2>1
  <2> QED
    BY <2>2
<1> DEFINE Updated(d) == {i \in OfKind(items, "update") : items[i].sender = d}
           AddedOf(d) == {i \in OfKind(items, "add") : items[i].proposal.client = d}
           Key(at)    == items[CHOOSE i \in at : TRUE].proposal.key
           Leaf(d) == IF d \notin DOMAIN tree THEN Key(AddedOf(d))
                      ELSE IF Updated(d) # {} THEN Key(Updated(d)) ELSE tree[d]
<1>3. ApplyTreeMutations(tree, items)[c] = items[first].proposal.key
  <2>1. ApplyTreeMutations(tree, items) = [d \in all |-> Leaf(d)]
    BY DEF ApplyTreeMutations, ClientsAdded
  <2>2. Leaf(c) = items[first].proposal.key
    OBVIOUS
  <2> HIDE DEF Leaf, all
  <2> QED
    BY <1>1, <2>1, <2>2
<1> HIDE DEF first, all
<1> QED
  BY <1>2, <1>3

-----------------------------------------------------------------------------
(* The inductive invariant.                                                *)

\* The clients a commit adds.
AddedBy(commit) == ClientsAdded(commit.content.proposals)

\* What can be proposed.
IsProposal(proposal, groupId) ==
  /\ proposal.kind = "add" => proposal.client \in Client /\ proposal.key = PackageKey(proposal.client, groupId)
  /\ proposal.kind = "reinit" => proposal.reinit = ReInit.reinit

\* What a commit of epoch e can hold, ps being the proposals sent: Updates only
\* by reference.
IsItem(item, e, ps) ==
  /\ IsProposal(item.proposal, "group")
  /\ item.reference \subseteq ps
  /\ item.proposal.kind = "update" =>
       \E p \in ps :
         /\ item.reference = {p}
         /\ p.sender = item.sender /\ p.epoch = e /\ p.proposal.kind = "update"

\* A state of the group that client c is in, or will be with its own commit.
IsGroupState(c, s) ==
  /\ IsClientState(s)
  /\ s.groupContext.groupId = "group"
  /\ EpochOf(s) \in Nat \ {0}
  /\ Len(s.groupContext.confirmedTranscriptHash) = EpochOf(s) - 1
  /\ c \in DOMAIN s.ratchetTree /\ DOMAIN s.ratchetTree \subseteq Client
  /\ s.generation \in Nat
  /\ DOMAIN s.historicalReceiverData \subseteq 0 .. EpochOf(s) - 1
  /\ \/ s.groupActiveState = "active" /\ s.reinit = NoReinit
     \/ s.groupActiveState = "suspendedPendingReinit" /\ s.reinit = ReInit.reinit

\* The commit leads from state s to the state new.
Leads(commit, s, new) ==
  /\ IsClientState(new)
  /\ commit.content.epoch = EpochOf(s)
  /\ new.groupContext = NextEpochContext(s.groupContext, commit.content)
  /\ DOMAIN new.ratchetTree = DOMAIN s.ratchetTree \union AddedBy(commit)
  /\ new.unappliedProposals = {} /\ new.generation = 0
  /\ new.historicalReceiverData = AddHistoricalReceiverData(s)
  /\ ConfirmationTag(new.epochSecret) = commit.confirmationTag
  /\ IF IsReInit(commit)
     THEN new.groupActiveState = "suspendedPendingReinit" /\ new.reinit = ReInit.reinit
     ELSE new.groupActiveState = "active" /\ new.reinit = NoReinit

StoreInv ==
  /\ scenario \in Scenarios
  /\ entry = [c \in DOMAIN entry |-> entry[c]] /\ DOMAIN entry \subseteq Client
  /\ keyPackages \subseteq Client \X {"group", "branch"}
  /\ \A c \in DOMAIN entry :
       /\ <<c, "group">> \notin keyPackages
       /\ IsEntry(entry[c])
       /\ IsGroupState(c, entry[c].state)
       /\ EpochOf(entry[c].state) <= scenario.maxEpoch
       /\ entry[c].state.unappliedProposals \subseteq ProposalsOf(EpochOf(entry[c].state))
       /\ entry[c].ingestedBytes \subseteq proposals
       /\ \A new \in entry[c].pendingNewState :
            \E commit \in commits : commit.content.sender = c /\ Leads(commit, entry[c].state, new)

ProposalInv ==
  /\ IsFiniteSet(proposals)
  /\ \A p \in proposals :
       /\ IsProposal(p.proposal, "group")
       /\ p.sender \in DOMAIN entry
       /\ p.epoch \in Nat /\ p.generation \in Nat
       /\ p.epoch <= EpochOf(entry[p.sender].state)
       /\ p.epoch = EpochOf(entry[p.sender].state) =>
            /\ scenario.private => p.generation < entry[p.sender].state.generation
            /\ p.proposal.kind = "update" => entry[p.sender].pendingLeafUpdate # {}

\* What is sent with a commit: whom the Welcome adds has the leaf of its key
\* package in the tree, and what opens the Welcome derives the committer's epoch.
IsCommit(commit, ps) ==
  LET e    == commit.content.epoch
      w    == commit.welcome
      info == w.groupInfo
  IN  /\ e \in Nat \ {0}
      /\ \A i \in DOMAIN commit.content.proposals : IsItem(commit.content.proposals[i], e, ps)
      /\ IsContext(info.groupContext) /\ info.groupContext.groupId = "group"
      /\ info.groupContext.epoch = e + 1 /\ Len(info.groupContext.confirmedTranscriptHash) = e
      /\ DOMAIN info.ratchetTree \subseteq Client
      /\ w.to \subseteq DOMAIN info.ratchetTree \intersect AddedBy(commit)
      /\ \A d \in w.to : info.ratchetTree[d] = PackageKey(d, "group")
      /\ \A p : ExtractWelcomeSecret(w.joinerSecret, p) = w.sealedWith =>
                   ConfirmationTag(ExtractEpochSecret(info.groupContext, w.joinerSecret, p)) = commit.confirmationTag

CommitInv ==
  \A commit \in commits :
    /\ IsCommit(commit, proposals) /\ commit.content.epoch < scenario.maxEpoch
    /\ \A other \in commits :
         other.content.sender = commit.content.sender /\ other.content.epoch = commit.content.epoch => other = commit

AcceptedInv ==
  /\ accepted \in Seq(commits)
  /\ \A e \in DOMAIN accepted : accepted[e].content.epoch = e

\* The leaf key of the state a client is in and of the one that waits.
LeafKeyInv ==
  \A c \in DOMAIN entry :
    entry[c].pendingLeafUpdate = {} =>
      \A s \in {entry[c].state} \union entry[c].pendingNewState : s.privateKey = s.ratchetTree[c]

ReinitsInv ==
  /\ DOMAIN reinits \subseteq DOMAIN entry
  /\ \A c \in DOMAIN reinits :
       /\ reinits[c].groupActiveState = "suspendedPendingReinit" /\ reinits[c].reinit = ReInit.reinit
       /\ reinits[c].groupContext.groupId = "group"

\* Nobody is added twice: whom an accepted commit added is in every later tree.
JoinInv ==
  /\ scenario.members \subseteq DOMAIN entry
  /\ \A c \in DOMAIN entry :
       /\ EpochOf(entry[c].state) <= Len(accepted) + 1
       /\ \A j \in DOMAIN accepted :
            j < EpochOf(entry[c].state) => accepted[j].welcome.to \subseteq DOMAIN entry[c].state.ratchetTree
       /\ c \in scenario.members \/ \E j \in DOMAIN accepted : c \in accepted[j].welcome.to
  /\ \A commit \in commits :
       /\ commit.content.epoch <= Len(accepted) + 1
       /\ \A j \in DOMAIN accepted :
            j < commit.content.epoch =>
              /\ accepted[j].welcome.to \subseteq DOMAIN commit.welcome.groupInfo.ratchetTree
              /\ accepted[j].welcome.to \intersect commit.welcome.to = {}

EpochSecretAfter(e) == accepted[e - 1].confirmationTag[2]

HistoryInv ==
  \A c \in DOMAIN entry :
    LET s == entry[c].state
    IN  /\ EpochOf(s) > 1 => s.epochSecret = EpochSecretAfter(EpochOf(s))
        /\ \A e \in DOMAIN s.historicalReceiverData :
             e > 1 => s.historicalReceiverData[e] = ResumptionPsk(EpochSecretAfter(e))
        /\ \A e \in JoinedIn(c) .. EpochOf(s) - 1 :
             e + RetainKeysForEpochs >= EpochOf(s) => e \in DOMAIN s.historicalReceiverData

\* The one PSK of a commit that resumes: the current one of the old group.
OnePsk(id) == [n \in 1 .. 1 |-> id]
ResumingSecret(id, old) == [i \in 1 .. 1 |-> <<id, ResumptionPsk(old.epochSecret), i, 1>>]

GroupIdOf(w) == w.groupInfo.groupContext.groupId

\* The Welcome to a group that resumes "group".
IsResumption(w) ==
  LET context == w.groupInfo.groupContext
      id      == w.psks[1]
  IN  /\ IsContext(context) /\ context.epoch = 1 /\ Len(context.confirmedTranscriptHash) = 1
      /\ DOMAIN w.groupInfo.ratchetTree \subseteq Client
      /\ context.groupId \in {"branch", "new"}
      /\ w.psks = OnePsk(id) /\ id.psktype = "resumption" /\ id.pskGroupId = "group"
      /\ id.usage = IF context.groupId = "branch" THEN "branch" ELSE "reinit"

\* A state of such a group.
IsResumedState(s) ==
  /\ IsClientState(s) /\ EpochOf(s) = 1 /\ Len(s.groupContext.confirmedTranscriptHash) = 1
  /\ DOMAIN s.ratchetTree \subseteq Client /\ s.unappliedProposals = {}
  /\ DOMAIN s.historicalReceiverData \subseteq {0}
  /\ s.groupActiveState = "active" /\ s.reinit = NoReinit

\* What client c, that has r, shares with all who have the Welcome's group.
Shares(w, c, r) ==
  r.state.groupContext.groupId = GroupIdOf(w) =>
    /\ w.sealedWith = ExtractWelcomeSecret(w.joinerSecret, ResumingSecret(w.psks[1], r.from))
    /\ r.state.epochSecret =
         ExtractEpochSecret(w.groupInfo.groupContext, w.joinerSecret, ResumingSecret(w.psks[1], r.from))
    /\ GroupIdOf(w) = "new" /\ c \in w.to => r.state.groupContext.parameters = ReInit.reinit.parameters

ResumedInv ==
  /\ DOMAIN resumed \subseteq DOMAIN entry
  /\ \A c \in DOMAIN resumed :
       /\ IsResumedState(resumed[c].state)
       /\ \E w \in welcomes : GroupIdOf(w) = resumed[c].state.groupContext.groupId
  /\ \A w \in welcomes :
       /\ IsResumption(w)
       /\ \A v \in welcomes : GroupIdOf(v) = GroupIdOf(w) => v = w
       /\ GroupIdOf(w) = "branch" => \E c \in DOMAIN resumed : resumed[c].state.groupContext.groupId = "branch"
       /\ \A c \in DOMAIN resumed : Shares(w, c, resumed[c])

Inv ==
  /\ StoreInv /\ ProposalInv /\ ProposalsHaveOwnGeneration /\ CommitInv /\ AcceptedInv /\ LeafKeyInv
  /\ ReinitsInv /\ JoinInv /\ HistoryInv /\ ResumedInv

-----------------------------------------------------------------------------
(* Every commit, one's own or another's, leads to the next epoch.          *)

LEMMA LeadsOn ==
  ASSUME NEW s, IsClientState(s), NEW commit, commit.content.epoch = EpochOf(s),
         \A i \in DOMAIN commit.content.proposals : IsProposal(commit.content.proposals[i].proposal, "group"),
         NEW committer, NEW pskState, NEW external,
         NEW applied \in ApplyProposals(s, commit.content.proposals, committer, pskState, external),
         NEW tree, DOMAIN tree = DOMAIN applied.tree, NEW key,
         NEW new, new = EpochStarted(s, applied, commit.content, tree, key),
         ConfirmationTag(new.epochSecret) = commit.confirmationTag
  PROVE  Leads(commit, s, new)
<1> DEFINE items == commit.content.proposals
           reinits1 == {items[i].proposal.reinit : i \in OfKind(items, "reinit")}
<1>1. /\ IsClientState(new)
      /\ new.groupContext = NextEpochContext(s.groupContext, commit.content)
      /\ new.ratchetTree = tree
      /\ new.unappliedProposals = {} /\ new.generation = 0
      /\ new.historicalReceiverData = AddHistoricalReceiverData(s)
      /\ applied.reinit = {} => new.groupActiveState = "active" /\ new.reinit = NoReinit
      /\ applied.reinit # {} => new.groupActiveState = "suspendedPendingReinit" /\ new.reinit \in applied.reinit
  BY StartedEpoch
<1>2. applied.tree = ApplyTreeMutations(s.ratchetTree, items) /\ applied.reinit = reinits1
  BY AppliedProposals
<1>3. DOMAIN new.ratchetTree = DOMAIN s.ratchetTree \union AddedBy(commit)
  <2>1. DOMAIN ApplyTreeMutations(s.ratchetTree, items) = DOMAIN s.ratchetTree \union AddedBy(commit)
    BY MutatedLeaves DEF AddedBy
  <2> HIDE DEF reinits1, items
  <2> QED
    BY <1>1, <1>2, <2>1
<1>4. IsReInit(commit) <=> OfKind(items, "reinit") # {}
  BY DEF IsReInit, KindsOf, OfKind
<1>5. \A r \in reinits1 : r = ReInit.reinit
  BY DEF OfKind, IsProposal
<1>6. reinits1 = {} <=> OfKind(items, "reinit") = {}
  OBVIOUS
<1> HIDE DEF reinits1, items
<1>7. IF IsReInit(commit)
      THEN new.groupActiveState = "suspendedPendingReinit" /\ new.reinit = ReInit.reinit
      ELSE new.groupActiveState = "active" /\ new.reinit = NoReinit
  <2>1. applied.reinit = {} <=> ~IsReInit(commit)
    BY <1>2, <1>4, <1>6
  <2>2. new.reinit \in applied.reinit => new.reinit = ReInit.reinit
    BY <1>2, <1>5
  <2> QED
    BY <1>1, <2>1, <2>2
<1> QED
  BY <1>1, <1>3, <1>7 DEF Leads

\* addHistoricalReceiverData: what is kept of former epochs.
LEMMA History ==
  ASSUME NEW s, EpochOf(s) \in Nat, DOMAIN s.historicalReceiverData \subseteq 0 .. EpochOf(s) - 1
  PROVE  LET history == AddHistoricalReceiverData(s)
         IN  /\ DOMAIN history \subseteq DOMAIN s.historicalReceiverData \union {EpochOf(s)}
             /\ \A e \in DOMAIN history :
                  history[e] = IF e = EpochOf(s) THEN ResumptionPsk(s.epochSecret) ELSE s.historicalReceiverData[e]
             /\ \A e \in DOMAIN s.historicalReceiverData \union {EpochOf(s)} :
                  e + RetainKeysForEpochs > EpochOf(s) => e \in DOMAIN history
<1> DEFINE old == s.historicalReceiverData
           last == EpochOf(s)
           epochs == DOMAIN old \union {last}
           Later(e) == {d \in epochs : d > e}
           newest == {e \in epochs : Cardinality(Later(e)) < RetainKeysForEpochs}
           kept == IF RetainKeysForEpochs = 0 THEN epochs ELSE newest
           Value(e) == IF e = last THEN ResumptionPsk(s.epochSecret) ELSE old[e]
           history == AddHistoricalReceiverData(s)
<1>1. history = [e \in kept |-> Value(e)]
  BY DEF AddHistoricalReceiverData, EpochOf
<1>2. ASSUME NEW e \in epochs, e + RetainKeysForEpochs > last
      PROVE  e \in newest
  <2>1. e \in 0 .. last /\ last \in Nat /\ RetainKeysForEpochs \in Nat
    BY RetainEpochsAssumption
  <2>2. Later(e) \subseteq e + 1 .. last
    <3> SUFFICES ASSUME NEW d \in epochs, d > e PROVE d \in e + 1 .. last
      OBVIOUS
    <3>1. d \in 0 .. last
      OBVIOUS
    <3> QED
      BY <2>1, <3>1
  <2>3. IsFiniteSet(e + 1 .. last) /\ Cardinality(e + 1 .. last) <= last - e
    <3>1. e + 1 \in Int /\ last \in Int /\ e <= last
      BY <2>1
    <3>2. /\ IsFiniteSet(e + 1 .. last)
          /\ Cardinality(e + 1 .. last) = IF e + 1 > last THEN 0 ELSE last - (e + 1) + 1
      BY <3>1, FS_Interval
    <3> HIDE DEF last
    <3> QED
      BY <2>1, <3>1, <3>2
  <2> HIDE DEF Later
  <2>4. Cardinality(Later(e)) <= Cardinality(e + 1 .. last) /\ Cardinality(Later(e)) \in Nat
    BY <2>2, <2>3, FS_Subset, FS_CardinalityType
  <2>5. Cardinality(e + 1 .. last) \in Nat
    BY <2>3, FS_CardinalityType
  <2>6. Cardinality(Later(e)) < RetainKeysForEpochs
    <3> HIDE DEF last
    <3> QED
      BY <1>2, <2>1, <2>3, <2>4, <2>5
  <2> QED
    BY <2>6
<1>3. newest \subseteq kept /\ kept \subseteq epochs
  OBVIOUS
<1> HIDE DEF history, kept, newest, Value
<1>4. DOMAIN history = kept /\ \A e \in kept : history[e] = Value(e)
  BY <1>1
<1> QED
  BY <1>2, <1>3, <1>4 DEF history, Value

\* The next state is one of the group again.
LEMMA LedToGroupState ==
  ASSUME NEW c, NEW s, IsGroupState(c, s), NEW commit, NEW new, Leads(commit, s, new),
         AddedBy(commit) \subseteq Client
  PROVE  IsGroupState(c, new) /\ EpochOf(new) = EpochOf(s) + 1
<1>1. /\ IsClientState(s) /\ EpochOf(s) \in Nat
      /\ s.groupContext.groupId = "group" /\ Len(s.groupContext.confirmedTranscriptHash) = EpochOf(s) - 1
      /\ c \in DOMAIN s.ratchetTree /\ DOMAIN s.ratchetTree \subseteq Client
      /\ DOMAIN s.historicalReceiverData \subseteq 0 .. EpochOf(s) - 1
  BY DEF IsGroupState
<1>2. /\ new.groupContext.groupId = "group" /\ EpochOf(new) = EpochOf(s) + 1
      /\ Len(new.groupContext.confirmedTranscriptHash) = Len(s.groupContext.confirmedTranscriptHash) + 1
  <2>1. IsContext(s.groupContext)
    BY <1>1 DEF IsClientState
  <2>2. new.groupContext = NextEpochContext(s.groupContext, commit.content)
    BY DEF Leads
  <2> QED
    BY <1>1, <2>1, <2>2, NextContext DEF EpochOf
<1>3. EpochOf(new) \in Nat \ {0}
  BY <1>1, <1>2
<1>4. Len(new.groupContext.confirmedTranscriptHash) = EpochOf(new) - 1
  BY <1>1, <1>2
<1>5. DOMAIN new.historicalReceiverData \subseteq 0 .. EpochOf(new) - 1
  <2>1. DOMAIN new.historicalReceiverData \subseteq DOMAIN s.historicalReceiverData \union {EpochOf(s)}
    BY <1>1, History DEF Leads
  <2>2. 0 .. EpochOf(s) - 1 \subseteq 0 .. EpochOf(new) - 1 /\ EpochOf(s) \in 0 .. EpochOf(new) - 1
    BY <1>1, <1>2
  <2> QED
    BY <1>1, <2>1, <2>2
<1>6. c \in DOMAIN new.ratchetTree /\ DOMAIN new.ratchetTree \subseteq Client
  BY <1>1 DEF Leads
<1>7. \/ new.groupActiveState = "active" /\ new.reinit = NoReinit
      \/ new.groupActiveState = "suspendedPendingReinit" /\ new.reinit = ReInit.reinit
  BY DEF Leads
<1> QED
  BY <1>2, <1>3, <1>4, <1>5, <1>6, <1>7 DEF IsGroupState, Leads

-----------------------------------------------------------------------------
(* What a client's own commit holds and what is sent of it.                *)

LEMMA Requested ==
  ASSUME NEW kinds, NEW s, DOMAIN s.ratchetTree \subseteq Client, NEW q \in Requests(kinds, s)
  PROVE  IsProposal(q, "group") /\ q.kind # "update"
<1> DEFINE A == {ReInit : k \in kinds \intersect {"reinit"}}
           B == {Psk(External("psk")) : k \in kinds \intersect {"external"}}
           C == {Psk(Resumption("application", "group", e)) :
                   e \in IF "resumption" \in kinds THEN 1 .. EpochOf(s) ELSE {}}
           D == {Add(d, "group") : d \in IF "add" \in kinds THEN Client \ DOMAIN s.ratchetTree ELSE {}}
<1>1. q \in A \union B \union C \union D
  BY DEF Requests
<1>2. CASE q \in A
  BY <1>2 DEF IsProposal, ReInit
<1>3. CASE q \in B \union C
  <2>1. \E id : q = Psk(id)
    BY <1>3
  <2> QED
    BY <2>1 DEF IsProposal, Psk
<1>4. CASE q \in D
  <2>1. PICK d \in Client : q = Add(d, "group")
    BY <1>4
  <2>2. q.kind = "add" /\ q.client = d /\ q.key = PackageKey(d, "group")
    BY <2>1 DEF Add
  <2> QED
    BY <2>2 DEF IsProposal
<1> HIDE DEF A, B, C, D
<1> QED
  BY <1>1, <1>2, <1>3, <1>4

LEMMA BundledItems ==
  ASSUME ProposalInv, NEW c, NEW s, s.unappliedProposals \subseteq ProposalsOf(EpochOf(s)), NEW kinds, NEW t, DOMAIN t.ratchetTree \subseteq Client,
         NEW extra \in {<<>>} \union {<<p>> : p \in Requests(kinds, t)},
         NEW i \in DOMAIN BundleAllProposals(s, c, extra)
  PROVE  IsItem(BundleAllProposals(s, c, extra)[i], EpochOf(s), proposals)
<1> DEFINE item == BundleAllProposals(s, c, extra)[i]
           R == Requests(kinds, t)
<1>1. extra \in Seq(R)
  <2> HIDE DEF R
  <2>1. CASE extra = <<>>
    BY <2>1
  <2>2. CASE extra # <<>>
    <3>1. PICK p \in R : extra = <<p>>
      BY <2>2 DEF R
    <3> QED
      BY <3>1
  <2> QED
    BY <2>1, <2>2
<1>2. /\ IsFiniteSet(s.unappliedProposals)
      /\ \A p \in s.unappliedProposals : p \in proposals /\ p.epoch = EpochOf(s)
  <2>1. s.unappliedProposals \in SUBSET proposals
    BY DEF ProposalsOf
  <2> QED
    BY <2>1, FS_Subset DEF ProposalInv, ProposalsOf
<1>3. \A j \in DOMAIN extra : extra[j] \in R
  <2> HIDE DEF R
  <2> QED
    BY <1>1
<1>4. \/ \E p \in s.unappliedProposals : item = Item(p.proposal, p.sender, {p})
      \/ \E j \in DOMAIN extra : item = Item(extra[j], c, {})
  <2> HIDE DEF R
  <2>1. IsBundled(item, s, c, extra)
    BY <1>1, <1>2, Bundled
  <2> HIDE DEF item
  <2> QED
    BY <2>1 DEF IsBundled
<1>5. CASE \E p \in s.unappliedProposals : item = Item(p.proposal, p.sender, {p})
  <2>1. PICK p \in s.unappliedProposals : item = Item(p.proposal, p.sender, {p})
    BY <1>5
  <2>2. item.proposal = p.proposal /\ item.sender = p.sender /\ item.reference = {p}
    BY <2>1 DEF Item
  <2>3. IsProposal(p.proposal, "group") /\ p \in proposals /\ p.epoch = EpochOf(s)
    BY <1>2 DEF ProposalInv
  <2> HIDE DEF item
  <2>4. IsItem(item, EpochOf(s), proposals)
    BY <2>2, <2>3 DEF IsItem
  <2> QED
    BY <2>4 DEF item
<1>6. CASE \E j \in DOMAIN extra : item = Item(extra[j], c, {})
  <2>1. PICK j \in DOMAIN extra : item = Item(extra[j], c, {})
    BY <1>6
  <2>2. item.proposal = extra[j] /\ item.reference = {}
    BY <2>1 DEF Item
  <2>3. IsProposal(extra[j], "group") /\ extra[j].kind # "update"
    BY <1>3, Requested
  <2> HIDE DEF item
  <2>4. IsItem(item, EpochOf(s), proposals)
    BY <2>2, <2>3 DEF IsItem
  <2> QED
    BY <2>4 DEF item
<1> HIDE DEF item
<1> QED
  BY <1>4, <1>5, <1>6 DEF item

\* With no Update proposal waiting, no commit of the epoch applies one.
LEMMA OwnLeafKept ==
  ASSUME ProposalInv, NEW c \in DOMAIN entry, entry[c].pendingLeafUpdate = {},
         NEW items, \A i \in DOMAIN items : IsItem(items[i], EpochOf(entry[c].state), proposals),
         NEW tree, c \in DOMAIN tree
  PROVE  c \in DOMAIN ApplyTreeMutations(tree, items) /\ ApplyTreeMutations(tree, items)[c] = tree[c]
<1>1. ASSUME NEW i \in OfKind(items, "update"), items[i].sender = c PROVE FALSE
  <2>1. i \in DOMAIN items /\ items[i].proposal.kind = "update"
    BY DEF OfKind
  <2>2. PICK p \in proposals : p.sender = c /\ p.epoch = EpochOf(entry[c].state) /\ p.proposal.kind = "update"
    BY <1>1, <2>1 DEF IsItem
  <2> QED
    BY <2>2 DEF ProposalInv
<1>2. ApplyTreeMutations(tree, items)[c] = tree[c]
  BY <1>1, UnmutatedLeaf
<1> QED
  BY <1>2, MutatedLeaves

LEMMA SentWelcome ==
  ASSUME NEW created, NEW s, NEW w, w = Welcome(created, s)
  PROVE  /\ w.to = created.added /\ w.psks = created.pskIds
         /\ w.joinerSecret = ExtractJoinerSecret(created.newState.groupContext, InitSecret(s.epochSecret),
                                                 created.content.path)
         /\ w.sealedWith = ExtractWelcomeSecret(w.joinerSecret, created.pskSecret)
         /\ w.groupInfo.groupContext = created.newState.groupContext
         /\ w.groupInfo.ratchetTree = created.newState.ratchetTree
BY DEF Welcome

\* What Commit sends.
Sent(created, s) ==
  [content         |-> created.content,
   generation      |-> s.generation,
   confirmationTag |-> ConfirmationTag(created.newState.epochSecret),
   welcome         |-> Welcome(created, s)]

\* The state of a client's own commit: its tree and its key.
OwnState(c, s, applied, created, tree, key) ==
  /\ created.newState = EpochStarted(s, applied, created.content, tree, key)
  /\ created.newState.ratchetTree = tree /\ created.newState.privateKey = key
  /\ DOMAIN tree = DOMAIN applied.tree
  /\ \A d \in DOMAIN tree : d # c => tree[d] = applied.tree[d]
  /\ key = tree[c] \/ (tree[c] = applied.tree[c] /\ key = s.privateKey)

LEMMA OwnNewState ==
  ASSUME NEW c, NEW s, IsClientState(s), NEW items, NEW applied, NEW created, Creates(c, s, items, applied, created),
         c \in DOMAIN applied.tree
  PROVE  \E tree, key : OwnState(c, s, applied, created, tree, key)
<1>1. CASE created.newState = EpochStarted(s, applied, created.content, applied.tree, s.privateKey)
  <2>1. created.newState.ratchetTree = applied.tree /\ created.newState.privateKey = s.privateKey
    BY <1>1, StartedEpoch
  <2> QED
    BY <1>1, <2>1 DEF OwnState
<1>2. CASE \E key : created.newState = EpochStarted(s, applied, created.content, [applied.tree EXCEPT ![c] = key], key)
  <2>1. PICK key : created.newState = EpochStarted(s, applied, created.content, [applied.tree EXCEPT ![c] = key], key)
    BY <1>2
  <2> DEFINE tree == [applied.tree EXCEPT ![c] = key]
  <2>2. /\ DOMAIN tree = DOMAIN applied.tree /\ tree[c] = key
        /\ \A d \in DOMAIN tree : d # c => tree[d] = applied.tree[d]
    OBVIOUS
  <2> HIDE DEF tree
  <2>3. created.newState = EpochStarted(s, applied, created.content, tree, key)
    BY <2>1 DEF tree
  <2>4. created.newState.ratchetTree = tree /\ created.newState.privateKey = key
    BY <2>3, StartedEpoch
  <2> QED
    BY <2>2, <2>3, <2>4 DEF OwnState
<1> QED
  BY <1>1, <1>2 DEF Creates

\* A commit of c that leads from its state s to the state new.
IsCommitOf(c, s, commit, new) ==
  /\ IsCommit(commit, proposals) /\ commit.content.sender = c /\ commit.content.epoch = EpochOf(s)
  /\ Leads(commit, s, new)
  /\ commit.welcome.to \intersect DOMAIN s.ratchetTree = {}
  /\ DOMAIN s.ratchetTree \subseteq DOMAIN commit.welcome.groupInfo.ratchetTree
  /\ entry[c].pendingLeafUpdate = {} /\ s.privateKey = s.ratchetTree[c] => new.privateKey = new.ratchetTree[c]

\* Commit: the state it leads to and the messages sent.
LEMMA Made ==
  ASSUME ProposalInv, NEW c \in DOMAIN entry, NEW s, IsGroupState(c, s),
         EpochOf(s) = EpochOf(entry[c].state), s.unappliedProposals \subseteq ProposalsOf(EpochOf(s)),
         NEW kinds, NEW t, DOMAIN t.ratchetTree \subseteq Client,
         NEW extra \in {<<>>} \union {<<p>> : p \in Requests(kinds, t)}, NEW pskState, NEW external,
         NEW created \in CreateCommit(c, s, pskState, external, extra),
         NEW commit, commit = Sent(created, s)
  PROVE  IsCommitOf(c, s, commit, created.newState)
<1> DEFINE items == BundleAllProposals(s, c, extra)
           new == created.newState
           info == commit.welcome.groupInfo
           e == EpochOf(s)
<1>1. \A i \in DOMAIN items : IsItem(items[i], e, proposals)
  BY BundledItems
<1>2. PICK applied \in ApplyProposals(s, items, c, pskState, external) : Creates(c, s, items, applied, created)
  BY CreatedCommit
<1> HIDE DEF items, new
<1>3. /\ commit.content = created.content /\ commit.confirmationTag = ConfirmationTag(new.epochSecret)
      /\ commit.welcome = Welcome(created, s)
  BY DEF Sent, new
<1>4. /\ commit.content.epoch = e /\ commit.content.sender = c /\ commit.content.proposals = items
      /\ created.added = DOMAIN applied.tree \ DOMAIN s.ratchetTree /\ created.pskSecret = applied.pskSecret
  BY <1>2, <1>3 DEF Creates
<1>5. IsClientState(s) /\ c \in DOMAIN s.ratchetTree /\ DOMAIN s.ratchetTree \subseteq Client
  BY DEF IsGroupState
<1>6. /\ applied.tree = ApplyTreeMutations(s.ratchetTree, items)
      /\ DOMAIN applied.tree = DOMAIN s.ratchetTree \union ClientsAdded(items)
  <2>1. applied.tree = ApplyTreeMutations(s.ratchetTree, items)
    BY AppliedProposals
  <2> QED
    BY <2>1, MutatedLeaves
<1> USE DEF OwnState
<1>7. PICK tree, key : OwnState(c, s, applied, created, tree, key)
  <2> HIDE DEF OwnState
  <2>1. c \in DOMAIN applied.tree
    BY <1>5, <1>6
  <2> QED
    BY <1>2, <1>5, <2>1, OwnNewState
<1>8. Leads(commit, s, new)
  <2>1. \A i \in DOMAIN commit.content.proposals : IsProposal(commit.content.proposals[i].proposal, "group")
    BY <1>1, <1>4 DEF IsItem
  <2>2. applied \in ApplyProposals(s, commit.content.proposals, c, pskState, external)
    BY <1>4
  <2>3. /\ new = EpochStarted(s, applied, commit.content, tree, key) /\ DOMAIN tree = DOMAIN applied.tree
        /\ ConfirmationTag(new.epochSecret) = commit.confirmationTag /\ commit.content.epoch = EpochOf(s)
    BY <1>3, <1>4, <1>7 DEF new
  <2> HIDE DEF OwnState
  <2> QED
    BY <1>5, <2>1, <2>2, <2>3, LeadsOn
<1>9. /\ commit.welcome.to = DOMAIN applied.tree \ DOMAIN s.ratchetTree
      /\ info.groupContext = new.groupContext /\ info.ratchetTree = tree
      /\ commit.welcome.sealedWith = ExtractWelcomeSecret(commit.welcome.joinerSecret, applied.pskSecret)
      /\ commit.welcome.joinerSecret =
           ExtractJoinerSecret(new.groupContext, InitSecret(s.epochSecret), created.content.path)
  BY <1>3, <1>4, <1>7, SentWelcome DEF new
<1>10. ClientsAdded(items) \subseteq Client
  BY <1>1 DEF ClientsAdded, OfKind, IsItem, IsProposal
<1>11. /\ IsContext(info.groupContext) /\ info.groupContext.groupId = "group"
       /\ info.groupContext.epoch = e + 1 /\ Len(info.groupContext.confirmedTranscriptHash) = e
       /\ DOMAIN info.ratchetTree \subseteq Client /\ e \in Nat \ {0}
  <2>2. IsGroupState(c, new) /\ EpochOf(new) = e + 1
    BY <1>4, <1>8, <1>10, LedToGroupState DEF AddedBy
  <2>3. e \in Nat \ {0}
    BY DEF IsGroupState
  <2> QED
    BY <1>9, <2>2, <2>3, <1>7 DEF IsGroupState, IsClientState, EpochOf, new
<1>12. commit.welcome.to \subseteq DOMAIN info.ratchetTree \intersect AddedBy(commit)
  BY <1>4, <1>6, <1>7, <1>9 DEF AddedBy
<1>13. ASSUME NEW d \in commit.welcome.to PROVE info.ratchetTree[d] = PackageKey(d, "group")
  <2>1. d # c /\ d \in DOMAIN applied.tree /\ d \notin DOMAIN s.ratchetTree
    BY <1>5, <1>9
  <2>2. info.ratchetTree[d] = applied.tree[d]
    BY <1>7, <1>9, <2>1
  <2>3. PICK i \in OfKind(items, "add") : items[i].proposal.client = d /\ applied.tree[d] = items[i].proposal.key
    BY <1>6, <2>1, AddedLeaf
  <2>4. IsProposal(items[i].proposal, "group") /\ items[i].proposal.kind = "add"
    BY <1>1, <2>3 DEF OfKind, IsItem
  <2> QED
    BY <2>2, <2>3, <2>4 DEF IsProposal
<1>14. ASSUME NEW p, ExtractWelcomeSecret(commit.welcome.joinerSecret, p) = commit.welcome.sealedWith
       PROVE  ConfirmationTag(ExtractEpochSecret(info.groupContext, commit.welcome.joinerSecret, p))
                = commit.confirmationTag
  <2>1. p = applied.pskSecret
    BY <1>9, <1>14 DEF ExtractWelcomeSecret
  <2>2. new.epochSecret = ExtractEpochSecret(new.groupContext, commit.welcome.joinerSecret, applied.pskSecret)
    BY <1>5, <1>7, <1>9, StartedEpoch DEF new
  <2> QED
    BY <1>3, <1>9, <2>1, <2>2
<1>15. IsCommit(commit, proposals)
  BY <1>1, <1>4, <1>11, <1>12, <1>13, <1>14 DEF IsCommit
<1>16. ASSUME entry[c].pendingLeafUpdate = {}, s.privateKey = s.ratchetTree[c]
       PROVE  new.privateKey = new.ratchetTree[c]
  <2>1. applied.tree[c] = s.ratchetTree[c]
    BY <1>1, <1>5, <1>6, <1>16, OwnLeafKept
  <2> QED
    BY <1>7, <1>16, <2>1 DEF new
<1>17. /\ commit.welcome.to \intersect DOMAIN s.ratchetTree = {}
       /\ DOMAIN s.ratchetTree \subseteq DOMAIN info.ratchetTree
  BY <1>6, <1>7, <1>9
<1> QED
  BY <1>4, <1>8, <1>15, <1>16, <1>17 DEF new, IsCommitOf

-----------------------------------------------------------------------------
(* What following another's commit comes to.                               *)

\* Where a commit leads does not depend on the private key nor on what is pending.
LEMMA LeadsFrom ==
  ASSUME NEW s, NEW t, t.groupContext = s.groupContext, t.epochSecret = s.epochSecret,
         t.historicalReceiverData = s.historicalReceiverData, t.ratchetTree = s.ratchetTree,
         NEW commit, NEW new, Leads(commit, t, new)
  PROVE  Leads(commit, s, new)
<1>1. AddHistoricalReceiverData(t) = AddHistoricalReceiverData(s)
  BY DEF AddHistoricalReceiverData
<1> QED
  BY <1>1 DEF Leads, EpochOf

\* The tree after another's commit.
FollowsTo(c, s, commit, applied, new, tree) ==
  /\ new = EpochStarted(s, applied, commit.content, tree, s.privateKey)
  /\ new.ratchetTree = tree /\ new.privateKey = s.privateKey
  /\ DOMAIN tree = DOMAIN applied.tree /\ tree[c] = applied.tree[c]

LEMMA FollowedTree ==
  ASSUME NEW s, IsClientState(s), NEW commit, NEW applied, NEW new, Follows(s, commit, applied, new),
         NEW c, c # commit.content.sender, c \in DOMAIN applied.tree
  PROVE  \E tree : FollowsTo(c, s, commit, applied, new, tree)
<1>1. PICK tree : /\ new = EpochStarted(s, applied, commit.content, tree, s.privateKey)
                  /\ \/ tree = applied.tree
                     \/ \E key : tree = [applied.tree EXCEPT ![commit.content.sender] = key]
  BY DEF Follows
<1>2. DOMAIN tree = DOMAIN applied.tree /\ tree[c] = applied.tree[c]
  BY <1>1
<1>3. new.ratchetTree = tree /\ new.privateKey = s.privateKey
  BY <1>1, StartedEpoch
<1> QED
  BY <1>1, <1>2, <1>3 DEF FollowsTo

LEMMA Followed ==
  ASSUME ProposalInv, NEW c \in DOMAIN entry, NEW s, IsGroupState(c, s), EpochOf(s) = EpochOf(entry[c].state),
         NEW t, IsClientState(t), t.groupContext = s.groupContext, t.ratchetTree = s.ratchetTree,
         t.epochSecret = s.epochSecret, t.historicalReceiverData = s.historicalReceiverData,
         NEW commit, IsCommit(commit, proposals), commit.content.sender # c,
         NEW external, NEW new \in ProcessCommit(c, t, external, commit)
  PROVE  /\ commit.content.epoch = EpochOf(s)
         /\ Leads(commit, s, new)
         /\ new.privateKey = t.privateKey
         /\ entry[c].pendingLeafUpdate = {} => new.ratchetTree[c] = s.ratchetTree[c]
<1> DEFINE items == commit.content.proposals
<1>1. c \in DOMAIN s.ratchetTree
  BY DEF IsGroupState
<1>2. /\ commit.content.epoch = EpochOf(t)
      /\ ConfirmationTag(new.epochSecret) = commit.confirmationTag
      /\ \E applied \in ApplyProposals(t, commit.content.proposals, commit.content.sender, {t}, external) :
           Follows(t, commit, applied, new)
  <2>1. IsFollowed(t, external, commit, new)
    BY ProcessedCommit
  <2> QED
    BY <2>1 DEF IsFollowed
<1>3. PICK applied \in ApplyProposals(t, commit.content.proposals, commit.content.sender, {t}, external) :
        Follows(t, commit, applied, new)
  BY <1>2
<1>4. EpochOf(t) = EpochOf(s)
  BY DEF EpochOf
<1>5. applied.tree = ApplyTreeMutations(s.ratchetTree, items)
  BY <1>3, AppliedProposals
<1>6. \A i \in DOMAIN items : IsItem(items[i], EpochOf(s), proposals) /\ IsProposal(items[i].proposal, "group")
  BY <1>2, <1>4 DEF IsCommit, IsItem
<1> HIDE DEF items
<1>7. c \in DOMAIN applied.tree
  BY <1>1, <1>5, MutatedLeaves
<1>8. PICK tree : FollowsTo(c, t, commit, applied, new, tree)
  BY <1>3, <1>7, FollowedTree
<1>9. Leads(commit, t, new)
  <2>1. \A i \in DOMAIN commit.content.proposals : IsProposal(commit.content.proposals[i].proposal, "group")
    BY <1>6 DEF items
  <2> QED
    BY <1>2, <1>3, <1>8, <2>1, LeadsOn DEF FollowsTo
<1>10. Leads(commit, s, new)
  BY <1>9, LeadsFrom
<1>11. ASSUME entry[c].pendingLeafUpdate = {} PROVE new.ratchetTree[c] = s.ratchetTree[c]
  <2>1. applied.tree[c] = s.ratchetTree[c]
    BY <1>1, <1>4, <1>5, <1>6, <1>11, OwnLeafKept
  <2> QED
    BY <1>8, <2>1 DEF FollowsTo
<1> QED
  BY <1>2, <1>4, <1>8, <1>10, <1>11 DEF FollowsTo

-----------------------------------------------------------------------------
(* The steps, by what they do to the entry of the client that takes them.  *)

\* A state with the same fields but for what is pending.
LEMMA StillGroupState ==
  ASSUME NEW c, NEW s, IsGroupState(c, s), NEW t, SameButPending(t, s), t.generation \in Nat
  PROVE  IsGroupState(c, t) /\ EpochOf(t) = EpochOf(s)
BY DEF IsGroupState, SameButPending, EpochOf

LEMMA StillLeads ==
  ASSUME NEW s, NEW t, SameButPending(t, s), NEW commit, NEW new, Leads(commit, s, new)
  PROVE  Leads(commit, t, new)
<1>1. /\ s.groupContext = t.groupContext /\ s.epochSecret = t.epochSecret
      /\ s.historicalReceiverData = t.historicalReceiverData /\ s.ratchetTree = t.ratchetTree
  BY DEF SameButPending
<1> QED
  BY <1>1, LeadsFrom

\* In an entry new of client c after old the client is still in its epoch, with
\* of the proposals in fresh some more than it had, and keys pending.
StaysInEpoch(old, new, fresh, keys) ==
  /\ IsEntry(new)
  /\ SameButPending(new.state, old.state)
  /\ \A p \in new.state.unappliedProposals :
       p \in old.state.unappliedProposals \/ (p \in fresh /\ p.epoch = EpochOf(old.state))
  /\ new.ingestedBytes \subseteq old.ingestedBytes \union fresh
  /\ new.pendingLeafUpdate = keys

\* Only the entry of c has changed.
Changes(c) ==
  /\ entry' = [d \in DOMAIN entry' |-> entry'[d]] /\ DOMAIN entry' = DOMAIN entry
  /\ \A d \in DOMAIN entry : d # c => entry'[d] = entry[d]

LEMMA Changed ==
  ASSUME entry = [d \in DOMAIN entry |-> entry[d]], NEW c \in DOMAIN entry, NEW e,
         entry' = [entry EXCEPT ![c] = e]
  PROVE  Changes(c) /\ entry'[c] = e
BY DEF Changes

WithPending(s, pending, next) == [s EXCEPT !.unappliedProposals = pending, !.generation = next]

LEMMA WithProposal ==
  ASSUME NEW s, IsClientState(s), NEW pending, NEW next, NEW t, t = WithPending(s, pending, next)
  PROVE  SameButPending(t, s) /\ t.unappliedProposals = pending /\ t.generation = next
<1>1. t = [groupContext |-> s.groupContext, ratchetTree |-> s.ratchetTree, privateKey |-> s.privateKey,
           unappliedProposals |-> pending, generation |-> next, opened |-> s.opened,
           epochSecret |-> s.epochSecret, historicalReceiverData |-> s.historicalReceiverData,
           groupActiveState |-> s.groupActiveState, reinit |-> s.reinit]
  BY DEF IsClientState, WithPending
<1> QED
  BY <1>1 DEF SameButPending, IsClientState

WithStateAndKeys(old, state, keys) == [old EXCEPT !.state = state, !.pendingLeafUpdate = keys]

LEMMA WithProposalPending ==
  ASSUME NEW old, IsEntry(old), NEW state, IsClientState(state), NEW keys,
         NEW new, new = WithStateAndKeys(old, state, keys)
  PROVE  /\ IsEntry(new) /\ new.state = state /\ new.pendingNewState = old.pendingNewState
         /\ new.pendingLeafUpdate = keys /\ new.ingestedBytes = old.ingestedBytes
<1>1. new = [state |-> state, pendingNewState |-> old.pendingNewState,
             pendingLeafUpdate |-> keys, ingestedBytes |-> old.ingestedBytes]
  BY DEF IsEntry, WithStateAndKeys
<1> QED
  BY <1>1 DEF IsEntry

\* A proposal of its own.
LEMMA Proposed ==
  ASSUME StoreInv, NEW c \in DOMAIN entry, NEW proposal, NEW keys, MakeProposal(c, proposal, keys)
  PROVE  \E message :
           /\ message.epoch = EpochOf(entry[c].state) /\ message.sender = c
           /\ message.generation = entry[c].state.generation /\ message.proposal = proposal
           /\ proposals' = proposals \union {message}
           /\ Changes(c) /\ StaysInEpoch(entry[c], entry'[c], {message}, keys)
           /\ entry'[c].pendingNewState = entry[c].pendingNewState
           /\ entry'[c].state.generation
                = IF scenario.private THEN entry[c].state.generation + 1 ELSE entry[c].state.generation
           /\ UNCHANGED <<scenario, psks, keyPackages, reinits, resumed, commits, accepted, welcomes>>
<1> DEFINE old == entry[c]
           s == old.state
           message == [epoch |-> EpochOf(s), sender |-> c, generation |-> s.generation, proposal |-> proposal]
           pending == s.unappliedProposals \union {message}
           next == IF scenario.private THEN s.generation + 1 ELSE s.generation
           state == [s EXCEPT !.unappliedProposals = pending, !.generation = next]
           new == [old EXCEPT !.state = state, !.pendingLeafUpdate = keys]
<1>1. IsEntry(old) /\ entry = [d \in DOMAIN entry |-> entry[d]]
  BY DEF StoreInv
<1>2. entry' = [entry EXCEPT ![c] = new] /\ proposals' = proposals \union {message}
  BY DEF MakeProposal
<1>3. UNCHANGED <<scenario, psks, keyPackages, reinits, resumed, commits, accepted, welcomes>>
  BY DEF MakeProposal
<1>4. /\ message.epoch = EpochOf(s) /\ message.sender = c
      /\ message.generation = s.generation /\ message.proposal = proposal
  OBVIOUS
<1> HIDE DEF message, next
<1>5. SameButPending(state, s) /\ state.unappliedProposals = pending /\ state.generation = next
  <2>1. IsClientState(s) /\ state = WithPending(s, pending, next)
    BY <1>1 DEF IsEntry, WithPending
  <2> HIDE DEF state, pending, s
  <2> QED
    BY <2>1, WithProposal
<1> HIDE DEF state, pending
<1>6. /\ IsEntry(new) /\ new.state = state /\ new.pendingNewState = old.pendingNewState
      /\ new.pendingLeafUpdate = keys /\ new.ingestedBytes = old.ingestedBytes
  <2>1. new = WithStateAndKeys(old, state, keys) /\ IsClientState(state)
    BY <1>5 DEF SameButPending, WithStateAndKeys
  <2> HIDE DEF new, old
  <2> QED
    BY <1>1, <2>1, WithProposalPending
<1> HIDE DEF new
<1>7. Changes(c) /\ entry'[c] = new
  BY <1>1, <1>2, Changed
<1>8. StaysInEpoch(old, new, {message}, keys)
  BY <1>4, <1>5, <1>6 DEF StaysInEpoch, pending
<1> QED
  BY <1>2, <1>3, <1>4, <1>5, <1>6, <1>7, <1>8 DEF next

\* A call that throws: only what it marked as ingested stays.
LEMMA Marked ==
  ASSUME NEW old, IsEntry(old), NEW bytes, NEW new, new = [old EXCEPT !.ingestedBytes = bytes]
  PROVE  /\ IsEntry(new) /\ new.state = old.state /\ new.pendingNewState = old.pendingNewState
         /\ new.pendingLeafUpdate = old.pendingLeafUpdate /\ new.ingestedBytes = bytes
<1>1. new = [state |-> old.state, pendingNewState |-> old.pendingNewState,
             pendingLeafUpdate |-> old.pendingLeafUpdate, ingestedBytes |-> bytes]
  BY DEF IsEntry
<1> QED
  BY <1>1 DEF IsEntry

LEMMA SameIsSame ==
  ASSUME NEW s, IsClientState(s)
  PROVE  SameButPending(s, s)
BY DEF SameButPending

LEMMA Failed ==
  ASSUME StoreInv, NEW c \in DOMAIN entry, NEW messages, Threw(c, IngestAll(c, messages))
  PROVE  /\ Changes(c) /\ StaysInEpoch(entry[c], entry'[c], messages, entry[c].pendingLeafUpdate)
         /\ entry'[c].state = entry[c].state /\ entry'[c].pendingNewState = entry[c].pendingNewState
<1> DEFINE bytes == IngestAll(c, messages).ingestedBytes
           new == [entry[c] EXCEPT !.ingestedBytes = bytes]
<1>1. IsEntry(entry[c]) /\ entry = [d \in DOMAIN entry |-> entry[d]]
  BY DEF StoreInv
<1>2. bytes \subseteq entry[c].ingestedBytes \union messages
  BY <1>1, Ingested
<1>3. entry' = [entry EXCEPT ![c] = new]
  BY DEF Threw
<1> HIDE DEF bytes
<1>4. /\ IsEntry(new) /\ new.state = entry[c].state /\ new.pendingNewState = entry[c].pendingNewState
      /\ new.pendingLeafUpdate = entry[c].pendingLeafUpdate /\ new.ingestedBytes = bytes
  BY <1>1, Marked
<1> HIDE DEF new
<1>5. Changes(c) /\ entry'[c] = new
  BY <1>1, <1>3, Changed
<1>6. SameButPending(new.state, entry[c].state)
  BY <1>1, <1>4, SameIsSame DEF IsEntry
<1> QED
  BY <1>2, <1>4, <1>5, <1>6 DEF StaysInEpoch

\* Commit when it succeeds: the new state waits.
WithWaiting(old, new) == [old EXCEPT !.pendingNewState = {new}]

LEMMA Waiting ==
  ASSUME NEW old, IsEntry(old), NEW state, NEW new, new = WithWaiting(old, state)
  PROVE  /\ IsEntry(new) /\ new.state = old.state /\ new.pendingNewState = {state}
         /\ new.pendingLeafUpdate = old.pendingLeafUpdate /\ new.ingestedBytes = old.ingestedBytes
<1>1. new = [state |-> old.state, pendingNewState |-> {state},
             pendingLeafUpdate |-> old.pendingLeafUpdate, ingestedBytes |-> old.ingestedBytes]
  BY DEF IsEntry, WithWaiting
<1> QED
  BY <1>1 DEF IsEntry

\* The client enters the epoch that its own or the accepted commit leads to, in
\* state new, or with the key that its Update proposal gave its leaf.
EntersEpoch(c, old, next, new) ==
  /\ IsEntry(next) /\ next.pendingNewState = {}
  /\ next.state.groupContext = new.groupContext /\ next.state.ratchetTree = new.ratchetTree
  /\ next.state.unappliedProposals = new.unappliedProposals /\ next.state.generation = new.generation
  /\ next.state.epochSecret = new.epochSecret
  /\ next.state.historicalReceiverData = new.historicalReceiverData
  /\ next.state.groupActiveState = new.groupActiveState /\ next.state.reinit = new.reinit
  /\ next.ingestedBytes = old.ingestedBytes
  /\ \/ next.state.privateKey = new.ratchetTree[c]
     \/ next.state.privateKey = new.privateKey /\ next.pendingLeafUpdate = old.pendingLeafUpdate

LEMMA Entered ==
  ASSUME NEW c, NEW old, IsEntry(old), NEW new, IsClientState(new),
         NEW next, next = ApplyPendingLeafUpdate(c, old, new)
  PROVE  EntersEpoch(c, old, next, new)
<1>1. CASE new.ratchetTree[c] \in old.pendingLeafUpdate
  <2> DEFINE key == new.ratchetTree[c]
             state == WithKey(new, key)
  <2>1. next = [old EXCEPT !.state = state, !.pendingLeafUpdate = {}, !.pendingNewState = {}]
    BY <1>1 DEF ApplyPendingLeafUpdate, WithKey
  <2> HIDE DEF key
  <2>2. /\ IsClientState(state) /\ state.privateKey = key
        /\ state.groupContext = new.groupContext /\ state.ratchetTree = new.ratchetTree
        /\ state.unappliedProposals = new.unappliedProposals /\ state.generation = new.generation
        /\ state.epochSecret = new.epochSecret /\ state.historicalReceiverData = new.historicalReceiverData
        /\ state.groupActiveState = new.groupActiveState /\ state.reinit = new.reinit
    BY WithPrivateKey
  <2> HIDE DEF state
  <2>3. next = [state |-> state, pendingNewState |-> {},
                pendingLeafUpdate |-> {}, ingestedBytes |-> old.ingestedBytes]
    BY <2>1 DEF IsEntry
  <2>4. /\ next.state = state /\ next.pendingNewState = {} /\ next.ingestedBytes = old.ingestedBytes
        /\ IsEntry(next)
    BY <2>2, <2>3 DEF IsEntry
  <2> QED
    BY <2>2, <2>4 DEF EntersEpoch, key
<1>2. CASE new.ratchetTree[c] \notin old.pendingLeafUpdate
  <2>1. next = [old EXCEPT !.state = new, !.pendingNewState = {}]
    BY <1>2 DEF ApplyPendingLeafUpdate
  <2>2. next = [state |-> new, pendingNewState |-> {},
                pendingLeafUpdate |-> old.pendingLeafUpdate, ingestedBytes |-> old.ingestedBytes]
    BY <2>1 DEF IsEntry
  <2>3. /\ next.state = new /\ next.pendingNewState = {} /\ next.pendingLeafUpdate = old.pendingLeafUpdate
        /\ next.ingestedBytes = old.ingestedBytes /\ IsEntry(next)
    BY <2>2 DEF IsEntry
  <2> QED
    BY <2>3 DEF EntersEpoch
<1> QED
  BY <1>1, <1>2

\* finishReInit.
LEMMA EnteredSuspended ==
  ASSUME NEW c, NEW old, IsEntry(old), NEW new, IsClientState(new),
         NEW next, next = [old EXCEPT !.state = new, !.pendingNewState = {}]
  PROVE  EntersEpoch(c, old, next, new)
<1>1. next = [state |-> new, pendingNewState |-> {},
              pendingLeafUpdate |-> old.pendingLeafUpdate, ingestedBytes |-> old.ingestedBytes]
  BY DEF IsEntry
<1>2. /\ next.state = new /\ next.pendingNewState = {} /\ next.pendingLeafUpdate = old.pendingLeafUpdate
      /\ next.ingestedBytes = old.ingestedBytes /\ IsEntry(next)
  BY <1>1 DEF IsEntry
<1> QED
  BY <1>2 DEF EntersEpoch

-----------------------------------------------------------------------------
(* The steps as the invariant needs to know them.                          *)

Unchanged == UNCHANGED <<scenario, keyPackages, resumed, accepted, welcomes>>

ProposeStep(c) ==
  \E message, keys :
    /\ message.epoch = EpochOf(entry[c].state) /\ message.sender = c
    /\ message.generation = entry[c].state.generation /\ IsProposal(message.proposal, "group")
    /\ keys = {} => entry[c].pendingLeafUpdate = {} /\ message.proposal.kind # "update"
    /\ proposals' = proposals \union {message}
    /\ Changes(c) /\ StaysInEpoch(entry[c], entry'[c], {message}, keys)
    /\ entry'[c].pendingNewState = entry[c].pendingNewState
    /\ entry'[c].state.generation
         = IF scenario.private THEN entry[c].state.generation + 1 ELSE entry[c].state.generation
    /\ UNCHANGED <<reinits, commits>> /\ Unchanged

IngestStep(c) ==
  \E messages \in SUBSET proposals :
    /\ Changes(c) /\ StaysInEpoch(entry[c], entry'[c], messages, entry[c].pendingLeafUpdate)
    /\ entry'[c].state = entry[c].state /\ entry'[c].pendingNewState = entry[c].pendingNewState
    /\ UNCHANGED <<reinits, proposals, commits>> /\ Unchanged

CommitStep(c) ==
  \E messages \in SUBSET proposals : \E commit, new :
    /\ IsCommitOf(c, entry'[c].state, commit, new)
    /\ EpochOf(entry[c].state) < scenario.maxEpoch
    /\ \A other \in commits : ~(other.content.sender = c /\ other.content.epoch = EpochOf(entry[c].state))
    /\ commits' = commits \union {commit}
    /\ Changes(c) /\ StaysInEpoch(entry[c], entry'[c], messages, entry[c].pendingLeafUpdate)
    /\ entry'[c].state.generation = entry[c].state.generation
    /\ entry'[c].pendingNewState = {new}
    /\ UNCHANGED <<reinits, proposals>> /\ Unchanged

EnterStep(c) ==
  /\ EpochOf(entry[c].state) \in DOMAIN accepted
  /\ \E new, e :
       /\ Leads(accepted[EpochOf(entry[c].state)], entry[c].state, new)
       /\ EntersEpoch(c, e, entry'[c], new) /\ Changes(c)
       /\ e.pendingLeafUpdate = entry[c].pendingLeafUpdate /\ e.ingestedBytes \subseteq proposals
       /\ entry[c].pendingLeafUpdate = {} => new.privateKey = new.ratchetTree[c]
       /\ \/ UNCHANGED reinits
          \/ /\ reinits' = [d \in DOMAIN reinits \union {c} |-> IF d = c THEN new ELSE reinits[d]]
             /\ new.groupActiveState = "suspendedPendingReinit"
  /\ UNCHANGED <<proposals, commits>> /\ Unchanged

\* c joins with the Welcome of a commit that was accepted.
JoinStep(c) ==
  /\ <<c, "group">> \in keyPackages /\ keyPackages' = keyPackages \ {<<c, "group">>}
  /\ \E e \in DOMAIN accepted : \E secret :
       LET welcome == accepted[e].welcome
       IN  /\ c \in welcome.to
           /\ \E p : /\ ExtractWelcomeSecret(welcome.joinerSecret, p) = welcome.sealedWith
                     /\ secret = ExtractEpochSecret(welcome.groupInfo.groupContext, welcome.joinerSecret, p)
           /\ entry' = [d \in DOMAIN entry \union {c} |->
                          IF d = c
                          THEN Inserted(ClientState(welcome.groupInfo.groupContext, welcome.groupInfo.ratchetTree,
                                                    PackageKey(c, "group"), secret, <<>>))
                          ELSE entry[d]]
  /\ UNCHANGED <<scenario, reinits, resumed, proposals, commits, accepted, welcomes>>

\* Clients resume the group.
ResumeStep ==
  \/ \E c \in DOMAIN entry : CreateBranch(c) \/ HandleBranch(c)
  \/ \E c \in DOMAIN reinits :
       \/ \E parameters \in scenario.parameters, with \in SUBSET (DOMAIN reinits \ {c}) :
            ReInitWelcome(c, parameters, with)
       \/ HandleReInitWelcome(c)

\* The group goes on as it was: PSKs are stored, a commit is accepted, key
\* packages are used up, clients resume.
QuietStep ==
  /\ keyPackages' \subseteq keyPackages
  /\ UNCHANGED <<scenario, entry, reinits, proposals, commits>>
  /\ \/ UNCHANGED <<accepted, resumed, welcomes>>
     \/ /\ \E commit \in commits :
             commit.content.epoch = Len(accepted) + 1 /\ accepted' = Append(accepted, commit)
        /\ UNCHANGED <<resumed, welcomes>>
     \/ UNCHANGED accepted /\ ResumeStep

LEMMA AwaitedCommit ==
  ASSUME AcceptedInv, NEW c \in DOMAIN entry, NEW commit \in Awaited(c)
  PROVE  /\ EpochOf(entry[c].state) \in DOMAIN accepted
         /\ commit = accepted[EpochOf(entry[c].state)]
         /\ commit \in commits /\ commit.content.epoch = EpochOf(entry[c].state)
<1> DEFINE e == EpochOf(entry[c].state)
<1>1. e \in DOMAIN accepted /\ commit = accepted[e]
  BY DEF Awaited
<1>2. accepted \in Seq(commits) /\ accepted[e].content.epoch = e
  BY <1>1 DEF AcceptedInv
<1>3. accepted[e] \in commits
  BY <1>1, <1>2
<1> QED
  BY <1>1, <1>2, <1>3

\* Client c has processed the commit with one of its leaf keys, and got new.
Processed(c, e, commit, key, external, new) ==
  /\ key \in {e.state.privateKey} \union e.pendingLeafUpdate
  /\ new \in ProcessCommit(c, WithKey(e.state, key), external, commit)

LEMMA FollowedFromEntry ==
  ASSUME StoreInv, ProposalInv, CommitInv, LeafKeyInv, NEW c \in DOMAIN entry, NEW messages,
         NEW e, e = IngestAll(c, messages), NEW commit \in commits, commit.content.sender # c,
         NEW key, NEW external, NEW new, Processed(c, e, commit, key, external, new)
  PROVE  /\ Leads(commit, entry[c].state, new)
         /\ entry[c].pendingLeafUpdate = {} => new.privateKey = new.ratchetTree[c]
<1> DEFINE s == entry[c].state
           t == WithKey(e.state, key)
<1>1. IsEntry(entry[c]) /\ IsGroupState(c, s)
  BY DEF StoreInv
<1>2. /\ IsEntry(e) /\ SameButPending(e.state, s) /\ e.pendingLeafUpdate = entry[c].pendingLeafUpdate
  BY <1>1, Ingested
<1>3. /\ IsClientState(t) /\ t.privateKey = key
      /\ t.groupContext = s.groupContext /\ t.ratchetTree = s.ratchetTree
      /\ t.epochSecret = s.epochSecret /\ t.historicalReceiverData = s.historicalReceiverData
  BY <1>2, WithPrivateKey DEF SameButPending
<1>4. new \in ProcessCommit(c, t, external, commit) /\ key \in {e.state.privateKey} \union e.pendingLeafUpdate
  BY DEF Processed
<1>5. IsCommit(commit, proposals)
  BY DEF CommitInv
<1> HIDE DEF t, s
<1>6. /\ Leads(commit, s, new) /\ new.privateKey = t.privateKey
      /\ entry[c].pendingLeafUpdate = {} => new.ratchetTree[c] = s.ratchetTree[c]
  <2>1. EpochOf(s) = EpochOf(entry[c].state)
    BY DEF s
  <2> QED
    BY <1>1, <1>3, <1>4, <1>5, <2>1, Followed
<1>7. ASSUME entry[c].pendingLeafUpdate = {} PROVE new.privateKey = new.ratchetTree[c]
  <2>1. key = s.privateKey
    BY <1>2, <1>4, <1>7 DEF SameButPending
  <2>2. s.privateKey = s.ratchetTree[c]
    BY <1>7 DEF LeafKeyInv, s
  <2> QED
    BY <1>3, <1>6, <1>7, <2>1, <2>2
<1> QED
  BY <1>6, <1>7 DEF s

LEMMA Proposes ==
  ASSUME StoreInv, NEW c \in DOMAIN entry, Propose(c) \/ UpdateProposal(c)
  PROVE  ProposeStep(c)
<1>1. \E proposal, keys :
        /\ MakeProposal(c, proposal, keys) /\ IsProposal(proposal, "group")
        /\ keys = {} => entry[c].pendingLeafUpdate = {} /\ proposal.kind # "update"
  <2>1. CASE Propose(c)
    <3>1. PICK proposal \in Requests(scenario.byReference, entry[c].state) :
            MakeProposal(c, proposal, entry[c].pendingLeafUpdate)
      BY <2>1 DEF Propose
    <3>2. DOMAIN entry[c].state.ratchetTree \subseteq Client
      BY DEF StoreInv, IsGroupState
    <3>3. IsProposal(proposal, "group") /\ proposal.kind # "update"
      BY <3>2, Requested
    <3> QED
      BY <3>1, <3>3
  <2>2. CASE UpdateProposal(c)
    <3>1. PICK key : MakeProposal(c, [kind |-> "update", key |-> key], {key})
      BY <2>2 DEF UpdateProposal
    <3>2. IsProposal([kind |-> "update", key |-> key], "group") /\ {key} # {}
      BY DEF IsProposal
    <3> QED
      BY <3>1, <3>2
  <2> QED
    BY <2>1, <2>2
<1>2. PICK proposal, keys :
        /\ MakeProposal(c, proposal, keys) /\ IsProposal(proposal, "group")
        /\ keys = {} => entry[c].pendingLeafUpdate = {} /\ proposal.kind # "update"
  BY <1>1
<1>3. PICK message :
        /\ message.epoch = EpochOf(entry[c].state) /\ message.sender = c
        /\ message.generation = entry[c].state.generation /\ message.proposal = proposal
        /\ proposals' = proposals \union {message}
        /\ Changes(c) /\ StaysInEpoch(entry[c], entry'[c], {message}, keys)
        /\ entry'[c].pendingNewState = entry[c].pendingNewState
        /\ entry'[c].state.generation
             = IF scenario.private THEN entry[c].state.generation + 1 ELSE entry[c].state.generation
        /\ UNCHANGED <<scenario, psks, keyPackages, reinits, resumed, commits, accepted, welcomes>>
  BY <1>2, Proposed
<1> QED
  BY <1>2, <1>3 DEF ProposeStep, Unchanged

LEMMA Commits ==
  ASSUME StoreInv, ProposalInv, NEW c \in DOMAIN entry, Commit(c)
  PROVE  IngestStep(c) \/ CommitStep(c)
<1> DEFINE s == entry[c].state
<1> DEFINE Outcome(e, results) ==
             \/ /\ results = {}
                /\ Threw(c, e)
                /\ UNCHANGED commits
             \/ \E created \in results :
                  /\ entry' = [entry EXCEPT ![c] = [e EXCEPT !.pendingNewState = {created.newState}]]
                  /\ commits' = commits \union
                       {[content         |-> created.content,
                         generation      |-> e.state.generation,
                         confirmationTag |-> ConfirmationTag(created.newState.epochSecret),
                         welcome         |-> Welcome(created, e.state)]}
<1>1. \E messages \in SUBSET {p \in ProposalsOf(EpochOf(s)) : p.sender # c},
         extra \in {<<>>} \union {<<p>> : p \in Requests(scenario.byValue, s)} :
        \E e \in {IngestAll(c, messages)} :
          \E results \in {CreateCommit(c, e.state, {e.state}, psks[c], extra)} : Outcome(e, results)
  BY DEF Commit
<1>2. PICK messages \in SUBSET {p \in ProposalsOf(EpochOf(s)) : p.sender # c},
           extra \in {<<>>} \union {<<p>> : p \in Requests(scenario.byValue, s)} :
        Outcome(IngestAll(c, messages),
                CreateCommit(c, IngestAll(c, messages).state, {IngestAll(c, messages).state}, psks[c], extra))
  <2> HIDE DEF Outcome
  <2> QED
    BY <1>1
<1>3. messages \in SUBSET proposals
  BY <1>2 DEF ProposalsOf
<1>4. /\ EpochOf(s) < scenario.maxEpoch
      /\ \A commit \in commits : ~(commit.content.sender = c /\ commit.content.epoch = EpochOf(s))
      /\ UNCHANGED <<reinits, proposals>> /\ Unchanged
  BY DEF Commit, Unchanged
<1>5. CASE Threw(c, IngestAll(c, messages)) /\ UNCHANGED commits
  BY <1>3, <1>4, <1>5, Failed DEF IngestStep
<1>6. ASSUME NEW created \in CreateCommit(c, IngestAll(c, messages).state, {IngestAll(c, messages).state}, psks[c], extra),
             entry' = [entry EXCEPT ![c] = WithWaiting(IngestAll(c, messages), created.newState)],
             commits' = commits \union {Sent(created, IngestAll(c, messages).state)}
      PROVE  CommitStep(c)
  <2> DEFINE e == IngestAll(c, messages)
             new == created.newState
             next == WithWaiting(e, new)
             commit == Sent(created, e.state)
  <2>1. IsEntry(entry[c]) /\ IsGroupState(c, s) /\ s.unappliedProposals \subseteq ProposalsOf(EpochOf(s))
        /\ entry = [d \in DOMAIN entry |-> entry[d]]
    BY DEF StoreInv
  <2>2. /\ IsEntry(e)
        /\ SameButPending(e.state, s) /\ e.state.generation = s.generation
        /\ e.pendingLeafUpdate = entry[c].pendingLeafUpdate
        /\ e.ingestedBytes \subseteq entry[c].ingestedBytes \union messages
        /\ \A p \in e.state.unappliedProposals :
             p \in s.unappliedProposals \/ (p \in messages /\ p.epoch = EpochOf(s))
    BY <2>1, Ingested
  <2>3. entry' = [entry EXCEPT ![c] = next] /\ commits' = commits \union {commit}
    BY <1>6
  <2>4. created \in CreateCommit(c, e.state, {e.state}, psks[c], extra)
    BY <1>6
  <2> HIDE DEF e, new, commit
  <2>5. /\ IsEntry(next) /\ next.state = e.state /\ next.pendingNewState = {new}
        /\ next.pendingLeafUpdate = e.pendingLeafUpdate /\ next.ingestedBytes = e.ingestedBytes
    BY <2>2, Waiting
  <2> HIDE DEF next
  <2>6. Changes(c) /\ entry'[c] = next
    BY <2>1, <2>3, Changed
  <2>7. StaysInEpoch(entry[c], entry'[c], messages, entry[c].pendingLeafUpdate)
    BY <2>2, <2>5, <2>6 DEF StaysInEpoch
  <2>8. IsGroupState(c, e.state) /\ EpochOf(e.state) = EpochOf(s)
    BY <2>1, <2>2, StillGroupState DEF IsGroupState
  <2>9. e.state.unappliedProposals \subseteq ProposalsOf(EpochOf(e.state))
    BY <1>3, <2>1, <2>2, <2>8 DEF ProposalsOf
  <2>10. IsCommitOf(c, e.state, commit, new)
    <3>1. DOMAIN s.ratchetTree \subseteq Client /\ commit = Sent(created, e.state)
      BY <2>1 DEF IsGroupState, commit
    <3>2. extra \in {<<>>} \union {<<p>> : p \in Requests(scenario.byValue, s)}
      BY <1>2
    <3> HIDE DEF s
    <3>3. IsCommitOf(c, e.state, commit, created.newState)
      BY <2>4, <2>8, <2>9, <3>1, <3>2, Made DEF s
    <3> QED
      BY <3>3 DEF new
  <2> QED
    BY <1>3, <1>4, <2>2, <2>3, <2>5, <2>6, <2>7, <2>10 DEF CommitStep
<1>7. \/ Threw(c, IngestAll(c, messages)) /\ UNCHANGED commits
      \/ \E created \in CreateCommit(c, IngestAll(c, messages).state, {IngestAll(c, messages).state}, psks[c], extra) :
           /\ entry' = [entry EXCEPT ![c] = WithWaiting(IngestAll(c, messages), created.newState)]
           /\ commits' = commits \union {Sent(created, IngestAll(c, messages).state)}
  BY <1>2 DEF WithWaiting, Sent
<1> QED
  BY <1>5, <1>6, <1>7

\* The proposals a commit refers to have been sent.
LEMMA ReferredTo ==
  ASSUME CommitInv, NEW commit \in commits
  PROVE  References(commit) \in SUBSET proposals
<1>1. \A i \in DOMAIN commit.content.proposals : IsItem(commit.content.proposals[i], commit.content.epoch, proposals)
  BY DEF CommitInv, IsCommit
<1> QED
  BY <1>1 DEF References, IsItem

\* The state the commit another has sent leads to is entered.
LEMMA EntersWith ==
  ASSUME StoreInv, NEW c \in DOMAIN entry, NEW messages \in SUBSET proposals, NEW e, e = IngestAll(c, messages)
  PROVE  /\ IsEntry(e) /\ e.pendingLeafUpdate = entry[c].pendingLeafUpdate /\ e.ingestedBytes \subseteq proposals
         /\ e.state.privateKey = entry[c].state.privateKey
         /\ entry = [d \in DOMAIN entry |-> entry[d]]
<1>1. IsEntry(entry[c]) /\ entry[c].ingestedBytes \subseteq proposals /\ entry = [d \in DOMAIN entry |-> entry[d]]
  BY DEF StoreInv
<1>2. /\ IsEntry(e) /\ e.pendingLeafUpdate = entry[c].pendingLeafUpdate
      /\ e.ingestedBytes \subseteq entry[c].ingestedBytes \union messages
      /\ SameButPending(e.state, entry[c].state)
  BY <1>1, Ingested
<1> QED
  BY <1>1, <1>2 DEF SameButPending

LEMMA HandlesCommit ==
  ASSUME StoreInv, ProposalInv, CommitInv, AcceptedInv, LeafKeyInv, NEW c \in DOMAIN entry, HandleCommit(c)
  PROVE  IngestStep(c) \/ EnterStep(c)
<1> DEFINE Outcome(e, results) ==
             \/ results = {} /\ Threw(c, e)
             \/ \E new \in results : entry' = [entry EXCEPT ![c] = ApplyPendingLeafUpdate(c, e, new)]
<1>1. \E commit \in Awaited(c) :
        /\ commit.content.sender # c
        /\ \E e \in {IngestAll(c, References(commit))} :
             \E results \in {ProcessCommitWithPendingLeaf(c, e, commit)} : Outcome(e, results)
  BY DEF HandleCommit
<1>2. PICK commit \in Awaited(c) :
        /\ commit.content.sender # c
        /\ Outcome(IngestAll(c, References(commit)),
                   ProcessCommitWithPendingLeaf(c, IngestAll(c, References(commit)), commit))
  <2> HIDE DEF Outcome
  <2> QED
    BY <1>1
<1>3. UNCHANGED <<reinits, proposals, commits>> /\ Unchanged
  BY DEF HandleCommit, Unchanged
<1>4. /\ EpochOf(entry[c].state) \in DOMAIN accepted
      /\ commit = accepted[EpochOf(entry[c].state)] /\ commit \in commits
  BY AwaitedCommit
<1> DEFINE messages == References(commit)
           e == IngestAll(c, messages)
<1>5. messages \in SUBSET proposals
  BY <1>4, ReferredTo
<1>6. CASE Threw(c, IngestAll(c, References(commit)))
  BY <1>3, <1>5, <1>6, Failed DEF IngestStep
<1> HIDE DEF messages
<1>7. ASSUME NEW new \in ProcessCommitWithPendingLeaf(c, e, commit),
             entry' = [entry EXCEPT ![c] = ApplyPendingLeafUpdate(c, e, new)]
      PROVE  EnterStep(c)
  <2> DEFINE next == ApplyPendingLeafUpdate(c, e, new)
  <2>1. /\ IsEntry(e) /\ e.pendingLeafUpdate = entry[c].pendingLeafUpdate /\ e.ingestedBytes \subseteq proposals
        /\ entry = [d \in DOMAIN entry |-> entry[d]]
    BY <1>5, EntersWith
  <2>2. PICK key : Processed(c, e, commit, key, psks[c], new)
    <3>1. \E key \in {e.state.privateKey} \union e.pendingLeafUpdate :
            new \in ProcessCommit(c, WithKey(e.state, key), psks[c], commit)
      BY <1>7, <2>1, ProcessedWithPendingLeaf
    <3> QED
      BY <3>1 DEF Processed
  <2>3. /\ Leads(commit, entry[c].state, new)
        /\ entry[c].pendingLeafUpdate = {} => new.privateKey = new.ratchetTree[c]
    BY <1>2, <1>4, <2>2, FollowedFromEntry
  <2>4. entry' = [entry EXCEPT ![c] = next]
    BY <1>7
  <2>5. EntersEpoch(c, e, next, new)
    BY <2>1, <2>3, Entered DEF Leads
  <2> HIDE DEF next, e
  <2>6. Changes(c) /\ entry'[c] = next
    BY <2>1, <2>4, Changed
  <2> QED
    BY <1>3, <1>4, <2>1, <2>3, <2>5, <2>6 DEF EnterStep
<1> QED
  BY <1>2, <1>6, <1>7 DEF messages

\* A client's own commit, when it is the accepted one, leads to the state that waits.
LEMMA OwnAccepted ==
  ASSUME StoreInv, CommitInv, AcceptedInv, NEW c \in DOMAIN entry, NEW commit \in Awaited(c),
         commit.content.sender = c, NEW new \in entry[c].pendingNewState
  PROVE  Leads(accepted[EpochOf(entry[c].state)], entry[c].state, new)
<1>1. /\ commit = accepted[EpochOf(entry[c].state)] /\ commit \in commits
      /\ commit.content.epoch = EpochOf(entry[c].state)
  BY AwaitedCommit
<1>2. PICK own \in commits : own.content.sender = c /\ Leads(own, entry[c].state, new)
  BY DEF StoreInv
<1>3. own.content.epoch = EpochOf(entry[c].state)
  BY <1>2 DEF Leads
<1>4. own = commit
  BY <1>1, <1>2, <1>3 DEF CommitInv
<1> QED
  BY <1>1, <1>2, <1>4

LEMMA HandlesPendingCommit ==
  ASSUME StoreInv, CommitInv, AcceptedInv, LeafKeyInv, NEW c \in DOMAIN entry, HandlePendingCommit(c)
  PROVE  EnterStep(c)
<1>1. PICK commit \in Awaited(c), new \in entry[c].pendingNewState :
        /\ commit.content.sender = c
        /\ entry' = [entry EXCEPT ![c] = ApplyPendingLeafUpdate(c, entry[c], new)]
  BY DEF HandlePendingCommit
<1>2. UNCHANGED <<reinits, proposals, commits>> /\ Unchanged
  BY DEF HandlePendingCommit, Unchanged
<1>3. EpochOf(entry[c].state) \in DOMAIN accepted
  BY AwaitedCommit
<1>4. Leads(accepted[EpochOf(entry[c].state)], entry[c].state, new)
  BY <1>1, OwnAccepted
<1>5. /\ IsEntry(entry[c]) /\ entry[c].ingestedBytes \subseteq proposals
      /\ entry = [d \in DOMAIN entry |-> entry[d]]
  BY DEF StoreInv
<1>6. entry[c].pendingLeafUpdate = {} => new.privateKey = new.ratchetTree[c]
  BY DEF LeafKeyInv
<1> DEFINE next == ApplyPendingLeafUpdate(c, entry[c], new)
<1>7. EntersEpoch(c, entry[c], next, new) /\ entry' = [entry EXCEPT ![c] = next]
  BY <1>1, <1>4, <1>5, Entered DEF Leads
<1> HIDE DEF next
<1>8. Changes(c) /\ entry'[c] = next
  BY <1>5, <1>7, Changed
<1> QED
  BY <1>2, <1>3, <1>4, <1>5, <1>6, <1>7, <1>8 DEF EnterStep

\* finishReInit, with the state that was suspended.
LEMMA Finishes ==
  ASSUME StoreInv, NEW c \in DOMAIN entry, NEW e, IsEntry(e),
         e.pendingLeafUpdate = entry[c].pendingLeafUpdate, e.ingestedBytes \subseteq proposals,
         EpochOf(entry[c].state) \in DOMAIN accepted, NEW new,
         Leads(accepted[EpochOf(entry[c].state)], entry[c].state, new),
         new.groupActiveState = "suspendedPendingReinit",
         entry[c].pendingLeafUpdate = {} => new.privateKey = new.ratchetTree[c],
         FinishReInit(c, e, new), UNCHANGED <<proposals, commits>>, Unchanged
  PROVE  EnterStep(c)
<1> DEFINE next == [e EXCEPT !.state = new, !.pendingNewState = {}]
<1>1. entry' = [entry EXCEPT ![c] = next]
  BY DEF FinishReInit
<1>2. reinits' = [d \in DOMAIN reinits \union {c} |-> IF d = c THEN new ELSE reinits[d]]
  BY DEF FinishReInit
<1>3. entry = [d \in DOMAIN entry |-> entry[d]]
  BY DEF StoreInv
<1>4. EntersEpoch(c, e, next, new)
  BY EnteredSuspended DEF Leads
<1> HIDE DEF next
<1>5. Changes(c) /\ entry'[c] = next
  BY <1>1, <1>3, Changed
<1> QED
  BY <1>2, <1>4, <1>5 DEF EnterStep

LEMMA HandlesPendingReInitCommit ==
  ASSUME StoreInv, CommitInv, AcceptedInv, LeafKeyInv, NEW c \in DOMAIN entry, HandlePendingReInitCommit(c)
  PROVE  EnterStep(c)
<1>1. PICK commit \in Awaited(c), new \in entry[c].pendingNewState :
        /\ commit.content.sender = c /\ new.groupActiveState = "suspendedPendingReinit"
        /\ FinishReInit(c, entry[c], new)
  BY DEF HandlePendingReInitCommit
<1>2. UNCHANGED <<proposals, commits>> /\ Unchanged
  BY DEF HandlePendingReInitCommit, Unchanged
<1>3. EpochOf(entry[c].state) \in DOMAIN accepted
  BY AwaitedCommit
<1>4. Leads(accepted[EpochOf(entry[c].state)], entry[c].state, new)
  BY <1>1, OwnAccepted
<1>5. IsEntry(entry[c]) /\ entry[c].ingestedBytes \subseteq proposals
  BY DEF StoreInv
<1>6. entry[c].pendingLeafUpdate = {} => new.privateKey = new.ratchetTree[c]
  BY DEF LeafKeyInv
<1> QED
  BY <1>1, <1>2, <1>3, <1>4, <1>5, <1>6, Finishes

LEMMA HandlesReInitCommit ==
  ASSUME StoreInv, ProposalInv, CommitInv, AcceptedInv, LeafKeyInv, NEW c \in DOMAIN entry, HandleReInitCommit(c)
  PROVE  IngestStep(c) \/ EnterStep(c)
<1> DEFINE Outcome(e, results) ==
             \/ results = {} /\ Threw(c, e) /\ UNCHANGED reinits
             \/ \E suspended \in results : FinishReInit(c, e, suspended)
<1>1. \E commit \in Awaited(c) :
        /\ commit.content.sender # c /\ IsReInit(commit)
        /\ \E e \in {IngestAll(c, References(commit))} :
             \E results \in {ProcessCommit(c, e.state, psks[c], commit)} : Outcome(e, results)
  BY DEF HandleReInitCommit
<1>2. PICK commit \in Awaited(c) :
        /\ commit.content.sender # c /\ IsReInit(commit)
        /\ Outcome(IngestAll(c, References(commit)),
                   ProcessCommit(c, IngestAll(c, References(commit)).state, psks[c], commit))
  <2> HIDE DEF Outcome
  <2> QED
    BY <1>1
<1>3. UNCHANGED <<proposals, commits>> /\ Unchanged
  BY DEF HandleReInitCommit, Unchanged
<1>4. /\ EpochOf(entry[c].state) \in DOMAIN accepted
      /\ commit = accepted[EpochOf(entry[c].state)] /\ commit \in commits /\ commit.content.sender # c
  BY <1>2, AwaitedCommit
<1> DEFINE messages == References(commit)
           e == IngestAll(c, messages)
<1>5. messages \in SUBSET proposals
  BY <1>4, ReferredTo
<1>6. CASE Threw(c, IngestAll(c, References(commit))) /\ UNCHANGED reinits
  BY <1>3, <1>5, <1>6, Failed DEF IngestStep
<1> HIDE DEF messages
<1>7. ASSUME NEW new \in ProcessCommit(c, e.state, psks[c], commit), FinishReInit(c, e, new)
      PROVE  EnterStep(c)
  <2>1. /\ IsEntry(e) /\ e.pendingLeafUpdate = entry[c].pendingLeafUpdate /\ e.ingestedBytes \subseteq proposals
    BY <1>5, EntersWith
  <2>2. PICK key : Processed(c, e, commit, key, psks[c], new)
    <3>1. WithKey(e.state, e.state.privateKey) = e.state
      BY <2>1, WithSameKey DEF IsEntry
    <3> QED
      BY <1>7, <3>1 DEF Processed
  <2>3. /\ Leads(commit, entry[c].state, new)
        /\ entry[c].pendingLeafUpdate = {} => new.privateKey = new.ratchetTree[c]
    BY <1>4, <2>2, FollowedFromEntry
  <2>4. new.groupActiveState = "suspendedPendingReinit"
    BY <1>2, <2>3 DEF Leads
  <2> HIDE DEF e
  <2> QED
    BY <1>3, <1>4, <1>7, <2>1, <2>3, <2>4, Finishes
<1> QED
  BY <1>2, <1>6, <1>7 DEF messages

LEMMA WelcomedWith ==
  ASSUME NEW w, NEW resumingFrom, NEW external, NEW secret \in WelcomedSecret(w, resumingFrom, external)
  PROVE  \E p \in AccumulatePskSecret(w.psks, resumingFrom, external) :
           /\ ExtractWelcomeSecret(w.joinerSecret, p) = w.sealedWith
           /\ ResumptionAccepted(w.psks, resumingFrom, w.groupInfo.groupContext)
           /\ secret = ExtractEpochSecret(w.groupInfo.groupContext, w.joinerSecret, p)
<1> DEFINE S == AccumulatePskSecret(w.psks, resumingFrom, external)
           Opens(p) == /\ ExtractWelcomeSecret(w.joinerSecret, p) = w.sealedWith
                       /\ ResumptionAccepted(w.psks, resumingFrom, w.groupInfo.groupContext)
           Secret(p) == ExtractEpochSecret(w.groupInfo.groupContext, w.joinerSecret, p)
<1>1. WelcomedSecret(w, resumingFrom, external) = {Secret(p) : p \in {q \in S : Opens(q)}}
  BY DEF WelcomedSecret
<1> HIDE DEF S, Opens, Secret
<1>2. PICK p \in S : Opens(p) /\ secret = Secret(p)
  BY <1>1
<1> QED
  BY <1>2 DEF S, Opens, Secret

\* JoinGroup takes the key package, and the client is in the group or not.
LEMMA Joins ==
  ASSUME NEW c \in Client, JoinGroup(c)
  PROVE  JoinStep(c) \/ QuietStep
<1> DEFINE Joined(w, secret) ==
             entry' = [d \in DOMAIN entry \union {c} |->
                         IF d = c
                         THEN Inserted(ClientState(w.groupInfo.groupContext, w.groupInfo.ratchetTree,
                                                   PackageKey(c, "group"), secret, <<>>))
                         ELSE entry[d]]
           Outcome(w, secrets) ==
             \/ secrets = {} /\ UNCHANGED entry
             \/ \E secret \in secrets : Joined(w, secret)
<1>1. /\ <<c, "group">> \in keyPackages /\ keyPackages' = keyPackages \ {<<c, "group">>}
      /\ UNCHANGED <<scenario, psks, reinits, resumed, proposals, commits, accepted, welcomes>>
  BY DEF JoinGroup
<1>2. \E e \in DOMAIN accepted :
        /\ c \in accepted[e].welcome.to
        /\ \E welcome \in {accepted[e].welcome} :
             \E secrets \in {WelcomedSecret(welcome, {}, psks[c])} : Outcome(welcome, secrets)
  BY DEF JoinGroup
<1>3. PICK e \in DOMAIN accepted :
        /\ c \in accepted[e].welcome.to
        /\ Outcome(accepted[e].welcome, WelcomedSecret(accepted[e].welcome, {}, psks[c]))
  <2> HIDE DEF Outcome
  <2> QED
    BY <1>2
<1>4. CASE UNCHANGED entry
  BY <1>1, <1>4 DEF QuietStep
<1>5. ASSUME NEW secret \in WelcomedSecret(accepted[e].welcome, {}, psks[c]), Joined(accepted[e].welcome, secret)
      PROVE  JoinStep(c)
  <2>1. \E p \in AccumulatePskSecret(accepted[e].welcome.psks, {}, psks[c]) :
          /\ ExtractWelcomeSecret(accepted[e].welcome.joinerSecret, p) = accepted[e].welcome.sealedWith
          /\ ResumptionAccepted(accepted[e].welcome.psks, {}, accepted[e].welcome.groupInfo.groupContext)
          /\ secret = ExtractEpochSecret(accepted[e].welcome.groupInfo.groupContext, accepted[e].welcome.joinerSecret, p)
    BY <1>5, WelcomedWith
  <2>2. \E p :
          /\ ExtractWelcomeSecret(accepted[e].welcome.joinerSecret, p) = accepted[e].welcome.sealedWith
          /\ secret = ExtractEpochSecret(accepted[e].welcome.groupInfo.groupContext, accepted[e].welcome.joinerSecret, p)
    BY <2>1
  <2> QED
    BY <1>1, <1>3, <1>5, <2>2 DEF JoinStep
<1> QED
  BY <1>3, <1>4, <1>5

LEMMA NextSteps ==
  ASSUME Inv, [Next]_vars
  PROVE  \/ \E c \in DOMAIN entry : ProposeStep(c) \/ IngestStep(c) \/ CommitStep(c) \/ EnterStep(c)
         \/ \E c \in Client : JoinStep(c)
         \/ QuietStep
<1> USE DEF Inv
<1>1. ASSUME NEW c \in DOMAIN entry, Propose(c) \/ UpdateProposal(c) PROVE ProposeStep(c)
  BY <1>1, Proposes
<1>2. ASSUME NEW c \in DOMAIN entry, Commit(c) PROVE IngestStep(c) \/ CommitStep(c)
  BY <1>2, Commits
<1>3. ASSUME NEW c \in DOMAIN entry, HandleCommit(c) \/ HandleReInitCommit(c) PROVE IngestStep(c) \/ EnterStep(c)
  BY <1>3, HandlesCommit, HandlesReInitCommit
<1>4. ASSUME NEW c \in DOMAIN entry, HandlePendingCommit(c) \/ HandlePendingReInitCommit(c) PROVE EnterStep(c)
  BY <1>4, HandlesPendingCommit, HandlesPendingReInitCommit
<1>5. ASSUME NEW c \in Client, JoinGroup(c) PROVE JoinStep(c) \/ QuietStep
  BY <1>5, Joins
<1>6. CASE ResumeStep
  <2>1. /\ UNCHANGED <<scenario, entry, reinits, proposals, commits, accepted>>
        /\ keyPackages' \subseteq keyPackages
    BY <1>6 DEF ResumeStep, CreateBranch, HandleBranch, ReInitWelcome, HandleReInitWelcome
  <2> QED
    BY <1>6, <2>1 DEF QuietStep
<1>7. ASSUME NEW c, StorePSK(c) PROVE QuietStep
  BY <1>7 DEF StorePSK, QuietStep
<1>8. ASSUME NEW commit \in commits, Accept(commit) PROVE QuietStep
  BY <1>8 DEF Accept, QuietStep
<1>9. CASE UNCHANGED vars
  BY <1>9 DEF vars, QuietStep
<1> QED
  BY <1>1, <1>2, <1>3, <1>4, <1>5, <1>6, <1>7, <1>8, <1>9 DEF Next, ResumeStep

-----------------------------------------------------------------------------
(* What client c is left with when it enters an epoch or joins.            *)

LEMMA AddsClients ==
  ASSUME NEW commit, NEW ps, IsCommit(commit, ps)
  PROVE  AddedBy(commit) \subseteq Client
<1>1. \A i \in DOMAIN commit.content.proposals : IsProposal(commit.content.proposals[i].proposal, "group")
  BY DEF IsCommit, IsItem
<1> QED
  BY <1>1 DEF AddedBy, ClientsAdded, OfKind, IsProposal

LEMMA IsAccepted ==
  ASSUME CommitInv, AcceptedInv, NEW e \in DOMAIN accepted
  PROVE  /\ accepted[e] \in commits /\ accepted[e].content.epoch = e
         /\ IsCommit(accepted[e], proposals)
         /\ e \in Nat \ {0} /\ e < scenario.maxEpoch
         /\ Len(accepted) \in Nat /\ DOMAIN accepted = 1 .. Len(accepted)
<1>1. accepted \in Seq(commits) /\ accepted[e].content.epoch = e
  BY DEF AcceptedInv
<1>2. accepted[e] \in commits /\ Len(accepted) \in Nat /\ DOMAIN accepted = 1 .. Len(accepted)
  BY <1>1
<1>3. IsCommit(accepted[e], proposals) /\ accepted[e].content.epoch < scenario.maxEpoch
  BY <1>2 DEF CommitInv
<1>4. e \in Nat \ {0}
  BY <1>2
<1> QED
  BY <1>1, <1>2, <1>3, <1>4

EnteredAs(c, commit, s, next) ==
  /\ IsEntry(next) /\ IsGroupState(c, next.state) /\ EpochOf(next.state) = EpochOf(s) + 1
  /\ DOMAIN next.state.ratchetTree = DOMAIN s.ratchetTree \union AddedBy(commit)
  /\ next.state.unappliedProposals = {} /\ next.state.generation = 0
  /\ next.state.historicalReceiverData = AddHistoricalReceiverData(s)
  /\ ConfirmationTag(next.state.epochSecret) = commit.confirmationTag
  /\ next.pendingNewState = {}

LEMMA Enters ==
  ASSUME StoreInv, CommitInv, AcceptedInv, NEW c \in DOMAIN entry, EnterStep(c)
  PROVE  /\ EnteredAs(c, accepted[EpochOf(entry[c].state)], entry[c].state, entry'[c])
         /\ entry'[c].ingestedBytes \subseteq proposals
         /\ entry'[c].pendingLeafUpdate = {} => entry'[c].state.privateKey = entry'[c].state.ratchetTree[c]
         /\ EpochOf(entry[c].state) \in DOMAIN accepted
         /\ Changes(c) /\ UNCHANGED <<proposals, commits>> /\ Unchanged
<1> DEFINE s == entry[c].state
           commit == accepted[EpochOf(s)]
           next == entry'[c]
<1>1. /\ EpochOf(s) \in DOMAIN accepted /\ Changes(c) /\ UNCHANGED <<proposals, commits>> /\ Unchanged
  BY DEF EnterStep
<1>2. PICK new, e :
        /\ Leads(commit, s, new) /\ EntersEpoch(c, e, next, new)
        /\ e.pendingLeafUpdate = entry[c].pendingLeafUpdate /\ e.ingestedBytes \subseteq proposals
        /\ entry[c].pendingLeafUpdate = {} => new.privateKey = new.ratchetTree[c]
  BY DEF EnterStep
<1>3. IsGroupState(c, s)
  BY DEF StoreInv
<1>4. AddedBy(commit) \subseteq Client
  BY <1>1, IsAccepted, AddsClients
<1> HIDE DEF s, commit, next
<1>5. IsGroupState(c, new) /\ EpochOf(new) = EpochOf(s) + 1
  BY <1>2, <1>3, <1>4, LedToGroupState
<1>6. IsGroupState(c, next.state) /\ EpochOf(next.state) = EpochOf(s) + 1
  BY <1>2, <1>5 DEF EntersEpoch, IsEntry, IsGroupState, EpochOf
<1>7. EnteredAs(c, commit, s, next)
  BY <1>2, <1>6 DEF EnteredAs, EntersEpoch, Leads
<1>8. next.ingestedBytes \subseteq proposals
  BY <1>2 DEF EntersEpoch
<1>9. next.pendingLeafUpdate = {} => next.state.privateKey = next.state.ratchetTree[c]
  BY <1>2 DEF EntersEpoch
<1> QED
  BY <1>1, <1>7, <1>8, <1>9 DEF s, commit, next

\* The entry of a client that joined with the Welcome of a commit.
JoinedAs(c, commit, next) ==
  /\ IsEntry(next) /\ IsGroupState(c, next.state) /\ EpochOf(next.state) = commit.content.epoch + 1
  /\ next.state.ratchetTree = commit.welcome.groupInfo.ratchetTree
  /\ next.state.privateKey = next.state.ratchetTree[c]
  /\ next.state.unappliedProposals = {}
  /\ DOMAIN next.state.historicalReceiverData = {}
  /\ ConfirmationTag(next.state.epochSecret) = commit.confirmationTag
  /\ next.pendingNewState = {} /\ next.ingestedBytes = {}

LEMMA JoinedEntry ==
  ASSUME NEW c, NEW commit, NEW ps, IsCommit(commit, ps), c \in commit.welcome.to, NEW p,
         ExtractWelcomeSecret(commit.welcome.joinerSecret, p) = commit.welcome.sealedWith,
         NEW secret, secret = ExtractEpochSecret(commit.welcome.groupInfo.groupContext, commit.welcome.joinerSecret, p),
         NEW next, next = Inserted(ClientState(commit.welcome.groupInfo.groupContext,
                                               commit.welcome.groupInfo.ratchetTree,
                                               PackageKey(c, "group"), secret, <<>>))
  PROVE  JoinedAs(c, commit, next)
<1> DEFINE info == commit.welcome.groupInfo
           key == PackageKey(c, "group")
           state == ClientState(info.groupContext, info.ratchetTree, key, secret, <<>>)
           e == commit.content.epoch
<1>1. state = [groupContext |-> info.groupContext, ratchetTree |-> info.ratchetTree, privateKey |-> key,
               unappliedProposals |-> {}, generation |-> 0, opened |-> {},
               epochSecret |-> secret, historicalReceiverData |-> <<>>,
               groupActiveState |-> "active", reinit |-> NoReinit]
  BY DEF ClientState
<1>2. next = [state |-> state, pendingNewState |-> {}, pendingLeafUpdate |-> {}, ingestedBytes |-> {}]
  BY DEF Inserted
<1>3. /\ e \in Nat \ {0} /\ IsContext(info.groupContext) /\ info.groupContext.groupId = "group"
      /\ info.groupContext.epoch = e + 1 /\ Len(info.groupContext.confirmedTranscriptHash) = e
      /\ DOMAIN info.ratchetTree \subseteq Client
      /\ c \in DOMAIN info.ratchetTree /\ info.ratchetTree[c] = key
      /\ ConfirmationTag(secret) = commit.confirmationTag
  BY DEF IsCommit
<1> HIDE DEF state, info, key, e
<1>4. /\ IsClientState(state) /\ state.groupContext = info.groupContext /\ state.ratchetTree = info.ratchetTree
      /\ state.privateKey = key /\ state.unappliedProposals = {} /\ state.generation = 0
      /\ state.epochSecret = secret /\ state.historicalReceiverData = <<>>
      /\ state.groupActiveState = "active" /\ state.reinit = NoReinit
  BY <1>1, <1>3 DEF IsClientState
<1>5. DOMAIN state.historicalReceiverData = {}
  BY <1>4
<1>6. EpochOf(state) = e + 1 /\ e + 1 \in Nat \ {0} /\ e = (e + 1) - 1
  BY <1>3, <1>4 DEF EpochOf
<1>7. IsGroupState(c, state)
  BY <1>3, <1>4, <1>5, <1>6 DEF IsGroupState
<1>8. /\ IsEntry(next) /\ next.state = state /\ next.pendingNewState = {}
      /\ next.pendingLeafUpdate = {} /\ next.ingestedBytes = {}
  BY <1>2, <1>4 DEF IsEntry
<1> QED
  BY <1>3, <1>4, <1>5, <1>6, <1>7, <1>8 DEF JoinedAs, info, e

JoinsEntry(c) ==
  /\ entry' = [d \in DOMAIN entry' |-> entry'[d]] /\ DOMAIN entry' = DOMAIN entry \union {c}
  /\ \A d \in DOMAIN entry : entry'[d] = entry[d]

LEMMA JoinsWith ==
  ASSUME StoreInv, CommitInv, AcceptedInv, NEW c \in Client, JoinStep(c)
  PROVE  /\ c \notin DOMAIN entry /\ JoinsEntry(c)
         /\ \E e \in DOMAIN accepted : c \in accepted[e].welcome.to /\ JoinedAs(c, accepted[e], entry'[c])
         /\ keyPackages' = keyPackages \ {<<c, "group">>}
         /\ UNCHANGED <<scenario, reinits, resumed, proposals, commits, accepted, welcomes>>
<1> DEFINE Stored(e, secret) == Inserted(ClientState(accepted[e].welcome.groupInfo.groupContext,
                                                   accepted[e].welcome.groupInfo.ratchetTree,
                                                   PackageKey(c, "group"), secret, <<>>))
<1>1. c \notin DOMAIN entry
  BY DEF StoreInv, JoinStep
<1>2. PICK e, secret :
        /\ e \in DOMAIN accepted
        /\ c \in accepted[e].welcome.to
        /\ \E p : /\ ExtractWelcomeSecret(accepted[e].welcome.joinerSecret, p) = accepted[e].welcome.sealedWith
                  /\ secret = ExtractEpochSecret(accepted[e].welcome.groupInfo.groupContext,
                                                 accepted[e].welcome.joinerSecret, p)
        /\ entry' = [d \in DOMAIN entry \union {c} |-> IF d = c THEN Stored(e, secret) ELSE entry[d]]
  BY DEF JoinStep
<1>3. PICK p :
        /\ ExtractWelcomeSecret(accepted[e].welcome.joinerSecret, p) = accepted[e].welcome.sealedWith
        /\ secret = ExtractEpochSecret(accepted[e].welcome.groupInfo.groupContext, accepted[e].welcome.joinerSecret, p)
  BY <1>2
<1>4. IsCommit(accepted[e], proposals)
  BY <1>2, IsAccepted
<1>5. JoinedAs(c, accepted[e], Stored(e, secret))
  BY <1>2, <1>3, <1>4, JoinedEntry
<1> HIDE DEF Stored
<1>6. JoinsEntry(c) /\ entry'[c] = Stored(e, secret)
  BY <1>1, <1>2 DEF JoinsEntry
<1> QED
  BY <1>1, <1>2, <1>5, <1>6 DEF JoinStep

-----------------------------------------------------------------------------
(* Every step keeps the invariant, part by part.                           *)

\* What is stored for client d is worth as much with more messages and fewer key packages.
IsStored(d, e, packages, ps, cs, max) ==
  /\ <<d, "group">> \notin packages
  /\ IsEntry(e) /\ IsGroupState(d, e.state)
  /\ EpochOf(e.state) <= max
  /\ \A p \in e.state.unappliedProposals : p \in ps /\ p.epoch = EpochOf(e.state)
  /\ e.ingestedBytes \subseteq ps
  /\ \A new \in e.pendingNewState : \E commit \in cs : commit.content.sender = d /\ Leads(commit, e.state, new)

IsStore ==
  /\ scenario \in Scenarios
  /\ entry = [c \in DOMAIN entry |-> entry[c]] /\ DOMAIN entry \subseteq Client
  /\ keyPackages \subseteq Client \X {"group", "branch"}

AllStored == \A d \in DOMAIN entry : IsStored(d, entry[d], keyPackages, proposals, commits, scenario.maxEpoch)

LEMMA Stored ==
  StoreInv <=> IsStore /\ AllStored
BY DEF StoreInv, IsStore, AllStored, IsStored, ProposalsOf

LEMMA StillStored ==
  ASSUME NEW d, NEW e, NEW packages, NEW ps, NEW cs, NEW max, IsStored(d, e, packages, ps, cs, max),
         NEW packages1, packages1 \subseteq packages, NEW ps1, ps \subseteq ps1, NEW cs1, cs \subseteq cs1
  PROVE  IsStored(d, e, packages1, ps1, cs1, max)
<1>1. \A new \in e.pendingNewState : \E commit \in cs1 : commit.content.sender = d /\ Leads(commit, e.state, new)
  BY DEF IsStored
<1> QED
  BY <1>1 DEF IsStored

\* An entry of a client that stays in its epoch.
LEMMA StoredInEpoch ==
  ASSUME NEW d, NEW old, NEW packages, NEW ps, NEW cs, NEW max, IsStored(d, old, packages, ps, cs, max),
         NEW ps1, ps \subseteq ps1, NEW fresh \in SUBSET ps1, NEW new, NEW keys,
         StaysInEpoch(old, new, fresh, keys), new.state.generation \in Nat,
         NEW cs1, \A x \in new.pendingNewState :
                    \E commit \in cs1 : commit.content.sender = d /\ Leads(commit, new.state, x)
  PROVE  IsStored(d, new, packages, ps1, cs1, max)
<1>1. IsGroupState(d, new.state) /\ EpochOf(new.state) = EpochOf(old.state)
  BY StillGroupState DEF StaysInEpoch, IsStored
<1>2. \A p \in new.state.unappliedProposals : p \in ps1 /\ p.epoch = EpochOf(new.state)
  BY <1>1 DEF StaysInEpoch, IsStored
<1> QED
  BY <1>1, <1>2 DEF StaysInEpoch, IsStored

\* The state that waits is still a successor of the one it waits beside.
LEMMA StillWaits ==
  ASSUME NEW d, NEW old, NEW packages, NEW ps, NEW cs, NEW max, IsStored(d, old, packages, ps, cs, max),
         NEW fresh, NEW new, NEW keys, StaysInEpoch(old, new, fresh, keys), new.pendingNewState = old.pendingNewState
  PROVE  \A x \in new.pendingNewState : \E commit \in cs : commit.content.sender = d /\ Leads(commit, new.state, x)
<1> SUFFICES ASSUME NEW x \in new.pendingNewState
             PROVE  \E commit \in cs : commit.content.sender = d /\ Leads(commit, new.state, x)
  OBVIOUS
<1>1. PICK commit \in cs : commit.content.sender = d /\ Leads(commit, old.state, x)
  BY DEF IsStored
<1>2. Leads(commit, new.state, x)
  BY <1>1, StillLeads DEF StaysInEpoch
<1> QED
  BY <1>1, <1>2

LEMMA StoreKept ==
  ASSUME Inv, [Next]_vars
  PROVE  StoreInv'
<1> DEFINE max == scenario.maxEpoch
           OK(d) == IsStored(d, entry'[d], keyPackages', proposals', commits', scenario'.maxEpoch)
<1> USE DEF Inv
<1>1. /\ scenario \in Scenarios /\ entry = [c \in DOMAIN entry |-> entry[c]] /\ DOMAIN entry \subseteq Client
      /\ keyPackages \subseteq Client \X {"group", "branch"}
  BY Stored DEF IsStore
<1>2. ASSUME NEW d \in DOMAIN entry
      PROVE  IsStored(d, entry[d], keyPackages, proposals, commits, max)
  BY Stored DEF AllStored
<1>3. (/\ scenario \in Scenarios
       /\ entry = [c \in DOMAIN entry |-> entry[c]] /\ DOMAIN entry \subseteq Client
       /\ keyPackages \subseteq Client \X {"group", "branch"})'
      /\ (\A d \in DOMAIN entry' : OK(d)) => StoreInv'
  <2>1. IsStore' /\ AllStored' => StoreInv'
    BY Stored, PTL
  <2> QED
    BY <2>1 DEF IsStore, AllStored
<1> HIDE DEF Inv
<1>4. ASSUME NEW c \in DOMAIN entry, ProposeStep(c) PROVE StoreInv'
  <2>1. PICK message, keys :
          /\ proposals' = proposals \union {message}
          /\ StaysInEpoch(entry[c], entry'[c], {message}, keys)
          /\ entry'[c].pendingNewState = entry[c].pendingNewState
          /\ entry'[c].state.generation
               = IF scenario.private THEN entry[c].state.generation + 1 ELSE entry[c].state.generation
          /\ Changes(c) /\ UNCHANGED commits /\ Unchanged
    BY <1>4 DEF ProposeStep
  <2>2. OK(c)
    <3>1. entry[c].state.generation \in Nat
      BY <1>2 DEF IsStored, IsGroupState
    <3>2. entry'[c].state.generation \in Nat
      BY <2>1, <3>1
    <3>3. \A x \in entry'[c].pendingNewState :
            \E commit \in commits : commit.content.sender = c /\ Leads(commit, entry'[c].state, x)
      BY <1>2, <2>1, StillWaits
    <3>4. proposals \subseteq proposals \union {message} /\ {message} \in SUBSET (proposals \union {message})
      OBVIOUS
    <3>5. IsStored(c, entry'[c], keyPackages, proposals \union {message}, commits, max)
      BY <1>2, <2>1, <3>2, <3>3, <3>4, StoredInEpoch
    <3> QED
      BY <2>1, <3>5 DEF Unchanged
  <2>3. ASSUME NEW d \in DOMAIN entry, d # c PROVE OK(d)
    <3>1. IsStored(d, entry[d], keyPackages, proposals \union {message}, commits, max)
      BY <1>2, StillStored
    <3> QED
      BY <2>1, <2>3, <3>1 DEF Unchanged, Changes
  <2> HIDE DEF OK
  <2> QED
    BY <1>1, <1>3, <2>1, <2>2, <2>3 DEF Unchanged, Changes
<1>5. ASSUME NEW c \in DOMAIN entry, IngestStep(c) PROVE StoreInv'
  <2>1. PICK messages \in SUBSET proposals :
          /\ StaysInEpoch(entry[c], entry'[c], messages, entry[c].pendingLeafUpdate)
          /\ entry'[c].state = entry[c].state /\ entry'[c].pendingNewState = entry[c].pendingNewState
          /\ Changes(c) /\ UNCHANGED <<proposals, commits>> /\ Unchanged
    BY <1>5 DEF IngestStep
  <2>2. OK(c)
    <3>1. entry'[c].state.generation \in Nat
      BY <1>2, <2>1 DEF IsStored, IsGroupState
    <3>2. \A x \in entry'[c].pendingNewState :
            \E commit \in commits : commit.content.sender = c /\ Leads(commit, entry'[c].state, x)
      BY <1>2, <2>1, StillWaits
    <3>4. IsStored(c, entry'[c], keyPackages, proposals, commits, max)
      BY <1>2, <2>1, <3>1, <3>2, StoredInEpoch
    <3> QED
      BY <2>1, <3>4 DEF Unchanged
  <2>3. ASSUME NEW d \in DOMAIN entry, d # c PROVE OK(d)
    BY <1>2, <2>1, <2>3 DEF Unchanged, Changes
  <2> HIDE DEF OK
  <2> QED
    BY <1>1, <1>3, <2>1, <2>2, <2>3 DEF Unchanged, Changes
<1>6. ASSUME NEW c \in DOMAIN entry, CommitStep(c) PROVE StoreInv'
  <2>1. PICK messages, commit, new :
          /\ messages \in SUBSET proposals
          /\ IsCommitOf(c, entry'[c].state, commit, new)
          /\ commits' = commits \union {commit}
          /\ StaysInEpoch(entry[c], entry'[c], messages, entry[c].pendingLeafUpdate)
          /\ entry'[c].state.generation = entry[c].state.generation
          /\ entry'[c].pendingNewState = {new}
          /\ Changes(c) /\ UNCHANGED proposals /\ Unchanged
    BY <1>6 DEF CommitStep
  <2>2. OK(c)
    <3>1. entry'[c].state.generation \in Nat
      BY <1>2, <2>1 DEF IsStored, IsGroupState
    <3>2. \A x \in entry'[c].pendingNewState :
            \E y \in commits \union {commit} : y.content.sender = c /\ Leads(y, entry'[c].state, x)
      BY <2>1 DEF IsCommitOf
    <3>4. IsStored(c, entry'[c], keyPackages, proposals, commits \union {commit}, max)
      BY <1>2, <2>1, <3>1, <3>2, StoredInEpoch
    <3> QED
      BY <2>1, <3>4 DEF Unchanged
  <2>3. ASSUME NEW d \in DOMAIN entry, d # c PROVE OK(d)
    <3>1. IsStored(d, entry[d], keyPackages, proposals, commits \union {commit}, max)
      BY <1>2, StillStored
    <3> QED
      BY <2>1, <2>3, <3>1 DEF Unchanged, Changes
  <2> HIDE DEF OK
  <2> QED
    BY <1>1, <1>3, <2>1, <2>2, <2>3 DEF Unchanged, Changes
<1>7. ASSUME NEW c \in DOMAIN entry, EnterStep(c) PROVE StoreInv'
  <2>1. /\ EnteredAs(c, accepted[EpochOf(entry[c].state)], entry[c].state, entry'[c])
        /\ entry'[c].ingestedBytes \subseteq proposals
        /\ EpochOf(entry[c].state) \in DOMAIN accepted
        /\ Changes(c) /\ UNCHANGED <<proposals, commits>> /\ Unchanged
    BY <1>7, Enters DEF Inv
  <2>2. EpochOf(entry[c].state) \in Nat /\ EpochOf(entry[c].state) < max /\ max \in Nat
    BY <1>1, <2>1, IsAccepted, ScenarioAssumption DEF Inv
  <2>3. OK(c)
    BY <1>2, <2>1, <2>2 DEF IsStored, EnteredAs, Unchanged
  <2>4. ASSUME NEW d \in DOMAIN entry, d # c PROVE OK(d)
    BY <1>2, <2>1, <2>4 DEF Unchanged, Changes
  <2> HIDE DEF OK
  <2> QED
    BY <1>1, <1>3, <2>1, <2>3, <2>4 DEF Unchanged, Changes
<1>8. ASSUME NEW c \in Client, JoinStep(c) PROVE StoreInv'
  <2>1. /\ JoinsEntry(c) /\ c \notin DOMAIN entry
        /\ keyPackages' = keyPackages \ {<<c, "group">>}
        /\ UNCHANGED <<scenario, proposals, commits>>
        /\ \E e \in DOMAIN accepted : JoinedAs(c, accepted[e], entry'[c])
    BY <1>8, JoinsWith DEF Inv
  <2>2. PICK e \in DOMAIN accepted : JoinedAs(c, accepted[e], entry'[c])
    BY <2>1
  <2>3. e \in Nat /\ e < max /\ max \in Nat /\ accepted[e].content.epoch = e
    BY <1>1, IsAccepted, ScenarioAssumption DEF Inv
  <2>4. OK(c)
    BY <2>1, <2>2, <2>3 DEF IsStored, JoinedAs
  <2>5. ASSUME NEW d \in DOMAIN entry PROVE OK(d)
    <3>1. IsStored(d, entry[d], keyPackages \ {<<c, "group">>}, proposals, commits, max)
      BY <1>2, StillStored
    <3> QED
      BY <2>1, <3>1 DEF JoinsEntry
  <2> HIDE DEF OK
  <2> QED
    BY <1>1, <1>3, <2>1, <2>4, <2>5 DEF JoinsEntry
<1>9. CASE QuietStep
  <2>1. keyPackages' \subseteq keyPackages /\ UNCHANGED <<scenario, entry, proposals, commits>>
    BY <1>9 DEF QuietStep
  <2>2. ASSUME NEW d \in DOMAIN entry PROVE OK(d)
    <3>1. IsStored(d, entry[d], keyPackages', proposals, commits, max)
      BY <1>2, <2>1, StillStored
    <3> QED
      BY <2>1, <3>1
  <2> HIDE DEF OK
  <2> QED
    BY <1>1, <1>3, <2>1, <2>2
<1> QED
  BY <1>4, <1>5, <1>6, <1>7, <1>8, <1>9, NextSteps

\* What is known of a proposal, by the entry of its sender.
IsSentBy(p, e, private) ==
  /\ IsProposal(p.proposal, "group")
  /\ p.epoch \in Nat /\ p.generation \in Nat /\ p.epoch <= EpochOf(e.state)
  /\ p.epoch = EpochOf(e.state) =>
       /\ private => p.generation < e.state.generation
       /\ p.proposal.kind = "update" => e.pendingLeafUpdate # {}

AllSent == \A p \in proposals : p.sender \in DOMAIN entry /\ IsSentBy(p, entry[p.sender], scenario.private)

LEMMA ProposalsSent ==
  ProposalInv <=> IsFiniteSet(proposals) /\ AllSent
BY DEF ProposalInv, AllSent, IsSentBy

LEMMA StillSent ==
  ASSUME NEW p, NEW old, NEW private, IsSentBy(p, old, private), NEW new,
         EpochOf(new.state) = EpochOf(old.state), EpochOf(old.state) \in Nat,
         old.state.generation \in Nat, new.state.generation \in Nat, old.state.generation <= new.state.generation,
         old.pendingLeafUpdate # {} => new.pendingLeafUpdate # {}
  PROVE  IsSentBy(p, new, private)
BY DEF IsSentBy

LEMMA SentEarlier ==
  ASSUME NEW p, NEW old, NEW private, IsSentBy(p, old, private), NEW new,
         EpochOf(new.state) = EpochOf(old.state) + 1, EpochOf(old.state) \in Nat
  PROVE  IsSentBy(p, new, private)
BY DEF IsSentBy

\* An epoch's entry as far as proposals are concerned.
LEMMA EntryNumbers ==
  ASSUME StoreInv, NEW d \in DOMAIN entry
  PROVE  EpochOf(entry[d].state) \in Nat \ {0} /\ entry[d].state.generation \in Nat
BY DEF StoreInv, IsGroupState

LEMMA ProposalsKept ==
  ASSUME Inv, [Next]_vars
  PROVE  ProposalInv' /\ ProposalsHaveOwnGeneration'
<1> DEFINE private == scenario.private
           OK(p) == p.sender \in DOMAIN entry' /\ IsSentBy(p, entry'[p.sender], private)
<1>1. /\ StoreInv /\ ProposalInv /\ ProposalsHaveOwnGeneration /\ CommitInv /\ AcceptedInv
      /\ IsFiniteSet(proposals)
  BY ProposalsSent DEF Inv
<1>2. ASSUME NEW p \in proposals
      PROVE  p.sender \in DOMAIN entry /\ IsSentBy(p, entry[p.sender], private)
  BY <1>1, ProposalsSent DEF AllSent
<1>3. /\ IsFiniteSet(proposals)' /\ scenario' = scenario /\ (\A p \in proposals' : OK(p))
      => ProposalInv'
  <2>1. IsFiniteSet(proposals)' /\ AllSent' => ProposalInv'
    BY ProposalsSent, PTL
  <2> QED
    BY <2>1 DEF AllSent
<1>4. UNCHANGED <<proposals, scenario>> => ProposalsHaveOwnGeneration'
  BY <1>1 DEF ProposalsHaveOwnGeneration
<1>5. ASSUME NEW c \in DOMAIN entry, ProposeStep(c) PROVE ProposalInv' /\ ProposalsHaveOwnGeneration'
  <2>1. PICK message, keys :
          /\ message.epoch = EpochOf(entry[c].state) /\ message.sender = c
          /\ message.generation = entry[c].state.generation /\ IsProposal(message.proposal, "group")
          /\ keys = {} => entry[c].pendingLeafUpdate = {} /\ message.proposal.kind # "update"
          /\ proposals' = proposals \union {message}
          /\ Changes(c) /\ StaysInEpoch(entry[c], entry'[c], {message}, keys)
          /\ entry'[c].state.generation
               = IF scenario.private THEN entry[c].state.generation + 1 ELSE entry[c].state.generation
          /\ scenario' = scenario
    BY <1>5 DEF ProposeStep, Unchanged
  <2>2. /\ EpochOf(entry'[c].state) = EpochOf(entry[c].state) /\ entry'[c].pendingLeafUpdate = keys
        /\ EpochOf(entry[c].state) \in Nat /\ entry[c].state.generation \in Nat
    BY <1>1, <2>1, EntryNumbers DEF StaysInEpoch, SameButPending, EpochOf
  <2>3. entry'[c].state.generation \in Nat /\ entry[c].state.generation <= entry'[c].state.generation
    BY <2>1, <2>2
  <2>4. ASSUME NEW p \in proposals PROVE OK(p)
    <3>1. CASE p.sender = c
      <4>1. IsSentBy(p, entry[c], private)
        BY <1>2, <3>1
      <4>2. IsSentBy(p, entry'[c], private)
        BY <2>1, <2>2, <2>3, <4>1, StillSent
      <4> QED
        BY <2>1, <3>1, <4>2 DEF Changes
    <3>2. CASE p.sender # c
      BY <1>2, <2>1, <3>2 DEF Changes
    <3> QED
      BY <3>1, <3>2
  <2>5. OK(message)
    <3>1. private => message.generation < entry'[c].state.generation
      BY <2>1, <2>2
    <3>2. IsSentBy(message, entry'[c], private)
      BY <2>1, <2>2, <3>1 DEF IsSentBy
    <3> QED
      BY <2>1, <3>2 DEF Changes
  <2>6. IsFiniteSet(proposals')
    BY <1>1, <2>1, FS_AddElement
  <2>7. ASSUME scenario.private, NEW q \in proposals, q.epoch = message.epoch, q.sender = message.sender,
               q.generation = message.generation
        PROVE  FALSE
    BY <1>2, <2>1, <2>2, <2>7 DEF IsSentBy
  <2>8. ProposalsHaveOwnGeneration'
    <3> SUFFICES ASSUME scenario.private, NEW p \in proposals', NEW q \in proposals',
                        p.epoch = q.epoch, p.sender = q.sender, p.generation = q.generation
                 PROVE  p = q
      BY <2>1 DEF ProposalsHaveOwnGeneration
    <3>1. CASE p \in proposals /\ q \in proposals
      BY <1>1, <3>1 DEF ProposalsHaveOwnGeneration
    <3>2. CASE p = message \/ q = message
      BY <2>1, <2>7, <3>2
    <3> QED
      BY <2>1, <3>1, <3>2
  <2> HIDE DEF OK
  <2> QED
    BY <1>3, <2>1, <2>4, <2>5, <2>6, <2>8
<1>6. ASSUME NEW c \in DOMAIN entry, IngestStep(c) \/ CommitStep(c) PROVE ProposalInv' /\ ProposalsHaveOwnGeneration'
  <2>1. PICK messages \in SUBSET proposals :
          /\ Changes(c) /\ StaysInEpoch(entry[c], entry'[c], messages, entry[c].pendingLeafUpdate)
          /\ entry'[c].state.generation = entry[c].state.generation
          /\ UNCHANGED <<proposals, scenario>>
    BY <1>6 DEF IngestStep, CommitStep, Unchanged
  <2>2. /\ EpochOf(entry'[c].state) = EpochOf(entry[c].state)
        /\ entry'[c].pendingLeafUpdate = entry[c].pendingLeafUpdate
        /\ EpochOf(entry[c].state) \in Nat /\ entry[c].state.generation \in Nat
        /\ entry[c].state.generation <= entry'[c].state.generation /\ entry'[c].state.generation \in Nat
    BY <1>1, <2>1, EntryNumbers DEF StaysInEpoch, SameButPending, EpochOf
  <2>3. ASSUME NEW p \in proposals PROVE OK(p)
    <3>1. CASE p.sender = c
      <4>1. IsSentBy(p, entry[c], private)
        BY <1>2, <3>1
      <4>2. IsSentBy(p, entry'[c], private)
        BY <2>2, <4>1, StillSent
      <4> QED
        BY <2>1, <3>1, <4>2 DEF Changes
    <3>2. CASE p.sender # c
      BY <1>2, <2>1, <3>2 DEF Changes
    <3> QED
      BY <3>1, <3>2
  <2> HIDE DEF OK
  <2> QED
    BY <1>1, <1>3, <1>4, <2>1, <2>3
<1>7. ASSUME NEW c \in DOMAIN entry, EnterStep(c) PROVE ProposalInv' /\ ProposalsHaveOwnGeneration'
  <2>1. /\ EpochOf(entry'[c].state) = EpochOf(entry[c].state) + 1 /\ EpochOf(entry[c].state) \in Nat
        /\ Changes(c) /\ UNCHANGED <<proposals, scenario>>
    BY <1>1, <1>7, Enters, EntryNumbers DEF EnteredAs, Unchanged
  <2>2. ASSUME NEW p \in proposals PROVE OK(p)
    <3>1. CASE p.sender = c
      <4>1. IsSentBy(p, entry[c], private)
        BY <1>2, <3>1
      <4>2. IsSentBy(p, entry'[c], private)
        BY <2>1, <4>1, SentEarlier
      <4> QED
        BY <2>1, <3>1, <4>2 DEF Changes
    <3>2. CASE p.sender # c
      BY <1>2, <2>1, <3>2 DEF Changes
    <3> QED
      BY <3>1, <3>2
  <2> HIDE DEF OK
  <2> QED
    BY <1>1, <1>3, <1>4, <2>1, <2>2
<1>8. ASSUME NEW c \in Client, JoinStep(c) PROVE ProposalInv' /\ ProposalsHaveOwnGeneration'
  <2>1. JoinsEntry(c) /\ UNCHANGED <<scenario, proposals>>
    BY <1>1, <1>8, JoinsWith
  <2>2. ASSUME NEW p \in proposals PROVE OK(p)
    BY <1>2, <2>1 DEF JoinsEntry
  <2> HIDE DEF OK
  <2> QED
    BY <1>1, <1>3, <1>4, <2>1, <2>2
<1>9. CASE QuietStep
  <2>1. UNCHANGED <<scenario, entry, proposals>>
    BY <1>9 DEF QuietStep
  <2>2. ASSUME NEW p \in proposals PROVE OK(p)
    BY <1>2, <2>1
  <2> HIDE DEF OK
  <2> QED
    BY <1>1, <1>3, <1>4, <2>1, <2>2
<1> QED
  BY <1>5, <1>6, <1>7, <1>8, <1>9, NextSteps

LEMMA StillItem ==
  ASSUME NEW item, NEW e, NEW ps, IsItem(item, e, ps), NEW ps1, ps \subseteq ps1
  PROVE  IsItem(item, e, ps1)
BY DEF IsItem

LEMMA StillCommit ==
  ASSUME NEW commit, NEW ps, IsCommit(commit, ps), NEW ps1, ps \subseteq ps1
  PROVE  IsCommit(commit, ps1)
<1>1. \A i \in DOMAIN commit.content.proposals :
        IsItem(commit.content.proposals[i], commit.content.epoch, ps1)
  BY StillItem DEF IsCommit
<1> QED
  BY <1>1 DEF IsCommit

\* Messages are never taken back, and a client sends one commit in an epoch.
LEMMA MessagesGrow ==
  ASSUME Inv, [Next]_vars
  PROVE  /\ proposals \subseteq proposals' /\ scenario' = scenario
         /\ \/ commits' = commits
            \/ \E commit : /\ commits' = commits \union {commit} /\ proposals' = proposals
                           /\ \E c \in DOMAIN entry : CommitStep(c)
<1>1. ASSUME NEW c \in DOMAIN entry, ProposeStep(c)
      PROVE  proposals \subseteq proposals' /\ scenario' = scenario /\ commits' = commits
  BY <1>1 DEF ProposeStep, Unchanged
<1>2. ASSUME NEW c \in DOMAIN entry, IngestStep(c) \/ EnterStep(c)
      PROVE  proposals' = proposals /\ scenario' = scenario /\ commits' = commits
  BY <1>2 DEF IngestStep, EnterStep, Unchanged
<1>3. ASSUME NEW c \in DOMAIN entry, CommitStep(c)
      PROVE  /\ proposals' = proposals /\ scenario' = scenario
             /\ \E commit : commits' = commits \union {commit}
  BY <1>3 DEF CommitStep, Unchanged
<1>4. ASSUME NEW c \in Client, JoinStep(c)
      PROVE  proposals' = proposals /\ scenario' = scenario /\ commits' = commits
  BY <1>4 DEF JoinStep
<1>5. CASE QuietStep
  BY <1>5 DEF QuietStep
<1> QED
  BY <1>1, <1>2, <1>3, <1>4, <1>5, NextSteps

LEMMA CommitsKept ==
  ASSUME Inv, [Next]_vars
  PROVE  CommitInv'
<1>1. StoreInv /\ CommitInv
  BY DEF Inv
<1>2. proposals \subseteq proposals' /\ scenario' = scenario
  BY MessagesGrow
<1>3. ASSUME NEW commit \in commits
      PROVE  IsCommit(commit, proposals') /\ commit.content.epoch < scenario'.maxEpoch
  BY <1>1, <1>2, StillCommit DEF CommitInv
<1>4. CASE commits' = commits
  BY <1>1, <1>3, <1>4 DEF CommitInv
<1>5. ASSUME NEW c \in DOMAIN entry, CommitStep(c) PROVE CommitInv'
  <2>1. PICK messages, commit, new :
          /\ messages \in SUBSET proposals
          /\ IsCommitOf(c, entry'[c].state, commit, new)
          /\ EpochOf(entry[c].state) < scenario.maxEpoch
          /\ \A other \in commits : ~(other.content.sender = c /\ other.content.epoch = EpochOf(entry[c].state))
          /\ commits' = commits \union {commit}
          /\ StaysInEpoch(entry[c], entry'[c], messages, entry[c].pendingLeafUpdate)
          /\ proposals' = proposals
    BY <1>5 DEF CommitStep
  <2>2. /\ IsCommit(commit, proposals') /\ commit.content.sender = c
        /\ commit.content.epoch = EpochOf(entry[c].state) /\ commit.content.epoch < scenario'.maxEpoch
    BY <1>2, <2>1 DEF IsCommitOf, StaysInEpoch, SameButPending, EpochOf
  <2>3. ASSUME NEW x \in commits', NEW y \in commits',
               y.content.sender = x.content.sender, y.content.epoch = x.content.epoch
        PROVE  y = x
    BY <1>1, <2>1, <2>2, <2>3 DEF CommitInv
  <2> QED
    BY <1>3, <2>1, <2>2, <2>3 DEF CommitInv
<1> QED
  BY <1>4, <1>5, MessagesGrow

LEMMA AcceptedKept ==
  ASSUME Inv, [Next]_vars
  PROVE  /\ AcceptedInv'
         /\ Len(accepted) \in Nat /\ Len(accepted') \in Nat /\ Len(accepted) <= Len(accepted')
         /\ DOMAIN accepted = 1 .. Len(accepted) /\ DOMAIN accepted' = 1 .. Len(accepted')
         /\ \A e \in DOMAIN accepted : accepted'[e] = accepted[e]
         /\ UNCHANGED accepted \/ (Len(accepted') = Len(accepted) + 1 /\ UNCHANGED <<entry, commits, scenario>>)
<1>1. accepted \in Seq(commits) /\ \A e \in DOMAIN accepted : accepted[e].content.epoch = e
  BY DEF Inv, AcceptedInv
<1>2. Len(accepted) \in Nat /\ DOMAIN accepted = 1 .. Len(accepted)
  BY <1>1
<1>3. commits \subseteq commits'
  BY MessagesGrow
<1>4. CASE UNCHANGED accepted
  <2>1. accepted \in Seq(commits')
    BY <1>1, <1>3
  <2>2. AcceptedInv'
    BY <1>1, <1>4, <2>1 DEF AcceptedInv
  <2> QED
    BY <1>2, <1>4, <2>2
<1>5. ASSUME NEW commit \in commits, commit.content.epoch = Len(accepted) + 1, accepted' = Append(accepted, commit),
             UNCHANGED <<entry, commits, scenario>>
      PROVE  /\ AcceptedInv' /\ Len(accepted') = Len(accepted) + 1 /\ DOMAIN accepted' = 1 .. Len(accepted')
             /\ \A e \in DOMAIN accepted : accepted'[e] = accepted[e]
  <2>1. /\ accepted' \in Seq(commits) /\ Len(accepted') = Len(accepted) + 1
        /\ \A e \in 1 .. Len(accepted) : accepted'[e] = accepted[e]
        /\ accepted'[Len(accepted) + 1] = commit
    BY <1>1, <1>5, AppendProperties
  <2>2. DOMAIN accepted' = 1 .. Len(accepted')
    BY <2>1
  <2>3. ASSUME NEW e \in DOMAIN accepted' PROVE accepted'[e].content.epoch = e
    BY <1>1, <1>2, <1>5, <2>1, <2>2
  <2> QED
    BY <1>2, <1>5, <2>1, <2>2, <2>3 DEF AcceptedInv
<1>6. \/ UNCHANGED accepted
      \/ \E commit \in commits :
           commit.content.epoch = Len(accepted) + 1 /\ accepted' = Append(accepted, commit)
             /\ UNCHANGED <<entry, commits, scenario>>
  BY NextSteps DEF ProposeStep, IngestStep, CommitStep, EnterStep, JoinStep, QuietStep, Unchanged
<1>7. CASE ~UNCHANGED accepted
  <2>1. PICK commit \in commits :
          commit.content.epoch = Len(accepted) + 1 /\ accepted' = Append(accepted, commit)
            /\ UNCHANGED <<entry, commits, scenario>>
    BY <1>6, <1>7
  <2>2. /\ AcceptedInv' /\ Len(accepted') = Len(accepted) + 1 /\ DOMAIN accepted' = 1 .. Len(accepted')
        /\ \A e \in DOMAIN accepted : accepted'[e] = accepted[e]
    BY <1>5, <2>1
  <2> QED
    BY <1>2, <2>1, <2>2
<1> QED
  BY <1>4, <1>7

LEMMA ReinitsKept ==
  ASSUME Inv, [Next]_vars
  PROVE  ReinitsInv'
<1>1. ReinitsInv /\ StoreInv
  BY DEF Inv
<1>2. CASE UNCHANGED reinits /\ DOMAIN entry \subseteq DOMAIN entry'
  BY <1>1, <1>2 DEF ReinitsInv
<1>3. ASSUME NEW c \in DOMAIN entry, EnterStep(c) PROVE ReinitsInv'
  <2>1. PICK new :
          /\ Leads(accepted[EpochOf(entry[c].state)], entry[c].state, new) /\ Changes(c)
          /\ \/ UNCHANGED reinits
             \/ /\ reinits' = [d \in DOMAIN reinits \union {c} |-> IF d = c THEN new ELSE reinits[d]]
                /\ new.groupActiveState = "suspendedPendingReinit"
    BY <1>3 DEF EnterStep
  <2>2. DOMAIN entry' = DOMAIN entry
    BY <2>1 DEF Changes
  <2>3. CASE UNCHANGED reinits
    BY <1>1, <2>2, <2>3 DEF ReinitsInv
  <2>4. CASE /\ reinits' = [d \in DOMAIN reinits \union {c} |-> IF d = c THEN new ELSE reinits[d]]
             /\ new.groupActiveState = "suspendedPendingReinit"
    <3>1. new.reinit = ReInit.reinit
      BY <2>1, <2>4 DEF Leads
    <3>2. IsContext(entry[c].state.groupContext) /\ entry[c].state.groupContext.groupId = "group"
      BY <1>1 DEF StoreInv, IsGroupState, IsClientState
    <3>3. new.groupContext.groupId = "group"
      BY <2>1, <3>2, NextContext DEF Leads
    <3> QED
      BY <1>1, <2>2, <2>4, <3>1, <3>3 DEF ReinitsInv
  <2> QED
    BY <2>1, <2>3, <2>4
<1>4. ASSUME NEW c \in DOMAIN entry, ProposeStep(c) \/ IngestStep(c) \/ CommitStep(c)
      PROVE  UNCHANGED reinits /\ DOMAIN entry' = DOMAIN entry
  BY <1>4 DEF ProposeStep, IngestStep, CommitStep, Changes
<1>5. ASSUME NEW c \in Client, JoinStep(c) PROVE UNCHANGED reinits /\ DOMAIN entry \subseteq DOMAIN entry'
  BY <1>5 DEF JoinStep
<1>6. CASE QuietStep
  BY <1>1, <1>6 DEF QuietStep, ReinitsInv
<1> QED
  BY <1>2, <1>3, <1>4, <1>5, <1>6, NextSteps

\* The part of the invariant about the keys of a client's own leaf.
HasLeafKey(d, e) ==
  e.pendingLeafUpdate = {} => \A s \in {e.state} \union e.pendingNewState : s.privateKey = s.ratchetTree[d]

LEMMA LeafKeysKept ==
  ASSUME Inv, [Next]_vars
  PROVE  LeafKeyInv'
<1>1. /\ StoreInv /\ CommitInv /\ AcceptedInv
      /\ \A d \in DOMAIN entry : HasLeafKey(d, entry[d])
  BY DEF Inv, LeafKeyInv, HasLeafKey
<1>2. (\A d \in DOMAIN entry' : HasLeafKey(d, entry'[d])) => LeafKeyInv'
  BY DEF LeafKeyInv, HasLeafKey
<1>3. ASSUME NEW c \in DOMAIN entry, Changes(c), HasLeafKey(c, entry'[c]) PROVE LeafKeyInv'
  BY <1>1, <1>2, <1>3 DEF Changes
<1>4. ASSUME NEW c \in DOMAIN entry, ProposeStep(c) \/ IngestStep(c) PROVE LeafKeyInv'
  <2>1. PICK fresh, keys :
          /\ keys = {} => entry[c].pendingLeafUpdate = {}
          /\ Changes(c) /\ StaysInEpoch(entry[c], entry'[c], fresh, keys)
          /\ entry'[c].pendingNewState = entry[c].pendingNewState
    BY <1>4 DEF ProposeStep, IngestStep
  <2>2. HasLeafKey(c, entry'[c])
    BY <1>1, <2>1 DEF HasLeafKey, StaysInEpoch, SameButPending
  <2> QED
    BY <1>3, <2>1, <2>2
<1>5. ASSUME NEW c \in DOMAIN entry, CommitStep(c) PROVE LeafKeyInv'
  <2>1. PICK messages, commit, new :
          /\ messages \in SUBSET proposals
          /\ IsCommitOf(c, entry'[c].state, commit, new)
          /\ Changes(c) /\ StaysInEpoch(entry[c], entry'[c], messages, entry[c].pendingLeafUpdate)
          /\ entry'[c].pendingNewState = {new}
    BY <1>5 DEF CommitStep
  <2>2. HasLeafKey(c, entry'[c])
    <3>1. /\ entry'[c].pendingLeafUpdate = entry[c].pendingLeafUpdate
          /\ entry'[c].state.privateKey = entry[c].state.privateKey
          /\ entry'[c].state.ratchetTree = entry[c].state.ratchetTree
      BY <2>1 DEF StaysInEpoch, SameButPending
    <3>2. HasLeafKey(c, entry[c])
      BY <1>1
    <3>3. entry[c].pendingLeafUpdate = {} /\ entry'[c].state.privateKey = entry'[c].state.ratchetTree[c]
          => new.privateKey = new.ratchetTree[c]
      BY <2>1 DEF IsCommitOf
    <3> QED
      BY <2>1, <3>1, <3>2, <3>3 DEF HasLeafKey
  <2> QED
    BY <1>3, <2>1, <2>2
<1>6. ASSUME NEW c \in DOMAIN entry, EnterStep(c) PROVE LeafKeyInv'
  <2>1. /\ entry'[c].pendingLeafUpdate = {} => entry'[c].state.privateKey = entry'[c].state.ratchetTree[c]
        /\ entry'[c].pendingNewState = {} /\ Changes(c)
    BY <1>1, <1>6, Enters DEF EnteredAs
  <2>2. HasLeafKey(c, entry'[c])
    BY <2>1 DEF HasLeafKey
  <2> QED
    BY <1>3, <2>1, <2>2
<1>7. ASSUME NEW c \in Client, JoinStep(c) PROVE LeafKeyInv'
  <2>1. /\ c \notin DOMAIN entry /\ JoinsEntry(c)
        /\ \E e \in DOMAIN accepted : c \in accepted[e].welcome.to /\ JoinedAs(c, accepted[e], entry'[c])
    BY <1>1, <1>7, JoinsWith
  <2>2. HasLeafKey(c, entry'[c])
    BY <2>1 DEF HasLeafKey, JoinedAs
  <2> QED
    BY <1>1, <1>2, <2>1, <2>2 DEF JoinsEntry
<1>8. CASE QuietStep
  BY <1>1, <1>2, <1>8 DEF QuietStep
<1> QED
  BY <1>4, <1>5, <1>6, <1>7, <1>8, NextSteps

\* The part of the invariant about who has been added, of a client and of a commit.
IsInGroup(d, s, list, members) ==
  /\ EpochOf(s) <= Len(list) + 1
  /\ \A j \in DOMAIN list : j < EpochOf(s) => list[j].welcome.to \subseteq DOMAIN s.ratchetTree
  /\ d \in members \/ \E j \in DOMAIN list : d \in list[j].welcome.to

AddsOthers(commit, list) ==
  /\ commit.content.epoch <= Len(list) + 1
  /\ \A j \in DOMAIN list :
       j < commit.content.epoch =>
         /\ list[j].welcome.to \subseteq DOMAIN commit.welcome.groupInfo.ratchetTree
         /\ list[j].welcome.to \intersect commit.welcome.to = {}

AllJoined ==
  /\ scenario.members \subseteq DOMAIN entry
  /\ \A d \in DOMAIN entry : IsInGroup(d, entry[d].state, accepted, scenario.members)
  /\ \A commit \in commits : AddsOthers(commit, accepted)

LEMMA Joined == JoinInv <=> AllJoined
BY DEF JoinInv, AllJoined, IsInGroup, AddsOthers

LEMMA StillInGroup ==
  ASSUME NEW d, NEW s, NEW list, NEW members, IsInGroup(d, s, list, members),
         NEW t, EpochOf(t) = EpochOf(s), t.ratchetTree = s.ratchetTree
  PROVE  IsInGroup(d, t, list, members)
BY DEF IsInGroup

\* One more commit is accepted: that of an epoch nobody has left.
LEMMA OneMoreAccepted ==
  ASSUME NEW list, NEW list1, Len(list) \in Nat, Len(list1) = Len(list) + 1,
         DOMAIN list = 1 .. Len(list), DOMAIN list1 = 1 .. Len(list1),
         \A j \in DOMAIN list : list1[j] = list[j]
  PROVE  /\ \A d, s, members : EpochOf(s) \in Nat /\ IsInGroup(d, s, list, members) => IsInGroup(d, s, list1, members)
         /\ \A commit : commit.content.epoch \in Nat /\ AddsOthers(commit, list) => AddsOthers(commit, list1)
<1>1. ASSUME NEW j \in DOMAIN list1, NEW e \in Nat, e <= Len(list) + 1, j < e PROVE j \in DOMAIN list
  BY <1>1
<1>2. \A j \in DOMAIN list : j \in DOMAIN list1
  OBVIOUS
<1>3. \A e \in Nat : e <= Len(list) + 1 => e <= Len(list1) + 1
  OBVIOUS
<1>4. ASSUME NEW d, NEW s, NEW members, EpochOf(s) \in Nat, IsInGroup(d, s, list, members)
      PROVE  IsInGroup(d, s, list1, members)
  BY <1>1, <1>2, <1>3, <1>4 DEF IsInGroup
<1>5. ASSUME NEW commit, commit.content.epoch \in Nat, AddsOthers(commit, list)
      PROVE  AddsOthers(commit, list1)
  BY <1>1, <1>2, <1>3, <1>5 DEF AddsOthers
<1> QED
  BY <1>4, <1>5

LEMMA JoinKept ==
  ASSUME Inv, [Next]_vars
  PROVE  JoinInv'
<1>1. StoreInv /\ CommitInv /\ AcceptedInv
  BY DEF Inv
<1>2. AllJoined' => JoinInv'
  BY Joined, PTL
<1>3. /\ scenario.members \subseteq DOMAIN entry
      /\ \A d \in DOMAIN entry : IsInGroup(d, entry[d].state, accepted, scenario.members)
      /\ \A commit \in commits : AddsOthers(commit, accepted)
  BY Joined DEF Inv, AllJoined
<1>4. ASSUME NEW c \in DOMAIN entry, Changes(c), IsInGroup(c, entry'[c].state, accepted, scenario.members),
             UNCHANGED <<scenario, commits, accepted>>
      PROVE  JoinInv'
  <2>1. AllJoined'
    BY <1>3, <1>4 DEF AllJoined, Changes
  <2> QED
    BY <1>2, <2>1
<1>5. ASSUME NEW c \in DOMAIN entry, ProposeStep(c) \/ IngestStep(c) PROVE JoinInv'
  <2>1. PICK fresh, keys : StaysInEpoch(entry[c], entry'[c], fresh, keys)
    BY <1>5 DEF ProposeStep, IngestStep
  <2>2. Changes(c) /\ UNCHANGED <<scenario, commits, accepted>>
    BY <1>5 DEF ProposeStep, IngestStep, Unchanged
  <2>3. EpochOf(entry'[c].state) = EpochOf(entry[c].state) /\ entry'[c].state.ratchetTree = entry[c].state.ratchetTree
    BY <2>1 DEF StaysInEpoch, SameButPending, EpochOf
  <2>4. IsInGroup(c, entry'[c].state, accepted, scenario.members)
    BY <1>3, <2>3, StillInGroup
  <2> QED
    BY <1>4, <2>2, <2>4
<1>6. ASSUME NEW c \in DOMAIN entry, CommitStep(c) PROVE JoinInv'
  <2>1. PICK messages, commit, new :
          /\ messages \in SUBSET proposals
          /\ IsCommitOf(c, entry'[c].state, commit, new)
          /\ commits' = commits \union {commit}
          /\ Changes(c) /\ StaysInEpoch(entry[c], entry'[c], messages, entry[c].pendingLeafUpdate)
          /\ UNCHANGED <<scenario, accepted>>
    BY <1>6 DEF CommitStep, Unchanged
  <2>2. EpochOf(entry'[c].state) = EpochOf(entry[c].state) /\ entry'[c].state.ratchetTree = entry[c].state.ratchetTree
    BY <2>1 DEF StaysInEpoch, SameButPending, EpochOf
  <2>3. IsInGroup(c, entry'[c].state, accepted, scenario.members)
    BY <1>3, <2>2, StillInGroup
  <2>4. AddsOthers(commit, accepted)
    BY <2>1, <2>3 DEF IsCommitOf, IsInGroup, AddsOthers
  <2>5. AllJoined'
    BY <1>3, <2>1, <2>3, <2>4 DEF AllJoined, Changes
  <2> QED
    BY <1>2, <2>5
<1>7. ASSUME NEW c \in DOMAIN entry, EnterStep(c) PROVE JoinInv'
  <2> DEFINE e == EpochOf(entry[c].state)
  <2>1. /\ EnteredAs(c, accepted[e], entry[c].state, entry'[c]) /\ e \in DOMAIN accepted
        /\ Changes(c) /\ UNCHANGED commits /\ UNCHANGED <<scenario, accepted>>
    BY <1>1, <1>7, Enters DEF Unchanged
  <2>2. /\ e \in Nat /\ Len(accepted) \in Nat /\ DOMAIN accepted = 1 .. Len(accepted)
        /\ accepted[e].welcome.to \subseteq AddedBy(accepted[e])
    BY <1>1, <2>1, IsAccepted DEF IsCommit
  <2>3. /\ EpochOf(entry'[c].state) = e + 1
        /\ DOMAIN entry'[c].state.ratchetTree = DOMAIN entry[c].state.ratchetTree \union AddedBy(accepted[e])
    BY <2>1 DEF EnteredAs
  <2>4. IsInGroup(c, entry[c].state, accepted, scenario.members)
    BY <1>3
  <2>5. ASSUME NEW j \in DOMAIN accepted, j < EpochOf(entry'[c].state)
        PROVE  accepted[j].welcome.to \subseteq DOMAIN entry'[c].state.ratchetTree
    <3>1. j < e \/ j = e
      BY <2>2, <2>3, <2>5
    <3> QED
      BY <2>2, <2>3, <2>4, <3>1 DEF IsInGroup
  <2>6. EpochOf(entry'[c].state) <= Len(accepted) + 1
    BY <2>1, <2>2, <2>3
  <2>7. IsInGroup(c, entry'[c].state, accepted, scenario.members)
    BY <2>4, <2>5, <2>6 DEF IsInGroup
  <2> QED
    BY <1>4, <2>1, <2>7
<1>8. ASSUME NEW c \in Client, JoinStep(c) PROVE JoinInv'
  <2>1. JoinsEntry(c) /\ UNCHANGED <<scenario, commits, accepted>>
    BY <1>1, <1>8, JoinsWith
  <2>2. PICK e \in DOMAIN accepted : c \in accepted[e].welcome.to /\ JoinedAs(c, accepted[e], entry'[c])
    BY <1>1, <1>8, JoinsWith
  <2>3. /\ e \in Nat /\ Len(accepted) \in Nat /\ DOMAIN accepted = 1 .. Len(accepted)
        /\ accepted[e].content.epoch = e /\ accepted[e] \in commits
        /\ accepted[e].welcome.to \subseteq DOMAIN accepted[e].welcome.groupInfo.ratchetTree
    BY <1>1, IsAccepted DEF IsCommit
  <2>4. /\ EpochOf(entry'[c].state) = e + 1
        /\ entry'[c].state.ratchetTree = accepted[e].welcome.groupInfo.ratchetTree
    BY <2>2, <2>3 DEF JoinedAs
  <2>5. AddsOthers(accepted[e], accepted)
    BY <1>3, <2>3
  <2>6. ASSUME NEW j \in DOMAIN accepted, j < EpochOf(entry'[c].state)
        PROVE  accepted[j].welcome.to \subseteq DOMAIN entry'[c].state.ratchetTree
    <3>1. j < e \/ j = e
      BY <2>3, <2>4, <2>6
    <3> QED
      BY <2>3, <2>4, <2>5, <3>1 DEF AddsOthers
  <2>7. EpochOf(entry'[c].state) <= Len(accepted) + 1
    BY <2>3, <2>4
  <2>8. IsInGroup(c, entry'[c].state, accepted, scenario.members)
    BY <2>2, <2>6, <2>7 DEF IsInGroup
  <2>9. AllJoined'
    BY <1>3, <2>1, <2>8 DEF AllJoined, JoinsEntry
  <2> QED
    BY <1>2, <2>9
<1>9. CASE QuietStep
  <2>1. UNCHANGED <<scenario, entry, commits>>
    BY <1>9 DEF QuietStep
  <2>2. CASE UNCHANGED accepted
    BY <1>2, <1>3, <2>1, <2>2 DEF AllJoined
  <2>3. CASE ~UNCHANGED accepted
    <3>1. /\ \A d, s, members : EpochOf(s) \in Nat /\ IsInGroup(d, s, accepted, members) => IsInGroup(d, s, accepted', members)
          /\ \A commit : commit.content.epoch \in Nat /\ AddsOthers(commit, accepted) => AddsOthers(commit, accepted')
      BY <2>3, AcceptedKept, OneMoreAccepted
    <3>2. \A commit \in commits : commit.content.epoch \in Nat
      BY <1>1 DEF CommitInv, IsCommit
    <3>3. \A d \in DOMAIN entry : EpochOf(entry[d].state) \in Nat
      BY <1>1, EntryNumbers
    <3>4. AllJoined'
      BY <1>3, <2>1, <3>1, <3>2, <3>3 DEF AllJoined
    <3> QED
      BY <1>2, <3>4
  <2> QED
    BY <2>2, <2>3
<1> QED
  BY <1>5, <1>6, <1>7, <1>8, <1>9, NextSteps

\* A client is added by one commit, and joined in the epoch after it.
LEMMA JoinedAfter ==
  ASSUME NEW c, NEW j
  PROVE  CommitInv /\ AcceptedInv /\ JoinInv /\ c \notin scenario.members /\ j \in DOMAIN accepted
           /\ c \in accepted[j].welcome.to
         => JoinedIn(c) = j + 1
<1> SUFFICES ASSUME CommitInv, AcceptedInv, JoinInv, c \notin scenario.members, j \in DOMAIN accepted,
                    c \in accepted[j].welcome.to
             PROVE  JoinedIn(c) = j + 1
  OBVIOUS
<1>1. Len(accepted) \in Nat /\ DOMAIN accepted = 1 .. Len(accepted) /\ j \in Nat \ {0}
  BY IsAccepted
<1>2. ASSUME NEW i \in DOMAIN accepted, NEW k \in DOMAIN accepted, i < k,
             c \in accepted[i].welcome.to, c \in accepted[k].welcome.to
      PROVE  FALSE
  <2>1. accepted[k] \in commits /\ accepted[k].content.epoch = k
    BY IsAccepted
  <2>2. accepted[i].welcome.to \intersect accepted[k].welcome.to = {}
    BY <1>2, <2>1 DEF JoinInv
  <2> QED
    BY <1>2, <2>2
<1>3. ASSUME NEW k \in DOMAIN accepted, c \in accepted[k].welcome.to PROVE k = j
  <2>1. k \in Nat
    BY <1>1
  <2>2. k < j \/ j < k \/ k = j
    BY <1>1, <2>1
  <2> QED
    BY <1>2, <1>3, <2>2
<1> DEFINE In(e) == c \in accepted[e - 1].welcome.to
           S == 2 .. Len(accepted) + 1
           joined == CHOOSE e \in S : In(e)
<1>4. j + 1 \in S /\ (j + 1) - 1 = j
  BY <1>1
<1>5. In(j + 1)
  BY <1>4
<1> HIDE DEF In, S
<1>6. joined \in S /\ In(joined)
  BY <1>4, <1>5
<1> HIDE DEF joined
<1>7. joined - 1 \in DOMAIN accepted /\ joined \in Nat
  BY <1>1, <1>6 DEF S
<1>8. joined - 1 = j
  BY <1>3, <1>6, <1>7 DEF In
<1>9. JoinedIn(c) = joined
  BY DEF JoinedIn, joined, S, In
<1> QED
  BY <1>1, <1>7, <1>8, <1>9

AddedIn(c, j) ==
  /\ CommitInv /\ AcceptedInv /\ JoinInv
  /\ c \notin scenario.members /\ j \in DOMAIN accepted /\ c \in accepted[j].welcome.to

JoinedNext(c, j) == JoinedIn(c) = j + 1

LEMMA JoinedAfterNext ==
  ASSUME NEW c, NEW j
  PROVE  AddedIn(c, j)' => JoinedNext(c, j)'
<1>1. AddedIn(c, j) => JoinedNext(c, j)
  BY JoinedAfter DEF AddedIn, JoinedNext
<1> QED
  BY <1>1, PTL

LEMMA JoinedInSame ==
  ASSUME Inv, [Next]_vars, NEW c \in DOMAIN entry
  PROVE  JoinedIn(c)' = JoinedIn(c) /\ JoinedIn(c) \in Nat \ {0}
<1>1. CommitInv /\ AcceptedInv /\ JoinInv /\ CommitInv' /\ AcceptedInv' /\ JoinInv' /\ scenario' = scenario
  BY CommitsKept, AcceptedKept, JoinKept, MessagesGrow DEF Inv
<1>2. CASE c \in scenario.members
  BY <1>1, <1>2 DEF JoinedIn
<1>3. CASE c \notin scenario.members
  <2>1. PICK j \in DOMAIN accepted : c \in accepted[j].welcome.to
    BY <1>1, <1>3 DEF JoinInv
  <2>2. j \in DOMAIN accepted' /\ accepted'[j] = accepted[j] /\ j \in Nat
    BY AcceptedKept
  <2>3. JoinedIn(c) = j + 1
    BY <1>1, <1>3, <2>1, JoinedAfter
  <2>4. JoinedIn(c)' = j + 1
    <3>1. AddedIn(c, j)'
      BY <1>1, <1>3, <2>1, <2>2 DEF AddedIn
    <3> QED
      BY <3>1, JoinedAfterNext DEF JoinedNext
  <2> QED
    BY <2>2, <2>3, <2>4
<1> QED
  BY <1>2, <1>3

\* What a client knows of the epochs it has been in, by the commits that led to them.
HasHistory(s, joined, list) ==
  /\ EpochOf(s) > 1 => s.epochSecret = list[EpochOf(s) - 1].confirmationTag[2]
  /\ \A e \in DOMAIN s.historicalReceiverData :
       e > 1 => s.historicalReceiverData[e] = ResumptionPsk(list[e - 1].confirmationTag[2])
  /\ \A e \in joined .. EpochOf(s) - 1 : e + RetainKeysForEpochs >= EpochOf(s) => e \in DOMAIN s.historicalReceiverData

LEMMA StillHistory ==
  ASSUME NEW s, NEW joined, NEW list, HasHistory(s, joined, list),
         NEW t, EpochOf(t) = EpochOf(s), t.epochSecret = s.epochSecret,
         t.historicalReceiverData = s.historicalReceiverData
  PROVE  HasHistory(t, joined, list)
BY DEF HasHistory

LEMMA LongerHistory ==
  ASSUME NEW s, NEW joined, NEW list, HasHistory(s, joined, list), EpochOf(s) \in Nat,
         DOMAIN s.historicalReceiverData \subseteq 0 .. EpochOf(s) - 1, EpochOf(s) <= Len(list) + 1,
         NEW list1, Len(list) \in Nat, DOMAIN list = 1 .. Len(list), \A j \in DOMAIN list : list1[j] = list[j]
  PROVE  HasHistory(s, joined, list1)
<1>1. \A e \in Nat : e > 1 /\ e <= EpochOf(s) => e - 1 \in DOMAIN list
  OBVIOUS
<1>2. \A e \in DOMAIN s.historicalReceiverData : e \in Nat /\ e <= EpochOf(s)
  OBVIOUS
<1>3. EpochOf(s) > 1 => list1[EpochOf(s) - 1] = list[EpochOf(s) - 1]
  BY <1>1
<1>4. \A e \in DOMAIN s.historicalReceiverData : e > 1 => list1[e - 1] = list[e - 1]
  BY <1>1, <1>2
<1> QED
  BY <1>3, <1>4 DEF HasHistory

LEMMA EnteredHistory ==
  ASSUME NEW c, NEW s, IsGroupState(c, s), NEW list, NEW joined \in Nat, HasHistory(s, joined, list),
         NEW next, EnteredAs(c, list[EpochOf(s)], s, next)
  PROVE  HasHistory(next.state, joined, list)
<1> DEFINE e == EpochOf(s)
           t == next.state
           old == s.historicalReceiverData
           new == t.historicalReceiverData
<1>1. e \in Nat \ {0} /\ DOMAIN old \subseteq 0 .. e - 1
  BY DEF IsGroupState
<1>2. EpochOf(t) = e + 1 /\ ConfirmationTag(t.epochSecret) = list[e].confirmationTag
  BY DEF EnteredAs
<1>3. /\ DOMAIN new \subseteq DOMAIN old \union {e}
      /\ \A d \in DOMAIN new : new[d] = IF d = e THEN ResumptionPsk(s.epochSecret) ELSE old[d]
      /\ \A d \in DOMAIN old \union {e} : d + RetainKeysForEpochs > e => d \in DOMAIN new
  BY <1>1, History DEF EnteredAs
<1>4. /\ e > 1 => s.epochSecret = list[e - 1].confirmationTag[2]
      /\ \A d \in DOMAIN old : d > 1 => old[d] = ResumptionPsk(list[d - 1].confirmationTag[2])
      /\ \A d \in joined .. e - 1 : d + RetainKeysForEpochs >= e => d \in DOMAIN old
  BY DEF HasHistory
<1> HIDE DEF e, t, old, new
<1>5. t.epochSecret = list[e].confirmationTag[2]
  <2>1. ConfirmationTag(t.epochSecret)[2] = t.epochSecret
    BY DEF ConfirmationTag, DeriveSecret
  <2> QED
    BY <1>2, <2>1
<1>6. EpochOf(t) > 1 => t.epochSecret = list[EpochOf(t) - 1].confirmationTag[2]
  <2>1. EpochOf(t) - 1 = e
    BY <1>1, <1>2
  <2> QED
    BY <1>5, <2>1
<1>7. ASSUME NEW d \in DOMAIN new, d > 1
      PROVE  new[d] = ResumptionPsk(list[d - 1].confirmationTag[2])
  BY <1>3, <1>4, <1>7
<1>8. ASSUME NEW d \in joined .. EpochOf(t) - 1, d + RetainKeysForEpochs >= EpochOf(t)
      PROVE  d \in DOMAIN new
  <2>1. d \in Nat /\ d + RetainKeysForEpochs > e /\ d + RetainKeysForEpochs >= e /\ (d = e \/ d \in joined .. e - 1)
    BY <1>1, <1>2, <1>8, RetainEpochsAssumption
  <2>2. d \in DOMAIN old \union {e}
    BY <1>4, <2>1
  <2> QED
    BY <1>3, <2>1, <2>2
<1>9. HasHistory(t, joined, list)
  BY <1>6, <1>7, <1>8 DEF HasHistory, new
<1> QED
  BY <1>9 DEF t

LEMMA JoinedHistory ==
  ASSUME NEW c, NEW commit, NEW list, NEW e \in Nat \ {0}, list[e] = commit, commit.content.epoch = e,
         NEW next, JoinedAs(c, commit, next)
  PROVE  HasHistory(next.state, e + 1, list)
<1> DEFINE t == next.state
<1>1. /\ EpochOf(t) = e + 1 /\ ConfirmationTag(t.epochSecret) = list[e].confirmationTag
      /\ DOMAIN t.historicalReceiverData = {}
  BY DEF JoinedAs
<1> HIDE DEF t
<1>2. t.epochSecret = list[e].confirmationTag[2]
  <2>1. ConfirmationTag(t.epochSecret)[2] = t.epochSecret
    BY DEF ConfirmationTag, DeriveSecret
  <2> QED
    BY <1>1, <2>1
<1>3. EpochOf(t) - 1 = e /\ e + 1 .. EpochOf(t) - 1 = {}
  BY <1>1
<1>4. HasHistory(t, e + 1, list)
  BY <1>1, <1>2, <1>3 DEF HasHistory
<1> QED
  BY <1>4 DEF t

LEMMA HistoryKept ==
  ASSUME Inv, [Next]_vars
  PROVE  HistoryInv'
<1> DEFINE OK(d) == HasHistory(entry'[d].state, JoinedIn(d)', accepted')
<1>1. StoreInv /\ CommitInv /\ AcceptedInv /\ JoinInv
  BY DEF Inv
<1>2. ASSUME NEW d \in DOMAIN entry
      PROVE  /\ HasHistory(entry[d].state, JoinedIn(d), accepted)
             /\ JoinedIn(d)' = JoinedIn(d) /\ JoinedIn(d) \in Nat
             /\ IsGroupState(d, entry[d].state)
  BY <1>1, JoinedInSame DEF Inv, HistoryInv, HasHistory, EpochSecretAfter, StoreInv
<1>3. (\A d \in DOMAIN entry' : OK(d)) => HistoryInv'
  BY DEF HistoryInv, HasHistory, EpochSecretAfter
<1>4. ASSUME NEW c \in DOMAIN entry, Changes(c), UNCHANGED accepted, OK(c) PROVE HistoryInv'
  <2>1. ASSUME NEW d \in DOMAIN entry, d # c PROVE OK(d)
    BY <1>2, <1>4, <2>1 DEF Changes
  <2> HIDE DEF OK
  <2> QED
    BY <1>3, <1>4, <2>1 DEF Changes
<1>5. ASSUME NEW c \in DOMAIN entry, ProposeStep(c) \/ IngestStep(c) \/ CommitStep(c) PROVE HistoryInv'
  <2>1. PICK fresh, keys : StaysInEpoch(entry[c], entry'[c], fresh, keys)
    BY <1>5 DEF ProposeStep, IngestStep, CommitStep
  <2>2. Changes(c) /\ UNCHANGED accepted
    BY <1>5 DEF ProposeStep, IngestStep, CommitStep, Unchanged
  <2>3. /\ EpochOf(entry'[c].state) = EpochOf(entry[c].state)
        /\ entry'[c].state.epochSecret = entry[c].state.epochSecret
        /\ entry'[c].state.historicalReceiverData = entry[c].state.historicalReceiverData
    BY <2>1 DEF StaysInEpoch, SameButPending, EpochOf
  <2>4. HasHistory(entry'[c].state, JoinedIn(c), accepted)
    BY <1>2, <2>3, StillHistory
  <2> QED
    BY <1>2, <1>4, <2>2, <2>4
<1>6. ASSUME NEW c \in DOMAIN entry, EnterStep(c) PROVE HistoryInv'
  <2>1. /\ EnteredAs(c, accepted[EpochOf(entry[c].state)], entry[c].state, entry'[c])
        /\ Changes(c) /\ UNCHANGED accepted
    BY <1>1, <1>6, Enters DEF Unchanged
  <2>2. HasHistory(entry'[c].state, JoinedIn(c), accepted)
    BY <1>2, <2>1, EnteredHistory
  <2> QED
    BY <1>2, <1>4, <2>1, <2>2
<1>7. ASSUME NEW c \in Client, JoinStep(c) PROVE HistoryInv'
  <2>1. JoinsEntry(c) /\ c \notin DOMAIN entry /\ UNCHANGED <<scenario, commits, accepted>>
    BY <1>1, <1>7, JoinsWith
  <2>2. PICK e \in DOMAIN accepted : c \in accepted[e].welcome.to /\ JoinedAs(c, accepted[e], entry'[c])
    BY <1>1, <1>7, JoinsWith
  <2>3. e \in Nat \ {0} /\ accepted[e].content.epoch = e
    BY <1>1, IsAccepted
  <2>4. c \notin scenario.members
    BY <1>1, <2>1 DEF JoinInv
  <2>5. JoinedIn(c) = e + 1 /\ JoinedIn(c)' = JoinedIn(c)
    <3>1. JoinedIn(c) = e + 1
      BY <1>1, <2>2, <2>4, JoinedAfter
    <3>2. JoinedIn(c)' = JoinedIn(c)
      BY <2>1 DEF JoinedIn
    <3> QED
      BY <3>1, <3>2
  <2>6. HasHistory(entry'[c].state, e + 1, accepted)
    BY <2>2, <2>3, JoinedHistory
  <2>7. OK(c)
    BY <2>1, <2>5, <2>6
  <2>8. ASSUME NEW d \in DOMAIN entry PROVE OK(d)
    BY <1>2, <2>1 DEF JoinsEntry
  <2> HIDE DEF OK
  <2> QED
    BY <1>3, <2>1, <2>7, <2>8 DEF JoinsEntry
<1>8. CASE QuietStep
  <2>1. ASSUME NEW d \in DOMAIN entry PROVE OK(d)
    <3>1. /\ EpochOf(entry[d].state) \in Nat
          /\ DOMAIN entry[d].state.historicalReceiverData \subseteq 0 .. EpochOf(entry[d].state) - 1
          /\ EpochOf(entry[d].state) <= Len(accepted) + 1
      BY <1>1, <1>2 DEF IsGroupState, JoinInv
    <3>2. /\ Len(accepted) \in Nat /\ DOMAIN accepted = 1 .. Len(accepted)
          /\ \A j \in DOMAIN accepted : accepted'[j] = accepted[j]
      BY AcceptedKept
    <3>3. HasHistory(entry[d].state, JoinedIn(d), accepted')
      BY <1>2, <3>1, <3>2, LongerHistory
    <3> QED
      BY <1>2, <1>8, <3>3 DEF QuietStep
  <2> HIDE DEF OK
  <2> QED
    BY <1>3, <1>8, <2>1 DEF QuietStep
<1> QED
  BY <1>5, <1>6, <1>7, <1>8, NextSteps

-----------------------------------------------------------------------------
(* The groups that resume: what is created and what is joined.             *)

LEMMA OnePskId ==
  ASSUME NEW items, NEW k \in Nat, OfKind(items, "psk") = {k}
  PROVE  PskIds(items) = OnePsk(items[k].proposal.id)
<1> DEFINE places == OfKind(items, "psk")
           Nth(n) == CHOOSE i \in places : Cardinality({j \in places : j <= i}) = n
<1>1. PskIds(items) = [n \in 1 .. Cardinality(places) |-> items[Nth(n)].proposal.id]
  BY DEF PskIds
<1>2. Cardinality(places) = 1
  BY FS_Singleton
<1>3. Nth(1) = k
  <2>1. {j \in places : j <= k} = {k}
    OBVIOUS
  <2>2. Cardinality({j \in places : j <= k}) = 1
    BY <2>1, FS_Singleton
  <2> HIDE DEF places
  <2>3. \A i \in places : i = k
    BY DEF places
  <2>4. k \in places
    BY DEF places
  <2> QED
    BY <2>2, <2>3, <2>4
<1>4. \A n \in 1 .. 1 : n = 1
  OBVIOUS
<1> HIDE DEF Nth
<1>5. [n \in 1 .. 1 |-> items[Nth(n)].proposal.id] = [n \in 1 .. 1 |-> items[k].proposal.id]
  BY <1>3, <1>4
<1> QED
  BY <1>1, <1>2, <1>5 DEF OnePsk

LEMMA OnePskOf ==
  ASSUME NEW id
  PROVE  /\ DOMAIN OnePsk(id) = 1 .. 1 /\ OnePsk(id)[1] = id /\ Len(OnePsk(id)) = 1
<1>1. \A i \in 1 .. 1 : id \in {id}
  OBVIOUS
<1>2. OnePsk(id) \in Seq({id})
  BY <1>1, IsASeq DEF OnePsk
<1>3. DOMAIN OnePsk(id) = 1 .. 1 /\ OnePsk(id)[1] = id
  BY DEF OnePsk
<1>4. DOMAIN OnePsk(id) = 1 .. Len(OnePsk(id)) /\ Len(OnePsk(id)) \in Nat
  BY <1>2, LenProperties
<1> QED
  BY <1>3, <1>4

\* The current resumption PSK of the old group.
LEMMA PskOfOld ==
  ASSUME NEW id, id.psktype = "resumption", NEW old, id.pskGroupId = old.groupContext.groupId,
         id.pskEpoch = old.groupContext.epoch, NEW external,
         NEW p \in AccumulatePskSecret(OnePsk(id), {old}, external)
  PROVE  p = ResumingSecret(id, old)
<1> DEFINE found == FindPsk({old}, external, id)
           ids == OnePsk(id)
           Found(i) == FindPsk({old}, external, ids[i])
<1>1. found = {ResumptionPsk(old.epochSecret)}
  <2>1. {t \in {old} : t.groupContext.groupId = id.pskGroupId} = {old}
    OBVIOUS
  <2> DEFINE Of(s) == IF s.groupContext.epoch = id.pskEpoch
                      THEN {ResumptionPsk(s.epochSecret)}
                      ELSE {s.historicalReceiverData[e] : e \in {id.pskEpoch} \intersect DOMAIN s.historicalReceiverData}
  <2>2. found = UNION {Of(s) : s \in {old}}
    BY <2>1 DEF FindPsk
  <2>3. Of(old) = {ResumptionPsk(old.epochSecret)}
    OBVIOUS
  <2> HIDE DEF Of, found
  <2> QED
    BY <2>2, <2>3
<1>2. p = [i \in DOMAIN ids |-> <<ids[i], CHOOSE psk \in Found(i) : TRUE, i, Len(ids)>>]
  BY DEF AccumulatePskSecret
<1>3. DOMAIN ids = 1 .. 1 /\ Len(ids) = 1 /\ \A i \in 1 .. 1 : ids[i] = id
  BY OnePskOf DEF OnePsk
<1> HIDE DEF ids, found
<1>4. \A i \in 1 .. 1 : (CHOOSE psk \in Found(i) : TRUE) = ResumptionPsk(old.epochSecret)
  <2> SUFFICES ASSUME NEW i \in 1 .. 1 PROVE (CHOOSE psk \in Found(i) : TRUE) = ResumptionPsk(old.epochSecret)
    OBVIOUS
  <2>1. Found(i) = {ResumptionPsk(old.epochSecret)}
    BY <1>1, <1>3 DEF found
  <2> QED
    BY <2>1
<1> HIDE DEF Found
<1>5. p = [i \in 1 .. 1 |-> <<id, ResumptionPsk(old.epochSecret), i, 1>>]
  BY <1>2, <1>3, <1>4
<1> QED
  BY <1>5 DEF ResumingSecret

\* What the creator adds: the others, then the PSK.
Extra(with, groupId, id) ==
  [i \in DOMAIN SetToSeq(with) |-> Add(SetToSeq(with)[i], groupId)] \o <<Psk(id)>>

AddsAndPsk(extra, n, with, groupId, id) ==
  /\ DOMAIN extra = 1 .. n + 1 /\ Len(extra) = n + 1
  /\ extra \in Seq({extra[i] : i \in 1 .. n + 1})
  /\ \A i \in 1 .. n : \E d \in with : extra[i] = Add(d, groupId)
  /\ extra[n + 1] = Psk(id)

LEMMA ExtraItems ==
  ASSUME NEW with, IsFiniteSet(with), NEW groupId, NEW id
  PROVE  \E n \in Nat : AddsAndPsk(Extra(with, groupId, id), n, with, groupId, id)
<1> DEFINE list == SetToSeq(with)
           n == Cardinality(with)
           AddAt(i) == Add(list[i], groupId)
           A == {AddAt(i) : i \in 1 .. n}
           S == A \union {Psk(id)}
           first == [i \in DOMAIN list |-> AddAt(i)]
           all == first \o <<Psk(id)>>
<1>1. n \in Nat /\ DOMAIN list = 1 .. n /\ \A i \in 1 .. n : list[i] \in with
  BY Listed
<1> HIDE DEF list, n
<1>2. \A i \in 1 .. n : \E d \in with : AddAt(i) = Add(d, groupId)
  BY <1>1
<1>3. \A i \in 1 .. n : AddAt(i) \in S
  OBVIOUS
<1>4. Psk(id) \in S
  OBVIOUS
<1> HIDE DEF AddAt, S
<1>5. first = [i \in 1 .. n |-> AddAt(i)]
  BY <1>1
<1>6. first \in Seq(S) /\ Len(first) = n /\ \A i \in 1 .. n : first[i] = AddAt(i)
  <2>1. [i \in 1 .. n |-> AddAt(i)] \in Seq(S)
    BY <1>1, <1>3, IsASeq
  <2>2. DOMAIN first = 1 .. n /\ \A i \in 1 .. n : first[i] = AddAt(i)
    BY <1>5
  <2>3. first \in Seq(S)
    BY <1>5, <2>1
  <2> HIDE DEF first
  <2>4. Len(first) = n
    BY <1>1, <2>2, <2>3, LenProperties
  <2> QED
    BY <2>2, <2>3, <2>4
<1>7. <<Psk(id)>> \in Seq(S) /\ Len(<<Psk(id)>>) = 1 /\ <<Psk(id)>>[1] = Psk(id)
  BY <1>4
<1> HIDE DEF first
<1>8. /\ all \in Seq(S) /\ Len(all) = n + 1
      /\ \A i \in 1 .. n + 1 : all[i] = IF i <= n THEN first[i] ELSE <<Psk(id)>>[i - n]
  <2> DEFINE second == <<Psk(id)>>
  <2>1. second \in Seq(S) /\ Len(second) = 1
    BY <1>7
  <2> HIDE DEF second
  <2>2. /\ first \o second \in Seq(S) /\ Len(first \o second) = Len(first) + Len(second)
        /\ \A i \in 1 .. Len(first) + Len(second) :
             (first \o second)[i] = IF i <= Len(first) THEN first[i] ELSE second[i - Len(first)]
    BY <1>6, <2>1, ConcatProperties
  <2> QED
    BY <1>6, <2>1, <2>2 DEF second
<1> HIDE DEF all
<1>9. DOMAIN all = 1 .. n + 1
  BY <1>8, LenProperties
<1>10. ASSUME NEW i \in 1 .. n PROVE \E d \in with : all[i] = Add(d, groupId)
  <2>1. all[i] = AddAt(i)
    BY <1>1, <1>6, <1>8
  <2> QED
    BY <1>2, <2>1
<1>11. all[n + 1] = Psk(id)
  BY <1>1, <1>7, <1>8
<1>12. all \in Seq({all[i] : i \in 1 .. n + 1})
  <2> DEFINE T == {all[i] : i \in 1 .. n + 1}
  <2>1. \A i \in 1 .. n + 1 : all[i] \in T
    OBVIOUS
  <2> HIDE DEF T
  <2>2. n + 1 \in Nat
    BY <1>1
  <2>3. [i \in 1 .. n + 1 |-> all[i]] \in Seq(T)
    BY <2>1, <2>2, IsASeq
  <2>4. all = [i \in 1 .. n + 1 |-> all[i]]
    BY <1>8, <1>9
  <2> QED
    BY <2>3, <2>4 DEF T
<1>13. Extra(with, groupId, id) = all
  BY DEF Extra, all, first, list, AddAt
<1> QED
  BY <1>1, <1>8, <1>9, <1>10, <1>11, <1>12, <1>13 DEF AddsAndPsk

\* The first commit of a group refers to nothing that is pending.
LEMMA FirstBundle ==
  ASSUME NEW s, s.unappliedProposals = {}, NEW c, NEW P, NEW extra \in Seq(P)
  PROVE  /\ DOMAIN BundleAllProposals(s, c, extra) = DOMAIN extra
         /\ \A i \in DOMAIN extra : BundleAllProposals(s, c, extra)[i] = Item(extra[i], c, {})
<1> DEFINE pending == SetToSeq({})
           first == [i \in DOMAIN pending |-> Item(pending[i].proposal, pending[i].sender, {pending[i]})]
           ItemAt(i) == Item(extra[i], c, {})
           second == [i \in DOMAIN extra |-> ItemAt(i)]
           n == Len(extra)
           S == {ItemAt(i) : i \in 1 .. n}
<1>1. n \in Nat /\ DOMAIN extra = 1 .. n
  BY LenProperties
<1>2. DOMAIN pending = {}
  <2>1. Cardinality({}) = 0 /\ IsFiniteSet({})
    BY FS_EmptySet
  <2>2. DOMAIN pending = 1 .. 0
    BY <2>1, Listed
  <2> QED
    BY <2>2
<1> HIDE DEF pending, n
<1>3. first = <<>>
  BY <1>2
<1>4. BundleAllProposals(s, c, extra) = first \o second
  BY DEF BundleAllProposals, pending
<1> HIDE DEF first
<1>5. \A i \in 1 .. n : ItemAt(i) \in S
  OBVIOUS
<1> HIDE DEF ItemAt, S
<1>6. second \in Seq(S) /\ DOMAIN second = 1 .. n /\ \A i \in 1 .. n : second[i] = ItemAt(i)
  <2>1. [i \in 1 .. n |-> ItemAt(i)] \in Seq(S)
    BY <1>1, <1>5, IsASeq
  <2> QED
    BY <1>1, <2>1
<1> HIDE DEF second
<1>7. <<>> \o second = second
  BY <1>6, ConcatEmptySeq
<1> QED
  BY <1>1, <1>3, <1>4, <1>6, <1>7 DEF ItemAt

HoldsOnePsk(items, id) ==
  PskIds(items) = OnePsk(id) /\ OfKind(items, "reinit") = {} /\ ClientsAdded(items) \subseteq Client

LEMMA ResumingItems ==
  ASSUME NEW s, s.unappliedProposals = {}, NEW c, NEW with \in SUBSET Client, NEW groupId, NEW id,
         NEW items, items = BundleAllProposals(s, c, Extra(with, groupId, id))
  PROVE  HoldsOnePsk(items, id)
<1> DEFINE extra == Extra(with, groupId, id)
<1>1. IsFiniteSet(with)
  BY ClientAssumption, FS_Subset
<1>2. PICK n \in Nat : AddsAndPsk(Extra(with, groupId, id), n, with, groupId, id)
  BY <1>1, ExtraItems
<1> USE DEF AddsAndPsk
<1> HIDE DEF extra
<1>3. /\ DOMAIN items = 1 .. n + 1
      /\ \A i \in 1 .. n + 1 : items[i] = Item(extra[i], c, {})
  BY <1>2, FirstBundle DEF extra
<1>4. ASSUME NEW i \in 1 .. n
      PROVE  items[i].proposal.kind = "add" /\ items[i].proposal.client \in Client
  <2>1. PICK d \in with : extra[i] = Add(d, groupId)
    BY <1>2 DEF extra
  <2>2. i \in 1 .. n + 1
    OBVIOUS
  <2>3. items[i].proposal = Add(d, groupId)
    BY <1>3, <2>1, <2>2 DEF Item
  <2> QED
    BY <2>3 DEF Add
<1>5. items[n + 1].proposal.kind = "psk" /\ items[n + 1].proposal.id = id
  <2>1. items[n + 1].proposal = Psk(id)
    BY <1>2, <1>3 DEF Item, extra
  <2> QED
    BY <2>1 DEF Psk
<1>6. \A i \in 1 .. n + 1 : i \in 1 .. n \/ i = n + 1
  OBVIOUS
<1>7. OfKind(items, "psk") = {n + 1} /\ OfKind(items, "reinit") = {} /\ OfKind(items, "add") \subseteq 1 .. n
  BY <1>3, <1>4, <1>5, <1>6 DEF OfKind
<1>8. PskIds(items) = OnePsk(id)
  <2>1. n + 1 \in Nat
    OBVIOUS
  <2> QED
    BY <1>5, <1>7, <2>1, OnePskId
<1>9. ClientsAdded(items) \subseteq Client
  BY <1>4, <1>7 DEF ClientsAdded
<1> QED
  BY <1>7, <1>8, <1>9 DEF HoldsOnePsk

\* The creator's group before its first commit.
NewGroup(c, groupId, parameters) ==
  ClientState(Context(groupId, parameters, 0), [d \in {c} |-> PackageKey(c, groupId)], PackageKey(c, groupId),
              <<"created", groupId>>, <<>>)

LEMMA NewGroupState ==
  ASSUME NEW c, NEW groupId, NEW parameters, NEW s, s = NewGroup(c, groupId, parameters)
  PROVE  /\ IsClientState(s) /\ s.groupContext.groupId = groupId /\ EpochOf(s) = 0
         /\ Len(s.groupContext.confirmedTranscriptHash) = 0
         /\ DOMAIN s.ratchetTree = {c} /\ s.unappliedProposals = {} /\ DOMAIN s.historicalReceiverData = {}
<1> DEFINE key == PackageKey(c, groupId)
           context == Context(groupId, parameters, 0)
           tree == [d \in {c} |-> key]
           secret == <<"created", groupId>>
<1>1. s = [groupContext |-> context, ratchetTree |-> tree, privateKey |-> key,
           unappliedProposals |-> {}, generation |-> 0, opened |-> {},
           epochSecret |-> secret, historicalReceiverData |-> <<>>,
           groupActiveState |-> "active", reinit |-> NoReinit]
  BY DEF NewGroup, ClientState
<1>2. context = [groupId |-> groupId, parameters |-> parameters, epoch |-> 0, confirmedTranscriptHash |-> <<>>]
  BY DEF Context
<1>3. IsTranscript(<<>>) /\ Len(<<>>) = 0 /\ DOMAIN <<>> = {}
  BY EmptySeq DEF IsTranscript
<1> HIDE DEF context, key, secret
<1>4. /\ IsContext(context) /\ context.groupId = groupId /\ context.epoch = 0
      /\ context.confirmedTranscriptHash = <<>>
  BY <1>2, <1>3 DEF IsContext
<1> HIDE DEF tree
<1>5. /\ s.groupContext = context /\ s.ratchetTree = tree /\ s.unappliedProposals = {}
      /\ s.historicalReceiverData = <<>>
  BY <1>1
<1>6. IsClientState(s)
  BY <1>1, <1>4 DEF IsClientState
<1>7. DOMAIN tree = {c}
  BY DEF tree
<1> QED
  BY <1>3, <1>4, <1>5, <1>6, <1>7 DEF EpochOf

\* What client c has, and what it sends, after it has created the group.
CreatedFor(c, groupId, r, w) ==
  /\ IsResumption(w) /\ GroupIdOf(w) = groupId
  /\ IsResumedState(r.state) /\ r.state.groupContext.groupId = groupId
  /\ Shares(w, c, r)

LEMMA CreatedResuming ==
  ASSUME NEW c \in Client, NEW old, old.groupContext.groupId = "group",
         NEW groupId \in {"branch", "new"}, NEW usage, usage = (IF groupId = "branch" THEN "branch" ELSE "reinit"),
         NEW parameters, NEW with \in SUBSET Client, NEW id, id = Resumption(usage, "group", EpochOf(old)),
         NEW external, NEW s, s = NewGroup(c, groupId, parameters),
         NEW created \in CreateCommit(c, s, {old}, external, Extra(with, groupId, id)),
         NEW r, r.state = created.newState, r.from = old
  PROVE  CreatedFor(c, groupId, r, Welcome(created, s))
<1> DEFINE items == BundleAllProposals(s, c, Extra(with, groupId, id))
           new == created.newState
           w == Welcome(created, s)
<1>1. /\ IsClientState(s) /\ s.groupContext.groupId = groupId /\ EpochOf(s) = 0
      /\ Len(s.groupContext.confirmedTranscriptHash) = 0
      /\ DOMAIN s.ratchetTree = {c} /\ s.unappliedProposals = {} /\ DOMAIN s.historicalReceiverData = {}
  BY NewGroupState
<1>2. PICK applied \in ApplyProposals(s, items, c, {old}, external) : Creates(c, s, items, applied, created)
  BY CreatedCommit
<1>3. PskIds(items) = OnePsk(id) /\ OfKind(items, "reinit") = {} /\ ClientsAdded(items) \subseteq Client
  <2>1. items = BundleAllProposals(s, c, Extra(with, groupId, id))
    OBVIOUS
  <2> HIDE DEF items
  <2>2. HoldsOnePsk(items, id)
    BY <1>1, <2>1, ResumingItems
  <2> QED
    BY <2>2 DEF HoldsOnePsk
<1> HIDE DEF items, new, w
<1>4. /\ applied.pskSecret \in AccumulatePskSecret(OnePsk(id), {old}, external)
      /\ applied.pskIds = OnePsk(id)
      /\ applied.tree = ApplyTreeMutations(s.ratchetTree, items)
      /\ applied.reinit = {items[i].proposal.reinit : i \in OfKind(items, "reinit")}
  BY <1>2, <1>3, AppliedProposals
<1>5. applied.reinit = {}
  BY <1>3, <1>4
<1>6. DOMAIN applied.tree = {c} \union ClientsAdded(items) /\ DOMAIN applied.tree \subseteq Client
  <2>1. DOMAIN applied.tree = DOMAIN s.ratchetTree \union ClientsAdded(items)
    BY <1>4, MutatedLeaves
  <2> QED
    BY <1>1, <1>3, <2>1
<1>7. PICK tree, key : OwnState(c, s, applied, created, tree, key)
  BY <1>1, <1>2, <1>6, OwnNewState
<1>8. /\ IsClientState(new)
      /\ new.groupContext = NextEpochContext(s.groupContext, created.content)
      /\ new.ratchetTree = tree /\ new.unappliedProposals = {}
      /\ new.historicalReceiverData = AddHistoricalReceiverData(s)
      /\ new.epochSecret = ExtractEpochSecret(new.groupContext,
                             ExtractJoinerSecret(new.groupContext, InitSecret(s.epochSecret), created.content.path),
                             applied.pskSecret)
      /\ new.groupActiveState = "active" /\ new.reinit = NoReinit
  <2>1. new = EpochStarted(s, applied, created.content, tree, key)
    BY <1>7 DEF OwnState, new
  <2> QED
    BY <1>1, <1>5, <2>1, StartedEpoch
<1>9. DOMAIN new.ratchetTree \subseteq Client
  BY <1>6, <1>7, <1>8 DEF OwnState
<1>10. /\ IsContext(new.groupContext) /\ new.groupContext.groupId = groupId /\ new.groupContext.epoch = 1
       /\ Len(new.groupContext.confirmedTranscriptHash) = 1
  <2>1. IsContext(s.groupContext)
    BY <1>1 DEF IsClientState
  <2>2. s.groupContext.epoch = 0
    BY <1>1 DEF EpochOf
  <2>3. /\ IsContext(new.groupContext) /\ new.groupContext.groupId = s.groupContext.groupId
        /\ new.groupContext.epoch = s.groupContext.epoch + 1
        /\ Len(new.groupContext.confirmedTranscriptHash) = Len(s.groupContext.confirmedTranscriptHash) + 1
    BY <1>8, <2>1, NextContext
  <2> QED
    BY <1>1, <2>2, <2>3
<1>11. DOMAIN new.historicalReceiverData \subseteq {0}
  <2>1. DOMAIN s.historicalReceiverData \subseteq 0 .. EpochOf(s) - 1 /\ EpochOf(s) \in Nat
    BY <1>1
  <2> QED
    BY <1>1, <1>8, <2>1, History
<1>12. IsResumedState(new)
  BY <1>8, <1>9, <1>10, <1>11 DEF IsResumedState, EpochOf
<1>13. /\ id.psktype = "resumption" /\ id.pskGroupId = "group" /\ id.usage = usage
       /\ id.pskEpoch = old.groupContext.epoch
  BY DEF Resumption, EpochOf
<1>14. applied.pskSecret = ResumingSecret(id, old)
  BY <1>4, <1>13, PskOfOld
<1>15. /\ w.to = DOMAIN applied.tree \ {c} /\ w.psks = OnePsk(id) /\ w.psks[1] = id
       /\ w.joinerSecret = ExtractJoinerSecret(new.groupContext, InitSecret(s.epochSecret), created.content.path)
       /\ w.sealedWith = ExtractWelcomeSecret(w.joinerSecret, applied.pskSecret)
       /\ w.groupInfo.groupContext = new.groupContext
       /\ w.groupInfo.ratchetTree = new.ratchetTree
  <2>1. /\ created.added = DOMAIN applied.tree \ DOMAIN s.ratchetTree
        /\ created.pskIds = applied.pskIds /\ created.pskSecret = applied.pskSecret
    BY <1>2 DEF Creates
  <2> QED
    BY <1>1, <1>4, <2>1, SentWelcome, OnePskOf DEF new, w
<1>16. IsResumption(w) /\ GroupIdOf(w) = groupId
  BY <1>9, <1>10, <1>13, <1>15 DEF IsResumption, GroupIdOf
<1>17. Shares(w, c, r)
  BY <1>8, <1>14, <1>15 DEF Shares, GroupIdOf, new
<1> QED
  BY <1>10, <1>12, <1>16, <1>17 DEF CreatedFor, new, w

\* joinGroupFromBranch and joinGroupFromReinit: only from the epoch that the
\* group resumes, and into the group that was agreed on.
\* The state with which a client joins group w from old.
JoinsTo(old, w, external, key, secret, state) ==
  /\ secret \in WelcomedSecret(w, {old}, external)
  /\ state = ClientState(w.groupInfo.groupContext, w.groupInfo.ratchetTree, key, secret, <<>>)

LEMMA JoinedResuming ==
  ASSUME NEW c, NEW old, old.groupContext.groupId = "group", NEW w, IsResumption(w),
         GroupIdOf(w) = "new" => old.reinit = ReInit.reinit,
         NEW external, NEW key, NEW secret, NEW state, JoinsTo(old, w, external, key, secret, state),
         NEW r, r.state = state, r.from = old
  PROVE  IsResumedState(r.state) /\ r.state.groupContext.groupId = GroupIdOf(w) /\ Shares(w, c, r)
<1> DEFINE context == w.groupInfo.groupContext
           id == w.psks[1]
<1>1. /\ IsContext(context) /\ context.epoch = 1 /\ Len(context.confirmedTranscriptHash) = 1
      /\ DOMAIN w.groupInfo.ratchetTree \subseteq Client
      /\ context.groupId \in {"branch", "new"}
      /\ w.psks = OnePsk(id) /\ id.psktype = "resumption" /\ id.pskGroupId = "group"
      /\ id.usage = IF context.groupId = "branch" THEN "branch" ELSE "reinit"
  BY DEF IsResumption
<1>2. PICK p \in AccumulatePskSecret(w.psks, {old}, external) :
        /\ ExtractWelcomeSecret(w.joinerSecret, p) = w.sealedWith
        /\ ResumptionAccepted(w.psks, {old}, context)
        /\ secret = ExtractEpochSecret(context, w.joinerSecret, p)
  <2>1. secret \in WelcomedSecret(w, {old}, external)
    BY DEF JoinsTo
  <2> QED
    BY <2>1, WelcomedWith
<1> HIDE DEF context, id
<1>3. id.pskEpoch = old.groupContext.epoch /\ (id.usage = "reinit" => ReinitMatches(old, context))
  <2>1. ResumptionIds(w.psks) = {1} /\ w.psks[1] = id
    BY <1>1, OnePskOf DEF ResumptionIds
  <2>2. Min({1}) = 1
    BY DEF Min
  <2> QED
    BY <1>2, <2>1, <2>2 DEF ResumptionAccepted
<1>4. p = ResumingSecret(id, old)
  BY <1>1, <1>2, <1>3, PskOfOld
<1>5. state = [groupContext |-> context, ratchetTree |-> w.groupInfo.ratchetTree, privateKey |-> key,
               unappliedProposals |-> {}, generation |-> 0, opened |-> {},
               epochSecret |-> secret, historicalReceiverData |-> <<>>,
               groupActiveState |-> "active", reinit |-> NoReinit]
  BY DEF JoinsTo, ClientState, context
<1>6. /\ IsClientState(state) /\ state.groupContext = context
      /\ state.ratchetTree = w.groupInfo.ratchetTree /\ state.unappliedProposals = {}
      /\ state.epochSecret = secret /\ DOMAIN state.historicalReceiverData = {}
      /\ state.groupActiveState = "active" /\ state.reinit = NoReinit
  BY <1>1, <1>5 DEF IsClientState
<1>7. IsResumedState(state)
  BY <1>1, <1>6 DEF IsResumedState, EpochOf
<1>8. GroupIdOf(w) = "new" => state.groupContext.parameters = ReInit.reinit.parameters
  BY <1>1, <1>3, <1>6 DEF GroupIdOf, ReinitMatches, context
<1>9. Shares(w, c, r)
  BY <1>2, <1>4, <1>6, <1>8 DEF Shares, context, id
<1> QED
  BY <1>6, <1>7, <1>9 DEF GroupIdOf, context

\* The store of client c holds r now.
Resumes(c, r) == resumed' = [d \in DOMAIN resumed \union {c} |-> IF d = c THEN r ELSE resumed[d]]

LEMMA CreatesResuming ==
  ASSUME NEW c \in Client, NEW old, old.groupContext.groupId = "group",
         NEW groupId \in {"branch", "new"}, NEW usage, usage = (IF groupId = "branch" THEN "branch" ELSE "reinit"),
         NEW parameters, NEW with \in SUBSET Client, CreateResuming(c, old, usage, groupId, parameters, with)
  PROVE  \E r, w : CreatedFor(c, groupId, r, w) /\ Resumes(c, r) /\ welcomes' = welcomes \union {w}
<1> DEFINE id == Resumption(usage, "group", EpochOf(old))
           s == NewGroup(c, groupId, parameters)
           all == CreateCommit(c, s, {old}, psks[c], Extra(with, groupId, id))
<1>1. \E created \in all :
        /\ Resumes(c, [state |-> created.newState, from |-> old])
        /\ welcomes' = welcomes \union {Welcome(created, s)}
  BY DEF CreateResuming, NewGroup, Extra, Resumes, Resumed
<1> HIDE DEF all
<1>2. PICK created \in all :
        /\ Resumes(c, [state |-> created.newState, from |-> old])
        /\ welcomes' = welcomes \union {Welcome(created, s)}
  BY <1>1
<1> DEFINE r == [state |-> created.newState, from |-> old]
<1>3. r.state = created.newState /\ r.from = old
  OBVIOUS
<1>4. created \in CreateCommit(c, s, {old}, psks[c], Extra(with, groupId, id))
  BY <1>2 DEF all
<1>5. Resumes(c, r)
  BY <1>2
<1> HIDE DEF r
<1>6. CreatedFor(c, groupId, r, Welcome(created, s))
  BY <1>3, <1>4, CreatedResuming
<1> QED
  BY <1>2, <1>5, <1>6

LEMMA JoinsResuming ==
  ASSUME NEW c, NEW old, old.groupContext.groupId = "group", NEW w, IsResumption(w),
         GroupIdOf(w) = "new" => old.reinit = ReInit.reinit,
         NEW state \in JoinResuming(c, old, w),
         NEW r, r.state = state, r.from = old
  PROVE  IsResumedState(r.state) /\ r.state.groupContext.groupId = GroupIdOf(w) /\ Shares(w, c, r)
<1> DEFINE key == PackageKey(c, w.groupInfo.groupContext.groupId)
           external == psks[c]
           StateOf(secret) == ClientState(w.groupInfo.groupContext, w.groupInfo.ratchetTree, key, secret, <<>>)
           secrets == WelcomedSecret(w, {old}, external)
<1>1. JoinResuming(c, old, w) = {StateOf(secret) : secret \in secrets}
  BY DEF JoinResuming
<1> HIDE DEF StateOf, secrets
<1>2. PICK secret \in secrets : state = StateOf(secret)
  BY <1>1
<1> HIDE DEF key, external
<1>3. JoinsTo(old, w, external, key, secret, state)
  BY <1>2 DEF JoinsTo, StateOf, secrets
<1> QED
  BY <1>3, JoinedResuming

LEMMA CreatedKept ==
  ASSUME ResumedInv, entry' = entry, NEW c \in DOMAIN entry, NEW groupId, NEW r, NEW w, CreatedFor(c, groupId, r, w),
         Resumes(c, r), welcomes' = welcomes \union {w}, c \notin DOMAIN resumed,
         \A d \in DOMAIN resumed : resumed[d].state.groupContext.groupId # groupId,
         \A v \in welcomes : GroupIdOf(v) # groupId
  PROVE  ResumedInv'
<1>1. /\ DOMAIN resumed' = DOMAIN resumed \union {c} /\ resumed'[c] = r
      /\ \A d \in DOMAIN resumed : resumed'[d] = resumed[d]
  BY DEF Resumes
<1>2. ASSUME NEW d \in DOMAIN resumed'
      PROVE  /\ IsResumedState(resumed'[d].state)
             /\ \E v \in welcomes' : GroupIdOf(v) = resumed'[d].state.groupContext.groupId
  BY <1>1 DEF ResumedInv, CreatedFor
<1>3. ASSUME NEW v \in welcomes', NEW d \in DOMAIN resumed' PROVE Shares(v, d, resumed'[d])
  <2>1. CASE v \in welcomes /\ d \in DOMAIN resumed
    BY <1>1, <2>1 DEF ResumedInv
  <2>2. CASE v = w /\ d = c
    BY <1>1, <2>2 DEF CreatedFor
  <2>3. CASE (v \in welcomes /\ d = c) \/ (v = w /\ d \in DOMAIN resumed)
    <3>1. resumed'[d].state.groupContext.groupId # GroupIdOf(v)
      BY <1>1, <2>3 DEF CreatedFor
    <3> QED
      BY <3>1 DEF Shares
  <2> QED
    BY <1>1, <2>1, <2>2, <2>3
<1>4. ASSUME NEW v \in welcomes'
      PROVE  /\ IsResumption(v)
             /\ \A u \in welcomes' : GroupIdOf(u) = GroupIdOf(v) => u = v
             /\ GroupIdOf(v) = "branch" => \E d \in DOMAIN resumed' : resumed'[d].state.groupContext.groupId = "branch"
  BY <1>1 DEF ResumedInv, CreatedFor
<1> QED
  BY <1>1, <1>2, <1>3, <1>4 DEF ResumedInv

LEMMA JoinedKept ==
  ASSUME ResumedInv, entry' = entry, NEW c \in DOMAIN entry, NEW w \in welcomes, NEW r,
         IsResumedState(r.state), r.state.groupContext.groupId = GroupIdOf(w), Shares(w, c, r),
         Resumes(c, r), welcomes' = welcomes, c \notin DOMAIN resumed \/ GroupIdOf(w) = "branch"
  PROVE  ResumedInv'
<1>1. /\ DOMAIN resumed' = DOMAIN resumed \union {c} /\ resumed'[c] = r
      /\ \A d \in DOMAIN resumed : d # c => resumed'[d] = resumed[d]
  BY DEF Resumes
<1>2. ASSUME NEW d \in DOMAIN resumed'
      PROVE  /\ IsResumedState(resumed'[d].state)
             /\ \E v \in welcomes' : GroupIdOf(v) = resumed'[d].state.groupContext.groupId
  BY <1>1 DEF ResumedInv
<1>3. ASSUME NEW v \in welcomes, NEW d \in DOMAIN resumed' PROVE Shares(v, d, resumed'[d])
  <2>1. CASE d # c
    BY <1>1, <2>1 DEF ResumedInv
  <2>2. CASE d = c /\ GroupIdOf(v) = GroupIdOf(w)
    BY <1>1, <2>2 DEF ResumedInv
  <2>3. CASE d = c /\ GroupIdOf(v) # GroupIdOf(w)
    BY <1>1, <2>3 DEF Shares
  <2> QED
    BY <2>1, <2>2, <2>3
<1>4. ASSUME NEW v \in welcomes, GroupIdOf(v) = "branch"
      PROVE  \E d \in DOMAIN resumed' : resumed'[d].state.groupContext.groupId = "branch"
  BY <1>1, <1>4 DEF ResumedInv
<1>5. ASSUME NEW v \in welcomes
      PROVE  /\ IsResumption(v)
             /\ \A u \in welcomes : GroupIdOf(u) = GroupIdOf(v) => u = v
  BY DEF ResumedInv
<1> QED
  BY <1>1, <1>2, <1>3, <1>4, <1>5 DEF ResumedInv

LEMMA ResumedStep ==
  ASSUME Inv, ResumeStep, UNCHANGED <<entry, reinits>>
  PROVE  ResumedInv'
<1>1. StoreInv /\ ReinitsInv /\ ResumedInv /\ DOMAIN entry \subseteq Client
  BY DEF Inv, StoreInv
<1>2. \A c \in DOMAIN entry : entry[c].state.groupContext.groupId = "group"
  BY <1>1 DEF StoreInv, IsGroupState
<1>3. \A c \in DOMAIN reinits :
        /\ c \in DOMAIN entry /\ reinits[c].groupContext.groupId = "group"
        /\ reinits[c].reinit = ReInit.reinit /\ reinits[c].reinit.groupId = "new"
  BY <1>1 DEF ReinitsInv, ReInit
<1>4. ASSUME NEW c \in DOMAIN entry, CreateBranch(c) PROVE ResumedInv'
  <2>1. /\ c \notin DOMAIN resumed
        /\ \A d \in DOMAIN resumed : resumed[d].state.groupContext.groupId # "branch"
        /\ \E with \in SUBSET {d \in Client \ {c} : <<d, "branch">> \in keyPackages} :
             CreateResuming(c, entry[c].state, "branch", "branch", entry[c].state.groupContext.parameters, with)
    BY <1>4 DEF CreateBranch
  <2>2. PICK with, parameters :
          /\ with \in SUBSET Client
          /\ CreateResuming(c, entry[c].state, "branch", "branch", parameters, with)
    BY <2>1
  <2>3. PICK r, w : CreatedFor(c, "branch", r, w) /\ Resumes(c, r) /\ welcomes' = welcomes \union {w}
    <3> DEFINE old == entry[c].state
    <3>1. old.groupContext.groupId = "group" /\ c \in Client
      BY <1>1, <1>2
    <3> HIDE DEF old
    <3>2. CreateResuming(c, old, "branch", "branch", parameters, with) /\ with \in SUBSET Client
      BY <2>2 DEF old
    <3> QED
      BY <3>1, <3>2, CreatesResuming
  <2>4. \A v \in welcomes : GroupIdOf(v) # "branch"
    BY <1>1, <2>1 DEF ResumedInv
  <2> QED
    BY <1>1, <2>1, <2>3, <2>4, CreatedKept
<1>5. ASSUME NEW c \in DOMAIN entry, HandleBranch(c) PROVE ResumedInv'
  <2>1. /\ \E w \in WelcomesFor(c, "branch") :
             \/ UNCHANGED resumed
             \/ \E state \in JoinResuming(c, entry[c].state, w) : Resumes(c, [state |-> state, from |-> entry[c].state])
        /\ UNCHANGED welcomes
    BY <1>5 DEF HandleBranch, Resumed, Resumes
  <2>2. CASE UNCHANGED resumed
    BY <1>1, <2>1, <2>2 DEF ResumedInv
  <2>3. ASSUME NEW w \in WelcomesFor(c, "branch"), NEW state \in JoinResuming(c, entry[c].state, w),
               Resumes(c, [state |-> state, from |-> entry[c].state])
        PROVE  ResumedInv'
    <3> DEFINE old == entry[c].state
               r == [state |-> state, from |-> old]
    <3>1. w \in welcomes /\ GroupIdOf(w) = "branch"
      BY DEF WelcomesFor, GroupIdOf
    <3>2. IsResumption(w) /\ old.groupContext.groupId = "group"
      BY <1>1, <1>2, <3>1 DEF ResumedInv
    <3>3. Resumes(c, r)
      BY <2>3
    <3>4. state \in JoinResuming(c, old, w) /\ r.state = state /\ r.from = old
      OBVIOUS
    <3> HIDE DEF old, r
    <3>5. IsResumedState(r.state) /\ r.state.groupContext.groupId = GroupIdOf(w) /\ Shares(w, c, r)
      BY <3>1, <3>2, <3>4, JoinsResuming
    <3> QED
      BY <1>1, <2>1, <3>1, <3>3, <3>5, JoinedKept
  <2> QED
    BY <2>1, <2>2, <2>3
<1>6. ASSUME NEW c \in DOMAIN reinits, NEW parameters, NEW with \in SUBSET DOMAIN reinits,
             ReInitWelcome(c, parameters, with)
      PROVE  ResumedInv'
  <2> DEFINE old == reinits[c]
  <2>1. /\ c \notin DOMAIN resumed /\ welcomes = {}
        /\ CreateResuming(c, old, "reinit", old.reinit.groupId, parameters, with)
    BY <1>6 DEF ReInitWelcome
  <2>2. old.groupContext.groupId = "group" /\ old.reinit.groupId = "new" /\ c \in Client /\ with \in SUBSET Client
    BY <1>1, <1>3
  <2> HIDE DEF old
  <2>3. PICK r, w : CreatedFor(c, "new", r, w) /\ Resumes(c, r) /\ welcomes' = welcomes \union {w}
    <3>1. CreateResuming(c, old, "reinit", "new", parameters, with)
      BY <2>1, <2>2
    <3> QED
      BY <2>2, <3>1, CreatesResuming
  <2>4. DOMAIN resumed = {}
    BY <1>1, <2>1 DEF ResumedInv
  <2>5. c \in DOMAIN entry
    BY <1>3
  <2> QED
    BY <1>1, <2>1, <2>3, <2>4, <2>5, CreatedKept
<1>7. ASSUME NEW c \in DOMAIN reinits, HandleReInitWelcome(c) PROVE ResumedInv'
  <2> DEFINE old == reinits[c]
  <2>1. /\ c \notin DOMAIN resumed /\ UNCHANGED welcomes
        /\ \E w \in WelcomesFor(c, old.reinit.groupId) :
             \E state \in JoinResuming(c, old, w) : Resumes(c, [state |-> state, from |-> old])
    BY <1>7 DEF HandleReInitWelcome, Resumed, Resumes
  <2> HIDE DEF old
  <2>2. PICK w \in WelcomesFor(c, old.reinit.groupId) :
          \E state \in JoinResuming(c, old, w) : Resumes(c, [state |-> state, from |-> old])
    BY <2>1
  <2>3. PICK state \in JoinResuming(c, old, w) : Resumes(c, [state |-> state, from |-> old])
    BY <2>2
  <2> DEFINE r == [state |-> state, from |-> old]
  <2>4. Resumes(c, r)
    BY <2>3
  <2>5. r.state = state /\ r.from = old
    OBVIOUS
  <2> HIDE DEF r
  <2>6. w \in welcomes /\ IsResumption(w)
    BY <1>1 DEF WelcomesFor, ResumedInv
  <2>7. c \in DOMAIN entry /\ old.groupContext.groupId = "group" /\ old.reinit = ReInit.reinit
    BY <1>3 DEF old
  <2>8. IsResumedState(r.state) /\ r.state.groupContext.groupId = GroupIdOf(w) /\ Shares(w, c, r)
    BY <2>5, <2>6, <2>7, JoinsResuming
  <2> QED
    BY <1>1, <2>1, <2>4, <2>6, <2>7, <2>8, JoinedKept
<1> QED
  BY <1>4, <1>5, <1>6, <1>7 DEF ResumeStep

LEMMA ResumedKept ==
  ASSUME Inv, [Next]_vars
  PROVE  ResumedInv'
<1>1. CASE UNCHANGED <<resumed, welcomes>> /\ DOMAIN entry \subseteq DOMAIN entry'
  BY <1>1 DEF Inv, ResumedInv
<1>2. ASSUME NEW c \in DOMAIN entry, ProposeStep(c) \/ IngestStep(c) \/ CommitStep(c) \/ EnterStep(c)
      PROVE  ResumedInv'
  BY <1>1, <1>2 DEF ProposeStep, IngestStep, CommitStep, EnterStep, Changes, Unchanged
<1>3. ASSUME NEW c \in Client, JoinStep(c) PROVE ResumedInv'
  BY <1>1, <1>3 DEF JoinStep
<1>4. CASE QuietStep
  BY <1>1, <1>4, ResumedStep DEF QuietStep
<1> QED
  BY <1>2, <1>3, <1>4, NextSteps

-----------------------------------------------------------------------------
(* The invariant holds at first.                                           *)

LEMMA EmptyTranscript == IsTranscript(<<>>)
  BY DEF IsTranscript

LEMMA FirstStates ==
  ASSUME NEW c, NEW creator, NEW members, c \in members, members \subseteq Client
  PROVE  LET s == FirstState(c, creator, members)
         IN  /\ IsGroupState(c, s) /\ EpochOf(s) = 1
             /\ s.unappliedProposals = {} /\ s.privateKey = s.ratchetTree[c]
             /\ DOMAIN s.ratchetTree = members
             /\ DOMAIN s.historicalReceiverData \subseteq {0}
<1> DEFINE context == Context("group", "old", 1)
           tree == FoundingTree(members)
           key == PackageKey(c, "group")
           history == [e \in IF c = creator THEN {0} ELSE {} |-> ResumptionPsk(<<"created", "group">>)]
           s == FirstState(c, creator, members)
<1>1. s = [groupContext |-> context, ratchetTree |-> tree, privateKey |-> key,
           unappliedProposals |-> {}, generation |-> 0, opened |-> {},
           epochSecret |-> <<"founded">>, historicalReceiverData |-> history,
           groupActiveState |-> "active", reinit |-> NoReinit]
  BY DEF FirstState, ClientState
<1>2. context = [groupId |-> "group", parameters |-> "old", epoch |-> 1, confirmedTranscriptHash |-> <<>>]
  BY DEF Context
<1>3. DOMAIN tree = members /\ tree[c] = key
  BY DEF FoundingTree
<1>4. DOMAIN history \subseteq {0}
  OBVIOUS
<1> HIDE DEF context, tree, key, history, s
<1>5. IsContext(context) /\ context.groupId = "group" /\ context.epoch = 1
  BY <1>2, EmptyTranscript DEF IsContext
<1>6. Len(context.confirmedTranscriptHash) = 0
  BY <1>2
<1>7. IsClientState(s)
  BY <1>1, <1>5 DEF IsClientState
<1>8. EpochOf(s) = 1 /\ s.groupContext = context
  BY <1>1, <1>5 DEF EpochOf
<1>9. IsGroupState(c, s)
  BY <1>1, <1>3, <1>4, <1>5, <1>6, <1>7, <1>8 DEF IsGroupState
<1> QED
  BY <1>1, <1>3, <1>4, <1>8, <1>9 DEF s

LEMMA InitInv == Init => Inv
<1> SUFFICES ASSUME Init PROVE Inv
  OBVIOUS
<1> DEFINE members == scenario.members
           First(c) == FirstState(c, scenario.creator, members)
<1>1. /\ scenario \in Scenarios
      /\ reinits = <<>> /\ resumed = <<>>
      /\ proposals = {} /\ commits = {} /\ accepted = <<>> /\ welcomes = {}
  BY DEF Init
<1>2. entry = [c \in members |-> Inserted(First(c))]
  BY DEF Init
<1>3. keyPackages = ((Client \ members) \X {"group"}) \union (IF scenario.branch THEN members \X {"branch"} ELSE {})
  BY DEF Init
<1>4. members \subseteq Client /\ scenario.maxEpoch \in Nat \ {0}
  BY <1>1, ScenarioAssumption
<1>5. \A c \in members :
        /\ IsGroupState(c, First(c)) /\ EpochOf(First(c)) = 1 /\ IsClientState(First(c))
        /\ First(c).unappliedProposals = {} /\ First(c).privateKey = First(c).ratchetTree[c]
        /\ DOMAIN First(c).historicalReceiverData \subseteq {0}
  BY <1>4, FirstStates DEF IsGroupState
<1> HIDE DEF members, First
<1>6. /\ DOMAIN entry = members
      /\ \A c \in members :
           /\ entry[c] = Inserted(First(c)) /\ entry[c].state = First(c)
           /\ entry[c].pendingNewState = {} /\ entry[c].ingestedBytes = {} /\ IsEntry(entry[c])
  BY <1>2, <1>5 DEF Inserted, IsEntry
<1>7. StoreInv
  <2>1. entry = [c \in DOMAIN entry |-> entry[c]]
    BY <1>2
  <2>2. keyPackages \subseteq Client \X {"group", "branch"} /\ \A c \in members : <<c, "group">> \notin keyPackages
    BY <1>3, <1>4
  <2>3. \A c \in DOMAIN entry :
          /\ IsEntry(entry[c]) /\ IsGroupState(c, entry[c].state)
          /\ EpochOf(entry[c].state) <= scenario.maxEpoch
          /\ entry[c].state.unappliedProposals = {} /\ entry[c].ingestedBytes = {} /\ entry[c].pendingNewState = {}
    BY <1>4, <1>5, <1>6
  <2> QED
    BY <1>1, <1>4, <1>6, <2>1, <2>2, <2>3 DEF StoreInv
<1>8. ProposalInv /\ ProposalsHaveOwnGeneration
  BY <1>1, FS_EmptySet DEF ProposalInv, ProposalsHaveOwnGeneration
<1>9. CommitInv
  BY <1>1 DEF CommitInv
<1>10. AcceptedInv
  BY <1>1 DEF AcceptedInv
<1>11. LeafKeyInv
  BY <1>5, <1>6 DEF LeafKeyInv
<1>12. ReinitsInv
  BY <1>1 DEF ReinitsInv
<1>13. JoinInv
  BY <1>1, <1>5, <1>6 DEF JoinInv, members
<1>14. HistoryInv
  <2>1. ASSUME NEW c \in DOMAIN entry
        PROVE  /\ EpochOf(entry[c].state) = 1 /\ DOMAIN entry[c].state.historicalReceiverData \subseteq {0}
               /\ JoinedIn(c) = 1
    BY <1>5, <1>6 DEF JoinedIn, members
  <2> QED
    BY <2>1 DEF HistoryInv
<1>15. ResumedInv
  BY <1>1 DEF ResumedInv
<1> QED
  BY <1>7, <1>8, <1>9, <1>10, <1>11, <1>12, <1>13, <1>14, <1>15 DEF Inv

(***************************************************************************)
(* The inductive invariant: what is in the stores of the clients and in    *)
(* the messages under way, whichever calls the runner makes of which       *)
(* clients, and in whatever order.                                         *)
(***************************************************************************)
THEOREM Invariant == Spec => []Inv
<1>1. Inv /\ [Next]_vars => Inv'
  BY StoreKept, ProposalsKept, CommitsKept, AcceptedKept, LeafKeysKept, ReinitsKept, JoinKept, HistoryKept,
     ResumedKept DEF Inv
<1> QED
  BY InitInv, <1>1, PTL DEF Spec

-----------------------------------------------------------------------------
(* What the invariant says of the clients.                                 *)

(***************************************************************************)
(* What a client's own commit leads to is always the successor of the      *)
(* state it stands beside in the store, whatever the client ingests,       *)
(* proposes or follows meanwhile (pendingNewState of state.ts).            *)
(***************************************************************************)
THEOREM PendingSucceeds == Spec => []PendingIsSuccessor
<1>1. Inv => PendingIsSuccessor
  <2> SUFFICES ASSUME StoreInv, NEW c \in DOMAIN entry, NEW new \in entry[c].pendingNewState
               PROVE  LET context == entry[c].state.groupContext
                          next    == new.groupContext.confirmedTranscriptHash
                      IN  /\ new.groupContext.epoch = context.epoch + 1
                          /\ SubSeq(next, 1, Len(next) - 1) = context.confirmedTranscriptHash
    BY DEF Inv, PendingIsSuccessor
  <2> DEFINE context == entry[c].state.groupContext
  <2>1. IsContext(context)
    BY DEF StoreInv, IsGroupState, IsClientState
  <2>2. PICK commit \in commits : Leads(commit, entry[c].state, new)
    BY DEF StoreInv
  <2>3. new.groupContext = NextEpochContext(context, commit.content)
    BY <2>2 DEF Leads
  <2> HIDE DEF context
  <2>4. /\ new.groupContext.epoch = context.epoch + 1
        /\ Len(context.confirmedTranscriptHash) \in Nat
        /\ Len(new.groupContext.confirmedTranscriptHash) = Len(context.confirmedTranscriptHash) + 1
        /\ SubSeq(new.groupContext.confirmedTranscriptHash, 1, Len(context.confirmedTranscriptHash))
             = context.confirmedTranscriptHash
    BY <2>1, <2>3, NextContext
  <2>5. Len(new.groupContext.confirmedTranscriptHash) - 1 = Len(context.confirmedTranscriptHash)
    BY <2>4
  <2> QED
    BY <2>4, <2>5 DEF context
<1> QED
  BY Invariant, <1>1, PTL

(***************************************************************************)
(* No two private proposals of a client use one generation: each handler   *)
(* stores the state that its message left (mlsServer of service.ts).       *)
(***************************************************************************)
THEOREM OwnGenerations == Spec => []ProposalsHaveOwnGeneration
<1>1. Inv => ProposalsHaveOwnGeneration
  BY DEF Inv
<1> QED
  BY Invariant, <1>1, PTL

(***************************************************************************)
(* With no Update proposal waiting, a client holds the private key of its  *)
(* leaf, however it came to its epoch (applyPendingLeafUpdate).            *)
(***************************************************************************)
THEOREM LeafKeyHeld == Spec => []HoldsLeafKey
<1>1. Inv => HoldsLeafKey
  BY DEF Inv, LeafKeyInv, HoldsLeafKey
<1> QED
  BY Invariant, <1>1, PTL

LEMMA KnownJoined ==
  ASSUME CommitInv, AcceptedInv, JoinInv, NEW c \in DOMAIN entry
  PROVE  JoinedIn(c) \in Nat
<1>1. CASE c \in scenario.members
  BY <1>1 DEF JoinedIn
<1>2. CASE c \notin scenario.members
  <2>1. PICK j \in DOMAIN accepted : c \in accepted[j].welcome.to
    BY <1>2 DEF JoinInv
  <2>2. JoinedIn(c) = j + 1 /\ j \in Nat
    BY <1>2, <2>1, JoinedAfter DEF AcceptedInv
  <2> QED
    BY <2>2
<1> QED
  BY <1>1, <1>2

\* What makePskIndex finds of an epoch of the group.
LEMMA FoundPsk ==
  ASSUME NEW s, s.groupContext.groupId = "group", NEW e
  PROVE  FindPsk({s}, <<>>, Resumption("application", "group", e)) =
           IF EpochOf(s) = e THEN {ResumptionPsk(s.epochSecret)}
           ELSE {s.historicalReceiverData[d] : d \in {e} \intersect DOMAIN s.historicalReceiverData}
<1> DEFINE id == Resumption("application", "group", e)
           Kept(t) == IF t.groupContext.epoch = e THEN {ResumptionPsk(t.epochSecret)}
                      ELSE {t.historicalReceiverData[d] : d \in {e} \intersect DOMAIN t.historicalReceiverData}
<1>1. id.psktype = "resumption" /\ id.pskGroupId = "group" /\ id.pskEpoch = e
  BY DEF Resumption
<1> HIDE DEF id
<1>2. {t \in {s} : t.groupContext.groupId = "group"} = {s}
  OBVIOUS
<1>3. FindPsk({s}, <<>>, id) = UNION {Kept(t) : t \in {s}}
  BY <1>1, <1>2 DEF FindPsk
<1> HIDE DEF Kept
<1>4. UNION {Kept(t) : t \in {s}} = Kept(s)
  OBVIOUS
<1> QED
  BY <1>3, <1>4 DEF Kept, id, EpochOf

(***************************************************************************)
(* The resumption PSK a client finds for an epoch is the one of that epoch *)
(* for all its members, and it finds those of the retained epochs that it  *)
(* has been in (makePskIndex, addHistoricalReceiverData).                  *)
(***************************************************************************)
THEOREM PskIsOfItsEpoch == Spec => []PskOfItsEpoch
<1>1. Inv => PskOfItsEpoch
  <2> SUFFICES ASSUME Inv, NEW c \in DOMAIN entry, NEW e \in 1 .. EpochOf(entry[c].state),
                      NEW found, found = FindPsk({entry[c].state}, <<>>, Resumption("application", "group", e))
               PROVE  /\ e >= JoinedIn(c) /\ e + RetainKeysForEpochs >= EpochOf(entry[c].state) => found # {}
                      /\ e > 1 => found \subseteq {ResumptionPsk(accepted[e - 1].confirmationTag[2])}
    BY DEF PskOfItsEpoch
  <2> DEFINE s == entry[c].state
             history == s.historicalReceiverData
  <2>1. s.groupContext.groupId = "group" /\ EpochOf(s) \in Nat
    BY DEF Inv, StoreInv, IsGroupState
  <2>2. /\ EpochOf(s) > 1 => s.epochSecret = EpochSecretAfter(EpochOf(s))
        /\ e \in DOMAIN history /\ e > 1 => history[e] = ResumptionPsk(EpochSecretAfter(e))
        /\ e \in JoinedIn(c) .. EpochOf(s) - 1 /\ e + RetainKeysForEpochs >= EpochOf(s) => e \in DOMAIN history
    BY DEF Inv, HistoryInv
  <2>3. JoinedIn(c) \in Nat /\ e \in Nat /\ e <= EpochOf(s)
    BY <2>1, KnownJoined DEF Inv
  <2>4. found = IF EpochOf(s) = e THEN {ResumptionPsk(s.epochSecret)}
                ELSE {history[d] : d \in {e} \intersect DOMAIN history}
    BY <2>1, FoundPsk
  <2> HIDE DEF s, history
  <2>5. CASE e = EpochOf(s)
    BY <2>2, <2>4, <2>5 DEF EpochSecretAfter
  <2>6. CASE e # EpochOf(s)
    <3>1. e \in DOMAIN history => found = {history[e]}
      BY <2>4, <2>6
    <3>2. e \notin DOMAIN history => found = {}
      BY <2>4, <2>6
    <3>3. e >= JoinedIn(c) => e \in JoinedIn(c) .. EpochOf(s) - 1
      BY <2>1, <2>3, <2>6
    <3> QED
      BY <2>2, <3>1, <3>2, <3>3 DEF EpochSecretAfter, s
  <2> QED
    BY <2>5, <2>6 DEF s
<1> QED
  BY Invariant, <1>1, PTL

(***************************************************************************)
(* Whoever has a resumed group came from one epoch of the group it resumes *)
(* and has one epoch secret with the others, although each joins with the  *)
(* resumption PSK of the state it is in by then (joinGroupInternal).       *)
(***************************************************************************)
THEOREM ResumedFromOneEpoch == Spec => []FromOneEpoch
<1>1. Inv => FromOneEpoch
  <2> SUFFICES ASSUME ResumedInv, NEW c \in DOMAIN resumed, NEW d \in DOMAIN resumed,
                      resumed[c].state.groupContext.groupId = resumed[d].state.groupContext.groupId
               PROVE  /\ resumed[c].from.epochSecret = resumed[d].from.epochSecret
                      /\ resumed[c].state.epochSecret = resumed[d].state.epochSecret
    BY DEF Inv, FromOneEpoch
  <2>1. PICK w \in welcomes : GroupIdOf(w) = resumed[c].state.groupContext.groupId
    BY DEF ResumedInv
  <2> DEFINE psk(b) == ResumingSecret(w.psks[1], resumed[b].from)
  <2>2. Shares(w, c, resumed[c]) /\ Shares(w, d, resumed[d])
    BY DEF ResumedInv
  <2>3. /\ ExtractWelcomeSecret(w.joinerSecret, psk(c)) = ExtractWelcomeSecret(w.joinerSecret, psk(d))
        /\ resumed[c].state.epochSecret = ExtractEpochSecret(w.groupInfo.groupContext, w.joinerSecret, psk(c))
        /\ resumed[d].state.epochSecret = ExtractEpochSecret(w.groupInfo.groupContext, w.joinerSecret, psk(d))
    BY <2>1, <2>2 DEF Shares
  <2>4. psk(c)[1][2] = ResumptionPsk(resumed[c].from.epochSecret) /\ psk(d)[1][2] = ResumptionPsk(resumed[d].from.epochSecret)
    BY DEF ResumingSecret
  <2> HIDE DEF psk
  <2>5. psk(c) = psk(d)
    BY <2>3 DEF ExtractWelcomeSecret
  <2>6. resumed[c].from.epochSecret = resumed[d].from.epochSecret
    BY <2>4, <2>5 DEF ResumptionPsk, DeriveSecret
  <2> QED
    BY <2>3, <2>5, <2>6
<1> QED
  BY Invariant, <1>1, PTL

(***************************************************************************)
(* Whoever is welcomed into the successor of a reinitialized group gets    *)
(* the group id and the parameters that the reinit commit agreed on,       *)
(* whatever its creator chose (joinGroupFromReinit).                       *)
(***************************************************************************)
THEOREM ReinitIsAsAgreed == Spec => []ReinitAsAgreed
<1>1. Inv => ReinitAsAgreed
  <2> SUFFICES ASSUME ResumedInv, NEW c \in DOMAIN resumed, NEW w \in welcomes, c \in w.to,
                      resumed[c].state.groupContext.groupId # "branch",
                      w.groupInfo.groupContext.groupId = resumed[c].state.groupContext.groupId
               PROVE  /\ resumed[c].state.groupContext.groupId = ReInit.reinit.groupId
                      /\ resumed[c].state.groupContext.parameters = ReInit.reinit.parameters
    BY DEF Inv, ReinitAsAgreed
  <2>1. IsResumption(w) /\ Shares(w, c, resumed[c])
    BY DEF ResumedInv
  <2>2. GroupIdOf(w) = "new" /\ resumed[c].state.groupContext.groupId = "new"
    BY <2>1 DEF IsResumption, GroupIdOf
  <2>3. ReInit.reinit.groupId = "new"
    BY DEF ReInit
  <2> QED
    BY <2>1, <2>2, <2>3 DEF Shares
<1> QED
  BY Invariant, <1>1, PTL

\* What TypeOK says of one state.
IsOwnState(s) ==
  /\ DOMAIN s.ratchetTree \subseteq Client
  /\ EpochOf(s) \in 1 .. scenario.maxEpoch
  /\ Len(s.groupContext.confirmedTranscriptHash) \in {EpochOf(s), EpochOf(s) - 1}
  /\ s.unappliedProposals \subseteq ProposalsOf(EpochOf(s))
  /\ DOMAIN s.historicalReceiverData \subseteq 0 .. EpochOf(s) - 1
  /\ s.groupActiveState = "suspendedPendingReinit" <=> s.reinit # NoReinit

\* What stands for no reinit is none that is proposed.
LEMMA NoReinitIsNone == NoReinit # ReInit.reinit
  BY DEF NoReinit, ReInit

LEMMA GroupStateIsOwn ==
  ASSUME NEW c, NEW s, IsGroupState(c, s), scenario.maxEpoch \in Nat, EpochOf(s) <= scenario.maxEpoch,
         s.unappliedProposals \subseteq ProposalsOf(EpochOf(s))
  PROVE  IsOwnState(s)
<1>1. EpochOf(s) \in 1 .. scenario.maxEpoch
  BY DEF IsGroupState
<1>2. s.groupActiveState = "suspendedPendingReinit" <=> s.reinit # NoReinit
  BY NoReinitIsNone DEF IsGroupState
<1> QED
  BY <1>1, <1>2 DEF IsGroupState, IsOwnState

(***************************************************************************)
(* Every state in a store, current, waiting or resumed, is one of the      *)
(* group: its epoch counts the commits in its transcript, what is pending  *)
(* is of its epoch, its history of earlier ones, and it is suspended just  *)
(* when it holds a reinit proposal (state.ts, clientState.ts).             *)
(***************************************************************************)
THEOREM TypeCorrect == Spec => []TypeOK
<1>1. Inv => TypeOK
  <2> SUFFICES ASSUME Inv PROVE TypeOK
    OBVIOUS
  <2>1. StoreInv /\ CommitInv /\ AcceptedInv /\ ReinitsInv /\ ResumedInv
    BY DEF Inv
  <2>2. scenario.maxEpoch \in Nat \ {0}
    BY <2>1, ScenarioAssumption DEF StoreInv
  <2>3. ASSUME NEW c \in DOMAIN entry PROVE IsOwnState(entry[c].state)
    BY <2>1, <2>2, GroupStateIsOwn DEF StoreInv
  <2>4. ASSUME NEW c \in DOMAIN entry, NEW new \in entry[c].pendingNewState PROVE IsOwnState(new)
    <3> DEFINE s == entry[c].state
    <3>1. PICK commit \in commits : Leads(commit, s, new)
      BY <2>1 DEF StoreInv
    <3>2. IsGroupState(c, s) /\ EpochOf(s) \in Nat
      BY <2>1 DEF StoreInv, IsGroupState
    <3>3. commit.content.epoch = EpochOf(s) /\ new.unappliedProposals = {}
      BY <3>1 DEF Leads
    <3>4. IsCommit(commit, proposals) /\ commit.content.epoch < scenario.maxEpoch
      BY <2>1 DEF CommitInv
    <3>5. AddedBy(commit) \subseteq Client
      BY <3>4, AddsClients
    <3> HIDE DEF s
    <3>6. IsGroupState(c, new) /\ EpochOf(new) = EpochOf(s) + 1
      BY <3>1, <3>2, <3>5, LedToGroupState
    <3>7. EpochOf(new) <= scenario.maxEpoch
      BY <2>2, <3>2, <3>3, <3>4, <3>6
    <3> QED
      BY <2>2, <3>3, <3>6, <3>7, GroupStateIsOwn
  <2>5. ASSUME NEW c \in DOMAIN resumed PROVE IsOwnState(resumed[c].state)
    <3>1. IsResumedState(resumed[c].state)
      BY <2>1 DEF ResumedInv
    <3> QED
      BY <2>2, <3>1 DEF IsResumedState, IsOwnState
  <2>6. \A s \in State : IsOwnState(s)
    BY <2>3, <2>4, <2>5 DEF State
  <2>7. DOMAIN entry \subseteq Client /\ DOMAIN reinits \subseteq DOMAIN entry /\ DOMAIN resumed \subseteq DOMAIN entry
    BY <2>1 DEF StoreInv, ReinitsInv, ResumedInv
  <2>8. \A c \in DOMAIN entry : entry[c].ingestedBytes \subseteq proposals
    BY <2>1 DEF StoreInv
  <2>9. \A c \in DOMAIN reinits : reinits[c].groupActiveState = "suspendedPendingReinit"
    BY <2>1 DEF ReinitsInv
  <2>10. accepted \in Seq(commits) /\ keyPackages \subseteq Client \X {"group", "branch"}
    BY <2>1 DEF AcceptedInv, StoreInv
  <2>11. \A s \in State :
           /\ DOMAIN s.ratchetTree \subseteq Client
           /\ EpochOf(s) \in 1 .. scenario.maxEpoch
           /\ Len(s.groupContext.confirmedTranscriptHash) \in {EpochOf(s), EpochOf(s) - 1}
           /\ s.unappliedProposals \subseteq ProposalsOf(EpochOf(s))
           /\ DOMAIN s.historicalReceiverData \subseteq 0 .. EpochOf(s) - 1
           /\ s.groupActiveState = "suspendedPendingReinit" <=> s.reinit # NoReinit
    BY <2>6 DEF IsOwnState
  <2> QED
    BY <2>7, <2>8, <2>9, <2>10, <2>11 DEF TypeOK
<1> QED
  BY Invariant, <1>1, PTL
=============================================================================
