---------------------------- MODULE KeySchedule ----------------------------
(***************************************************************************)
(* The secrets of an epoch and what they depend on: the transcript, the    *)
(* init secret of the epoch before, the commit secret and the pre-shared   *)
(* keys a commit refers to (keySchedule.ts, transcriptHash.ts,             *)
(* presharedkey.ts, pskIndex.ts), and the checks a newcomer makes of the   *)
(* Welcome it joins by (joinGroupInternal of clientState.ts).              *)
(*                                                                         *)
(* A secret is the term it is derived by, a hash the value it is taken of: *)
(* two are equal when they are derived alike from equal things.  An        *)
(* operator that can throw returns the set of its results, empty when it   *)
(* does.                                                                   *)
(***************************************************************************)
EXTENDS Naturals, Sequences, FiniteSets, FiniteSetsExt

CONSTANT RetainKeysForEpochs  \* keyRetentionConfig: earlier epochs kept

ASSUME RetainEpochsAssumption == RetainKeysForEpochs \in Nat

DeriveSecret(secret, label) == <<label, secret>>

\* The confirmed transcript hash: the commits of the group, each with what is
\* signed of it, over the interim hash of those before.
CreateConfirmedHash(interim, content) == Append(interim, content)

NextEpochContext(context, content) ==
  [context EXCEPT !.epoch = @ + 1,
                  !.confirmedTranscriptHash = CreateConfirmedHash(@, content)]

ExtractJoinerSecret(context, initSecret, commitSecret) == <<"joiner", initSecret, commitSecret, context>>

ExtractWelcomeSecret(joinerSecret, pskSecret) == <<"welcome", joinerSecret, pskSecret>>

ExtractEpochSecret(context, joinerSecret, pskSecret) == <<"epoch", context, joinerSecret, pskSecret>>

InitSecret(epochSecret) == DeriveSecret(epochSecret, "init")
ResumptionPsk(epochSecret) == DeriveSecret(epochSecret, "resumption")
ConfirmationTag(epochSecret) == DeriveSecret(epochSecret, "confirm")

-----------------------------------------------------------------------------
External(pskId) == [psktype |-> "external", pskId |-> pskId, usage |-> "none", pskGroupId |-> "none", pskEpoch |-> 0]

Resumption(usage, groupId, e) ==
  [psktype |-> "resumption", pskId |-> "none", usage |-> usage, pskGroupId |-> groupId, pskEpoch |-> e]

FindPskOfCurrentEpoch(state, externalPsks, id) ==  \* mutant: former epochs answered with the current one
  IF id.psktype = "external"
  THEN {externalPsks[i] : i \in {id.pskId} \intersect DOMAIN externalPsks}
  ELSE {ResumptionPsk(s.epochSecret) : s \in {t \in state : t.groupContext.groupId = id.pskGroupId}}

\* findPsk of makePskIndex, for a set that holds the state or is empty.
FindPsk(state, externalPsks, id) ==
  IF id.psktype = "external"
  THEN {externalPsks[i] : i \in {id.pskId} \intersect DOMAIN externalPsks}
  ELSE UNION {IF s.groupContext.epoch = id.pskEpoch
              THEN {ResumptionPsk(s.epochSecret)}
              ELSE {s.historicalReceiverData[e] : e \in {id.pskEpoch} \intersect DOMAIN s.historicalReceiverData}
              : s \in {t \in state : t.groupContext.groupId = id.pskGroupId}}

\* accumulatePskSecret: a chain over the ids, each with its place and their number.
AccumulatePskSecret(ids, state, externalPsks) ==
  LET Found(i) == FindPsk(state, externalPsks, ids[i])
  IN  IF \A i \in DOMAIN ids : Found(i) # {}
      THEN {[i \in DOMAIN ids |-> <<ids[i], CHOOSE psk \in Found(i) : TRUE, i, Len(ids)>>]}
      ELSE {}

\* addHistoricalReceiverData, of the resumption PSKs: slice(-max) keeps all for 0.
AddHistoricalReceiverData(state) ==
  LET history == state.historicalReceiverData
      epochs  == DOMAIN history \union {state.groupContext.epoch}
      newest  == {e \in epochs : Cardinality({d \in epochs : d > e}) < RetainKeysForEpochs}
  IN  [e \in IF RetainKeysForEpochs = 0 THEN epochs ELSE newest |->
         IF e = state.groupContext.epoch THEN ResumptionPsk(state.epochSecret) ELSE history[e]]

-----------------------------------------------------------------------------
ResumptionIds(ids) == {i \in DOMAIN ids : ids[i].psktype = "resumption"}

ReinitMatchesOldGroup(old, context) ==  \* mutant: the old group's id expected
  /\ old.groupActiveState = "suspendedPendingReinit"
  /\ old.groupContext.groupId = context.groupId
  /\ old.reinit.parameters = context.parameters

ReinitMatches(old, context) ==
  /\ old.groupActiveState = "suspendedPendingReinit"
  /\ old.reinit.groupId = context.groupId
  /\ old.reinit.parameters = context.parameters

ResumptionAcceptedOfAnyEpoch(ids, resumingFrom, context) ==  \* mutant: the epoch check dropped
  ResumptionIds(ids) = {} \/
    \E old \in resumingFrom, id \in {ids[Min(ResumptionIds(ids))]} :
      /\ id.pskGroupId = old.groupContext.groupId
      /\ context.epoch = 1
      /\ id.usage = "reinit" => ReinitMatches(old, context)

ResumptionAcceptedWithoutReinit(ids, resumingFrom, context) ==  \* mutant: reinit parameters not compared
  ResumptionIds(ids) = {} \/
    \E old \in resumingFrom, id \in {ids[Min(ResumptionIds(ids))]} :
      /\ id.pskEpoch = old.groupContext.epoch
      /\ id.pskGroupId = old.groupContext.groupId
      /\ context.epoch = 1

\* What joinGroupInternal asks of a Welcome with a resumption PSK, the first one.
\* Version, cipher suite and extensions are the group's parameters.
ResumptionAccepted(ids, resumingFrom, context) ==
  ResumptionIds(ids) = {} \/
    \E old \in resumingFrom, id \in {ids[Min(ResumptionIds(ids))]} :
      /\ id.pskEpoch = old.groupContext.epoch
      /\ id.pskGroupId = old.groupContext.groupId
      /\ context.epoch = 1
      /\ id.usage = "reinit" => ReinitMatches(old, context)

\* The epoch secret a newcomer derives from a Welcome: the GroupInfo opens only
\* with the PSKs the committer used.
WelcomedSecret(welcome, resumingFrom, externalPsks) ==
  {ExtractEpochSecret(welcome.groupInfo.groupContext, welcome.joinerSecret, pskSecret)
     : pskSecret \in {p \in AccumulatePskSecret(welcome.psks, resumingFrom, externalPsks) :
                        /\ ExtractWelcomeSecret(welcome.joinerSecret, p) = welcome.sealedWith
                        /\ ResumptionAccepted(welcome.psks, resumingFrom, welcome.groupInfo.groupContext)}}
=============================================================================
