CONSTANTS
  LeafWidth = 2
  RetainKeysForGenerations = 1
  \* fewer than the proposals a sender may make before it commits
  MaximumForwardRatchetSteps = 1
  Member = {0, 1}
  RetainKeysForEpochs = 1
  CommitWire = {"public", "private"}
  MayReject = {1}
  MaxEpoch = 3
  MaxSent = 2
SPECIFICATION FairSpec
INVARIANT TypeOK
INVARIANT LateMessagesSurviveCommits
INVARIANT OpenedAtMostOnce
INVARIANT RetainsConfiguredEpochs
PROPERTY TreeSecretsAreZeroed
 
\* the last epoch ends the run
CHECK_DEADLOCK FALSE
