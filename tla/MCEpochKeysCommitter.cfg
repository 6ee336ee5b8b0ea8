CONSTANTS
  LeafWidth = 2
  RetainKeysForGenerations = 1
  MaximumForwardRatchetSteps = 1
  Member = {0, 1}
  RetainKeysForEpochs = 1
  CommitWire = {"private"}
  MayReject = {}
  MaxEpoch = 2
  MaxSent = 1
SPECIFICATION Spec
INVARIANT LateMessagesCanBeOpened
\* the last epoch ends the run
CHECK_DEADLOCK FALSE
