CONSTANTS
  alice = alice
  bob = bob
  carol = carol
  Client = {alice, bob, carol}
  RetainKeysForEpochs = 1
  Scenarios <- AllScenarios
SPECIFICATION FairSpec
INVARIANT TypeOK
INVARIANT PendingIsSuccessor
INVARIANT HoldsLeafKey
INVARIANT StuckForAReason
INVARIANT ProposalsHaveOwnGeneration
INVARIANT PskOfItsEpoch
INVARIANT FromOneEpoch
INVARIANT ReinitAsAgreed
PROPERTY ReinitCompletes
\* the last epoch ends the run
CHECK_DEADLOCK FALSE
