CONSTANTS
  alice = alice
  bob = bob
  carol = carol
  Client = {alice, bob, carol}
  RetainKeysForEpochs = 1
  Scenarios <- JustUpdates
SPECIFICATION Spec
INVARIANT LeafKeyKept
\* the last epoch ends the run
CHECK_DEADLOCK FALSE
