SPECIFICATION Spec
CONSTANTS
  alice = alice
  bob = bob
  carol = carol
  dave = dave
  Client = {alice, bob, carol}
  Nobody = Nobody
  FoundingTree <- Pair
  ProposalKind = {"reinit"}
  Uninvited = {"commit"}
  MaxEpoch = 2
  MaxProposals = 1
PROPERTY SuspendedIsFinal
CHECK_DEADLOCK FALSE
