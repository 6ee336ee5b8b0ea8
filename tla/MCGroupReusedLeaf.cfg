SPECIFICATION FairSpec
CONSTANTS
  alice = alice
  bob = bob
  carol = carol
  dave = dave
  Client = {alice, bob, carol}
  Nobody = Nobody
  FoundingTree <- Pair
  ProposalKind = {"add", "remove"}
  Uninvited = {}
  MaxEpoch = 1
  MaxProposals = 1
PROPERTY RemovedLearnOfIt
CHECK_DEADLOCK FALSE
