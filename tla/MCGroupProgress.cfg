SPECIFICATION FairSpec
CONSTANTS
  alice = alice
  bob = bob
  carol = carol
  dave = dave
  Client = {alice, bob, carol}
  Nobody = Nobody
  FoundingTree <- Pair
  ProposalKind = {"add", "update", "remove"}
  Uninvited = {"commit", "propose"}
  MaxEpoch = 2
  MaxProposals = 1
PROPERTY ImplementsGroupHistory
PROPERTY MembersCatchUp
PROPERTY RemovedLearnUnlessReused
CHECK_DEADLOCK FALSE
