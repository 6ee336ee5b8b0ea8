SPECIFICATION Spec
CONSTANTS
  alice = alice
  bob = bob
  carol = carol
  dave = dave
  Client = {alice, bob, carol, dave}
  Nobody = Nobody
  FoundingTree <- Pair
  ProposalKind = {"add", "remove"}
  Uninvited = {"commit", "propose"}
  MaxEpoch = 2
  MaxProposals = 2
INVARIANTS TypeOK SameTree OwnLeaf PendingIsCurrent
\* the two outside the founding tree differ in nothing
SYMMETRY Newcomers
CHECK_DEADLOCK FALSE
