CONSTANTS
  alice = alice
  bob = bob
  carol = carol
  dave = dave
  erin = erin
  Client = {alice, bob, carol, dave, erin}
  Scenarios <- Groups
SPECIFICATION Spec
INVARIANT TypeOK
INVARIANT EveryMemberCanFollow
INVARIANT KeyHolders
INVARIANT MembersAgree
INVARIANT CacheCoherent
INVARIANT TreeIsValid
PROPERTY CommitHeals
\* the last epoch ends the run
CHECK_DEADLOCK FALSE
