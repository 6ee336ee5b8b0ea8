----------------------------- MODULE MCTreeKEM -----------------------------
(***************************************************************************)
(* Instances of TreeKEM.  Three founders in a tree of four leaves and a    *)
(* fourth client that is added, adds itself or takes over a leaf; and five *)
(* founders in a tree of eight leaves, where a node can have a key and     *)
(* unmerged leaves while somebody on the other side commits.               *)
(***************************************************************************)
EXTENDS TreeKEM

CONSTANTS alice, bob, carol, dave, erin

Everybody == {alice, bob, carol, dave}

SmallGroup ==
  [founders |-> <<alice, bob, carol>>, invited |-> Everybody, committers |-> Everybody,
   proposers |-> Everybody, removable |-> Everybody, joiners |-> Everybody,
   maxEpoch |-> 3, maxProposals |-> 2, maxUpdates |-> 1]

UnmergedLeaves ==
  [founders |-> <<alice, bob, carol, dave, erin>>, invited |-> {dave}, committers |-> {alice, erin},
   proposers |-> {}, removable |-> {dave}, joiners |-> {dave},
   maxEpoch |-> 5, maxProposals |-> 1, maxUpdates |-> 0]

Groups == {SmallGroup, UnmergedLeaves}
=============================================================================
