------------------------------ MODULE MCGroup ------------------------------
(***************************************************************************)
(* Instances of Group: two founding members, and one or two newcomers.     *)
(***************************************************************************)
EXTENDS Group, TLC

CONSTANTS alice, bob, carol, dave

Pair == [leaf \in Leaf |-> CASE leaf = 0 -> alice [] leaf = 1 -> bob [] OTHER -> Nobody]

Newcomers == Permutations({carol, dave})
=============================================================================
