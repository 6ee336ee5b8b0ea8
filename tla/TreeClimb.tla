----------------------------- MODULE TreeClimb -----------------------------
(***************************************************************************)
(* Checks TreeMath against the meaning of the tree: which leaves lie under *)
(* a node.  The behaviour is the loop of directPath (treemath.ts:96-100),  *)
(* started at every node of every tree with one of the Widths.             *)
(***************************************************************************)
EXTENDS TreeMath, FiniteSets, SequencesExt

VARIABLES climbWidth, climbStart, climbNode, climbed

climbVars == <<climbWidth, climbStart, climbNode, climbed>>

Nodes == 0 .. NodeWidthOf(climbWidth) - 1

ClimbInit(widths) ==
  /\ climbWidth \in widths
  /\ climbStart \in Nodes
  /\ climbNode = climbStart
  /\ climbed = <<>>

Climb ==
  /\ climbNode # Root(climbWidth)
  /\ climbNode' = Parent(climbNode)
  /\ climbed' = Append(climbed, climbNode')
  /\ UNCHANGED <<climbWidth, climbStart>>

\* The climb in any tree: the number of leaves is a power of two.
ClimbSpec == ClimbInit({2^h : h \in Nat}) /\ [][Climb]_climbVars

-----------------------------------------------------------------------------
\* A node of level k spans the nodes at distance less than 2^k.
Span(x) == {y \in Nodes : x - y < 2^Level(x) /\ y - x < 2^Level(x)}
LeavesUnder(x) == {y \in Span(x) : IsLeaf(y)}

(***************************************************************************)
(* Climbing by parent visits exactly the proper ancestors of the start, in *)
(* ascending order, and never leaves the tree: what directPath returns and *)
(* isAncestor answers (treemath.ts:92-116).                                *)
(***************************************************************************)
PathIsTheAncestors ==
  /\ climbNode \in Nodes
  /\ climbNode = Root(climbWidth) =>
       /\ climbed = DirectPath(climbStart, climbWidth)
       /\ ToSet(climbed) = {y \in Nodes \ {climbStart} : climbStart \in Span(y)}
       /\ \A y \in Nodes : IsAncestor(climbStart, y, NodeWidthOf(climbWidth)) <=> y \in ToSet(climbed)

(***************************************************************************)
(* The subtrees of the copath and the start's own subtree partition the    *)
(* leaves: what the lazy expansion of the secret tree and the encryption   *)
(* of path secrets to the copath rely on (treemath.ts:104-112).            *)
(***************************************************************************)
CopathPartitions ==
  LET parts == {climbStart} \union ToSet(Copath(climbStart, climbWidth))
  IN  /\ UNION {LeavesUnder(x) : x \in parts} = {y \in Nodes : IsLeaf(y)}
      /\ \A x, y \in parts : x # y => LeavesUnder(x) \intersect LeavesUnder(y) = {}

(***************************************************************************)
(* What treemath.ts says of any node of any tree: its path is its          *)
(* ancestors, and its copath shares out the other leaves.                  *)
(***************************************************************************)
PathsFitTheTree == PathIsTheAncestors /\ CopathPartitions
=============================================================================
