------------------------------ MODULE TreeBits ------------------------------
(***************************************************************************)
(* Checks the arithmetic of TreeMath against the bit operations that       *)
(* treemath.ts computes with, at every node the climb of TreeClimb visits. *)
(***************************************************************************)
EXTENDS TreeClimb, Bitwise

\* The code's own bit operations, over the widths checked.
BitLevel(x) == CHOOSE k \in 0 .. 8 : /\ (shiftR(x, k) & 1) = 0
                                     /\ \A j \in 0 .. k - 1 : (shiftR(x, j) & 1) = 1
BitLeft(x) == x ^^ (2^(BitLevel(x) - 1))
BitRight(x) == x ^^ (3 * 2^(BitLevel(x) - 1))
BitParent(x) == LET k == BitLevel(x)
                    b == shiftR(x, k + 1) & 1
                IN  (x | (2^k)) ^^ (b * 2^(k + 1))

(***************************************************************************)
(* The arithmetic of TreeMath is what the shifts and masks of left, right, *)
(* parent and level compute (treemath.ts:29-85).                           *)
(***************************************************************************)
AgreesWithBits ==
  /\ Level(climbNode) = BitLevel(climbNode)
  /\ ~IsLeaf(climbNode) => Left(climbNode) = BitLeft(climbNode) /\ Right(climbNode) = BitRight(climbNode)
  /\ climbNode # Root(climbWidth) => Parent(climbNode) = BitParent(climbNode)
=============================================================================
