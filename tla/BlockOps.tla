------------------------------ MODULE BlockOps ------------------------------
(***************************************************************************)
(* What a position-filter block promises its callers: a set of positions   *)
(* between two bounds that takes positions in any order as long as they    *)
(* fit, and can be cut at both ends.                                       *)
(***************************************************************************)
EXTENDS PosFilterBlock

CONSTANT MaxPos  \* positions are 1 .. MaxPos

VARIABLE block

Init == \E p \in 1 .. MaxPos : block = EmptyBuffer(p)

Add(p) == BlockAccepts(block, p) /\ block' = BlockAdd(block, p)

CutFront(p) == p <= block.end /\ block' = CutRight(block, p)

CutBack(p) ==
  /\ p >= block.start
  /\ Words(block.start, p) <= Words(block.start, block.end)
  /\ block' = CutLeft(block, p)

Next == \E p \in 1 .. MaxPos : Add(p) \/ CutFront(p) \/ CutBack(p)

Spec == Init /\ [][Next]_block

=============================================================================
