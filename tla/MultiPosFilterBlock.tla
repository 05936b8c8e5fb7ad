------------------------ MODULE MultiPosFilterBlock ------------------------
(***************************************************************************)
(* A position filter: a vector of blocks with the bounds the filter        *)
(* remembers for it.  startPos and endPos are fields of their own in the   *)
(* code, updated on some paths only, and they decide where the next        *)
(* position or block goes; so does currBlockNum, which setCurrBlock leaves *)
(* behind and addPosFilterBlock reads when it inserts in the middle.       *)
(* numValues is not modelled: getNumValuesR recomputes it before each use. *)
(***************************************************************************)
EXTENDS PosFilterBlock, Sequences

Filter == [blocks : Seq(Block), startPos : Nat, endPos : Nat,
           currBlockNum : Nat, completeSet : BOOLEAN]

\* init
EmptyFilter == [blocks |-> <<>>, startPos |-> 0, endPos |-> 0,
                currBlockNum |-> 0, completeSet |-> FALSE]

CompleteFilter == [EmptyFilter EXCEPT !.completeSet = TRUE]

\* The positions a reader of the filter finds in its blocks.
PositionsOf(f) == UNION {f.blocks[i].bits : i \in 1 .. Len(f.blocks)}

\* vector::insert of b in front of the element of 0-based index k
InsertBlock(s, k, b) == SubSeq(s, 1, k) \o <<b>> \o SubSeq(s, k + 1, Len(s))

\* The 0-based index the middle branch of addPosFilterBlock ends up with: the
\* last block but the first that starts before b, else the currBlockNum that
\* happens to be there.
InsertionPoint(f, b) ==
  LET before == {i \in 1 .. Len(f.blocks) - 1 : b.start > f.blocks[i + 1].start}
  IN  IF before = {} THEN f.currBlockNum
                     ELSE CHOOSE i \in before : \A j \in before : j <= i

\* addPosFilterBlock, for a block whose end word caculateEndInt has recomputed
AddPosFilterBlock(f, b) ==
  IF f.startPos = 0
    THEN [f EXCEPT !.startPos = b.start, !.endPos = b.end,
                   !.blocks = Append(@, b)]
  ELSE IF b.end < f.startPos
    THEN [f EXCEPT !.startPos = b.start, !.blocks = <<b>> \o @]
  ELSE IF b.start > f.endPos
    THEN [f EXCEPT !.endPos = b.end, !.blocks = Append(@, b)]
  ELSE LET k == InsertionPoint(f, b)
       IN  [f EXCEPT !.currBlockNum = k,
                     !.blocks = InsertBlock(@, k + 1, b)]

\* A block takes p, or a new block for p joins the filter.
AddToBlock(f, i, p) == [f EXCEPT !.blocks[i] = BlockAdd(@, p)]

AddNewBlock(f, p) == AddPosFilterBlock(f, EmptyBuffer(p))

\* The block (1-based) at which the middle loop of addPosition stops: the first
\* that starts after p or holds p strictly inside; 0 when there is none.
StopBlock(f, p) ==
  LET stops == {i \in 1 .. Len(f.blocks) :
                  \/ p < f.blocks[i].start
                  \/ f.blocks[i].start < p /\ p < f.blocks[i].end}
  IN  IF stops = {} THEN 0 ELSE CHOOSE i \in stops : \A j \in stops : i <= j

\* The three branches of addPosition: before the first position, ...
AddBefore(f, p) ==
  LET g == [f EXCEPT !.currBlockNum = 0]
  IN  IF BlockAccepts(f.blocks[1], p) THEN AddToBlock(g, 1, p)
                                      ELSE AddNewBlock(g, p)

\* ... between the bounds, where a position that is the end or the start of a
\* block makes the loop go on to the next one, ...
AddInside(f, p) ==
  LET i == StopBlock(f, p)
      g == [f EXCEPT !.currBlockNum = IF i = 0 THEN Len(f.blocks) - 1 ELSE i - 1]
  IN  IF i = 0 THEN g
      ELSE IF BlockAccepts(f.blocks[i], p) THEN AddToBlock(g, i, p)
      ELSE IF i > 1 /\ BlockAccepts(f.blocks[i - 1], p) THEN AddToBlock(g, i - 1, p)
      ELSE AddNewBlock(g, p)

\* ... and behind the last position.
AddAfterStale(f, p) ==  \* variant: endPos keeps its value
  LET n == Len(f.blocks)
      g == [f EXCEPT !.currBlockNum = n - 1]
  IN  IF BlockAccepts(f.blocks[n], p) THEN AddToBlock(g, n, p)
                                      ELSE AddNewBlock(g, p)

AddAfter(f, p) ==
  LET n == Len(f.blocks)
      g == [f EXCEPT !.currBlockNum = n - 1]
  IN  IF BlockAccepts(f.blocks[n], p)
        THEN [AddToBlock(g, n, p) EXCEPT !.endPos = BlockAdd(f.blocks[n], p).end]
        ELSE AddNewBlock(g, p)

\* addPosition
AddPosition(f, p) ==
  IF f.blocks = <<>> THEN AddNewBlock(f, p)
  ELSE IF p < f.startPos THEN AddBefore(f, p)
  ELSE IF f.startPos < p /\ p < f.endPos THEN AddInside(f, p)
  ELSE IF p > f.endPos THEN AddAfter(f, p)
  ELSE f

=============================================================================
