--------------------------- MODULE PosFilterBlock ---------------------------
(***************************************************************************)
(* One position-filter block: a bitmap of MAX_INT machine words of IntBits *)
(* bits, whose bit o of word i stands for position                         *)
(* start + (i - 1) * IntBits + o.  The block is modelled by the set of the *)
(* positions whose bit is set; the word arithmetic of the code survives    *)
(* where it can be observed: in the capacity test, in the cuts at word     *)
(* boundaries and in the bits the in-place right shift of addPosition      *)
(* leaves behind.  Module PosFilterWords checks that last point against    *)
(* the loops over the words.                                               *)
(***************************************************************************)
EXTENDS Integers

CONSTANTS
  IntBits,   \* bits of a word: 8 * sizeof(int), 32 in the code
  MAX_INT    \* words of a block: 1497 in the code

ASSUME BlockAssumption ==
  /\ IntBits \in Nat \ {0}
  /\ MAX_INT \in Nat \ {0}

\* currPos is the position the block's own iterator returned last, 0 before the
\* first call; only PosBlock::hasNext reads it.
Block == [start : Nat, end : Nat, bits : SUBSET Nat, currPos : Nat]

\* caculateEndInt: the number of words from the one of first to the one of last.
Words(first, last) ==
  IF last < first THEN 0 ELSE (last - first) \div IntBits + 1

Fits(first, last) == Words(first, last) <= MAX_INT

\* initEmptyBuffer
EmptyBuffer(p) == [start |-> p, end |-> p, bits |-> {p}, currPos |-> 0]

\* The positions still set after addPosition has shifted the words right to make
\* p, smaller than start, the first position.  When the shift pushes the last
\* bits into one more word (mov > avail) and the block grows by that word alone
\* (gap = 1), the loop assigns buf[y - 1] and clears buf[y - gap], the same word:
\* only the bits that crossed a word boundary remain.
ShiftedBitsNone(b, p) ==  \* variant: startPos moves, the words stay
  {q - (b.start - p) : q \in b.bits}

ShiftedBits(b, p) ==
  LET mov   == (b.start - p) % IntBits
      avail == (IntBits - 1) - ((b.end - b.start) % IntBits)
      gap   == Words(p, b.end) - Words(b.start, b.end)
  IN  IF mov > avail /\ gap = 1
        THEN {q \in b.bits : ((q - b.start) % IntBits) + mov >= IntBits}
        ELSE b.bits

\* addPosition: whether it returns true ...
BlockAccepts(b, p) ==
  /\ p # 0
  /\ \/ p < b.start /\ Fits(p, b.end)
     \/ b.start <= p /\ p <= b.end
     \/ b.end < p /\ Fits(b.start, p)

\* ... and the block it then leaves.  A position equal to start or to end is
\* taken to be in the block already.
BlockAddAssigns(b, p) ==  \* variant: = where |= is meant, inside the block
  [b EXCEPT !.start = IF p < b.start THEN p ELSE b.start,
            !.end   = IF p > b.end THEN p ELSE b.end,
            !.bits  = IF b.start <= p /\ p <= b.end
                        THEN {q \in b.bits : Words(b.start, q) # Words(b.start, p)} \cup {p}
                        ELSE b.bits \cup {p}]

BlockAdd(b, p) ==
  [b EXCEPT !.start = IF p < b.start THEN p ELSE b.start,
            !.end   = IF p > b.end THEN p ELSE b.end,
            !.bits  = (IF p < b.start THEN ShiftedBits(b, p) ELSE b.bits)
                        \cup ({p} \ {b.start, b.end})]

\* setRangePos on a block just initialised
SetRangePos(b, length) ==
  [b EXCEPT !.end = b.start + length - 1,
            !.bits = b.start .. b.start + length - 1]

\* cutGetRightAtPos: the block from pos on, or unchanged when it begins there
CutRightNoMove(b, pos) ==  \* variant: leftMove is left out, whole words are cut
  LET inWord == (pos - b.start) % IntBits
  IN  [b EXCEPT !.start = pos,
                !.bits = {q + inWord : q \in {r \in @ : r >= pos - inWord}}]

CutRight(b, pos) ==
  IF pos < b.start \/ (pos - b.start) \div IntBits >= Words(b.start, b.end) THEN b
  ELSE [b EXCEPT !.start = pos, !.bits = {q \in @ : q >= pos}]

\* cutGetLeftAtPos, for a pos in one of the words of the block
CutLeftBefore(b, pos) ==  \* variant: the bit at pos goes too
  [b EXCEPT !.end = pos, !.bits = {q \in @ : q < pos}]

CutLeft(b, pos) == [b EXCEPT !.end = pos, !.bits = {q \in @ : q <= pos}]

=============================================================================
