--------------------------- MODULE PosFilterWords ---------------------------
(***************************************************************************)
(* The block of PosFilterBlock as it is stored: an array of MAX_INT words, *)
(* and the loops of addPosition, cutGetRightAtPos, cutGetLeftAtPos and     *)
(* getNextPos over them.  The module shows that they implement the set of  *)
(* positions that the other modules take a block for.                      *)
(*                                                                         *)
(* A word is the set of the offsets, counted from its most significant     *)
(* bit, of the bits that are set.                                          *)
(***************************************************************************)
EXTENDS PosFilterBlock, SequencesExt

CONSTANT MaxPos  \* bound: positions are 1 .. MaxPos

VARIABLES
  startPos, endPos, endInt,
  words,                    \* bufferPtrAsIntArr[1 .. MAX_INT]
  currInt, posIndex,        \* the iterator: the word, and the offsets left of it
  reading,                  \* the positions are being read
  read                      \* history: the positions getNextPos has returned

bounds == <<startPos, endPos, endInt>>
iterator == <<currInt, posIndex, reading, read>>
vars == <<bounds, words, iterator>>

Word == SUBSET (0 .. IntBits - 1)

\* w >> n and w << n
ShiftRight(w, n) == {o + n : o \in {x \in w : x + n < IntBits}}
ShiftLeft(w, n)  == {o - n : o \in {x \in w : x >= n}}

NoWords == [y \in 1 .. MAX_INT |-> {}]

\* addPosition and the cuts leave the iterator at a word; only a caller that
\* rewinds it reads on.
Rewound(k) == currInt' = k /\ posIndex' = <<>> /\ reading' = FALSE /\ read' = <<>>

Init ==
  /\ startPos \in 1 .. MaxPos /\ endPos = startPos /\ endInt = 1
  /\ words = [NoWords EXCEPT ![1] = {0}]
  /\ currInt = 1 /\ posIndex = <<>> /\ reading = FALSE /\ read = <<>>

----------------------------------------------------------------------------
(* addPosition *)

\* The loops for y = endInt down to gap + 1 that move the words to the right:
\* the array w after the turns from y on.
MoveWords(w0, last, gap) ==
  LET f[y \in gap .. last] ==  \* the turns last .. y + 1 have been made
        IF y = last THEN w0
        ELSE [f[y + 1] EXCEPT ![y + 1] = f[y + 1][y + 1 - gap],
                              ![y + 1 - gap] = {}]
  IN  f[gap]

MoveWithin(w0, last, gap, mov) ==
  LET f[y \in gap .. last] ==
        IF y = last THEN w0
        ELSE LET w == f[y + 1]
                 k == y + 1
                 moved == [w EXCEPT ![k] =
                             ShiftRight(w[k - gap], mov) \cup
                               (IF k - gap - 1 > 0 THEN ShiftLeft(w[k - gap - 1], IntBits - mov)
                                                   ELSE {})]
             IN  IF gap > 0 THEN [moved EXCEPT ![k - gap] = {}] ELSE moved
  IN  f[gap]

MoveAcross(w0, last, gap, mov) ==
  LET f[y \in gap .. last] ==
        IF y = last THEN w0
        ELSE LET w == f[y + 1]
                 k == y + 1
                 a == [w EXCEPT ![k] = @ \cup ShiftLeft(w[k - gap], IntBits - mov)]
                 b == [a EXCEPT ![k - 1] = ShiftRight(a[k - gap], mov)]
             IN  [b EXCEPT ![k - gap] = {}]
  IN  f[gap]

AddFront(p) ==
  /\ p < startPos
  /\ LET newEndInt == (endPos - p) \div IntBits + 1
         avaBits   == (IntBits - 1) - ((endPos - startPos) % IntBits)
         gap       == newEndInt - endInt
         movBit    == (startPos - p) % IntBits
         moved     == IF movBit = 0 THEN MoveWords(words, newEndInt, gap)
                      ELSE IF movBit <= avaBits THEN MoveWithin(words, newEndInt, gap, movBit)
                      ELSE MoveAcross(words, newEndInt, gap, movBit)
     IN  /\ newEndInt <= MAX_INT
         /\ endInt' = newEndInt
         /\ startPos' = p
         /\ words' = [moved EXCEPT ![1] = @ \cup {0}]
  /\ UNCHANGED endPos
  /\ Rewound(currInt)

AddMiddle(p) ==
  /\ startPos < p /\ p < endPos
  /\ LET k == (p - startPos) \div IntBits + 1
     IN  /\ words' = [words EXCEPT ![k] = @ \cup {(p - startPos) % IntBits}]
         /\ Rewound(k)
  /\ UNCHANGED bounds

AddBehind(p) ==
  /\ p > startPos /\ p > endPos
  /\ LET k == (p - startPos) \div IntBits + 1
     IN  /\ k <= MAX_INT
         /\ endInt' = k
         /\ words' = [words EXCEPT ![k] = @ \cup {(p - startPos) % IntBits}]
         /\ Rewound(k)
  /\ endPos' = p
  /\ UNCHANGED startPos

----------------------------------------------------------------------------
(* The cuts *)

caculateEndInt(first, last) == Words(first, last)

\* memset of the words behind the last
ClearedNot(w, last) == w  \* variant
Cleared(w, last) == [y \in 1 .. MAX_INT |-> IF y <= last THEN w[y] ELSE {}]

\* leftMove
LeftMoveDrops(w0, n, last) ==  \* variant: valToOr is not carried over
  [y \in 1 .. MAX_INT |-> IF y <= last THEN ShiftLeft(w0[y], n) ELSE w0[y]]

LeftMove(w0, n, last) ==
  LET f[y \in 1 .. last] ==
        IF y = 1 THEN [w0 EXCEPT ![1] = ShiftLeft(@, n)]
        ELSE [f[y - 1] EXCEPT ![y] = ShiftLeft(@, n),
                              ![y - 1] = @ \cup ShiftRight(w0[y], IntBits - n)]
  IN  IF n = 0 THEN w0 ELSE f[last]

CutFront(p) ==
  /\ startPos < p /\ p <= endPos
  /\ LET cutInt  == (p - startPos) \div IntBits
         leftInt == endInt - cutInt
         copied  == [y \in 1 .. MAX_INT |-> IF y <= leftInt THEN words[y + cutInt] ELSE words[y]]
         moved   == LeftMove(copied, (p - startPos) % IntBits, leftInt)
         last    == caculateEndInt(p, endPos)
     IN  /\ cutInt < endInt
         /\ words' = Cleared(moved, last)
         /\ endInt' = last
  /\ startPos' = p
  /\ UNCHANGED endPos
  /\ Rewound(1)

\* cutTail masks the last word
CutBack(p) ==
  /\ p >= startPos
  /\ (p - startPos) \div IntBits < endInt
  /\ LET last == caculateEndInt(startPos, p)
         tail == words[last] \cap 0 .. (p - startPos) % IntBits
     IN  /\ words' = Cleared([words EXCEPT ![last] = tail], last)
         /\ endInt' = last
  /\ endPos' = p
  /\ UNCHANGED startPos
  /\ Rewound(1)

----------------------------------------------------------------------------
(* getNextPos *)

\* setPosIndex: the offsets of a word in ascending order
PosIndex(w) == SetToSortSeq(w, <)

Rewind ==
  /\ ~ reading
  /\ currInt' = 1 /\ posIndex' = <<>> /\ reading' = TRUE /\ read' = <<>>
  /\ UNCHANGED <<bounds, words>>

\* The word the while loop stops at: the first from currInt on that is not zero,
\* else the last.
SkipZerosNot == currInt  \* variant: a zero word ends the reading
SkipZeros ==
  LET some == {y \in currInt .. endInt : words[y] # {}}
  IN  IF some = {} THEN endInt ELSE CHOOSE y \in some : \A z \in some : y <= z

\* A position is returned; behind the last of a word the iterator goes on to the
\* next word.
Return(k, offsets) ==
  /\ read' = Append(read, (k - 1) * IntBits + startPos + Head(offsets))
  /\ posIndex' = Tail(offsets)
  /\ currInt' = IF Tail(offsets) = <<>> THEN k + 1 ELSE k
  /\ UNCHANGED reading

GetNextPos ==
  /\ reading
  /\ \/ currInt <= endInt /\ posIndex # <<>> /\ Return(currInt, posIndex)
     \/ /\ currInt <= endInt /\ posIndex = <<>> /\ words[SkipZeros] # {}
        /\ Return(SkipZeros, PosIndex(words[SkipZeros]))
     \/ \* 0: there is none
        /\ currInt <= endInt /\ posIndex = <<>> /\ words[SkipZeros] = {}
        /\ reading' = FALSE /\ currInt' = SkipZeros /\ UNCHANGED <<posIndex, read>>
     \/ \* 0: behind the last word
        /\ currInt > endInt
        /\ reading' = FALSE /\ currInt' = 0 /\ UNCHANGED <<posIndex, read>>
  /\ UNCHANGED <<bounds, words>>

Next ==
  \/ \E p \in 1 .. MaxPos :
       AddFront(p) \/ AddMiddle(p) \/ AddBehind(p) \/ CutFront(p) \/ CutBack(p)
  \/ Rewind \/ GetNextPos

Spec == Init /\ [][Next]_vars

----------------------------------------------------------------------------
(* Properties *)

BitsOf ==
  UNION {{startPos + (y - 1) * IntBits + o : o \in words[y]} : y \in 1 .. MAX_INT}

TypeOK ==
  /\ startPos \in 1 .. MaxPos /\ endPos \in 1 .. MaxPos /\ endInt \in 1 .. MAX_INT
  /\ words \in [1 .. MAX_INT -> Word]
  /\ currInt \in 0 .. MAX_INT + 1 /\ posIndex \in Seq(0 .. IntBits - 1)
  /\ reading \in BOOLEAN /\ read \in Seq(1 .. MaxPos)

\* The loops over the words compute the set operations, bit for bit and in every
\* sequence of them: the shift to the right with what it loses, and the cuts.
B == INSTANCE BlockOps WITH block <- [start |-> startPos, end |-> endPos,
                                      bits |-> BitsOf, currPos |-> 0]
ImplementsBlock == B!Spec

\* No bit is set behind the end, where the next addPosition or leftMove would
\* take it for a position (|= at lines 140 and 168).
CleanTail == \A q \in BitsOf : q <= endPos

\* endInt, which is kept in step by hand on every path, is the word of endPos.
EndIntCurrent == endInt = Words(startPos, endPos)

\* The types of the variables, and a bitmap that is in step with the bounds.
WellFormed == TypeOK /\ CleanTail /\ EndIntCurrent

\* The iterator returns every position of the block once, in ascending order.
ReadInOrder ==
  /\ \A k \in 1 .. Len(read) - 1 : read[k] < read[k + 1]
  /\ ~ reading /\ read # <<>> => {read[k] : k \in 1 .. Len(read)} = BitsOf

=============================================================================
