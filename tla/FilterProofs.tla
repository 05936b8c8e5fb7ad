---------------------------- MODULE FilterProofs ----------------------------
(***************************************************************************)
(* Lemmas about the operators of PosFilterBlock and MultiPosFilterBlock,   *)
(* for words and blocks of any size: what a filter and its positions are   *)
(* after a block or a position has been added.                             *)
(***************************************************************************)
EXTENDS MultiPosFilterBlock, SequenceTheorems, WellFoundedInduction, TLAPS

\* A filter without blocks has never been given a position.
FilterOK(f) == f \in Filter /\ (f.blocks = <<>> => f.startPos = 0)

\* A set of naturals has a least element, and a bounded one a greatest.
LEMMA LeastExists ==
  ASSUME NEW S \in SUBSET Nat, S # {}
  PROVE  \E m \in S : \A x \in S : m <= x
<1>1. PICK m \in S : \A x \in S : ~ (<<x, m>> \in OpToRel(<, Nat))
  BY NatLessThanWellFounded, WFMin
<1>2. \A x \in S : x \in Nat /\ m \in Nat
  OBVIOUS
<1>3. \A x \in S : ~ (x < m)
  BY <1>1, <1>2 DEF OpToRel
<1> QED BY <1>2, <1>3

LEMMA GreatestExists ==
  ASSUME NEW n \in Nat, NEW S \in SUBSET (0 .. n), S # {}
  PROVE  \E m \in S : \A x \in S : x <= m
<1> DEFINE T == {n - x : x \in S}
<1>1. T \in SUBSET Nat /\ T # {}
  OBVIOUS
<1>2. PICK t \in T : \A y \in T : t <= y
  BY <1>1, LeastExists
<1>3. PICK m \in S : t = n - m
  OBVIOUS
<1>4. \A x \in S : n - m <= n - x
  BY <1>2, <1>3
<1> QED BY <1>4

----------------------------------------------------------------------------
(* Blocks *)

LEMMA EmptyBufferType ==
  ASSUME NEW p \in Nat
  PROVE  EmptyBuffer(p) \in Block
BY DEF EmptyBuffer, Block

\* A block that has taken a position is a block, and has no other new position.
LEMMA BlockAddType ==
  ASSUME NEW b \in Block, NEW p \in Nat
  PROVE  /\ BlockAdd(b, p) \in Block
         /\ BlockAdd(b, p).bits \subseteq b.bits \cup {p}
<1>1. b.start \in Nat /\ b.end \in Nat /\ b.bits \in SUBSET Nat /\ b.currPos \in Nat
  BY DEF Block
<1>2. ShiftedBits(b, p) \subseteq b.bits
  BY DEF ShiftedBits
<1> DEFINE bits == (IF p < b.start THEN ShiftedBits(b, p) ELSE b.bits)
                     \cup ({p} \ {b.start, b.end})
<1>3. bits \subseteq b.bits \cup {p} /\ bits \in SUBSET Nat
  BY <1>1, <1>2
<1> HIDE DEF bits
<1>4. BlockAdd(b, p) = [b EXCEPT !.start = IF p < b.start THEN p ELSE b.start,
                                 !.end = IF p > b.end THEN p ELSE b.end,
                                 !.bits = bits]
  BY DEF BlockAdd, bits
<1>5. (IF p < b.start THEN p ELSE b.start) \in Nat /\ (IF p > b.end THEN p ELSE b.end) \in Nat
  BY <1>1
<1> QED BY <1>3, <1>4, <1>5, <1>1 DEF Block

----------------------------------------------------------------------------
(* Sequences of blocks *)

LEMMA InsertBlockProperties ==
  ASSUME NEW s \in Seq(Block), NEW k \in 0 .. Len(s), NEW b \in Block
  PROVE  /\ InsertBlock(s, k, b) \in Seq(Block)
         /\ Len(InsertBlock(s, k, b)) = Len(s) + 1
         /\ \A i \in 1 .. Len(s) + 1 :
              InsertBlock(s, k, b)[i] =
                IF i <= k THEN s[i] ELSE IF i = k + 1 THEN b ELSE s[i - 1]
<1> DEFINE l == SubSeq(s, 1, k)
           r == SubSeq(s, k + 1, Len(s))
<1>1. Len(s) \in Nat /\ \A i \in 1 .. Len(s) : s[i] \in Block
  BY LenProperties, ElementOfSeq
<1>2. l \in Seq(Block) /\ Len(l) = k /\ \A i \in 1 .. k : l[i] = s[i]
  <2>1. k \in Nat /\ \A i \in 1 .. k : s[i] \in Block
    BY <1>1
  <2> QED BY <2>1, <1>1, SubSeqProperties
<1>3. /\ r \in Seq(Block) /\ Len(r) = Len(s) - k
      /\ \A i \in 1 .. Len(s) - k : r[i] = s[k + i]
  <2>1. k + 1 \in Int /\ Len(s) \in Int /\ \A i \in k + 1 .. Len(s) : s[i] \in Block
    BY <1>1
  <2>2. /\ r \in Seq(Block)
        /\ Len(r) = IF k + 1 <= Len(s) THEN Len(s) - (k + 1) + 1 ELSE 0
        /\ \A i \in 1 .. Len(s) - (k + 1) + 1 : r[i] = s[(k + 1) + i - 1]
    BY <2>1, SubSeqProperties
  <2> QED BY <2>2, <1>1
<1>4. <<b>> \in Seq(Block) /\ Len(<<b>>) = 1 /\ <<b>>[1] = b
  OBVIOUS
<1> HIDE DEF l, r
<1> DEFINE lb == l \o <<b>>
<1>5. /\ lb \in Seq(Block) /\ Len(lb) = k + 1
      /\ \A i \in 1 .. k + 1 : lb[i] = IF i <= k THEN l[i] ELSE <<b>>[i - k]
  BY <1>2, <1>4, ConcatProperties
<1> HIDE DEF lb
<1>6. /\ lb \o r \in Seq(Block)
      /\ Len(lb \o r) = Len(s) + 1
      /\ \A i \in 1 .. Len(s) + 1 :
           (lb \o r)[i] = IF i <= k + 1 THEN lb[i] ELSE r[i - (k + 1)]
  <2>1. k + 1 + (Len(s) - k) = Len(s) + 1
    BY <1>1
  <2>2. /\ lb \o r \in Seq(Block)
        /\ Len(lb \o r) = Len(lb) + Len(r)
        /\ \A i \in 1 .. Len(lb) + Len(r) :
             (lb \o r)[i] = IF i <= Len(lb) THEN lb[i] ELSE r[i - Len(lb)]
    BY <1>5, <1>3, ConcatProperties
  <2> QED BY <2>1, <2>2, <1>5, <1>3
<1>7. InsertBlock(s, k, b) = lb \o r
  BY DEF InsertBlock, l, r, lb
<1>8. ASSUME NEW i \in 1 .. Len(s) + 1
      PROVE  InsertBlock(s, k, b)[i] =
               IF i <= k THEN s[i] ELSE IF i = k + 1 THEN b ELSE s[i - 1]
  <2>1. CASE i <= k
    <3>1. i \in 1 .. k /\ i \in 1 .. k + 1 /\ i <= k + 1
      BY <2>1, <1>1
    <3> QED BY <3>1, <2>1, <1>2, <1>5, <1>6, <1>7
  <2>2. CASE i = k + 1
    <3>1. i \in 1 .. k + 1 /\ ~ (i <= k) /\ i - k = 1
      BY <2>2, <1>1
    <3>2. lb[i] = b
      BY <3>1, <1>4, <1>5
    <3> QED BY <3>1, <3>2, <2>2, <1>6, <1>7
  <2>3. CASE i > k + 1
    <3>1. /\ ~ (i <= k + 1) /\ ~ (i <= k) /\ i # k + 1
          /\ i - (k + 1) \in 1 .. Len(s) - k /\ k + (i - (k + 1)) = i - 1
      BY <2>3, <1>1
    <3> QED BY <3>1, <1>3, <1>6, <1>7
  <2> QED BY <2>1, <2>2, <2>3, <1>1
<1> QED BY <1>6, <1>7, <1>8

----------------------------------------------------------------------------
(* Filters *)

LEMMA EmptyFilterOK == FilterOK(EmptyFilter) /\ PositionsOf(EmptyFilter) = {}
BY EmptySeq DEF FilterOK, EmptyFilter, Filter, PositionsOf

\* What the provers need to know of a filter.
LEMMA FilterFields ==
  ASSUME NEW f \in Filter
  PROVE  /\ f.blocks \in Seq(Block) /\ Len(f.blocks) \in Nat
         /\ f.startPos \in Nat /\ f.endPos \in Nat
         /\ f.currBlockNum \in Nat /\ f.completeSet \in BOOLEAN
         /\ f.blocks # <<>> <=> Len(f.blocks) # 0
         /\ \A i \in 1 .. Len(f.blocks) :
              /\ f.blocks[i] \in Block
              /\ f.blocks[i].start \in Nat /\ f.blocks[i].end \in Nat
              /\ f.blocks[i].bits \in SUBSET Nat
<1>1. /\ f.blocks \in Seq(Block)
      /\ f.startPos \in Nat /\ f.endPos \in Nat
      /\ f.currBlockNum \in Nat /\ f.completeSet \in BOOLEAN
  BY DEF Filter
<1>2. Len(f.blocks) \in Nat /\ (f.blocks # <<>> <=> Len(f.blocks) # 0)
  BY <1>1, EmptySeq, LenProperties
<1>3. \A i \in 1 .. Len(f.blocks) : f.blocks[i] \in Block
  BY <1>1, ElementOfSeq
<1>4. \A b \in Block : b.start \in Nat /\ b.end \in Nat /\ b.bits \in SUBSET Nat
  BY DEF Block
<1> QED BY <1>1, <1>2, <1>3, <1>4

\* The middle branch of addPosFilterBlock inserts behind a block of the filter.
LEMMA InsertionPointRange ==
  ASSUME NEW f \in Filter, NEW b \in Block, f.currBlockNum < Len(f.blocks)
  PROVE  InsertionPoint(f, b) \in 0 .. Len(f.blocks) - 1
<1> DEFINE before == {i \in 1 .. Len(f.blocks) - 1 : b.start > f.blocks[i + 1].start}
<1>1. Len(f.blocks) \in Nat /\ f.currBlockNum \in Nat
  BY FilterFields
<1>2. CASE before = {}
  BY <1>1, <1>2 DEF InsertionPoint
<1>3. CASE before # {}
  <2>1. \E m \in before : \A x \in before : x <= m
    <3>1. Len(f.blocks) - 1 \in Nat /\ before \in SUBSET (0 .. Len(f.blocks) - 1)
      BY <1>1
    <3> HIDE DEF before
    <3> QED BY <3>1, <1>3, GreatestExists
  <2>2. (CHOOSE i \in before : \A j \in before : j <= i) \in before
    BY <2>1
  <2>3. InsertionPoint(f, b) = CHOOSE i \in before : \A j \in before : j <= i
    BY <1>3 DEF InsertionPoint
  <2> QED BY <2>2, <2>3, <1>1
<1> QED BY <1>2, <1>3

\* A filter that differs in its blocks, described one by one.
LEMMA PositionsSubset ==
  ASSUME NEW f, NEW g, NEW X,
         \A i \in 1 .. Len(g.blocks) :
           \/ g.blocks[i].bits \subseteq X
           \/ \E j \in 1 .. Len(f.blocks) : g.blocks[i].bits \subseteq f.blocks[j].bits \cup X
  PROVE  PositionsOf(g) \subseteq PositionsOf(f) \cup X
BY DEF PositionsOf

\* addPosFilterBlock keeps the blocks of the filter and puts the new one behind
\* the first k of them.
LEMMA AddPosFilterBlockShape ==
  ASSUME NEW f, FilterOK(f), NEW b \in Block,
         \/ f.startPos = 0 \/ b.end < f.startPos \/ b.start > f.endPos
         \/ f.currBlockNum < Len(f.blocks)
  PROVE  LET g == AddPosFilterBlock(f, b)
             n == Len(f.blocks)
         IN  \E k \in 0 .. n :
               /\ g \in Filter
               /\ Len(g.blocks) = n + 1
               /\ \A i \in 1 .. n + 1 :
                    g.blocks[i] = IF i <= k THEN f.blocks[i]
                                  ELSE IF i = k + 1 THEN b ELSE f.blocks[i - 1]
<1> DEFINE g == AddPosFilterBlock(f, b)
           n == Len(f.blocks)
<1>1. f \in Filter /\ (f.blocks = <<>> => f.startPos = 0)
  BY DEF FilterOK
<1>2. /\ f.blocks \in Seq(Block) /\ n \in Nat
      /\ \A i \in 1 .. n : f.blocks[i] \in Block
  BY <1>1, FilterFields
<1>3. b.start \in Nat /\ b.end \in Nat
  BY DEF Block
<1>4. SUFFICES
        \E k \in 0 .. n :
          /\ g \in Filter
          /\ Len(g.blocks) = n + 1
          /\ \A i \in 1 .. n + 1 :
               g.blocks[i] = IF i <= k THEN f.blocks[i]
                             ELSE IF i = k + 1 THEN b ELSE f.blocks[i - 1]
  OBVIOUS
<1>5. /\ Append(f.blocks, b) \in Seq(Block)
      /\ Len(Append(f.blocks, b)) = n + 1
      /\ \A i \in 1 .. n + 1 :
           Append(f.blocks, b)[i] = IF i <= n THEN f.blocks[i]
                                    ELSE IF i = n + 1 THEN b ELSE f.blocks[i - 1]
  <2>1. /\ Append(f.blocks, b) \in Seq(Block)
        /\ Len(Append(f.blocks, b)) = n + 1
        /\ \A i \in 1 .. n : Append(f.blocks, b)[i] = f.blocks[i]
        /\ Append(f.blocks, b)[n + 1] = b
    BY <1>2, AppendProperties
  <2>2. \A i \in 1 .. n + 1 : (i <= n /\ i \in 1 .. n) \/ (~ (i <= n) /\ i = n + 1)
    BY <1>2
  <2> QED BY <2>1, <2>2
<1>6. CASE f.startPos = 0
  <2>1. g = [f EXCEPT !.startPos = b.start, !.endPos = b.end, !.blocks = Append(@, b)]
    BY <1>6 DEF AddPosFilterBlock
  <2> HIDE DEF g
  <2>2. g \in Filter /\ g.blocks = Append(f.blocks, b)
    BY <2>1, <1>1, <1>3, <1>5 DEF Filter
  <2>3. n \in 0 .. n
    BY <1>2
  <2> QED BY <2>2, <2>3, <1>2, <1>5
<1>7. CASE f.startPos # 0 /\ b.end < f.startPos
  <2>1. g = [f EXCEPT !.startPos = b.start, !.blocks = <<b>> \o @]
    BY <1>7 DEF AddPosFilterBlock
  <2> HIDE DEF g
  <2>2. /\ <<b>> \in Seq(Block) /\ Len(<<b>>) = 1 /\ <<b>>[1] = b
    OBVIOUS
  <2>3. /\ <<b>> \o f.blocks \in Seq(Block)
        /\ Len(<<b>> \o f.blocks) = 1 + n
        /\ \A i \in 1 .. 1 + n :
             (<<b>> \o f.blocks)[i] = IF i <= 1 THEN <<b>>[i] ELSE f.blocks[i - 1]
    BY <2>2, <1>2, ConcatProperties
  <2>4. g \in Filter /\ g.blocks = <<b>> \o f.blocks
    BY <2>1, <1>1, <1>3, <2>3 DEF Filter
  <2>5. 0 \in 0 .. n /\ 1 + n = n + 1
    BY <1>2
  <2>6. ASSUME NEW i \in 1 .. n + 1
        PROVE  g.blocks[i] = IF i <= 0 THEN f.blocks[i]
                             ELSE IF i = 0 + 1 THEN b ELSE f.blocks[i - 1]
    <3>1. CASE i = 1
      BY <3>1, <2>2, <2>3, <2>4, <1>2
    <3>2. CASE i > 1
      BY <3>2, <2>3, <2>4, <1>2
    <3> QED BY <3>1, <3>2, <1>2
  <2> QED BY <2>3, <2>4, <2>5, <2>6
<1>8. CASE f.startPos # 0 /\ ~ (b.end < f.startPos) /\ b.start > f.endPos
  <2>1. g = [f EXCEPT !.endPos = b.end, !.blocks = Append(@, b)]
    BY <1>8 DEF AddPosFilterBlock
  <2> HIDE DEF g
  <2>2. g \in Filter /\ g.blocks = Append(f.blocks, b)
    BY <2>1, <1>1, <1>3, <1>5 DEF Filter
  <2>3. n \in 0 .. n
    BY <1>2
  <2> QED BY <2>2, <2>3, <1>2, <1>5
<1>9. CASE f.startPos # 0 /\ ~ (b.end < f.startPos) /\ ~ (b.start > f.endPos)
  <2> DEFINE k == InsertionPoint(f, b)
  <2>1. k \in 0 .. n - 1
    BY <1>9, <1>1, InsertionPointRange
  <2>2. g = [f EXCEPT !.currBlockNum = k, !.blocks = InsertBlock(@, k + 1, b)]
    BY <1>9 DEF AddPosFilterBlock
  <2> HIDE DEF g, k
  <2>3. k + 1 \in 0 .. n /\ k \in Nat
    BY <2>1, <1>2
  <2>4. /\ InsertBlock(f.blocks, k + 1, b) \in Seq(Block)
        /\ Len(InsertBlock(f.blocks, k + 1, b)) = n + 1
        /\ \A i \in 1 .. n + 1 :
             InsertBlock(f.blocks, k + 1, b)[i] =
               IF i <= k + 1 THEN f.blocks[i]
               ELSE IF i = (k + 1) + 1 THEN b ELSE f.blocks[i - 1]
    BY <2>3, <1>2, InsertBlockProperties
  <2> DEFINE s == InsertBlock(f.blocks, k + 1, b)
  <2>5. g \in Filter /\ g.blocks = s
    <3>1. g = [[f EXCEPT !.currBlockNum = k] EXCEPT !.blocks = s]
      BY <2>2, <1>1 DEF Filter
    <3>2. s \in Seq(Block)
      BY <2>4
    <3> HIDE DEF s
    <3>3. [f EXCEPT !.currBlockNum = k] \in Filter
      BY <2>3, <1>1 DEF Filter
    <3> QED BY <3>1, <3>2, <3>3 DEF Filter
  <2> QED BY <2>3, <2>4, <2>5
<1> QED BY <1>6, <1>7, <1>8, <1>9

\* So the result has the blocks of the filter, the new one and no other.
LEMMA AddPosFilterBlockBlocks ==
  ASSUME NEW f, FilterOK(f), NEW b \in Block,
         \/ f.startPos = 0 \/ b.end < f.startPos \/ b.start > f.endPos
         \/ f.currBlockNum < Len(f.blocks)
  PROVE  LET g == AddPosFilterBlock(f, b)
             n == Len(f.blocks)
         IN  /\ g \in Filter /\ g.blocks # <<>>
             /\ \A i \in 1 .. Len(g.blocks) :
                  g.blocks[i] = b \/ \E j \in 1 .. n : g.blocks[i] = f.blocks[j]
             /\ \A j \in 1 .. n : \E i \in 1 .. Len(g.blocks) : g.blocks[i] = f.blocks[j]
             /\ \E i \in 1 .. Len(g.blocks) : g.blocks[i] = b
<1> DEFINE g == AddPosFilterBlock(f, b)
           n == Len(f.blocks)
<1>1. n \in Nat
  BY FilterFields DEF FilterOK
<1>2. PICK k \in 0 .. n :
        /\ g \in Filter
        /\ Len(g.blocks) = n + 1
        /\ \A i \in 1 .. n + 1 :
             g.blocks[i] = IF i <= k THEN f.blocks[i]
                           ELSE IF i = k + 1 THEN b ELSE f.blocks[i - 1]
  BY AddPosFilterBlockShape
<1> HIDE DEF g
<1>3. g.blocks # <<>>
  BY <1>1, <1>2, FilterFields
<1>4. ASSUME NEW i \in 1 .. Len(g.blocks)
      PROVE  g.blocks[i] = b \/ \E j \in 1 .. n : g.blocks[i] = f.blocks[j]
  <2>1. CASE i <= k
    BY <2>1, <1>1, <1>2
  <2>2. CASE i = k + 1
    BY <2>2, <1>1, <1>2
  <2>3. CASE i > k + 1
    <3>1. i - 1 \in 1 .. n /\ g.blocks[i] = f.blocks[i - 1]
      BY <2>3, <1>1, <1>2
    <3> QED BY <3>1
  <2> QED BY <2>1, <2>2, <2>3, <1>1, <1>2
<1>5. ASSUME NEW j \in 1 .. n
      PROVE  \E i \in 1 .. Len(g.blocks) : g.blocks[i] = f.blocks[j]
  <2>1. CASE j <= k
    <3>1. j \in 1 .. Len(g.blocks) /\ g.blocks[j] = f.blocks[j]
      BY <2>1, <1>1, <1>2
    <3> QED BY <3>1
  <2>2. CASE j > k
    <3>1. j + 1 \in 1 .. n + 1 /\ ~ (j + 1 <= k) /\ j + 1 # k + 1 /\ (j + 1) - 1 = j
      BY <2>2, <1>1, <1>2
    <3>2. j + 1 \in 1 .. Len(g.blocks) /\ g.blocks[j + 1] = f.blocks[j]
      BY <3>1, <1>2
    <3> QED BY <3>2
  <2> QED BY <2>1, <2>2, <1>1, <1>2
<1>6. k + 1 \in 1 .. Len(g.blocks) /\ g.blocks[k + 1] = b
  BY <1>1, <1>2
<1> QED BY <1>2, <1>3, <1>4, <1>5, <1>6 DEF g

\* ... and its positions are those of the filter and those of the new block.
LEMMA AddPosFilterBlockProperties ==
  ASSUME NEW f, FilterOK(f), NEW b \in Block,
         \/ f.startPos = 0 \/ b.end < f.startPos \/ b.start > f.endPos
         \/ f.currBlockNum < Len(f.blocks)
  PROVE  LET g == AddPosFilterBlock(f, b)
         IN  /\ FilterOK(g)
             /\ PositionsOf(g) = PositionsOf(f) \cup b.bits
<1> DEFINE g == AddPosFilterBlock(f, b)
<1>1. /\ g \in Filter /\ g.blocks # <<>>
      /\ \A i \in 1 .. Len(g.blocks) :
           g.blocks[i] = b \/ \E j \in 1 .. Len(f.blocks) : g.blocks[i] = f.blocks[j]
      /\ \A j \in 1 .. Len(f.blocks) : \E i \in 1 .. Len(g.blocks) : g.blocks[i] = f.blocks[j]
      /\ \E i \in 1 .. Len(g.blocks) : g.blocks[i] = b
  BY AddPosFilterBlockBlocks
<1> HIDE DEF g
<1>2. PositionsOf(g) \subseteq PositionsOf(f) \cup b.bits
  <2>1. \A i \in 1 .. Len(g.blocks) :
          \/ g.blocks[i].bits \subseteq b.bits
          \/ \E j \in 1 .. Len(f.blocks) : g.blocks[i].bits \subseteq f.blocks[j].bits \cup b.bits
    BY <1>1
  <2> QED BY <2>1, PositionsSubset
<1>3. PositionsOf(f) \subseteq PositionsOf(g)
  BY <1>1 DEF PositionsOf
<1>4. b.bits \subseteq PositionsOf(g)
  BY <1>1 DEF PositionsOf
<1> QED BY <1>1, <1>2, <1>3, <1>4 DEF FilterOK, g

----------------------------------------------------------------------------
(* addPosition *)

\* A block of the filter takes a position.
LEMMA AddToBlockProperties ==
  ASSUME NEW f, FilterOK(f), NEW i \in 1 .. Len(f.blocks), NEW p \in Nat
  PROVE  /\ FilterOK(AddToBlock(f, i, p))
         /\ PositionsOf(AddToBlock(f, i, p)) \subseteq PositionsOf(f) \cup {p}
<1> DEFINE g == AddToBlock(f, i, p)
           n == Len(f.blocks)
<1>1. f \in Filter
  BY DEF FilterOK
<1>2. /\ f.blocks \in Seq(Block) /\ n \in Nat
      /\ \A j \in 1 .. n : f.blocks[j] \in Block
  BY <1>1, FilterFields
<1>3. /\ BlockAdd(f.blocks[i], p) \in Block
      /\ BlockAdd(f.blocks[i], p).bits \subseteq f.blocks[i].bits \cup {p}
  BY <1>2, BlockAddType
<1> DEFINE s == [f.blocks EXCEPT ![i] = BlockAdd(f.blocks[i], p)]
<1>4. /\ s \in Seq(Block) /\ Len(s) = n
      /\ \A j \in 1 .. n : s[j] = IF j = i THEN BlockAdd(f.blocks[i], p) ELSE f.blocks[j]
  BY <1>2, <1>3, ExceptSeq
<1>5. g = [f EXCEPT !.blocks = s]
  BY DEF AddToBlock
<1> HIDE DEF g, s
<1>6. g \in Filter /\ g.blocks = s
  BY <1>1, <1>4, <1>5 DEF Filter
<1>7. g.blocks # <<>>
  BY <1>2, <1>4, <1>6, FilterFields
<1>8. PositionsOf(g) \subseteq PositionsOf(f) \cup {p}
  <2>1. \A j \in 1 .. Len(g.blocks) :
          \E k \in 1 .. Len(f.blocks) : g.blocks[j].bits \subseteq f.blocks[k].bits \cup {p}
    BY <1>3, <1>4, <1>6
  <2> QED BY <2>1, PositionsSubset
<1> QED BY <1>6, <1>7, <1>8 DEF FilterOK, g

\* A filter whose currBlockNum has been moved is the same otherwise.
LEMMA SetCurrBlockProperties ==
  ASSUME NEW f, FilterOK(f), NEW n \in Nat
  PROVE  LET g == [f EXCEPT !.currBlockNum = n]
         IN  /\ FilterOK(g) /\ PositionsOf(g) = PositionsOf(f)
             /\ g.blocks = f.blocks /\ g.currBlockNum = n
             /\ g.startPos = f.startPos /\ g.endPos = f.endPos
BY DEF FilterOK, Filter, PositionsOf

LEMMA StopBlockRange ==
  ASSUME NEW f \in Filter, NEW p \in Nat
  PROVE  StopBlock(f, p) \in 0 .. Len(f.blocks)
<1> DEFINE stops == {i \in 1 .. Len(f.blocks) :
                       \/ p < f.blocks[i].start
                       \/ f.blocks[i].start < p /\ p < f.blocks[i].end}
<1>1. Len(f.blocks) \in Nat
  BY FilterFields
<1>2. CASE stops = {}
  BY <1>1, <1>2 DEF StopBlock
<1>3. CASE stops # {}
  <2>1. \E m \in stops : \A x \in stops : m <= x
    <3>1. stops \in SUBSET Nat
      BY <1>1
    <3> HIDE DEF stops
    <3> QED BY <3>1, <1>3, LeastExists
  <2>2. (CHOOSE i \in stops : \A j \in stops : i <= j) \in stops
    BY <2>1
  <2>3. StopBlock(f, p) = CHOOSE i \in stops : \A j \in stops : i <= j
    BY <1>3 DEF StopBlock
  <2>4. StopBlock(f, p) \in stops
    BY <2>2, <2>3, Zenon
  <2>5. stops \subseteq 0 .. Len(f.blocks)
    BY <1>1
  <2> QED BY <2>4, <2>5, Zenon
<1> QED BY <1>2, <1>3

\* A block for p alone joins the filter.
LEMMA AddNewBlockProperties ==
  ASSUME NEW f, FilterOK(f), NEW p \in Nat,
         \/ f.startPos = 0 \/ p < f.startPos \/ p > f.endPos
         \/ f.currBlockNum < Len(f.blocks)
  PROVE  /\ FilterOK(AddNewBlock(f, p))
         /\ PositionsOf(AddNewBlock(f, p)) = PositionsOf(f) \cup {p}
<1>1. /\ EmptyBuffer(p) \in Block
      /\ EmptyBuffer(p).start = p /\ EmptyBuffer(p).end = p /\ EmptyBuffer(p).bits = {p}
  BY EmptyBufferType DEF EmptyBuffer
<1> QED BY <1>1, AddPosFilterBlockProperties DEF AddNewBlock

\* Whatever the position and the filter, the result is a filter that holds no
\* position but those it held and the new one.
THEOREM AddPositionSound ==
  ASSUME NEW f, FilterOK(f), NEW p \in Nat
  PROVE  /\ FilterOK(AddPosition(f, p))
         /\ PositionsOf(AddPosition(f, p)) \subseteq PositionsOf(f) \cup {p}
<1> DEFINE n == Len(f.blocks)
<1>1. /\ f \in Filter /\ n \in Nat /\ f.startPos \in Nat /\ f.endPos \in Nat
      /\ (f.blocks # <<>> <=> n # 0)
  BY FilterFields DEF FilterOK
<1>2. CASE f.blocks = <<>>
  <2>1. AddPosition(f, p) = AddNewBlock(f, p) /\ f.startPos = 0
    BY <1>2 DEF AddPosition, FilterOK
  <2> QED BY <2>1, AddNewBlockProperties
<1>3. CASE f.blocks # <<>> /\ p < f.startPos
  <2> DEFINE g == [f EXCEPT !.currBlockNum = 0]
  <2>1. /\ FilterOK(g) /\ PositionsOf(g) = PositionsOf(f)
        /\ g.blocks = f.blocks /\ g.startPos = f.startPos
    BY SetCurrBlockProperties
  <2>2. AddPosition(f, p) = IF BlockAccepts(f.blocks[1], p) THEN AddToBlock(g, 1, p)
                                                           ELSE AddNewBlock(g, p)
    BY <1>3 DEF AddPosition, AddBefore
  <2> HIDE DEF g
  <2>3. 1 \in 1 .. Len(g.blocks)
    BY <1>1, <1>3, <2>1
  <2>4. /\ FilterOK(AddToBlock(g, 1, p))
        /\ PositionsOf(AddToBlock(g, 1, p)) \subseteq PositionsOf(g) \cup {p}
    BY <2>1, <2>3, AddToBlockProperties
  <2>5. /\ FilterOK(AddNewBlock(g, p))
        /\ PositionsOf(AddNewBlock(g, p)) = PositionsOf(g) \cup {p}
    BY <2>1, <1>3, AddNewBlockProperties
  <2> QED BY <2>1, <2>2, <2>4, <2>5
<1>4. CASE f.blocks # <<>> /\ f.startPos < p /\ p < f.endPos
  <2> DEFINE i == StopBlock(f, p)
             c == IF i = 0 THEN n - 1 ELSE i - 1
             g == [f EXCEPT !.currBlockNum = c]
  <2>1. i \in 0 .. n
    BY <1>1, StopBlockRange
  <2>2. c \in Nat /\ c < n
    BY <2>1, <1>1, <1>4
  <2>3. AddPosition(f, p) =
          IF i = 0 THEN g
          ELSE IF BlockAccepts(f.blocks[i], p) THEN AddToBlock(g, i, p)
          ELSE IF i > 1 /\ BlockAccepts(f.blocks[i - 1], p) THEN AddToBlock(g, i - 1, p)
          ELSE AddNewBlock(g, p)
    <3>1. ~ (p < f.startPos)
      BY <1>1, <1>4
    <3> QED BY <3>1, <1>4 DEF AddPosition, AddInside
  <2> HIDE DEF i, c
  <2>4. /\ FilterOK(g) /\ PositionsOf(g) = PositionsOf(f)
        /\ g.blocks = f.blocks /\ g.currBlockNum = c
    BY <2>2, SetCurrBlockProperties
  <2> HIDE DEF g
  <2>5. ASSUME NEW j \in 1 .. n
        PROVE  /\ FilterOK(AddToBlock(g, j, p))
               /\ PositionsOf(AddToBlock(g, j, p)) \subseteq PositionsOf(f) \cup {p}
    BY <2>4, AddToBlockProperties
  <2>6. /\ FilterOK(AddNewBlock(g, p))
        /\ PositionsOf(AddNewBlock(g, p)) = PositionsOf(f) \cup {p}
    BY <2>2, <2>4, AddNewBlockProperties
  <2>7. (i # 0 => i \in 1 .. n) /\ (i > 1 => i - 1 \in 1 .. n)
    BY <2>1, <1>1
  <2> QED BY <2>3, <2>4, <2>5, <2>6, <2>7
<1>5. CASE f.blocks # <<>> /\ p > f.endPos /\ ~ (p < f.startPos)
  <2> DEFINE g == [f EXCEPT !.currBlockNum = n - 1]
  <2>1. n - 1 \in Nat /\ n \in 1 .. n
    BY <1>1, <1>5
  <2>2. /\ FilterOK(g) /\ PositionsOf(g) = PositionsOf(f)
        /\ g.blocks = f.blocks /\ g.endPos = f.endPos /\ g.currBlockNum = n - 1
    BY <2>1, SetCurrBlockProperties
  <2>3. AddPosition(f, p) =
          IF BlockAccepts(f.blocks[n], p)
            THEN [AddToBlock(g, n, p) EXCEPT !.endPos = BlockAdd(f.blocks[n], p).end]
            ELSE AddNewBlock(g, p)
    <3>1. ~ (p < f.endPos)
      BY <1>1, <1>5
    <3> QED BY <3>1, <1>5 DEF AddPosition, AddAfter
  <2> HIDE DEF g
  <2>4. /\ FilterOK(AddToBlock(g, n, p))
        /\ PositionsOf(AddToBlock(g, n, p)) \subseteq PositionsOf(f) \cup {p}
    BY <2>1, <2>2, AddToBlockProperties
  <2>5. /\ FilterOK(AddNewBlock(g, p))
        /\ PositionsOf(AddNewBlock(g, p)) = PositionsOf(f) \cup {p}
    BY <1>5, <2>2, AddNewBlockProperties
  <2>6. BlockAdd(f.blocks[n], p).end \in Nat
    <3>1. f.blocks[n] \in Block
      BY <1>1, <2>1, FilterFields
    <3> QED BY <3>1, BlockAddType DEF Block
  <2> DEFINE h == AddToBlock(g, n, p)
             e == BlockAdd(f.blocks[n], p).end
  <2>7. FilterOK([h EXCEPT !.endPos = e]) /\ PositionsOf([h EXCEPT !.endPos = e]) = PositionsOf(h)
    <3> HIDE DEF h, e
    <3>1. FilterOK(h) /\ e \in Nat
      BY <2>4, <2>6 DEF h, e
    <3> QED BY <3>1 DEF FilterOK, Filter, PositionsOf
  <2> QED BY <2>3, <2>4, <2>5, <2>7
<1>6. CASE /\ f.blocks # <<>> /\ ~ (p < f.startPos) /\ ~ (p > f.endPos)
           /\ ~ (f.startPos < p /\ p < f.endPos)
  BY <1>6 DEF AddPosition
<1> QED BY <1>1, <1>2, <1>3, <1>4, <1>5, <1>6

----------------------------------------------------------------------------
(* What a filter keeps *)

\* The bounds of the blocks and those of the filter are positions it was given,
\* S; and no position between the bounds of the filter is behind all its blocks.
Anchored(f, S) ==
  /\ \A i \in 1 .. Len(f.blocks) : f.blocks[i].start \in S /\ f.blocks[i].end \in S
  /\ f.blocks # <<>> =>
       /\ f.startPos \in S /\ f.endPos \in S
       /\ \E i \in 1 .. Len(f.blocks) : f.endPos <= f.blocks[i].end

\* The result g of giving p to f holds p, and what f holds unless one of its blocks
\* was shifted to begin earlier.
TakesAndKeeps(f, g, p) ==
  /\ p \in PositionsOf(g)
  /\ \/ PositionsOf(f) \subseteq PositionsOf(g)
     \/ \E i \in 1 .. Len(f.blocks) : g.blocks[i].start < f.blocks[i].start

\* A block takes a position that is neither its start nor its end.
LEMMA AddToBlockKeeps ==
  ASSUME NEW f, FilterOK(f), NEW i \in 1 .. Len(f.blocks), NEW p \in Nat,
         NEW S, Anchored(f, S), p \notin S
  PROVE  /\ Anchored(AddToBlock(f, i, p), S \cup {p})
         /\ TakesAndKeeps(f, AddToBlock(f, i, p), p)
         /\ Len(AddToBlock(f, i, p).blocks) = Len(f.blocks)
         /\ AddToBlock(f, i, p).blocks[i] = BlockAdd(f.blocks[i], p)
<1> DEFINE g == AddToBlock(f, i, p)
           n == Len(f.blocks)
           b == f.blocks[i]
           c == BlockAdd(b, p)
<1>1. f \in Filter
  BY DEF FilterOK
<1>2. /\ f.blocks \in Seq(Block) /\ n \in Nat /\ (f.blocks # <<>> <=> n # 0)
      /\ f.startPos \in Nat /\ f.endPos \in Nat
      /\ \A j \in 1 .. n : f.blocks[j] \in Block /\ f.blocks[j].end \in Nat
  BY <1>1, FilterFields
<1>3. b \in Block /\ b.start \in Nat /\ b.end \in Nat /\ b.start \in S /\ b.end \in S
  BY <1>2, FilterFields, <1>1 DEF Anchored
<1>4. c \in Block
  BY <1>3, BlockAddType
<1>5. /\ c.start = (IF p < b.start THEN p ELSE b.start)
      /\ c.end = (IF p > b.end THEN p ELSE b.end)
      /\ c.bits = (IF p < b.start THEN ShiftedBits(b, p) ELSE b.bits) \cup {p}
  <2>1. {p} \ {b.start, b.end} = {p}
    BY <1>3
  <2> QED BY <1>3, <2>1 DEF BlockAdd, Block
<1> HIDE DEF c
<1> DEFINE s == [f.blocks EXCEPT ![i] = c]
<1>6. /\ s \in Seq(Block) /\ Len(s) = n
      /\ \A j \in 1 .. n : s[j] = IF j = i THEN c ELSE f.blocks[j]
  BY <1>2, <1>4, ExceptSeq
<1>7. g = [f EXCEPT !.blocks = s]
  BY DEF AddToBlock, c
<1> HIDE DEF g, s
<1>8. g.blocks = s /\ g.startPos = f.startPos /\ g.endPos = f.endPos
  BY <1>1, <1>7 DEF Filter
<1>9. i \in 1 .. Len(g.blocks) /\ g.blocks[i] = c /\ Len(g.blocks) = n
  BY <1>6, <1>8
<1>10. Anchored(g, S \cup {p})
  <2>1. \A j \in 1 .. Len(g.blocks) : g.blocks[j].start \in S \cup {p} /\ g.blocks[j].end \in S \cup {p}
    BY <1>3, <1>5, <1>6, <1>8 DEF Anchored
  <2>2. f.startPos \in S /\ f.endPos \in S
    BY <1>2 DEF Anchored
  <2>3. PICK j \in 1 .. n : f.endPos <= f.blocks[j].end
    BY <1>2 DEF Anchored
  <2>4. c.end \in Nat /\ b.end <= c.end
    BY <1>3, <1>5
  <2>5. j \in 1 .. Len(g.blocks) /\ g.endPos <= g.blocks[j].end
    BY <2>3, <2>4, <1>2, <1>6, <1>8
  <2> QED BY <2>1, <2>2, <2>5, <1>8 DEF Anchored
<1>11. p \in PositionsOf(g)
  BY <1>5, <1>9 DEF PositionsOf
<1>12. CASE p < b.start
  <2>1. g.blocks[i].start < f.blocks[i].start
    BY <1>12, <1>5, <1>9
  <2> QED BY <2>1, <1>9, <1>10, <1>11 DEF TakesAndKeeps, g, c
<1>13. CASE ~ (p < b.start)
  <2>1. \A j \in 1 .. n : j \in 1 .. Len(g.blocks) /\ f.blocks[j].bits \subseteq g.blocks[j].bits
    BY <1>13, <1>5, <1>6, <1>8
  <2>2. PositionsOf(f) \subseteq PositionsOf(g)
    BY <2>1 DEF PositionsOf
  <2> QED BY <2>2, <1>9, <1>10, <1>11 DEF TakesAndKeeps, g, c
<1> QED BY <1>12, <1>13

\* A block for p alone joins the filter.
LEMMA AddNewBlockKeeps ==
  ASSUME NEW f, FilterOK(f), NEW p \in Nat,
         NEW S \in SUBSET Nat, 0 \notin S, Anchored(f, S),
         \/ f.startPos = 0 \/ p < f.startPos \/ p > f.endPos
         \/ f.currBlockNum < Len(f.blocks)
  PROVE  /\ Anchored(AddNewBlock(f, p), S \cup {p})
         /\ TakesAndKeeps(f, AddNewBlock(f, p), p)
<1> DEFINE b == EmptyBuffer(p)
           g == AddPosFilterBlock(f, b)
           n == Len(f.blocks)
<1>1. b \in Block /\ b.start = p /\ b.end = p /\ b.bits = {p}
  BY EmptyBufferType DEF EmptyBuffer
<1>2. f \in Filter /\ (f.blocks = <<>> => f.startPos = 0)
  BY DEF FilterOK
<1>3. n \in Nat /\ f.startPos \in Nat /\ f.endPos \in Nat
  BY <1>2, FilterFields
<1> HIDE DEF b
<1>4. /\ g \in Filter /\ g.blocks # <<>>
      /\ \A i \in 1 .. Len(g.blocks) :
           g.blocks[i] = b \/ \E j \in 1 .. n : g.blocks[i] = f.blocks[j]
      /\ \A j \in 1 .. n : \E i \in 1 .. Len(g.blocks) : g.blocks[i] = f.blocks[j]
      /\ \E i \in 1 .. Len(g.blocks) : g.blocks[i] = b
  BY <1>1, AddPosFilterBlockBlocks
<1>5. \/ f.startPos = 0 /\ g.startPos = p /\ g.endPos = p
      \/ f.startPos # 0 /\ g.startPos \in {p, f.startPos} /\ g.endPos \in {p, f.endPos}
  BY <1>1, <1>2 DEF AddPosFilterBlock, Filter
<1> HIDE DEF g
<1>6. \A i \in 1 .. Len(g.blocks) : g.blocks[i].start \in S \cup {p} /\ g.blocks[i].end \in S \cup {p}
  BY <1>1, <1>4 DEF Anchored
<1>7. f.startPos # 0 => /\ f.startPos \in S /\ f.endPos \in S
                        /\ \E i \in 1 .. n : f.endPos <= f.blocks[i].end
  BY <1>2 DEF Anchored
<1>8. g.startPos \in S \cup {p} /\ g.endPos \in S \cup {p}
  BY <1>5, <1>7
<1>9. \E i \in 1 .. Len(g.blocks) : g.endPos <= g.blocks[i].end
  <2>1. CASE g.endPos = p
    <3>1. PICK i \in 1 .. Len(g.blocks) : g.blocks[i] = b
      BY <1>4
    <3> QED BY <3>1, <2>1, <1>1
  <2>2. CASE g.endPos # p
    <3>1. g.endPos = f.endPos /\ f.startPos # 0
      BY <2>2, <1>5
    <3>2. PICK j \in 1 .. n : f.endPos <= f.blocks[j].end
      BY <3>1, <1>7
    <3>3. PICK i \in 1 .. Len(g.blocks) : g.blocks[i] = f.blocks[j]
      BY <1>4
    <3> QED BY <3>1, <3>2, <3>3
  <2> QED BY <2>1, <2>2
<1>10. Anchored(g, S \cup {p})
  BY <1>6, <1>8, <1>9 DEF Anchored
<1>11. PositionsOf(f) \subseteq PositionsOf(g) /\ p \in PositionsOf(g)
  BY <1>1, <1>4 DEF PositionsOf
<1> QED BY <1>10, <1>11 DEF TakesAndKeeps, AddNewBlock, g, b

\* Between the bounds of the filter the middle loop of addPosition stops at a block:
\* the position is behind the start of none only if it is behind the end of each.
LEMMA StopBlockExists ==
  ASSUME NEW f, FilterOK(f), f.blocks # <<>>, NEW p \in Nat, p < f.endPos,
         NEW S, Anchored(f, S), p \notin S
  PROVE  StopBlock(f, p) # 0
<1> DEFINE n == Len(f.blocks)
           stops == {i \in 1 .. n : \/ p < f.blocks[i].start
                                    \/ f.blocks[i].start < p /\ p < f.blocks[i].end}
<1>1. /\ n \in Nat /\ f.endPos \in Nat
      /\ \A i \in 1 .. n : f.blocks[i].start \in Nat /\ f.blocks[i].end \in Nat
  BY FilterFields DEF FilterOK
<1>2. PICK j \in 1 .. n : f.endPos <= f.blocks[j].end
  BY DEF Anchored
<1>3. f.blocks[j].start \in S /\ f.blocks[j].start # p /\ p < f.blocks[j].end
  BY <1>1, <1>2 DEF Anchored
<1>4. j \in stops
  BY <1>1, <1>3
<1>5. \E m \in stops : \A x \in stops : m <= x
  <2>1. stops \in SUBSET Nat /\ stops # {}
    BY <1>1, <1>4
  <2> HIDE DEF stops
  <2> QED BY <2>1, LeastExists
<1>6. (CHOOSE i \in stops : \A x \in stops : i <= x) \in stops
  BY <1>5
<1>7. StopBlock(f, p) = CHOOSE i \in stops : \A x \in stops : i <= x
  BY <1>4 DEF StopBlock
<1>8. StopBlock(f, p) \in stops
  BY <1>6, <1>7, Zenon
<1> QED BY <1>1, <1>8

\* A position the filter was not given before is in it afterwards, and what was in
\* it stays unless a block is shifted to begin earlier.
THEOREM AddPositionKeeps ==
  ASSUME NEW f, FilterOK(f), NEW p \in Nat,
         NEW S \in SUBSET Nat, 0 \notin S, Anchored(f, S), p \notin S
  PROVE  /\ Anchored(AddPosition(f, p), S \cup {p})
         /\ TakesAndKeeps(f, AddPosition(f, p), p)
<1> DEFINE n == Len(f.blocks)
<1>1. /\ f \in Filter /\ n \in Nat /\ f.startPos \in Nat /\ f.endPos \in Nat
      /\ (f.blocks # <<>> <=> n # 0)
  BY FilterFields DEF FilterOK
<1>2. CASE f.blocks = <<>>
  <2>1. AddPosition(f, p) = AddNewBlock(f, p) /\ f.startPos = 0
    BY <1>2 DEF AddPosition, FilterOK
  <2> QED BY <2>1, AddNewBlockKeeps
<1>3. f.blocks # <<>> => f.startPos # p /\ f.endPos # p
  BY DEF Anchored
\* Where the branches only move currBlockNum first, nothing of this is lost.
<1>4. ASSUME NEW c \in Nat
      PROVE  LET g == [f EXCEPT !.currBlockNum = c]
             IN  /\ FilterOK(g) /\ Anchored(g, S) /\ g.blocks = f.blocks
                 /\ g.startPos = f.startPos /\ g.endPos = f.endPos /\ g.currBlockNum = c
                 /\ \A h : TakesAndKeeps(g, h, p) => TakesAndKeeps(f, h, p)
  <2> DEFINE g == [f EXCEPT !.currBlockNum = c]
  <2>1. /\ FilterOK(g) /\ PositionsOf(g) = PositionsOf(f)
        /\ g.blocks = f.blocks /\ g.currBlockNum = c
        /\ g.startPos = f.startPos /\ g.endPos = f.endPos
    BY SetCurrBlockProperties
  <2> HIDE DEF g
  <2> QED BY <2>1 DEF Anchored, TakesAndKeeps, g
<1>5. CASE f.blocks # <<>> /\ p < f.startPos
  <2> DEFINE g == [f EXCEPT !.currBlockNum = 0]
  <2>1. /\ FilterOK(g) /\ Anchored(g, S) /\ g.blocks = f.blocks /\ g.startPos = f.startPos
        /\ \A h : TakesAndKeeps(g, h, p) => TakesAndKeeps(f, h, p)
    BY <1>4
  <2>2. AddPosition(f, p) = IF BlockAccepts(f.blocks[1], p) THEN AddToBlock(g, 1, p)
                                                           ELSE AddNewBlock(g, p)
    BY <1>5 DEF AddPosition, AddBefore
  <2> HIDE DEF g
  <2>3. 1 \in 1 .. Len(g.blocks)
    BY <1>1, <1>5, <2>1
  <2>4. Anchored(AddToBlock(g, 1, p), S \cup {p}) /\ TakesAndKeeps(g, AddToBlock(g, 1, p), p)
    BY <2>1, <2>3, AddToBlockKeeps
  <2>5. Anchored(AddNewBlock(g, p), S \cup {p}) /\ TakesAndKeeps(g, AddNewBlock(g, p), p)
    BY <2>1, <1>5, AddNewBlockKeeps
  <2> QED BY <2>1, <2>2, <2>4, <2>5
<1>6. CASE f.blocks # <<>> /\ f.startPos < p /\ p < f.endPos
  <2> DEFINE i == StopBlock(f, p)
             c == IF i = 0 THEN n - 1 ELSE i - 1
             g == [f EXCEPT !.currBlockNum = c]
  <2>1. i \in 0 .. n /\ i # 0
    BY <1>1, <1>6, StopBlockRange, StopBlockExists
  <2>2. c \in Nat /\ c < n
    BY <2>1, <1>1
  <2>3. AddPosition(f, p) =
          IF i = 0 THEN g
          ELSE IF BlockAccepts(f.blocks[i], p) THEN AddToBlock(g, i, p)
          ELSE IF i > 1 /\ BlockAccepts(f.blocks[i - 1], p) THEN AddToBlock(g, i - 1, p)
          ELSE AddNewBlock(g, p)
    <3>1. ~ (p < f.startPos)
      BY <1>1, <1>6
    <3> QED BY <3>1, <1>6 DEF AddPosition, AddInside
  <2> HIDE DEF i, c
  <2>4. /\ FilterOK(g) /\ Anchored(g, S) /\ g.blocks = f.blocks /\ g.currBlockNum = c
        /\ \A h : TakesAndKeeps(g, h, p) => TakesAndKeeps(f, h, p)
    BY <2>2, <1>4
  <2> HIDE DEF g
  <2>5. ASSUME NEW j \in 1 .. n
        PROVE  /\ Anchored(AddToBlock(g, j, p), S \cup {p})
               /\ TakesAndKeeps(g, AddToBlock(g, j, p), p)
    BY <2>4, AddToBlockKeeps
  <2>6. Anchored(AddNewBlock(g, p), S \cup {p}) /\ TakesAndKeeps(g, AddNewBlock(g, p), p)
    BY <2>2, <2>4, AddNewBlockKeeps
  <2>7. i \in 1 .. n /\ (i > 1 => i - 1 \in 1 .. n)
    BY <2>1, <1>1
  <2> QED BY <2>1, <2>3, <2>4, <2>5, <2>6, <2>7
<1>7. CASE f.blocks # <<>> /\ p > f.endPos /\ ~ (p < f.startPos)
  <2> DEFINE g == [f EXCEPT !.currBlockNum = n - 1]
             h == AddToBlock(g, n, p)
             e == BlockAdd(f.blocks[n], p).end
  <2>1. n - 1 \in Nat /\ n \in 1 .. n
    BY <1>1, <1>7
  <2>2. /\ FilterOK(g) /\ Anchored(g, S) /\ g.blocks = f.blocks /\ g.endPos = f.endPos
        /\ \A x : TakesAndKeeps(g, x, p) => TakesAndKeeps(f, x, p)
    BY <2>1, <1>4
  <2>3. AddPosition(f, p) =
          IF BlockAccepts(f.blocks[n], p) THEN [h EXCEPT !.endPos = e] ELSE AddNewBlock(g, p)
    <3>1. ~ (p < f.endPos)
      BY <1>1, <1>7
    <3> QED BY <3>1, <1>7 DEF AddPosition, AddAfter
  <2> HIDE DEF g
  <2>4. /\ FilterOK(h) /\ Anchored(h, S \cup {p}) /\ TakesAndKeeps(g, h, p)
        /\ Len(h.blocks) = n /\ h.blocks[n] = BlockAdd(f.blocks[n], p)
    <3>1. n \in 1 .. Len(g.blocks) /\ Len(g.blocks) = n /\ g.blocks[n] = f.blocks[n]
      BY <2>1, <2>2
    <3>2. FilterOK(h)
      BY <3>1, <2>2, AddToBlockProperties
    <3>3. /\ Anchored(h, S \cup {p}) /\ TakesAndKeeps(g, h, p)
          /\ Len(h.blocks) = Len(g.blocks) /\ h.blocks[n] = BlockAdd(g.blocks[n], p)
      BY <3>1, <2>2, AddToBlockKeeps
    <3> QED BY <3>1, <3>2, <3>3
  <2>5. Anchored(AddNewBlock(g, p), S \cup {p}) /\ TakesAndKeeps(g, AddNewBlock(g, p), p)
    BY <1>7, <2>2, AddNewBlockKeeps
  <2>6. h \in Filter /\ h.blocks[n].end = e /\ \A i \in 1 .. n : h.blocks[i].end \in Nat
    BY <2>4, FilterFields DEF FilterOK
  <2> HIDE DEF h, e
  <2> DEFINE k == [h EXCEPT !.endPos = e]
  <2>7. k.blocks = h.blocks /\ k.startPos = h.startPos /\ k.endPos = e
    BY <2>6 DEF Filter
  <2> HIDE DEF k
  <2>8. h.blocks # <<>> /\ e \in S \cup {p} /\ e <= h.blocks[n].end
    <3>1. h.blocks # <<>>
      BY <2>1, <2>4, <2>6, FilterFields
    <3> QED BY <3>1, <2>1, <2>4, <2>6 DEF Anchored
  <2>9. Anchored(k, S \cup {p})
    BY <2>1, <2>4, <2>7, <2>8 DEF Anchored
  <2>10. TakesAndKeeps(g, k, p)
    BY <2>4, <2>7 DEF TakesAndKeeps, PositionsOf
  <2> QED BY <2>2, <2>3, <2>5, <2>9, <2>10 DEF k
<1> QED BY <1>1, <1>2, <1>3, <1>5, <1>6, <1>7

----------------------------------------------------------------------------
(* Positions that arrive in ascending order *)

\* Blocks in ascending order, and bounds that are those of the first and last.
Ordered(f) ==
  /\ \A i \in 1 .. Len(f.blocks) :
       0 < f.blocks[i].start /\ f.blocks[i].start <= f.blocks[i].end
  /\ \A i \in 1 .. Len(f.blocks) : \A j \in 1 .. i - 1 :
       f.blocks[j].end < f.blocks[i].start
  /\ f.blocks = <<>> => f.startPos = 0 /\ f.endPos = 0
  /\ f.blocks # <<>> => /\ f.startPos = f.blocks[1].start
                        /\ f.endPos = f.blocks[Len(f.blocks)].end

\* A block that takes a position behind its end keeps everything it has.
LEMMA BlockAddBehind ==
  ASSUME NEW b \in Block, b.start <= b.end, NEW p \in Nat, p > b.end
  PROVE  /\ BlockAdd(b, p) \in Block
         /\ BlockAdd(b, p).start = b.start
         /\ BlockAdd(b, p).end = p
         /\ BlockAdd(b, p).bits = b.bits \cup {p}
<1>1. b.start \in Nat /\ b.end \in Nat
  BY DEF Block
<1>2. ~ (p < b.start) /\ {p} \ {b.start, b.end} = {p}
  BY <1>1
<1>3. BlockAdd(b, p) = [b EXCEPT !.start = b.start, !.end = p, !.bits = b.bits \cup {p}]
  BY <1>2 DEF BlockAdd
<1> QED BY <1>3, BlockAddType DEF Block

\* The last block of an ordered filter and what is in front of it.
LEMMA OrderedBounds ==
  ASSUME NEW f \in Filter, Ordered(f), f.blocks # <<>>
  PROVE  /\ 0 < f.startPos /\ f.startPos <= f.endPos
         /\ \A j \in 1 .. Len(f.blocks) : f.blocks[j].end <= f.endPos
<1> DEFINE n == Len(f.blocks)
<1>1. /\ n \in Nat /\ n # 0
      /\ \A i \in 1 .. n : f.blocks[i].start \in Nat /\ f.blocks[i].end \in Nat
  BY FilterFields
<1>2. 1 \in 1 .. n /\ n \in 1 .. n
  BY <1>1
<1>3. \A j \in 1 .. n : f.blocks[j].end <= f.endPos
  <2> SUFFICES ASSUME NEW j \in 1 .. n PROVE f.blocks[j].end <= f.blocks[n].end
    BY DEF Ordered
  <2>1. CASE j = n
    BY <1>1, <1>2, <2>1
  <2>2. CASE j # n
    <3>1. j \in 1 .. n - 1
      BY <1>1, <2>2
    <3>2. f.blocks[j].end < f.blocks[n].start /\ f.blocks[n].start <= f.blocks[n].end
      BY <1>2, <3>1 DEF Ordered
    <3> QED BY <1>1, <1>2, <3>2
  <2> QED BY <2>1, <2>2
<1>4. 0 < f.blocks[1].start /\ f.blocks[1].start <= f.blocks[1].end
  BY <1>2 DEF Ordered
<1>5. f.startPos = f.blocks[1].start /\ f.endPos \in Nat
  BY FilterFields DEF Ordered
<1>6. f.blocks[1].end <= f.endPos
  BY <1>2, <1>3
<1> QED BY <1>1, <1>2, <1>3, <1>4, <1>5, <1>6

\* An ordered filter behind which a block is appended.
LEMMA OrderedAppend ==
  ASSUME NEW f \in Filter, Ordered(f), NEW b \in Block, NEW g \in Filter,
         0 < b.start, b.start <= b.end, b.start > f.endPos,
         g.blocks = Append(f.blocks, b), g.endPos = b.end,
         g.startPos = IF f.blocks = <<>> THEN b.start ELSE f.startPos
  PROVE  Ordered(g)
<1> DEFINE n == Len(f.blocks)
<1>1. /\ f.blocks \in Seq(Block) /\ n \in Nat /\ (f.blocks # <<>> <=> n # 0)
      /\ f.endPos \in Nat /\ b.start \in Nat /\ b.end \in Nat
      /\ \A i \in 1 .. n : f.blocks[i].start \in Nat /\ f.blocks[i].end \in Nat
  BY FilterFields DEF Block
<1>2. /\ Len(g.blocks) = n + 1 /\ g.blocks # <<>>
      /\ \A i \in 1 .. n : g.blocks[i] = f.blocks[i]
      /\ g.blocks[n + 1] = b
  BY <1>1, AppendProperties
<1>3. \A i \in 1 .. n + 1 : i \in 1 .. n \/ i = n + 1
  BY <1>1
<1>4. \A i \in 1 .. n + 1 :
        0 < g.blocks[i].start /\ g.blocks[i].start <= g.blocks[i].end
  BY <1>2, <1>3 DEF Ordered
<1>5. ASSUME NEW i \in 1 .. n + 1, NEW j \in 1 .. i - 1
      PROVE  g.blocks[j].end < g.blocks[i].start
  <2>1. j \in 1 .. n /\ g.blocks[j] = f.blocks[j]
    BY <1>1, <1>2
  <2>2. CASE i \in 1 .. n
    BY <1>2, <2>1, <2>2 DEF Ordered
  <2>3. CASE i = n + 1
    <3>1. f.blocks # <<>>
      BY <1>1, <2>1
    <3>2. f.blocks[j].end <= f.endPos
      BY <2>1, <3>1, OrderedBounds
    <3> QED BY <1>1, <1>2, <2>1, <2>3, <3>2
  <2> QED BY <1>3, <2>2, <2>3
<1>6. g.startPos = g.blocks[1].start
  <2>1. CASE n = 0
    BY <1>1, <1>2, <2>1
  <2>2. CASE n # 0
    <3>1. 1 \in 1 .. n
      BY <1>1, <2>2
    <3> QED BY <1>1, <1>2, <2>2, <3>1 DEF Ordered
  <2> QED BY <2>1, <2>2
<1> QED BY <1>2, <1>4, <1>5, <1>6 DEF Ordered

\* An ordered filter whose last block takes a position behind it.
LEMMA OrderedExtend ==
  ASSUME NEW f \in Filter, Ordered(f), f.blocks # <<>>, NEW p \in Nat, p > f.endPos,
         NEW g \in Filter, g.startPos = f.startPos, g.endPos = p,
         g.blocks = [f.blocks EXCEPT ![Len(f.blocks)] = BlockAdd(@, p)]
  PROVE  Ordered(g) /\ PositionsOf(g) = PositionsOf(f) \cup {p}
<1> DEFINE n == Len(f.blocks)
           b == f.blocks[n]
           c == BlockAdd(b, p)
<1>1. /\ f.blocks \in Seq(Block) /\ n \in Nat /\ n # 0 /\ n \in 1 .. n
      /\ f.endPos \in Nat
      /\ \A i \in 1 .. n : /\ f.blocks[i] \in Block
                           /\ f.blocks[i].start \in Nat /\ f.blocks[i].end \in Nat
  BY FilterFields
<1>2. b \in Block /\ b.start <= b.end /\ b.end = f.endPos /\ b.start \in Nat /\ 0 < b.start
  BY <1>1 DEF Ordered
<1>3. c \in Block /\ c.start = b.start /\ c.end = p /\ c.bits = b.bits \cup {p}
  BY <1>2, BlockAddBehind
<1> HIDE DEF c
<1>4. /\ Len(g.blocks) = n
      /\ \A i \in 1 .. n : g.blocks[i] = IF i = n THEN c ELSE f.blocks[i]
  BY <1>1, <1>3, ExceptSeq DEF c
<1> HIDE DEF b
<1>5. /\ g.blocks # <<>>
      /\ \A i \in 1 .. n : /\ g.blocks[i].start = f.blocks[i].start
                           /\ i # n => g.blocks[i] = f.blocks[i]
      /\ g.blocks[n] = c
  BY <1>1, <1>3, <1>4, FilterFields DEF b
<1>6. \A i \in 1 .. n : 0 < g.blocks[i].start /\ g.blocks[i].start <= g.blocks[i].end
  <2> SUFFICES ASSUME NEW i \in 1 .. n
               PROVE  0 < g.blocks[i].start /\ g.blocks[i].start <= g.blocks[i].end
    OBVIOUS
  <2>1. CASE i = n
    BY <1>1, <1>2, <1>3, <1>5, <2>1
  <2>2. CASE i # n
    BY <1>5, <2>2 DEF Ordered
  <2> QED BY <2>1, <2>2
<1>7. ASSUME NEW i \in 1 .. n, NEW j \in 1 .. i - 1
      PROVE  g.blocks[j].end < g.blocks[i].start
  <2>1. j \in 1 .. n /\ j # n
    BY <1>1
  <2>2. f.blocks[j].end < f.blocks[i].start
    BY DEF Ordered
  <2> QED BY <1>5, <2>1, <2>2
<1>8. g.startPos = g.blocks[1].start /\ g.endPos = g.blocks[n].end
  <2>1. 1 \in 1 .. n
    BY <1>1
  <2> QED BY <1>3, <1>5, <2>1 DEF Ordered
<1>9. PositionsOf(g) = PositionsOf(f) \cup {p}
  <2>1. PositionsOf(g) \subseteq PositionsOf(f) \cup {p}
    <3>1. \A i \in 1 .. n : g.blocks[i].bits \subseteq f.blocks[i].bits \cup {p}
      BY <1>3, <1>5 DEF b
    <3> SUFFICES ASSUME NEW x \in PositionsOf(g) PROVE x \in PositionsOf(f) \cup {p}
      OBVIOUS
    <3>2. PICK i \in 1 .. n : x \in g.blocks[i].bits
      BY <1>4, Zenon DEF PositionsOf
    <3>3. x \in f.blocks[i].bits \/ x = p
      BY <3>1, <3>2
    <3> QED BY <3>3, Zenon DEF PositionsOf
  <2>2. \A i \in 1 .. n : f.blocks[i].bits \subseteq g.blocks[i].bits
    BY <1>3, <1>5 DEF b
  <2>3. p \in g.blocks[n].bits
    BY <1>3, <1>5
  <2> QED BY <1>1, <1>4, <2>1, <2>2, <2>3 DEF PositionsOf
<1> QED BY <1>4, <1>5, <1>6, <1>7, <1>8, <1>9 DEF Ordered

\* A position behind the end of an ordered filter joins it, the filter stays
\* ordered, and nothing is lost: not in the last block, not by a new one.
THEOREM AddPositionAscending ==
  ASSUME NEW f, FilterOK(f), Ordered(f), NEW p \in Nat, p > f.endPos
  PROVE  /\ Ordered(AddPosition(f, p))
         /\ AddPosition(f, p).endPos = p
         /\ PositionsOf(AddPosition(f, p)) = PositionsOf(f) \cup {p}
<1> DEFINE n == Len(f.blocks)
           h == AddPosition(f, p)
           b == EmptyBuffer(p)
<1>1. /\ f \in Filter /\ f.startPos \in Nat /\ f.endPos \in Nat /\ n \in Nat
      /\ (f.blocks # <<>> <=> n # 0)
  BY FilterFields DEF FilterOK
<1>2. h \in Filter
  BY AddPositionSound DEF FilterOK
<1>3. b \in Block /\ b.start = p /\ b.end = p /\ 0 < p
  BY <1>1, EmptyBufferType DEF EmptyBuffer
<1>4. CASE f.blocks = <<>>
  <2>1. h = AddPosFilterBlock(f, b) /\ h = AddNewBlock(f, p) /\ f.startPos = 0
    BY <1>4 DEF AddPosition, AddNewBlock, Ordered
  <2>2. h = [f EXCEPT !.startPos = b.start, !.endPos = b.end, !.blocks = Append(@, b)]
    BY <2>1 DEF AddPosFilterBlock
  <2> HIDE DEF h, b
  <2>3. h.startPos = b.start /\ h.endPos = b.end /\ h.blocks = Append(f.blocks, b)
    BY <2>2, <1>1 DEF Filter
  <2>4. Ordered(h)
    <3>1. h.startPos = IF f.blocks = <<>> THEN b.start ELSE f.startPos
      BY <1>4, <2>3
    <3>2. 0 < b.start /\ b.start <= b.end /\ b.start > f.endPos
      BY <1>3
    <3> QED BY <1>1, <1>2, <1>3, <2>3, <3>1, <3>2, OrderedAppend
  <2>5. PositionsOf(h) = PositionsOf(f) \cup {p}
    BY <2>1, AddNewBlockProperties
  <2> QED BY <1>3, <2>3, <2>4, <2>5 DEF h
<1>5. CASE f.blocks # <<>>
  <2> DEFINE g == [f EXCEPT !.currBlockNum = n - 1]
             t == AddToBlock(g, n, p)
             e == BlockAdd(f.blocks[n], p).end
  <2>1. 0 < f.startPos /\ f.startPos <= f.endPos
    BY <1>1, <1>5, OrderedBounds
  <2>2. h = IF BlockAccepts(f.blocks[n], p) THEN [t EXCEPT !.endPos = e]
                                            ELSE AddNewBlock(g, p)
    <3>1. ~ (p < f.startPos) /\ ~ (p < f.endPos)
      BY <1>1, <2>1
    <3> QED BY <1>5, <3>1 DEF AddPosition, AddAfter
  <2>3. /\ FilterOK(g) /\ PositionsOf(g) = PositionsOf(f)
        /\ g.blocks = f.blocks /\ g.startPos = f.startPos /\ g.endPos = f.endPos
    <3>1. n - 1 \in Nat
      BY <1>1, <1>5
    <3> QED BY <3>1, SetCurrBlockProperties
  <2>4. CASE BlockAccepts(f.blocks[n], p)
    <3>1. h = [g EXCEPT !.blocks = [f.blocks EXCEPT ![n] = BlockAdd(@, p)], !.endPos = e]
      BY <2>2, <2>3, <2>4 DEF AddToBlock
    <3>2. e = p
      <4>1. n \in 1 .. n /\ f.blocks[n] \in Block
        BY <1>1, <1>5, FilterFields
      <4>2. f.blocks[n].start <= f.blocks[n].end /\ f.blocks[n].end = f.endPos
        BY <4>1, <1>5 DEF Ordered
      <4> QED BY <4>1, <4>2, BlockAddBehind
    <3> HIDE DEF h, g, e
    <3>3. /\ h.blocks = [f.blocks EXCEPT ![n] = BlockAdd(@, p)]
          /\ h.startPos = f.startPos /\ h.endPos = p
      BY <3>1, <3>2, <2>3 DEF FilterOK, Filter
    <3>4. Ordered(h) /\ PositionsOf(h) = PositionsOf(f) \cup {p}
      BY <1>1, <1>2, <1>5, <3>3, OrderedExtend
    <3> QED BY <3>3, <3>4 DEF h
  <2>5. CASE ~ BlockAccepts(f.blocks[n], p)
    <3>1. h = AddPosFilterBlock(g, b) /\ h = AddNewBlock(g, p)
      BY <2>2, <2>5 DEF AddNewBlock
    <3>2. /\ g.startPos # 0 /\ ~ (b.end < g.startPos) /\ b.start > g.endPos
      BY <1>1, <1>3, <2>1, <2>3
    <3> HIDE DEF h, b, g
    <3>3. h = [g EXCEPT !.endPos = b.end, !.blocks = Append(@, b)]
      BY <3>1, <3>2 DEF AddPosFilterBlock
    <3>4. h.startPos = f.startPos /\ h.endPos = b.end /\ h.blocks = Append(f.blocks, b)
      BY <3>3, <2>3 DEF FilterOK, Filter
    <3>5. Ordered(h)
      BY <1>1, <1>2, <1>3, <1>5, <3>4, OrderedAppend
    <3>6. PositionsOf(h) = PositionsOf(f) \cup {p}
      BY <3>1, <3>2, <1>3, <2>3, AddNewBlockProperties
    <3> QED BY <1>3, <3>4, <3>5, <3>6 DEF h
  <2> QED BY <2>4, <2>5
<1> QED BY <1>4, <1>5

\* addPosFilterBlock of a block behind the end.
LEMMA AddBlockBehind ==
  ASSUME NEW f, FilterOK(f), Ordered(f), NEW b \in Block, 0 < b.start, b.start <= b.end,
         b.start > f.endPos
  PROVE  /\ FilterOK(AddPosFilterBlock(f, b)) /\ Ordered(AddPosFilterBlock(f, b))
         /\ AddPosFilterBlock(f, b).blocks = Append(f.blocks, b)
<1> DEFINE g == AddPosFilterBlock(f, b)
<1>1. /\ f \in Filter /\ f.blocks \in Seq(Block) /\ f.startPos \in Nat /\ f.endPos \in Nat
      /\ b.start \in Nat /\ b.end \in Nat
  BY FilterFields DEF FilterOK, Block
<1>2. FilterOK(g)
  BY <1>1, AddPosFilterBlockProperties
<1>3. /\ g.blocks = Append(f.blocks, b) /\ g.endPos = b.end
      /\ g.startPos = IF f.blocks = <<>> THEN b.start ELSE f.startPos
  <2>1. CASE f.blocks = <<>>
    <3>1. f.startPos = 0
      BY <2>1 DEF Ordered
    <3>2. g = [f EXCEPT !.startPos = b.start, !.endPos = b.end, !.blocks = Append(@, b)]
      BY <3>1 DEF AddPosFilterBlock
    <3> QED BY <1>1, <2>1, <3>2 DEF Filter
  <2>2. CASE f.blocks # <<>>
    <3>1. 0 < f.startPos /\ f.startPos <= f.endPos
      BY <1>1, <2>2, OrderedBounds
    <3>2. f.startPos # 0 /\ ~ (b.end < f.startPos)
      BY <1>1, <3>1
    <3>3. g = [f EXCEPT !.endPos = b.end, !.blocks = Append(@, b)]
      BY <3>2 DEF AddPosFilterBlock
    <3> QED BY <1>1, <2>2, <3>3 DEF Filter
  <2> QED BY <2>1, <2>2
<1> HIDE DEF g
<1>4. Ordered(g)
  BY <1>1, <1>2, <1>3, OrderedAppend DEF FilterOK
<1> QED BY <1>2, <1>3, <1>4 DEF g

\* Where addPosition puts a position behind the end: in the last block, or in one of
\* its own.
LEMMA AddPositionBehind ==
  ASSUME NEW f, FilterOK(f), Ordered(f), NEW p \in Nat, p > f.endPos
  PROVE  LET n == Len(f.blocks)
         IN  AddPosition(f, p).blocks =
               IF f.blocks # <<>> /\ BlockAccepts(f.blocks[n], p)
                 THEN [f.blocks EXCEPT ![n] = BlockAdd(@, p)]
                 ELSE Append(f.blocks, EmptyBuffer(p))
<1> DEFINE n == Len(f.blocks)
           h == AddPosition(f, p)
           b == EmptyBuffer(p)
<1>1. /\ f \in Filter /\ f.startPos \in Nat /\ f.endPos \in Nat /\ n \in Nat
      /\ (f.blocks # <<>> <=> n # 0) /\ f.blocks \in Seq(Block)
  BY FilterFields DEF FilterOK
<1>2. b \in Block /\ b.start = p /\ b.end = p /\ 0 < p
  BY <1>1, EmptyBufferType DEF EmptyBuffer
<1>3. CASE f.blocks = <<>>
  <2>1. h = AddPosFilterBlock(f, b)
    BY <1>3 DEF AddPosition, AddNewBlock
  <2> HIDE DEF h, b
  <2> QED BY <1>2, <1>3, <2>1, AddBlockBehind DEF h, b
<1>4. CASE f.blocks # <<>>
  <2> DEFINE g == [f EXCEPT !.currBlockNum = n - 1]
             t == AddToBlock(g, n, p)
             e == BlockAdd(f.blocks[n], p).end
  <2>1. 0 < f.startPos /\ f.startPos <= f.endPos
    BY <1>1, <1>4, OrderedBounds
  <2>2. h = IF BlockAccepts(f.blocks[n], p) THEN [t EXCEPT !.endPos = e]
                                            ELSE AddNewBlock(g, p)
    <3>1. ~ (p < f.startPos) /\ ~ (p < f.endPos)
      BY <1>1, <2>1
    <3> QED BY <1>4, <3>1 DEF AddPosition, AddAfter
  <2>3. /\ FilterOK(g) /\ g.blocks = f.blocks /\ g.startPos = f.startPos /\ g.endPos = f.endPos
    <3>1. n - 1 \in Nat
      BY <1>1, <1>4
    <3> QED BY <3>1, SetCurrBlockProperties
  <2>4. CASE BlockAccepts(f.blocks[n], p)
    <3>1. h = [g EXCEPT !.blocks = [f.blocks EXCEPT ![n] = BlockAdd(@, p)], !.endPos = e]
      BY <2>2, <2>3, <2>4 DEF AddToBlock
    <3> HIDE DEF h, g, e
    <3>2. h.blocks = [f.blocks EXCEPT ![n] = BlockAdd(@, p)]
      BY <3>1, <2>3 DEF FilterOK, Filter
    <3> QED BY <1>4, <2>4, <3>2 DEF h
  <2>5. CASE ~ BlockAccepts(f.blocks[n], p)
    <3>1. h = AddPosFilterBlock(g, b)
      BY <2>2, <2>5 DEF AddNewBlock
    <3>2. Ordered(g)
      BY <2>3 DEF Ordered
    <3> HIDE DEF h, b, g
    <3>3. h.blocks = Append(g.blocks, b)
      BY <1>2, <2>3, <3>1, <3>2, AddBlockBehind
    <3> QED BY <2>3, <2>5, <3>3 DEF h, b
  <2> QED BY <2>4, <2>5
<1> QED BY <1>3, <1>4

----------------------------------------------------------------------------
(* The filter of a set of positions *)

\* What addPosition makes of the positions of S, up to each of 0 .. k: a recursive
\* definition over them has a function to define.
AddedUpto(S, f, k) ==
  [p \in 0 .. k |-> IF p = 0 THEN EmptyFilter
                    ELSE IF p \in S THEN AddPosition(f[p - 1], p) ELSE f[p - 1]]

LEMMA AddedUptoExists ==
  ASSUME NEW S
  PROVE  \A k \in Nat : \E f : f = AddedUpto(S, f, k)
<1> DEFINE Fails == {k \in Nat : ~ \E f : f = AddedUpto(S, f, k)}
<1> SUFFICES ASSUME Fails # {} PROVE FALSE
  OBVIOUS
<1>1. PICK k \in Fails : \A j \in Fails : k <= j
  BY LeastExists
<1>2. k # 0
  <2> DEFINE f == [p \in 0 .. 0 |-> EmptyFilter]
  <2>1. f = AddedUpto(S, f, 0)
    BY DEF AddedUpto
  <2> HIDE DEF f
  <2> QED BY <1>1, <2>1
<1>3. PICK j \in Nat : k = j + 1
  <2>1. k \in Nat /\ k - 1 \in Nat /\ k = (k - 1) + 1
    BY <1>2
  <2> QED BY <2>1
<1>4. PICK f : f = AddedUpto(S, f, j)
  BY <1>1, <1>3
<1> DEFINE g == AddedUpto(S, f, k)
<1>5. \A p \in 0 .. j : g[p] = f[p]
  <2>1. 0 .. j \subseteq 0 .. k
    BY <1>3
  <2>2. \A p \in 0 .. j : f[p] = AddedUpto(S, f, j)[p]
    BY <1>4
  <2> QED BY <2>1, <2>2 DEF AddedUpto
<1>6. \A p \in 0 .. k : p # 0 => p - 1 \in 0 .. j
  BY <1>3
<1>7. g = AddedUpto(S, g, k)
  BY <1>5, <1>6 DEF AddedUpto
<1> HIDE DEF g
<1> QED BY <1>1, <1>7

=============================================================================
