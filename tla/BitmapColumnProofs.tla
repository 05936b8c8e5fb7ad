------------------------- MODULE BitmapColumnProofs -------------------------
(***************************************************************************)
(* What the encoder keeps of a column and what a scan finds in its index,  *)
(* proved for every number of rows and values, and blocks and pages of any *)
(* size: the variables have their types; no row is lost on its way to the  *)
(* index but those of the values the purge passes over; no scan returns a  *)
(* row that does not match, and the first one returns all the index has;   *)
(* blocks and pages keep their order, and a scan makes of them the filters *)
(* addPosition would.                                                      *)
(***************************************************************************)
EXTENDS BitmapColumn, FilterProofs, TLAPS

QueueEntry == [val : Values, page : Page]

\* The rows in a list of pages, and those of a value in a queue.
PagesBits(pages) == UNION {PageBits(pages[i]) : i \in 1 .. Len(pages)}
QueueBits(q, v) ==
  UNION {PageBits(q[i].page) : i \in {j \in 1 .. Len(q) : q[j].val = v}}

----------------------------------------------------------------------------
(* Blocks, pages and queues *)

\* Positions between the bounds of a block that fits fit a block of their own.
LEMMA FitsInside ==
  ASSUME NEW first \in Nat, NEW last \in Nat, NEW p \in first .. last,
         NEW q \in first .. last, Fits(first, last)
  PROVE  Fits(p, q)
<1>1. IntBits \in Nat /\ IntBits > 0 /\ MAX_INT \in Nat /\ MAX_INT > 0
  BY BlockAssumption
<1>2. CASE q < p
  BY <1>1, <1>2 DEF Fits, Words
<1>3. CASE p <= q
  <2>1. p \in Nat /\ q \in Nat /\ last \in Nat /\ ~ (last < first) /\ ~ (q < p)
    BY <1>3
  <2> DEFINE a == q - p
             b == last - first
  <2>2. a \in Nat /\ b \in Nat /\ a <= b
    BY <1>3
  <2> HIDE DEF a, b
  <2>3. a \div IntBits <= b \div IntBits
    <3> DEFINE x == a \div IntBits
               y == b \div IntBits
    <3>1. x \in Int /\ y \in Int
      BY <1>1, <2>2
    <3>2. IntBits * x <= a /\ b < IntBits * (y + 1)
      BY <1>1, <2>2, SMTT(30)
    <3> HIDE DEF x, y
    <3>3. IntBits * x < IntBits * (y + 1)
      <4>1. IntBits * x \in Int /\ IntBits * (y + 1) \in Int
        BY <1>1, <3>1
      <4> QED BY <4>1, <3>2, <2>2
    <3>4. x < y + 1
      BY <1>1, <3>1, <3>3, SMTT(30)
    <3> QED BY <3>1, <3>4 DEF x, y
  <2>4. a \div IntBits \in Int /\ b \div IntBits \in Int
    BY <1>1, <2>2
  <2>5. Words(p, q) = a \div IntBits + 1 /\ Words(first, last) = b \div IntBits + 1
    BY <2>1 DEF Words, a, b
  <2> QED BY <2>3, <2>4, <2>5, <1>1 DEF Fits
<1> QED BY <1>2, <1>3

LEMMA OnePositionFits ==
  ASSUME NEW p \in Nat
  PROVE  Fits(p, p)
<1>1. IntBits \in Nat /\ IntBits > 0 /\ MAX_INT \in Nat /\ MAX_INT > 0
  BY BlockAssumption
<1>2. 0 \div IntBits = 0
  BY <1>1
<1> QED BY <1>1, <1>2 DEF Fits, Words

LEMMA AppendPage ==
  ASSUME NEW page \in Page, NEW b \in Block
  PROVE  /\ Append(page, b) \in Page /\ Append(page, b) # <<>>
         /\ PageBits(Append(page, b)) = PageBits(page) \cup b.bits
<1>1. /\ Len(page) \in Nat /\ Len(Append(page, b)) = Len(page) + 1
      /\ Append(page, b)[Len(page) + 1] = b
      /\ \A k \in 1 .. Len(page) : Append(page, b)[k] = page[k]
  BY DEF Page
<1>2. 1 .. Len(page) + 1 = (1 .. Len(page)) \cup {Len(page) + 1}
  BY <1>1
<1>3. Append(page, b) \in Page /\ Append(page, b) # <<>>
  BY <1>1 DEF Page
<1> QED BY <1>1, <1>2, <1>3 DEF PageBits

LEMMA OneBlockPage ==
  ASSUME NEW b \in Block
  PROVE  <<b>> \in Page /\ <<b>> # <<>> /\ PageBits(<<b>>) = b.bits
<1>1. Len(<<b>>) = 1 /\ <<b>>[1] = b /\ 1 .. 1 = {1}
  OBVIOUS
<1>2. <<b>> \in Page /\ <<b>> # <<>>
  BY DEF Page
<1> QED BY <1>1, <1>2 DEF PageBits

LEMMA EmptyPage ==
  /\ <<>> \in Page /\ PageBits(<<>>) = {} /\ PagesBits(<<>>) = {}
  /\ <<>> \in Seq(Page) /\ <<>> \in Seq(QueueEntry)
  /\ \A v \in Values : QueueBits(<<>>, v) = {}
<1>1. 1 .. Len(<<>>) = {}
  OBVIOUS
<1> QED BY <1>1 DEF Page, PageBits, PagesBits, QueueBits

LEMMA AppendPages ==
  ASSUME NEW pages \in Seq(Page), NEW page \in Page
  PROVE  /\ Append(pages, page) \in Seq(Page)
         /\ PagesBits(Append(pages, page)) = PagesBits(pages) \cup PageBits(page)
<1>1. /\ Len(pages) \in Nat /\ Len(Append(pages, page)) = Len(pages) + 1
      /\ Append(pages, page)[Len(pages) + 1] = page
      /\ \A k \in 1 .. Len(pages) : Append(pages, page)[k] = pages[k]
  OBVIOUS
<1>2. 1 .. Len(pages) + 1 = (1 .. Len(pages)) \cup {Len(pages) + 1}
  BY <1>1
<1> QED BY <1>1, <1>2 DEF PagesBits

LEMMA AppendQueue ==
  ASSUME NEW q \in Seq(QueueEntry), NEW v \in Values, NEW page \in Page, NEW w \in Values
  PROVE  /\ Append(q, Queued(v, page)) \in Seq(QueueEntry)
         /\ QueueBits(Append(q, Queued(v, page)), w) =
              QueueBits(q, w) \cup (IF w = v THEN PageBits(page) ELSE {})
<1> DEFINE e == Queued(v, page)
           r == Append(q, e)
<1>1. e \in QueueEntry /\ e.val = v /\ e.page = page
  BY DEF Queued, QueueEntry
<1> HIDE DEF e
<1>2. /\ Len(q) \in Nat /\ Len(r) = Len(q) + 1 /\ r[Len(q) + 1] = e
      /\ \A k \in 1 .. Len(q) : r[k] = q[k]
      /\ r \in Seq(QueueEntry)
  BY <1>1
<1>3. 1 .. Len(q) + 1 = (1 .. Len(q)) \cup {Len(q) + 1}
  BY <1>2
<1> HIDE DEF r
<1>4. {j \in 1 .. Len(r) : r[j].val = w} =
        {j \in 1 .. Len(q) : q[j].val = w} \cup (IF w = v THEN {Len(q) + 1} ELSE {})
  BY <1>1, <1>2, <1>3
<1>5. \A j \in {j \in 1 .. Len(q) : q[j].val = w} : r[j] = q[j]
  BY <1>2
<1>6. QueueBits(r, w) = QueueBits(q, w) \cup (IF w = v THEN PageBits(page) ELSE {})
  BY <1>1, <1>2, <1>4, <1>5 DEF QueueBits
<1> QED BY <1>2, <1>6 DEF r, e

LEMMA HeadOfQueue ==
  ASSUME NEW q \in Seq(QueueEntry), q # <<>>, NEW w \in Values
  PROVE  /\ Head(q) \in QueueEntry /\ Tail(q) \in Seq(QueueEntry)
         /\ QueueBits(q, w) = QueueBits(Tail(q), w)
              \cup (IF w = Head(q).val THEN PageBits(Head(q).page) ELSE {})
<1> DEFINE t == Tail(q)
<1>1. /\ Len(q) \in Nat /\ Len(q) > 0 /\ Len(t) = Len(q) - 1 /\ Head(q) = q[1]
      /\ \A k \in 1 .. Len(q) - 1 : t[k] = q[k + 1]
      /\ t \in Seq(QueueEntry) /\ q[1] \in QueueEntry
  OBVIOUS
<1> HIDE DEF t
<1>2. ASSUME NEW x \in QueueBits(q, w)
      PROVE  x \in QueueBits(t, w) \cup (IF w = q[1].val THEN PageBits(q[1].page) ELSE {})
  <2>1. PICK j \in 1 .. Len(q) : q[j].val = w /\ x \in PageBits(q[j].page)
    BY DEF QueueBits
  <2>2. CASE j = 1
    BY <2>1, <2>2
  <2>3. CASE j > 1
    <3>1. j - 1 \in 1 .. Len(t) /\ t[j - 1] = q[j]
      BY <1>1, <2>1, <2>3
    <3> QED BY <2>1, <3>1 DEF QueueBits
  <2> QED BY <2>2, <2>3, <2>1
<1>3. ASSUME NEW x \in QueueBits(t, w)
      PROVE  x \in QueueBits(q, w)
  <2>1. PICK j \in 1 .. Len(t) : t[j].val = w /\ x \in PageBits(t[j].page)
    BY DEF QueueBits
  <2>2. j + 1 \in 1 .. Len(q) /\ t[j] = q[j + 1]
    BY <1>1, <2>1
  <2> QED BY <2>1, <2>2 DEF QueueBits
<1>4. ASSUME w = q[1].val
      PROVE  PageBits(q[1].page) \subseteq QueueBits(q, w)
  BY <1>1, <1>4 DEF QueueBits
<1> QED BY <1>1, <1>2, <1>3, <1>4 DEF t

----------------------------------------------------------------------------
(* The invariant *)

EncodeType ==
  /\ column \in [Rows -> Values] /\ phase \in Phases
  /\ next \in 1 .. N + 1 /\ onPage \in 0 .. ValPage /\ purging \in 0 .. K + 1
  /\ blockMap \in [Values -> Block] /\ pageMap \in [Values -> Page]
  /\ outPutQ \in Seq(QueueEntry) /\ index \in [Values -> Seq(Page)]

\* How far the purge is in each phase; it begins behind the last row.
PurgePhase ==
  /\ phase = "encode" => purging = 0
  /\ phase = "purge" => purging # 0
  /\ purging \in 1 .. K => phase = "purge"
  /\ purging # 0 => next = N + 1
  /\ phase \in {"scan", "decode", "done"} => purging = K + 1 /\ outPutQ = <<>>

\* The block of a value holds rows already encoded, between its bounds.
BlockOf(v) ==
  LET b == blockMap[v]
  IN  /\ b.start \in b.bits /\ b.end \in b.bits
      /\ b.bits \subseteq {p \in RowsOf(v) : p < next}
      /\ b.bits \subseteq b.start .. b.end
      /\ Fits(b.start, b.end)

\* A value has a page just when it has ever filled a block; without one, nothing
\* of it has left the block map, and so the purge passes over what fits a block.
MapsHold(v) ==
  purging <= v =>
    /\ blockMap[v] = NoBlock => pageMap[v] = <<>> /\ \A p \in RowsOf(v) : next <= p
    /\ blockMap[v] # NoBlock => BlockOf(v)
    /\ pageMap[v] = <<>> => InIndex(v) \cup InQueue(v) = {}
    /\ pageMap[v] # <<>> => ~ OneBlockRows(v)

EncodeInv == EncodeType /\ PurgePhase /\ RowsKept /\ \A v \in Values : MapsHold(v)

LEMMA ValuesAreNaturals ==
  /\ N \in Nat /\ N > 0 /\ K \in Nat /\ K > 0 /\ PageBlocks \in Nat /\ ValPage \in Nat
  /\ Values \subseteq Nat /\ Rows \subseteq Nat /\ NoBlock \in Block
BY ColumnAssumption DEF Values, Rows, NoBlock, Block

LEMMA Bits ==
  /\ \A v \in Values : InIndex(v) = PagesBits(index[v]) /\ InQueue(v) = QueueBits(outPutQ, v)
  /\ \A v \in Values : InIndex(v)' = PagesBits(index'[v]) /\ InQueue(v)' = QueueBits(outPutQ', v)
BY DEF InIndex, InQueue, PagesBits, QueueBits

LEMMA EncodeInit == Init => EncodeInv
<1> SUFFICES ASSUME Init PROVE EncodeInv
  OBVIOUS
<1> USE ValuesAreNaturals
<1>1. EncodeType
  BY EmptyPage DEF Init, EncodeType, Phases
<1>2. PurgePhase
  BY DEF Init, PurgePhase
<1>3. ASSUME NEW v \in Values
      PROVE  InIndex(v) = {} /\ InQueue(v) = {} /\ InMaps(v) = {}
  BY EmptyPage, Bits DEF Init, InMaps, NoBlock
<1>4. ASSUME NEW v \in Values
      PROVE  {p \in RowsOf(v) : p < next} = {} /\ \A p \in RowsOf(v) : next <= p
  BY DEF Init, RowsOf, Rows
<1>5. RowsKept
  BY <1>3, <1>4 DEF RowsKept, Init
<1>6. \A v \in Values : MapsHold(v)
  BY <1>3, <1>4 DEF MapsHold, Init
<1> QED BY <1>1, <1>2, <1>5, <1>6 DEF EncodeInv

----------------------------------------------------------------------------
(* Taking a value *)

\* A value is kept when the maps and the queue have gained its row and no other.
LEMMA TakenIsKept ==
  ASSUME EncodeInv, NextFitsPage, TakeValue,
         \A w \in Values : InQueue(w)' \cup InMaps(w)' =
           InQueue(w) \cup InMaps(w) \cup (IF w = column[next] THEN {next} ELSE {})
  PROVE  RowsKept'
<1> USE ValuesAreNaturals DEF EncodeInv
<1>1. purging = 0 /\ purging' = 0 /\ next' = next + 1 /\ column' = column /\ index' = index
      /\ next \in Rows
  BY DEF NextFitsPage, TakeValue, PurgePhase, EncodeType, Rows
<1>2. ASSUME NEW w \in Values
      PROVE  /\ InIndex(w)' = InIndex(w)
             /\ {p \in RowsOf(w)' : p < next'} =
                  {p \in RowsOf(w) : p < next} \cup (IF w = column[next] THEN {next} ELSE {})
             /\ ~ (purging > w) /\ ~ (purging' > w)
  BY <1>1, Bits DEF RowsOf, Rows, EncodeType
<1> QED BY <1>1, <1>2 DEF RowsKept

\* Values whose block, page and queue entries stay keep what holds of them.
LEMMA OthersHold ==
  ASSUME EncodeInv, NextFitsPage, TakeValue, NEW w \in Values, w # column[next],
         blockMap'[w] = blockMap[w], pageMap'[w] = pageMap[w], InQueue(w)' = InQueue(w)
  PROVE  MapsHold(w)'
<1> USE ValuesAreNaturals DEF EncodeInv
<1>1. purging' = purging /\ next' = next + 1 /\ column' = column /\ index' = index
      /\ next \in Nat /\ next \notin RowsOf(w) /\ RowsOf(w) \subseteq Nat
  BY DEF TakeValue, EncodeType, RowsOf, Rows
<1>2. RowsOf(w)' = RowsOf(w) /\ InIndex(w)' = InIndex(w) /\ OneBlockRows(w)' = OneBlockRows(w)
  BY <1>1, Bits DEF RowsOf, OneBlockRows
<1>3. (\A p \in RowsOf(w) : next <= p) => \A p \in RowsOf(w) : next' <= p
  BY <1>1
<1>4. BlockOf(w) => BlockOf(w)'
  BY <1>1, <1>2 DEF BlockOf
<1> QED BY <1>1, <1>2, <1>3, <1>4 DEF MapsHold

LEMMA NextValue ==
  ASSUME EncodeInv, NextFitsPage
  PROVE  /\ next \in Nat /\ column[next] \in Values /\ next \in RowsOf(column[next])
         /\ purging = 0 /\ purging <= column[next]
         /\ MapsHold(column[next])
         /\ blockMap[column[next]] \in Block /\ pageMap[column[next]] \in Page
         /\ EmptyBuffer(next) \in Block /\ EmptyBuffer(next) # NoBlock
         /\ EmptyBuffer(next).bits = {next}
<1>1. next \in Rows /\ purging = 0 /\ next > 0 /\ next \in Nat
  BY ValuesAreNaturals DEF EncodeInv, NextFitsPage, PurgePhase, EncodeType, Rows
<1>2. column[next] \in Values /\ column[next] \in Nat
  BY <1>1, ValuesAreNaturals DEF EncodeInv, EncodeType
<1>3. next \in RowsOf(column[next])
  BY <1>1 DEF RowsOf
<1>4. purging <= column[next]
  BY <1>1, <1>2
<1>5. MapsHold(column[next])
  <2>1. \A v \in Values : MapsHold(v)
    BY DEF EncodeInv
  <2> QED BY <1>2, <2>1
<1>6. blockMap[column[next]] \in Block /\ pageMap[column[next]] \in Page
  BY <1>2 DEF EncodeInv, EncodeType
<1>7. EmptyBuffer(next) \in Block /\ EmptyBuffer(next).start = next /\ EmptyBuffer(next).bits = {next}
  BY <1>1 DEF EmptyBuffer, Block
<1>8. EmptyBuffer(next) # NoBlock
  BY <1>1, <1>7 DEF NoBlock
<1> QED BY <1>1, <1>2, <1>3, <1>4, <1>5, <1>6, <1>7, <1>8

\* A block begun with the next row.
LEMMA NewBlockHolds ==
  ASSUME EncodeInv, NextFitsPage, TakeValue, NEW v \in Values, v = column[next],
         blockMap'[v] = EmptyBuffer(next)
  PROVE  BlockOf(v)' /\ blockMap'[v] # NoBlock
<1> USE ValuesAreNaturals, NextValue
<1>1. next' = next + 1 /\ RowsOf(v)' = RowsOf(v)
  BY DEF TakeValue, RowsOf
<1>2. Fits(next, next)
  BY OnePositionFits
<1>3. EmptyBuffer(next).start = next /\ EmptyBuffer(next).end = next
  BY DEF EmptyBuffer
<1> QED BY <1>1, <1>2, <1>3 DEF BlockOf

LEMMA AddToNewBlockStep ==
  ASSUME EncodeInv, AddToNewBlock, NEW v \in Values, v = column[next]
  PROVE  RowsKept' /\ \A w \in Values : MapsHold(w)'
<1> USE ValuesAreNaturals, NextValue DEF EncodeInv
<1>1. NextFitsPage /\ TakeValue /\ v \in Values
  BY DEF AddToNewBlock
<1>2. /\ blockMap[v] = NoBlock /\ pageMap' = pageMap /\ outPutQ' = outPutQ
      /\ blockMap'[v] = EmptyBuffer(next)
      /\ \A w \in Values : w # v => blockMap'[w] = blockMap[w]
  BY <1>1 DEF AddToNewBlock, EncodeType
<1>3. \A w \in Values : InQueue(w)' = InQueue(w)
  BY <1>2, Bits
<1>4. purging' = 0 /\ index' = index
  BY <1>1 DEF TakeValue
<1>5. RowsKept'
  <2>1. ASSUME NEW w \in Values
        PROVE  InMaps(w)' = InMaps(w) \cup (IF w = v THEN {next} ELSE {})
    <3>1. CASE w = v
      BY <1>1, <1>2, <1>4, <3>1 DEF InMaps, NoBlock
    <3>2. CASE w # v
      BY <1>1, <1>2, <1>4, <3>2 DEF InMaps
    <3> QED BY <3>1, <3>2
  <2> QED BY <1>1, <1>3, <2>1, TakenIsKept
<1>6. MapsHold(v)'
  <2>1. BlockOf(v)' /\ blockMap'[v] # NoBlock
    BY <1>1, <1>2, NewBlockHolds
  <2>2. pageMap'[v] = <<>> /\ InIndex(v) \cup InQueue(v) = {}
    BY <1>1, <1>2 DEF MapsHold
  <2>3. InIndex(v)' = InIndex(v)
    BY <1>1, <1>4, Bits
  <2> QED BY <1>1, <1>3, <2>1, <2>2, <2>3 DEF MapsHold
<1>7. \A w \in Values : w # v => MapsHold(w)'
  BY <1>1, <1>2, <1>3, OthersHold
<1> QED BY <1>5, <1>6, <1>7

LEMMA AddToItsBlockStep ==
  ASSUME EncodeInv, AddToItsBlock, NEW v \in Values, v = column[next]
  PROVE  RowsKept' /\ (\A w \in Values : MapsHold(w)')
         /\ SetPosition(blockMap[v], next) \in Block
<1> DEFINE b == blockMap[v]
           c == SetPosition(b, next)
<1> USE ValuesAreNaturals, NextValue DEF EncodeInv
<1>1. NextFitsPage /\ TakeValue /\ v \in Values
  BY DEF AddToItsBlock
<1>2. /\ b # NoBlock /\ Fits(b.start, next) /\ pageMap' = pageMap /\ outPutQ' = outPutQ
      /\ blockMap'[v] = c
      /\ \A w \in Values : w # v => blockMap'[w] = blockMap[w]
  BY <1>1 DEF AddToItsBlock, EncodeType, HasRoom
<1>3. b \in Block /\ c \in Block /\ c.start = b.start /\ c.end = next
      /\ c.bits = b.bits \cup {next}
  BY <1>1 DEF SetPosition, Block
<1>4. \A w \in Values : InQueue(w)' = InQueue(w)
  BY <1>2, Bits
<1>5. purging' = 0 /\ index' = index /\ next' = next + 1 /\ column' = column
  BY <1>1 DEF TakeValue
<1>6. BlockOf(v)
  BY <1>1, <1>2 DEF MapsHold
<1> HIDE DEF c, b
<1>7. RowsKept'
  <2>1. ASSUME NEW w \in Values
        PROVE  InMaps(w)' = InMaps(w) \cup (IF w = v THEN {next} ELSE {})
    <3>1. CASE w = v
      BY <1>1, <1>2, <1>3, <1>5, <3>1 DEF InMaps, b
    <3>2. CASE w # v
      BY <1>1, <1>2, <1>5, <3>2 DEF InMaps
    <3> QED BY <3>1, <3>2
  <2> QED BY <1>1, <1>4, <2>1, TakenIsKept
<1>8. MapsHold(v)'
  <2>1. c # NoBlock
    BY <1>1, <1>3 DEF NoBlock
  <2>2. c.start \in c.bits /\ c.end \in c.bits /\ c.bits \subseteq c.start .. c.end
    <3>1. b.start \in Nat /\ b.start \in b.bits /\ b.end \in b.bits /\ b.end \in Nat
      BY <1>6, <1>3 DEF BlockOf, Block, b
    <3>2. b.bits \subseteq b.start .. b.end /\ b.end < next
      BY <1>6 DEF BlockOf, b
    <3> QED BY <1>1, <1>3, <3>1, <3>2
  <2>3. c.bits \subseteq {p \in RowsOf(v)' : p < next'}
    <3>1. RowsOf(v)' = RowsOf(v) /\ RowsOf(v) \subseteq Nat
      BY <1>5 DEF RowsOf, Rows
    <3> QED BY <1>1, <1>3, <1>5, <1>6, <3>1 DEF BlockOf, b
  <2>4. Fits(c.start, c.end)
    BY <1>2, <1>3
  <2>5. BlockOf(v)'
    BY <1>2, <2>2, <2>3, <2>4 DEF BlockOf
  <2>6. InIndex(v)' = InIndex(v) /\ OneBlockRows(v)' = OneBlockRows(v)
    BY <1>1, <1>5, Bits DEF OneBlockRows, RowsOf
  <2> QED BY <1>1, <1>2, <1>4, <2>1, <2>5, <2>6 DEF MapsHold
<1>9. \A w \in Values : w # v => MapsHold(w)'
  BY <1>1, <1>2, <1>4, OthersHold
<1> QED BY <1>3, <1>7, <1>8, <1>9 DEF c, b

\* A full block leaves the map for a page, and a full page for the queue.
LEMMA FullBlockStep ==
  ASSUME EncodeInv, FullBlock, NEW v \in Values, v = column[next]
  PROVE  RowsKept' /\ (\A w \in Values : MapsHold(w)')
         /\ pageMap' \in [Values -> Page] /\ outPutQ' \in Seq(QueueEntry)
<1> DEFINE b == blockMap[v]
<1> USE ValuesAreNaturals, NextValue DEF EncodeInv
<1>1. NextFitsPage /\ TakeValue /\ b # NoBlock /\ ~ Fits(b.start, next)
  BY DEF FullBlock, HasRoom
<1>2. purging' = 0 /\ index' = index /\ next' = next + 1 /\ column' = column
  BY <1>1 DEF TakeValue
<1>3. /\ b \in Block /\ pageMap[v] \in Page /\ pageMap \in [Values -> Page]
      /\ blockMap \in [Values -> Block] /\ outPutQ \in Seq(QueueEntry)
  BY <1>1 DEF EncodeType
<1>4. blockMap'[v] = EmptyBuffer(next) /\ \A w \in Values : w # v => blockMap'[w] = blockMap[w]
  BY <1>3 DEF FullBlock
<1>5. BlockOf(v)
  BY <1>1 DEF MapsHold
<1>6. BlockOf(v)' /\ blockMap'[v] # NoBlock
  BY <1>1, <1>4, NewBlockHolds
<1> HIDE DEF b
\* the two places for the block
<1>7. /\ \A w \in Values : w # v => pageMap'[w] = pageMap[w] /\ InQueue(w)' = InQueue(w)
      /\ pageMap'[v] \in Page /\ pageMap'[v] # <<>>
      /\ InQueue(v)' \cup PageBits(pageMap'[v]) = InQueue(v) \cup PageBits(pageMap[v]) \cup b.bits
      /\ pageMap' \in [Values -> Page] /\ outPutQ' \in Seq(QueueEntry)
  <2>1. CASE pageMap' = [pageMap EXCEPT ![v] = Append(@, b)] /\ outPutQ' = outPutQ
    <3>1. \A w \in Values : InQueue(w)' = InQueue(w)
      BY <2>1, Bits
    <3>2. /\ Append(pageMap[v], b) \in Page /\ Append(pageMap[v], b) # <<>>
          /\ PageBits(Append(pageMap[v], b)) = PageBits(pageMap[v]) \cup b.bits
      BY <1>3, AppendPage
    <3>3. pageMap'[v] = Append(pageMap[v], b) /\ pageMap' \in [Values -> Page]
          /\ \A w \in Values : w # v => pageMap'[w] = pageMap[w]
      BY <1>3, <2>1, <3>2
    <3> QED BY <1>3, <2>1, <3>1, <3>2, <3>3
  <2>2. CASE /\ outPutQ' = Append(outPutQ, Queued(v, pageMap[v]))
             /\ pageMap' = [pageMap EXCEPT ![v] = <<b>>]
    <3>1. /\ outPutQ' \in Seq(QueueEntry)
          /\ \A w \in Values : QueueBits(outPutQ', w) =
               QueueBits(outPutQ, w) \cup (IF w = v THEN PageBits(pageMap[v]) ELSE {})
      BY <1>3, <2>2, AppendQueue
    <3>2. /\ \A w \in Values : w # v => InQueue(w)' = InQueue(w)
          /\ InQueue(v)' = InQueue(v) \cup PageBits(pageMap[v])
      BY <3>1, Bits
    <3> QED BY <1>3, <2>2, <3>1, <3>2, OneBlockPage
  <2> QED BY <2>1, <2>2 DEF FullBlock, b
<1>8. RowsKept'
  <2>1. ASSUME NEW w \in Values
        PROVE  InQueue(w)' \cup InMaps(w)' =
                 InQueue(w) \cup InMaps(w) \cup (IF w = v THEN {next} ELSE {})
    <3>1. CASE w = v
      BY <1>1, <1>2, <1>4, <1>7, <3>1 DEF InMaps, b
    <3>2. CASE w # v
      BY <1>1, <1>2, <1>4, <1>7, <3>2 DEF InMaps
    <3> QED BY <3>1, <3>2
  <2> QED BY <1>1, <2>1, TakenIsKept
<1>9. MapsHold(v)'
  <2>1. b.start \in RowsOf(v) /\ next \in RowsOf(v)
    BY <1>1, <1>5 DEF BlockOf, b
  <2>2. RowsOf(v)' = RowsOf(v)
    BY <1>2 DEF RowsOf
  <2>3. ~ OneBlockRows(v)'
    BY <1>1, <2>1, <2>2 DEF OneBlockRows
  <2> QED BY <1>6, <1>7, <2>3 DEF MapsHold
<1>10. \A w \in Values : w # v => MapsHold(w)'
  BY <1>1, <1>4, <1>7, OthersHold
<1> QED BY <1>7, <1>8, <1>9, <1>10

----------------------------------------------------------------------------
(* The purge and the placer *)

\* Nothing that RowsKept and MapsHold speak of changes.
LEMMA NothingMoves ==
  ASSUME EncodeInv, UNCHANGED <<column, next, blockMap, pageMap, placer>>,
         \A w \in Values : purging' > w <=> purging > w, purging' \in Nat
  PROVE  RowsKept' /\ \A w \in Values : MapsHold(w)'
<1> USE ValuesAreNaturals DEF EncodeInv, EncodeType
<1>1. outPutQ' = outPutQ /\ index' = index /\ purging \in Nat
  BY DEF placer
<1>2. ASSUME NEW w \in Values
      PROVE  /\ RowsOf(w)' = RowsOf(w) /\ InIndex(w)' = InIndex(w) /\ InQueue(w)' = InQueue(w)
             /\ OneBlockRows(w)' = OneBlockRows(w)
             /\ InMaps(w)' = InMaps(w) /\ BlockOf(w)' = BlockOf(w)
             /\ (purging' <= w <=> purging <= w)
  <2>1. RowsOf(w)' = RowsOf(w) /\ InIndex(w)' = InIndex(w) /\ InQueue(w)' = InQueue(w)
    BY <1>1, Bits DEF RowsOf
  <2>2. OneBlockRows(w)' = OneBlockRows(w)
    BY <2>1 DEF OneBlockRows
  <2>3. BlockOf(w)' = BlockOf(w)
    BY <2>1 DEF BlockOf
  <2>4. InMaps(w)' = InMaps(w)
    BY DEF InMaps
  <2>5. purging' <= w <=> purging <= w
    <3>1. w \in Nat /\ (purging' > w <=> purging > w)
      OBVIOUS
    <3> QED BY <1>1, <3>1
  <2> QED BY <2>1, <2>2, <2>3, <2>4, <2>5
<1>3. RowsKept'
  <2>1. next' = next
    OBVIOUS
  <2> QED BY <1>2, <2>1 DEF RowsKept
<1>4. ASSUME NEW w \in Values
      PROVE  MapsHold(w)'
  BY <1>2 DEF MapsHold
<1> QED BY <1>3, <1>4

LEMMA PurgeValueStep ==
  ASSUME EncodeInv, PurgeValue, NEW v \in Values, v = purging
  PROVE  RowsKept' /\ (\A w \in Values : MapsHold(w)') /\ outPutQ' \in Seq(QueueEntry)
<1> DEFINE b == blockMap[v]
           page == pageMap[v]
<1> USE ValuesAreNaturals DEF EncodeInv
<1>1. /\ next = N + 1 /\ next' = next /\ column' = column /\ index' = index
      /\ blockMap' = blockMap /\ pageMap' = pageMap /\ purging' = v + 1
      /\ outPutQ' = outPutQ \o PurgedPages(v)
  BY DEF PurgeValue, PurgePhase
<1>2. b \in Block /\ page \in Page /\ outPutQ \in Seq(QueueEntry) /\ v \in Nat
  BY DEF EncodeType
<1>3. MapsHold(v) /\ purging <= v /\ ~ (purging > v)
  OBVIOUS
\* the queue gains the rows of v that are in the maps, if v has a page
<1> DEFINE moved == IF page = <<>> THEN {} ELSE PageBits(page) \cup b.bits
           Gains(q, r, bits) ==
             /\ r \in Seq(QueueEntry)
             /\ \A w \in Values :
                  QueueBits(r, w) = QueueBits(q, w) \cup (IF w = v THEN bits ELSE {})
<1>queue. Gains(outPutQ, outPutQ', moved)
  <2>1. CASE page = <<>>
    <3>1. outPutQ' = outPutQ
      BY <1>1, <1>2, <2>1 DEF PurgedPages
    <3> QED BY <1>2, <2>1, <3>1
  <2>2. CASE page # <<>> /\ b = NoBlock
    <3>1. outPutQ' = Append(outPutQ, Queued(v, page))
      BY <1>1, <1>2, <2>2 DEF PurgedPages
    <3>2. Gains(outPutQ, outPutQ', PageBits(page))
      BY <1>2, <3>1, AppendQueue
    <3>3. moved = PageBits(page)
      BY <2>2 DEF NoBlock
    <3> QED BY <3>2, <3>3
  <2>3. CASE page # <<>> /\ b # NoBlock /\ PageHasRoom(page)
    <3>1. outPutQ' = Append(outPutQ, Queued(v, Append(page, b)))
      BY <1>1, <1>2, <2>3 DEF PurgedPages
    <3>2. Append(page, b) \in Page /\ PageBits(Append(page, b)) = moved
      BY <1>2, <2>3, AppendPage
    <3> QED BY <1>2, <3>1, <3>2, AppendQueue
  <2>4. CASE page # <<>> /\ b # NoBlock /\ ~ PageHasRoom(page)
    <3> DEFINE first == Queued(v, page)
               last == Queued(v, <<b>>)
               q == Append(outPutQ, first)
    <3>1. first \in QueueEntry /\ last \in QueueEntry
      BY <1>2, OneBlockPage DEF Queued, QueueEntry
    <3>2. outPutQ' = Append(q, last)
      <4>1. outPutQ' = outPutQ \o <<first, last>>
        BY <1>1, <2>4 DEF PurgedPages
      <4> HIDE DEF first, last
      <4> QED BY <1>2, <3>1, <4>1
    <3>3. Gains(outPutQ, q, PageBits(page))
      BY <1>2, AppendQueue
    <3> HIDE DEF q
    <3>4. Gains(q, outPutQ', b.bits)
      BY <1>2, <3>2, <3>3, OneBlockPage, AppendQueue
    <3>5. moved = PageBits(page) \cup b.bits
      BY <2>4
    <3> HIDE DEF moved, b, page
    <3> QED BY <3>3, <3>4, <3>5
  <2> QED BY <2>1, <2>2, <2>3, <2>4
<1>4. /\ \A w \in Values : w # v => InQueue(w)' = InQueue(w)
      /\ InQueue(v)' = InQueue(v) \cup (IF page = <<>> THEN {} ELSE PageBits(page) \cup b.bits)
      /\ outPutQ' \in Seq(QueueEntry)
  <2>1. InQueue(v)' = InQueue(v) \cup moved
    <3> HIDE DEF moved
    <3> QED BY <1>queue, Bits
  <2> HIDE DEF moved
  <2>2. \A w \in Values : w # v => InQueue(w)' = InQueue(w)
    BY <1>queue, Bits
  <2> QED BY <1>queue, <2>1, <2>2 DEF moved
\* without a page, all rows of v are in its block, and fit it
<1>5. ASSUME page = <<>>
      PROVE  OneBlockRows(v) /\ InIndex(v) \cup InQueue(v) = {}
  <2>1. InIndex(v) \cup InQueue(v) = {}
    BY <1>3, <1>5 DEF MapsHold
  <2>2. \A p \in RowsOf(v) : p \in Nat /\ p < next
    BY <1>1 DEF RowsOf, Rows
  <2>3. b.bits = RowsOf(v)
    <3>1. InMaps(v) = b.bits
      BY <1>3, <1>5, EmptyPage DEF InMaps
    <3> QED BY <1>3, <2>1, <2>2, <3>1 DEF RowsKept
  <2>4. CASE b = NoBlock
    BY <2>1, <2>3, <2>4 DEF NoBlock, OneBlockRows
  <2>5. CASE b # NoBlock
    <3>1. BlockOf(v)
      BY <1>3, <2>5 DEF MapsHold
    <3>2. b.start \in Nat /\ b.end \in Nat /\ Fits(b.start, b.end) /\ RowsOf(v) \subseteq b.start .. b.end
      BY <1>2, <2>3, <3>1 DEF BlockOf, Block
    <3> QED BY <2>1, <3>2, FitsInside DEF OneBlockRows
  <2> QED BY <2>4, <2>5
<1>6. ASSUME page # <<>>
      PROVE  ~ OneBlockRows(v)
  BY <1>3, <1>6 DEF MapsHold
<1>7. ASSUME NEW w \in Values
      PROVE  /\ InIndex(w)' = InIndex(w) /\ RowsOf(w)' = RowsOf(w)
             /\ OneBlockRows(w)' = OneBlockRows(w) /\ BlockOf(w)' = BlockOf(w)
  <2>1. RowsOf(w)' = RowsOf(w) /\ InIndex(w)' = InIndex(w)
    BY <1>1, Bits DEF RowsOf
  <2> QED BY <1>1, <2>1 DEF OneBlockRows, BlockOf
<1>8. RowsKept'
  <2>1. ASSUME NEW w \in Values, w # v
        PROVE  (purging' > w <=> purging > w) /\ InMaps(w)' = InMaps(w)
    <3>1. purging' > w <=> purging > w
      <4>1. w \in Nat /\ v \in Nat
        OBVIOUS
      <4> QED BY <1>1, <2>1, <4>1
    <3> QED BY <1>1, <3>1 DEF InMaps
  <2>2. purging' > v /\ InMaps(v)' = {} /\ InMaps(v) = PageBits(page) \cup b.bits
    BY <1>1, <1>3 DEF InMaps
  <2>3. InIndex(v)' \cup InQueue(v)' =
          IF OneBlockRows(v) THEN {} ELSE {p \in RowsOf(v) : p < next}
    BY <1>3, <1>4, <1>5, <1>6, <1>7, <2>2 DEF RowsKept
  <2>4. ASSUME NEW w \in Values
        PROVE  InIndex(w)' \cup InQueue(w)' \cup InMaps(w)' =
                 IF purging' > w /\ OneBlockRows(w)' THEN {}
                 ELSE {p \in RowsOf(w)' : p < next'}
    <3>1. CASE w = v
      BY <1>1, <1>7, <2>2, <2>3, <3>1
    <3>2. CASE w # v
      BY <1>1, <1>4, <1>7, <2>1, <3>2 DEF RowsKept
    <3> QED BY <3>1, <3>2
  <2> QED BY <2>4 DEF RowsKept
<1>9. ASSUME NEW w \in Values
      PROVE  MapsHold(w)'
  <2>1. CASE w <= v
    BY <1>1, <2>1 DEF MapsHold
  <2>2. CASE w > v
    BY <1>1, <1>4, <1>7, <2>2 DEF MapsHold
  <2> QED BY <1>2, <2>1, <2>2
<1> QED BY <1>4, <1>8, <1>9

LEMMA ClearMapsStep ==
  ASSUME EncodeInv, ClearMaps
  PROVE  RowsKept' /\ \A w \in Values : MapsHold(w)'
<1> USE ValuesAreNaturals DEF EncodeInv
<1>1. purging = K + 1 /\ purging' = K + 1 /\ next' = next /\ column' = column
      /\ outPutQ' = outPutQ /\ index' = index
  BY DEF ClearMaps, placer
<1>2. ASSUME NEW w \in Values
      PROVE  /\ InIndex(w)' = InIndex(w) /\ InQueue(w)' = InQueue(w) /\ RowsOf(w)' = RowsOf(w)
             /\ OneBlockRows(w)' = OneBlockRows(w)
             /\ purging > w /\ purging' > w /\ InMaps(w) = {} /\ InMaps(w)' = {}
  <2>1. InIndex(w)' = InIndex(w) /\ InQueue(w)' = InQueue(w) /\ RowsOf(w)' = RowsOf(w)
    BY <1>1, Bits DEF RowsOf
  <2>2. purging > w /\ purging' > w
    BY <1>1 DEF Values
  <2> QED BY <2>1, <2>2 DEF OneBlockRows, InMaps
<1>3. RowsKept'
  BY <1>1, <1>2 DEF RowsKept
<1>4. \A w \in Values : MapsHold(w)'
  BY <1>1, <1>2 DEF MapsHold, Values
<1> QED BY <1>3, <1>4

LEMMA PlacePageStep ==
  ASSUME EncodeInv, PlacePage
  PROVE  RowsKept' /\ (\A w \in Values : MapsHold(w)')
         /\ index' \in [Values -> Seq(Page)] /\ outPutQ' \in Seq(QueueEntry)
<1> USE ValuesAreNaturals DEF EncodeInv
<1> DEFINE e == Head(outPutQ)
<1>1. outPutQ \in Seq(QueueEntry) /\ outPutQ # <<>> /\ index \in [Values -> Seq(Page)]
  BY DEF PlacePage, EncodeType
<1>2. e \in QueueEntry /\ outPutQ' = Tail(outPutQ) /\ outPutQ' \in Seq(QueueEntry)
  BY <1>1 DEF PlacePage
<1>3. e.val \in Values /\ e.page \in Page
  BY <1>2 DEF QueueEntry
<1>4. index' = [index EXCEPT ![e.val] = Append(@, e.page)]
  BY DEF PlacePage
<1>5. UNCHANGED <<column, phase, next, blockMap, pageMap, purging>>
  BY DEF PlacePage, encoder
<1> HIDE DEF e
<1>6. Append(index[e.val], e.page) \in Seq(Page)
  BY <1>1, <1>3, AppendPages
<1>7. index' \in [Values -> Seq(Page)]
  BY <1>1, <1>4, <1>6
<1>8. ASSUME NEW w \in Values
      PROVE  InIndex(w)' \cup InQueue(w)' = InIndex(w) \cup InQueue(w)
  <2>1. QueueBits(outPutQ, w) =
          QueueBits(outPutQ', w) \cup (IF w = e.val THEN PageBits(e.page) ELSE {})
    BY <1>1, <1>2, HeadOfQueue DEF e
  <2>2. PagesBits(index'[w]) =
          PagesBits(index[w]) \cup (IF w = e.val THEN PageBits(e.page) ELSE {})
    <3>1. CASE w = e.val
      <4>1. index'[w] = Append(index[w], e.page) /\ index[w] \in Seq(Page)
        BY <1>1, <1>4, <3>1
      <4> QED BY <1>3, <3>1, <4>1, AppendPages
    <3>2. CASE w # e.val
      BY <1>1, <1>4, <3>2
    <3> QED BY <3>1, <3>2
  <2> QED BY <2>1, <2>2, Bits
<1>9. ASSUME NEW w \in Values
      PROVE  /\ RowsOf(w)' = RowsOf(w) /\ OneBlockRows(w)' = OneBlockRows(w)
             /\ InMaps(w)' = InMaps(w) /\ BlockOf(w)' = BlockOf(w)
  <2>1. RowsOf(w)' = RowsOf(w)
    BY <1>5 DEF RowsOf
  <2> QED BY <1>5, <2>1 DEF OneBlockRows, InMaps, BlockOf
<1>10. RowsKept'
  BY <1>5, <1>8, <1>9 DEF RowsKept
<1>11. ASSUME NEW w \in Values
       PROVE  MapsHold(w)'
  BY <1>5, <1>8, <1>9 DEF MapsHold
<1> QED BY <1>2, <1>7, <1>10, <1>11

----------------------------------------------------------------------------

LEMMA EncodeTypeStep ==
  ASSUME EncodeInv, [Next]_vars
  PROVE  EncodeType' /\ PurgePhase'
<1> USE ValuesAreNaturals DEF EncodeInv, EncodeType, PurgePhase, Phases
<1>1. CASE AddToNewBlock
  BY <1>1, NextValue DEF AddToNewBlock, TakeValue, NextFitsPage
<1>2. CASE AddToItsBlock
  <2>1. PICK v \in Values : v = column[next]
    BY <1>2, NextValue DEF AddToItsBlock
  <2>2. SetPosition(blockMap[v], next) \in Block
    BY <1>2, <2>1, AddToItsBlockStep
  <2> QED BY <1>2, <2>1, <2>2 DEF AddToItsBlock, TakeValue, NextFitsPage
<1>3. CASE FullBlock
  <2>1. PICK v \in Values : v = column[next]
    BY <1>3, NextValue DEF FullBlock
  <2>2. pageMap' \in [Values -> Page] /\ outPutQ' \in Seq(QueueEntry)
    BY <1>3, <2>1, FullBlockStep
  <2>3. blockMap' \in [Values -> Block]
    BY <1>3, NextValue DEF FullBlock
  <2> QED BY <1>3, <2>2, <2>3 DEF FullBlock, TakeValue, NextFitsPage
<1>4. CASE PageFull
  BY <1>4 DEF PageFull, placer
<1>5. CASE SourceDry
  BY <1>5 DEF SourceDry, placer
<1>6. CASE PurgeValue
  <2>1. purging \in Values
    BY <1>6 DEF PurgeValue, Values
  <2>2. PICK v \in Values : v = purging
    BY <2>1
  <2>3. outPutQ' \in Seq(QueueEntry)
    BY <1>6, <2>2, PurgeValueStep
  <2> QED BY <1>6, <2>1, <2>3 DEF PurgeValue
<1>7. CASE ClearMaps
  BY <1>7, EmptyPage DEF ClearMaps, placer
<1>8. CASE PlacePage
  BY <1>8, PlacePageStep DEF PlacePage, encoder
<1>9. CASE Drained
  BY <1>9 DEF Drained, encoder, placer
<1>10. CASE FetchPage
  BY <1>10 DEF FetchPage, encoder, placer
<1>11. CASE CheckOutBlock
  BY <1>11 DEF CheckOutBlock, encoder, placer
<1>12. CASE AddOperand
  BY <1>12 DEF AddOperand, encoder, placer
<1>13. CASE NoMorePages
  BY <1>13 DEF NoMorePages, encoder, placer
<1>14. CASE ReadError
  BY <1>14 DEF ReadError, encoder, placer
<1>15. ASSUME NEW read \in BOOLEAN, NewScan(read)
       PROVE  EncodeType' /\ PurgePhase'
  BY <1>15 DEF NewScan, encoder, placer
<1>16. CASE UNCHANGED vars
  BY <1>16 DEF vars, encoder, placer
<1> QED BY <1>1, <1>2, <1>3, <1>4, <1>5, <1>6, <1>7, <1>8, <1>9, <1>10, <1>11, <1>12,
           <1>13, <1>14, <1>15, <1>16 DEF Next, Encode, Scan

LEMMA EncodeStep == EncodeInv /\ [Next]_vars => EncodeInv'
<1> SUFFICES ASSUME EncodeInv, [Next]_vars PROVE RowsKept' /\ \A w \in Values : MapsHold(w)'
  BY EncodeTypeStep DEF EncodeInv
<1> USE ValuesAreNaturals
<1>1. CASE AddToNewBlock \/ AddToItsBlock \/ FullBlock
  <2>1. PICK v \in Values : v = column[next]
    BY <1>1, NextValue DEF AddToNewBlock, AddToItsBlock, FullBlock
  <2> QED BY <1>1, <2>1, AddToNewBlockStep, AddToItsBlockStep, FullBlockStep
<1>2. CASE PurgeValue
  <2>1. PICK v \in Values : v = purging
    BY <1>2 DEF PurgeValue, Values, EncodeInv, PurgePhase, EncodeType
  <2> QED BY <1>2, <2>1, PurgeValueStep
<1>3. CASE ClearMaps
  BY <1>3, ClearMapsStep
<1>4. CASE PlacePage
  BY <1>4, PlacePageStep
<1>5. CASE /\ UNCHANGED <<column, next, blockMap, pageMap, placer>>
           /\ purging' = purging \/ (purging = 0 /\ purging' = 1)
  <2>1. purging \in Nat /\ purging' \in Nat
    BY <1>5 DEF EncodeInv, EncodeType
  <2>2. \A w \in Values : purging' > w <=> purging > w
    BY <1>5 DEF Values
  <2> QED BY <1>5, <2>1, <2>2, NothingMoves
<1>6. ASSUME PageFull \/ SourceDry \/ Drained \/ Scan \/ (\E read \in BOOLEAN : NewScan(read))
             \/ UNCHANGED vars
      PROVE  /\ UNCHANGED <<column, next, blockMap, pageMap, placer>>
             /\ purging' = purging \/ (purging = 0 /\ purging' = 1)
  <2>1. CASE SourceDry
    <3>1. purging = 0
      BY <2>1 DEF SourceDry, EncodeInv, PurgePhase
    <3> QED BY <2>1, <3>1 DEF SourceDry
  <2>2. CASE PageFull \/ Drained
    BY <2>2 DEF PageFull, Drained, encoder
  <2>3. CASE Scan
    BY <2>3 DEF Scan, FetchPage, CheckOutBlock, AddOperand, NoMorePages, ReadError, encoder
  <2>4. CASE (\E read \in BOOLEAN : NewScan(read)) \/ UNCHANGED vars
    BY <2>4 DEF NewScan, vars, encoder
  <2> QED BY <1>6, <2>1, <2>2, <2>3, <2>4
<1> QED BY <1>1, <1>2, <1>3, <1>4, <1>5, <1>6 DEF Next, Encode

LEMMA EncodeInvariant == Spec => []EncodeInv
BY EncodeInit, EncodeStep, PTL DEF Spec

\* However the rows of the values are spread over blocks, pages and drains, none
\* is lost or moved to another value before the purge, and the purge loses just
\* the values that fit one block (BitmapEncoder.cpp:45-143).
THEOREM NoRowLost == Spec => []RowsKept
<1>1. EncodeInv => RowsKept
  BY DEF EncodeInv
<1> QED BY <1>1, EncodeInvariant, PTL

----------------------------------------------------------------------------
(* Reading the index *)

\* A filter blocks can be checked out to.
Growing(f) == FilterOK(f) /\ (f.currBlockNum = 0 \/ f.currBlockNum < Len(f.blocks))

ScanType ==
  /\ pred \in Preds /\ rhs \in Values
  /\ cursor \in Entries \cup {Unset} /\ firstCall \in BOOLEAN /\ leadingOr \in BOOLEAN
  /\ blockArray \in Page /\ Growing(multiPosBlock) /\ operands \in Seq(Filter)
  /\ scans \in 1 .. MaxScans \cup {1}

\* The rows of the values that have a page.
Kept == {p \in Rows : ~ OneBlockRows(column[p])}

\* All that has been read are rows of these values ...
ReadsRows ==
  /\ PageBits(blockArray) \cup PositionsOf(multiPosBlock) \subseteq Kept
  /\ \A k \in 1 .. Len(operands) : PositionsOf(operands[k]) \subseteq Kept
  /\ matched \subseteq Kept

\* ... and rows that match, unless the condition began with '|'.  Otherwise the
\* scan began with firstCall up, so that its cursor stands on a match.
ReadsMatching ==
  /\ operands # <<>> => ~ firstCall
  /\ ~ leadingOr =>
       /\ phase = "decode" => PageBits(blockArray) \cup PositionsOf(multiPosBlock) \subseteq Matching
       /\ \A k \in 1 .. Len(operands) : PositionsOf(operands[k]) \subseteq Matching
       /\ (phase = "decode" \/ operands # <<>>) /\ pred \in {"GT", "GE", "EQ"} =>
            cursor # Unset /\ Satisfies(cursor.val)
  /\ matched \subseteq Matching

ScanInv == ScanType /\ ReadsRows /\ ReadsMatching

LEMMA CheckedOut ==
  ASSUME NEW f, Growing(f), NEW b \in Block
  PROVE  /\ Growing(AddPosFilterBlock(f, b))
         /\ PositionsOf(AddPosFilterBlock(f, b)) = PositionsOf(f) \cup b.bits
<1> DEFINE g == AddPosFilterBlock(f, b)
           n == Len(f.blocks)
<1>1. /\ f \in Filter /\ f.blocks \in Seq(Block) /\ n \in Nat /\ f.currBlockNum \in Nat
      /\ f.startPos \in Nat /\ f.endPos \in Nat
      /\ f.blocks = <<>> => f.startPos = 0
      /\ n # 0 => f.blocks # <<>>
      /\ n = 0 => f.blocks = <<>>
  BY FilterFields DEF Growing, FilterOK
<1>2. f.startPos = 0 \/ f.currBlockNum < n
  BY <1>1 DEF Growing
<1>3. FilterOK(g) /\ PositionsOf(g) = PositionsOf(f) \cup b.bits
  BY <1>2, AddPosFilterBlockProperties DEF Growing
<1>4. g.currBlockNum = 0 \/ g.currBlockNum < Len(g.blocks)
  <2>1. CASE f.startPos = 0 \/ b.end < f.startPos \/ b.start > f.endPos
    <3>1. /\ g.currBlockNum = f.currBlockNum
          /\ g.blocks = Append(f.blocks, b) \/ g.blocks = <<b>> \o f.blocks
      BY <1>1, <2>1 DEF AddPosFilterBlock, Filter
    <3>2. Len(g.blocks) = n + 1
      BY <1>1, <3>1
    <3> QED BY <1>1, <3>1, <3>2 DEF Growing
  <2>2. CASE ~ (f.startPos = 0 \/ b.end < f.startPos \/ b.start > f.endPos)
    <3> DEFINE k == InsertionPoint(f, b)
    <3>1. k \in 0 .. n - 1
      BY <1>1, <1>2, <2>2, InsertionPointRange
    <3> HIDE DEF k
    <3>2. g = [f EXCEPT !.currBlockNum = k, !.blocks = InsertBlock(@, k + 1, b)]
      BY <2>2 DEF AddPosFilterBlock, k
    <3>3. g.currBlockNum = k /\ g.blocks = InsertBlock(f.blocks, k + 1, b)
      BY <1>1, <3>2 DEF Filter
    <3>4. Len(g.blocks) = n + 1
      <4>1. k + 1 \in 0 .. Len(f.blocks)
        BY <1>1, <3>1
      <4>2. Len(InsertBlock(f.blocks, k + 1, b)) = Len(f.blocks) + 1
        BY <1>1, <4>1, InsertBlockProperties
      <4> QED BY <3>3, <4>2
    <3> QED BY <1>1, <3>1, <3>3, <3>4
  <2> QED BY <2>1, <2>2
<1> QED BY <1>3, <1>4 DEF Growing

LEMMA EmptyGrows == Growing(EmptyFilter) /\ PositionsOf(EmptyFilter) = {}
BY EmptyFilterOK DEF Growing, EmptyFilter

LEMMA IndexedEntries ==
  ASSUME EncodeType
  PROVE  /\ Indexed \subseteq Entries
         /\ \A e \in Indexed : e.val \in Values /\ e.page \in 1 .. Len(index[e.val])
         /\ \A v \in Values : \A i \in 1 .. Len(index[v]) : [val |-> v, page |-> i] \in Indexed
<1>1. \A v \in Values : Len(index[v]) \in Nat
  BY DEF EncodeType
<1> QED BY <1>1 DEF Indexed, Entries

LEMMA HeadBlock ==
  ASSUME NEW page \in Page, page # <<>>
  PROVE  /\ Head(page) \in Block /\ Tail(page) \in Page
         /\ PageBits(page) = Head(page).bits \cup PageBits(Tail(page))
<1> DEFINE t == Tail(page)
<1>1. /\ Len(page) \in Nat /\ Len(page) > 0 /\ Len(t) = Len(page) - 1 /\ Head(page) = page[1]
      /\ \A k \in 1 .. Len(page) - 1 : t[k] = page[k + 1]
      /\ t \in Page /\ page[1] \in Block
  BY DEF Page
<1> HIDE DEF t
<1>2. ASSUME NEW x \in PageBits(page)
      PROVE  x \in page[1].bits \cup PageBits(t)
  <2>1. PICK k \in 1 .. Len(page) : x \in page[k].bits
    BY DEF PageBits
  <2>2. CASE k = 1
    BY <2>1, <2>2
  <2>3. CASE k > 1
    <3>1. k - 1 \in 1 .. Len(t) /\ t[k - 1] = page[k]
      BY <1>1, <2>1, <2>3
    <3> QED BY <2>1, <3>1 DEF PageBits
  <2> QED BY <2>1, <2>2, <2>3
<1>3. ASSUME NEW x \in PageBits(t)
      PROVE  x \in PageBits(page)
  <2>1. PICK k \in 1 .. Len(t) : x \in t[k].bits
    BY DEF PageBits
  <2>2. k + 1 \in 1 .. Len(page) /\ t[k] = page[k + 1]
    BY <1>1, <2>1
  <2> QED BY <2>1, <2>2 DEF PageBits
<1>4. page[1].bits \subseteq PageBits(page)
  BY <1>1 DEF PageBits
<1> QED BY <1>1, <1>2, <1>3, <1>4 DEF t

\* What the cursor reads are entries of the index, which hold rows of their value.
LEMMA ReadsAreEntries ==
  ASSUME EncodeInv, ScanType
  PROVE  /\ Returns \subseteq Reads /\ Reads \subseteq Entries
         /\ \A e \in Reads :
              /\ e.val \in Values /\ e.page \in 1 .. Len(index[e.val])
              /\ index[e.val][e.page] \in Page
              /\ PageBits(index[e.val][e.page]) \subseteq RowsOf(e.val)
              /\ phase = "scan" => PageBits(index[e.val][e.page]) \subseteq Kept
<1> USE ValuesAreNaturals
<1>1. Returns \subseteq Reads
  BY DEF Returns
<1>2. Reads \subseteq Indexed /\ Indexed \subseteq Entries
  BY IndexedEntries DEF EncodeInv, Reads, DbSet, DbSetRange, DbFirst, DbNext, DbNextDup, FirstOf
<1>3. ASSUME NEW e \in Indexed
      PROVE  e.val \in Values /\ e.page \in 1 .. Len(index[e.val])
  <2>1. PICK v \in Values : \E i \in 1 .. Len(index[v]) : e = [val |-> v, page |-> i]
    BY DEF Indexed
  <2> QED BY <2>1
<1>4. ASSUME NEW e \in Indexed
      PROVE  /\ index[e.val][e.page] \in Page
             /\ PageBits(index[e.val][e.page]) \subseteq RowsOf(e.val)
  <2>1. index[e.val] \in Seq(Page)
    BY <1>3 DEF EncodeInv, EncodeType
  <2>2. PageBits(index[e.val][e.page]) \subseteq InIndex(e.val)
    BY <1>3 DEF InIndex
  <2>3. InIndex(e.val) \subseteq RowsOf(e.val)
    BY <1>3 DEF EncodeInv, RowsKept
  <2> QED BY <1>3, <2>1, <2>2, <2>3
<1>5. ASSUME NEW e \in Indexed, phase = "scan"
      PROVE  PageBits(index[e.val][e.page]) \subseteq Kept
  <2>1. PageBits(index[e.val][e.page]) \subseteq InIndex(e.val)
    BY <1>3 DEF InIndex
  <2>2. purging > e.val
    BY <1>3, <1>5 DEF EncodeInv, PurgePhase, Values
  <2>3. InIndex(e.val) \subseteq IF OneBlockRows(e.val) THEN {} ELSE RowsOf(e.val)
    BY <1>3, <2>2 DEF EncodeInv, RowsKept
  <2> QED BY <2>1, <2>3 DEF Kept, RowsOf
<1> QED BY <1>1, <1>2, <1>3, <1>4, <1>5

\* On a fresh cursor, or behind an entry that matches, the entries returned match;
\* in an open range or for one value, so do those that are read.
LEMMA ReadsMatch ==
  ASSUME EncodeInv, ScanType,
         ~ firstCall /\ pred \in {"GT", "GE", "EQ"} => cursor # Unset /\ Satisfies(cursor.val)
  PROVE  /\ \A e \in Returns : Satisfies(e.val)
         /\ pred \in {"GT", "GE", "EQ"} => \A e \in Reads : Satisfies(e.val)
<1> USE ValuesAreNaturals
<1>1. rhs \in Nat /\ \A e \in Reads : e.val \in Nat
  BY ReadsAreEntries DEF ScanType
<1>2. cursor # Unset => cursor.val \in Nat
  BY DEF ScanType, Entries
<1>3. CASE pred \in {"LT", "LE"}
  BY <1>1, <1>3 DEF Returns, Satisfies, SmallestLarger
<1>4. CASE pred = "GT"
  <2>1. \A e \in Reads : e.val > rhs
    <3>1. CASE firstCall
      <4>1. \A e \in Reads : e.val >= rhs + 1
        BY <1>4, <3>1 DEF Reads, DbSetRange, FirstOf, SmallestLarger
      <4> QED BY <1>1, <4>1
    <3>2. CASE ~ firstCall
      <4>1. cursor # Unset /\ cursor.val > rhs
        BY <1>4, <3>2 DEF Satisfies
      <4>2. \A e \in Reads : Before(cursor, e)
        BY <1>4, <3>2, <4>1 DEF Reads, DbNext, FirstOf
      <4> QED BY <1>1, <1>2, <4>1, <4>2 DEF Before
    <3> QED BY <3>1, <3>2
  <2> QED BY <1>4, <2>1 DEF Satisfies, Returns
<1>5. CASE pred = "GE"
  <2>1. \A e \in Reads : e.val >= rhs
    <3>1. CASE firstCall
      BY <1>5, <3>1 DEF Reads, DbSetRange, FirstOf
    <3>2. CASE ~ firstCall
      <4>1. cursor # Unset /\ cursor.val >= rhs
        BY <1>5, <3>2 DEF Satisfies
      <4>2. \A e \in Reads : Before(cursor, e)
        BY <1>5, <3>2, <4>1 DEF Reads, DbNext, FirstOf
      <4> QED BY <1>1, <1>2, <4>1, <4>2 DEF Before
    <3> QED BY <3>1, <3>2
  <2> QED BY <1>5, <2>1 DEF Satisfies, Returns
<1>6. CASE pred = "EQ"
  <2>1. \A e \in Reads : e.val = rhs
    <3>1. CASE firstCall
      BY <1>6, <3>1 DEF Reads, DbSet, FirstOf
    <3>2. CASE ~ firstCall
      <4>1. cursor # Unset /\ cursor.val = rhs
        BY <1>6, <3>2 DEF Satisfies
      <4> QED BY <1>6, <3>2, <4>1 DEF Reads, DbNextDup, FirstOf
    <3> QED BY <3>1, <3>2
  <2> QED BY <1>6, <2>1 DEF Satisfies, Returns
<1> QED BY <1>3, <1>4, <1>5, <1>6 DEF ScanType, Preds

LEMMA RowsOfMatchingValue ==
  ASSUME NEW v \in Values
  PROVE  RowsOf(v) \subseteq Rows /\ (Satisfies(v) => RowsOf(v) \subseteq Matching)
BY DEF RowsOf, Matching

LEMMA ScanInit == Init => ScanInv
<1> SUFFICES ASSUME Init PROVE ScanInv
  OBVIOUS
<1>1. /\ PageBits(<<>>) = {} /\ PositionsOf(EmptyFilter) = {} /\ 1 .. Len(<<>>) = {}
      /\ <<>> \in Page /\ <<>> \in Seq(Filter) /\ Growing(EmptyFilter)
  BY EmptyPage, EmptyGrows
<1>2. ScanType
  BY <1>1 DEF Init, ScanType
<1>3. ReadsRows
  BY <1>1 DEF Init, ReadsRows
<1>4. ReadsMatching
  BY <1>1 DEF Init, ReadsMatching
<1> QED BY <1>2, <1>3, <1>4 DEF ScanInv

LEMMA FetchPageStep ==
  ASSUME EncodeInv, ScanInv, FetchPage
  PROVE  ScanInv'
<1> USE ValuesAreNaturals DEF ScanInv
<1>1. PICK e \in Returns : blockArray' = index[e.val][e.page]
  BY DEF FetchPage
<1>2. /\ e \in Reads /\ cursor' \in Reads /\ Reads \subseteq Entries /\ e.val \in Values
      /\ index[e.val][e.page] \in Page /\ PageBits(index[e.val][e.page]) \subseteq RowsOf(e.val)
      /\ PageBits(index[e.val][e.page]) \subseteq Kept
  BY <1>1, ReadsAreEntries DEF FetchPage
<1>3. /\ multiPosBlock' = EmptyFilter /\ leadingOr' = (leadingOr \/ (operands = <<>> /\ ~ firstCall))
      /\ phase = "scan" /\ phase' = "decode"
      /\ UNCHANGED <<column, pred, rhs, firstCall, operands, matched, scans>>
  BY DEF FetchPage, BeginsWithOr
<1>4. Growing(EmptyFilter) /\ PositionsOf(EmptyFilter) = {}
  BY EmptyGrows
<1>5. ScanType'
  BY <1>1, <1>2, <1>3, <1>4 DEF ScanType
<1>6. ReadsRows'
  <2>1. Kept' = Kept
    BY <1>3 DEF Kept, OneBlockRows, RowsOf
  <2> QED BY <1>1, <1>2, <1>3, <1>4, <2>1 DEF ReadsRows
<1>7. ReadsMatching'
  <2>1. Matching' = Matching /\ \A v : Satisfies(v)' = Satisfies(v)
    BY <1>3 DEF Matching, Satisfies
  <2>2. CASE leadingOr'
    BY <1>3, <2>1, <2>2 DEF ReadsMatching
  <2>3. CASE ~ leadingOr'
    <3>1. ~ firstCall /\ pred \in {"GT", "GE", "EQ"} => cursor # Unset /\ Satisfies(cursor.val)
      BY <1>3, <2>3 DEF ReadsMatching
    <3>2. /\ Satisfies(e.val)
          /\ pred \in {"GT", "GE", "EQ"} => Satisfies(cursor'.val)
      BY <1>1, <1>2, <3>1, ReadsMatch
    <3>3. PageBits(blockArray') \subseteq Matching
      BY <1>1, <1>2, <3>2, RowsOfMatchingValue
    <3>4. cursor' # Unset
      BY <1>2 DEF Entries, Unset, Values
    <3>5. pred \in {"GT", "GE", "EQ"} => Satisfies(cursor.val)'
      BY <1>3, <3>2 DEF Satisfies
    <3> QED BY <1>3, <1>4, <2>1, <2>3, <3>3, <3>4, <3>5 DEF ReadsMatching
  <2> QED BY <2>2, <2>3
<1> QED BY <1>5, <1>6, <1>7

LEMMA CheckOutBlockStep ==
  ASSUME ScanInv, CheckOutBlock
  PROVE  ScanInv'
<1> USE DEF ScanInv
<1> DEFINE f == multiPosBlock
           b == Head(blockArray)
           g == AddPosFilterBlock(f, b)
<1>1. /\ phase = "decode" /\ blockArray # <<>> /\ multiPosBlock' = g /\ blockArray' = Tail(blockArray)
      /\ UNCHANGED <<column, phase, pred, rhs, cursor, firstCall, operands, leadingOr, matched, scans>>
  BY DEF CheckOutBlock
<1>2. /\ b \in Block /\ Tail(blockArray) \in Page
      /\ PageBits(blockArray) = b.bits \cup PageBits(Tail(blockArray))
  BY <1>1, HeadBlock DEF ScanType
<1>3. Growing(g) /\ PositionsOf(g) = PositionsOf(f) \cup b.bits
  BY <1>2, CheckedOut DEF ScanType
<1>4. PageBits(blockArray') \cup PositionsOf(multiPosBlock') = PageBits(blockArray) \cup PositionsOf(f)
  BY <1>1, <1>2, <1>3
<1> HIDE DEF f, b, g
<1>5. ScanType'
  BY <1>1, <1>2, <1>3 DEF ScanType
<1>6. ReadsRows'
  <2>1. Kept' = Kept
    BY <1>1 DEF Kept, OneBlockRows, RowsOf
  <2> QED BY <1>1, <1>4, <2>1 DEF ReadsRows, f
<1>7. ReadsMatching'
  <2>1. Matching' = Matching /\ Satisfies(cursor.val)' = Satisfies(cursor.val)
    BY <1>1 DEF Matching, Satisfies
  <2> QED BY <1>1, <1>4, <2>1 DEF ReadsMatching, f
<1> QED BY <1>5, <1>6, <1>7

LEMMA AddOperandStep ==
  ASSUME ScanInv, AddOperand
  PROVE  ScanInv'
<1> USE DEF ScanInv
<1>1. /\ phase = "decode" /\ operands' = Append(operands, multiPosBlock) /\ ~ firstCall'
      /\ phase' = "scan" /\ firstCall' \in BOOLEAN
      /\ UNCHANGED <<column, pred, rhs, cursor, blockArray, multiPosBlock, leadingOr, matched, scans>>
  BY DEF AddOperand
<1>2. multiPosBlock \in Filter /\ operands \in Seq(Filter)
  BY DEF ScanType, Growing, FilterOK
<1>3. /\ operands' \in Seq(Filter)
      /\ \A k \in 1 .. Len(operands') :
           operands'[k] = multiPosBlock \/ \E j \in 1 .. Len(operands) : operands'[k] = operands[j]
  <2>1. Len(operands') = Len(operands) + 1 /\ Len(operands) \in Nat
        /\ operands'[Len(operands) + 1] = multiPosBlock
        /\ \A k \in 1 .. Len(operands) : operands'[k] = operands[k]
    BY <1>1, <1>2
  <2> QED BY <1>1, <1>2, <2>1
<1>4. ScanType'
  BY <1>1, <1>3 DEF ScanType, Growing
<1>5. ReadsRows'
  <2>1. Kept' = Kept
    BY <1>1 DEF Kept, OneBlockRows, RowsOf
  <2> QED BY <1>1, <1>3, <2>1 DEF ReadsRows
<1>6. ReadsMatching'
  <2>1. Matching' = Matching /\ Satisfies(cursor.val)' = Satisfies(cursor.val)
    BY <1>1 DEF Matching, Satisfies
  <2> QED BY <1>1, <1>3, <2>1 DEF ReadsMatching
<1> QED BY <1>4, <1>5, <1>6

LEMMA NoMorePagesStep ==
  ASSUME EncodeInv, ScanInv, NoMorePages
  PROVE  ScanInv'
<1> USE DEF ScanInv
<1>1. /\ phase = "scan" /\ phase' = "done" /\ Returns = {}
      /\ matched' = IF leadingOr THEN {}
                    ELSE UNION {PositionsOf(operands[k]) : k \in 1 .. Len(operands)}
      /\ cursor' = cursor \/ cursor' \in Reads
      /\ UNCHANGED <<column, pred, rhs, firstCall, blockArray, multiPosBlock, operands, leadingOr, scans>>
  BY DEF NoMorePages
<1>2. ScanType'
  BY <1>1, ReadsAreEntries DEF ScanType
<1>3. ReadsRows'
  <2>1. Kept' = Kept
    BY <1>1 DEF Kept, OneBlockRows, RowsOf
  <2> QED BY <1>1, <2>1 DEF ReadsRows
<1>4. ReadsMatching'
  <2>1. Matching' = Matching /\ \A v : Satisfies(v)' = Satisfies(v)
    BY <1>1 DEF Matching, Satisfies
  <2>2. pred \in {"GT", "GE", "EQ"} => cursor' = cursor
    BY <1>1 DEF Returns
  <2>3. matched' \subseteq Matching
    BY <1>1 DEF ReadsMatching
  <2>4. pred \in {"GT", "GE", "EQ"} => Satisfies(cursor.val)' = Satisfies(cursor.val)
    BY <1>1, <2>2 DEF Satisfies
  <2> QED BY <1>1, <2>1, <2>2, <2>3, <2>4 DEF ReadsMatching
<1> QED BY <1>2, <1>3, <1>4

LEMMA NewScanStep ==
  ASSUME ScanInv, NEW read \in BOOLEAN, NewScan(read)
  PROVE  ScanInv'
<1> USE DEF ScanInv
<1>1. /\ phase' = "scan" /\ operands' = <<>> /\ leadingOr' = FALSE /\ matched' = {}
      /\ pred' \in Preds /\ rhs' \in Values /\ cursor' \in {Unset, cursor}
      /\ scans < MaxScans /\ scans' = scans + 1
      /\ UNCHANGED <<column, firstCall, blockArray, multiPosBlock>>
  BY DEF NewScan
<1>2. <<>> \in Seq(Filter) /\ 1 .. Len(<<>>) = {}
  OBVIOUS
<1>3. scans' \in 1 .. MaxScans
  BY <1>1, ColumnAssumption DEF ScanType
<1>4. ScanType'
  BY <1>1, <1>2, <1>3 DEF ScanType, Growing
<1>5. ReadsRows'
  <2>1. Kept' = Kept
    BY <1>1 DEF Kept, OneBlockRows, RowsOf
  <2> QED BY <1>1, <1>2, <2>1 DEF ReadsRows
<1>6. ReadsMatching'
  BY <1>1, <1>2 DEF ReadsMatching
<1> QED BY <1>4, <1>5, <1>6

\* The rest leaves the scan alone; before the first one, and between two, phases
\* change, but not from or to the decoding of a page.
LEMMA OtherSteps ==
  ASSUME ScanInv, UNCHANGED <<column, source>>, phase' = phase \/ phase' # "decode"
  PROVE  ScanInv'
<1> USE DEF ScanInv, source
<1>1. ScanType'
  BY DEF ScanType, Growing
<1>2. ReadsRows'
  <2>1. Kept' = Kept
    BY DEF Kept, OneBlockRows, RowsOf
  <2> QED BY <2>1 DEF ReadsRows
<1>3. Matching' = Matching /\ Satisfies(cursor.val)' = Satisfies(cursor.val)
  BY DEF Matching, Satisfies
<1>4. ReadsMatching'
  BY <1>3 DEF ReadsMatching
<1> QED BY <1>1, <1>2, <1>4

LEMMA ScanStep == EncodeInv /\ ScanInv /\ [Next]_vars => ScanInv'
<1> SUFFICES ASSUME EncodeInv, ScanInv, [Next]_vars PROVE ScanInv'
  OBVIOUS
<1>1. CASE FetchPage
  BY <1>1, FetchPageStep
<1>2. CASE CheckOutBlock
  BY <1>2, CheckOutBlockStep
<1>3. CASE AddOperand
  BY <1>3, AddOperandStep
<1>4. CASE NoMorePages
  BY <1>4, NoMorePagesStep
<1>5. ASSUME NEW read \in BOOLEAN, NewScan(read) PROVE ScanInv'
  BY <1>5, NewScanStep
<1>6. CASE Encode
  <2>1. UNCHANGED <<column, source>> /\ (phase' = phase \/ phase' # "decode")
    BY <1>6 DEF Encode, AddToNewBlock, AddToItsBlock, FullBlock, TakeValue, PageFull,
                SourceDry, PurgeValue, ClearMaps, PlacePage, Drained
  <2> QED BY <2>1, OtherSteps
<1>7. CASE ReadError
  BY <1>7, OtherSteps DEF ReadError
<1>8. CASE UNCHANGED vars
  BY <1>8, OtherSteps DEF vars
<1> QED BY <1>1, <1>2, <1>3, <1>4, <1>5, <1>6, <1>7, <1>8 DEF Next, Scan

LEMMA Invariant == Spec => [](EncodeInv /\ ScanInv)
BY EncodeInit, EncodeStep, ScanInit, ScanStep, PTL DEF Spec

\* The types of all variables.
THEOREM TypeCorrect == Spec => []TypeOK
<1>1. EncodeInv /\ ScanInv => TypeOK
  BY DEF EncodeInv, EncodeType, ScanInv, ScanType, ReadsRows, Kept, TypeOK, Growing, FilterOK, QueueEntry
<1> QED BY <1>1, Invariant, PTL

\* No scan returns a row that does not match, the first one or a later one, from
\* whatever entry its cursor starts (BitmapDataSource.cpp:46-121).
THEOREM ScanSoundness == Spec => []ScanSound
<1>1. ScanInv => ScanSound
  BY DEF ScanInv, ReadsMatching, ScanSound
<1> QED BY <1>1, Invariant, PTL

----------------------------------------------------------------------------
(* The first scan is complete *)

\* The entries the cursor has passed, and what has been handed over.
Passed(d) == cursor # Unset /\ (d = cursor \/ Before(d, cursor))
Given == UNION {PositionsOf(operands[k]) : k \in 1 .. Len(operands)}
Decoded == PageBits(blockArray) \cup PositionsOf(multiPosBlock)

\* Every matching entry the cursor has passed is in an operand or being decoded.
FirstScan ==
  scans = 1 =>
    /\ ~ leadingOr
    /\ phase \in {"encode", "purge", "drain"} => firstCall
    /\ ~ firstCall => operands # <<>>
    /\ firstCall /\ phase \notin {"decode", "done"} => cursor = Unset
    /\ phase \in {"scan", "decode"} =>
         \A d \in Indexed : Satisfies(d.val) /\ Passed(d) =>
           PageBits(index[d.val][d.page]) \subseteq
             Given \cup (IF phase = "decode" THEN Decoded ELSE {})
    /\ phase = "done" => Matching \cap Kept \subseteq matched

LEMMA EntryOrder ==
  /\ \A d \in Entries : d.val \in Nat /\ d.page \in Nat /\ ~ Before(d, d)
  /\ \A c, d \in Entries : c = d \/ Before(c, d) \/ Before(d, c)
  /\ \A c, d \in Entries : ~ (Before(c, d) /\ Before(d, c))
<1>1. \A d \in Entries : d.val \in Values /\ d.page \in Nat \ {0}
  BY DEF Entries
<1>2. \A d \in Entries : d.val \in Nat /\ d.page \in Nat
  BY <1>1, ValuesAreNaturals
<1>3. \A c, d \in Entries : c.val = d.val /\ c.page = d.page => c = d
  BY DEF Entries
<1> QED BY <1>2, <1>3 DEF Before

LEMMA FirstEntryExists ==
  ASSUME NEW S \in SUBSET Entries, S # {}
  PROVE  FirstOf(S) # {}
<1> DEFINE V == {d.val : d \in S}
<1>1. V \in SUBSET Nat /\ V # {}
  BY EntryOrder
<1>2. PICK v \in V : \A w \in V : v <= w
  BY <1>1, LeastExists
<1> DEFINE P == {d.page : d \in {c \in S : c.val = v}}
<1>3. P \in SUBSET Nat /\ P # {}
  BY EntryOrder
<1>4. PICK i \in P : \A j \in P : i <= j
  BY <1>3, LeastExists
<1>5. PICK e \in S : e.val = v /\ e.page = i
  OBVIOUS
<1>6. ASSUME NEW d \in S
      PROVE  d = e \/ Before(e, d)
  <2>1. ~ Before(d, e)
    <3>1. v <= d.val /\ (d.val = v => i <= d.page)
      BY <1>2, <1>4
    <3>2. d.val \in Nat /\ d.page \in Nat /\ v \in Nat /\ i \in Nat
      BY <1>5, EntryOrder
    <3> QED BY <1>5, <3>1, <3>2 DEF Before
  <2> QED BY <2>1, <1>5, EntryOrder
<1>7. e \in FirstOf(S)
  BY <1>5, <1>6 DEF FirstOf
<1> QED BY <1>7

\* The cursor call looks for the first of a set of entries that holds every
\* matching one ahead.
LEMMA ReadsTheFirstAhead ==
  ASSUME EncodeInv, ScanInv, FirstScan, scans = 1, phase = "scan"
  PROVE  \E S \in SUBSET Indexed :
           /\ Reads = FirstOf(S)
           /\ \A d \in Indexed : Satisfies(d.val) /\ ~ Passed(d) => d \in S
<1> USE ValuesAreNaturals
<1>1. /\ Indexed \subseteq Entries /\ rhs \in Nat
      /\ cursor # Unset => cursor \in Entries
      /\ firstCall => cursor = Unset
      /\ \A d \in Indexed : d.val \in Nat
  BY EntryOrder, IndexedEntries DEF EncodeInv, ScanInv, ScanType, FirstScan
<1>2. \A d \in Indexed : ~ Passed(d) => cursor = Unset \/ Before(cursor, d)
  BY <1>1, EntryOrder DEF Passed
<1>3. CASE firstCall /\ pred = "GT"
  <2>1. \A d \in Indexed : Satisfies(d.val) => d.val >= rhs + 1
    BY <1>1, <1>3 DEF Satisfies
  <2> QED BY <1>3, <2>1 DEF Reads, DbSetRange, SmallestLarger
<1>4. CASE firstCall /\ pred = "GE"
  <2>1. \A d \in Indexed : Satisfies(d.val) => d.val >= rhs
    BY <1>4 DEF Satisfies
  <2> QED BY <1>4, <2>1 DEF Reads, DbSetRange
<1>5. CASE firstCall /\ pred = "EQ"
  <2>1. \A d \in Indexed : Satisfies(d.val) => d.val = rhs
    BY <1>5 DEF Satisfies
  <2> QED BY <1>5, <2>1 DEF Reads, DbSet
<1>6. CASE firstCall /\ pred \in {"LT", "LE"}
  BY <1>6 DEF Reads, DbFirst
<1>7. CASE ~ firstCall /\ pred = "EQ"
  <2>1. cursor # Unset /\ cursor.val = rhs
    BY <1>7 DEF FirstScan, ScanInv, ReadsMatching, Satisfies
  <2>2. \A d \in Indexed : Satisfies(d.val) => d.val = cursor.val
    BY <1>7, <2>1 DEF Satisfies
  <2>3. Reads = FirstOf({e \in Indexed : e.val = cursor.val /\ Before(cursor, e)})
    BY <1>7 DEF Reads, DbNextDup
  <2> QED BY <1>2, <2>1, <2>2, <2>3
<1>8. CASE ~ firstCall /\ pred # "EQ"
  <2>1. Reads = FirstOf({e \in Indexed : cursor = Unset \/ Before(cursor, e)})
    BY <1>8 DEF Reads, DbNext
  <2> QED BY <1>2, <2>1
<1> QED BY <1>3, <1>4, <1>5, <1>6, <1>7, <1>8 DEF ScanInv, ScanType, Preds

\* A page that comes back is the next matching one ...
LEMMA FetchPassesOne ==
  ASSUME EncodeInv, ScanInv, FirstScan, scans = 1, FetchPage, NEW e \in Returns,
         NEW d \in Indexed, Satisfies(d.val), cursor' = d \/ Before(d, cursor')
  PROVE  cursor' = e /\ (d = e \/ Passed(d))
<1>1. phase = "scan" /\ e \in Reads /\ cursor' \in Reads
  BY DEF FetchPage, Returns
<1>2. PICK S \in SUBSET Indexed :
        /\ Reads = FirstOf(S)
        /\ \A c \in Indexed : Satisfies(c.val) /\ ~ Passed(c) => c \in S
  BY <1>1, ReadsTheFirstAhead
<1>3. S \subseteq Entries /\ d \in Entries
  BY <1>2, IndexedEntries DEF EncodeInv
<1>4. e \in S /\ cursor' \in S /\ \A c \in S : (c = e \/ Before(e, c)) /\ (c = cursor' \/ Before(cursor', c))
  BY <1>1, <1>2 DEF FirstOf
<1>5. cursor' = e
  BY <1>3, <1>4, EntryOrder
<1>6. d \in S => d = e
  BY <1>3, <1>4, <1>5, EntryOrder
<1> QED BY <1>2, <1>5, <1>6

\* ... and when none does, no matching one is left.
LEMMA NoneLeft ==
  ASSUME EncodeInv, ScanInv, FirstScan, scans = 1, NoMorePages,
         NEW d \in Indexed, Satisfies(d.val)
  PROVE  Passed(d)
<1> SUFFICES ASSUME ~ Passed(d) PROVE FALSE
  OBVIOUS
<1>1. phase = "scan" /\ Returns = {}
  BY DEF NoMorePages
<1>2. PICK S \in SUBSET Indexed : Reads = FirstOf(S) /\ d \in S
  BY <1>1, ReadsTheFirstAhead
<1>3. S \subseteq Entries /\ S # {}
  BY <1>2, IndexedEntries DEF EncodeInv
<1>4. PICK e : e \in Reads
  BY <1>2, <1>3, FirstEntryExists
<1>5. e \in S /\ (d = e \/ Before(e, d))
  BY <1>2, <1>4 DEF FirstOf
<1>6. e.val \in Nat /\ d.val \in Nat /\ e.val <= d.val
  <2>1. e \in Entries /\ d \in Entries
    BY <1>2, <1>3, <1>5
  <2> QED BY <1>5, <2>1, EntryOrder DEF Before
<1>7. pred \in {"LT", "LE"}
  BY <1>1, <1>4 DEF Returns, ScanInv, ScanType, Preds
<1>8. rhs \in Nat
  BY ValuesAreNaturals DEF ScanInv, ScanType
<1>9. e \in Returns
  BY <1>4, <1>6, <1>7, <1>8 DEF Returns, Satisfies, SmallestLarger
<1> QED BY <1>1, <1>9

LEMMA FirstScanInit == Init => FirstScan
BY DEF Init, FirstScan

\* The index, and with it the entries and their pages, stays as it is.
LEMMA FetchPageFirst ==
  ASSUME EncodeInv, ScanInv, FirstScan, FetchPage, scans' = 1
  PROVE  FirstScan'
<1>1. PICK e \in Returns : blockArray' = index[e.val][e.page]
  BY DEF FetchPage
<1>2. /\ phase = "scan" /\ phase' = "decode" /\ scans = 1
      /\ leadingOr' = (leadingOr \/ (operands = <<>> /\ ~ firstCall))
      /\ UNCHANGED <<column, index, pred, rhs, firstCall, operands>>
  BY DEF FetchPage, BeginsWithOr, encoder, placer
<1>3. ~ leadingOr' /\ (~ firstCall' => operands' # <<>>)
  BY <1>2 DEF FirstScan
<1>4. Indexed' = Indexed /\ Given' = Given /\ \A v : Satisfies(v)' = Satisfies(v)
  BY <1>2 DEF Indexed, Given, Satisfies
<1>5. ASSUME NEW d \in Indexed, Satisfies(d.val), Passed(d)'
      PROVE  PageBits(index[d.val][d.page]) \subseteq Given \cup Decoded'
  <2>1. d = e \/ Passed(d)
    <3>1. cursor' = d \/ Before(d, cursor')
      BY <1>5 DEF Passed, Before
    <3> QED BY <1>2, <1>5, <3>1, FetchPassesOne
  <2>2. CASE d = e
    BY <1>1, <2>2 DEF Decoded, PageBits
  <2>3. CASE Passed(d)
    BY <1>2, <1>5, <2>3 DEF FirstScan
  <2> QED BY <2>1, <2>2, <2>3
<1>6. \A d \in Indexed' : Satisfies(d.val)' /\ Passed(d)' =>
        PageBits(index'[d.val][d.page]) \subseteq Given' \cup Decoded'
  BY <1>2, <1>4, <1>5
<1> QED BY <1>2, <1>3, <1>6 DEF FirstScan, PageBits

LEMMA CheckOutBlockFirst ==
  ASSUME ScanInv, FirstScan, CheckOutBlock, scans' = 1
  PROVE  FirstScan'
<1>1. /\ phase = "decode" /\ phase' = "decode" /\ scans = 1 /\ blockArray # <<>>
      /\ multiPosBlock' = AddPosFilterBlock(multiPosBlock, Head(blockArray))
      /\ blockArray' = Tail(blockArray)
      /\ UNCHANGED <<column, index, pred, rhs, cursor, firstCall, operands, leadingOr>>
  BY DEF CheckOutBlock, encoder, placer
<1>2. /\ Head(blockArray) \in Block
      /\ PageBits(blockArray) = Head(blockArray).bits \cup PageBits(Tail(blockArray))
  BY <1>1, HeadBlock DEF ScanInv, ScanType
<1>3. PositionsOf(AddPosFilterBlock(multiPosBlock, Head(blockArray))) =
        PositionsOf(multiPosBlock) \cup Head(blockArray).bits
  BY <1>2, CheckedOut DEF ScanInv, ScanType
<1>4. Decoded' = Decoded
  <2>1. Decoded' = PageBits(blockArray') \cup PositionsOf(multiPosBlock')
    BY DEF Decoded, PageBits, PositionsOf
  <2> QED BY <1>1, <1>2, <1>3, <2>1 DEF Decoded
<1>5. /\ Indexed' = Indexed /\ Given' = Given
      /\ \A d : Satisfies(d.val)' = Satisfies(d.val) /\ Passed(d)' = Passed(d)
      /\ \A d : PageBits(index[d.val][d.page])' = PageBits(index[d.val][d.page])
  BY <1>1 DEF Indexed, Given, Satisfies, Passed, Before, PageBits
<1> QED BY <1>1, <1>4, <1>5 DEF FirstScan

LEMMA AddOperandFirst ==
  ASSUME ScanInv, FirstScan, AddOperand, scans' = 1
  PROVE  FirstScan'
<1>1. /\ phase = "decode" /\ phase' = "scan" /\ scans = 1 /\ blockArray = <<>> /\ ~ firstCall'
      /\ operands' = Append(operands, multiPosBlock)
      /\ UNCHANGED <<column, index, pred, rhs, cursor, leadingOr>>
  BY DEF AddOperand, encoder, placer
<1>2. multiPosBlock \in Filter /\ operands \in Seq(Filter)
  BY DEF ScanInv, ScanType, Growing, FilterOK
<1>3. /\ Len(operands') = Len(operands) + 1 /\ Len(operands) \in Nat
      /\ operands'[Len(operands) + 1] = multiPosBlock
      /\ \A k \in 1 .. Len(operands) : operands'[k] = operands[k]
  BY <1>1, <1>2
<1>4. operands' # <<>>
  BY <1>3
<1>5. Given \cup PositionsOf(multiPosBlock) \subseteq Given'
  <2>1. Given' = UNION {PositionsOf(operands'[k]) : k \in 1 .. Len(operands')}
    BY DEF Given, PositionsOf
  <2>2. Len(operands) + 1 \in 1 .. Len(operands')
        /\ \A k \in 1 .. Len(operands) : k \in 1 .. Len(operands')
    BY <1>3
  <2> QED BY <1>3, <2>1, <2>2 DEF Given
<1>6. Decoded = PositionsOf(multiPosBlock)
  BY <1>1, EmptyPage DEF Decoded
<1>7. /\ Indexed' = Indexed
      /\ \A d : Satisfies(d.val)' = Satisfies(d.val) /\ Passed(d)' = Passed(d)
      /\ \A d : PageBits(index[d.val][d.page])' = PageBits(index[d.val][d.page])
  BY <1>1 DEF Indexed, Satisfies, Passed, Before, PageBits
<1> QED BY <1>1, <1>4, <1>5, <1>6, <1>7 DEF FirstScan

\* At the end the operands hold all that the index has of the matching values.
LEMMA NoMorePagesFirst ==
  ASSUME EncodeInv, ScanInv, FirstScan, NoMorePages, scans' = 1
  PROVE  FirstScan'
<1>1. /\ phase = "scan" /\ phase' = "done" /\ scans = 1
      /\ matched' = IF leadingOr THEN {} ELSE Given
      /\ UNCHANGED <<column, pred, rhs, firstCall, operands, leadingOr>>
  BY DEF NoMorePages, Given
<1>2. ~ leadingOr /\ (~ firstCall => operands # <<>>)
  BY <1>1 DEF FirstScan
<1>3. ASSUME NEW p \in Matching, p \in Kept
      PROVE  p \in Given
  <2> DEFINE v == column[p]
  <2>1. v \in Values /\ p \in RowsOf(v) /\ Satisfies(v) /\ ~ OneBlockRows(v)
    BY <1>3 DEF Matching, Kept, RowsOf, EncodeInv, EncodeType
  <2> HIDE DEF v
  <2>2. purging = K + 1 /\ outPutQ = <<>> /\ next = N + 1 /\ purging > v
    BY <1>1, <2>1, ValuesAreNaturals DEF EncodeInv, PurgePhase, Values
  <2>3. InQueue(v) = {} /\ InMaps(v) = {}
    BY <2>2 DEF InQueue, InMaps
  <2>4. p \in InIndex(v)
    <3>1. InIndex(v) \cup InQueue(v) \cup InMaps(v) = {q \in RowsOf(v) : q < next}
      BY <2>1, <2>2 DEF EncodeInv, RowsKept
    <3>2. p < next
      BY <2>2, ValuesAreNaturals DEF Matching, Rows
    <3> QED BY <2>1, <2>3, <3>1, <3>2
  <2>5. PICK i \in 1 .. Len(index[v]) : p \in PageBits(index[v][i])
    BY <2>4 DEF InIndex
  <2> DEFINE d == [val |-> v, page |-> i]
  <2>6. d \in Indexed /\ d.val = v /\ d.page = i
    BY <2>1, IndexedEntries DEF EncodeInv
  <2> HIDE DEF d
  <2>7. Passed(d)
    BY <1>1, <2>1, <2>6, NoneLeft
  <2> QED BY <1>1, <2>1, <2>5, <2>6, <2>7 DEF FirstScan
<1>4. Matching' = Matching /\ Kept' = Kept
  BY <1>1 DEF Matching, Satisfies, Kept, OneBlockRows, RowsOf
<1> QED BY <1>1, <1>2, <1>3, <1>4 DEF FirstScan

\* Before the scan the cursor is not positioned, whatever becomes of the index.
LEMMA EncodeFirst ==
  ASSUME FirstScan, Encode, scans' = 1
  PROVE  FirstScan'
<1>1. /\ UNCHANGED source /\ phase \in {"encode", "purge", "drain"}
      /\ phase' \in {"encode", "purge", "drain", "scan"}
  BY DEF Encode, AddToNewBlock, AddToItsBlock, FullBlock, NextFitsPage, TakeValue, PageFull,
         SourceDry, PurgeValue, ClearMaps, PlacePage, Drained
<1>2. firstCall' /\ cursor' = Unset /\ ~ leadingOr'
  BY <1>1 DEF FirstScan, source
<1>3. \A d : ~ Passed(d)'
  BY <1>2 DEF Passed, Unset
<1> QED BY <1>1, <1>2, <1>3 DEF FirstScan

LEMMA FirstScanStep == EncodeInv /\ ScanInv /\ FirstScan /\ [Next]_vars => FirstScan'
<1> SUFFICES ASSUME EncodeInv, ScanInv, FirstScan, [Next]_vars, scans' = 1 PROVE FirstScan'
  BY DEF FirstScan
<1>1. CASE FetchPage
  BY <1>1, FetchPageFirst
<1>2. CASE CheckOutBlock
  BY <1>2, CheckOutBlockFirst
<1>3. CASE AddOperand
  BY <1>3, AddOperandFirst
<1>4. CASE NoMorePages
  BY <1>4, NoMorePagesFirst
<1>5. ASSUME NEW read \in BOOLEAN, NewScan(read) PROVE FALSE
  <2>1. scans' = scans + 1 /\ scans \in Nat /\ scans >= 1
    BY <1>5, ColumnAssumption DEF NewScan, ScanInv, ScanType
  <2> QED BY <2>1
<1>6. CASE Encode
  BY <1>6, EncodeFirst
<1>7. CASE ReadError
  BY <1>7 DEF ReadError, source, FirstScan
<1>8. CASE UNCHANGED vars
  <2>1. /\ Indexed' = Indexed /\ Given' = Given /\ Decoded' = Decoded
        /\ \A d : Satisfies(d.val)' = Satisfies(d.val) /\ Passed(d)' = Passed(d)
        /\ \A d : PageBits(index[d.val][d.page])' = PageBits(index[d.val][d.page])
        /\ Matching' = Matching /\ Kept' = Kept
    BY <1>8 DEF vars, encoder, placer, source, Indexed, Given, Decoded, Satisfies, Passed,
                Before, PageBits, Matching, Kept, OneBlockRows, RowsOf
  <2> QED BY <1>8, <2>1 DEF vars, source, FirstScan
<1> QED BY <1>1, <1>2, <1>3, <1>4, <1>5, <1>6, <1>7, <1>8 DEF Next, Scan

\* The first scan of a data source finds just the matching rows of the values
\* that ever filled a block, over all their pages: no page is passed over or read
\* in vain (BitmapDataSource.cpp:46-121, ROSAM.cpp:526-613).
THEOREM FirstScanCompleteness == Spec => []FirstScanExact
<1>1. EncodeInv /\ ScanInv /\ FirstScan => FirstScanExact
  <2> SUFFICES ASSUME ScanInv, FirstScan, phase = "done", scans = 1
               PROVE  matched = {p \in Matching : ~ OneBlockRows(column[p])}
    BY DEF FirstScanExact
  <2>1. matched \subseteq Matching /\ matched \subseteq Kept
    BY DEF ScanInv, ReadsRows, ReadsMatching
  <2>2. Matching \cap Kept \subseteq matched
    BY DEF FirstScan
  <2> QED BY <2>1, <2>2 DEF Kept, Matching
<1> QED BY <1>1, Invariant, FirstScanInit, FirstScanStep, PTL DEF Spec

----------------------------------------------------------------------------
(* The order of blocks and pages *)

\* A page as it reaches the index, and a full one in front of another; pages that
\* end before a block begins.
PageOK(page) == Len(page) \in 1 .. PageBlocks /\ Ascends(page)
Leads(p, q) == Len(p) = PageBlocks /\ PagePrecedes(p, q)
PageBefore(page, b) == \A k \in 1 .. Len(page) : Precedes(page[k], b)

\* The pages of v in a list that is the index and a queue behind it, and what is
\* behind all of these.
Placed(pages, q, v) ==
  /\ \A i \in 1 .. Len(pages) :
       PageOK(pages[i]) /\ \A j \in 1 .. i - 1 : Leads(pages[j], pages[i])
  /\ \A n \in 1 .. Len(q) : q[n].val = v =>
       /\ PageOK(q[n].page)
       /\ \A i \in 1 .. Len(pages) : Leads(pages[i], q[n].page)
       /\ \A m \in 1 .. n - 1 : q[m].val = v => Leads(q[m].page, q[n].page)
AllLead(pages, q, v, page) ==
  /\ \A i \in 1 .. Len(pages) : Leads(pages[i], page)
  /\ \A n \in 1 .. Len(q) : q[n].val = v => Leads(q[n].page, page)
AllBefore(pages, q, v, b) ==
  /\ \A i \in 1 .. Len(pages) : PageBefore(pages[i], b)
  /\ \A n \in 1 .. Len(q) : q[n].val = v => PageBefore(q[n].page, b)
NonePlaced(pages, q, v) == pages = <<>> /\ \A n \in 1 .. Len(q) : q[n].val # v

\* The page and the block of v in the maps, behind what has left them.
InMapsOrder(pages, q, v, page, b) ==
  /\ Len(page) <= PageBlocks /\ Ascends(page) /\ AllLead(pages, q, v, page)
  /\ b # NoBlock => Kempt(b) /\ PageBefore(page, b) /\ AllBefore(pages, q, v, b)
  /\ page = <<>> => NonePlaced(pages, q, v)

\* Whatever has become of the pages of v, each but the last is full and in front
\* of the next.
TrailOrder(v) ==
  /\ Placed(index[v], outPutQ, v)
  /\ purging <= v => InMapsOrder(index[v], outPutQ, v, pageMap[v], blockMap[v])
Trails == \A v \in Values : TrailOrder(v)

LEMMA PrecedesFurther ==
  ASSUME NEW a \in Block, NEW b \in Block, NEW c \in Block, a.start <= a.end, b.start <= b.end,
         Precedes(a, b), b.start <= c.start
  PROVE  Precedes(a, c)
<1>1. a.start \in Nat /\ a.end \in Nat /\ b.start \in Nat /\ c.start \in Nat
  BY DEF Block
<1>2. a.end < c.start
  BY <1>1 DEF Precedes
<1>3. ASSUME Fits(a.start, c.start) PROVE FALSE
  <2>1. a.start \in a.start .. c.start /\ b.start \in a.start .. c.start
    BY <1>1, <1>2 DEF Precedes
  <2>2. Fits(a.start, b.start)
    BY <1>1, <1>3, <2>1, FitsInside
  <2> QED BY <2>2 DEF Precedes
<1> QED BY <1>2, <1>3 DEF Precedes

LEMMA KemptBounds ==
  ASSUME NEW b \in Block, Kempt(b)
  PROVE  b.start \in Nat /\ b.end \in Nat /\ 0 < b.start /\ b.start <= b.end /\ b.bits \subseteq Nat
BY DEF Kempt, Block

LEMMA PageFields ==
  ASSUME NEW page \in Page
  PROVE  /\ Len(page) \in Nat /\ (page = <<>> <=> Len(page) = 0)
         /\ \A k \in 1 .. Len(page) : page[k] \in Block
BY DEF Page

LEMMA EmptyAscends ==
  /\ Ascends(<<>>) /\ \A b : PageBefore(<<>>, b)
  /\ \A p : PagePrecedes(p, <<>>) /\ PagePrecedes(<<>>, p)
<1>1. 1 .. Len(<<>>) = {}
  OBVIOUS
<1> QED BY <1>1 DEF Ascends, PageBefore, PagePrecedes

LEMMA OneBlockAscends ==
  ASSUME NEW b \in Block, Kempt(b)
  PROVE  Ascends(<<b>>) /\ \A p : PageBefore(p, b) => PagePrecedes(p, <<b>>)
<1>1. Len(<<b>>) = 1 /\ <<b>>[1] = b /\ 1 .. 1 = {1} /\ 1 .. 1 - 1 = {}
  OBVIOUS
<1> QED BY <1>1 DEF Ascends, PageBefore, PagePrecedes

\* A page and one block more.
LEMMA AppendAscends ==
  ASSUME NEW page \in Page, NEW b \in Block, Kempt(b), Ascends(page), PageBefore(page, b)
  PROVE  /\ Append(page, b) \in Page /\ Len(Append(page, b)) = Len(page) + 1
         /\ Ascends(Append(page, b))
         /\ \A p : PagePrecedes(p, page) /\ PageBefore(p, b) => PagePrecedes(p, Append(page, b))
         /\ \A c : PageBefore(page, c) /\ Precedes(b, c) => PageBefore(Append(page, b), c)
<1> DEFINE r == Append(page, b)
           n == Len(page)
<1>1. /\ n \in Nat /\ Len(r) = n + 1 /\ r[n + 1] = b /\ r \in Page
      /\ \A k \in 1 .. n : r[k] = page[k]
  BY DEF Page
<1> HIDE DEF r
<1>2. \A k \in 1 .. n + 1 : k \in 1 .. n \/ k = n + 1
  BY <1>1
<1>3. Ascends(r)
  <2> SUFFICES ASSUME NEW k \in 1 .. n + 1
               PROVE  Kempt(r[k]) /\ \A j \in 1 .. k - 1 : Precedes(r[j], r[k])
    BY <1>1 DEF Ascends
  <2>1. \A j \in 1 .. k - 1 : j \in 1 .. n
    BY <1>1
  <2>2. CASE k \in 1 .. n
    BY <1>1, <2>1, <2>2 DEF Ascends
  <2>3. CASE k = n + 1
    BY <1>1, <2>1, <2>3 DEF PageBefore
  <2> QED BY <1>2, <2>2, <2>3
<1>4. ASSUME NEW p, PagePrecedes(p, page), PageBefore(p, b)
      PROVE  PagePrecedes(p, r)
  BY <1>1, <1>2, <1>4 DEF PagePrecedes, PageBefore
<1>5. ASSUME NEW c, PageBefore(page, c), Precedes(b, c)
      PROVE  PageBefore(r, c)
  BY <1>1, <1>2, <1>5 DEF PageBefore
<1> QED BY <1>1, <1>3, <1>4, <1>5 DEF r

\* A page without its first block.
LEMMA RestAscends ==
  ASSUME NEW page \in Page, page # <<>>, Ascends(page)
  PROVE  /\ Head(page) \in Block /\ Tail(page) \in Page /\ Kempt(Head(page)) /\ Ascends(Tail(page))
         /\ PagePrecedes(<<Head(page)>>, Tail(page))
         /\ \A p : PagePrecedes(p, page) => PageBefore(p, Head(page)) /\ PagePrecedes(p, Tail(page))
<1> DEFINE t == Tail(page)
           b == Head(page)
           n == Len(page)
<1>1. /\ n \in Nat /\ n > 0 /\ Len(t) = n - 1 /\ b = page[1]
      /\ \A k \in 1 .. n - 1 : t[k] = page[k + 1]
      /\ t \in Page /\ b \in Block
  BY DEF Page
<1> HIDE DEF t, b
<1>2. 1 \in 1 .. n /\ \A k \in 1 .. n - 1 : k + 1 \in 1 .. n /\ 1 \in 1 .. k + 1 - 1
  BY <1>1
<1>3. Kempt(b)
  BY <1>1, <1>2 DEF Ascends
<1>4. Ascends(t)
  <2> SUFFICES ASSUME NEW k \in 1 .. n - 1
               PROVE  Kempt(t[k]) /\ \A j \in 1 .. k - 1 : Precedes(t[j], t[k])
    BY <1>1 DEF Ascends
  <2>1. Kempt(page[k + 1])
    BY <1>2 DEF Ascends
  <2>2. ASSUME NEW j \in 1 .. k - 1
        PROVE  Precedes(t[j], t[k])
    <3>1. j \in 1 .. n - 1 /\ j + 1 \in 1 .. k + 1 - 1 /\ k + 1 \in 1 .. n
      BY <1>1, <1>2
    <3>2. Precedes(page[j + 1], page[k + 1])
      BY <3>1 DEF Ascends
    <3> QED BY <1>1, <3>1, <3>2
  <2> QED BY <1>1, <2>1, <2>2
<1>5. PagePrecedes(<<b>>, t)
  <2>1. Len(<<b>>) = 1 /\ <<b>>[1] = b /\ 1 .. 1 = {1}
    OBVIOUS
  <2>2. \A k \in 1 .. n - 1 : Precedes(b, t[k])
    BY <1>1, <1>2 DEF Ascends
  <2> QED BY <1>1, <2>1, <2>2 DEF PagePrecedes
<1>6. ASSUME NEW p, PagePrecedes(p, page)
      PROVE  PageBefore(p, b) /\ PagePrecedes(p, t)
  BY <1>1, <1>2, <1>6 DEF PagePrecedes, PageBefore
<1> QED BY <1>1, <1>3, <1>4, <1>5, <1>6 DEF t, b

LEMMA BlockBehindAll ==
  ASSUME NEW pages \in Seq(Page), NEW q \in Seq(QueueEntry), NEW v \in Values,
         NEW page \in Page, NEW b \in Block, Kempt(b), Ascends(page), PageBefore(page, b),
         AllLead(pages, q, v, page), AllBefore(pages, q, v, b)
  PROVE  AllLead(pages, q, v, <<b>>) /\ AllLead(pages, q, v, Append(page, b))
<1>1. ASSUME NEW p, Leads(p, page), PageBefore(p, b)
      PROVE  Leads(p, <<b>>) /\ Leads(p, Append(page, b))
  BY <1>1, OneBlockAscends, AppendAscends DEF Leads
<1> QED BY <1>1 DEF AllLead, AllBefore

\* A page of v joins the queue, behind all others.
LEMMA QueueGains ==
  ASSUME NEW pages \in Seq(Page), NEW q \in Seq(QueueEntry), NEW v \in Values,
         NEW page \in Page, PageOK(page), Placed(pages, q, v), AllLead(pages, q, v, page),
         NEW r, r = Append(q, Queued(v, page))
  PROVE  /\ r \in Seq(QueueEntry) /\ Placed(pages, r, v)
         /\ \A x : AllLead(pages, q, v, x) /\ Leads(page, x) => AllLead(pages, r, v, x)
         /\ \A c : AllBefore(pages, q, v, c) /\ PageBefore(page, c) => AllBefore(pages, r, v, c)
<1> DEFINE e == Queued(v, page)
           n == Len(q)
<1>1. e \in QueueEntry /\ e.val = v /\ e.page = page
  BY DEF Queued, QueueEntry
<1> HIDE DEF e
<1>2. /\ n \in Nat /\ Len(r) = n + 1 /\ r[n + 1] = e /\ r \in Seq(QueueEntry)
      /\ \A k \in 1 .. n : r[k] = q[k]
  BY <1>1 DEF e
<1>3. \A k \in 1 .. n + 1 : k \in 1 .. n \/ k = n + 1
  BY <1>2
<1>4. ASSUME NEW k \in 1 .. n + 1, r[k].val = v
      PROVE  /\ PageOK(r[k].page)
             /\ \A i \in 1 .. Len(pages) : Leads(pages[i], r[k].page)
             /\ \A m \in 1 .. k - 1 : r[m].val = v => Leads(r[m].page, r[k].page)
  <2>1. \A m \in 1 .. k - 1 : m \in 1 .. n /\ r[m] = q[m]
    BY <1>2
  <2>2. CASE k \in 1 .. n
    BY <1>2, <1>4, <2>1, <2>2 DEF Placed
  <2>3. CASE k = n + 1
    BY <1>1, <1>2, <2>1, <2>3 DEF AllLead
  <2> QED BY <1>3, <2>2, <2>3
<1>5. Placed(pages, r, v)
  BY <1>2, <1>4 DEF Placed
<1>6. ASSUME NEW x, AllLead(pages, q, v, x), Leads(page, x)
      PROVE  AllLead(pages, r, v, x)
  BY <1>1, <1>2, <1>3, <1>6 DEF AllLead
<1>7. ASSUME NEW c, AllBefore(pages, q, v, c), PageBefore(page, c)
      PROVE  AllBefore(pages, r, v, c)
  BY <1>1, <1>2, <1>3, <1>7 DEF AllBefore
<1> QED BY <1>2, <1>5, <1>6, <1>7

\* Pages of another value join the queue.
OnlyGains(q, r, v) ==
  /\ Len(r) \in Nat /\ Len(r) >= Len(q)
  /\ \A k \in 1 .. Len(q) : r[k] = q[k]
  /\ \A k \in 1 .. Len(r) : k > Len(q) => r[k].val = v

LEMMA QueueGainsOther ==
  ASSUME NEW pages \in Seq(Page), NEW q \in Seq(QueueEntry), NEW v \in Values, NEW w \in Values,
         w # v, NEW r, OnlyGains(q, r, v)
  PROVE  /\ Placed(pages, q, w) => Placed(pages, r, w)
         /\ \A x, b : InMapsOrder(pages, q, w, x, b) => InMapsOrder(pages, r, w, x, b)
<1> DEFINE n == Len(q)
           l == Len(r)
<1>1. n \in Nat /\ l \in Nat /\ n <= l
  BY DEF OnlyGains
<1>2. \A k \in 1 .. l : r[k].val = w => k \in 1 .. n /\ r[k] = q[k]
  <2> SUFFICES ASSUME NEW k \in 1 .. l, r[k].val = w PROVE k \in 1 .. n /\ r[k] = q[k]
    OBVIOUS
  <2>1. ~ (k > n)
    BY DEF OnlyGains
  <2>2. k \in 1 .. n
    BY <1>1, <2>1
  <2> QED BY <2>2 DEF OnlyGains
<1>3. \A k \in 1 .. n : k \in 1 .. l /\ \A m \in 1 .. k - 1 : m \in 1 .. n /\ m \in 1 .. l
  BY <1>1
<1>4. \A k \in 1 .. l : r[k].val = w => q[k].val = w /\ r[k].page = q[k].page
  BY <1>2
<1> HIDE DEF n, l
<1>5. ASSUME Placed(pages, q, w)
      PROVE  Placed(pages, r, w)
  <2>1. ASSUME NEW k \in 1 .. l, r[k].val = w
        PROVE  /\ PageOK(r[k].page)
               /\ \A i \in 1 .. Len(pages) : Leads(pages[i], r[k].page)
               /\ \A m \in 1 .. k - 1 : r[m].val = w => Leads(r[m].page, r[k].page)
    BY <1>2, <1>3, <1>4, <1>5, <2>1 DEF Placed, n
  <2> QED BY <1>5, <2>1 DEF Placed, l
<1>6. ASSUME NEW x, NEW b, InMapsOrder(pages, q, w, x, b)
      PROVE  InMapsOrder(pages, r, w, x, b)
  <2>1. AllLead(pages, r, w, x)
    BY <1>2, <1>4, <1>6 DEF InMapsOrder, AllLead, n, l
  <2>2. AllBefore(pages, q, w, b) => AllBefore(pages, r, w, b)
    BY <1>2, <1>4 DEF AllBefore, n, l
  <2>3. NonePlaced(pages, q, w) => NonePlaced(pages, r, w)
    BY <1>2, <1>4 DEF NonePlaced, n, l
  <2> QED BY <1>6, <2>1, <2>2, <2>3 DEF InMapsOrder
<1> QED BY <1>5, <1>6

\* The first of the queue goes to the index.
LEMMA QueueGives ==
  ASSUME NEW pages \in Seq(Page), NEW q \in Seq(QueueEntry), q # <<>>, NEW v \in Values,
         Placed(pages, q, v),
         NEW r, r = IF Head(q).val = v THEN Append(pages, Head(q).page) ELSE pages
  PROVE  /\ Placed(r, Tail(q), v)
         /\ \A x, b : InMapsOrder(pages, q, v, x, b) => InMapsOrder(r, Tail(q), v, x, b)
<1> DEFINE t == Tail(q)
           e == Head(q)
           n == Len(q)
           l == Len(pages)
<1>1. /\ n \in Nat /\ n > 0 /\ Len(t) = n - 1 /\ e = q[1] /\ 1 \in 1 .. n
      /\ \A k \in 1 .. n - 1 : t[k] = q[k + 1] /\ k + 1 \in 1 .. n
      /\ e \in QueueEntry
  OBVIOUS
<1>2. e.page \in Page
  BY <1>1 DEF QueueEntry
<1> HIDE DEF t
<1>3. CASE e.val = v
  <2>1. r = Append(pages, e.page)
    BY <1>3
  <2> HIDE DEF e
  <2>2. /\ l \in Nat /\ Len(r) = l + 1 /\ r[l + 1] = e.page
        /\ \A i \in 1 .. l : r[i] = pages[i]
    BY <1>2, <2>1
  <2>3. \A i \in 1 .. l + 1 : i \in 1 .. l \/ i = l + 1
    BY <2>2
  <2>4. PageOK(e.page) /\ \A i \in 1 .. l : Leads(pages[i], e.page)
    BY <1>1, <1>3 DEF Placed
  <2>5. ASSUME NEW i \in 1 .. l + 1
        PROVE  PageOK(r[i]) /\ \A j \in 1 .. i - 1 : Leads(r[j], r[i])
    <3>1. \A j \in 1 .. i - 1 : j \in 1 .. l
      BY <2>2
    <3>2. CASE i \in 1 .. l
      BY <2>2, <3>1, <3>2 DEF Placed
    <3>3. CASE i = l + 1
      BY <2>2, <2>4, <3>1, <3>3
    <3> QED BY <2>3, <3>2, <3>3
  <2>6. ASSUME NEW k \in 1 .. n - 1, t[k].val = v
        PROVE  /\ PageOK(t[k].page)
               /\ \A i \in 1 .. l + 1 : Leads(r[i], t[k].page)
               /\ \A m \in 1 .. k - 1 : t[m].val = v => Leads(t[m].page, t[k].page)
    <3>1. k + 1 \in 1 .. n /\ t[k] = q[k + 1] /\ 1 \in 1 .. k + 1 - 1 /\ q[k + 1].val = v
      BY <1>1, <2>6
    <3>2. PageOK(t[k].page) /\ Leads(e.page, t[k].page)
      BY <1>1, <1>3, <3>1 DEF Placed
    <3>3. \A i \in 1 .. l : Leads(pages[i], t[k].page)
      BY <3>1 DEF Placed
    <3>4. ASSUME NEW m \in 1 .. k - 1, t[m].val = v
          PROVE  Leads(t[m].page, t[k].page)
      <4>1. m \in 1 .. n - 1 /\ m + 1 \in 1 .. k + 1 - 1
        BY <1>1
      <4>2. t[m] = q[m + 1]
        BY <1>1, <4>1
      <4> QED BY <3>1, <3>4, <4>1, <4>2 DEF Placed
    <3> QED BY <2>2, <2>3, <3>2, <3>3, <3>4
  <2>7. Placed(r, t, v)
    BY <1>1, <2>2, <2>5, <2>6 DEF Placed
  <2>8. ASSUME NEW x, NEW b, InMapsOrder(pages, q, v, x, b)
        PROVE  InMapsOrder(r, t, v, x, b)
    <3>1. AllLead(r, t, v, x)
      BY <1>1, <1>3, <2>2, <2>3, <2>8 DEF InMapsOrder, AllLead
    <3>2. AllBefore(pages, q, v, b) => AllBefore(r, t, v, b)
      BY <1>1, <1>3, <2>2, <2>3 DEF AllBefore
    <3>3. ~ NonePlaced(pages, q, v)
      BY <1>1, <1>3 DEF NonePlaced
    <3> QED BY <2>8, <3>1, <3>2, <3>3 DEF InMapsOrder
  <2> QED BY <2>7, <2>8 DEF t
<1>4. CASE e.val # v
  <2>1. r = pages
    BY <1>4
  <2> HIDE DEF e
  <2>2. ASSUME NEW k \in 1 .. n - 1, t[k].val = v
        PROVE  /\ PageOK(t[k].page)
               /\ \A i \in 1 .. l : Leads(pages[i], t[k].page)
               /\ \A m \in 1 .. k - 1 : t[m].val = v => Leads(t[m].page, t[k].page)
    <3>1. k + 1 \in 1 .. n /\ t[k] = q[k + 1] /\ q[k + 1].val = v
      BY <1>1, <2>2
    <3>2. PageOK(t[k].page) /\ \A i \in 1 .. l : Leads(pages[i], t[k].page)
      BY <3>1 DEF Placed
    <3>3. ASSUME NEW m \in 1 .. k - 1, t[m].val = v
          PROVE  Leads(t[m].page, t[k].page)
      <4>1. m \in 1 .. n - 1 /\ m + 1 \in 1 .. k + 1 - 1
        BY <1>1
      <4>2. t[m] = q[m + 1]
        BY <1>1, <4>1
      <4> QED BY <3>1, <3>3, <4>1, <4>2 DEF Placed
    <3> QED BY <3>2, <3>3
  <2>3. Placed(pages, t, v)
    BY <1>1, <2>2 DEF Placed
  <2>4. ASSUME NEW x, NEW b, InMapsOrder(pages, q, v, x, b)
        PROVE  InMapsOrder(pages, t, v, x, b)
    <3>1. AllLead(pages, t, v, x)
      BY <1>1, <2>4 DEF InMapsOrder, AllLead
    <3>2. AllBefore(pages, q, v, b) => AllBefore(pages, t, v, b)
      BY <1>1 DEF AllBefore
    <3>3. NonePlaced(pages, q, v) => NonePlaced(pages, t, v)
      BY <1>1 DEF NonePlaced
    <3> QED BY <2>4, <3>1, <3>2, <3>3 DEF InMapsOrder
  <2> QED BY <2>1, <2>3, <2>4 DEF t
<1> QED BY <1>3, <1>4

LEMMA EmptyTrail ==
  ASSUME NEW v \in Values
  PROVE  Placed(<<>>, <<>>, v) /\ InMapsOrder(<<>>, <<>>, v, <<>>, NoBlock)
<1>1. 1 .. Len(<<>>) = {} /\ Len(<<>>) = 0 /\ PageBlocks >= 0
  BY ValuesAreNaturals
<1>2. NonePlaced(<<>>, <<>>, v) /\ \A x : AllLead(<<>>, <<>>, v, x)
  BY <1>1 DEF NonePlaced, AllLead
<1>3. Placed(<<>>, <<>>, v)
  BY <1>1 DEF Placed
<1> QED BY <1>1, <1>2, <1>3, EmptyAscends DEF InMapsOrder

LEMMA TrailsInit == Init => Trails
BY EmptyTrail DEF Init, Trails, TrailOrder

LEMMA PrimedOrder ==
  ASSUME NEW v \in Values
  PROVE  TrailOrder(v)' <=>
           /\ Placed(index'[v], outPutQ', v)
           /\ purging' <= v => InMapsOrder(index'[v], outPutQ', v, pageMap'[v], blockMap'[v])
BY DEF TrailOrder

\* The block that is begun with the next row, and the one it is added to.
LEMMA NextBlock ==
  ASSUME EncodeInv, NextFitsPage
  PROVE  /\ Kempt(EmptyBuffer(next)) /\ EmptyBuffer(next) \in Block
         /\ EmptyBuffer(next).start = next /\ next \in Nat /\ next > 0
<1>1. next \in Nat /\ next > 0 /\ EmptyBuffer(next) \in Block
  BY NextValue, ValuesAreNaturals DEF EncodeInv, EncodeType
<1>2. Fits(next, next)
  BY <1>1, OnePositionFits
<1>3. /\ EmptyBuffer(next).start = next /\ EmptyBuffer(next).end = next
      /\ EmptyBuffer(next).bits = {next} /\ EmptyBuffer(next).currPos = 0
  BY DEF EmptyBuffer
<1> QED BY <1>1, <1>2, <1>3 DEF Kempt

LEMMA OldBlock ==
  ASSUME EncodeInv, NextFitsPage, NEW v \in Values, v = column[next], blockMap[v] # NoBlock,
         Kempt(blockMap[v])
  PROVE  blockMap[v] \in Block /\ blockMap[v].end < next
<1>1. blockMap[v] \in Block /\ next \in Nat
  BY NextValue
<1>2. blockMap[v].end \in blockMap[v].bits
  BY DEF Kempt
<1>3. \A p \in blockMap[v].bits : p < next
  BY NextValue DEF MapsHold, BlockOf
<1> QED BY <1>1, <1>2, <1>3

LEMMA AddToNewBlockOrder ==
  ASSUME EncodeInv, Trails, AddToNewBlock, NEW v \in Values, v = column[next]
  PROVE  TrailOrder(v)'
<1>1. NextFitsPage /\ TakeValue /\ purging = 0 /\ purging <= v /\ MapsHold(v)
  BY NextValue DEF AddToNewBlock
<1>2. /\ blockMap[v] = NoBlock /\ pageMap' = pageMap /\ outPutQ' = outPutQ /\ index' = index
      /\ blockMap'[v] = EmptyBuffer(next) /\ purging' = purging
  BY <1>1 DEF AddToNewBlock, TakeValue, EncodeInv, EncodeType
<1>3. pageMap[v] = <<>>
  BY <1>1, <1>2 DEF MapsHold
<1>4. /\ Placed(index[v], outPutQ, v)
      /\ InMapsOrder(index[v], outPutQ, v, pageMap[v], blockMap[v])
  BY <1>1 DEF Trails, TrailOrder
<1>5. NonePlaced(index[v], outPutQ, v)
  BY <1>3, <1>4 DEF InMapsOrder
<1>6. AllBefore(index[v], outPutQ, v, EmptyBuffer(next))
  <2>1. 1 .. Len(<<>>) = {}
    OBVIOUS
  <2> QED BY <1>5, <2>1 DEF NonePlaced, AllBefore
<1>7. InMapsOrder(index[v], outPutQ, v, pageMap[v], EmptyBuffer(next))
  BY <1>1, <1>3, <1>4, <1>5, <1>6, NextBlock, EmptyAscends DEF InMapsOrder
<1> QED BY <1>2, <1>4, <1>7, PrimedOrder

LEMMA AddToItsBlockOrder ==
  ASSUME EncodeInv, Trails, AddToItsBlock, NEW v \in Values, v = column[next]
  PROVE  TrailOrder(v)'
<1> DEFINE b == blockMap[v]
           c == SetPosition(b, next)
<1>1. NextFitsPage /\ TakeValue /\ purging = 0 /\ purging <= v /\ b # NoBlock
  BY NextValue DEF AddToItsBlock
<1>2. /\ pageMap' = pageMap /\ outPutQ' = outPutQ /\ index' = index
      /\ blockMap'[v] = c /\ purging' = purging /\ Fits(b.start, next)
  BY <1>1 DEF AddToItsBlock, TakeValue, EncodeInv, EncodeType, HasRoom
<1>3. /\ Placed(index[v], outPutQ, v)
      /\ InMapsOrder(index[v], outPutQ, v, pageMap[v], b)
  BY <1>1 DEF Trails, TrailOrder
<1>4. Kempt(b) /\ PageBefore(pageMap[v], b) /\ AllBefore(index[v], outPutQ, v, b)
  BY <1>1, <1>3 DEF InMapsOrder
<1>5. b \in Block /\ b.end < next /\ next \in Nat
  BY <1>1, <1>4, OldBlock, NextBlock
<1>6. c.start = b.start /\ c.end = next /\ c.bits = b.bits \cup {next} /\ c.currPos = b.currPos
  BY <1>5 DEF SetPosition, Block
<1> HIDE DEF b, c
<1>7. Kempt(c)
  <2>1. c.bits \subseteq c.start .. c.end
    BY <1>4, <1>5, <1>6, KemptBounds DEF Kempt
  <2> QED BY <1>2, <1>4, <1>6, <2>1 DEF Kempt
<1>8. PageBefore(pageMap[v], c) /\ AllBefore(index[v], outPutQ, v, c)
  <2>1. \A a : Precedes(a, b) => Precedes(a, c)
    BY <1>6 DEF Precedes
  <2>2. \A p : PageBefore(p, b) => PageBefore(p, c)
    BY <2>1 DEF PageBefore
  <2> QED BY <1>4, <2>2 DEF AllBefore
<1>9. InMapsOrder(index[v], outPutQ, v, pageMap[v], c)
  BY <1>3, <1>7, <1>8 DEF InMapsOrder
<1> QED BY <1>2, <1>3, <1>9, PrimedOrder

\* What precedes the full block precedes the one that follows it, and so does it.
LEMMA FullBlockOrder ==
  ASSUME EncodeInv, Trails, FullBlock, NEW v \in Values, v = column[next]
  PROVE  TrailOrder(v)'
<1> DEFINE b == blockMap[v]
           c == EmptyBuffer(next)
           page == pageMap[v]
           pages == index[v]
<1>1. /\ NextFitsPage /\ TakeValue /\ purging = 0 /\ purging <= v /\ b # NoBlock
      /\ ~ Fits(b.start, next)
  BY NextValue DEF FullBlock, HasRoom
<1>2. /\ index' = index /\ purging' = purging /\ page \in Page /\ outPutQ \in Seq(QueueEntry)
      /\ pages \in Seq(Page) /\ pageMap \in [Values -> Page]
  BY <1>1 DEF TakeValue, EncodeInv, EncodeType
<1>3. blockMap'[v] = c
  BY <1>1 DEF FullBlock, EncodeInv, EncodeType
<1>4. Placed(pages, outPutQ, v) /\ InMapsOrder(pages, outPutQ, v, page, b)
  BY <1>1 DEF Trails, TrailOrder
<1>5. /\ Kempt(b) /\ PageBefore(page, b) /\ AllBefore(pages, outPutQ, v, b)
      /\ Len(page) <= PageBlocks /\ Ascends(page) /\ AllLead(pages, outPutQ, v, page)
  BY <1>1, <1>4 DEF InMapsOrder
<1>6. b \in Block /\ b.end < next /\ Kempt(c) /\ c \in Block /\ c.start = next /\ next \in Nat
  BY <1>1, <1>5, OldBlock, NextBlock
<1>7. (\/ /\ PageHasRoom(page) /\ outPutQ' = outPutQ
          /\ pageMap' = [pageMap EXCEPT ![v] = Append(@, b)]
       \/ /\ ~ PageHasRoom(page) /\ outPutQ' = Append(outPutQ, Queued(v, page))
          /\ pageMap' = [pageMap EXCEPT ![v] = <<b>>])
  BY DEF FullBlock
<1> HIDE DEF b, c, page, pages
<1>8. Precedes(b, c)
  BY <1>1, <1>6 DEF Precedes
<1>9. ASSUME NEW p \in Page, Ascends(p), PageBefore(p, b)
      PROVE  PageBefore(p, c)
  <2> SUFFICES ASSUME NEW k \in 1 .. Len(p) PROVE Precedes(p[k], c)
    BY DEF PageBefore
  <2>1. p[k] \in Block /\ Kempt(p[k]) /\ Precedes(p[k], b)
    BY <1>9, PageFields DEF Ascends, PageBefore
  <2> QED BY <1>5, <1>6, <1>8, <2>1, KemptBounds, PrecedesFurther DEF Precedes
<1>10. AllBefore(pages, outPutQ, v, c)
  <2>1. \A i \in 1 .. Len(pages) : pages[i] \in Page /\ Ascends(pages[i])
    BY <1>2, <1>4 DEF Placed, PageOK
  <2>2. \A n \in 1 .. Len(outPutQ) : outPutQ[n].val = v =>
          outPutQ[n].page \in Page /\ Ascends(outPutQ[n].page)
    <3>1. \A n \in 1 .. Len(outPutQ) : outPutQ[n] \in QueueEntry
      BY <1>2
    <3>2. \A e \in QueueEntry : e.page \in Page
      BY DEF QueueEntry
    <3> QED BY <1>4, <3>1, <3>2 DEF Placed, PageOK
  <2> QED BY <1>5, <1>9, <2>1, <2>2 DEF AllBefore
<1>11. PageBefore(page, c)
  BY <1>2, <1>5, <1>9
<1>12. CASE /\ PageHasRoom(page) /\ outPutQ' = outPutQ
            /\ pageMap' = [pageMap EXCEPT ![v] = Append(@, b)]
  <2> DEFINE r == Append(page, b)
  <2>1. pageMap'[v] = r
    BY <1>2, <1>12 DEF page
  <2>2. /\ r \in Page /\ Len(r) = Len(page) + 1 /\ Ascends(r) /\ PageBefore(r, c)
    BY <1>2, <1>5, <1>6, <1>8, <1>11, AppendAscends
  <2>3. AllLead(pages, outPutQ, v, r)
    BY <1>2, <1>5, <1>6, BlockBehindAll
  <2>4. Len(r) <= PageBlocks /\ r # <<>>
    <3>1. Len(page) \in Nat /\ Len(page) < PageBlocks /\ PageBlocks \in Nat
      BY <1>2, <1>12, ValuesAreNaturals, PageFields DEF PageHasRoom
    <3>2. Len(r) = Len(page) + 1 /\ (r = <<>> => Len(r) = 0)
      BY <2>2, PageFields
    <3> HIDE DEF r
    <3> QED BY <3>1, <3>2
  <2> HIDE DEF r
  <2>5. InMapsOrder(pages, outPutQ, v, r, c)
    BY <1>6, <1>10, <2>2, <2>3, <2>4 DEF InMapsOrder
  <2> QED BY <1>2, <1>3, <1>4, <1>12, <2>1, <2>5, PrimedOrder DEF pages
<1>13. CASE /\ ~ PageHasRoom(page) /\ outPutQ' = Append(outPutQ, Queued(v, page))
            /\ pageMap' = [pageMap EXCEPT ![v] = <<b>>]
  <2> DEFINE r == <<b>>
  <2>1. pageMap'[v] = r
    BY <1>2, <1>13 DEF page
  <2>2. /\ r \in Page /\ Len(r) = 1 /\ r # <<>> /\ Ascends(r) /\ PageBefore(r, c)
    <3>1. Len(r) = 1 /\ r[1] = b /\ 1 .. 1 = {1}
      OBVIOUS
    <3>2. r \in Page /\ r # <<>> /\ Ascends(r)
      BY <1>5, <1>6, OneBlockPage, OneBlockAscends
    <3> QED BY <1>8, <3>1, <3>2 DEF PageBefore
  <2>3. Len(page) = PageBlocks /\ PageOK(page) /\ PageBlocks >= 1
    BY <1>2, <1>5, <1>13, ColumnAssumption, PageFields DEF PageHasRoom, PageOK
  <2>4. Leads(page, r)
    BY <1>5, <1>6, <2>3, OneBlockAscends DEF Leads
  <2>5. AllLead(pages, outPutQ, v, r)
    BY <1>2, <1>5, <1>6, BlockBehindAll
  <2> HIDE DEF r
  <2>6. Placed(pages, outPutQ', v) /\ AllLead(pages, outPutQ', v, r) /\ AllBefore(pages, outPutQ', v, c)
    BY <1>2, <1>4, <1>5, <1>10, <1>11, <1>13, <2>3, <2>4, <2>5, QueueGains
  <2>7. InMapsOrder(pages, outPutQ', v, r, c)
    BY <1>6, <2>2, <2>3, <2>6, ValuesAreNaturals DEF InMapsOrder
  <2> QED BY <1>2, <1>3, <1>13, <2>1, <2>6, <2>7, PrimedOrder DEF pages
<1> QED BY <1>7, <1>12, <1>13

\* The purge puts the page of a value, its last block included, behind all others.
LEMMA PurgeValueOrder ==
  ASSUME EncodeInv, Trails, PurgeValue, NEW v \in Values, v = purging
  PROVE  TrailOrder(v)'
<1> DEFINE b == blockMap[v]
           page == pageMap[v]
           pages == index[v]
<1>1. index' = index /\ purging' = v + 1 /\ outPutQ' = outPutQ \o PurgedPages(v)
  BY DEF PurgeValue, placer
<1>2. /\ b \in Block /\ page \in Page /\ outPutQ \in Seq(QueueEntry) /\ v \in Nat
      /\ pages \in Seq(Page)
  BY ValuesAreNaturals DEF EncodeInv, EncodeType
<1>3. Placed(pages, outPutQ, v) /\ InMapsOrder(pages, outPutQ, v, page, b)
  BY <1>2 DEF Trails, TrailOrder
<1>4. /\ Len(page) <= PageBlocks /\ Ascends(page) /\ AllLead(pages, outPutQ, v, page)
      /\ b # NoBlock => Kempt(b) /\ PageBefore(page, b) /\ AllBefore(pages, outPutQ, v, b)
  BY <1>3 DEF InMapsOrder
<1>5. PageBlocks \in Nat /\ PageBlocks >= 1 /\ Len(page) \in Nat /\ (page # <<>> => Len(page) >= 1)
  BY <1>2, ColumnAssumption, PageFields
<1>6. Placed(pages, outPutQ', v)
  <2>1. CASE page = <<>>
    <3>1. outPutQ' = outPutQ
      BY <1>1, <1>2, <2>1 DEF PurgedPages
    <3> QED BY <1>3, <3>1
  <2>2. CASE page # <<>> /\ b = NoBlock
    <3>1. outPutQ' = Append(outPutQ, Queued(v, page))
      BY <1>1, <1>2, <2>2 DEF PurgedPages
    <3>2. PageOK(page)
      BY <1>4, <1>5, <2>2 DEF PageOK
    <3> HIDE DEF page, pages, b
    <3> QED BY <1>2, <1>3, <1>4, <3>1, <3>2, QueueGains
  <2>3. CASE page # <<>> /\ b # NoBlock /\ PageHasRoom(page)
    <3> DEFINE r == Append(page, b)
    <3>1. outPutQ' = Append(outPutQ, Queued(v, r))
      BY <1>1, <1>2, <2>3 DEF PurgedPages
    <3> HIDE DEF page, pages, b
    <3>2. r \in Page /\ Len(r) = Len(page) + 1 /\ Ascends(r)
      BY <1>2, <1>4, <2>3, AppendAscends
    <3>3. AllLead(pages, outPutQ, v, r)
      BY <1>2, <1>4, <2>3, BlockBehindAll
    <3> HIDE DEF r
    <3>4. PageOK(r)
      BY <1>5, <2>3, <3>2 DEF PageOK, PageHasRoom
    <3> QED BY <1>2, <1>3, <3>1, <3>2, <3>3, <3>4, QueueGains
  <2>4. CASE page # <<>> /\ b # NoBlock /\ ~ PageHasRoom(page)
    <3> DEFINE first == Queued(v, page)
               last == Queued(v, <<b>>)
               q == Append(outPutQ, first)
    <3>1. <<b>> \in Page /\ Len(<<b>>) = 1 /\ Ascends(<<b>>)
      BY <1>2, <1>4, <2>4, OneBlockPage, OneBlockAscends
    <3>2. outPutQ' = Append(q, last)
      <4>1. first \in QueueEntry /\ last \in QueueEntry
        BY <1>2, <3>1 DEF Queued, QueueEntry
      <4>2. outPutQ' = outPutQ \o <<first, last>>
        BY <1>1, <2>4 DEF PurgedPages
      <4> HIDE DEF first, last
      <4> QED BY <1>2, <4>1, <4>2
    <3> HIDE DEF page, pages, b
    <3>3. PageOK(page) /\ PageOK(<<b>>) /\ Len(page) = PageBlocks
      BY <1>4, <1>5, <2>4, <3>1 DEF PageOK, PageHasRoom
    <3>4. Leads(page, <<b>>) /\ AllLead(pages, outPutQ, v, <<b>>)
      BY <1>2, <1>4, <2>4, <3>3, OneBlockAscends, BlockBehindAll DEF Leads
    <3>5. q \in Seq(QueueEntry) /\ Placed(pages, q, v) /\ AllLead(pages, q, v, <<b>>)
      BY <1>2, <1>3, <1>4, <3>3, <3>4, QueueGains
    <3> HIDE DEF q
    <3> QED BY <1>2, <3>1, <3>2, <3>3, <3>5, QueueGains
  <2> QED BY <2>1, <2>2, <2>3, <2>4
<1>7. ~ (purging' <= v)
  BY <1>1, <1>2
<1> QED BY <1>1, <1>6, <1>7, PrimedOrder

\* Values the step is not about.
LEMMA OthersOrder ==
  ASSUME EncodeInv, Trails, NEW w \in Values, NEW v \in Values, w # v,
         index'[w] = index[w], pageMap'[w] = pageMap[w], blockMap'[w] = blockMap[w],
         purging' <= w => purging <= w, OnlyGains(outPutQ, outPutQ', v)
  PROVE  TrailOrder(w)'
<1>1. index[w] \in Seq(Page) /\ outPutQ \in Seq(QueueEntry)
  BY DEF EncodeInv, EncodeType
<1>2. /\ Placed(index[w], outPutQ, w)
      /\ purging <= w => InMapsOrder(index[w], outPutQ, w, pageMap[w], blockMap[w])
  BY DEF Trails, TrailOrder
<1> QED BY <1>1, <1>2, QueueGainsOther, PrimedOrder

LEMMA GainsNothing ==
  ASSUME NEW q \in Seq(QueueEntry), NEW v
  PROVE  OnlyGains(q, q, v)
BY DEF OnlyGains

LEMMA GainsPage ==
  ASSUME NEW q \in Seq(QueueEntry), NEW v \in Values, NEW page \in Page
  PROVE  OnlyGains(q, Append(q, Queued(v, page)), v)
<1> DEFINE e == Queued(v, page)
<1>1. e \in QueueEntry /\ e.val = v
  BY DEF Queued, QueueEntry
<1> HIDE DEF e
<1>2. OnlyGains(q, Append(q, e), v)
  BY <1>1 DEF OnlyGains
<1> QED BY <1>2 DEF e

LEMMA GainsPurged ==
  ASSUME EncodeInv, NEW v \in Values
  PROVE  OnlyGains(outPutQ, outPutQ \o PurgedPages(v), v)
<1> DEFINE r == PurgedPages(v)
<1>1. blockMap[v] \in Block /\ pageMap[v] \in Page /\ outPutQ \in Seq(QueueEntry)
  BY DEF EncodeInv, EncodeType
<1>2. \A page \in Page : Queued(v, page) \in QueueEntry /\ Queued(v, page).val = v
  BY DEF Queued, QueueEntry
<1>3. r \in Seq(QueueEntry) /\ \A k \in 1 .. Len(r) : r[k].val = v
  <2>1. \A e \in QueueEntry : e.val = v =>
          <<e>> \in Seq(QueueEntry) /\ \A k \in 1 .. Len(<<e>>) : <<e>>[k].val = v
    OBVIOUS
  <2>2. \A d, e \in QueueEntry : d.val = v /\ e.val = v =>
          <<d, e>> \in Seq(QueueEntry) /\ \A k \in 1 .. Len(<<d, e>>) : <<d, e>>[k].val = v
    <3> SUFFICES ASSUME NEW d \in QueueEntry, NEW e \in QueueEntry, d.val = v, e.val = v
                 PROVE  <<d, e>> \in Seq(QueueEntry) /\ \A k \in 1 .. Len(<<d, e>>) : <<d, e>>[k].val = v
      OBVIOUS
    <3>1. Len(<<d, e>>) = 2 /\ <<d, e>>[1] = d /\ <<d, e>>[2] = e /\ 1 .. 2 = {1, 2}
      OBVIOUS
    <3> QED BY <3>1
  <2>3. <<>> \in Seq(QueueEntry) /\ 1 .. Len(<<>>) = {}
    OBVIOUS
  <2>4. Append(pageMap[v], blockMap[v]) \in Page /\ <<blockMap[v]>> \in Page
    BY <1>1, AppendPage, OneBlockPage
  <2>5. \/ r = <<>>
        \/ r = <<Queued(v, pageMap[v])>>
        \/ r = <<Queued(v, Append(pageMap[v], blockMap[v]))>>
        \/ r = <<Queued(v, pageMap[v]), Queued(v, <<blockMap[v]>>)>>
    BY DEF PurgedPages
  <2> DEFINE c == Queued(v, pageMap[v])
             d == Queued(v, Append(pageMap[v], blockMap[v]))
             e == Queued(v, <<blockMap[v]>>)
  <2>6. /\ c \in QueueEntry /\ d \in QueueEntry /\ e \in QueueEntry
        /\ c.val = v /\ d.val = v /\ e.val = v
    BY <1>1, <1>2, <2>4
  <2> HIDE DEF r, c, d, e
  <2>7. r = <<>> \/ r = <<c>> \/ r = <<d>> \/ r = <<c, e>>
    BY <2>5 DEF c, d, e
  <2>8. CASE r = <<c, e>>
    BY <2>2, <2>6, <2>8
  <2>9. CASE r = <<c>> \/ r = <<d>>
    BY <2>1, <2>6, <2>9
  <2> QED BY <2>3, <2>7, <2>8, <2>9
<1> HIDE DEF r
<1>4. /\ Len(outPutQ) \in Nat /\ Len(r) \in Nat /\ Len(outPutQ \o r) = Len(outPutQ) + Len(r)
      /\ \A k \in 1 .. Len(outPutQ) + Len(r) :
           (outPutQ \o r)[k] = IF k <= Len(outPutQ) THEN outPutQ[k] ELSE r[k - Len(outPutQ)]
  BY <1>1, <1>3
<1>5. OnlyGains(outPutQ, outPutQ \o r, v)
  <2>1. ASSUME NEW k \in 1 .. Len(outPutQ \o r), k > Len(outPutQ)
        PROVE  (outPutQ \o r)[k].val = v
    <3>1. k - Len(outPutQ) \in 1 .. Len(r)
      BY <1>4, <2>1
    <3> QED BY <1>3, <1>4, <2>1, <3>1
  <2>2. \A k \in 1 .. Len(outPutQ) : (outPutQ \o r)[k] = outPutQ[k]
    BY <1>4
  <2> QED BY <1>4, <2>1, <2>2 DEF OnlyGains
<1> QED BY <1>5 DEF r

\* All pages wait for the placer; the first one moves to the end of its entries.
LEMMA PlacePageOrder ==
  ASSUME EncodeInv, Trails, PlacePage, NEW v \in Values
  PROVE  TrailOrder(v)'
<1>1. /\ outPutQ \in Seq(QueueEntry) /\ outPutQ # <<>> /\ index \in [Values -> Seq(Page)]
      /\ index[v] \in Seq(Page)
  BY DEF PlacePage, EncodeInv, EncodeType
<1>2. /\ outPutQ' = Tail(outPutQ) /\ UNCHANGED <<blockMap, pageMap, purging>>
      /\ index' = [index EXCEPT ![Head(outPutQ).val] = Append(@, Head(outPutQ).page)]
  BY DEF PlacePage, encoder
<1>3. index'[v] = IF Head(outPutQ).val = v THEN Append(index[v], Head(outPutQ).page) ELSE index[v]
  BY <1>1, <1>2
<1>4. /\ Placed(index[v], outPutQ, v)
      /\ purging <= v => InMapsOrder(index[v], outPutQ, v, pageMap[v], blockMap[v])
  BY DEF Trails, TrailOrder
<1> QED BY <1>1, <1>2, <1>3, <1>4, QueueGives, PrimedOrder

LEMMA TrailsStep == EncodeInv /\ Trails /\ [Next]_vars => Trails'
<1> SUFFICES ASSUME EncodeInv, Trails, [Next]_vars, NEW w \in Values PROVE TrailOrder(w)'
  BY DEF Trails
<1>1. outPutQ \in Seq(QueueEntry) /\ purging \in Nat /\ w \in Nat
  BY ValuesAreNaturals DEF EncodeInv, EncodeType
<1>2. CASE AddToNewBlock \/ AddToItsBlock \/ FullBlock
  <2>1. PICK v \in Values : v = column[next]
    BY <1>2, NextValue DEF AddToNewBlock, AddToItsBlock, FullBlock
  <2>2. CASE w = v
    BY <1>2, <2>1, <2>2, AddToNewBlockOrder, AddToItsBlockOrder, FullBlockOrder
  <2>3. CASE w # v
    <3>1. /\ index' = index /\ purging' = purging
          /\ blockMap \in [Values -> Block] /\ pageMap \in [Values -> Page] /\ pageMap[v] \in Page
      BY <1>2 DEF AddToNewBlock, AddToItsBlock, FullBlock, TakeValue, EncodeInv, EncodeType
    <3>2. pageMap'[w] = pageMap[w] /\ blockMap'[w] = blockMap[w]
      BY <1>2, <2>1, <2>3, <3>1 DEF AddToNewBlock, AddToItsBlock, FullBlock
    <3>3. outPutQ' = outPutQ \/ outPutQ' = Append(outPutQ, Queued(v, pageMap[v]))
      BY <1>2, <2>1 DEF AddToNewBlock, AddToItsBlock, FullBlock
    <3>4. OnlyGains(outPutQ, outPutQ', v)
      BY <1>1, <3>1, <3>3, GainsNothing, GainsPage
    <3> QED BY <2>3, <3>1, <3>2, <3>4, OthersOrder
  <2> QED BY <2>2, <2>3
<1>3. CASE PurgeValue
  <2>1. PICK v \in Values : v = purging
    BY <1>3 DEF PurgeValue, Values, EncodeInv, PurgePhase, EncodeType
  <2>2. CASE w = v
    BY <1>3, <2>1, <2>2, PurgeValueOrder
  <2>3. CASE w # v
    <3>1. /\ index' = index /\ purging' = purging + 1 /\ outPutQ' = outPutQ \o PurgedPages(v)
          /\ pageMap' = pageMap /\ blockMap' = blockMap
      BY <1>3, <2>1 DEF PurgeValue
    <3>2. purging' <= w => purging <= w
      BY <1>1, <3>1
    <3> QED BY <2>3, <3>1, <3>2, GainsPurged, OthersOrder
  <2> QED BY <2>2, <2>3
<1>4. CASE ClearMaps
  <2>1. index' = index /\ outPutQ' = outPutQ /\ purging' = K + 1
    BY <1>4 DEF ClearMaps, placer
  <2>2. ~ (purging' <= w)
    BY <2>1, ValuesAreNaturals DEF Values
  <2> QED BY <2>1, <2>2, PrimedOrder DEF Trails, TrailOrder
<1>5. CASE PlacePage
  BY <1>5, PlacePageOrder
<1>6. ASSUME UNCHANGED <<blockMap, pageMap, placer>>, purging' <= w => purging <= w
      PROVE  TrailOrder(w)'
  BY <1>6, PrimedOrder DEF Trails, TrailOrder, placer
<1>7. CASE PageFull \/ Drained \/ Scan \/ (\E read \in BOOLEAN : NewScan(read)) \/ UNCHANGED vars
  <2>1. UNCHANGED <<blockMap, pageMap, placer, purging>>
    BY <1>7 DEF PageFull, Drained, Scan, FetchPage, CheckOutBlock, AddOperand, NoMorePages,
                ReadError, NewScan, encoder, vars
  <2> QED BY <1>6, <2>1
<1>8. CASE SourceDry
  <2>1. UNCHANGED <<blockMap, pageMap, placer>> /\ purging = 0
    BY <1>8 DEF SourceDry, EncodeInv, PurgePhase
  <2> QED BY <1>1, <1>6, <2>1
<1> QED BY <1>2, <1>3, <1>4, <1>5, <1>7, <1>8 DEF Next, Encode

\* The list of the pages of a value, place by place.
LEMMA PagesOfValue ==
  ASSUME EncodeInv, NEW v \in Values
  PROVE  LET l == Len(index[v])
             n == Len(outPutQ)
         IN  /\ l \in Nat /\ n \in Nat /\ Len(Pages(v)) = l + n + 1
             /\ \A k \in 1 .. l : Pages(v)[k] = index[v][k]
             /\ \A k \in 1 .. n :
                  Pages(v)[l + k] = IF outPutQ[k].val = v THEN outPutQ[k].page ELSE <<>>
             /\ Pages(v)[l + n + 1] = MapPage(v)
<1> DEFINE l == Len(index[v])
           n == Len(outPutQ)
           q == QueuedPages(v)
           m == MapPage(v)
<1>1. index[v] \in Seq(Page) /\ outPutQ \in Seq(QueueEntry) /\ l \in Nat /\ n \in Nat
  BY DEF EncodeInv, EncodeType
<1>2. q \in Seq(Page) /\ Len(q) = n
        /\ \A k \in 1 .. n : q[k] = IF outPutQ[k].val = v THEN outPutQ[k].page ELSE <<>>
  <2>1. q = [k \in 1 .. n |-> IF outPutQ[k].val = v THEN outPutQ[k].page ELSE <<>>]
    BY DEF QueuedPages
  <2>2. \A k \in 1 .. n : (IF outPutQ[k].val = v THEN outPutQ[k].page ELSE <<>>) \in Page
    <3>1. \A k \in 1 .. n : outPutQ[k] \in QueueEntry
      BY <1>1
    <3>2. \A e \in QueueEntry : e.page \in Page
      BY DEF QueueEntry
    <3> QED BY <3>1, <3>2, EmptyPage
  <2>3. q \in [1 .. n -> Page]
    BY <2>1, <2>2
  <2> HIDE DEF q
  <2> QED BY <1>1, <2>1, <2>3
<1>3. m \in Page
  <2>1. blockMap[v] \in Block /\ pageMap[v] \in Page
    BY DEF EncodeInv, EncodeType
  <2> QED BY <2>1, AppendPage, EmptyPage DEF MapPage
<1> HIDE DEF q, m
<1>4. /\ index[v] \o q \in Seq(Page) /\ Len(index[v] \o q) = l + n
      /\ \A k \in 1 .. l : (index[v] \o q)[k] = index[v][k]
      /\ \A k \in 1 .. n : (index[v] \o q)[l + k] = q[k]
  <2>1. \A k \in 1 .. n : l + k \in 1 .. l + n /\ l + k > l /\ l + k - l = k
    BY <1>1
  <2>2. \A k \in 1 .. l : k \in 1 .. l + n /\ k <= l
    BY <1>1
  <2> QED BY <1>1, <1>2, <2>1, <2>2
<1> DEFINE r == index[v] \o q
<1> HIDE DEF r
<1>5. /\ Len(r \o <<m>>) = l + n + 1 /\ (r \o <<m>>)[l + n + 1] = m
      /\ \A k \in 1 .. l + n : (r \o <<m>>)[k] = r[k]
  <2>1. r \in Seq(Page) /\ Len(r) = l + n /\ r \o <<m>> = Append(r, m)
    BY <1>3, <1>4 DEF r
  <2> QED BY <1>1, <1>3, <2>1
<1>6. \A k \in 1 .. l : k \in 1 .. l + n
  BY <1>1
<1>7. \A k \in 1 .. n : l + k \in 1 .. l + n
  BY <1>1
<1>8. Pages(v) = r \o <<m>>
  BY DEF Pages, r, q, m
<1> QED BY <1>1, <1>2, <1>4, <1>5, <1>6, <1>7, <1>8 DEF r, m

\* The places of the index, of the queue, and of the maps.
LEMMA ThreeParts ==
  ASSUME NEW l \in Nat, NEW n \in Nat, NEW k \in 1 .. l + n + 1
  PROVE  \/ k \in 1 .. l /\ \A j \in 1 .. k - 1 : j \in 1 .. l
         \/ \E i \in 1 .. n :
              k = l + i /\ \A j \in 1 .. k - 1 : j \in 1 .. l \/ \E h \in 1 .. i - 1 : j = l + h
         \/ k = l + n + 1 /\ \A j \in 1 .. k - 1 : j \in 1 .. l \/ \E i \in 1 .. n : j = l + i
<1>1. CASE k <= l
  BY <1>1
<1>2. CASE k > l /\ k <= l + n
  <2> DEFINE i == k - l
  <2>1. i \in 1 .. n /\ k = l + i
    BY <1>2
  <2>2. ASSUME NEW j \in 1 .. k - 1, j > l
        PROVE  j - l \in 1 .. i - 1 /\ j = l + (j - l)
    BY <1>2, <2>2
  <2>3. \A j \in 1 .. k - 1 : ~ (j > l) => j \in 1 .. l
    OBVIOUS
  <2> QED BY <2>1, <2>2, <2>3
<1>3. CASE k = l + n + 1
  <2>1. ASSUME NEW j \in 1 .. k - 1, j > l
        PROVE  j - l \in 1 .. n /\ j = l + (j - l)
    BY <1>3, <2>1
  <2>2. \A j \in 1 .. k - 1 : ~ (j > l) => j \in 1 .. l
    OBVIOUS
  <2> QED BY <1>3, <2>1, <2>2
<1> QED BY <1>1, <1>2, <1>3

LEMMA TrailsAscend ==
  ASSUME EncodeInv, Trails
  PROVE  TrailAscends /\ PagesFull
<1>1. ASSUME NEW v \in Values
      PROVE  \A k \in 1 .. Len(Pages(v)) :
               Ascends(Pages(v)[k]) /\ \A j \in 1 .. k - 1 : PagePrecedes(Pages(v)[j], Pages(v)[k])
  <2> DEFINE l == Len(index[v])
             n == Len(outPutQ)
             m == MapPage(v)
             p == Pages(v)
  <2>1. /\ l \in Nat /\ n \in Nat /\ Len(p) = l + n + 1
        /\ \A k \in 1 .. l : p[k] = index[v][k]
        /\ \A k \in 1 .. n : p[l + k] = IF outPutQ[k].val = v THEN outPutQ[k].page ELSE <<>>
        /\ p[l + n + 1] = m
    BY PagesOfValue
  <2>2. /\ Placed(index[v], outPutQ, v)
        /\ purging <= v => InMapsOrder(index[v], outPutQ, v, pageMap[v], blockMap[v])
    BY DEF Trails, TrailOrder
  \* the page in the maps is behind all others
  <2>3. /\ Ascends(m)
        /\ \A k \in 1 .. l : PagePrecedes(index[v][k], m)
        /\ \A k \in 1 .. n : outPutQ[k].val = v => PagePrecedes(outPutQ[k].page, m)
    <3>1. /\ purging \in Nat /\ v \in Nat /\ blockMap[v] \in Block /\ pageMap[v] \in Page
          /\ index[v] \in Seq(Page) /\ outPutQ \in Seq(QueueEntry)
      BY ValuesAreNaturals DEF EncodeInv, EncodeType
    <3>2. CASE purging > v
      BY <3>2, EmptyAscends DEF MapPage
    <3>3. CASE purging <= v /\ blockMap[v] = NoBlock
      <4>1. m = pageMap[v]
        BY <3>1, <3>3 DEF MapPage
      <4> QED BY <2>2, <3>3, <4>1 DEF InMapsOrder, AllLead, Leads
    <3>4. CASE purging <= v /\ blockMap[v] # NoBlock
      <4>1. m = Append(pageMap[v], blockMap[v])
        BY <3>1, <3>4 DEF MapPage
      <4>2. /\ Kempt(blockMap[v]) /\ PageBefore(pageMap[v], blockMap[v]) /\ Ascends(pageMap[v])
            /\ AllBefore(index[v], outPutQ, v, blockMap[v]) /\ AllLead(index[v], outPutQ, v, pageMap[v])
        BY <2>2, <3>4 DEF InMapsOrder
      <4>3. Ascends(m) /\ AllLead(index[v], outPutQ, v, m)
        BY <3>1, <4>1, <4>2, AppendAscends, BlockBehindAll
      <4> QED BY <4>3 DEF AllLead, Leads
    <3> QED BY <3>1, <3>2, <3>3, <3>4
  <2> HIDE DEF p, m
  <2>5. ASSUME NEW k \in 1 .. l + n + 1
        PROVE  Ascends(p[k]) /\ \A j \in 1 .. k - 1 : PagePrecedes(p[j], p[k])
    <3>1. CASE k \in 1 .. l /\ \A j \in 1 .. k - 1 : j \in 1 .. l
      BY <2>1, <2>2, <3>1 DEF Placed, PageOK, Leads
    <3>2. ASSUME NEW i \in 1 .. n, k = l + i,
                 \A j \in 1 .. k - 1 : j \in 1 .. l \/ \E h \in 1 .. i - 1 : j = l + h
          PROVE  Ascends(p[k]) /\ \A j \in 1 .. k - 1 : PagePrecedes(p[j], p[k])
      <4>1. CASE outPutQ[i].val # v
        BY <2>1, <3>2, <4>1, EmptyAscends
      <4>2. CASE outPutQ[i].val = v
        <5>1. p[k] = outPutQ[i].page /\ Ascends(p[k])
          BY <2>1, <2>2, <3>2, <4>2 DEF Placed, PageOK
        <5>2. \A j \in 1 .. l : PagePrecedes(p[j], p[k])
          BY <2>1, <2>2, <4>2, <5>1 DEF Placed, Leads
        <5>3. \A h \in 1 .. i - 1 : h \in 1 .. n
          BY <2>1
        <5>4. \A h \in 1 .. i - 1 : PagePrecedes(p[l + h], p[k])
          BY <2>1, <2>2, <4>2, <5>1, <5>3, EmptyAscends DEF Placed, Leads
        <5> QED BY <3>2, <5>1, <5>2, <5>4
      <4> QED BY <4>1, <4>2
    <3>3. CASE k = l + n + 1 /\ \A j \in 1 .. k - 1 : j \in 1 .. l \/ \E i \in 1 .. n : j = l + i
      BY <2>1, <2>3, <3>3, EmptyAscends
    <3>4. \/ k \in 1 .. l /\ \A j \in 1 .. k - 1 : j \in 1 .. l
          \/ \E i \in 1 .. n :
               k = l + i /\ \A j \in 1 .. k - 1 : j \in 1 .. l \/ \E h \in 1 .. i - 1 : j = l + h
          \/ k = l + n + 1 /\ \A j \in 1 .. k - 1 : j \in 1 .. l \/ \E i \in 1 .. n : j = l + i
      <4>1. l \in Nat /\ n \in Nat
        BY <2>1
      <4> HIDE DEF l, n
      <4> QED BY <4>1, ThreeParts
    <3> QED BY <3>1, <3>2, <3>3, <3>4, Zenon
  <2> QED BY <2>1, <2>5 DEF p
<1>2. TrailAscends
  BY <1>1 DEF TrailAscends
<1>3. PagesFull
  <2> SUFFICES ASSUME NEW v \in Values, NEW i \in 1 .. Len(index[v])
               PROVE  /\ Len(index[v][i]) \in 1 .. PageBlocks
                      /\ i < Len(index[v]) => Len(index[v][i]) = PageBlocks
    BY DEF PagesFull
  <2>1. Placed(index[v], outPutQ, v) /\ Len(index[v]) \in Nat
    BY DEF Trails, TrailOrder, EncodeInv, EncodeType
  <2>2. ASSUME i < Len(index[v])
        PROVE  Leads(index[v][i], index[v][i + 1])
    <3>1. i + 1 \in 1 .. Len(index[v]) /\ i \in 1 .. i + 1 - 1
      BY <2>1, <2>2
    <3> QED BY <2>1, <3>1 DEF Placed
  <2> QED BY <2>1, <2>2 DEF Placed, PageOK, Leads
<1> QED BY <1>2, <1>3

----------------------------------------------------------------------------
(* Filters made of ascending blocks *)

\* A filter with the blocks of an index page, or some of the first.
Built(f) == FilterOK(f) /\ Ordered(f) /\ Ascends(f.blocks)

LEMMA EmptyBuilt == Built(EmptyFilter)
<1>1. EmptyFilter.blocks = <<>> /\ EmptyFilter.startPos = 0 /\ EmptyFilter.endPos = 0
  BY DEF EmptyFilter
<1>2. 1 .. Len(<<>>) = {}
  OBVIOUS
<1>3. Ordered(EmptyFilter)
  BY <1>1, <1>2 DEF Ordered
<1> QED BY <1>1, <1>3, EmptyFilterOK, EmptyAscends DEF Built

\* The first block left of a page is checked out.
LEMMA CheckedOutBuilt ==
  ASSUME NEW f, Built(f), NEW page \in Page, page # <<>>, Ascends(page),
         PagePrecedes(f.blocks, page)
  PROVE  /\ Built(AddPosFilterBlock(f, Head(page)))
         /\ PagePrecedes(AddPosFilterBlock(f, Head(page)).blocks, Tail(page))
         /\ Ascends(Tail(page))
<1> DEFINE b == Head(page)
           t == Tail(page)
           g == AddPosFilterBlock(f, b)
           n == Len(f.blocks)
<1>1. /\ b \in Block /\ t \in Page /\ Kempt(b) /\ Ascends(t)
      /\ PagePrecedes(<<b>>, t) /\ PageBefore(f.blocks, b) /\ PagePrecedes(f.blocks, t)
  BY RestAscends
<1>2. /\ FilterOK(f) /\ Ordered(f) /\ Ascends(f.blocks) /\ f.blocks \in Page /\ n \in Nat
      /\ (f.blocks # <<>> => n >= 1) /\ f.endPos \in Nat
  BY FilterFields DEF Built, FilterOK, Page
<1> HIDE DEF b, t, g
<1>3. b.start > f.endPos
  <2>1. CASE f.blocks = <<>>
    BY <1>1, <1>2, <2>1, KemptBounds DEF Ordered
  <2>2. CASE f.blocks # <<>>
    <3>1. n \in 1 .. n /\ f.endPos = f.blocks[n].end
      BY <1>2, <2>2 DEF Ordered
    <3>2. f.blocks[n].end < b.start
      BY <1>1, <3>1 DEF PageBefore, Precedes
    <3> QED BY <1>1, <1>2, <3>1, <3>2, KemptBounds
  <2> QED BY <2>1, <2>2
<1>4. FilterOK(g) /\ Ordered(g) /\ g.blocks = Append(f.blocks, b)
  BY <1>1, <1>2, <1>3, AddBlockBehind, KemptBounds DEF g
<1>5. Ascends(g.blocks)
  BY <1>1, <1>2, <1>4, AppendAscends
<1>6. PagePrecedes(g.blocks, t)
  <2> DEFINE r == Append(f.blocks, b)
  <2>1. Len(r) = n + 1 /\ r[n + 1] = b /\ \A k \in 1 .. n : r[k] = f.blocks[k]
    BY <1>1, <1>2 DEF Page
  <2> HIDE DEF r
  <2>2. \A k \in 1 .. n + 1 : k \in 1 .. n \/ k = n + 1
    BY <1>2
  <2>3. \A k \in 1 .. Len(t) : Precedes(b, t[k])
    <3>1. Len(<<b>>) = 1 /\ <<b>>[1] = b /\ 1 \in 1 .. 1
      OBVIOUS
    <3> QED BY <1>1, <3>1 DEF PagePrecedes
  <2>4. PagePrecedes(r, t)
    BY <1>1, <2>1, <2>2, <2>3 DEF PagePrecedes
  <2> QED BY <1>4, <2>4 DEF r
<1> QED BY <1>1, <1>4, <1>5, <1>6 DEF Built, b, t, g

----------------------------------------------------------------------------
(* Checked out or added, the filter is the same *)

\* g is what addPosition has made of the positions of f up to k: the blocks of f
\* that begin by then, and of each the positions by then.
MadeUpto(g, f, k) ==
  /\ FilterOK(g) /\ Ordered(g) /\ g.endPos <= k
  /\ Len(g.blocks) <= Len(f.blocks)
  /\ \A j \in 1 .. Len(f.blocks) : j <= Len(g.blocks) <=> f.blocks[j].start <= k
  /\ \A j \in 1 .. Len(g.blocks) :
       /\ g.blocks[j].start = f.blocks[j].start /\ g.blocks[j].currPos = 0
       /\ g.blocks[j].bits = {q \in f.blocks[j].bits : q <= k}
       /\ g.blocks[j].end \in f.blocks[j].bits
       /\ \A q \in g.blocks[j].bits : q <= g.blocks[j].end

\* The blocks of such a filter.
LEMMA BuiltBlocks ==
  ASSUME NEW f, Built(f)
  PROVE  /\ Len(f.blocks) \in Nat /\ f.blocks \in Seq(Block)
         /\ \A j \in 1 .. Len(f.blocks) :
              /\ f.blocks[j] \in Block /\ Kempt(f.blocks[j])
              /\ f.blocks[j].start \in Nat /\ f.blocks[j].end \in Nat
              /\ 0 < f.blocks[j].start /\ f.blocks[j].start <= f.blocks[j].end
              /\ \A q \in f.blocks[j].bits :
                   q \in Nat /\ f.blocks[j].start <= q /\ q <= f.blocks[j].end
         /\ \A j \in 1 .. Len(f.blocks) : \A i \in 1 .. j - 1 :
              Precedes(f.blocks[i], f.blocks[j])
<1>1. /\ Len(f.blocks) \in Nat /\ f.blocks \in Seq(Block)
      /\ \A j \in 1 .. Len(f.blocks) : f.blocks[j] \in Block
  BY FilterFields DEF Built, FilterOK
<1>2. ASSUME NEW j \in 1 .. Len(f.blocks)
      PROVE  /\ Kempt(f.blocks[j]) /\ f.blocks[j].start \in Nat /\ f.blocks[j].end \in Nat
             /\ 0 < f.blocks[j].start /\ f.blocks[j].start <= f.blocks[j].end
             /\ \A q \in f.blocks[j].bits :
                  q \in Nat /\ f.blocks[j].start <= q /\ q <= f.blocks[j].end
  <2>1. f.blocks[j] \in Block /\ Kempt(f.blocks[j])
    BY <1>1 DEF Built, Ascends
  <2>2. \A q \in f.blocks[j].bits : q \in f.blocks[j].start .. f.blocks[j].end
    BY <2>1 DEF Kempt
  <2> QED BY <2>1, <2>2, KemptBounds
<1> QED BY <1>1, <1>2 DEF Built, Ascends

\* Nothing is made of no positions.
LEMMA MadeOfNone ==
  ASSUME NEW f, Built(f)
  PROVE  MadeUpto(EmptyFilter, f, 0)
<1>1. /\ EmptyFilter.blocks = <<>> /\ EmptyFilter.endPos = 0 /\ Len(<<>>) = 0
      /\ 1 .. 0 = {}
  BY DEF EmptyFilter
<1>2. FilterOK(EmptyFilter) /\ Ordered(EmptyFilter)
  BY EmptyBuilt DEF Built
<1>3. Len(f.blocks) \in Nat /\ \A j \in 1 .. Len(f.blocks) : f.blocks[j].start \in Nat /\ 0 < f.blocks[j].start
  BY BuiltBlocks
<1> QED BY <1>1, <1>2, <1>3 DEF MadeUpto

\* What all positions make is the filter itself.
LEMMA MadeOfAll ==
  ASSUME NEW f, Built(f), NEW g, NEW k \in Nat, MadeUpto(g, f, k),
         \A q \in PositionsOf(f) : q <= k
  PROVE  f.blocks = g.blocks /\ f.startPos = g.startPos /\ f.endPos = g.endPos
<1> DEFINE n == Len(f.blocks)
<1>1. /\ n \in Nat /\ f.blocks \in Seq(Block) /\ g.blocks \in Seq(Block) /\ Len(g.blocks) \in Nat
      /\ \A j \in 1 .. Len(g.blocks) : g.blocks[j] \in Block
  BY BuiltBlocks, FilterFields DEF MadeUpto, FilterOK
<1>2. \A j \in 1 .. n : \A q \in f.blocks[j].bits : q <= k
  BY DEF PositionsOf
<1>3. \A j \in 1 .. n : f.blocks[j].start <= k
  BY <1>2, BuiltBlocks DEF Kempt
<1>4. Len(g.blocks) = n
  <2>1. CASE n = 0
    BY <1>1, <2>1 DEF MadeUpto
  <2>2. CASE n # 0
    <3>1. n \in 1 .. n
      BY <1>1, <2>2
    <3>2. n <= Len(g.blocks) /\ Len(g.blocks) <= n
      BY <1>3, <3>1 DEF MadeUpto
    <3> QED BY <1>1, <3>2
  <2> QED BY <2>1, <2>2
<1>5. ASSUME NEW j \in 1 .. n
      PROVE  f.blocks[j] = g.blocks[j]
  <2> DEFINE a == f.blocks[j]
             b == g.blocks[j]
  <2>1. a \in Block /\ b \in Block /\ Kempt(a)
    BY <1>1, <1>4, BuiltBlocks
  <2>2. b.start = a.start /\ b.currPos = a.currPos /\ b.bits = a.bits /\ b.end \in a.bits
    <3>1. a.bits = {q \in a.bits : q <= k}
      BY <1>2
    <3> QED BY <1>4, <2>1, <3>1 DEF MadeUpto, Kempt
  <2>3. b.start <= b.end /\ b.end <= a.end
    BY <2>1, <2>2, BuiltBlocks
  \* the last position of a block is its end
  <2>4. b.end = a.end
    <3>1. a.end <= b.end
      <4>1. a.end \in b.bits
        BY <2>1, <2>2 DEF Kempt
      <4> QED BY <4>1, <1>4 DEF MadeUpto
    <3>2. a.end \in Nat /\ b.end \in Nat
      BY <2>1 DEF Block
    <3> QED BY <2>3, <3>1, <3>2
  <2>5. ASSUME NEW x \in Block, NEW y \in Block, x.start = y.start, x.end = y.end,
               x.bits = y.bits, x.currPos = y.currPos
        PROVE  x = y
    <3>1. ASSUME NEW z \in Block
          PROVE  z = [start |-> z.start, end |-> z.end, bits |-> z.bits, currPos |-> z.currPos]
      BY DEF Block
    <3> QED BY <2>5, <3>1
  <2> HIDE DEF a, b
  <2>6. a = b
    BY <2>1, <2>2, <2>4, <2>5
  <2> QED BY <2>6 DEF a, b
<1>6. f.blocks = g.blocks
  <2> DEFINE s == f.blocks
             t == g.blocks
  <2>1. s \in Seq(Block) /\ t \in Seq(Block) /\ Len(s) = Len(t) /\ \A j \in 1 .. Len(s) : s[j] = t[j]
    BY <1>1, <1>4, <1>5
  <2> HIDE DEF s, t
  <2>2. s = t
    BY <2>1, SeqEqual
  <2> QED BY <2>2 DEF s, t
<1> QED BY <1>6 DEF Built, MadeUpto, Ordered

\* A position no block has adds nothing.
LEMMA MadeWithout ==
  ASSUME NEW f, Built(f), NEW k \in Nat, NEW g, MadeUpto(g, f, k), k + 1 \notin PositionsOf(f)
  PROVE  MadeUpto(g, f, k + 1)
<1>1. ASSUME NEW j \in 1 .. Len(f.blocks)
      PROVE  k + 1 \notin f.blocks[j].bits /\ (f.blocks[j].start <= k <=> f.blocks[j].start <= k + 1)
  <2>1. k + 1 \notin f.blocks[j].bits
    BY DEF PositionsOf
  <2>2. f.blocks[j].start \in Nat /\ f.blocks[j].start # k + 1
    BY <2>1, BuiltBlocks DEF Kempt
  <2> QED BY <2>1, <2>2
<1>2. ASSUME NEW j \in 1 .. Len(f.blocks)
      PROVE  {q \in f.blocks[j].bits : q <= k + 1} = {q \in f.blocks[j].bits : q <= k}
  <2>1. \A q \in f.blocks[j].bits : q \in Nat /\ q # k + 1
    BY <1>1, BuiltBlocks
  <2> QED BY <2>1
<1>3. g.endPos \in Nat /\ Len(g.blocks) \in Nat /\ Len(f.blocks) \in Nat
  BY FilterFields, BuiltBlocks DEF MadeUpto, FilterOK
<1>4. g.endPos <= k + 1
  BY <1>3 DEF MadeUpto
<1>5. \A j \in 1 .. Len(g.blocks) : j \in 1 .. Len(f.blocks)
  BY <1>3 DEF MadeUpto
<1> QED BY <1>1, <1>2, <1>4, <1>5 DEF MadeUpto

\* The first position of a block finds no room in the last one.
LEMMA MadeWithFirst ==
  ASSUME NEW f, Built(f), NEW k \in Nat, NEW g, MadeUpto(g, f, k),
         NEW i \in 1 .. Len(f.blocks), f.blocks[i].start = k + 1
  PROVE  MadeUpto(AddPosition(g, k + 1), f, k + 1)
<1> DEFINE p == k + 1
           h == AddPosition(g, p)
           n == Len(g.blocks)
           c == EmptyBuffer(p)
<1>1. /\ FilterOK(g) /\ Ordered(g) /\ g.endPos \in Nat /\ g.endPos < p /\ n \in Nat /\ p \in Nat
      /\ g.blocks \in Seq(Block) /\ Len(f.blocks) \in Nat /\ (g.blocks # <<>> <=> n # 0)
  BY FilterFields, BuiltBlocks DEF MadeUpto, FilterOK
<1>2. c \in Block /\ c.start = p /\ c.end = p /\ c.bits = {p} /\ c.currPos = 0
  BY <1>1, EmptyBufferType DEF EmptyBuffer
<1>3. FilterOK(h) /\ Ordered(h) /\ h.endPos = p
  BY <1>1, AddPositionAscending, AddPositionSound
\* the block is the one behind those made so far
<1>4. ASSUME NEW j \in 1 .. Len(f.blocks)
      PROVE  (j < i => f.blocks[j].end < p) /\ (i < j => f.blocks[j].start > p)
  <2>1. /\ f.blocks[j].start \in Nat /\ f.blocks[j].end \in Nat /\ f.blocks[i].end \in Nat
        /\ f.blocks[i].start <= f.blocks[i].end
    BY BuiltBlocks
  <2>2. j < i => f.blocks[j].end < f.blocks[i].start
    BY BuiltBlocks DEF Precedes
  <2>3. i < j => f.blocks[i].end < f.blocks[j].start
    BY BuiltBlocks DEF Precedes
  <2> QED BY <1>1, <2>1, <2>2, <2>3
<1>5. n = i - 1
  <2>1. i > n
    <3>1. ~ (f.blocks[i].start <= k)
      OBVIOUS
    <3> QED BY <1>1, <3>1 DEF MadeUpto
  <2>2. ASSUME n + 1 < i
        PROVE  FALSE
    <3>1. n + 1 \in 1 .. Len(f.blocks) /\ n + 1 < i
      BY <1>1, <2>2
    <3>2. f.blocks[n + 1].end < p /\ f.blocks[n + 1].start <= f.blocks[n + 1].end
          /\ f.blocks[n + 1].start \in Nat /\ f.blocks[n + 1].end \in Nat
      BY <1>4, <3>1, BuiltBlocks
    <3>3. f.blocks[n + 1].start <= k
      BY <3>2
    <3>4. n + 1 <= n
      BY <3>1, <3>3 DEF MadeUpto
    <3> QED BY <1>1, <3>4
  <2> QED BY <1>1, <2>1, <2>2
<1>6. ~ (g.blocks # <<>> /\ BlockAccepts(g.blocks[n], p))
  <2> SUFFICES ASSUME g.blocks # <<>>, BlockAccepts(g.blocks[n], p) PROVE FALSE
    OBVIOUS
  <2>1. n \in 1 .. n /\ n \in 1 .. i - 1 /\ n \in 1 .. Len(f.blocks)
    BY <1>1, <1>5
  <2>2. g.blocks[n].start = f.blocks[n].start /\ g.blocks[n].end \in f.blocks[n].bits
    BY <2>1 DEF MadeUpto
  <2>3. ~ Fits(f.blocks[n].start, p) /\ f.blocks[n].end < p
    BY <2>1, BuiltBlocks DEF Precedes
  <2>4. /\ g.blocks[n].end < p /\ g.blocks[n].start <= g.blocks[n].end
        /\ g.blocks[n].end \in Nat /\ g.blocks[n].start \in Nat
    BY <1>1, <2>1, <2>2, <2>3, BuiltBlocks
  <2> QED BY <1>1, <2>2, <2>3, <2>4 DEF BlockAccepts
<1>7. h.blocks = Append(g.blocks, c)
  BY <1>1, <1>6, AddPositionBehind
<1> HIDE DEF h, c
<1>8. /\ Len(h.blocks) = n + 1 /\ h.blocks[n + 1] = c
      /\ \A j \in 1 .. n : h.blocks[j] = g.blocks[j]
  BY <1>1, <1>2, <1>7
<1>9. Len(h.blocks) <= Len(f.blocks)
  BY <1>1, <1>5, <1>8
<1>10. ASSUME NEW j \in 1 .. Len(f.blocks)
       PROVE  j <= n + 1 <=> f.blocks[j].start <= p
  <2>1. f.blocks[j].start \in Nat /\ f.blocks[j].end \in Nat /\ f.blocks[j].start <= f.blocks[j].end
    BY BuiltBlocks
  <2> QED BY <1>1, <1>4, <1>5, <2>1
<1>11. ASSUME NEW j \in 1 .. n + 1
       PROVE  /\ h.blocks[j].start = f.blocks[j].start /\ h.blocks[j].currPos = 0
              /\ h.blocks[j].bits = {q \in f.blocks[j].bits : q <= p}
              /\ h.blocks[j].end \in f.blocks[j].bits
              /\ \A q \in h.blocks[j].bits : q <= h.blocks[j].end
  <2>1. CASE j = n + 1
    <3>1. j = i /\ h.blocks[j] = c
      BY <1>1, <1>5, <1>8, <2>1
    <3>2. p \in f.blocks[i].bits /\ \A q \in f.blocks[i].bits : q \in Nat /\ p <= q
      BY BuiltBlocks DEF Kempt
    <3>3. {q \in f.blocks[i].bits : q <= p} = {p}
      BY <1>1, <3>2
    <3> QED BY <1>1, <1>2, <3>1, <3>2, <3>3
  <2>2. CASE j # n + 1
    <3>1. j \in 1 .. n /\ j < i /\ j \in 1 .. Len(f.blocks)
      BY <1>1, <1>5, <2>2
    <3>2. f.blocks[j].end < p /\ f.blocks[j].end \in Nat
          /\ \A q \in f.blocks[j].bits : q \in Nat /\ q <= f.blocks[j].end
      BY <1>4, <3>1, BuiltBlocks
    <3>3. \A q \in f.blocks[j].bits : q <= p /\ q <= k
      BY <1>1, <3>2
    <3>4. {q \in f.blocks[j].bits : q <= p} = {q \in f.blocks[j].bits : q <= k}
      BY <3>3
    <3>5. h.blocks[j] = g.blocks[j]
      BY <1>8, <3>1
    <3> QED BY <3>1, <3>4, <3>5 DEF MadeUpto
  <2> QED BY <2>1, <2>2
<1> QED BY <1>1, <1>3, <1>8, <1>9, <1>10, <1>11 DEF MadeUpto, h

\* Every other position finds room in its block, which is the last.
LEMMA MadeWithMore ==
  ASSUME NEW f, Built(f), NEW k \in Nat, NEW g, MadeUpto(g, f, k),
         NEW i \in 1 .. Len(f.blocks), k + 1 \in f.blocks[i].bits, f.blocks[i].start # k + 1
  PROVE  MadeUpto(AddPosition(g, k + 1), f, k + 1)
<1> DEFINE p == k + 1
           h == AddPosition(g, p)
           n == Len(g.blocks)
           b == g.blocks[n]
           c == BlockAdd(b, p)
<1>1. /\ FilterOK(g) /\ Ordered(g) /\ g.endPos \in Nat /\ g.endPos < p /\ n \in Nat /\ p \in Nat
      /\ g.blocks \in Seq(Block) /\ Len(f.blocks) \in Nat /\ (g.blocks # <<>> <=> n # 0)
  BY FilterFields, BuiltBlocks DEF MadeUpto, FilterOK
<1>2. FilterOK(h) /\ Ordered(h) /\ h.endPos = p
  BY <1>1, AddPositionAscending, AddPositionSound
<1>3. /\ f.blocks[i].start \in Nat /\ f.blocks[i].end \in Nat /\ f.blocks[i].start <= k
      /\ p <= f.blocks[i].end /\ Kempt(f.blocks[i])
  BY <1>1, BuiltBlocks
<1>4. ASSUME NEW j \in 1 .. Len(f.blocks)
      PROVE  (j < i => f.blocks[j].end <= k) /\ (i < j => f.blocks[j].start > p)
  <2>1. f.blocks[j].start \in Nat /\ f.blocks[j].end \in Nat
    BY BuiltBlocks
  <2>2. j < i => f.blocks[j].end < f.blocks[i].start
    BY BuiltBlocks DEF Precedes
  <2>3. i < j => f.blocks[i].end < f.blocks[j].start
    BY BuiltBlocks DEF Precedes
  <2> QED BY <1>1, <1>3, <2>1, <2>2, <2>3
<1>5. n = i
  <2>1. i <= n
    BY <1>3 DEF MadeUpto
  <2>2. ASSUME i < n
        PROVE  FALSE
    <3>1. n \in 1 .. Len(f.blocks)
      BY <1>1, <2>2 DEF MadeUpto
    <3>2. f.blocks[n].start <= k
      BY <1>1, <3>1 DEF MadeUpto
    <3>3. f.blocks[n].start > p /\ f.blocks[n].start \in Nat
      BY <1>4, <2>2, <3>1, BuiltBlocks
    <3> QED BY <1>1, <3>2, <3>3
  <2> QED BY <1>1, <2>1, <2>2
<1>6. /\ n \in 1 .. n /\ n # 0 /\ b \in Block /\ b.start <= b.end /\ b.end = g.endPos
      /\ b.start \in Nat /\ b.end \in Nat
  <2>1. n \in 1 .. n /\ n # 0
    BY <1>1, <1>5
  <2>2. b \in Block
    BY <1>1, <2>1
  <2> QED BY <1>1, <2>1, <2>2 DEF Ordered, Block
<1>7. /\ b.start = f.blocks[i].start /\ b.currPos = 0 /\ b.bits = {q \in f.blocks[i].bits : q <= k}
      /\ b.end \in f.blocks[i].bits /\ \A q \in b.bits : q <= b.end
  BY <1>5, <1>6 DEF MadeUpto
<1>8. Fits(b.start, p)
  <2>1. Fits(f.blocks[i].start, f.blocks[i].end)
    BY <1>3 DEF Kempt
  <2>2. p \in f.blocks[i].start .. f.blocks[i].end
        /\ f.blocks[i].start \in f.blocks[i].start .. f.blocks[i].end
    BY <1>1, <1>3
  <2> QED BY <1>3, <1>7, <2>1, <2>2, FitsInside
<1>9. g.blocks # <<>> /\ BlockAccepts(b, p)
  BY <1>1, <1>6, <1>8 DEF BlockAccepts
<1>10. h.blocks = [g.blocks EXCEPT ![n] = c]
  BY <1>1, <1>9, AddPositionBehind
<1>11. c \in Block /\ c.start = b.start /\ c.end = p /\ c.bits = b.bits \cup {p} /\ c.currPos = 0
  <2>1. c \in Block /\ c.start = b.start /\ c.end = p /\ c.bits = b.bits \cup {p}
    BY <1>1, <1>6, BlockAddBehind
  <2>2. c.currPos = b.currPos
    BY <1>6 DEF BlockAdd, Block
  <2> QED BY <1>7, <2>1, <2>2
<1> HIDE DEF h, b, c
<1>12. Len(h.blocks) = n /\ \A j \in 1 .. n : h.blocks[j] = IF j = n THEN c ELSE g.blocks[j]
  BY <1>1, <1>6, <1>10, <1>11, ExceptSeq
<1>13. n <= Len(f.blocks)
  BY DEF MadeUpto
<1>14. ASSUME NEW j \in 1 .. Len(f.blocks)
       PROVE  j <= n <=> f.blocks[j].start <= p
  <2>1. f.blocks[j].start \in Nat /\ f.blocks[j].end \in Nat /\ f.blocks[j].start <= f.blocks[j].end
    BY BuiltBlocks
  <2> QED BY <1>1, <1>3, <1>4, <1>5, <2>1
<1>15. ASSUME NEW j \in 1 .. n
       PROVE  /\ h.blocks[j].start = f.blocks[j].start /\ h.blocks[j].currPos = 0
              /\ h.blocks[j].bits = {q \in f.blocks[j].bits : q <= p}
              /\ h.blocks[j].end \in f.blocks[j].bits
              /\ \A q \in h.blocks[j].bits : q <= h.blocks[j].end
  <2>1. CASE j = n
    <3>1. j = i /\ h.blocks[j] = c
      BY <1>5, <1>12, <2>1
    <3>2. {q \in f.blocks[i].bits : q <= p} = {q \in f.blocks[i].bits : q <= k} \cup {p}
      <4>1. \A q \in f.blocks[i].bits : q \in Nat
        BY BuiltBlocks
      <4> QED BY <1>1, <4>1
    <3>3. \A q \in c.bits : q <= p
      <4>1. \A q \in f.blocks[i].bits : q \in Nat
        BY BuiltBlocks
      <4> QED BY <1>1, <1>7, <1>11, <4>1
    <3> QED BY <1>7, <1>11, <3>1, <3>2, <3>3
  <2>2. CASE j # n
    <3>1. j < i /\ j \in 1 .. Len(f.blocks)
      BY <1>1, <1>5, <1>13, <2>2
    <3>2. f.blocks[j].end <= k /\ f.blocks[j].end \in Nat
          /\ \A q \in f.blocks[j].bits : q \in Nat /\ q <= f.blocks[j].end
      BY <1>4, <3>1, BuiltBlocks
    <3>3. \A q \in f.blocks[j].bits : q <= p /\ q <= k
      BY <1>1, <3>2
    <3>4. {q \in f.blocks[j].bits : q <= p} = {q \in f.blocks[j].bits : q <= k}
      BY <3>3
    <3>5. h.blocks[j] = g.blocks[j]
      BY <1>12, <2>2
    <3> QED BY <3>4, <3>5 DEF MadeUpto
  <2> QED BY <2>1, <2>2
<1> QED BY <1>1, <1>2, <1>12, <1>13, <1>14, <1>15 DEF MadeUpto, h

LEMMA MadeNext ==
  ASSUME NEW f, Built(f), NEW k \in Nat, NEW g, MadeUpto(g, f, k)
  PROVE  MadeUpto(IF k + 1 \in PositionsOf(f) THEN AddPosition(g, k + 1) ELSE g, f, k + 1)
<1>1. CASE k + 1 \notin PositionsOf(f)
  BY <1>1, MadeWithout
<1>2. CASE k + 1 \in PositionsOf(f)
  <2>1. PICK i \in 1 .. Len(f.blocks) : k + 1 \in f.blocks[i].bits
    BY <1>2 DEF PositionsOf
  <2> QED BY <1>2, <2>1, MadeWithFirst, MadeWithMore
<1> QED BY <1>1, <1>2

----------------------------------------------------------------------------
\* A filter made of ascending blocks is what addPosition makes of its positions.
LEMMA AsAddedIs ==
  ASSUME NEW f, Built(f), PositionsOf(f) \subseteq Rows
  PROVE  LET g == AsAdded(PositionsOf(f))
         IN  f.blocks = g.blocks /\ f.startPos = g.startPos /\ f.endPos = g.endPos
<1> DEFINE S == PositionsOf(f)
           F == CHOOSE h : h = AddedUpto(S, h, N)
<1>1. N \in Nat /\ Rows = 1 .. N
  BY ColumnAssumption DEF Rows
<1>2. F = AddedUpto(S, F, N)
  <2>1. \E h : h = AddedUpto(S, h, N)
    BY <1>1, AddedUptoExists
  <2> QED BY <2>1, Zenon
<1>3. AsAdded(S) = F[N]
  BY Zenon DEF AsAdded, AddedUpto
<1> HIDE DEF F
<1>4. /\ F[0] = EmptyFilter
      /\ \A p \in Rows : F[p] = IF p \in S THEN AddPosition(F[p - 1], p) ELSE F[p - 1]
  <2>1. 0 \in 0 .. N /\ \A p \in Rows : p \in 0 .. N /\ p # 0
    BY <1>1
  <2>2. \A p \in 0 .. N : F[p] = AddedUpto(S, F, N)[p]
    BY <1>2
  <2> QED BY <2>1, <2>2 DEF AddedUpto
<1> DEFINE Wrong == {p \in 0 .. N : ~ MadeUpto(F[p], f, p)}
<1>5. Wrong = {}
  <2> SUFFICES ASSUME Wrong # {} PROVE FALSE
    OBVIOUS
  <2>1. PICK p \in Wrong : \A q \in Wrong : p <= q
    <3>1. Wrong \subseteq Nat
      BY <1>1
    <3> QED BY <3>1, LeastExists
  <2>2. p # 0
    <3>1. MadeUpto(F[0], f, 0)
      BY <1>4, MadeOfNone
    <3> QED BY <2>1, <3>1
  <2>3. PICK k \in 0 .. N : p = k + 1 /\ k \in Nat /\ p \in Rows /\ p - 1 = k
    <3>1. p - 1 \in 0 .. N /\ p = (p - 1) + 1 /\ p - 1 \in Nat /\ p \in Rows
      BY <1>1, <2>1, <2>2
    <3> QED BY <3>1
  <2>4. MadeUpto(F[k], f, k)
    BY <2>1, <2>3
  <2>5. MadeUpto(F[p], f, p)
    <3>1. F[p] = IF k + 1 \in PositionsOf(f) THEN AddPosition(F[k], k + 1) ELSE F[k]
      BY <1>4, <2>3
    <3> QED BY <2>3, <2>4, <3>1, MadeNext
  <2> QED BY <2>1, <2>5
<1>6. MadeUpto(F[N], f, N)
  BY <1>1, <1>5
<1>7. \A q \in PositionsOf(f) : q <= N
  BY <1>1
<1> QED BY <1>1, <1>3, <1>6, <1>7, MadeOfAll

----------------------------------------------------------------------------
(* What a scan reads keeps its order *)

\* The blocks in the filter are in front of those the page still has.
Reading ==
  /\ Built(multiPosBlock) /\ blockArray \in Page /\ Ascends(blockArray)
  /\ PagePrecedes(multiPosBlock.blocks, blockArray)
  /\ \A k \in 1 .. Len(operands) : Built(operands[k])

LEMMA ReadingInit == Init => Reading
<1> SUFFICES ASSUME Init PROVE Reading
  OBVIOUS
<1>1. blockArray = <<>> /\ multiPosBlock = EmptyFilter /\ operands = <<>> /\ 1 .. Len(<<>>) = {}
  BY DEF Init
<1> QED BY <1>1, EmptyBuilt, EmptyAscends, EmptyPage DEF Reading, Page

LEMMA FetchPageReads ==
  ASSUME EncodeInv, ScanInv, Trails, Reading, FetchPage
  PROVE  Reading'
<1>1. PICK e \in Returns : blockArray' = index[e.val][e.page]
  BY DEF FetchPage
<1>2. e.val \in Values /\ e.page \in 1 .. Len(index[e.val]) /\ index[e.val][e.page] \in Page
  BY ReadsAreEntries DEF ScanInv
<1>3. Ascends(index[e.val][e.page])
  BY <1>2 DEF Trails, TrailOrder, Placed, PageOK
<1>4. multiPosBlock' = EmptyFilter /\ UNCHANGED operands
  BY DEF FetchPage
<1>5. EmptyFilter.blocks = <<>>
  BY DEF EmptyFilter
<1> QED BY <1>1, <1>2, <1>3, <1>4, <1>5, EmptyBuilt, EmptyAscends DEF Reading

LEMMA CheckOutBlockReads ==
  ASSUME Reading, CheckOutBlock
  PROVE  Reading'
<1> DEFINE f == multiPosBlock
           g == AddPosFilterBlock(f, Head(blockArray))
           t == Tail(blockArray)
<1>1. /\ blockArray # <<>> /\ blockArray \in Page /\ multiPosBlock' = g /\ blockArray' = t
      /\ UNCHANGED operands
  BY DEF CheckOutBlock, Reading
<1>2. t \in Page
  BY <1>1, HeadBlock
<1>3. Built(g) /\ PagePrecedes(g.blocks, t) /\ Ascends(t)
  BY <1>1, CheckedOutBuilt DEF Reading
<1> HIDE DEF f, g, t
<1> QED BY <1>1, <1>2, <1>3 DEF Reading

LEMMA AddOperandReads ==
  ASSUME ScanInv, Reading, AddOperand
  PROVE  Reading'
<1>1. operands' = Append(operands, multiPosBlock) /\ UNCHANGED <<blockArray, multiPosBlock>>
  BY DEF AddOperand
<1>2. multiPosBlock \in Filter /\ operands \in Seq(Filter)
  BY DEF ScanInv, ScanType, Growing, FilterOK
<1>3. \A k \in 1 .. Len(operands') :
        operands'[k] = multiPosBlock \/ \E j \in 1 .. Len(operands) : operands'[k] = operands[j]
  <2>1. Len(operands') = Len(operands) + 1 /\ Len(operands) \in Nat
        /\ operands'[Len(operands) + 1] = multiPosBlock
        /\ \A k \in 1 .. Len(operands) : operands'[k] = operands[k]
    BY <1>1, <1>2
  <2> QED BY <1>1, <1>2, <2>1
<1> QED BY <1>1, <1>3 DEF Reading

LEMMA OtherReads ==
  ASSUME Reading, UNCHANGED <<blockArray, multiPosBlock>>, operands' = operands \/ operands' = <<>>
  PROVE  Reading'
<1>1. 1 .. Len(<<>>) = {}
  OBVIOUS
<1> QED BY <1>1 DEF Reading

LEMMA ReadingStep == EncodeInv /\ ScanInv /\ Trails /\ Reading /\ [Next]_vars => Reading'
<1> SUFFICES ASSUME EncodeInv, ScanInv, Trails, Reading, [Next]_vars PROVE Reading'
  OBVIOUS
<1>1. CASE FetchPage
  BY <1>1, FetchPageReads
<1>2. CASE CheckOutBlock
  BY <1>2, CheckOutBlockReads
<1>3. CASE AddOperand
  BY <1>3, AddOperandReads
<1>4. CASE NoMorePages \/ ReadError
  BY <1>4, OtherReads DEF NoMorePages, ReadError, source
<1>5. ASSUME NEW read \in BOOLEAN, NewScan(read) PROVE Reading'
  BY <1>5, OtherReads DEF NewScan
<1>6. CASE Encode
  <2>1. UNCHANGED source
    BY <1>6 DEF Encode, AddToNewBlock, AddToItsBlock, FullBlock, TakeValue, PageFull,
                SourceDry, PurgeValue, ClearMaps, PlacePage, Drained
  <2> QED BY <2>1, OtherReads DEF source
<1>7. CASE UNCHANGED vars
  BY <1>7, OtherReads DEF vars, source
<1> QED BY <1>1, <1>2, <1>3, <1>4, <1>5, <1>6, <1>7 DEF Next, Scan

LEMMA ReadAsAdded ==
  ASSUME ScanInv, Reading
  PROVE  OperandsAsAdded
<1>1. ASSUME NEW k \in 1 .. Len(operands)
      PROVE  Built(operands[k]) /\ PositionsOf(operands[k]) \subseteq Rows
  BY DEF ScanInv, ReadsRows, Kept, Reading
<1> QED BY <1>1, AsAddedIs DEF OperandsAsAdded

\* The pages of a value hold its blocks in the order of their rows, all pages but
\* the last full, from the page that is being filled through the queue to the
\* index, whatever the drains and the purge do in between (BitmapEncoder.cpp:
\* 45-141, PagePlacer.cpp:69-79); and each filter a scan makes of a page is, block
\* by block, what addPosition makes of the same rows.
THEOREM PagesAreInOrder == Spec => []PagesInOrder
<1>1. EncodeInv /\ ScanInv /\ Trails /\ Reading => PagesInOrder
  BY TrailsAscend, ReadAsAdded DEF PagesInOrder
<1> QED BY <1>1, EncodeInit, EncodeStep, ScanInit, ScanStep, TrailsInit, TrailsStep,
           ReadingInit, ReadingStep, PTL DEF Spec

=============================================================================
