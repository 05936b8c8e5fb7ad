---------------------------- MODULE BitmapColumn ----------------------------
(***************************************************************************)
(* A column whose positions are kept as bitmaps: BitmapEncoder collects,   *)
(* for each value, one block of positions at a time and one page of full   *)
(* blocks; StringEncoder feeds it while it fills a page of values, and     *)
(* PagePlacer moves the finished pages from the encoder's queue to the     *)
(* secondary index whenever a page of values is written.  A query reads    *)
(* the index page by page (BitmapDataSource) and has PosOperator OR them.  *)
(*                                                                         *)
(* The pages of values themselves, and the walk of PosOperator over the    *)
(* operands, are left to other modules: what the OR of filters of several  *)
(* blocks gives is ResultExact of module PosOperator.                      *)
(***************************************************************************)
EXTENDS MultiPosFilterBlock, FiniteSets

CONSTANTS
  N,          \* rows of the column: positions 1 .. N
  K,          \* values are 1 .. K in the order of the index
  PageBlocks, \* blocks of a page of positions: 10 for the buffer of Query3S
  ValPage,    \* values of a page of values
  MaxScans    \* bound: calls of getPosOnPred on the data source

ASSUME ColumnAssumption ==
  /\ N \in Nat \ {0}  \* placeColumn needs a page to open its writer
  /\ K \in Nat \ {0}
  /\ PageBlocks \in Nat \ {0}
  /\ ValPage \in Nat \ {0}
  /\ MaxScans \in Nat

Rows   == 1 .. N
Values == 1 .. K
Preds  == {"GT", "GE", "EQ", "LT", "LE"}
Phases == {"encode", "purge", "drain", "scan", "decode", "done", "failed"}

VARIABLES
  column,     \* the value of each row
  phase,
  next,       \* the row the encoder takes next
  onPage,     \* values on the page of values being filled
  blockMap,   \* the block of each value, NoBlock: none in the map
  pageMap,    \* the page of each value: its blocks, <<>>: none in the map
  purging,    \* the value purgeMap2Queue is at
  outPutQ,    \* pages that wait for the placer, with their values
  index,      \* the secondary index: the pages of each value, oldest first
  pred, rhs,  \* the predicate
  cursor,     \* the index entry under the cursor: value and page
  firstCall,
  blockArray, \* the blocks bitmapDecoder has still to give
  multiPosBlock, \* the filter they are checked out to
  operands,   \* the filters this scan has given to its PosOperator
  leadingOr,  \* whether an '|' came before the first of them
  matched,    \* the rows of matchedPredPos
  scans       \* calls of getPosOnPred so far

encoder == <<next, onPage, blockMap, pageMap, purging>>
placer  == <<outPutQ, index>>
source  == <<pred, rhs, cursor, firstCall, blockArray, multiPosBlock, operands,
             leadingOr, matched, scans>>
vars    == <<column, phase, encoder, placer, source>>

NoBlock == [start |-> 0, end |-> 0, bits |-> {}, currPos |-> 0]
Unset   == [val |-> 0, page |-> 0]

Satisfies(v) ==
  \/ pred = "GT" /\ v > rhs
  \/ pred = "GE" /\ v >= rhs
  \/ pred = "EQ" /\ v = rhs
  \/ pred = "LT" /\ v < rhs
  \/ pred = "LE" /\ v <= rhs

RowsOf(v) == {p \in Rows : column[p] = v}
Matching  == {p \in Rows : Satisfies(column[p])}

----------------------------------------------------------------------------
(* Encoding *)

\* PosBlock::addPosition of a later position: whether there is a word for it,
\* and the block with its bit set.
HasRoomAlways(b, p) == TRUE  \* variant: no test for MAX_INT
HasRoom(b, p)       == Fits(b.start, p)
SetPosition(b, p)   == [b EXCEPT !.end = p, !.bits = @ \cup {p}]

\* appendBlocktoPage: whether one more block fits the page
PageHasRoom(page) == Len(page) < PageBlocks

Queued(v, page) == [val |-> v, page |-> page]

Init ==
  /\ column \in [Rows -> Values]
  /\ phase = "encode"
  /\ next = 1 /\ onPage = 0 /\ purging = 0
  /\ blockMap = [v \in Values |-> NoBlock]
  /\ pageMap = [v \in Values |-> <<>>]
  /\ outPutQ = <<>>
  /\ index = [v \in Values |-> <<>>]
  /\ pred \in Preds /\ rhs \in Values
  /\ cursor = Unset /\ firstCall = TRUE
  /\ blockArray = <<>> /\ multiPosBlock = EmptyFilter
  /\ operands = <<>> /\ leadingOr = FALSE /\ matched = {}
  /\ scans = 1

\* addValPos for the next value of the column.
NextFitsPageTwice == phase = "encode" /\ next <= N /\ onPage <= ValPage  \* variant: off by one
NextFitsPage == phase = "encode" /\ next <= N /\ onPage < ValPage

TakeValue ==
  /\ next' = next + 1 /\ onPage' = onPage + 1
  /\ UNCHANGED <<column, phase, purging, index, source>>

AddToNewBlock ==
  /\ NextFitsPage
  /\ blockMap[column[next]] = NoBlock
  /\ blockMap' = [blockMap EXCEPT ![column[next]] = EmptyBuffer(next)]
  /\ UNCHANGED <<pageMap, outPutQ>>
  /\ TakeValue

AddToItsBlock ==
  /\ NextFitsPage
  /\ blockMap[column[next]] # NoBlock
  /\ HasRoom(blockMap[column[next]], next)
  /\ blockMap' = [blockMap EXCEPT ![column[next]] = SetPosition(@, next)]
  /\ UNCHANGED <<pageMap, outPutQ>>
  /\ TakeValue

\* The block is full: it goes to the page of its value, or, when that is full
\* too, to a new one while the full one goes to the queue.
FullBlock ==
  /\ NextFitsPage
  /\ LET v == column[next]
         b == blockMap[v]
     IN  /\ b # NoBlock /\ ~ HasRoom(b, next)
         /\ \/ /\ PageHasRoom(pageMap[v])
               /\ pageMap' = [pageMap EXCEPT ![v] = Append(@, b)]
               /\ UNCHANGED outPutQ
            \/ /\ ~ PageHasRoom(pageMap[v])
               /\ outPutQ' = Append(outPutQ, Queued(v, pageMap[v]))
               /\ pageMap' = [pageMap EXCEPT ![v] = <<b>>]
         /\ blockMap' = [blockMap EXCEPT ![v] = EmptyBuffer(next)]
  /\ TakeValue

\* getPage returns a full page of values, and placeColumn writes it.
PageFull ==
  /\ phase = "encode" /\ next <= N /\ onPage = ValPage
  /\ onPage' = 0 /\ phase' = "drain"
  /\ UNCHANGED <<column, next, blockMap, pageMap, purging, placer, source>>

\* The column has no more values: purgeMap2Queue, for one value after the other,
\* before getPage returns the last page.
SourceDry ==
  /\ phase = "encode" /\ next = N + 1 /\ onPage > 0
  /\ phase' = "purge" /\ purging' = 1
  /\ UNCHANGED <<column, next, onPage, blockMap, pageMap, placer, source>>

PurgedPagesNoBlock(v) ==  \* variant: the last block is left in the map
  IF pageMap[v] = <<>> THEN <<>> ELSE <<Queued(v, pageMap[v])>>

PurgedPages(v) ==
  LET b == blockMap[v]
  IN  IF pageMap[v] = <<>> THEN <<>>
      ELSE IF b = NoBlock THEN <<Queued(v, pageMap[v])>>
      ELSE IF PageHasRoom(pageMap[v]) THEN <<Queued(v, Append(pageMap[v], b))>>
      ELSE <<Queued(v, pageMap[v]), Queued(v, <<b>>)>>

PurgeValue ==
  /\ phase = "purge" /\ purging <= K
  /\ outPutQ' = outPutQ \o PurgedPages(purging)
  /\ purging' = purging + 1
  /\ UNCHANGED <<column, phase, next, onPage, blockMap, pageMap, index, source>>

\* Both maps are cleared, what they hold included.
ClearMaps ==
  /\ phase = "purge" /\ purging = K + 1
  /\ blockMap' = [v \in Values |-> NoBlock]
  /\ pageMap' = [v \in Values |-> <<>>]
  /\ onPage' = 0 /\ phase' = "drain"
  /\ UNCHANGED <<column, next, purging, placer, source>>

\* placeColumn after a page: the queue is emptied into the secondary index,
\* where duplicates keep the order in which they are written.
PlacePage ==
  /\ phase = "drain" /\ outPutQ # <<>>
  /\ LET e == Head(outPutQ)
     IN  index' = [index EXCEPT ![e.val] = Append(@, e.page)]
  /\ outPutQ' = Tail(outPutQ)
  /\ UNCHANGED <<column, phase, encoder, source>>

Drained ==
  /\ phase = "drain" /\ outPutQ = <<>>
  /\ phase' = IF purging = K + 1 THEN "scan" ELSE "encode"
  /\ UNCHANGED <<column, encoder, placer, source>>

----------------------------------------------------------------------------
(* Reading *)

\* Index entries, and their order under the cursor.
Entries == [val : Values, page : Nat \ {0}]
Indexed == UNION {{[val |-> v, page |-> i] : i \in 1 .. Len(index[v])} : v \in Values}

Before(d, e) == d.val < e.val \/ (d.val = e.val /\ d.page < e.page)

\* doCursorGetPage: at most one entry, the first of those the flag admits.  The
\* names are the flags; DB_NEXT on a cursor that is not positioned is DB_FIRST.
FirstOf(from) == {e \in from : \A d \in from : d = e \/ Before(e, d)}

DbSet(key)      == FirstOf({e \in Indexed : e.val = key})
DbSetRange(key) == FirstOf({e \in Indexed : e.val >= key})
DbFirst         == FirstOf(Indexed)
DbNextNoDup     == FirstOf({e \in Indexed : cursor.val < e.val})
                   \* variant: the next key, not the next entry
DbNext          == FirstOf({e \in Indexed : cursor = Unset \/ Before(cursor, e)})
DbNextDup       == FirstOf({e \in Indexed : e.val = cursor.val /\ Before(cursor, e)})

\* getSmallestLargerValue
SmallestLarger(v) == v + 1

\* The entry the cursor call of the switch reads, and the one it returns.
Reads ==
  CASE pred = "GT" -> IF firstCall THEN DbSetRange(SmallestLarger(rhs)) ELSE DbNext
    [] pred = "GE" -> IF firstCall THEN DbSetRange(rhs) ELSE DbNext
    [] pred = "EQ" -> IF firstCall THEN DbSet(rhs) ELSE DbNextDup
    [] OTHER       -> IF firstCall THEN DbFirst ELSE DbNext

Returns ==
  CASE pred = "LT" -> {e \in Reads : e.val < rhs}
    [] pred = "LE" -> {e \in Reads : e.val < SmallestLarger(rhs)}
    [] OTHER       -> Reads

\* The condition begins with '|' when firstCall is down as the scan starts.
BeginsWithOrNever == leadingOr  \* variant: the operator is left out
BeginsWithOr == leadingOr \/ (operands = <<>> /\ ~ firstCall)

\* DB_NEXT_DUP on a cursor that is not positioned is an error Berkeley DB throws.
CannotRead == pred = "EQ" /\ ~ firstCall /\ cursor = Unset

FetchPage ==
  /\ phase = "scan" /\ ~ CannotRead
  /\ cursor' \in IF Reads = {} THEN {cursor} ELSE Reads
  /\ \E e \in Returns : blockArray' = index[e.val][e.page]
  /\ multiPosBlock' = EmptyFilter
  /\ leadingOr' = BeginsWithOr
  /\ phase' = "decode"
  /\ UNCHANGED <<column, encoder, placer, pred, rhs, firstCall, operands, matched, scans>>

\* The blocks of the page are checked out to a filter one by one, ...
CheckOutBlock ==
  /\ phase = "decode" /\ blockArray # <<>>
  /\ multiPosBlock' = AddPosFilterBlock(multiPosBlock, Head(blockArray))
  /\ blockArray' = Tail(blockArray)
  /\ UNCHANGED <<column, phase, encoder, placer, pred, rhs, cursor, firstCall,
                 operands, leadingOr, matched, scans>>

\* ... which becomes an operand.
AddOperand ==
  /\ phase = "decode" /\ blockArray = <<>>
  /\ operands' = Append(operands, multiPosBlock)
  /\ firstCall' = FALSE
  /\ phase' = "scan"
  /\ UNCHANGED <<column, encoder, placer, pred, rhs, cursor, blockArray,
                 multiPosBlock, leadingOr, matched, scans>>

\* getPosFilter: a condition without operand, or one that begins with '|', has a
\* parse error, no filter, and getPosOnPred then makes an empty one.
NoMorePages ==
  /\ phase = "scan" /\ ~ CannotRead
  /\ Returns = {}
  /\ cursor' \in IF Reads = {} THEN {cursor} ELSE Reads
  /\ matched' = IF leadingOr THEN {}
                ELSE UNION {PositionsOf(operands[k]) : k \in 1 .. Len(operands)}
  /\ phase' = "done"
  /\ UNCHANGED <<column, encoder, placer, pred, rhs, firstCall, blockArray,
                 multiPosBlock, operands, leadingOr, scans>>

ReadError ==
  /\ phase = "scan" /\ CannotRead
  /\ phase' = "failed"
  /\ UNCHANGED <<column, encoder, placer, source>>

\* The next getPosOnPred; getRightPage may have reset the cursors in between.
NewScan(read) ==
  /\ phase = "done" /\ scans < MaxScans
  /\ pred' \in Preds /\ rhs' \in Values
  /\ cursor' = IF read THEN Unset ELSE cursor
  /\ operands' = <<>> /\ leadingOr' = FALSE /\ matched' = {}
  /\ scans' = scans + 1 /\ phase' = "scan"
  /\ UNCHANGED <<column, encoder, placer, firstCall, blockArray, multiPosBlock>>

Encode == AddToNewBlock \/ AddToItsBlock \/ FullBlock \/ PageFull
            \/ SourceDry \/ PurgeValue \/ ClearMaps \/ PlacePage \/ Drained
Scan   == FetchPage \/ CheckOutBlock \/ AddOperand \/ NoMorePages \/ ReadError

Next == Encode \/ Scan \/ \E read \in BOOLEAN : NewScan(read)

Spec == Init /\ [][Next]_vars

----------------------------------------------------------------------------
(* Properties *)

Page == Seq(Block)

TypeOK ==
  /\ column \in [Rows -> Values] /\ phase \in Phases
  /\ next \in 1 .. N + 1 /\ onPage \in 0 .. ValPage /\ purging \in 0 .. K + 1
  /\ blockMap \in [Values -> Block] /\ pageMap \in [Values -> Page]
  /\ outPutQ \in Seq([val : Values, page : Page])
  /\ index \in [Values -> Seq(Page)]
  /\ pred \in Preds /\ rhs \in Values
  /\ cursor \in Entries \cup {Unset} /\ firstCall \in BOOLEAN
  /\ blockArray \in Page /\ multiPosBlock \in Filter
  /\ operands \in Seq(Filter) /\ leadingOr \in BOOLEAN
  /\ matched \subseteq Rows /\ scans \in 1 .. MaxScans \cup {1}

\* A block as the encoder leaves it: its bounds are set and hold all it has, and it
\* has not outgrown its bitmap.
Kempt(b) ==
  /\ 0 < b.start /\ b.start \in b.bits /\ b.end \in b.bits
  /\ b.bits \subseteq b.start .. b.end
  /\ Fits(b.start, b.end) /\ b.currPos = 0

\* A block begun behind the end of another, with no room left there for its first
\* position; a page of such blocks, and one behind another page.
Precedes(a, b) == a.end < b.start /\ ~ Fits(a.start, b.start)
Ascends(page) ==
  \A k \in 1 .. Len(page) : Kempt(page[k]) /\ \A j \in 1 .. k - 1 : Precedes(page[j], page[k])
PagePrecedes(p, q) == \A j \in 1 .. Len(p), k \in 1 .. Len(q) : Precedes(p[j], q[k])

\* All pages of value v on their way to the index, oldest first: those in the
\* index, those in the queue, and the one that is being filled.
MapPage(v) ==
  IF purging > v THEN <<>>
  ELSE IF blockMap[v] = NoBlock THEN pageMap[v] ELSE Append(pageMap[v], blockMap[v])
QueuedPages(v) ==
  [n \in 1 .. Len(outPutQ) |-> IF outPutQ[n].val = v THEN outPutQ[n].page ELSE <<>>]
Pages(v) == index[v] \o QueuedPages(v) \o <<MapPage(v)>>

\* The blocks of a value keep their order on the whole way, through full pages,
\* the queue, a drain in the middle and the purge (BitmapEncoder.cpp:45-141,
\* PagePlacer.cpp:69-79): each begins behind the end of those before, with no
\* room left there for its first position, and no block outgrows its bitmap.
TrailAscends ==
  \A v \in Values : \A k \in 1 .. Len(Pages(v)) :
    Ascends(Pages(v)[k]) /\ \A j \in 1 .. k - 1 : PagePrecedes(Pages(v)[j], Pages(v)[k])

\* What fits one block: the values purgeMap2Queue finds no page for.
OneBlockRows(v) == \A p, q \in RowsOf(v) : Fits(p, q)

\* Where the rows of a value are.
PageBits(page) == UNION {page[k].bits : k \in 1 .. Len(page)}
InIndex(v) == UNION {PageBits(index[v][i]) : i \in 1 .. Len(index[v])}
InQueue(v) == UNION {PageBits(outPutQ[i].page) :
                       i \in {j \in 1 .. Len(outPutQ) : outPutQ[j].val = v}}
InMaps(v)  == IF purging > v THEN {} ELSE PageBits(pageMap[v]) \cup blockMap[v].bits

\* No row is lost or moved to another value on that way, through full blocks,
\* full pages, drains and the purge, but for the rows of the values the purge
\* passes over (BitmapEncoder.cpp:123-142).
RowsKept ==
  \A v \in Values :
    InIndex(v) \cup InQueue(v) \cup InMaps(v) =
      IF purging > v /\ OneBlockRows(v) THEN {} ELSE {p \in RowsOf(v) : p < next}

\* Only the last page of a value has room for another block.
PagesFull ==
  \A v \in Values : \A i \in 1 .. Len(index[v]) :
    /\ Len(index[v][i]) \in 1 .. PageBlocks
    /\ i < Len(index[v]) => Len(index[v][i]) = PageBlocks

\* Each filter a scan hands to PosOperator is the one that addPosition would
\* have made of the same positions: the bitmap path and the path of a plain
\* column (UnsortedScan) agree block by block.
AsAdded(S) ==
  LET F[k \in 0 .. N] == IF k = 0 THEN EmptyFilter
                         ELSE IF k \in S THEN AddPosition(F[k - 1], k) ELSE F[k - 1]
  IN  F[N]
OperandsAsAdded ==
  \A k \in 1 .. Len(operands) :
    LET f == operands[k]
        g == AsAdded(PositionsOf(f))
    IN  f.blocks = g.blocks /\ f.startPos = g.startPos /\ f.endPos = g.endPos

\* What the index holds of a value is what a filter would, block for block and page
\* for page, and a scan hands it over as such.
PagesInOrder == TrailAscends /\ PagesFull /\ OperandsAsAdded

\* The first scan of a source finds the matching rows of every value that ever
\* filled a block, over all pages of each value, and nothing else.
FirstScanExact ==
  phase = "done" /\ scans = 1 =>
    matched = {p \in Matching : ~ OneBlockRows(column[p])}

\* A later scan, for another predicate and with the cursor anywhere, returns no
\* row that does not match.  It is the parse error at the leading '|' that
\* keeps it from doing so: firstCall is not raised again (BitmapDataSource.cpp:
\* 94-95, 109).
ScanSound == matched \subseteq Matching

\* "Gets the Posiotion block on the predication" (BitmapDataSource.h): all of it.
FirstScanComplete == phase = "done" /\ scans = 1 => Matching \subseteq matched

=============================================================================
