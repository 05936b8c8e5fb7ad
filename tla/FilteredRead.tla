----------------------------- MODULE FilteredRead -----------------------------
(***************************************************************************)
(* A query, from the scans of its columns (ScanThreads) to its rows:       *)
(* LRCSQueryImpl::DoQuery, or BlockPrinter.  The filter is one a scan      *)
(* builds in ascending order.  Then every column is asked for its next     *)
(* value, and the values are joined.  A column without a value fetches     *)
(* the page that holds the next position of the filter, and                *)
(* MultiBlock::filterWithPos copies from it the values of the positions    *)
(* that follow.  Every column has a cursor of its own on the filter and    *)
(* its own partition of the rows into pages, so that the columns only stay *)
(* in step if each of them delivers exactly the filter.  A value is        *)
(* represented by the row it belongs to.                                   *)
(***************************************************************************)
EXTENDS ScanThreads, MultiPosFilterBlock

CONSTANTS
  N,         \* rows of the table: positions 1 .. N
  PageMax    \* values of a page: PAGE_SIZE over the size of a value

ASSUME ReadAssumption ==
  /\ N \in Nat \ {0}
  /\ PageMax \in Nat \ {0}

Rows == 1 .. N

\* A partition of the rows into pages, by the position each page ends with, the
\* key of its entry in the primary index.
Layouts ==
  {ends \in SUBSET Rows :
     /\ N \in ends
     /\ \A e \in ends : \E d \in ends \cup {0} : d < e /\ e - d <= PageMax}

\* The filter cursor of a column.  block is the block its PosFilterCursor reads,
\* 0 without one; pos and start are currPos and currStartPos of that.
NewCursor == [block |-> 0, pos |-> 0, start |-> 0, finished |-> FALSE]

VARIABLES
  layout,    \* the pages of each column
  filter,    \* posFilter
  cursor,    \* filterCursor of each column
  seqPos,    \* the page the primary cursor of each column has read last
  blk,       \* what is left of the block of each column
  col,       \* the column DoQuery is at, Columns + 1 behind the last
  copying,   \* filterWithPos is running
  base, num, off, buf,  \* its block begins at row base and has num values; it
                        \* has reached offset off and written buf
  row,       \* the row being joined
  success,
  rows       \* the result

reading ==
  <<cursor, seqPos, blk, col, copying, base, num, off, buf, row, success, rows>>
vars == <<threads, layout, filter, reading>>

First(S) == CHOOSE q \in S : \A r \in S : q <= r

\* The filter a scan builds from ascending positions.
FilterOf(S) ==
  LET upTo[p \in 0 .. N] ==
        IF p = 0 THEN EmptyFilter
        ELSE IF p \in S THEN AddPosition(upTo[p - 1], p)
        ELSE upTo[p - 1]
  IN  upTo[N]

Filters == {FilterOf(S) : S \in SUBSET Rows} \cup {CompleteFilter}

Init ==
  /\ ThreadsInit
  /\ layout \in [Cols -> Layouts]
  /\ filter = EmptyFilter
  /\ cursor = [c \in Cols |-> NewCursor]
  /\ seqPos = [c \in Cols |-> 0]
  /\ blk = [c \in Cols |-> <<>>]
  /\ col = 1
  /\ copying = FALSE
  /\ base = 0 /\ num = 0 /\ off = 0 /\ buf = <<>>
  /\ row = <<>> /\ success = TRUE /\ rows = <<>>

----------------------------------------------------------------------------
(* The scans *)

\* The filter of the condition goes to every data source.
SetPositionFilter ==
  /\ GetPosFilter
  /\ filter' \in IF main' = "answer" THEN Filters ELSE {filter}
  /\ UNCHANGED <<layout, reading>>

RunScans ==
  /\ \/ \E c \in Cols : RunScan(c) \/ ThreadEnds(c) \/ TakeResult(c)
     \/ BeginThreads \/ WaitForMultipleObjects \/ DeleteParams
  /\ UNCHANGED <<layout, filter, reading>>

----------------------------------------------------------------------------
(* MultiPosFilterCursor *)

EnterBlock(n) ==
  [block |-> n, pos |-> First(filter.blocks[n].bits), start |-> 0, finished |-> FALSE]

\* getNext; the position returned is pos of the new cursor, or none when that is
\* finished.
CursorNextSameBlock(c) ==  \* variant: the filter ends with the block
  LET more == {q \in filter.blocks[c.block].bits : q > c.pos}
  IN  IF c.block = 0 THEN EnterBlock(1)
      ELSE IF more # {} THEN [c EXCEPT !.pos = First(more)]
      ELSE [NewCursor EXCEPT !.finished = TRUE]

CursorNext(c) ==
  LET more == {q \in filter.blocks[c.block].bits : q > c.pos}
  IN  IF c.block = 0 THEN EnterBlock(1)
      ELSE IF more # {} THEN [c EXCEPT !.pos = First(more)]
      ELSE IF c.block < Len(filter.blocks) THEN EnterBlock(c.block + 1)
      ELSE [NewCursor EXCEPT !.finished = TRUE]

SetCurrStart(c) == [c EXCEPT !.start = c.pos]

----------------------------------------------------------------------------
(* DataSource::getNextValBlock *)

\* skipToPagePrimary: DB_SET_RANGE on the key p finds the page with the first
\* end not below p.
PageEnds(c, p) == {e \in layout[c] : e >= p}
PageStart(c, e) ==
  1 + (CHOOSE d \in layout[c] \cup {0} :
         d < e /\ \A x \in layout[c] : x < e => x <= d)

\* The cursor of getPageOnPos: made by the first call, which moves it to the
\* first position.
StartedNoMark(c) == IF c = NewCursor THEN CursorNext(c) ELSE c
                      \* variant: setCurrStartPosition is left out
Started(c) == IF c = NewCursor THEN SetCurrStart(CursorNext(c)) ELSE c

\* FillDataToQueryResult needs a block for this column.
Wanted == main = "answer" /\ col <= Columns /\ ~ copying /\ blk[col] = <<>>

FailQuiet ==  \* variant: the result of Fill is not kept
  /\ col' = col + 1
  /\ UNCHANGED <<threads, layout, filter, cursor, seqPos, blk, copying, base, num,
                 off, buf, row, success, rows>>

Fail ==
  /\ success' = FALSE
  /\ col' = col + 1
  /\ UNCHANGED <<threads, layout, filter, cursor, seqPos, blk, copying, base, num,
                 off, buf, row, rows>>

\* The filter is complete: the pages are read one after the other.
ReadSequentially ==
  /\ Wanted /\ filter.completeSet
  /\ LET ends == PageEnds(col, seqPos[col] + 1)
     IN  \/ ends = {} /\ Fail
         \/ /\ ends # {}
            /\ seqPos' = [seqPos EXCEPT ![col] = First(ends)]
            /\ blk' = [blk EXCEPT ![col] =
                         [k \in 1 .. First(ends) - seqPos[col] |-> seqPos[col] + k]]
            /\ UNCHANGED <<threads, layout, filter, cursor, col, copying, base, num,
                           off, buf, row, success, rows>>

\* getPageOnPos and skipToPos: the page of the next position, from there on.
ReadOnPos ==
  /\ Wanted /\ ~ filter.completeSet
  /\ LET c == Started(cursor[col])
     IN  \/ filter.blocks = <<>> /\ Fail
         \/ /\ filter.blocks # <<>>
            /\ c.finished \/ PageEnds(col, c.start) = {}
            /\ Fail
         \/ /\ filter.blocks # <<>>
            /\ ~ c.finished /\ PageEnds(col, c.start) # {}
            /\ LET e == First(PageEnds(col, c.start))
                   b == IF c.start < PageStart(col, e) THEN PageStart(col, e) ELSE c.start
               IN  base' = b /\ num' = e - b + 1
            /\ cursor' = [cursor EXCEPT ![col] = c]
            /\ off' = 0 /\ buf' = <<>> /\ copying' = TRUE
            /\ UNCHANGED <<threads, layout, filter, seqPos, blk, col, row, success,
                           rows>>

\* skipToPos of the decoder, within the block it was given
Holds(o) == o + 1 <= num

\* filterWithPos: one value is written, and the cursor moves to the next
\* position.  The offset of that is taken from the start the cursor remembers,
\* which is 0 in a block it has just entered.
FilterStep ==
  /\ copying
  /\ LET c    == CursorNext(cursor[col])
         o    == c.pos - c.start
         more == ~ c.finished /\ Holds(o)
     IN  /\ buf' = Append(buf, base + off)
         /\ IF more
              THEN /\ cursor' = [cursor EXCEPT ![col] = c]
                   /\ off' = o
                   /\ UNCHANGED <<blk, copying>>
              ELSE /\ cursor' = [cursor EXCEPT ![col] =
                                   IF c.finished THEN c ELSE SetCurrStart(c)]
                   /\ blk' = [blk EXCEPT ![col] = buf']
                   /\ copying' = FALSE
                   /\ UNCHANGED off
  /\ UNCHANGED <<threads, layout, filter, seqPos, col, base, num, row, success, rows>>

----------------------------------------------------------------------------
(* LRCSQueryImpl::DoQuery *)

\* The column has a value; a column behind one that failed is still asked for
\* one, which is then left out of the row.
FillData ==
  /\ col <= Columns /\ ~ copying /\ blk[col] # <<>>
  /\ row' = IF success THEN Append(row, Head(blk[col])) ELSE row
  /\ blk' = [blk EXCEPT ![col] = Tail(@)]
  /\ col' = col + 1
  /\ UNCHANGED <<threads, layout, filter, cursor, seqPos, copying, base, num,
                 off, buf, success, rows>>

\* A row that is not empty joins the result, and the loop ends with the first
\* column that failed.
AddRow ==
  /\ col = Columns + 1
  /\ rows' = IF row = <<>> THEN rows ELSE Append(rows, row)
  /\ row' = <<>>
  /\ col' = IF success THEN 1 ELSE Columns + 2
  /\ UNCHANGED <<threads, layout, filter, cursor, seqPos, blk, copying, base, num,
                 off, buf, success>>

Finished == col = Columns + 2

Read == ReadSequentially \/ ReadOnPos \/ FilterStep \/ FillData \/ AddRow

Next == RunScans \/ SetPositionFilter \/ Read

\* The query goes on, its threads too, and a wait comes to its end.
Spec == Init /\ [][Next]_vars
          /\ WF_vars(RunScans) /\ WF_main(GetPosFilter) /\ WF_vars(Read)

----------------------------------------------------------------------------
(* Properties *)

SelectedRows == IF filter.completeSet THEN Rows ELSE PositionsOf(filter)

TypeOK ==
  /\ ThreadsTypeOK
  /\ layout \in [Cols -> Layouts] /\ filter \in Filter
  /\ cursor \in [Cols -> [block : 0 .. Len(filter.blocks), pos : 0 .. N,
                          start : 0 .. N, finished : BOOLEAN]]
  /\ seqPos \in [Cols -> 0 .. N] /\ blk \in [Cols -> Seq(Rows)]
  /\ col \in 1 .. Columns + 2 /\ copying \in BOOLEAN /\ success \in BOOLEAN
  /\ base \in 0 .. N /\ num \in 0 .. N /\ off \in 0 .. N /\ buf \in Seq(Rows)
  /\ row \in Seq(Rows) /\ rows \in Seq(Seq(Rows))

\* The rows a column has delivered: to the result, and to the row being joined.
Delivered(c) ==
  {rows[k][1] : k \in 1 .. Len(rows)}
    \cup IF c < col /\ col <= Columns + 1 THEN {row[1]} ELSE {}

\* A column is never ahead of the filter or behind it: its next value is that of
\* the first selected row it has not delivered yet.
NextInStep ==
  \A c \in Cols :
    blk[c] # <<>> /\ success =>
      /\ Head(blk[c]) \in SelectedRows
      /\ {p \in SelectedRows : p < Head(blk[c])} = Delivered(c)

\* A page fetched for a position holds it (DataSource.cpp:170-190): the decoder
\* is never left at the start of a page because the skip failed.
PageHoldsPos == copying => base + off \in SelectedRows /\ off < num

\* The types of the variables, and columns that are in step with the filter.
WellFormed == TypeOK /\ NextInStep /\ PageHoldsPos

\* Every row of the result has a value of every column, and they all belong to
\* the same row of the table, although the columns change page, and the cursors
\* change block, at different rows (LRCSQueryImpl.cpp:118-136).
RowsJoined ==
  \A k \in 1 .. Len(rows) :
    Len(rows[k]) = Columns /\ \A c \in Cols : rows[k][c] = rows[k][1]

\* The rows are joined, and the result is the selected rows in ascending order, none
\* missing and none twice: nothing is lost or repeated where a page ends inside a
\* block of the filter, a block inside a page, or both at once.
RowsExact ==
  /\ RowsJoined
  /\ \A k \in 1 .. Len(rows) - 1 : rows[k][1] < rows[k + 1][1]
  /\ Finished => {rows[k][1] : k \in 1 .. Len(rows)} = SelectedRows

\* While values are read, no scan is running on the data sources they are read
\* from, and none has written to parameters that were deleted: what comes late to
\* the end of the wait ends the process before a value is read
\* (BlockPrinter.cpp:96-105).
NoScanBehind == main = "answer" => AllDone /\ ~ corrupted

\* A query ends the process only where it waits for threads, and then only if one
\* of them was late or could not be started.
CrashOnlyLate ==
  main = "crashed" =>
    way = "threads" /\ (timedOut \/ \E c \in Cols : scan[c] = "failed")

\* What comes late or does not start costs the process, never an answer.
LateScanCrashes == NoScanBehind /\ CrashOnlyLate

\* The query comes to an end, also behind a scan that is late.
Ends == <>(Finished \/ main = "crashed")

=============================================================================
