---------------------------- MODULE UnsortedScan ----------------------------
(***************************************************************************)
(* How a column that is not value sorted finds the positions a predicate   *)
(* selects: DataSource::getPosOnPredValueUnsorted walks the secondary      *)
(* index of the column (key: value, data: position, duplicates in the      *)
(* order they were written) with a Berkeley DB cursor that returns the     *)
(* positions of one key at a time, as many as fit the bulk buffer, and     *)
(* adds each position to a MultiPosFilterBlock.                            *)
(*                                                                         *)
(* The flag firstCall and the cursor belong to the data source and outlive *)
(* a scan; the next getPosOnPred of the same source starts from them.      *)
(***************************************************************************)
EXTENDS MultiPosFilterBlock, FiniteSets

CONSTANTS
  N,          \* rows of the column: positions 1 .. N
  K,          \* values are 1 .. K in the order of the index
  BulkMax,    \* duplicates of one key that fit BULK_BUFFER_SIZE
  MaxScans    \* bound: calls of getPosOnPred on this data source

ASSUME ScanAssumption ==
  /\ N \in Nat
  /\ K \in Nat \ {0}
  /\ BulkMax \in Nat \ {0}
  /\ MaxScans \in Nat

Rows  == 1 .. N
Preds == {"GT", "GE", "EQ", "LT", "LE"}

VARIABLES
  column,     \* the value of each row
  pred, rhs,  \* the predicate
  cursor,     \* position of the index entry under the cursor, 0: not positioned
  firstCall,
  page,       \* positions of the page being decoded that are not added yet
  done,       \* the flag of the loop
  filter,     \* matchedPredPos
  added,      \* history: the positions this scan took from its pages
  scans       \* calls of getPosOnPred so far

vars == <<column, pred, rhs, cursor, firstCall, page, done, filter, added, scans>>

\* What a row must satisfy to be selected.
Satisfies(v) ==
  \/ pred = "GT" /\ v > rhs
  \/ pred = "GE" /\ v >= rhs
  \/ pred = "EQ" /\ v = rhs
  \/ pred = "LT" /\ v < rhs
  \/ pred = "LE" /\ v <= rhs

Matching == {p \in Rows : Satisfies(column[p])}

----------------------------------------------------------------------------
(* The secondary index, and the cursor calls of ROSAM on it *)

\* Entries in index order: by value, the duplicates of a value by position,
\* for the rows were written in the order of their positions.
Before(p, q) == column[p] < column[q] \/ (column[p] = column[q] /\ p < q)

\* One get with DB_MULTIPLE: from the first entry of from, the entries with its
\* key, as many as the buffer holds.
Bulk(from) ==
  {p \in from :
     /\ \A q \in from : column[p] <= column[q]
     /\ Cardinality({q \in from : Before(q, p)}) < BulkMax}

\* doCursorGetPosMulti with DB_SET, DB_SET_RANGE and DB_NEXT.  DB_NEXT on a
\* cursor that is not positioned is DB_FIRST.
DbSet(key)      == Bulk({p \in Rows : column[p] = key})
DbSetRange(key) == Bulk({p \in Rows : column[p] >= key})
DbFirst         == Bulk(Rows)
DbNextAgain     == Bulk({p \in Rows : cursor = 0 \/ p = cursor \/ Before(cursor, p)})
                     \* variant: the entry under the cursor comes again
DbNextNoDup         == Bulk({p \in Rows : cursor = 0 \/ column[cursor] < column[p]})
                     \* variant: the next key, not the next entry
DbNext          == Bulk({p \in Rows : cursor = 0 \/ Before(cursor, p)})

\* getSmallestLargerValue, for values the column's width can be increased by one
SmallestLarger(v) == v + 1

\* getDbNextRange(highKey, firstCall): the cursor moves, but what is not below
\* the bound is not returned.
InRangeInclusive(got, high) == {p \in got : column[p] <= high}  \* variant
InRange(got, high) == {p \in got : column[p] < high}

----------------------------------------------------------------------------

\* The entries the cursor call of the switch reads ...
Reads ==
  CASE pred = "GT" -> IF firstCall THEN DbSetRange(SmallestLarger(rhs)) ELSE DbNext
    [] pred = "GE" -> IF firstCall THEN DbSetRange(rhs) ELSE DbNext
    [] pred = "EQ" -> DbSet(rhs)
    [] OTHER       -> IF firstCall THEN DbFirst ELSE DbNext

\* ... and those it returns.
ReturnsOneMore == Reads \cup {0}  \* variant: a slot of pos_array too many

Returns ==
  CASE pred = "LT" -> InRange(Reads, rhs)
    [] pred = "LE" -> InRange(Reads, SmallestLarger(rhs))
    [] OTHER       -> Reads

Last(s) == CHOOSE p \in s : \A q \in s : ~ Before(p, q)

Init ==
  /\ column \in [Rows -> 1 .. K]
  /\ pred \in Preds
  /\ rhs \in 1 .. K
  /\ cursor = 0
  /\ firstCall = TRUE
  /\ page = {}
  /\ done = FALSE
  /\ filter = EmptyFilter
  /\ added = {}
  /\ scans = 1

\* One turn of the loop up to the decoded page; a failed get leaves the cursor.
Fetch ==
  /\ ~ done /\ page = {}
  /\ cursor' = IF Reads = {} THEN cursor ELSE Last(Reads)
  /\ page' = Returns
  /\ done' = (Returns = {} \/ pred = "EQ")
  /\ UNCHANGED <<column, pred, rhs, firstCall, filter, added, scans>>

\* The inner loop: the next position of the page joins the filter.
AddNext ==
  /\ page # {}
  /\ LET p == CHOOSE q \in page : \A r \in page : q <= r
     IN  /\ filter' = AddPosition(filter, p)
         /\ added' = added \cup {p}
         /\ page' = page \ {p}
         /\ firstCall' = (firstCall /\ page # {p})
  /\ UNCHANGED <<column, pred, rhs, cursor, done, scans>>

\* The next getPosOnPred of this source, with any predicate.  If the query in
\* between read values of the column, getRightPage has reset the cursors.
NewScan(read) ==
  /\ done /\ page = {} /\ scans < MaxScans
  /\ pred' \in Preds /\ rhs' \in 1 .. K
  /\ filter' = EmptyFilter /\ done' = FALSE /\ added' = {}
  /\ scans' = scans + 1
  /\ cursor' = IF read THEN 0 ELSE cursor
  /\ UNCHANGED <<column, firstCall, page>>

Next == Fetch \/ AddNext \/ \E read \in BOOLEAN : NewScan(read)

\* A scan runs to its end on the thread that started it; nothing obliges a
\* client to start another one.  This is weak fairness of Fetch \/ AddNext, with
\* the condition that enables them written out: a page with positions, or a loop
\* that is not done.
Fairness == []<>(done /\ page = {}) \/ []<><<Fetch \/ AddNext>>_vars

Spec == Init /\ [][Next]_vars /\ Fairness

----------------------------------------------------------------------------
(* Properties *)

TypeOK ==
  /\ column \in [Rows -> 1 .. K]
  /\ pred \in Preds /\ rhs \in 1 .. K
  /\ cursor \in 0 .. N
  /\ firstCall \in BOOLEAN /\ done \in BOOLEAN
  /\ page \subseteq Rows /\ added \subseteq Rows
  /\ filter \in Filter
  /\ scans \in 1 .. MaxScans \cup {1}

Finished == done /\ page = {}

\* Whatever the order in which positions arrive, and however blocks are shifted,
\* inserted or misplaced (PosFilterBlock.cpp:105-172, MultiPosFilterBlock.cpp:
\* 36-129), the filter holds no position that was not given to addPosition.
FilterSound == PositionsOf(filter) \subseteq added

\* The first scan of a data source takes matching rows only; so does every later
\* one that is bounded above, for getDbNextRange compares each key it returns
\* (ROSAM.cpp:505-524).  An open range that starts from a stale firstCall has no
\* such check (DataSource.cpp:338-349).
ScanSound ==
  scans = 1 \/ pred \in {"EQ", "LT", "LE"} => added \cup page \subseteq Matching

\* A first scan that has ended took every matching row, one bulk buffer after
\* the other; an equality scan, which makes a single call, when its duplicates
\* fit the buffer, and then also on a data source that was used before.
ScanComplete ==
  /\ Finished
  /\ scans = 1 \/ pred = "EQ"
  /\ pred = "EQ" => Cardinality(Matching) <= BulkMax
  => added = Matching

\* The blocks of the filter are in ascending order without overlap, as
\* PosOperator and MultiPosFilterCursor take for granted ...
BlocksAscending ==
  \A i \in 1 .. Len(filter.blocks) :
    \A j \in 1 .. i - 1 : filter.blocks[j].end < filter.blocks[i].start

\* ... and its bounds are those of its first and last block.
BoundsCurrent ==
  filter.blocks # <<>> =>
    /\ filter.startPos = filter.blocks[1].start
    /\ filter.endPos = filter.blocks[Len(filter.blocks)].end

\* An equality scan hands addPosition ascending positions; the filter then
\* loses none of them and stays ordered, over any number of blocks.
EqualityExact ==
  pred = "EQ" =>
    PositionsOf(filter) = added /\ BlocksAscending /\ BoundsCurrent

\* No page returns an entry that an earlier page of the scan returned, with
\* bulk buffers that end inside a run of duplicates and cursors left anywhere.
FetchedOnce == [][page = {} => page' \cap added = {}]_vars

\* The position added is in the filter afterwards: none of the branches of
\* MultiPosFilterBlock::addPosition falls through, the middle loop (lines 90-115)
\* finds a block or makes one.  And positions leave the filter only when a block is
\* shifted to begin earlier (PosFilterBlock.cpp:112-149) or a new scan starts an
\* empty one; appending, setting a bit inside a block and inserting a block keep
\* the others.
LossOnlyByShift ==
  [][/\ added' \ added \subseteq PositionsOf(filter')
     /\ \/ PositionsOf(filter) \subseteq PositionsOf(filter')
        \/ scans' # scans
        \/ \E i \in 1 .. Len(filter.blocks) :
             filter'.blocks[i].start < filter.blocks[i].start]_vars

\* Every scan ends, also one that starts from a stale cursor or flag.
ScanEnds == ~ Finished ~> Finished

\* "Gets the Posiotion block on the predication" (DataSource.h): the filter of a
\* range scan holds every matching row.
RangeExact == Finished /\ scans = 1 /\ pred # "EQ" => PositionsOf(filter) = Matching

=============================================================================
