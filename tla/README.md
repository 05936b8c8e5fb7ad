# LRCS: specification and proofs

LRCS_WIN (`src/`) is a read-optimised column store on top of Berkeley DB. A
column is split into pages that are stored under the position of their last row
(the primary index); a secondary index leads from values to positions. A query
evaluates the predicates of its columns to *position filters*, combines the
filters with AND and OR, and then reads from every column the values at the
positions the combined filter selects.

This directory holds TLA+ modules that model the query path from a client's
session down to the machine words of a filter, the build of the columns it
reads, the system catalogue and the log; the TLC configurations that check them
on small instances; and theorems about them checked by TLAPS.

## The system

| Part | State | Operations | Source (`src/`) |
|---|---|---|---|
| Position-filter block | first and last position, a bitmap of 1497 words, the word and bit the iterator is at | `addPosition` in any order, cut to the right or left of a position, read the next position or word | `LRCSBasis/PosFilterBlock.cpp`, `PosBlock.cpp` |
| Position filter | a vector of blocks; its bounds and current block number, kept by hand | `addPosition`, `addPosFilterBlock`, `getNextBlock`, `clone`, `optimize`, `setTriple` | `LRCSBasis/MultiPosFilterBlock.cpp` |
| Scan of an unsorted column | the predicate, `firstCall`, the Berkeley DB cursor, the filter being built | `getPosOnPred`: bulk gets, decode, add | `LRCSBasis/DataSource.cpp`, `ROSAM.cpp`, `StringUtil.cpp` |
| Scan of a sorted column | two indexes, one run of positions that is kept | `writePage`, `getPosOnPredValueSorted` | `LRCSBasis/PagePlacer.cpp`, `DataSource.cpp`, `StringReader.cpp` |
| Combination | two filters, the block and word each walk is at, the result | `doAndCaculate`, `doOrCaculate`, the condition parser | `LRCSBasis/PosOperator.cpp` |
| Scans of a query | a thread for each column and its parameters | one after the other, in a parallel loop, or on threads with a timeout | `LRCSApi/LRCSQueryImpl.cpp`, `LRCSBasis/BlockPrinter.cpp`, `ParallelHelper.h` |
| Filtered read | per column: cursor on the filter, page, block of values; the row | `getNextValBlock`, `filterWithPos`, `DoQuery` | `LRCSBasis/MultiPosFilterCursor.cpp`, `PosFilterCursor.cpp`, `MultiBlock.cpp`, `LRCSApi/LRCSQueryImpl.cpp` |
| Query interface | the environment, handles, what the data sources of a handle keep | `Init`, `Destroy`, `OpenDbTableByProj`, `CloseDbTable`, `QueryData` | `LRCSApi/LRCSQuery.cpp`, `DbHandler.cpp` |
| Column build | page being filled, last secondary value | encode, place, write | `LRCSBasis/StringEncoder.cpp`, `PagePlacer.cpp`, `PageWriter.cpp` |
| Bitmap and run-length compression | maps of blocks and pages, runs | encode, decode, scan | `LRCSBasis/Bitmap*.cpp`, `RLE*.cpp` |
| Projection catalogue | rows of three tables, transactions, locks, handles | `createProjection`, `getProjection` | `LRCSBasis/ProjMaker.cpp`, `SysDbEnv.cpp` |
| Log | the file, its archives, the table of slots in memory and on disk | `writeToLog`, `openNewLogFile`, `logInit` | `LRCSBasis/Log.cpp` |
| Hash map, configuration, value types | | | `LRCSBasis/HashMap.cpp`, `LRCS_ENV.cpp`, ... |

How the parts interact. A client opens a table through the catalogue and gets a
handle with a data source per column. `QueryData` binds predicates to the data
sources; `DoQuery` calls `getPosOnPred` of every column, hands the filters to a
`PosOperator`, gives the result to every data source and asks the data sources
for their next value in turn. There are no messages; what is hard in this code is

- *sequences*: positions that arrive in an order nobody tried, blocks that fill
  up in the middle of an operation, pages and blocks that end at different rows;
- *state that outlives its operation*: flags, cursors, predicates, triples and
  filters a data source keeps from one query to the next, handles a `ProjMaker`
  keeps from a transaction that was aborted, a pointer to a closed environment;
- *threads*: scans that are waited for only so long, writers of the log, callers
  of the catalogue that lock its pages in different orders;
- *failures*: a process that ends between the rows of a projection or in the
  middle of a rotation, Berkeley DB calls that throw, files of the log that cannot be
  renamed, removed or opened, threads that do not start.

What makes each part correct:

- block: it is a set of positions; additions in any order and cuts keep exactly
  the positions they should, and nothing is set behind its end;
- filter: its blocks are ascending and disjoint, its bounds are those of its
  blocks, no position is ignored;
- scan: the filter is exactly the rows that satisfy the predicate;
- combination: AND is intersection, OR is union, and the result is again a
  well-formed filter;
- filtered read: the rows returned are the selected rows, each once and in
  order, with values that belong together; the query ends;
- session: a query is answered from its own conditions, whatever was asked before;
- catalogue: a projection is defined once, entirely, and for good;
- log: the newest lines are kept, and a writer gets through.

## Modules

| Module | Models | State and actions |
|---|---|---|
| `PosFilterBlock` | one block as a set of positions; no variables | `BlockAdd`, `BlockAccepts` are `addPosition`; `ShiftedBits` is what its in-place shift leaves; `CutRight`, `CutLeft` the cuts |
| `MultiPosFilterBlock` | a filter as a record; no variables | `AddPosition` with its three branches `AddBefore`, `AddInside`, `AddAfter`; `AddPosFilterBlock` |
| `UnsortedScan` | `getPosOnPredValueUnsorted` | `Fetch`: one turn of the loop up to the decoded page; `AddNext`: one position; `NewScan`: the next `getPosOnPred` of the same source |
| `SortedColumn` | `PagePlacer::writePage` of a sorted column, `skipToPageSecondary`, `biSearch`, `getPosOnPredValueSorted` | `WritePage`; `FirstScan`: a predicate is answered with one triple; `ScanAgain`: every later one with nothing |
| `PosOperator` | `getPosFilter`, `doAndCaculate`, `doOrCaculate`, `optimize` | `Parse*`: the next operand; `And*`, `Or*`: one turn of an outer loop; `Optimize*`: one block |
| `ScanThreads` | the three ways `DoQuery` and `BlockPrinter` run the scans | `RunScan`; `BeginThreads`, `ThreadEnds`, `WaitForMultipleObjects`, `TakeResult`, `DeleteParams`: threads; `GetPosFilter` |
| `FilteredRead` | a query: `ScanThreads`, then filter cursors, `getNextValBlock`, `filterWithPos`, `DoQuery` | `RunScans`, `SetPositionFilter`; `ReadSequentially`, `ReadOnPos`: a page; `FilterStep`: one value copied; `FillData`, `AddRow`: the row |
| `QuerySession`, `MCQuerySession` | `LRCSQuery`, and what the data sources of every kind keep between queries | `InitLibrary`, `Destroy`, `OpenDbTableByProj`, `CloseDbTable`; `QueryData`, `QueryUnknownColumn`; `ScanColumn`: one `getPosOnPred`; `AnswerQuery`: combination, rows, end of the call |
| `BlockOps` | what a block promises: the abstract specification | `Add`, `CutFront`, `CutBack` |
| `PosFilterWords` | the loops over the machine words of a block | `AddFront`, `AddMiddle`, `AddBehind`, `CutFront`, `CutBack`, `Rewind`, `GetNextPos` |
| `BitmapColumn` | `BitmapEncoder`, the part of `StringEncoder` and `PagePlacer` that drives it, the secondary index, `BitmapDataSource` | `AddToNewBlock`, `AddToItsBlock`, `FullBlock`: `addValPos`; `PageFull`, `SourceDry`: `getPage` returns; `PurgeValue`, `ClearMaps`: `purgeMap2Queue`; `PlacePage`, `Drained`: the inner loop of `placeColumn`; `FetchPage`, `CheckOutBlock`, `AddOperand`, `NoMorePages`, `ReadError`: the scan; `NewScan`: the next `getPosOnPred` |
| `CatalogPromise` | what the catalogue promises: the abstract specification | `Define`, `Look`, `Forget` |
| `Catalog` | `ProjMaker` on a transactional environment | `Begin`, `InitDbStruc`, `UseDead`; `CreateStep`: a row and its lock, or the commit; `GetStep`: a read and its lock, or the return; `Fail`, `Crash`, `Discard` |
| `LogRotation` | `writeToLog`, `openNewLogFile`, `logInit` | `Stamp`, `Enter`, `Write`, `Leave`; `GetCurrLogIndex`, `Rename`, `Remove`, `RenameAgain`, `Mark`, `Throw`, `Save`, `Open`: the rotation; `Crash` |
| `FilterProofs` | | lemmas about the operators of the first two modules |
| `UnsortedScanProofs` | | the theorems about `UnsortedScan` |
| `BitmapColumnProofs` | | the theorems about `BitmapColumn` |
| `SortedColumnProofs` | | the theorems about `SortedColumn` |
| `FilteredReadProofs` | | the theorems about `ScanThreads` and `FilteredRead` |
| `QuerySessionProofs` | | the theorems about `QuerySession` |
| `CatalogProofs` | | the theorems about `Catalog`, and that it implements `CatalogPromise` |
| `LogRotationProofs` | | the theorems about `LogRotation` |

`UnsortedScan`, `BitmapColumn`, `PosOperator` and `FilteredRead` all extend
`MultiPosFilterBlock`, which extends `PosFilterBlock`: they use one definition
of a block and of a filter, which `PosFilterWords` refines to words.
`FilteredRead` composes `ScanThreads` with the read of the values.
`QuerySession` takes from the scans of all four kinds of columns what they leave
behind and which rows they select: the ranges of `SortedColumn`, absent bounds and
unset ends included, without the layout of the pages, and of a bitmap column the rows
of the values that have a bitmap, which `BitmapColumn` builds. Its filters are sets of
rows within one word, where `addPosition` and AND lose nothing. `MCQuerySession` is
`QuerySession` for TLC.

Abstractions, and why they are faithful:

- A block is a set of positions instead of an array of words. The two places
  where the words can be observed are kept: a block holds as many positions as
  fit `MAX_INT` words counted from its start, and the shift to the right loses
  what the loop of `PosFilterBlock.cpp:134-147` loses. `PosFilterWords` checks
  both against the loops.
- A value is its place in the order of the index (`1 .. K`), and in
  `FilteredRead` the row it belongs to. Nothing in these operations depends on
  the bytes, with one exception: `getSmallestLargerValue` is `v + 1` in the scans
  of unsorted columns, while `SortedColumn` and `QuerySession` have values of two bytes
  and the operation as it is, with strings that have no successor.
- Berkeley DB is modelled from the calls the code makes. `ROSAM`: a cursor over
  entries ordered by value and, for equal values, by time of insertion (`DB_DUP`
  without a sort function), `DB_SET`, `DB_SET_RANGE`, `DB_FIRST`, `DB_NEXT`,
  and bulk gets that return as many duplicates as fit the buffer. `ProjMaker`:
  page locks held to the end of a transaction, no deadlock detector (nobody calls
  `set_lk_detect`), errors as exceptions, recovery at the next start, and handles
  opened in a transaction that are of no use when it does not commit.
- `BitmapColumn` composes the writer and the reader of an index: a scan begins
  when the column is written. The value pages are left out but for the place
  where they break, because a break is when the queue is drained; LZ compression
  forwards the same breaks. The OR of the operands of a scan is the union of their
  positions, which is what `ResultExact` of `PosOperator` checks of the walk; a
  condition that begins with an operator is a parse error and selects nothing
  (`PosOperator.cpp:120-136`). `DB_NEXT_DUP` on a cursor that is not positioned
  is an error Berkeley DB throws (`ReadError`).
- Undefined behaviour is a choice over what the build can produce. `end` of
  `getPosOnPredValueSorted` is any number when it was not set (`End` of
  `SortedColumn`, `Ends` of `QuerySession`, where an `end` behind the last row selects
  what one on the last row does). A predicate that was deleted ends the process or passes for any
  predicate (`ScanDangling` of `QuerySession`). `biSearch` returns no value on the
  way back from the inner call (`StringReader.cpp:90-94`); the result is still in
  the register and stands. The size of a page of positions is read through a
  pointer to a local variable that has gone out of scope
  (`BitmapEncoder.cpp:37-39`); nothing runs between the return and the read, and
  the value is still there.
- `numValues` of a block and of a filter is recomputed before each use and left
  out.
- The inner loops of `doAndCaculate` and `doOrCaculate` over the words two
  blocks share are one step: the two blocks are aligned to the same word, so
  the loop computes the intersection or union of the sets.
- A line of the log is its number, a file the sequence of its lines; the limit of
  a file is a number of lines. A crash ends the process; what was flushed is on
  disk, in the order it was written. A rename, a remove and an open fail while another
  process holds the file (`Held`), each of them on its own; so does the open of
  `LOG_SLOT`, for reading and for writing, and at the first start there may be none. The
  code looks at the result of none of them but of the open at the start of a process,
  where `logInit` throws.

## What the runs check

| Run | Instance | Shows |
|---|---|---|
| `UnsortedScan` | words of 2 bits, blocks of 2 words, 9 rows, 2 values, bulk buffer of 2, two scans | a scan takes every matching row once over several bulk buffers; the filter invents nothing, ignores nothing, loses positions only by shifting, and is exact for an equality; a later bounded scan is sound from a stale flag and cursor; every scan ends |
| `PosOperator` | words of 3 bits, blocks of 2 words, 13 rows, any three selections within the spans of `PosOperator.cfg`, NULL and complete filters | how close to ordered and trimmed the filter handed on is; results are sound, exact within one block, and for OR over several; every turn moves on and none is stuck, so the walk ends |
| `FilteredRead` | 5 rows, blocks of 3, pages of up to 3, two columns, three ways to scan | values are read only when every scan has ended, and a late scan ends the process instead of spoiling an answer; the rows are the selected rows, joined across columns; the query ends |
| `PosFilterWords` | words of 2 bits, 4 words, positions 1 to 10 | the word loops implement `BlockOps`; bookkeeping and iterator are right |
| `BitmapColumn` | 7 rows, 2 values, blocks of 2 rows, pages of 2 blocks, pages of 3 values, two scans | blocks keep their order and no row is lost on the way to the index; a scan hands over the filters that `addPosition` would have built and finds what the index holds |
| `SortedColumn` | 4 rows, strings of two bytes of 0 to 2, every layout of pages | a lookup by value lands on the page of the boundary and the search finds what is there; when a range is exact, on which side it is right when values repeat, and when a scan throws |
| `QuerySession` | 2 rows, two columns, each plain, sorted, run-length coded or bitmap, present and absent constants with and without a successor, two queries, two handles | when the first query of a handle is answered exactly, and which rows it never has; no row is ever torn; at most one query of a handle gets rows of a filter; on which columns equalities and upper bounds hold whatever came before; which clients end the process |
| `Catalog` | two threads, two projections of two columns on one page or two, three calls, a failure and a crash | the catalogue implements `CatalogPromise`; where threads can wait for each other; calls return otherwise; when a `ProjMaker` is spoiled |
| `LogRotation` | two threads, three slots, files of two lines, 14 lines, two crashes, a failing use of a file, with and without a `LOG_SLOT` at the start | which lines are kept, what a fault costs, that the table of slots survives, and when the critical section is abandoned |

Properties that belong together are one property of a run, with named parts:
`WellFormed` of a module is its `TypeOK` with what its structures promise
(`ResultOrdered` of `PosOperator`; `NextInStep` and `PageHoldsPos` of `FilteredRead`;
`CleanTail` and `EndIntCurrent` of `PosFilterWords`; `PageHoldsBoundary` and
`SearchFinds` of `SortedColumn`; `FileBounded` and `SlotsSaved` of `LogRotation`).
`LaterAnswers` is `NoTornRow`, `OneFilteredAnswer` and `BoundsHold`, what remains true
of any answer; `BoundsExact` is `HitExact` and `OneSided`; `ArchivesKept` is
`NewestKept` and `OneFilePerFault`; `PagesInOrder` is `TrailAscends`, `PagesFull` and
`OperandsAsAdded`; `LateScanCrashes` is `NoScanBehind` and `CrashOnlyLate`.

Violation runs, each a disagreement between the code and what it says of
itself:

| Run | Shows |
|---|---|
| `RangeExact` | `addPosition` in front of a block can clear a word it has just written (`PosFilterBlock.cpp:142-143`): a range scan loses rows |
| `AndExact` | when two blocks run out of words together, `doAndCaculate` leaves the last word behind although the next block of the other filter begins inside it (`PosOperator.cpp:256-266`): AND of filters of several blocks loses rows |
| `FirstScanComplete` | `purgeMap2Queue` iterates the map of pages and clears the map of blocks (`BitmapEncoder.cpp:123-142`): values that never filled a block are not in the index |

Several properties of the passing runs draw the line between what the code keeps
and what it does not, and are worth reading as such:

- `ScanSound`, `LaterAnswers`: `firstCall` is never raised again
  (`DataSource.cpp:386`), so an open range of a later query reads from the first
  entry and selects rows outside it; only equalities and upper bounds hold, on a
  sorted column an equality only if its `end` is set, on a run-length column none.
- `FirstAnswerExact`: the first answer of a handle is exact for conditions on plain and
  run-length columns. A sorted column whose values repeat, or that does not have the
  bound of its range, answers with other rows (`DataSource.cpp:251-286`), and a bitmap
  column has no bitmap of a value that never filled a block
  (`BitmapEncoder.cpp:123-142`); the property says what is left of the answer then.
- `WellFormed` of `PosOperator` (`ResultOrdered`): behind an OR a block may begin in
  front of the end of another one, by less than a word. When two blocks run out of
  words together, `doOrCaculate` does not cut the block it combined
  (`PosOperator.cpp:401-404`; in the other cases lines 392 and 397 do): it holds bits
  behind the end of the shorter one, where the next block of that one's filter begins.
  `optimize` merges the two only if their rows fit one bitmap. In words of 32 bits and
  blocks of 47904 rows, the rows 1, 95788, 95803 and 95811 OR all rows from 47894 to
  150000 are blocks 1..47904, 47905..95803, 95798..143701 and 143702..150000: row 95803 is
  in two of them, and the rows are out of order. AND of ordered filters is ordered.
- `BoundsExact`, `ThrowsWithoutSuccessor`: a range on a sorted column is
  right when its boundary is a value of the column. `>=` a value that is absent
  selects every row (`DataSource.cpp:251-261`), a lower bound that begins with the
  last row selects none, and an equality with a value whose successor is absent
  uses an `end` that was never set and may throw. A second range of the same data
  source selects nothing (`DataSource.cpp:230`).
- `LaterAnswers`, `SafeClient`: the cursor on the filter is never made again
  (`DataSource.cpp:171`), predicates are deleted and stay set
  (`LRCSQuery.cpp:186-190`), the first block of a second run-length scan has no
  value to hand its positions over with (`RLEBlock.cpp:18-25`), a second equality on a
  bitmap or run-length column asks for a next duplicate of nothing
  (`BitmapDataSource.cpp:73-77`), an equality on a sorted column may set a triple of no
  repetitions (`DataSource.cpp:273-286`), which throws in a parallel loop that catches
  nothing, and a library that was destroyed keeps its closed environment
  (`BDBEnv.cpp:36`).
- `DeadlockOnlyByIndex`, `CallEnds`, `UsableOnceUsed`: a lookup takes the index
  before the columns and a creation the columns before the index; a lookup that
  misses leaves its transaction open (`ProjMaker.cpp:152`); the first call of a
  `ProjMaker` spoils it when its transaction does not commit (`ProjMaker.cpp:48`).
- `ArchivesKept`, `AbandonedOnlyUnread`: a crash in a rotation costs one archive, and
  so does a rename or an open that fails. An archive that cannot be removed
  (`Log.cpp:147`) outlasts its turn while newer ones are overwritten, as many as there
  are turns; the property says so by not counting what is lost behind such archives, and
  bounds the rest. A process that could read no entry of `LOG_SLOT`, after a crash
  between truncating and writing it or because it is missing or cannot be opened
  (`Log.cpp:132, 162-165`), throws out of the critical section at its first rotation
  (`Log.cpp:128`), and lines go to a closed stream there and behind an open that failed.
- `LateScanCrashes`: a scan that takes more than five seconds writes
  to freed parameters and leaves a NULL in the condition (`BlockPrinter.cpp:96-105`);
  the parser, which clones every operand, ends the process before a value is read
  from a data source that is still being scanned.

The bounds. The behaviour of a block depends on whether a position falls into its first,
an inner or its last word and on whether the words still fit, so two words of two bits
show every case of the set operations but one, four words of two bits those of the
loops. The one is a block that begins strictly inside the last word of another, in front
of a row of it. In blocks of two words of three bits rows 1, 8, 12, 13 and 6, 7, 11, 12
are the smallest selections found of which OR makes overlapping blocks; `Spans` has them
and all their subsets, with 7, 8, 9 for rows that follow each other in a word: filters
of up to three blocks of one and two words that begin at any bit of each other's words.
Nine rows are two full blocks and a third one in any order of arrival; two values give a
range scan two ascending runs, in every mixture. A bulk buffer of two ends inside a run
of duplicates. Five rows with pages and blocks of up to three place the ends of blocks
and pages in every relation to each other. In `BitmapColumn` seven rows of one value are
four blocks, hence one page that is full, is queued and drained, and another one with
room left, and any mixture with a second value breaks blocks, pages and value pages at
different rows. In `SortedColumn` four rows hold runs of equal values over one, two and
more pages with other values in front and behind, and the nine strings have each kind of
successor: in the last byte, in the one before, and none. `QuerySession` needs two
queries, because what is left of one acts on the next, and two columns, one that is
named and one that is not; a second handle shows what closing resets. Its strings are 0,
1 and 3 of two bytes of 0 or 1, compared with 0 and 3: a value whose successor may or may
not be in the column, and one that has none; either may be absent. Columns that are not
sorted hold only values that are asked for (`FewValues`), because nothing in their scans
depends on the next larger value, and columns may be exchanged (`Exchange`). Three calls of the
catalogue are two that meet and one that finds what they left. Fourteen lines turn three
slots more than twice, so that the oldest archive is overwritten again and an archive
that could not be removed outlasts newer ones. In
`FilteredRead` a page holds no more rows than a block; that is the case of values of two
bytes and more (65000-byte pages, 47904 positions in a block). For values of one byte
`MultiBlock.cpp:271` can step past the page it should leave, because the cursor of a
block just entered has 0 for its start; `RowsExact` fails there.

Filters whose blocks overlap are not among those `FilteredRead` reads: its filters are
those that scans build in ascending order. What the readers do with an overlap is not
modelled.

Known and not reported by a run: an equality scan makes a single bulk get, so
duplicates behind the buffer are not found (`DataSource.cpp:351`;
`ScanComplete` has the condition); a block inserted in the middle may land
behind its successor (`MultiPosFilterBlock.cpp:61-67`; `EqualityExact` speaks of
the ascending case only). A second scan of a bitmap column returns nothing, because
its condition begins with `|` (`BitmapDataSource.cpp:94-95`); the model has it,
`ScanSound` of `BitmapColumn` is what remains true.

Fairness. The operations of a scan, a combination or a read run to their end on
the thread that started them, so weak fairness of the steps of a running operation
is what the scheduler provides; `NewScan`, a decision of the client, has none. In
`FilteredRead` the threads of the scans go on, and the wait for them ends because it
has a timeout. In `Catalog` and `LogRotation` each thread that is in a call is weakly
fair: Berkeley DB grants a lock to the first waiter and Windows lets a waiter into a
free critical section, and with a bounded number of calls a lock that is free stays
free. Nothing is promised of new calls, failures and crashes. `CallEnds` and
`WriteEnds` name the ways to wait for ever that are left: a ring of two, a
transaction nobody ends, an abandoned critical section.

Deadlock checking is on for `PosOperator`, where a turn must always be possible until
the end. It is off where the modelled operations come to an end.

## What is proved

TLAPS checks the theorems for every value of the constants that satisfies the named
assumptions. The assumptions say that numbers are natural numbers, sizes positive
and marks such as `Nobody` different from what they are not. Properties that
recursive functions compute are shown at the least number where they would fail, which
`WellFoundedInduction` has.

`UnsortedScanProofs` is about the scan of an unsorted column, for any number of rows
and values, any size of blocks, words and bulk buffers and any number of scans
(`BlockAssumption`, `ScanAssumption`):

- `TypeCorrect`: `TypeOK` is an invariant of `UnsortedScan`. The strengthening
  `TypeInv` adds what the types of the operators need: the cursor and the page
  are inside the table, blocks have positive bounds.
- `FilterSoundness`: the filter holds only positions that were added, whatever
  branch each of them took. It rests on `AddPositionSound`: `AddPosition` keeps
  a filter a filter and adds at most the position it is given, shown branch by
  branch from the same fact about `BlockAdd` and `AddPosFilterBlock`.
- `ScanSoundness` and `ScanCompleteness`: by the invariant `IInv`, whose parts
  say that on a first scan the cursor stands on the last entry taken and
  everything taken is not behind it (`CursorBehind`), that before the first
  position is added nothing is taken (`FirstCallFresh`, `EqualityFresh`), that
  what is under the cursor satisfies an open predicate (`CursorMatches`) and
  that no matching entry up to the cursor has been passed over
  (`NothingSkipped`). Neither property is inductive alone: both need to know
  where the cursor is relative to what was taken.
- `NothingTwice`: no page returns an entry an earlier one returned, from
  `CursorBehind`.
- `EqualityScanExact`: the invariant `AscendingInv` says that the positions of
  the page still to come are behind all that are in the filter, and that the
  filter is ascending with current bounds; `AddPositionAscending` shows that
  `AddPosition` then appends, to the last block or as a new one, and loses
  nothing.
- `LostOnlyByShift`: a step property. A position leaves the filter only when a block
  is shifted to begin earlier, whatever the order of arrival. It needs `AnchorInv`,
  that the bounds of the blocks and of the filter are positions of this scan, so that
  none is given again, and that no position between the bounds of the filter is behind
  all its blocks, where no branch would take it. `AddPositionKeeps` shows it branch by
  branch.

`BitmapColumnProofs` does the same for a bitmap column, for every number of rows
and values and blocks, pages and value pages of any size (`BlockAssumption`,
`ColumnAssumption`):

- `NoRowLost`: at every moment the rows of a value that have been encoded are in
  the maps, the queue and the index under that value, but for the values the
  purge passes over. `RowsKept` is not inductive: the invariant adds where the
  purge is in each phase (`PurgePhase`) and that a value has a page exactly when it
  has ever filled a block (`MapsHold`), which is what makes the loss at the purge
  the loss of the one-block values and of no others.
- `ScanSoundness`: a scan whose condition does not begin with `|` began with
  `firstCall` up, so its cursor stands on a matching entry (`ReadsMatching`).
- `FirstScanCompleteness`: every matching entry the cursor has passed is in an
  operand or being decoded (`FirstScan`), each cursor call returns the first of a
  set that holds all the matching entries ahead (`ReadsTheFirstAhead`), and when
  one returns nothing none is ahead (`NoneLeft`); with `NoRowLost` the index has all
  the rows.
- `PagesAreInOrder`: `PagesInOrder` speaks of the index, the queue and the map as one
  list of pages; the invariant `Trails` takes it apart. What has left the maps is full
  and in order (`Placed`); the page in the map is behind all that, and the block in the
  map behind the page (`InMapsOrder`); and a value without a page has none anywhere,
  which is what keeps the purge, which passes such a value over, from leaving a gap.
  For `OperandsAsAdded` the invariant `Reading` says that the blocks checked out of a
  page are in front of those it still has, so that each filter a scan makes is of
  ascending blocks (`Built`). What addPosition makes of the positions of such a filter
  up to `k` is its blocks that begin by then, with their positions by then (`MadeUpto`,
  shown at the least `k` where it would fail): each block begins where the one before
  has no room left, so addPosition begins a block exactly there.
- `TypeCorrect`: the types of all variables.

`LogRotationProofs` is about the log, for any number of threads, slots, lines,
crashes and failing uses of files (`LogAssumption`):

- `OnlyUnreadAbandons`: a thread leaves the critical section locked only if the table of
  slots is empty, and it is empty only in a process that read no entry of `LOG_SLOT`; it
  writes to a closed stream only there or behind an open that failed.
  `AbandonedOnlyUnread` is not inductive: that `at()` finds its slot needs
  `SlotThere`, that a table keeps its slots through a rotation; that the section is
  left at the end needs `HeldFromInside`, that it was entered once; and what a crash
  makes of the table needs `Saving`, how far `LOG_SLOT` has been written.
- `TableSaved`: `LOG_SLOT` is the table in memory whenever no rotation is under way, but
  where it could not be read or, in the last rotation, not be opened.
- `WellFormedAlways`: a file is one line longer than its limit for each crash and
  each use of a file that failed, and one more while its rotation is due (`Room`). The
  lines written and the calls that wait for the section or are in front of their line
  are no more than the calls that were begun (`Counts`).
- `NewestAreKept`: in a process that has its table and is not disturbed the archives and
  the file are consecutive blocks of lines (`Turn`): the slots up to the last mark are of
  this turn, the others of the turn before, and the archive that is removed is the
  oldest block.
- `ArchivesAreKept`: what faults cost. `Series` names a set `E` of lines that the faults
  have paid for, one file for each; the archives follow each other in the order of the
  slots but for these lines, and those that could not be removed are older than the
  others (`InOrder`), both for the `m` marks of the table in memory and for the `k` marks
  of `LOG_SLOT`, where the archive that is not marked there yet is charged to the next
  crash (`AtRisk`). A fault that keeps the file from being renamed pays for the one line
  it is then longer than the limit (`Sizes`), and a process that read no table for the
  first archive, which it replaces once before it throws (`WithoutTable`). What is lost
  out of turn is always a part of `E`. The invariant holds while one of the two tables is
  whole (`Healthy`, `Shrunk`), which is where it can be whole again.

`FilteredReadProofs` is about a query that reads rows, for any number of rows and
columns, any partition of each column into pages, and any filter a scan can build
(`BlockAssumption`, `ReadAssumption`, `ColumnsAssumption`):

- `LateScansAreSafe`: `ScansInv` says what was taken of a scan that had ended, of one
  that was late and of one that did not start; the query reaches its first value only
  if a filter was taken of every scan, hence only if all have ended.
- `ColumnsStayInStep` and `RowsAreExact`. Neither is inductive. The invariant `IInv`
  says of each column that the values it has at hand are the selected rows between
  the one it delivered last and the one its cursor goes on with
  (`ColumnsInStep`), where its cursor may be (`CursorsPlaced`) and how the cursor
  and the offset in the page agree during a copy (`CopyPlaced`); of the result, that
  it is the selected rows up to its last (`ResultSoFar`), and of the row being
  joined, that it is the next one (`RowSoFar`). That a scan builds only filters whose
  blocks begin with a position and ascend (`FilterGood`) is `FilterOfIs`, by the
  least position at which it would not.
  Both theorems have the premise `PagesFitBlocks`, that a page has no more rows than a
  block of the filter has positions. The run has it too; the code has it for values of
  two bytes and more, and without it they are false (see the bounds above). It is needed
  in one place: a cursor that enters a block has 0 for its start, and the copy ends
  there only because the offset from 0 is then behind the page.

`SortedColumnProofs` is about one sorted column, for any rows, values and cuts into
pages (`SortedAssumption`):

- `LookupsFind`: the secondary index has, for each value that ends a page, the first
  of these pages (`Indexed`, and `LastEntered` for the page written last). `biSearch` is
  a recursive function of the part it searches; what it returns (`SearchIs`) is shown at
  the shortest part where it would be wrong.
- `RangesAreExact`, `ThrowsForEqualOnly`: from where a lookup lands, for each kind of
  predicate; a scan that throws has read an `end` that was never set.

`QuerySessionProofs` is about the clients of the library, for any number of handles,
queries, rows and columns (`SessionAssumption`):

- `TypeCorrect`; `FirstIsExact`: every column of a first query begins with `firstCall`
  up, no triple and no cursor on the filter, and what each kind of scan then selects is
  what `Expected` says, also for a range that begins with an absent value or ends where
  `end` happens to be; `LaterAreBounded`: of all queries of a handle
  one has been given the cursor (`OneCursor`), and what a stale position adds to an
  answer still satisfies the bounds named by `Upper`; `ClientIsSafe`: a predicate
  that was deleted is read only behind a change of the named columns, and each scan
  that throws has one of the other causes.

`CatalogProofs` is about threads that create and look up projections, for any number
of threads, projections, columns, calls, failures and crashes, and any placement of
the rows on pages (`CatalogAssumption`: also that a page of rows is none of the other
names a lock has):

- `TypeCorrect`; `DeadlockForm`: a lock is held only by the call that has reached it,
  in the order of its steps (`Compatible`, `Calling`), so that two can wait for each
  other only between the columns and the index; `SpoilsNothing`: a step property,
  that handles once opened outside a dead transaction are not lost.
- `Atomicity`: every step of `Catalog` maps to a step of `CatalogPromise` or to a
  stutter. The commit is the abstract `Define`; every other step of a creation is invisible
  because rows count only when they are committed, and a lookup is an abstract `Look`
  when it returns because the locks it holds keep what it has read (`Rows`).

Only model-checked:

- liveness (`ScanEnds`, `Ends`, `CallEnds`, `WriteEnds`), which is out of the
  prover's reach;
- the properties of `PosOperator`. That AND selects no wrong row rests on where its
  pointers stand: the later one is at the first word of its block, because blocks of
  a filter begin no earlier than the last word of the one before. Of filters from scans
  that follows from `AddPositionAscending`, but the left operand may be the result of an OR, of which
  only `ResultOrdered` is true, and that is an invariant of the whole walk with
  insertions in the middle and of `optimize`, which moves rows from block to block;
- `WellFormed` and `ReadInOrder` of `PosFilterWords` and its refinement of `BlockOps`,
  which need what each of the recursive functions over the words computes.

## Not modelled

- The encoder of run-length columns and its pages of triples: the queue, the drain
  and the index are those of `BitmapColumn`, with triples instead of blocks. What the
  scan of such a column keeps is in `QuerySession`; the searches of `RLEDecoder` are
  called by nobody.
- Loads that append to an existing column, extracters (text files in, values out),
  and columns without `posPrimary`, which `DataSource.cpp:85-106` leaves
  unimplemented.
- Brackets in a condition: no caller builds one, and the use of a deleted filter at
  `PosOperator.cpp:86-87` needs two levels of them.
- The log on the console (`Log.cpp:77, 81`) and the parsing of `LRCS_CONFIG`.
- Value types, conversions and comparisons, which have no state; the forms of output of
  the block printer; LZ compression, a library call around each page; the hash map,
  which `Util.h` includes and no other code uses.
- Vendored Berkeley DB, LZO and googletest, and the test programs. Memory management
  is modelled only where freed memory is read (predicates, filters, the parameters
  of threads).

## Plan

1. `RLEColumn`: triples, their pages and both kinds of scan; loads that append.
2. Range-shaped filters (`setTriple`) as operands of `PosOperator` and filters of
   `FilteredRead`, so that `SortedColumn` and `FilteredRead` compose.
3. Proofs: `ResultSound` of `PosOperator`, then `WellFormed` of `PosFilterWords`.
