-------------------------- MODULE FilteredReadProofs --------------------------
(***************************************************************************)
(* Theorems about a query that reads rows through a filter, for any number *)
(* of rows and of columns, any partition of the rows into pages and any    *)
(* filter: the columns stay in step, the rows of the result are the        *)
(* selected rows, and no scan is behind them.  They hold for pages that    *)
(* have no more rows than a block of the filter has positions.             *)
(***************************************************************************)
EXTENDS FilteredRead, FilterProofs

----------------------------------------------------------------------------
(* The inductive invariant *)

\* The row that was delivered last, by the result and by a column.
Last == IF rows = <<>> THEN 0 ELSE rows[Len(rows)][1]
LastOf(c) == IF success /\ c < col THEN row[1] ELSE Last

\* The values of a column that are at hand, and the position it goes on with.
Pending(c) == IF copying /\ c = col THEN buf ELSE blk[c]
GoesOn(c) ==
  IF filter.completeSet THEN seqPos[c] + 1
  ELSE IF cursor[c] = NewCursor THEN 1
  ELSE IF cursor[c].finished THEN N + 1
  ELSE cursor[c].pos

\* s is the rows of S between two others, in ascending order.
Covers(S, s, lo, hi) ==
  /\ s \in Seq(Rows)
  /\ \A i, j \in 1 .. Len(s) : i < j => s[i] < s[j]
  /\ \A p \in Rows : (\E k \in 1 .. Len(s) : s[k] = p) <=> p \in S /\ lo < p /\ p < hi

\* A filter built from ascending positions: a block begins with a position, and has
\* none behind its end; all but the first begin behind the positions one block has.
Tight(f) ==
  \A k \in 1 .. Len(f.blocks) :
    /\ f.blocks[k].start \in f.blocks[k].bits
    /\ \A q \in f.blocks[k].bits : f.blocks[k].start <= q /\ q <= f.blocks[k].end
    /\ k > 1 => f.blocks[k].start > IntBits * MAX_INT
FilterGood(f) ==
  /\ FilterOK(f) /\ Ordered(f) /\ Tight(f) /\ PositionsOf(f) \subseteq Rows

\* Nothing is read before the filter is there.
Fresh ==
  /\ cursor = [c \in Cols |-> NewCursor] /\ seqPos = [c \in Cols |-> 0]
  /\ blk = [c \in Cols |-> <<>>] /\ col = 1 /\ copying = FALSE
  /\ base = 0 /\ num = 0 /\ off = 0 /\ buf = <<>>
  /\ row = <<>> /\ success = TRUE /\ rows = <<>>
FreshUntilScanned == main # "answer" => Fresh

\* The cursor of a column is at a position of the filter, before the first or
\* behind the last.
ReadingCursor(c) ==
  /\ c.block \in 1 .. Len(filter.blocks)
  /\ c.pos \in filter.blocks[c.block].bits
  /\ c.finished = FALSE
CursorsPlaced ==
  \A c \in Cols :
    \/ cursor[c] = NewCursor \/ cursor[c] = [NewCursor EXCEPT !.finished = TRUE]
    \/ /\ ReadingCursor(cursor[c])
       /\ (copying /\ c = col) \/ cursor[c].start = cursor[c].pos

\* Every column has at hand what comes behind the row it delivered last.
ColumnsInStep ==
  \A c \in Cols :
    Covers(SelectedRows, Pending(c), LastOf(c), GoesOn(c)) /\ LastOf(c) < GoesOn(c)

\* The copy of a page is at the position of the cursor.
CopyPlaced ==
  copying =>
    /\ col \in Cols /\ ~ filter.completeSet /\ blk[col] = <<>>
    /\ ReadingCursor(cursor[col])
    /\ cursor[col].start = base /\ base + off = cursor[col].pos
    /\ off < num /\ num <= PageMax /\ base + num <= N + 1 /\ 0 < base

\* The result is the selected rows up to the last, and the row being joined is the
\* next one; a column that fails finds none behind the last.
ResultSoFar ==
  /\ RowsJoined
  /\ \A j, k \in 1 .. Len(rows) : j < k => rows[j][1] < rows[k][1]
  /\ \A p \in Rows : (\E k \in 1 .. Len(rows) : rows[k][1] = p) <=> p \in SelectedRows /\ p <= Last
RowSoFar ==
  IF success
    THEN /\ col <= Columns + 1 /\ Len(row) = col - 1
         /\ \A j \in 1 .. Len(row) : row[j] = row[1]
         /\ col > 1 => /\ row[1] \in SelectedRows /\ Last < row[1]
                       /\ \A p \in SelectedRows : Last < p => row[1] <= p
    ELSE row = <<>> /\ \A p \in SelectedRows : p <= Last

IInv ==
  /\ TypeOK /\ FilterGood(filter) /\ FreshUntilScanned
  /\ CursorsPlaced /\ ColumnsInStep /\ CopyPlaced /\ ResultSoFar /\ RowSoFar

\* A page holds no more rows than a block has positions (65000 bytes and values of
\* two bytes and more; 47904 positions).
PagesFitBlocks == PageMax <= IntBits * MAX_INT

----------------------------------------------------------------------------
(* The scans and their threads *)

\* What was taken of a scan, and what is known of one nothing was taken of.
ScansInv ==
  /\ ThreadsTypeOK
  /\ \A c \in Cols : operand[c] = "filter" => scan[c] = "done"
  /\ \A c \in Cols : operand[c] = "null" =>
       way = "threads" /\ (timedOut \/ \E d \in Cols : scan[d] = "failed")
  /\ main \in {"scan", "wait"} => \A c \in Cols : operand[c] = "none"
  /\ main \notin {"scan", "wait"} => \A c \in Cols : scan[c] = "running" => timedOut
  /\ main # "scan" /\ way # "threads" => AllDone
  /\ main # "scan" => \A c \in Cols : scan[c] # "none"
  /\ main \in {"combine", "answer", "crashed"} => \A c \in Cols : operand[c] # "none"
  /\ freed => main \in {"combine", "answer", "crashed"}
  /\ corrupted => \E c \in Cols : operand[c] = "null"
  /\ main = "answer" => Parses
  /\ main = "crashed" => ~ Parses

LEMMA ScansInvInit == ThreadsInit => ScansInv
BY DEF ThreadsInit, ScansInv, ThreadsTypeOK

LEMMA RunScanKeeps ==
  ASSUME ScansInv, NEW c \in Cols, RunScan(c)
  PROVE  ScansInv'
<1> USE DEF ScansInv, RunScan, ThreadsTypeOK
<1>1. /\ scan' = [scan EXCEPT ![c] = "done"]
      /\ main = "scan" /\ main' \in {"take", "scan"} /\ way # "threads"
      /\ UNCHANGED <<way, operand, freed, timedOut, corrupted>>
  OBVIOUS
<1>2. \A d \in Cols : scan'[d] = IF d = c THEN "done" ELSE scan[d]
  BY <1>1
<1>3. main' = "take" => \A d \in Cols : scan'[d] = "done"
  BY <1>2
<1>4. ThreadsTypeOK'
  BY <1>1
<1> QED BY <1>1, <1>2, <1>3, <1>4 DEF AllDone

LEMMA BeginThreadsKeeps == ScansInv /\ BeginThreads => ScansInv'
BY DEF ScansInv, BeginThreads, ThreadsTypeOK, AllDone

LEMMA ThreadEndsKeeps ==
  ASSUME ScansInv, NEW c \in Cols, ThreadEnds(c)
  PROVE  ScansInv'
<1> USE DEF ScansInv, ThreadEnds, ThreadsTypeOK
<1>1. /\ scan' = [scan EXCEPT ![c] = "done"] /\ scan[c] = "running"
      /\ corrupted' = (corrupted \/ freed)
      /\ UNCHANGED <<way, main, operand, freed, timedOut>>
  OBVIOUS
<1>2. \A d \in Cols : scan'[d] = IF d = c THEN "done" ELSE scan[d]
  BY <1>1
<1>3. ThreadsTypeOK'
  BY <1>1
<1>4. corrupted' => \E d \in Cols : operand'[d] = "null"
  <2>1. operand[c] # "filter"
    BY <1>1
  <2>2. freed => operand[c] # "none"
    OBVIOUS
  <2>3. operand[c] \in {"none", "null", "filter"}
    OBVIOUS
  <2> QED BY <1>1, <2>1, <2>2, <2>3
<1>5. \A d \in Cols : scan[d] = "failed" => scan'[d] = "failed"
  BY <1>1, <1>2
<1>6. main # "answer" \/ scan[c] = "done"
  BY DEF Parses
<1> QED BY <1>1, <1>2, <1>3, <1>4, <1>5, <1>6 DEF AllDone, Parses

LEMMA WaitKeeps == ScansInv /\ WaitForMultipleObjects => ScansInv'
BY DEF ScansInv, WaitForMultipleObjects, ThreadsTypeOK, AllDone

LEMMA TakeResultKeeps ==
  ASSUME ScansInv, NEW c \in Cols, TakeResult(c)
  PROVE  ScansInv'
<1> USE DEF ScansInv, TakeResult, ThreadsTypeOK
<1>1. /\ operand' = [operand EXCEPT ![c] = IF scan[c] = "done" THEN "filter" ELSE "null"]
      /\ main = "take" /\ operand[c] = "none"
      /\ UNCHANGED <<way, main, scan, freed, timedOut, corrupted>>
  OBVIOUS
<1>2. \A d \in Cols : operand'[d] = IF d = c THEN IF scan[c] = "done" THEN "filter" ELSE "null"
                                             ELSE operand[d]
  BY <1>1
<1>3. scan[c] # "done" => way = "threads" /\ (timedOut \/ scan[c] = "failed")
  BY <1>1 DEF AllDone
<1>4. ThreadsTypeOK'
  BY <1>1
<1> QED BY <1>1, <1>2, <1>3, <1>4 DEF AllDone, Parses

LEMMA DeleteParamsKeeps == ScansInv /\ DeleteParams => ScansInv'
BY DEF ScansInv, DeleteParams, ThreadsTypeOK, AllDone

LEMMA GetPosFilterKeeps == ScansInv /\ GetPosFilter => ScansInv'
BY DEF ScansInv, GetPosFilter, ThreadsTypeOK, AllDone, Parses

LEMMA ScansInvHolds == Spec => []ScansInv
<1>1. ASSUME ScansInv, [Next]_vars PROVE ScansInv'
  <2>1. CASE RunScans
    BY <1>1, <2>1, RunScanKeeps, BeginThreadsKeeps, ThreadEndsKeeps, WaitKeeps,
       TakeResultKeeps, DeleteParamsKeeps DEF RunScans
  <2>2. CASE SetPositionFilter
    BY <1>1, <2>2, GetPosFilterKeeps DEF SetPositionFilter
  <2>3. CASE UNCHANGED threads
    BY <1>1, <2>3 DEF ScansInv, threads, ThreadsTypeOK, AllDone, Parses
  <2>4. Read => UNCHANGED threads
    BY DEF Read, ReadSequentially, ReadOnPos, FilterStep, FillData, AddRow, Fail
  <2> QED BY <1>1, <2>1, <2>2, <2>3, <2>4 DEF Next, vars
<1> QED BY ScansInvInit, <1>1, PTL DEF Spec, Init

LEMMA ScansInvIsLate == ScansInv => LateScanCrashes
<1> SUFFICES ASSUME ScansInv PROVE LateScanCrashes
  OBVIOUS
<1> USE DEF ScansInv, ThreadsTypeOK
<1>1. NoScanBehind
  BY DEF NoScanBehind, AllDone, Parses
<1>2. CrashOnlyLate
  <2> SUFFICES ASSUME main = "crashed" PROVE \E c \in Cols : operand[c] = "null"
    BY DEF CrashOnlyLate
  <2> QED BY DEF Parses
<1> QED BY <1>1, <1>2 DEF LateScanCrashes

\* No value is read while a scan is running, nor after one has written to
\* parameters that were deleted: a scan that is late or does not start ends the
\* process instead, and nothing else does (BlockPrinter.cpp:83-105).
THEOREM LateScansAreSafe == Spec => []LateScanCrashes
BY ScansInvHolds, ScansInvIsLate, PTL

----------------------------------------------------------------------------
(* The filters *)

LEMMA EmptyFilterGood == FilterGood(EmptyFilter) /\ ~ EmptyFilter.completeSet
<1>1. EmptyFilter.blocks = <<>> /\ EmptyFilter.startPos = 0 /\ EmptyFilter.endPos = 0
      /\ EmptyFilter.completeSet = FALSE
  BY DEF EmptyFilter
<1>2. FilterOK(EmptyFilter) /\ PositionsOf(EmptyFilter) = {}
  BY EmptyFilterOK
<1>3. Len(EmptyFilter.blocks) = 0
  BY <1>1
<1> QED BY <1>1, <1>2, <1>3 DEF FilterGood, Ordered, Tight

LEMMA CompleteFilterGood ==
  FilterGood(CompleteFilter) /\ CompleteFilter.completeSet
<1>1. /\ CompleteFilter.blocks = <<>> /\ CompleteFilter.startPos = 0
      /\ CompleteFilter.endPos = 0 /\ CompleteFilter.completeSet = TRUE
  BY DEF CompleteFilter, EmptyFilter
<1>2. Len(CompleteFilter.blocks) = 0
  BY <1>1
<1>3. CompleteFilter \in Filter
  <2>1. EmptyFilter \in Filter
    BY EmptyFilterOK DEF FilterOK
  <2> QED BY <2>1 DEF CompleteFilter, Filter
<1>4. PositionsOf(CompleteFilter) = {}
  BY <1>2 DEF PositionsOf
<1> QED BY <1>1, <1>2, <1>3, <1>4 DEF FilterGood, FilterOK, Ordered, Tight

\* The blocks after a position behind the end: it is in the last one, or in one of its
\* own behind all positions the last one has.
LEMMA AddAtEnd ==
  ASSUME NEW f, FilterOK(f), Ordered(f), NEW p \in Nat, p > f.endPos
  PROVE  LET n == Len(f.blocks)
         IN  \/ /\ n # 0
                /\ AddPosition(f, p).blocks = [f.blocks EXCEPT ![n] = BlockAdd(@, p)]
             \/ /\ n # 0 => ~ Fits(f.blocks[n].start, p)
                /\ AddPosition(f, p).blocks = Append(f.blocks, EmptyBuffer(p))
<1> DEFINE n == Len(f.blocks)
<1>1. f.endPos \in Nat /\ n \in Nat /\ (f.blocks # <<>> <=> n # 0)
  BY FilterFields DEF FilterOK
<1>2. CASE f.blocks # <<>> /\ BlockAccepts(f.blocks[n], p)
  <2>1. AddPosition(f, p).blocks = [f.blocks EXCEPT ![n] = BlockAdd(@, p)]
    BY <1>2, AddPositionBehind
  <2> QED BY <1>1, <1>2, <2>1
<1>3. CASE ~ (f.blocks # <<>> /\ BlockAccepts(f.blocks[n], p))
  <2>1. AddPosition(f, p).blocks = Append(f.blocks, EmptyBuffer(p))
    BY <1>3, AddPositionBehind
  <2>2. ASSUME n # 0
        PROVE  ~ Fits(f.blocks[n].start, p)
    <3>1. f.blocks[n].end = f.endPos
      BY <1>1, <2>2 DEF Ordered
    <3> QED BY <1>1, <1>3, <2>2, <3>1 DEF BlockAccepts
  <2> QED BY <2>1, <2>2
<1> QED BY <1>2, <1>3

\* What does not fit a block is behind all its positions.
LEMMA FitsNot ==
  ASSUME NEW s \in Nat, NEW p \in Nat, 0 < s, s <= p, ~ Fits(s, p)
  PROVE  p > IntBits * MAX_INT
<1>1. IntBits \in Nat /\ 0 < IntBits /\ MAX_INT \in Nat /\ IntBits * MAX_INT \in Nat
  BY BlockAssumption
<1> DEFINE d == p - s
           w == d \div IntBits
           r == d % IntBits
<1>2. d \in Nat /\ ~ (p < s)
  OBVIOUS
<1>3. ~ (w + 1 <= MAX_INT)
  BY <1>2 DEF Fits, Words
<1>4. w \in Nat /\ w * IntBits <= d
  <2>1. w \in Int /\ r \in 0 .. IntBits - 1 /\ d = IntBits * w + r
    BY <1>1, <1>2
  <2> HIDE DEF w, r
  <2>2. w >= 0
    <3> SUFFICES ASSUME w <= - 1 PROVE FALSE
      BY <2>1
    <3>1. IntBits * w <= IntBits * (- 1)
      BY <1>1, <2>1
    <3> QED BY <1>1, <1>2, <2>1, <3>1
  <2> QED BY <1>1, <2>1, <2>2
<1> HIDE DEF w
<1>5. w >= MAX_INT
  BY <1>1, <1>3, <1>4
<1>6. w * IntBits >= MAX_INT * IntBits
  BY <1>1, <1>4, <1>5
<1> HIDE DEF d
<1>7. d >= IntBits * MAX_INT
  BY <1>1, <1>2, <1>4, <1>6
<1> QED BY <1>1, <1>7 DEF d

LEMMA TightAtEnd ==
  ASSUME NEW f, FilterOK(f), Ordered(f), Tight(f), NEW p \in Nat, p > f.endPos
  PROVE  Tight(AddPosition(f, p))
<1> DEFINE n == Len(f.blocks)
           h == AddPosition(f, p)
           b == EmptyBuffer(p)
           limit == IntBits * MAX_INT
<1>1. /\ f \in Filter /\ f.blocks \in Seq(Block) /\ n \in Nat /\ f.endPos \in Nat
      /\ (f.blocks # <<>> <=> n # 0)
      /\ \A i \in 1 .. n : f.blocks[i] \in Block /\ f.blocks[i].start \in Nat /\ f.blocks[i].end \in Nat
  BY FilterFields DEF FilterOK
<1>2. b \in Block /\ b.start = p /\ b.end = p /\ b.bits = {p}
  BY <1>1, EmptyBufferType DEF EmptyBuffer
<1>3. n # 0 => /\ n \in 1 .. n /\ f.blocks[n].end = f.endPos
               /\ 0 < f.blocks[n].start /\ f.blocks[n].start <= f.blocks[n].end
  <2>1. n # 0 => n \in 1 .. n
    BY <1>1
  <2> QED BY <1>1, <2>1 DEF Ordered
<1>4. CASE n # 0 /\ h.blocks = [f.blocks EXCEPT ![n] = BlockAdd(@, p)]
  <2> DEFINE c == BlockAdd(f.blocks[n], p)
  <2>1. c \in Block /\ c.start = f.blocks[n].start /\ c.end = p /\ c.bits = f.blocks[n].bits \cup {p}
    BY <1>1, <1>3, <1>4, BlockAddBehind
  <2> HIDE DEF c, h
  <2>2. h.blocks = [f.blocks EXCEPT ![n] = c]
    BY <1>4 DEF c
  <2>3. Len(h.blocks) = n /\ \A i \in 1 .. n : h.blocks[i] = IF i = n THEN c ELSE f.blocks[i]
    BY <1>1, <1>3, <1>4, <2>1, <2>2, ExceptSeq
  <2>4. ASSUME NEW k \in 1 .. n
        PROVE  /\ h.blocks[k].start \in h.blocks[k].bits
               /\ \A q \in h.blocks[k].bits : h.blocks[k].start <= q /\ q <= h.blocks[k].end
               /\ k > 1 => h.blocks[k].start > limit
    <3>1. /\ f.blocks[k].start \in f.blocks[k].bits
          /\ \A q \in f.blocks[k].bits : f.blocks[k].start <= q /\ q <= f.blocks[k].end
          /\ k > 1 => f.blocks[k].start > limit
      BY DEF Tight
    <3>2. CASE k # n
      BY <2>3, <3>1, <3>2
    <3>3. CASE k = n
      <4>1. h.blocks[k] = c
        BY <2>3, <3>3
      <4>2. \A q \in f.blocks[n].bits : q \in Nat
        BY <1>1, <1>3, <1>4 DEF Block
      <4>3. \A q \in c.bits : c.start <= q /\ q <= c.end
        <5>1. f.blocks[n].end <= p /\ f.blocks[n].start <= p
          BY <1>1, <1>3, <1>4
        <5>2. f.blocks[n].start \in Nat /\ f.blocks[n].end \in Nat
          BY <1>1, <1>3, <1>4
        <5> QED BY <2>1, <3>1, <3>3, <4>2, <5>1, <5>2
      <4> QED BY <2>1, <3>1, <3>3, <4>1, <4>3
    <3> QED BY <3>2, <3>3
  <2> QED BY <2>3, <2>4 DEF Tight, h
<1>5. CASE (n # 0 => ~ Fits(f.blocks[n].start, p)) /\ h.blocks = Append(f.blocks, b)
  <2> HIDE DEF h, b
  <2>1. Len(h.blocks) = n + 1 /\ h.blocks[n + 1] = b /\ \A i \in 1 .. n : h.blocks[i] = f.blocks[i]
    BY <1>1, <1>2, <1>5, AppendProperties
  <2>2. n # 0 => p > limit
    BY <1>1, <1>3, <1>5, FitsNot
  <2>3. ASSUME NEW k \in 1 .. n + 1
        PROVE  /\ h.blocks[k].start \in h.blocks[k].bits
               /\ \A q \in h.blocks[k].bits : h.blocks[k].start <= q /\ q <= h.blocks[k].end
               /\ k > 1 => h.blocks[k].start > limit
    <3>1. CASE k = n + 1
      BY <1>1, <1>2, <2>1, <2>2, <3>1
    <3>2. CASE k # n + 1
      <4>1. k \in 1 .. n
        BY <1>1, <3>2
      <4> QED BY <2>1, <4>1 DEF Tight
    <3> QED BY <3>1, <3>2
  <2> QED BY <2>1, <2>3 DEF Tight, h
<1> QED BY <1>4, <1>5, AddAtEnd

LEMMA FilterOfIs ==
  ASSUME NEW S \in SUBSET Rows
  PROVE  FilterGood(FilterOf(S))
<1>1. N \in Nat
  BY ReadAssumption
<1> DEFINE f == CHOOSE h : h = AddedUpto(S, h, N)
<1>2. f = AddedUpto(S, f, N)
  <2>1. \E h : h = AddedUpto(S, h, N)
    BY <1>1, AddedUptoExists
  <2> QED BY <2>1, Zenon
<1>3. FilterOf(S) = f[N]
  BY Zenon DEF FilterOf, AddedUpto
<1> HIDE DEF f
<1>4. /\ f[0] = EmptyFilter
      /\ \A p \in Rows : f[p] = IF p \in S THEN AddPosition(f[p - 1], p) ELSE f[p - 1]
  <2>1. 0 \in 0 .. N /\ \A p \in Rows : p \in 0 .. N /\ p # 0
    BY <1>1 DEF Rows
  <2>2. \A p \in 0 .. N : f[p] = AddedUpto(S, f, N)[p]
    BY <1>2
  <2> QED BY <2>1, <2>2 DEF AddedUpto
<1> DEFINE Right(p) == /\ FilterGood(f[p]) /\ f[p].endPos <= p
           Wrong == {p \in 0 .. N : ~ Right(p)}
<1> SUFFICES ASSUME Wrong # {} PROVE FALSE
  BY <1>1, <1>3
<1>5. PICK p \in Wrong : \A q \in Wrong : p <= q
  <2>1. Wrong \subseteq Nat
    BY <1>1
  <2> QED BY <2>1, LeastExists
<1>6. p # 0
  <2>1. Right(0)
    <3>1. EmptyFilter.endPos = 0
      BY DEF EmptyFilter
    <3> QED BY <1>4, <3>1, EmptyFilterGood
  <2> HIDE DEF Right
  <2> QED BY <1>5, <2>1
<1>7. p \in Rows /\ p \in Nat /\ p - 1 \in 0 .. N /\ p - 1 < p
  BY <1>1, <1>6 DEF Rows
<1>8. Right(p - 1)
  <2> HIDE DEF Right
  <2> QED BY <1>5, <1>7
<1> DEFINE g == f[p - 1]
<1>9. /\ FilterOK(g) /\ Ordered(g) /\ Tight(g) /\ PositionsOf(g) \subseteq Rows
      /\ g.endPos \in Nat /\ g.endPos < p
  <2>1. FilterOK(g) /\ Ordered(g) /\ Tight(g) /\ PositionsOf(g) \subseteq Rows /\ g.endPos <= p - 1
       
    BY <1>8 DEF FilterGood
  <2>2. g.endPos \in Nat
    BY <2>1, FilterFields DEF FilterOK
  <2> QED BY <1>7, <2>1, <2>2
<1>10. CASE p \notin S
  <2>1. f[p] = g
    BY <1>4, <1>7, <1>10
  <2>2. Right(p)
    BY <1>7, <1>9, <2>1 DEF FilterGood
  <2> HIDE DEF Right
  <2> QED BY <1>5, <2>2
<1>11. CASE p \in S
  <2> HIDE DEF g
  <2>1. f[p] = AddPosition(g, p)
    BY <1>4, <1>7, <1>11 DEF g
  <2>2. FilterOK(AddPosition(g, p))
    BY <1>7, <1>9, AddPositionSound
  <2>3. /\ Ordered(AddPosition(g, p)) /\ AddPosition(g, p).endPos = p
        /\ PositionsOf(AddPosition(g, p)) = PositionsOf(g) \cup {p}
    BY <1>7, <1>9, AddPositionAscending
  <2>4. Tight(AddPosition(g, p))
    BY <1>7, <1>9, TightAtEnd
  <2>6. Right(p)
    BY <1>7, <1>9, <2>1, <2>2, <2>3, <2>4 DEF FilterGood
  <2> HIDE DEF Right
  <2> QED BY <1>5, <2>6
<1> QED BY <1>10, <1>11

----------------------------------------------------------------------------
(* Rows between two others *)

LEMMA RowNumbers ==
  /\ N \in Nat /\ 0 < N /\ N \in Rows /\ PageMax \in Nat /\ Columns \in Nat /\ 0 < Columns
  /\ \A p : p \in Rows <=> p \in Nat /\ 0 < p /\ p <= N
  /\ \A c : c \in Cols <=> c \in Nat /\ 0 < c /\ c <= Columns
BY ReadAssumption, ColumnsAssumption DEF Rows, Cols

LEMMA CoversNone ==
  ASSUME NEW S \in SUBSET Rows, NEW lo \in Nat, NEW hi \in Nat
  PROVE  Covers(S, <<>>, lo, hi) <=> \A p \in S : ~ (lo < p /\ p < hi)
<1>1. <<>> \in Seq(Rows) /\ Len(<<>>) = 0
  OBVIOUS
<1>2. \A k \in 1 .. Len(<<>>) : FALSE
  BY <1>1
<1> QED BY <1>1, <1>2 DEF Covers

LEMMA CoversAppend ==
  ASSUME NEW S \in SUBSET Rows, NEW s, NEW lo \in Nat, NEW hi \in S, NEW next \in Nat,
         Covers(S, s, lo, hi), lo < hi, hi < next, \A p \in S : hi < p => next <= p
  PROVE  Covers(S, Append(s, hi), lo, next)
<1> DEFINE t == Append(s, hi)
           n == Len(s)
<1>1. s \in Seq(Rows) /\ n \in Nat /\ hi \in Rows
  BY DEF Covers
<1>2. /\ t \in Seq(Rows) /\ Len(t) = n + 1 /\ t[n + 1] = hi
      /\ \A i \in 1 .. n : t[i] = s[i]
  BY <1>1, AppendProperties
<1> HIDE DEF t
<1>3. \A i \in 1 .. n : s[i] \in Rows /\ s[i] \in S /\ lo < s[i] /\ s[i] < hi
  BY <1>1, ElementOfSeq DEF Covers
<1>4. \A p \in Rows : p \in Nat
  BY RowNumbers
<1>5. ASSUME NEW i \in 1 .. n + 1, NEW j \in 1 .. n + 1, i < j PROVE t[i] < t[j]
  <2>1. i \in 1 .. n /\ (j \in 1 .. n \/ j = n + 1)
    BY <1>1, <1>5
  <2> QED BY <1>2, <1>3, <1>5, <2>1 DEF Covers
<1>6. ASSUME NEW p \in Rows
      PROVE  (\E k \in 1 .. n + 1 : t[k] = p) <=> p \in S /\ lo < p /\ p < next
  <2>1. ASSUME NEW k \in 1 .. n + 1, t[k] = p PROVE p \in S /\ lo < p /\ p < next
    <3>1. CASE k = n + 1
      BY <1>2, <2>1, <3>1
    <3>2. CASE k # n + 1
      <4>1. k \in 1 .. n
        BY <1>1, <3>2
      <4>2. p = s[k] /\ p \in Nat /\ hi \in Nat
        BY <1>1, <1>2, <1>4, <2>1, <4>1
      <4>3. p \in S /\ lo < p /\ p < hi
        BY <1>3, <4>1, <4>2
      <4> QED BY <4>2, <4>3
    <3> QED BY <3>1, <3>2
  <2>2. ASSUME p \in S, lo < p, p < next PROVE \E k \in 1 .. n + 1 : t[k] = p
    <3>1. CASE p = hi
      BY <1>1, <1>2, <3>1
    <3>2. CASE p # hi
      <4>1. p < hi
        BY <1>1, <1>4, <2>2, <3>2
      <4>2. PICK k \in 1 .. n : s[k] = p
        BY <2>2, <4>1 DEF Covers
      <4>3. k \in 1 .. n + 1
        BY <1>1
      <4> QED BY <1>2, <4>2, <4>3
    <3> QED BY <3>1, <3>2
  <2> QED BY <2>1, <2>2
<1>7. Len(t) = n + 1
  BY <1>2
<1> HIDE DEF n
<1>8. Covers(S, t, lo, next)
  BY <1>2, <1>5, <1>6, <1>7 DEF Covers
<1> QED BY <1>8 DEF t

LEMMA CoversTail ==
  ASSUME NEW S \in SUBSET Rows, NEW s, NEW lo \in Nat, NEW hi \in Nat,
         Covers(S, s, lo, hi), s # <<>>
  PROVE  /\ Head(s) \in S /\ lo < Head(s) /\ Head(s) < hi
         /\ \A p \in S : lo < p => Head(s) <= p
         /\ Covers(S, Tail(s), Head(s), hi)
<1> DEFINE n == Len(s)
           t == Tail(s)
<1>1. s \in Seq(Rows) /\ n \in Nat /\ n # 0 /\ 1 \in 1 .. n
  BY EmptySeq DEF Covers
<1>2. /\ t \in Seq(Rows) /\ Len(t) = n - 1 /\ \A i \in 1 .. n - 1 : t[i] = s[i + 1]
      /\ Head(s) = s[1]
  BY <1>1, HeadTailProperties
<1> HIDE DEF t
<1>3. \A i \in 1 .. n : s[i] \in Rows /\ s[i] \in Nat /\ s[i] \in S /\ lo < s[i] /\ s[i] < hi
  BY <1>1, ElementOfSeq, RowNumbers DEF Covers
<1>4. \A i \in 1 .. n : s[1] <= s[i]
  <2> SUFFICES ASSUME NEW i \in 1 .. n PROVE s[1] <= s[i]
    OBVIOUS
  <2>1. CASE i = 1
    BY <1>1, <1>3, <2>1
  <2>2. CASE i # 1
    BY <1>1, <1>3, <2>2 DEF Covers
  <2> QED BY <2>1, <2>2
<1>5. \A p \in Rows : p \in Nat
  BY RowNumbers
<1>6. \A p \in S : lo < p => s[1] <= p
  <2> SUFFICES ASSUME NEW p \in S, lo < p PROVE s[1] <= p
    OBVIOUS
  <2>1. CASE p < hi
    BY <1>4, <2>1 DEF Covers
  <2>2. CASE ~ p < hi
    BY <1>1, <1>3, <1>5, <2>2
  <2> QED BY <2>1, <2>2
<1>7. ASSUME NEW i \in 1 .. n - 1, NEW j \in 1 .. n - 1, i < j PROVE t[i] < t[j]
  <2>1. i + 1 \in 1 .. n /\ j + 1 \in 1 .. n /\ i + 1 < j + 1
    BY <1>1, <1>7
  <2> QED BY <1>2, <2>1 DEF Covers
<1>8. ASSUME NEW p \in Rows
      PROVE  (\E k \in 1 .. n - 1 : t[k] = p) <=> p \in S /\ s[1] < p /\ p < hi
  <2>1. ASSUME NEW k \in 1 .. n - 1, t[k] = p PROVE p \in S /\ s[1] < p /\ p < hi
    <3>1. k + 1 \in 1 .. n /\ 1 < k + 1 /\ t[k] = s[k + 1]
      BY <1>1, <1>2
    <3> QED BY <1>1, <1>3, <2>1, <3>1 DEF Covers
  <2>2. ASSUME p \in S, s[1] < p, p < hi PROVE \E k \in 1 .. n - 1 : t[k] = p
    <3>1. lo < p
      BY <1>1, <1>3, <1>5, <2>2
    <3>2. PICK k \in 1 .. n : s[k] = p
      BY <2>2, <3>1 DEF Covers
    <3>3. k # 1 /\ k - 1 \in 1 .. n - 1 /\ (k - 1) + 1 = k
      BY <1>1, <1>3, <2>2, <3>2
    <3> QED BY <1>2, <3>2, <3>3
  <2> QED BY <2>1, <2>2
<1>9. Covers(S, t, s[1], hi)
  <2>1. Len(t) = n - 1
    BY <1>2
  <2> HIDE DEF n
  <2> QED BY <1>2, <1>7, <1>8, <2>1 DEF Covers
<1> QED BY <1>1, <1>2, <1>3, <1>6, <1>9 DEF t

\* A page read as it is.
LEMMA CoversPage ==
  ASSUME NEW q \in Nat, NEW e \in Rows, q < e
  PROVE  LET s == [k \in 1 .. e - q |-> q + k]
         IN  Covers(Rows, s, q, e + 1) /\ s # <<>>
<1> DEFINE n == e - q
           s == [k \in 1 .. n |-> q + k]
<1>1. n \in Nat /\ 0 < n /\ e \in Nat /\ e <= N /\ N \in Nat
  BY RowNumbers
<1>2. \A k \in 1 .. n : q + k \in Rows
  BY <1>1, RowNumbers
<1>3. s \in Seq(Rows) /\ Len(s) = n
  <2>1. s \in [1 .. n -> Rows]
    BY <1>2
  <2> QED BY <1>1, <2>1
<1>4. \A k \in 1 .. n : s[k] = q + k
  OBVIOUS
<1> HIDE DEF s
<1>5. \A i, j \in 1 .. n : i < j => s[i] < s[j]
  BY <1>1, <1>4
<1>6. ASSUME NEW p \in Rows
      PROVE  (\E k \in 1 .. n : s[k] = p) <=> q < p /\ p < e + 1
  <2>1. p \in Nat
    BY RowNumbers
  <2>2. ASSUME q < p, p < e + 1 PROVE \E k \in 1 .. n : s[k] = p
    <3>1. p - q \in 1 .. n /\ q + (p - q) = p
      BY <1>1, <2>1, <2>2
    <3> QED BY <1>4, <3>1
  <2>3. ASSUME NEW k \in 1 .. n, s[k] = p PROVE q < p /\ p < e + 1
    BY <1>1, <1>4, <2>3
  <2> QED BY <2>2, <2>3
<1>7. Covers(Rows, s, q, e + 1)
  BY <1>3, <1>5, <1>6 DEF Covers
<1>8. s # <<>>
  <2>1. Len(<<>>) = 0
    OBVIOUS
  <2> QED BY <1>1, <1>3, <2>1
<1> QED BY <1>7, <1>8 DEF s

LEMMA FirstIs ==
  ASSUME NEW S \in SUBSET Nat, S # {}
  PROVE  First(S) \in S /\ \A x \in S : First(S) <= x
<1>1. \E m \in S : \A x \in S : m <= x
  BY LeastExists
<1> QED BY <1>1 DEF First

----------------------------------------------------------------------------
(* The cursor on the filter *)

Cursor == [block : Nat, pos : Nat, start : Nat, finished : BOOLEAN]

\* What the walk over a good filter relies on.
LEMMA BlocksOf ==
  ASSUME NEW f, FilterGood(f)
  PROVE  /\ f \in Filter /\ f.blocks \in Seq(Block) /\ Len(f.blocks) \in Nat
         /\ f.blocks # <<>> <=> Len(f.blocks) # 0
         /\ PositionsOf(f) \subseteq Rows
         /\ \A k \in 1 .. Len(f.blocks) :
              /\ f.blocks[k].bits \subseteq PositionsOf(f) /\ f.blocks[k].bits # {}
              /\ \A q \in f.blocks[k].bits : q \in Nat /\ 0 < q /\ q <= N
              /\ k > 1 => \A q \in f.blocks[k].bits : q > IntBits * MAX_INT
         /\ \A j, k \in 1 .. Len(f.blocks) : j < k =>
              \A x \in f.blocks[j].bits, y \in f.blocks[k].bits : x < y
         /\ \A p \in PositionsOf(f) : \E k \in 1 .. Len(f.blocks) : p \in f.blocks[k].bits
<1> DEFINE n == Len(f.blocks)
<1>1. /\ f \in Filter /\ f.blocks \in Seq(Block) /\ n \in Nat /\ (f.blocks # <<>> <=> n # 0)
      /\ \A k \in 1 .. n : f.blocks[k].start \in Nat /\ f.blocks[k].end \in Nat
  BY FilterFields DEF FilterGood, FilterOK
<1>2. PositionsOf(f) \subseteq Rows
  BY DEF FilterGood
<1>3. \A k \in 1 .. n : f.blocks[k].bits \subseteq PositionsOf(f)
  BY Zenon DEF PositionsOf
<1>4. \A k \in 1 .. n : f.blocks[k].start \in f.blocks[k].bits
  BY DEF FilterGood, Tight
<1>5. \A k \in 1 .. n : \A q \in f.blocks[k].bits : q \in Nat /\ 0 < q /\ q <= N
  BY <1>2, <1>3, RowNumbers
<1>6. \A k \in 1 .. n : \A q \in f.blocks[k].bits : f.blocks[k].start <= q /\ q <= f.blocks[k].end
  BY DEF FilterGood, Tight
<1>7. IntBits * MAX_INT \in Nat
  BY BlockAssumption
<1>8. ASSUME NEW k \in 1 .. n, k > 1, NEW q \in f.blocks[k].bits PROVE q > IntBits * MAX_INT
  <2>1. f.blocks[k].start > IntBits * MAX_INT
    BY <1>8 DEF FilterGood, Tight
  <2> QED BY <1>1, <1>5, <1>6, <1>7, <2>1
<1>9. ASSUME NEW j \in 1 .. n, NEW k \in 1 .. n, j < k,
             NEW x \in f.blocks[j].bits, NEW y \in f.blocks[k].bits
      PROVE  x < y
  <2>1. j \in 1 .. k - 1
    BY <1>1, <1>9
  <2>2. f.blocks[j].end < f.blocks[k].start
    BY <2>1 DEF FilterGood, Ordered
  <2> QED BY <1>1, <1>5, <1>6, <2>2
<1>10. \A p \in PositionsOf(f) : \E k \in 1 .. n : p \in f.blocks[k].bits
  BY Zenon DEF PositionsOf
<1> QED BY <1>1, <1>2, <1>3, <1>4, <1>5, <1>8, <1>9, <1>10

\* A block just entered: the cursor is at its first position.
LEMMA EnterBlockIs ==
  ASSUME FilterGood(filter), NEW n \in 1 .. Len(filter.blocks)
  PROVE  /\ EnterBlock(n) \in Cursor
         /\ ReadingCursor(EnterBlock(n)) /\ EnterBlock(n).block = n /\ EnterBlock(n).start = 0
         /\ \A q \in filter.blocks[n].bits : EnterBlock(n).pos <= q
         /\ n > 1 => EnterBlock(n).pos > IntBits * MAX_INT
<1> DEFINE bits == filter.blocks[n].bits
<1>1. bits \subseteq Nat /\ bits # {} /\ (n > 1 => \A q \in bits : q > IntBits * MAX_INT)
  BY BlocksOf
<1>2. First(bits) \in bits /\ \A q \in bits : First(bits) <= q
  BY <1>1, FirstIs
<1>3. /\ EnterBlock(n).block = n /\ EnterBlock(n).pos = First(bits)
      /\ EnterBlock(n).start = 0 /\ EnterBlock(n).finished = FALSE
  BY DEF EnterBlock
<1> HIDE DEF bits
<1>4. /\ ReadingCursor(EnterBlock(n)) /\ EnterBlock(n) \in Cursor
      /\ \A q \in bits : EnterBlock(n).pos <= q
      /\ n > 1 => EnterBlock(n).pos > IntBits * MAX_INT
  <2>1. n \in Nat /\ First(filter.blocks[n].bits) \in Nat
    BY <1>1, <1>2, BlocksOf DEF bits
  <2>2. EnterBlock(n) \in Cursor
    BY <2>1 DEF EnterBlock, Cursor
  <2> QED BY <1>1, <1>2, <1>3, <2>2 DEF ReadingCursor, bits
<1> QED BY <1>3, <1>4 DEF bits

\* The first call finds the first position, ...
LEMMA NextOfNew ==
  ASSUME FilterGood(filter), filter.blocks # <<>>
  PROVE  LET d == CursorNext(NewCursor)
         IN  /\ d \in Cursor /\ ReadingCursor(d) /\ d.start = 0
             /\ \A p \in PositionsOf(filter) : d.pos <= p
<1> DEFINE d == EnterBlock(1)
<1>1. CursorNext(NewCursor) = d
  BY DEF CursorNext, NewCursor
<1>2. 1 \in 1 .. Len(filter.blocks)
  BY BlocksOf
<1>3. d \in Cursor /\ ReadingCursor(d) /\ d.block = 1 /\ d.start = 0 /\ \A q \in filter.blocks[1].bits : d.pos <= q
  BY <1>2, EnterBlockIs
<1> HIDE DEF d
<1>4. ASSUME NEW p \in PositionsOf(filter) PROVE d.pos <= p
  <2>1. PICK k \in 1 .. Len(filter.blocks) : p \in filter.blocks[k].bits
    BY BlocksOf
  <2>2. CASE k = 1
    BY <1>3, <2>1, <2>2
  <2>3. CASE k # 1
    <3>1. 1 < k /\ d.pos \in filter.blocks[1].bits
      BY <1>3, <2>3 DEF ReadingCursor
    <3>2. d.pos < p /\ d.pos \in Nat /\ p \in Nat
      BY <1>2, <2>1, <3>1, BlocksOf
    <3> QED BY <3>2
  <2> QED BY <2>2, <2>3
<1> QED BY <1>1, <1>3, <1>4

\* ... and every other one the next, in the same block or in one behind it.
LEMMA NextOfReading ==
  ASSUME FilterGood(filter), NEW c \in Cursor, ReadingCursor(c)
  PROVE  LET d == CursorNext(c)
         IN  /\ c.pos \in PositionsOf(filter) /\ d \in Cursor
             /\ \/ /\ d = [NewCursor EXCEPT !.finished = TRUE]
                   /\ \A p \in PositionsOf(filter) : p <= c.pos
                \/ /\ ReadingCursor(d) /\ c.pos < d.pos
                   /\ \A p \in PositionsOf(filter) : c.pos < p => d.pos <= p
                   /\ \/ d.start = c.start
                      \/ d.start = 0 /\ d.pos > IntBits * MAX_INT
<1> DEFINE n == Len(filter.blocks)
           here == filter.blocks[c.block].bits
           more == {q \in here : q > c.pos}
           d == CursorNext(c)
<1>1. n \in Nat /\ c.block \in 1 .. n /\ c.pos \in here /\ c.block # 0
  BY BlocksOf DEF ReadingCursor
<1>2. here \subseteq PositionsOf(filter) /\ \A q \in here : q \in Nat
  BY <1>1, BlocksOf
<1>3. \A p \in PositionsOf(filter) :
        \E k \in 1 .. n : p \in filter.blocks[k].bits /\ p \in Nat
  BY BlocksOf
<1>4. \A k \in 1 .. n, p \in Nat : p \in filter.blocks[k].bits /\ k < c.block => p < c.pos
  BY <1>1, BlocksOf
<1>5. \A k \in 1 .. n, p \in Nat : p \in filter.blocks[k].bits /\ c.block < k => c.pos < p
  BY <1>1, BlocksOf
<1>6. CASE more # {}
  <2>1. d = [c EXCEPT !.pos = First(more)]
    BY <1>1, <1>6 DEF CursorNext
  <2>2. First(more) \in more /\ \A x \in more : First(more) <= x
    BY <1>2, <1>6, FirstIs
  <2>3. c.pos < First(more) /\ First(more) \in here /\ First(more) \in Nat
    BY <1>1, <1>2, <2>2
  <2>4. ASSUME NEW p \in PositionsOf(filter), c.pos < p PROVE First(more) <= p
    <3>1. PICK k \in 1 .. n : p \in filter.blocks[k].bits /\ p \in Nat
      BY <1>3
    <3>2. CASE k = c.block
      BY <2>2, <2>4, <3>1, <3>2
    <3>3. CASE k < c.block
      BY <1>1, <1>2, <1>4, <2>4, <3>1, <3>3
    <3>4. CASE c.block < k
      <4>1. First(more) < p
        BY <1>1, <2>3, <3>1, <3>4, BlocksOf
      <4> QED BY <2>3, <3>1, <4>1
    <3> QED BY <1>1, <3>2, <3>3, <3>4
  <2> DEFINE e == [c EXCEPT !.pos = First(more)]
  <2>5. /\ e \in Cursor /\ e.pos = First(more) /\ e.block = c.block
        /\ e.finished = c.finished /\ e.start = c.start
    BY <2>3 DEF Cursor
  <2> HIDE DEF e, more, d, here
  <2>6. d = e
    BY <2>1 DEF e
  <2>7. ReadingCursor(e)
    BY <2>3, <2>5 DEF ReadingCursor, here
  <2> QED BY <1>1, <1>2, <2>3, <2>4, <2>5, <2>6, <2>7 DEF d
<1>7. CASE more = {} /\ c.block < n
  <2> DEFINE k == c.block + 1
  <2>1. d = EnterBlock(k)
    BY <1>1, <1>7 DEF CursorNext
  <2>2. k \in 1 .. n /\ k > 1 /\ c.block < k
    BY <1>1, <1>7
  <2> HIDE DEF k, d
  <2>3. /\ d \in Cursor /\ ReadingCursor(d) /\ d.block = k /\ d.start = 0
        /\ \A q \in filter.blocks[k].bits : d.pos <= q
        /\ d.pos > IntBits * MAX_INT
    BY <2>1, <2>2, EnterBlockIs
  <2>4. d.pos \in filter.blocks[k].bits /\ d.pos \in Nat
    BY <2>2, <2>3, BlocksOf DEF ReadingCursor
  <2>5. c.pos < d.pos
    BY <1>5, <2>2, <2>4
  <2>6. ASSUME NEW p \in PositionsOf(filter), c.pos < p PROVE d.pos <= p
    <3>1. PICK j \in 1 .. n : p \in filter.blocks[j].bits /\ p \in Nat
      BY <1>3
    <3>2. CASE j = k
      BY <2>3, <3>1, <3>2
    <3>3. CASE k < j
      BY <2>2, <2>4, <3>1, <3>3, BlocksOf
    <3>4. CASE j = c.block
      BY <1>7, <2>6, <3>1, <3>4
    <3>5. CASE j < c.block
      BY <1>1, <1>2, <1>4, <2>6, <3>1, <3>5
    <3>6. j = k \/ k < j \/ j = c.block \/ j < c.block
      BY <1>1 DEF k
    <3> QED BY <3>2, <3>3, <3>4, <3>5, <3>6
  <2> QED BY <1>1, <1>2, <2>3, <2>5, <2>6 DEF d
<1>8. CASE more = {} /\ ~ c.block < n
  <2>1. d = [NewCursor EXCEPT !.finished = TRUE]
    BY <1>1, <1>8 DEF CursorNext
  <2>2. ASSUME NEW p \in PositionsOf(filter) PROVE p <= c.pos
    <3>1. PICK j \in 1 .. n : p \in filter.blocks[j].bits /\ p \in Nat
      BY <1>3
    <3>2. CASE j = c.block
      BY <1>1, <1>2, <1>8, <3>1, <3>2
    <3>3. CASE j < c.block
      <4>1. p < c.pos
        BY <1>4, <3>1, <3>3
      <4> QED BY <1>1, <1>2, <3>1, <4>1
    <3> QED BY <1>1, <1>8, <3>2, <3>3
  <2>3. d \in Cursor
    <3>1. NewCursor \in Cursor
      BY DEF NewCursor, Cursor
    <3>2. [NewCursor EXCEPT !.finished = TRUE] \in Cursor
      BY <3>1 DEF Cursor
    <3> QED BY <2>1, <3>2
  <2> QED BY <1>1, <1>2, <2>1, <2>2, <2>3
<1> QED BY <1>6, <1>7, <1>8

----------------------------------------------------------------------------
(* The pages *)

\* The page of a row ends with it or behind it, begins with it or before it, and is
\* no longer than a page may be.
LEMMA PageIs ==
  ASSUME layout \in [Cols -> Layouts], NEW c \in Cols, NEW p \in Rows
  PROVE  LET e == First(PageEnds(c, p))
         IN  /\ PageEnds(c, p) # {} /\ e \in Rows /\ p <= e
             /\ PageStart(c, e) \in Nat /\ PageStart(c, e) <= p /\ e - p + 1 <= PageMax
<1> DEFINE ends == layout[c]
           e == First(PageEnds(c, p))
<1>1. /\ ends \subseteq Rows /\ N \in ends
      /\ \A x \in ends : \E d \in ends \cup {0} : d < x /\ x - d <= PageMax
  BY DEF Layouts
<1>2. p \in Nat /\ 0 < p /\ p <= N /\ N \in Nat /\ \A x \in ends \cup {0} : x \in Nat /\ x <= N
  BY <1>1, RowNumbers
<1>3. PageEnds(c, p) = {x \in ends : x >= p}
  BY DEF PageEnds
<1>4. PageEnds(c, p) # {} /\ PageEnds(c, p) \subseteq Nat
  BY <1>1, <1>2, <1>3
<1>5. e \in ends /\ e >= p /\ \A x \in ends : x >= p => e <= x
  BY <1>3, <1>4, FirstIs
<1> HIDE DEF e
<1>6. e \in Nat /\ e \in Rows
  BY <1>1, <1>2, <1>5
<1> DEFINE S == {x \in ends \cup {0} : x < e}
           Before(d) == d < e /\ \A x \in ends : x < e => x <= d
           d == CHOOSE d \in ends \cup {0} : Before(d)
<1>7. \E m \in ends \cup {0} : Before(m)
  <2>1. S \in SUBSET (0 .. N)
    BY <1>2
  <2>2. 0 \in S
    BY <1>2, <1>5, <1>6
  <2>3. PICK m \in S : \A x \in S : x <= m
    BY <1>2, <2>1, <2>2, GreatestExists
  <2>4. m \in ends \cup {0} /\ Before(m)
    BY <2>3
  <2> QED BY <2>4
<1>8. d \in ends \cup {0} /\ Before(d)
  <2> HIDE DEF Before
  <2> QED BY <1>7
<1>9. PageStart(c, e) = 1 + d
  BY DEF PageStart
<1> HIDE DEF d
<1>10. d \in Nat
  BY <1>2, <1>8
<1>11. d < p
  <2> SUFFICES ASSUME ~ d < p PROVE FALSE
    OBVIOUS
  <2>1. d \in ends /\ d >= p
    BY <1>2, <1>8, <1>10
  <2> QED BY <1>5, <1>6, <1>8, <1>10, <2>1
<1>12. PICK m \in ends \cup {0} : m < e /\ e - m <= PageMax
  BY <1>1, <1>5
<1>13. m <= d /\ m \in Nat
  BY <1>2, <1>8, <1>10, <1>12
<1>14. e - p + 1 <= PageMax
  BY <1>2, <1>6, <1>10, <1>11, <1>12, <1>13, RowNumbers
<1> QED BY <1>2, <1>4, <1>5, <1>6, <1>9, <1>10, <1>11, <1>14 DEF e

----------------------------------------------------------------------------
(* What the state says of a column *)

LEMMA Facts ==
  ASSUME IInv
  PROVE  /\ FilterGood(filter) /\ filter \in Filter /\ filter.completeSet \in BOOLEAN
         /\ SelectedRows \in SUBSET Rows /\ PositionsOf(filter) \subseteq Rows
         /\ ~ filter.completeSet => SelectedRows = PositionsOf(filter)
         /\ Last \in Nat
         /\ \A c \in Cols :
              /\ LastOf(c) \in Nat /\ GoesOn(c) \in Nat
              /\ cursor[c] \in Cursor /\ seqPos[c] \in Nat /\ seqPos[c] <= N
              /\ blk[c] \in Seq(Rows)
         /\ col \in Nat /\ 0 < col /\ col <= Columns + 2 /\ (col <= Columns => col \in Cols)
<1> USE DEF IInv
<1>1. FilterGood(filter) /\ filter \in Filter /\ PositionsOf(filter) \subseteq Rows
  BY DEF FilterGood, TypeOK
<1>2. filter.completeSet \in BOOLEAN
  BY <1>1 DEF Filter
<1>3. SelectedRows \in SUBSET Rows /\ (~ filter.completeSet => SelectedRows = PositionsOf(filter))
  BY <1>1 DEF SelectedRows
<1>4. Last \in Nat
  <2>1. CASE rows = <<>>
    BY <2>1 DEF Last
  <2>2. CASE rows # <<>>
    <3>1. rows \in Seq(Seq(Rows)) /\ Len(rows) \in Nat /\ Len(rows) # 0
      BY <2>2, EmptySeq DEF TypeOK
    <3>2. Len(rows) \in 1 .. Len(rows)
      BY <3>1
    <3>3. rows[Len(rows)] \in Seq(Rows)
      BY <3>1, <3>2, ElementOfSeq
    <3>4. Len(rows[Len(rows)]) = Columns
      BY <3>2 DEF ResultSoFar, RowsJoined
    <3>5. 1 \in 1 .. Len(rows[Len(rows)])
      BY <3>4, RowNumbers
    <3>6. rows[Len(rows)][1] \in Rows
      BY <3>3, <3>5, ElementOfSeq
    <3> QED BY <2>2, <3>6, RowNumbers DEF Last
  <2> QED BY <2>1, <2>2
<1>5. col \in Nat /\ 0 < col /\ col <= Columns + 2 /\ (col <= Columns => col \in Cols)
  <2>1. col \in 1 .. Columns + 2
    BY DEF TypeOK
  <2>2. Columns \in Nat /\ Cols = 1 .. Columns
    BY RowNumbers DEF Cols
  <2> QED BY <2>1, <2>2
<1>6. ASSUME NEW c \in Cols
      PROVE  /\ cursor[c] \in Cursor /\ cursor[c].pos \in 0 .. N
             /\ seqPos[c] \in Nat /\ seqPos[c] <= N /\ blk[c] \in Seq(Rows)
  <2>1. /\ seqPos[c] \in 0 .. N /\ blk[c] \in Seq(Rows)
        /\ cursor[c] \in [block : 0 .. Len(filter.blocks), pos : 0 .. N,
                          start : 0 .. N, finished : BOOLEAN]
    BY DEF TypeOK
  <2>2. 0 .. Len(filter.blocks) \subseteq Nat /\ 0 .. N \subseteq Nat
    BY <1>1, BlocksOf, RowNumbers
  <2>3. cursor[c] \in Cursor /\ cursor[c].pos \in 0 .. N
    <3>1. /\ cursor[c].block \in 0 .. Len(filter.blocks) /\ cursor[c].pos \in 0 .. N
          /\ cursor[c].start \in 0 .. N /\ cursor[c].finished \in BOOLEAN
          /\ cursor[c] = [block |-> cursor[c].block, pos |-> cursor[c].pos,
                          start |-> cursor[c].start, finished |-> cursor[c].finished]
      BY <2>1
    <3>2. /\ cursor[c].block \in Nat /\ cursor[c].pos \in Nat /\ cursor[c].start \in Nat
      BY <2>2, <3>1
    <3> QED BY <3>1, <3>2 DEF Cursor
  <2> QED BY <2>1, <2>3, RowNumbers
<1>7. ASSUME NEW c \in Cols PROVE GoesOn(c) \in Nat
  BY <1>6, RowNumbers DEF GoesOn
<1>8. ASSUME NEW c \in Cols PROVE LastOf(c) \in Nat
  <2>1. CASE success /\ c < col
    <3>1. col > 1
      BY <1>5, <2>1, RowNumbers
    <3>2. row[1] \in SelectedRows
      BY <2>1, <3>1 DEF RowSoFar
    <3> QED BY <1>3, <2>1, <3>2, RowNumbers DEF LastOf
  <2>2. CASE ~ (success /\ c < col)
    BY <1>4, <2>2 DEF LastOf
  <2> QED BY <2>1, <2>2
<1> QED BY <1>1, <1>2, <1>3, <1>4, <1>5, <1>6, <1>7, <1>8

\* Values are read once the filter is there.
LEMMA Scanned ==
  ASSUME IInv, copying \/ col = Columns + 1 \/ \E c \in Cols : blk[c] # <<>>
  PROVE  main = "answer"
<1> SUFFICES ASSUME Fresh PROVE FALSE
  BY DEF IInv, FreshUntilScanned
<1>1. \A c \in Cols : blk[c] = <<>>
  BY DEF Fresh
<1> QED BY <1>1, RowNumbers DEF Fresh

\* A column without a value at hand and without a selected row to go on with is the
\* first one of a row, and all selected rows have been delivered.
LEMMA Exhausted ==
  ASSUME IInv, NEW k \in Cols, k = col, ~ copying, blk[k] = <<>>,
         \A p \in SelectedRows : p < GoesOn(k)
  PROVE  row = <<>> /\ (\A p \in SelectedRows : p <= Last) /\ (success => col = 1)
<1>1. Covers(SelectedRows, <<>>, LastOf(k), GoesOn(k))
  BY DEF IInv, ColumnsInStep, Pending
<1>2. \A p \in SelectedRows : p \in Nat
  BY Facts, RowNumbers
<1>3. \A p \in SelectedRows : p <= LastOf(k)
  BY <1>1, <1>2, Facts, CoversNone
<1>4. LastOf(k) = Last
  BY Facts DEF LastOf
<1>5. success => col = 1
  <2> SUFFICES ASSUME success, col # 1 PROVE FALSE
    OBVIOUS
  <2>1. col > 1
    BY Facts
  <2>2. row[1] \in SelectedRows /\ Last < row[1]
    BY <2>1 DEF IInv, RowSoFar
  <2> QED BY <1>2, <1>3, <1>4, <2>2, Facts
<1>6. row = <<>>
  <2>1. CASE ~ success
    BY <2>1 DEF IInv, RowSoFar
  <2>2. CASE success
    <3>1. Len(row) = 0 /\ row \in Seq(Rows)
      BY <1>5, <2>2 DEF IInv, RowSoFar, TypeOK
    <3> QED BY <3>1, EmptySeq
  <2> QED BY <2>1, <2>2
<1> QED BY <1>3, <1>4, <1>5, <1>6
----------------------------------------------------------------------------
(* The steps *)

\* A read leaves the scans, the pages and the filter alone.
LEMMA StillScanned ==
  ASSUME IInv, main = "answer", UNCHANGED <<threads, layout, filter>>
  PROVE  /\ ThreadsTypeOK' /\ layout' \in [Cols -> Layouts] /\ filter' \in Filter
         /\ FilterGood(filter)' /\ FreshUntilScanned' /\ SelectedRows' = SelectedRows
<1>1. ThreadsTypeOK'
  BY DEF IInv, TypeOK, ThreadsTypeOK, threads
<1>2. main' = "answer"
  BY DEF threads
<1>3. FilterGood(filter)
  BY DEF IInv
<1>4. FilterGood(filter)'
  BY <1>3
<1>5. SelectedRows' = SelectedRows
  BY DEF SelectedRows
<1> QED BY <1>1, <1>2, <1>4, <1>5 DEF IInv, TypeOK, FreshUntilScanned

LEMMA FailKeeps ==
  ASSUME IInv, main = "answer", NEW k \in Cols, k = col, ~ copying, blk[k] = <<>>,
         \A p \in SelectedRows : p < GoesOn(k), Fail
  PROVE  IInv'
<1>1. row = <<>> /\ (\A p \in SelectedRows : p <= Last) /\ (success => col = 1)
  BY Exhausted
<1>2. /\ success' = FALSE /\ col' = col + 1
      /\ UNCHANGED <<threads, layout, filter>>
      /\ UNCHANGED <<cursor, seqPos, blk, copying, base, num, off, buf, row, rows>>
  BY DEF Fail
<1>3. /\ ThreadsTypeOK' /\ layout' \in [Cols -> Layouts] /\ filter' \in Filter
      /\ FilterGood(filter)' /\ FreshUntilScanned' /\ SelectedRows' = SelectedRows
  BY <1>2, StillScanned
<1>4. TypeOK'
  <2>1. col' \in 1 .. Columns + 2
    BY <1>2, RowNumbers
  <2> QED BY <1>2, <1>3, <2>1 DEF IInv, TypeOK
<1>5. Last' = Last
  BY <1>2 DEF Last
<1>6. CursorsPlaced'
  BY <1>2 DEF IInv, CursorsPlaced, ReadingCursor
<1>7. ColumnsInStep'
  <2> SUFFICES ASSUME NEW c \in Cols
               PROVE  (Covers(SelectedRows, Pending(c), LastOf(c), GoesOn(c)) /\ LastOf(c) < GoesOn(c))'
    BY DEF ColumnsInStep
  <2>1. Covers(SelectedRows, Pending(c), LastOf(c), GoesOn(c)) /\ LastOf(c) < GoesOn(c)
    BY DEF IInv, ColumnsInStep
  <2>2. Pending(c)' = Pending(c)
    BY <1>2 DEF Pending
  <2>3. GoesOn(c)' = GoesOn(c)
    BY <1>2 DEF GoesOn
  <2>4. LastOf(c) = Last
    BY <1>1, RowNumbers DEF LastOf
  <2>5. LastOf(c)' = Last
    BY <1>2, <1>5 DEF LastOf
  <2> QED BY <1>3, <2>1, <2>2, <2>3, <2>4, <2>5
<1>8. CopyPlaced'
  BY <1>2 DEF CopyPlaced
<1>9. ResultSoFar'
  BY <1>2, <1>3, <1>5 DEF IInv, ResultSoFar, RowsJoined
<1>10. RowSoFar'
  BY <1>1, <1>2, <1>3, <1>5 DEF RowSoFar
<1> QED BY <1>3, <1>4, <1>6, <1>7, <1>8, <1>9, <1>10 DEF IInv

\* Nothing is delivered while a column gets a block, or copies one.
LEMMA ReadKeeps ==
  ASSUME IInv, UNCHANGED <<filter, col, row, success, rows>>
  PROVE  /\ Last' = Last /\ (\A c \in Cols : LastOf(c)' = LastOf(c))
         /\ (SelectedRows' = SelectedRows => ResultSoFar' /\ RowSoFar')
<1>1. Last' = Last
  BY DEF Last
<1>2. \A c \in Cols : LastOf(c)' = LastOf(c)
  BY <1>1 DEF LastOf
<1>3. SelectedRows' = SelectedRows => ResultSoFar'
  BY <1>1 DEF IInv, ResultSoFar, RowsJoined
<1>4. SelectedRows' = SelectedRows => RowSoFar'
  BY <1>1 DEF IInv, RowSoFar
<1> QED BY <1>1, <1>2, <1>3, <1>4

LEMMA SequentialKeeps ==
  ASSUME IInv, ReadSequentially
  PROVE  IInv'
<1>1. /\ main = "answer" /\ ~ copying /\ filter.completeSet /\ col <= Columns
      /\ blk[col] = <<>>
  BY DEF ReadSequentially, Wanted
<1>2. PICK k \in Cols : k = col
  BY <1>1, Facts
<1> DEFINE q == seqPos[k]
           ends == PageEnds(k, q + 1)
<1>3. q \in Nat /\ q <= N /\ SelectedRows = Rows /\ GoesOn(k) = q + 1
  BY <1>1, Facts DEF SelectedRows, GoesOn
<1>4. CASE ends = {}
  <2>1. q = N
    <3> SUFFICES ASSUME q # N PROVE FALSE
      OBVIOUS
    <3>1. q + 1 \in Rows
      BY <1>3, RowNumbers
    <3> QED BY <1>4, <3>1, PageIs DEF IInv, TypeOK
  <2>2. \A p \in SelectedRows : p < GoesOn(k)
    BY <1>3, <2>1, RowNumbers
  <2>3. Fail
    BY <1>2, <1>4 DEF ReadSequentially
  <2> QED BY <1>1, <1>2, <2>2, <2>3, FailKeeps
<1>5. CASE ends # {}
  <2> DEFINE e == First(ends)
             s == [i \in 1 .. e - q |-> q + i]
  <2>1. /\ seqPos' = [seqPos EXCEPT ![k] = e] /\ blk' = [blk EXCEPT ![k] = s]
        /\ UNCHANGED <<threads, layout, filter>>
        /\ UNCHANGED <<filter, col, row, success, rows>>
        /\ UNCHANGED <<cursor, copying, base, num, off, buf>>
    BY <1>2, <1>5 DEF ReadSequentially
  <2>2. layout[k] \subseteq Rows
    BY DEF IInv, TypeOK, Layouts
  <2>3. e \in Rows /\ q < e
    <3>1. ends \subseteq Nat /\ ends \subseteq Rows /\ \A x \in ends : x >= q + 1
      BY <2>2, RowNumbers DEF PageEnds
    <3>2. e \in ends
      BY <1>5, <3>1, FirstIs
    <3> QED BY <1>3, <3>1, <3>2, RowNumbers
  <2>4. Covers(Rows, s, q, e + 1) /\ s # <<>>
    BY <1>3, <2>3, CoversPage
  <2> HIDE DEF s, e, ends, q
  <2>5. s \in Seq(Rows) /\ e \in 0 .. N /\ e \in Nat
    BY <2>3, <2>4, RowNumbers DEF Covers
  <2>6. /\ ThreadsTypeOK' /\ layout' \in [Cols -> Layouts] /\ filter' \in Filter
        /\ FilterGood(filter)' /\ FreshUntilScanned' /\ SelectedRows' = SelectedRows
    BY <1>1, <2>1, StillScanned
  <2>7. /\ ResultSoFar' /\ RowSoFar' /\ \A c \in Cols : LastOf(c)' = LastOf(c)
    BY <2>1, <2>6, ReadKeeps
  <2>8. /\ seqPos \in [Cols -> 0 .. N] /\ blk \in [Cols -> Seq(Rows)]
    BY DEF IInv, TypeOK
  <2>9. TypeOK'
    <3>1. seqPos' \in [Cols -> 0 .. N] /\ blk' \in [Cols -> Seq(Rows)]
      BY <2>1, <2>5, <2>8
    <3> QED BY <2>1, <2>6, <3>1 DEF IInv, TypeOK
  <2>10. CursorsPlaced' /\ CopyPlaced'
    BY <1>1, <2>1 DEF IInv, CursorsPlaced, CopyPlaced, ReadingCursor
  <2>11. ColumnsInStep'
    <3> SUFFICES ASSUME NEW c \in Cols
                 PROVE  (Covers(SelectedRows, Pending(c), LastOf(c), GoesOn(c)) /\ LastOf(c) < GoesOn(c))'
      BY DEF ColumnsInStep
    <3>1. Covers(SelectedRows, Pending(c), LastOf(c), GoesOn(c)) /\ LastOf(c) < GoesOn(c)
      BY DEF IInv, ColumnsInStep
    <3>2. CASE c # k
      <4>1. Pending(c)' = Pending(c) /\ GoesOn(c)' = GoesOn(c)
        BY <1>1, <2>1, <2>8, <3>2 DEF Pending, GoesOn
      <4> QED BY <2>6, <2>7, <3>1, <4>1
    <3>3. CASE c = k
      <4>1. Pending(c)' = s /\ GoesOn(c)' = e + 1 /\ Pending(c) = <<>>
        BY <1>1, <1>2, <2>1, <2>8, <3>3 DEF Pending, GoesOn
      <4>2. LastOf(c) \in Nat
        BY Facts
      <4>3. \A p \in Rows : ~ (LastOf(c) < p /\ p < q + 1)
        BY <1>3, <3>1, <3>3, <4>1, <4>2, CoversNone
      <4>4. LastOf(c) = q
        <5> SUFFICES ASSUME LastOf(c) < q PROVE FALSE
          BY <1>3, <3>1, <3>3, <4>2 
        <5>1. q \in Rows
          BY <1>3, <4>2, RowNumbers
        <5> QED BY <1>3, <4>3, <5>1
      <4> QED BY <1>3, <2>3, <2>4, <2>5, <2>6, <2>7, <4>1, <4>4
    <3> QED BY <3>2, <3>3
  <2> QED BY <2>6, <2>7, <2>9, <2>10, <2>11 DEF IInv
<1> QED BY <1>4, <1>5
LEMMA ReadingTyped ==
  ASSUME FilterGood(filter), NEW c \in Cursor, ReadingCursor(c), c.start \in 0 .. N
  PROVE  /\ c \in [block : 0 .. Len(filter.blocks), pos : 0 .. N,
                   start : 0 .. N, finished : BOOLEAN]
         /\ c.pos \in Rows /\ c.pos \in PositionsOf(filter)
         /\ c # NewCursor /\ ~ c.finished
<1>1. /\ c.block \in 1 .. Len(filter.blocks) /\ c.pos \in filter.blocks[c.block].bits
      /\ c.finished = FALSE /\ Len(filter.blocks) \in Nat
  BY BlocksOf DEF ReadingCursor
<1>2. c.pos \in PositionsOf(filter) /\ c.pos \in Rows
  BY <1>1, BlocksOf
<1>3. c.block \in 0 .. Len(filter.blocks) /\ c.pos \in 0 .. N
  BY <1>1, <1>2, RowNumbers
<1>4. c = [block |-> c.block, pos |-> c.pos, start |-> c.start, finished |-> c.finished]
  BY DEF Cursor
<1>5. c # NewCursor
  BY <1>1 DEF NewCursor
<1> QED BY <1>1, <1>2, <1>3, <1>4, <1>5

\* The cursor a column reads its next page with: at the next row it has to deliver, or
\* behind the last.
LEMMA StartedIs ==
  ASSUME IInv, NEW k \in Cols, k = col, ~ copying, blk[k] = <<>>, ~ filter.completeSet,
         filter.blocks # <<>>
  PROVE  LET c == Started(cursor[k])
         IN  \/ c.finished = TRUE /\ \A p \in SelectedRows : p < GoesOn(k)
             \/ /\ c \in Cursor /\ ReadingCursor(c) /\ c.start = c.pos
                /\ c.pos \in SelectedRows /\ LastOf(k) < c.pos
                /\ \A p \in SelectedRows : LastOf(k) < p => c.pos <= p
<1> DEFINE cur == cursor[k]
           S == SelectedRows
<1>1. /\ FilterGood(filter) /\ S = PositionsOf(filter) /\ S \in SUBSET Rows
      /\ LastOf(k) \in Nat /\ GoesOn(k) \in Nat /\ cur \in Cursor
  BY Facts
<1>2. Covers(S, <<>>, LastOf(k), GoesOn(k)) /\ LastOf(k) < GoesOn(k)
  BY DEF IInv, ColumnsInStep, Pending
<1>3. \A p \in S : ~ (LastOf(k) < p /\ p < GoesOn(k))
  BY <1>1, <1>2, CoversNone
<1>4. \A p \in S : p \in Nat /\ 0 < p /\ p <= N
  BY <1>1, RowNumbers
<1>5. CASE cur = NewCursor
  <2> DEFINE d == CursorNext(NewCursor)
             c == SetCurrStart(d)
  <2>1. Started(cur) = c
    BY <1>5 DEF Started
  <2>2. d \in Cursor /\ ReadingCursor(d) /\ \A p \in S : d.pos <= p
    BY <1>1, NextOfNew
  <2> HIDE DEF d
  <2>3. c = [d EXCEPT !.start = d.pos]
    BY DEF SetCurrStart
  <2>4. d.pos \in Nat
    BY <2>2 DEF Cursor
  <2>5. /\ c \in Cursor /\ c.start = d.pos /\ c.pos = d.pos /\ c.block = d.block
        /\ c.finished = d.finished
    BY <2>2, <2>3, <2>4 DEF Cursor
  <2> HIDE DEF c
  <2>6. ReadingCursor(c)
    BY <2>2, <2>5 DEF ReadingCursor
  <2>7. c.pos \in S
    BY <1>1, <2>6, BlocksOf DEF ReadingCursor
  <2>8. LastOf(k) = 0
    BY <1>1, <1>2, <1>5 DEF GoesOn
  <2> QED BY <1>4, <2>1, <2>2, <2>5, <2>6, <2>7, <2>8
<1>6. CASE cur = [NewCursor EXCEPT !.finished = TRUE]
  <2>1. cur.finished = TRUE /\ NewCursor.finished = FALSE
    BY <1>6 DEF NewCursor
  <2>2. Started(cur) = cur /\ GoesOn(k) = N + 1
    BY <2>1 DEF Started, GoesOn
  <2> QED BY <1>4, <2>1, <2>2, RowNumbers
<1>7. CASE ReadingCursor(cur) /\ cur.start = cur.pos
  <2>1. cur.block \in 1 .. Len(filter.blocks) /\ cur.pos \in S
    BY <1>1, <1>7, BlocksOf DEF ReadingCursor
  <2>2. cur # NewCursor /\ cur.finished = FALSE
    BY <1>7, <2>1 DEF NewCursor, ReadingCursor
  <2>3. Started(cur) = cur /\ GoesOn(k) = cur.pos
    BY <2>2 DEF Started, GoesOn
  <2>4. \A p \in S : LastOf(k) < p => cur.pos <= p
    BY <1>1, <1>3, <1>4, <2>1, <2>3
  <2> QED BY <1>1, <1>2, <1>7, <2>1, <2>3, <2>4
<1>8. \/ cur = NewCursor \/ cur = [NewCursor EXCEPT !.finished = TRUE]
      \/ ReadingCursor(cur) /\ cur.start = cur.pos
  BY DEF IInv, CursorsPlaced
<1> QED BY <1>5, <1>6, <1>7, <1>8

LEMMA OnPosKeeps ==
  ASSUME IInv, ReadOnPos
  PROVE  IInv'
<1>1. /\ main = "answer" /\ ~ copying /\ ~ filter.completeSet /\ col <= Columns
      /\ blk[col] = <<>>
  BY DEF ReadOnPos, Wanted
<1>2. PICK k \in Cols : k = col
  BY <1>1, Facts
<1> DEFINE c == Started(cursor[k])
           S == SelectedRows
           ends == PageEnds(k, c.start)
<1>3. S = PositionsOf(filter) /\ S \in SUBSET Rows /\ FilterGood(filter)
  BY <1>1, Facts
<1>4. CASE filter.blocks = <<>>
  <2>1. S = {}
    BY <1>3, <1>4, BlocksOf
  <2>2. Fail
    BY <1>2, <1>4 DEF ReadOnPos
  <2> QED BY <1>1, <1>2, <2>1, <2>2, FailKeeps
<1>5. CASE filter.blocks # <<>> /\ c.finished = TRUE /\ \A p \in S : p < GoesOn(k)
  <2>1. Fail
    BY <1>2, <1>5 DEF ReadOnPos
  <2> QED BY <1>1, <1>2, <1>5, <2>1, FailKeeps
<1>6. CASE /\ filter.blocks # <<>>
           /\ c \in Cursor /\ ReadingCursor(c) /\ c.start = c.pos
           /\ c.pos \in S /\ LastOf(k) < c.pos
           /\ \A p \in S : LastOf(k) < p => c.pos <= p
  <2> DEFINE p == c.pos
             e == First(ends)
             first == PageStart(k, e)
             b == IF c.start < first THEN first ELSE c.start
  <2>1. p \in Rows /\ p \in Nat /\ 0 < p /\ p <= N /\ c.start = p /\ c.finished = FALSE
    BY <1>3, <1>6, RowNumbers DEF ReadingCursor
  <2>2. ends # {} /\ e \in Rows /\ p <= e /\ first \in Nat /\ first <= p /\ e - p + 1 <= PageMax
    <3>1. layout \in [Cols -> Layouts]
      BY DEF IInv, TypeOK
    <3> QED BY <2>1, <3>1, PageIs
  <2>3. b = p
    BY <2>1, <2>2
  <2>4. /\ base' = b /\ num' = e - b + 1 /\ cursor' = [cursor EXCEPT ![k] = c]
        /\ off' = 0 /\ buf' = <<>> /\ copying' = TRUE
        /\ UNCHANGED <<threads, layout, filter>>
        /\ UNCHANGED <<filter, col, row, success, rows>>
        /\ UNCHANGED <<seqPos, blk>>
    BY <1>2, <1>6, <2>1, <2>2 DEF ReadOnPos, Fail
  <2> HIDE DEF b, first, e, ends, p, c
  <2>5. base' = p /\ num' = e - p + 1
    BY <2>3, <2>4
  <2>6. /\ ThreadsTypeOK' /\ layout' \in [Cols -> Layouts] /\ filter' \in Filter
        /\ FilterGood(filter)' /\ FreshUntilScanned' /\ SelectedRows' = SelectedRows
    BY <1>1, <2>4, StillScanned
  <2>7. /\ ResultSoFar' /\ RowSoFar' /\ \A d \in Cols : LastOf(d)' = LastOf(d)
    BY <2>4, <2>6, ReadKeeps
  <2>8. p = c.pos /\ c.start \in 0 .. N
    BY <2>1, RowNumbers DEF p
  <2>9. /\ c \in [block : 0 .. Len(filter.blocks), pos : 0 .. N,
                  start : 0 .. N, finished : BOOLEAN]
        /\ c # NewCursor /\ ~ c.finished
    BY <1>3, <1>6, <2>8, ReadingTyped
  <2>10. cursor \in [Cols -> [block : 0 .. Len(filter.blocks), pos : 0 .. N,
                              start : 0 .. N, finished : BOOLEAN]]
    BY DEF IInv, TypeOK
  <2>11. cursor'[k] = c /\ \A d \in Cols : d # k => cursor'[d] = cursor[d]
    BY <2>4, <2>10
  <2>12. TypeOK'
    <3>1. cursor' \in [Cols -> [block : 0 .. Len(filter'.blocks), pos : 0 .. N,
                                start : 0 .. N, finished : BOOLEAN]]
      BY <2>4, <2>9, <2>10
    <3>2. base' \in 0 .. N /\ num' \in 0 .. N /\ off' \in 0 .. N /\ buf' \in Seq(Rows)
          /\ copying' \in BOOLEAN
      BY <2>1, <2>2, <2>4, <2>5, RowNumbers
    <3> QED BY <2>4, <2>6, <3>1, <3>2 DEF IInv, TypeOK
  <2>13. CursorsPlaced'
    <3> SUFFICES ASSUME NEW d \in Cols
                 PROVE  (\/ cursor[d] = NewCursor \/ cursor[d] = [NewCursor EXCEPT !.finished = TRUE]
                         \/ /\ ReadingCursor(cursor[d])
                            /\ (copying /\ d = col) \/ cursor[d].start = cursor[d].pos)'
      BY DEF CursorsPlaced
    <3>1. CASE d = k
      BY <1>6, <2>4, <2>11, <3>1 DEF ReadingCursor
    <3>2. CASE d # k
      BY <1>1, <2>4, <2>11, <3>2 DEF IInv, CursorsPlaced, ReadingCursor
    <3> QED BY <3>1, <3>2
  <2>14. CopyPlaced'
    <3>1. /\ ~ filter'.completeSet /\ blk'[k] = <<>> /\ cursor'[k].start = base'
          /\ base' + off' = cursor'[k].pos
      BY <1>1, <1>2, <2>1, <2>4, <2>5, <2>8, <2>11
    <3>2. off' < num' /\ num' <= PageMax /\ base' + num' <= N + 1 /\ 0 < base'
      BY <2>1, <2>2, <2>4, <2>5, RowNumbers
    <3>3. ReadingCursor(cursor[k])'
      BY <1>6, <2>4, <2>11 DEF ReadingCursor
    <3> QED BY <1>2, <2>4, <3>1, <3>2, <3>3 DEF CopyPlaced
  <2>15. ColumnsInStep'
    <3> SUFFICES ASSUME NEW d \in Cols
                 PROVE  (Covers(SelectedRows, Pending(d), LastOf(d), GoesOn(d)) /\ LastOf(d) < GoesOn(d))'
      BY DEF ColumnsInStep
    <3>1. Covers(SelectedRows, Pending(d), LastOf(d), GoesOn(d)) /\ LastOf(d) < GoesOn(d)
      BY DEF IInv, ColumnsInStep
    <3>2. CASE d # k
      <4>1. Pending(d)' = Pending(d)
        BY <1>1, <1>2, <2>4, <3>2 DEF Pending
      <4>2. GoesOn(d)' = GoesOn(d)
        BY <2>4, <2>11, <3>2 DEF GoesOn
      <4> QED BY <2>6, <2>7, <3>1, <4>1, <4>2
    <3>3. CASE d = k
      <4>1. Pending(d)' = <<>> /\ GoesOn(d)' = p
        BY <1>1, <1>2, <2>4, <2>8, <2>9, <2>11, <3>3 DEF Pending, GoesOn
      <4>2. LastOf(d) \in Nat
        BY Facts
      <4>3. \A q \in S : ~ (LastOf(d) < q /\ q < p)
        <5>1. \A q \in S : q \in Nat
          BY <1>3, RowNumbers
        <5> QED BY <1>6, <2>1, <2>8, <3>3, <4>2, <5>1
      <4>4. Covers(S, <<>>, LastOf(d), p)
        BY <1>3, <2>1, <4>2, <4>3, CoversNone
      <4> QED BY <1>6, <2>6, <2>7, <2>8, <3>3, <4>1, <4>4
    <3> QED BY <3>2, <3>3
  <2> QED BY <2>6, <2>7, <2>12, <2>13, <2>14, <2>15 DEF IInv
<1> QED BY <1>1, <1>2, <1>4, <1>5, <1>6, StartedIs
\* What changes when a value is copied, and when the copy ends.
LEMMA CopyKeeps ==
  ASSUME IInv, FilterStep, PagesFitBlocks
  PROVE  IInv'
<1>1. copying = TRUE /\ main = "answer"
  BY Scanned DEF FilterStep, IInv, TypeOK
<1>2. PICK k \in Cols : k = col
  BY <1>1 DEF IInv, CopyPlaced
<1> DEFINE cur == cursor[k]
           S == SelectedRows
           p == cur.pos
           c == CursorNext(cur)
           o == c.pos - c.start
           s == Append(buf, p)
<1>3. /\ ~ filter.completeSet /\ blk[k] = <<>> /\ ReadingCursor(cur)
      /\ cur.start = base /\ base + off = p /\ off < num /\ num <= PageMax
      /\ base + num <= N + 1 /\ 0 < base
  BY <1>1, <1>2 DEF IInv, CopyPlaced
<1>4. /\ S = PositionsOf(filter) /\ S \in SUBSET Rows /\ FilterGood(filter) /\ cur \in Cursor
      /\ LastOf(k) \in Nat
  BY <1>3, Facts
<1>5. base \in Nat /\ base <= N /\ num \in Nat /\ off \in Nat /\ buf \in Seq(Rows)
  BY RowNumbers DEF IInv, TypeOK
<1>6. cur.start \in 0 .. N
  BY <1>3, <1>5, RowNumbers
<1>7. cur # NewCursor /\ ~ cur.finished /\ p \in Rows /\ p \in S /\ p \in Nat /\ p <= N
  BY <1>3, <1>4, <1>6, ReadingTyped, RowNumbers
<1>8. Covers(S, buf, LastOf(k), p) /\ LastOf(k) < p
  BY <1>1, <1>2, <1>3, <1>7 DEF IInv, ColumnsInStep, Pending, GoesOn
<1>9. /\ c \in Cursor
      /\ \/ /\ c = [NewCursor EXCEPT !.finished = TRUE]
            /\ \A q \in S : q <= p
         \/ /\ ReadingCursor(c) /\ p < c.pos
            /\ \A q \in S : p < q => c.pos <= q
            /\ \/ c.start = base
               \/ c.start = 0 /\ c.pos > IntBits * MAX_INT
  BY <1>3, <1>4, NextOfReading
<1>10. /\ buf' = s
       /\ UNCHANGED <<threads, layout, filter>>
       /\ UNCHANGED <<filter, col, row, success, rows>>
       /\ UNCHANGED <<seqPos, base, num>>
       /\ IF ~ c.finished /\ Holds(o)
            THEN /\ cursor' = [cursor EXCEPT ![k] = c]
                 /\ off' = o /\ blk' = blk /\ copying' = copying
            ELSE /\ cursor' = [cursor EXCEPT ![k] = IF c.finished THEN c ELSE SetCurrStart(c)]
                 /\ blk' = [blk EXCEPT ![k] = s]
                 /\ copying' = FALSE /\ off' = off
  BY <1>2, <1>3 DEF FilterStep
<1> HIDE DEF cur, S, p, c, o, s
<1>11. /\ ThreadsTypeOK' /\ layout' \in [Cols -> Layouts] /\ filter' \in Filter
       /\ FilterGood(filter)' /\ FreshUntilScanned' /\ SelectedRows' = SelectedRows
  BY <1>1, <1>10, StillScanned
<1>12. /\ ResultSoFar' /\ RowSoFar' /\ \A d \in Cols : LastOf(d)' = LastOf(d)
  BY <1>10, <1>11, ReadKeeps
<1>13. s \in Seq(Rows)
  BY <1>5, <1>7, AppendProperties DEF s
<1>14. /\ cursor \in [Cols -> [block : 0 .. Len(filter.blocks), pos : 0 .. N,
                               start : 0 .. N, finished : BOOLEAN]]
       /\ blk \in [Cols -> Seq(Rows)]
  BY DEF IInv, TypeOK
\* what the cursor of the column is afterwards
<1> DEFINE d == cursor'[k]
<1>15. /\ d \in [block : 0 .. Len(filter.blocks), pos : 0 .. N,
                 start : 0 .. N, finished : BOOLEAN]
       /\ cursor' = [cursor EXCEPT ![k] = d]
       /\ \A e \in Cols : e # k => cursor'[e] = cursor[e] /\ blk'[e] = blk[e]
       /\ off' \in 0 .. N /\ copying' \in BOOLEAN /\ blk' \in [Cols -> Seq(Rows)]
       /\ \/ /\ d = [NewCursor EXCEPT !.finished = TRUE] /\ (\A q \in S : q <= p)
             /\ copying' = FALSE /\ blk'[k] = s
          \/ /\ ReadingCursor(d) /\ p < d.pos /\ d # NewCursor /\ ~ d.finished
             /\ d.pos \in Rows /\ \A q \in S : p < q => d.pos <= q
             /\ \/ copying' = FALSE /\ blk'[k] = s /\ d.start = d.pos
                \/ /\ copying' = TRUE /\ blk'[k] = <<>> /\ d.start = base
                   /\ base + off' = d.pos /\ off' < num
  <2>1. CASE c = [NewCursor EXCEPT !.finished = TRUE] /\ \A q \in S : q <= p
    <3>1. c.finished = TRUE
      BY <2>1 DEF NewCursor
    <3>2. c = [block |-> 0, pos |-> 0, start |-> 0, finished |-> TRUE]
      BY <2>1 DEF NewCursor
    <3>3. 0 \in 0 .. N /\ 0 \in 0 .. Len(filter.blocks) /\ TRUE \in BOOLEAN
      BY <1>4, BlocksOf, RowNumbers
    <3>4. c \in [block : 0 .. Len(filter.blocks), pos : 0 .. N,
                 start : 0 .. N, finished : BOOLEAN]
      BY <3>2, <3>3
    <3>5. cursor' = [cursor EXCEPT ![k] = c] /\ blk' = [blk EXCEPT ![k] = s] /\ copying' = FALSE
          /\ off' = off
      BY <1>10, <3>1
    <3>6. d = c
      BY <1>14, <3>5
    <3>7. off' \in 0 .. N
      BY <3>5 DEF IInv, TypeOK
    <3> QED BY <1>13, <1>14, <2>1, <3>4, <3>5, <3>6, <3>7
  <2>2. CASE /\ ReadingCursor(c) /\ p < c.pos /\ (\A q \in S : p < q => c.pos <= q)
             /\ \/ c.start = base
                \/ c.start = 0 /\ c.pos > IntBits * MAX_INT
    <3>1. c.start \in 0 .. N
      BY <1>5, <2>2, RowNumbers
    <3>2. /\ c \in [block : 0 .. Len(filter.blocks), pos : 0 .. N,
                    start : 0 .. N, finished : BOOLEAN]
          /\ c.pos \in Rows /\ c # NewCursor /\ ~ c.finished
      BY <1>4, <1>9, <2>2, <3>1, ReadingTyped
    <3>3. c.pos \in Nat /\ c.pos <= N /\ c.pos \in 0 .. N
      BY <3>2, RowNumbers
    <3>4. CASE Holds(o)
      <4>1. c.start = base
        <5> SUFFICES ASSUME c.start = 0, c.pos > IntBits * MAX_INT PROVE FALSE
          BY <2>2
        <5>1. IntBits * MAX_INT \in Nat
          BY BlockAssumption
        <5> QED BY <1>3, <1>5, <3>3, <3>4, <5>1, RowNumbers DEF Holds, o, PagesFitBlocks
      <4>2. cursor' = [cursor EXCEPT ![k] = c] /\ off' = o /\ blk' = blk /\ copying' = TRUE
        BY <1>1, <1>10, <3>2, <3>4
      <4>3. d = c
        BY <1>14, <4>2
      <4>4. base + off' = d.pos /\ off' < num /\ off' \in 0 .. N
        BY <1>3, <1>5, <1>7, <2>2, <3>3, <3>4, <4>1, <4>2, <4>3, RowNumbers DEF Holds, o
      <4> QED BY <1>3, <1>14, <2>2, <3>2, <4>1, <4>2, <4>3, <4>4
    <3>5. CASE ~ Holds(o)
      <4> DEFINE g == SetCurrStart(c)
      <4>1. g = [c EXCEPT !.start = c.pos]
        BY DEF SetCurrStart
      <4>2. /\ g \in Cursor /\ g.start = c.pos /\ g.pos = c.pos /\ g.block = c.block
            /\ g.finished = c.finished
        BY <1>9, <3>3, <4>1 DEF Cursor
      <4> HIDE DEF g
      <4>3. ReadingCursor(g)
        BY <2>2, <4>2 DEF ReadingCursor
      <4>4. /\ g \in [block : 0 .. Len(filter.blocks), pos : 0 .. N,
                      start : 0 .. N, finished : BOOLEAN]
            /\ g # NewCursor /\ ~ g.finished
        BY <1>4, <3>3, <4>2, <4>3, ReadingTyped
      <4>5. cursor' = [cursor EXCEPT ![k] = g] /\ off' = off /\ blk' = [blk EXCEPT ![k] = s]
            /\ copying' = FALSE
        BY <1>10, <3>2, <3>5 DEF g
      <4>6. d = g
        BY <1>14, <4>5
      <4>7. off' \in 0 .. N
        BY <4>5 DEF IInv, TypeOK
      <4> QED BY <1>13, <1>14, <2>2, <3>2, <4>2, <4>3, <4>4, <4>5, <4>6, <4>7
    <3> QED BY <3>4, <3>5
  <2> QED BY <1>9, <2>1, <2>2
<1> HIDE DEF d
<1>16. TypeOK'
  <2>1. cursor' \in [Cols -> [block : 0 .. Len(filter'.blocks), pos : 0 .. N,
                              start : 0 .. N, finished : BOOLEAN]]
    BY <1>10, <1>14, <1>15
  <2>2. buf' \in Seq(Rows)
    BY <1>10, <1>13
  <2> QED BY <1>10, <1>11, <1>15, <2>1, <2>2 DEF IInv, TypeOK
<1>17. CursorsPlaced'
  <2> SUFFICES ASSUME NEW e \in Cols
               PROVE  (\/ cursor[e] = NewCursor \/ cursor[e] = [NewCursor EXCEPT !.finished = TRUE]
                       \/ /\ ReadingCursor(cursor[e])
                          /\ (copying /\ e = col) \/ cursor[e].start = cursor[e].pos)'
    BY DEF CursorsPlaced
  <2>1. CASE e = k
    BY <1>2, <1>10, <1>15, <2>1 DEF ReadingCursor, d
  <2>2. CASE e # k
    BY <1>2, <1>10, <1>15, <2>2 DEF IInv, CursorsPlaced, ReadingCursor
  <2> QED BY <2>1, <2>2
<1>18. CopyPlaced'
  <2> SUFFICES ASSUME copying'
               PROVE  (/\ k \in Cols /\ k = col /\ ~ filter.completeSet /\ blk[k] = <<>>
                       /\ ReadingCursor(cursor[k])
                       /\ cursor[k].start = base /\ base + off = cursor[k].pos
                       /\ off < num /\ num <= PageMax /\ base + num <= N + 1 /\ 0 < base)'
    BY <1>2, <1>10 DEF CopyPlaced
  <2>1. /\ ReadingCursor(d) /\ blk'[k] = <<>> /\ d.start = base
        /\ base + off' = d.pos /\ off' < num
    BY <1>15
  <2>2. ReadingCursor(cursor[k])'
    BY <1>10, <2>1 DEF ReadingCursor, d
  <2> QED BY <1>2, <1>3, <1>10, <2>1, <2>2 DEF d
<1>19. ColumnsInStep'
  <2> SUFFICES ASSUME NEW e \in Cols
               PROVE  (Covers(SelectedRows, Pending(e), LastOf(e), GoesOn(e)) /\ LastOf(e) < GoesOn(e))'
    BY DEF ColumnsInStep
  <2>1. CASE e # k
    <3>1. Covers(SelectedRows, Pending(e), LastOf(e), GoesOn(e)) /\ LastOf(e) < GoesOn(e)
      BY DEF IInv, ColumnsInStep
    <3>2. Pending(e)' = Pending(e)
      BY <1>2, <1>10, <1>15, <2>1 DEF Pending
    <3>3. GoesOn(e)' = GoesOn(e)
      BY <1>10, <1>15, <2>1 DEF GoesOn
    <3> QED BY <1>11, <1>12, <3>1, <3>2, <3>3
  <2>2. CASE e = k
    <3>1. Pending(e)' = s
      BY <1>2, <1>10, <1>15, <2>2 DEF Pending
    <3>2. CASE d = [NewCursor EXCEPT !.finished = TRUE] /\ \A q \in S : q <= p
      <4>1. d # NewCursor /\ d.finished
        BY <3>2 DEF NewCursor
      <4>2. GoesOn(e)' = N + 1
        BY <1>3, <1>10, <2>2, <4>1 DEF GoesOn, d
      <4>3. \A q \in S : p < q => N + 1 <= q
        BY <1>4, <1>7, <3>2, RowNumbers
      <4>4. N + 1 \in Nat /\ p < N + 1
        BY <1>7, RowNumbers
      <4>5. Covers(S, s, LastOf(k), N + 1)
        BY <1>4, <1>7, <1>8, <4>3, <4>4, CoversAppend DEF s
      <4> QED BY <1>4, <1>7, <1>8, <1>11, <1>12, <2>2, <3>1, <4>2, <4>5, RowNumbers DEF S
    <3>3. CASE /\ p < d.pos /\ d # NewCursor /\ ~ d.finished /\ d.pos \in Rows
               /\ \A q \in S : p < q => d.pos <= q
      <4>1. GoesOn(e)' = d.pos
        BY <1>3, <1>10, <2>2, <3>3 DEF GoesOn, d
      <4>2. d.pos \in Nat
        BY <3>3, RowNumbers
      <4>3. Covers(S, s, LastOf(k), d.pos)
        BY <1>4, <1>7, <1>8, <3>3, <4>2, CoversAppend DEF s
      <4> QED BY <1>4, <1>7, <1>8, <1>11, <1>12, <2>2, <3>1, <3>3, <4>1, <4>2, <4>3 DEF S
    <3> QED BY <1>15, <3>2, <3>3
  <2> QED BY <2>1, <2>2
<1> QED BY <1>11, <1>12, <1>16, <1>17, <1>18, <1>19 DEF IInv
\* The value a column delivers is of the row that is being joined, or of the next one.
LEMMA FillKeeps ==
  ASSUME IInv, FillData
  PROVE  IInv'
<1>1. col <= Columns /\ ~ copying /\ blk[col] # <<>>
  BY DEF FillData
<1>2. PICK k \in Cols : k = col
  BY <1>1, Facts
<1> DEFINE S == SelectedRows
           h == Head(blk[k])
<1>3. /\ S \in SUBSET Rows /\ LastOf(k) \in Nat /\ GoesOn(k) \in Nat /\ Last \in Nat
      /\ LastOf(k) = Last /\ k \in Nat /\ 0 < k /\ k <= Columns
      /\ \A p \in S : p \in Nat
  BY <1>2, Facts, RowNumbers DEF LastOf
<1>4. Covers(S, blk[k], LastOf(k), GoesOn(k)) /\ blk[k] # <<>> /\ Pending(k) = blk[k]
  BY <1>1, <1>2 DEF IInv, ColumnsInStep, Pending
<1>5. main = "answer"
  BY <1>2, <1>4, Scanned
<1>6. /\ h \in S /\ Last < h /\ h < GoesOn(k) /\ \A p \in S : Last < p => h <= p
      /\ Covers(S, Tail(blk[k]), h, GoesOn(k))
  BY <1>3, <1>4, CoversTail
<1> HIDE DEF h, S
<1>7. h \in Rows /\ h \in Nat
  BY <1>3, <1>6
<1>8. success = TRUE
  <2> SUFFICES ASSUME ~ success PROVE FALSE
    BY DEF IInv, TypeOK
  <2> QED BY <1>3, <1>6, <1>7 DEF IInv, RowSoFar, S
<1>9. /\ row' = Append(row, h) /\ blk' = [blk EXCEPT ![k] = Tail(blk[k])] /\ col' = k + 1
      /\ UNCHANGED <<threads, layout, filter>>
      /\ UNCHANGED <<cursor, seqPos, copying, base, num, off, buf, success, rows>>
  BY <1>2, <1>8 DEF FillData, h
<1>10. /\ row \in Seq(Rows) /\ Len(row) = k - 1 /\ \A j \in 1 .. Len(row) : row[j] = row[1]
       /\ k > 1 => row[1] \in S /\ Last < row[1] /\ \A p \in S : Last < p => row[1] <= p
  BY <1>2, <1>8 DEF IInv, TypeOK, RowSoFar, S
<1>11. k > 1 => row[1] = h
  <2> SUFFICES ASSUME k > 1 PROVE row[1] = h
    OBVIOUS
  <2>1. row[1] <= h /\ h <= row[1] /\ row[1] \in Nat
    BY <1>3, <1>6, <1>10
  <2> QED BY <1>7, <2>1
<1>12. /\ row' \in Seq(Rows) /\ Len(row') = k /\ \A j \in 1 .. k : row'[j] = h
  <2>1. /\ row' \in Seq(Rows) /\ Len(row') = (k - 1) + 1 /\ row'[(k - 1) + 1] = h
        /\ \A j \in 1 .. k - 1 : row'[j] = row[j]
    BY <1>7, <1>9, <1>10, AppendProperties
  <2>2. ASSUME NEW j \in 1 .. k PROVE row'[j] = h
    <3>1. CASE j = k
      BY <1>3, <2>1, <3>1
    <3>2. CASE j # k
      <4>1. j \in 1 .. k - 1 /\ k > 1
        BY <1>3, <3>2
      <4>2. row[j] = row[1]
        BY <1>10, <4>1
      <4> QED BY <1>11, <2>1, <4>1, <4>2
    <3> QED BY <3>1, <3>2
  <2> QED BY <1>3, <2>1, <2>2
<1>13. row'[1] = h
  BY <1>3, <1>12
<1>14. /\ ThreadsTypeOK' /\ layout' \in [Cols -> Layouts] /\ filter' \in Filter
       /\ FilterGood(filter)' /\ FreshUntilScanned' /\ SelectedRows' = S
  BY <1>5, <1>9, StillScanned DEF S
<1>15. blk \in [Cols -> Seq(Rows)] /\ Tail(blk[k]) \in Seq(Rows)
  <2>1. blk \in [Cols -> Seq(Rows)]
    BY DEF IInv, TypeOK
  <2>2. Tail(blk[k]) \in Seq(Rows)
    BY <1>6 DEF Covers
  <2> QED BY <2>1, <2>2
<1>16. TypeOK'
  <2>1. blk' \in [Cols -> Seq(Rows)]
    BY <1>9, <1>15
  <2>2. col' \in 1 .. Columns + 2
    BY <1>3, <1>9, RowNumbers
  <2> QED BY <1>9, <1>12, <1>14, <2>1, <2>2 DEF IInv, TypeOK
<1>17. Last' = Last
  BY <1>9 DEF Last
<1>18. CursorsPlaced' /\ CopyPlaced'
  BY <1>1, <1>9 DEF IInv, CursorsPlaced, CopyPlaced, ReadingCursor
<1>19. ColumnsInStep'
  <2> SUFFICES ASSUME NEW c \in Cols
               PROVE  (Covers(SelectedRows, Pending(c), LastOf(c), GoesOn(c)) /\ LastOf(c) < GoesOn(c))'
    BY DEF ColumnsInStep
  <2>1. Covers(S, Pending(c), LastOf(c), GoesOn(c)) /\ LastOf(c) < GoesOn(c)
    BY DEF IInv, ColumnsInStep, S
  <2>2. GoesOn(c)' = GoesOn(c)
    BY <1>9 DEF GoesOn
  <2>3. c \in Nat
    BY RowNumbers
  <2>4. CASE c # k
    <3>1. Pending(c)' = Pending(c)
      BY <1>1, <1>9, <1>15, <2>4 DEF Pending
    <3>2. LastOf(c)' = LastOf(c)
      <4>1. CASE c < k
        <5>1. LastOf(c) = row[1] /\ k > 1
          BY <1>2, <1>3, <1>8, <2>3, <4>1, RowNumbers DEF LastOf
        <5>2. LastOf(c)' = row'[1]
          BY <1>3, <1>8, <1>9, <2>3, <4>1 DEF LastOf
        <5> QED BY <1>11, <1>13, <5>1, <5>2
      <4>2. CASE k < c
        <5>1. ~ (c < col) /\ ~ (c < col')
          BY <1>2, <1>3, <1>9, <2>3, <4>2
        <5> QED BY <1>17, <5>1 DEF LastOf
      <4> QED BY <1>3, <2>3, <2>4, <4>1, <4>2
    <3> QED BY <1>14, <2>1, <2>2, <3>1, <3>2
  <2>5. CASE c = k
    <3>1. Pending(c)' = Tail(blk[k])
      BY <1>1, <1>9, <1>15, <2>5 DEF Pending
    <3>2. LastOf(c)' = h
      BY <1>3, <1>8, <1>9, <1>13, <2>5 DEF LastOf
    <3> QED BY <1>6, <1>14, <2>2, <2>5, <3>1, <3>2
  <2> QED BY <2>4, <2>5
<1>20. ResultSoFar'
  BY <1>9, <1>14, <1>17 DEF IInv, ResultSoFar, RowsJoined, S
<1>21. RowSoFar'
  <2>1. success' = TRUE /\ col' <= Columns + 1 /\ Len(row') = col' - 1
    BY <1>3, <1>8, <1>9, <1>12, RowNumbers
  <2>2. \A j \in 1 .. Len(row') : row'[j] = row'[1]
    BY <1>12, <1>13
  <2>3. row'[1] \in SelectedRows' /\ Last' < row'[1] /\ \A p \in SelectedRows' : Last' < p => row'[1] <= p
    BY <1>6, <1>13, <1>14, <1>17
  <2> QED BY <2>1, <2>2, <2>3 DEF RowSoFar
<1> QED BY <1>14, <1>16, <1>18, <1>19, <1>20, <1>21 DEF IInv

\* The values of the rows that were delivered first are numbers of rows.
LEMMA ResultRows ==
  ASSUME IInv, NEW k \in 1 .. Len(rows)
  PROVE  rows[k] \in Seq(Rows) /\ rows[k][1] \in Rows /\ rows[k][1] \in SelectedRows
         /\ rows[k][1] <= Last
<1>1. rows \in Seq(Seq(Rows))
  BY DEF IInv, TypeOK
<1>2. rows[k] \in Seq(Rows)
  BY <1>1, ElementOfSeq
<1>3. Len(rows[k]) = Columns
  BY DEF IInv, ResultSoFar, RowsJoined
<1>4. 1 \in 1 .. Len(rows[k])
  BY <1>3, RowNumbers
<1>5. rows[k][1] \in Rows
  BY <1>2, <1>4, ElementOfSeq
<1> QED BY <1>2, <1>5 DEF IInv, ResultSoFar

LEMMA AddKeeps ==
  ASSUME IInv, AddRow
  PROVE  IInv'
<1> DEFINE S == SelectedRows
           n == Len(rows)
<1>1. col = Columns + 1 /\ main = "answer" /\ ~ copying
  <2>1. col = Columns + 1
    BY DEF AddRow
  <2>2. col \notin Cols
    BY <2>1, RowNumbers
  <2> QED BY <2>1, <2>2, Scanned DEF IInv, CopyPlaced
<1>2. /\ row' = <<>> /\ UNCHANGED <<threads, layout, filter>>
      /\ UNCHANGED <<cursor, seqPos, blk, copying, base, num, off, buf, success>>
  BY DEF AddRow
<1>3. /\ ThreadsTypeOK' /\ layout' \in [Cols -> Layouts] /\ filter' \in Filter
      /\ FilterGood(filter)' /\ FreshUntilScanned' /\ SelectedRows' = S
  BY <1>1, <1>2, StillScanned
<1>4. /\ rows \in Seq(Seq(Rows)) /\ row \in Seq(Rows) /\ n \in Nat /\ success \in BOOLEAN
      /\ Last \in Nat /\ S \in SUBSET Rows /\ \A p \in S : p \in Nat
  BY Facts, RowNumbers DEF IInv, TypeOK
<1>5. CursorsPlaced' /\ CopyPlaced'
  BY <1>1, <1>2 DEF IInv, CursorsPlaced, CopyPlaced, ReadingCursor
<1>6. \A c \in Cols : c \in Nat /\ 0 < c /\ c < col
  BY <1>1, RowNumbers
<1>7. ASSUME \A c \in Cols : LastOf(c)' = LastOf(c)
      PROVE  ColumnsInStep'
  <2> SUFFICES ASSUME NEW c \in Cols
               PROVE  (Covers(SelectedRows, Pending(c), LastOf(c), GoesOn(c)) /\ LastOf(c) < GoesOn(c))'
    BY DEF ColumnsInStep
  <2>1. Covers(S, Pending(c), LastOf(c), GoesOn(c)) /\ LastOf(c) < GoesOn(c)
    BY DEF IInv, ColumnsInStep
  <2>2. GoesOn(c)' = GoesOn(c)
    BY <1>2 DEF GoesOn
  <2>3. Pending(c)' = Pending(c)
    BY <1>1, <1>2 DEF Pending
  <2>4. LastOf(c)' = LastOf(c)
    BY <1>7
  <2> QED BY <1>3, <2>1, <2>2, <2>3, <2>4
<1>8. CASE ~ success
  <2>1. row = <<>> /\ \A p \in S : p <= Last
    BY <1>8 DEF IInv, RowSoFar
  <2>2. rows' = rows /\ col' = Columns + 2
    BY <1>8, <2>1 DEF AddRow
  <2>3. Last' = Last
    BY <2>2 DEF Last
  <2>4. ColumnsInStep'
    BY <1>2, <1>7, <1>8, <2>3 DEF LastOf
  <2>5. TypeOK'
    <3>1. col' \in 1 .. Columns + 2 /\ row' \in Seq(Rows)
      BY <1>2, <2>1, <2>2, <1>4, RowNumbers
    <3> QED BY <1>2, <1>3, <2>2, <3>1 DEF IInv, TypeOK
  <2>6. ResultSoFar'
    BY <1>3, <2>2, <2>3 DEF IInv, ResultSoFar, RowsJoined
  <2>7. RowSoFar'
    BY <1>2, <1>3, <1>8, <2>1, <2>3 DEF RowSoFar
  <2> QED BY <1>3, <1>5, <2>4, <2>5, <2>6, <2>7 DEF IInv
<1>9. CASE success
  <2> DEFINE p == row[1]
  <2>1. /\ Len(row) = Columns /\ \A j \in 1 .. Len(row) : row[j] = p
        /\ p \in S /\ Last < p /\ \A q \in S : Last < q => p <= q
    BY <1>1, <1>9, RowNumbers DEF IInv, RowSoFar
  <2>2. row # <<>>
    <3>1. Len(<<>>) = 0
      OBVIOUS
    <3> QED BY <2>1, <3>1, RowNumbers
  <2>3. rows' = Append(rows, row) /\ col' = 1
    BY <1>9, <2>2 DEF AddRow
  <2>4. /\ rows' \in Seq(Seq(Rows)) /\ Len(rows') = n + 1 /\ rows'[n + 1] = row
        /\ \A i \in 1 .. n : rows'[i] = rows[i]
    BY <1>4, <2>3, AppendProperties
  <2> HIDE DEF p, S, n
  <2>5. Last' = p
    <3>1. rows' # <<>>
      <4>1. Len(<<>>) = 0
        OBVIOUS
      <4> QED BY <1>4, <2>4, <4>1
    <3> QED BY <2>4, <3>1 DEF Last, p
  <2>6. ColumnsInStep'
    <3>1. \A c \in Cols : LastOf(c) = p
      BY <1>6, <1>9 DEF LastOf, p
    <3>2. \A c \in Cols : ~ (c < col')
      BY <1>6, <2>3
    <3>3. \A c \in Cols : LastOf(c)' = p
      BY <2>5, <3>2 DEF LastOf
    <3> QED BY <1>7, <3>1, <3>3
  <2>7. TypeOK'
    <3>1. col' \in 1 .. Columns + 2 /\ row' \in Seq(Rows)
      BY <1>2, <2>3, RowNumbers
    <3> QED BY <1>2, <1>3, <2>4, <3>1 DEF IInv, TypeOK
  <2>8. \A i \in 1 .. n : rows[i][1] \in S /\ rows[i][1] <= Last /\ rows[i][1] \in Nat
    BY <1>4, ResultRows DEF S, n
  <2>9. RowsJoined'
    <3> SUFFICES ASSUME NEW i \in 1 .. Len(rows')
                 PROVE  Len(rows'[i]) = Columns /\ \A c \in Cols : rows'[i][c] = rows'[i][1]
      BY DEF RowsJoined
    <3>1. CASE i = n + 1
      <4>1. Cols = 1 .. Len(row)
        BY <2>1 DEF Cols
      <4> QED BY <2>1, <2>4, <3>1, <4>1 DEF p
    <3>2. CASE i # n + 1
      <4>1. i \in 1 .. n
        BY <1>4, <2>4, <3>2
      <4> QED BY <2>4, <4>1 DEF IInv, ResultSoFar, RowsJoined, n
    <3> QED BY <3>1, <3>2
  <2>10. ASSUME NEW i \in 1 .. Len(rows'), NEW j \in 1 .. Len(rows'), i < j
         PROVE  rows'[i][1] < rows'[j][1]
    <3>1. i \in 1 .. n /\ (j \in 1 .. n \/ j = n + 1)
      BY <1>4, <2>4, <2>10
    <3>2. CASE j \in 1 .. n
      BY <2>4, <2>10, <3>1, <3>2 DEF IInv, ResultSoFar, n
    <3>3. CASE j = n + 1
      <4>1. rows'[j][1] = p /\ rows'[i][1] = rows[i][1]
        BY <2>4, <3>1, <3>3 DEF p
      <4>2. p \in Nat
        BY <1>4, <2>1
      <4> QED BY <1>4, <2>1, <2>8, <3>1, <4>1, <4>2
    <3> QED BY <3>1, <3>2, <3>3
  <2>11. ASSUME NEW q \in Rows
         PROVE  (\E i \in 1 .. Len(rows') : rows'[i][1] = q) <=> q \in S /\ q <= p
    <3>1. q \in Nat /\ p \in Nat
      BY <1>4, <2>1, RowNumbers
    <3>2. ASSUME NEW i \in 1 .. Len(rows'), rows'[i][1] = q PROVE q \in S /\ q <= p
      <4>1. CASE i = n + 1
        BY <2>1, <2>4, <3>1, <3>2, <4>1 DEF p
      <4>2. CASE i # n + 1
        <5>1. i \in 1 .. n
          BY <1>4, <2>4, <4>2
        <5>2. q = rows[i][1]
          BY <2>4, <3>2, <5>1
        <5> QED BY <1>4, <2>1, <2>8, <3>1, <5>1, <5>2
      <4> QED BY <4>1, <4>2
    <3>3. ASSUME q \in S, q <= p PROVE \E i \in 1 .. Len(rows') : rows'[i][1] = q
      <4>1. CASE q <= Last
        <5>1. PICK i \in 1 .. n : rows[i][1] = q
          BY <3>3, <4>1 DEF IInv, ResultSoFar, n, S
        <5>2. i \in 1 .. Len(rows')
          BY <1>4, <2>4
        <5> QED BY <2>4, <5>1, <5>2
      <4>2. CASE Last < q
        <5>1. q = p
          BY <2>1, <3>1, <3>3, <4>2
        <5>2. n + 1 \in 1 .. Len(rows')
          BY <1>4, <2>4
        <5> QED BY <2>4, <5>1, <5>2 DEF p
      <4> QED BY <1>4, <3>1, <4>1, <4>2
    <3> QED BY <3>2, <3>3
  <2>12. ResultSoFar'
    BY <1>3, <2>5, <2>9, <2>10, <2>11 DEF ResultSoFar
  <2>13. RowSoFar'
    <3>1. success' = TRUE /\ col' <= Columns + 1 /\ ~ (col' > 1)
      BY <1>2, <1>9, <1>4, <2>3, RowNumbers
    <3>2. Len(row') = 0
      BY <1>2
    <3> QED BY <2>3, <3>1, <3>2 DEF RowSoFar
  <2> QED BY <1>3, <1>5, <2>6, <2>7, <2>12, <2>13 DEF IInv
<1> QED BY <1>4, <1>8, <1>9
\* A query that has read nothing yet, with any filter.
LEMMA FreshSound ==
  Fresh /\ ThreadsTypeOK /\ layout \in [Cols -> Layouts] /\ FilterGood(filter) => IInv
<1> SUFFICES ASSUME Fresh, ThreadsTypeOK, layout \in [Cols -> Layouts], FilterGood(filter)
             PROVE  IInv
  OBVIOUS
<1> USE DEF Fresh
<1>1. /\ \A c \in Cols : cursor[c] = NewCursor /\ seqPos[c] = 0 /\ blk[c] = <<>> /\ ~ (c < col)
      /\ SelectedRows \in SUBSET Rows /\ filter \in Filter /\ Len(filter.blocks) \in Nat
  BY BlocksOf, RowNumbers DEF SelectedRows
<1>2. Last = 0 /\ \A c \in Cols : LastOf(c) = 0 /\ GoesOn(c) = 1 /\ Pending(c) = <<>>
  BY <1>1 DEF Last, LastOf, GoesOn, Pending
<1>3. TypeOK
  <2>1. NewCursor \in [block : 0 .. Len(filter.blocks), pos : 0 .. N,
                       start : 0 .. N, finished : BOOLEAN]
    BY <1>1, RowNumbers DEF NewCursor
  <2>2. /\ 0 \in 0 .. N /\ 1 \in 1 .. Columns + 2
        /\ <<>> \in Seq(Rows) /\ <<>> \in Seq(Seq(Rows))
    BY RowNumbers
  <2>3. cursor \in [Cols -> [block : 0 .. Len(filter.blocks), pos : 0 .. N,
                             start : 0 .. N, finished : BOOLEAN]]
    BY <2>1
  <2>4. seqPos \in [Cols -> 0 .. N] /\ blk \in [Cols -> Seq(Rows)]
    BY <2>2
  <2> QED BY <1>1, <2>2, <2>3, <2>4 DEF TypeOK
<1>4. CursorsPlaced /\ CopyPlaced
  BY <1>1 DEF CursorsPlaced, CopyPlaced
<1>5. ColumnsInStep
  <2>1. \A p \in SelectedRows : ~ (0 < p /\ p < 1)
    BY <1>1, RowNumbers
  <2>2. Covers(SelectedRows, <<>>, 0, 1)
    BY <1>1, <2>1, CoversNone
  <2> QED BY <1>2, <2>2 DEF ColumnsInStep
<1>6. Len(rows) = 0 /\ Len(row) = 0 /\ \A k \in 1 .. Len(rows) : FALSE
  OBVIOUS
<1>7. ResultSoFar
  <2>1. \A p \in Rows : ~ (p <= Last)
    BY <1>2, RowNumbers
  <2> QED BY <1>6, <2>1 DEF ResultSoFar, RowsJoined
<1>8. RowSoFar
  BY <1>6, RowNumbers DEF RowSoFar
<1> QED BY <1>3, <1>4, <1>5, <1>7, <1>8 DEF IInv, FreshUntilScanned

LEMMA InitSound == Init => IInv /\ ScansInv
<1> SUFFICES ASSUME Init PROVE IInv /\ ScansInv
  OBVIOUS
<1>1. ScansInv /\ ThreadsTypeOK
  BY ScansInvInit DEF Init, ScansInv
<1>2. FilterGood(filter)
  BY EmptyFilterGood DEF Init
<1> QED BY <1>1, <1>2, FreshSound DEF Init, Fresh

\* The scans leave what is read alone, and end before anything is.
LEMMA ScansKeep ==
  ASSUME IInv, ScansInv', UNCHANGED <<layout, filter, reading>>,
         main = "answer" => main' = "answer"
  PROVE  IInv'
<1>1. /\ UNCHANGED <<cursor, seqPos, blk, col, copying, base, num, off, buf, row, success, rows>>
      /\ UNCHANGED <<layout, filter>>
  BY DEF reading
<1>2. TypeOK'
  BY <1>1 DEF IInv, TypeOK, ScansInv
<1>3. FilterGood(filter)' /\ FreshUntilScanned' /\ CursorsPlaced' /\ CopyPlaced'
  BY <1>1 DEF IInv, FreshUntilScanned, Fresh, CursorsPlaced, CopyPlaced, ReadingCursor
<1>4. SelectedRows' = SelectedRows
  BY <1>1 DEF SelectedRows
<1>5. Last' = Last /\ \A c \in Cols : LastOf(c)' = LastOf(c)
  BY <1>1, ReadKeeps
<1>6. ResultSoFar' /\ RowSoFar'
  BY <1>1, <1>4, ReadKeeps
<1>7. \A c \in Cols : Pending(c)' = Pending(c) /\ GoesOn(c)' = GoesOn(c)
  BY <1>1 DEF Pending, GoesOn
<1>8. ColumnsInStep'
  <2> SUFFICES ASSUME NEW c \in Cols
               PROVE  (Covers(SelectedRows, Pending(c), LastOf(c), GoesOn(c)) /\ LastOf(c) < GoesOn(c))'
    BY DEF ColumnsInStep
  <2>1. Covers(SelectedRows, Pending(c), LastOf(c), GoesOn(c)) /\ LastOf(c) < GoesOn(c)
    BY DEF IInv, ColumnsInStep
  <2> QED BY <1>4, <1>5, <1>7, <2>1
<1> QED BY <1>2, <1>3, <1>6, <1>8 DEF IInv

LEMMA FilterKeeps ==
  ASSUME IInv, ScansInv', SetPositionFilter
  PROVE  IInv'
<1>1. main = "combine" /\ UNCHANGED <<layout, reading>>
      /\ (filter' \in Filters \/ filter' = filter)
  BY DEF SetPositionFilter, GetPosFilter
<1>2. Fresh
  BY <1>1 DEF IInv, FreshUntilScanned
<1>3. Fresh'
  BY <1>1, <1>2 DEF Fresh, reading
<1>4. FilterGood(filter')
  <2>1. FilterGood(filter)
    BY DEF IInv
  <2>2. \A f \in Filters : FilterGood(f)
    BY FilterOfIs, CompleteFilterGood DEF Filters
  <2> QED BY <1>1, <2>1, <2>2
<1>5. FilterGood(filter)'
  BY <1>4
<1>6. ThreadsTypeOK' /\ layout' \in [Cols -> Layouts]
  BY <1>1 DEF IInv, TypeOK, ScansInv
<1>7. (Fresh /\ ThreadsTypeOK /\ layout \in [Cols -> Layouts] /\ FilterGood(filter) => IInv)'
  BY FreshSound, PTL
<1> QED BY <1>3, <1>5, <1>6, <1>7

\* Every step keeps what is known of the columns.
LEMMA StepKeeps ==
  ASSUME PagesFitBlocks, IInv, ScansInv, ScansInv', [Next]_vars
  PROVE  IInv'
<1>1. CASE RunScans
  <2>1. UNCHANGED <<layout, filter, reading>>
    BY <1>1 DEF RunScans
  <2>2. main = "answer" => main' = "answer"
    BY <1>1 DEF RunScans, RunScan, ThreadEnds, TakeResult, BeginThreads,
                WaitForMultipleObjects, DeleteParams
  <2> QED BY <2>1, <2>2, ScansKeep
<1>2. CASE SetPositionFilter
  BY <1>2, FilterKeeps
<1>3. CASE Read
  BY <1>3, SequentialKeeps, OnPosKeeps, CopyKeeps, FillKeeps, AddKeeps DEF Read
<1>4. CASE UNCHANGED vars
  <2>1. UNCHANGED <<layout, filter, reading>> /\ main' = main
    BY <1>4 DEF vars, threads
  <2> QED BY <2>1, ScansKeep
<1> QED BY <1>1, <1>2, <1>3, <1>4 DEF Next

LEMMA IInvHolds == PagesFitBlocks => (Spec => []IInv)
<1> SUFFICES ASSUME PagesFitBlocks PROVE Spec => []IInv
  OBVIOUS
<1>1. IInv /\ ScansInv /\ ScansInv' /\ [Next]_vars => IInv'
  BY StepKeeps
<1>2. Init => IInv
  BY InitSound
<1> QED BY <1>1, <1>2, ScansInvHolds, PTL DEF Spec

----------------------------------------------------------------------------
(* Theorems *)

LEMMA IInvWellFormed == IInv => WellFormed
<1> SUFFICES ASSUME IInv PROVE WellFormed
  OBVIOUS
<1>1. NextInStep
  <2> SUFFICES ASSUME NEW c \in Cols, blk[c] # <<>>, success
               PROVE  /\ Head(blk[c]) \in SelectedRows
                      /\ {p \in SelectedRows : p < Head(blk[c])} = Delivered(c)
    BY DEF NextInStep
  <2> DEFINE S == SelectedRows
             h == Head(blk[c])
  <2>1. Pending(c) = blk[c]
    BY DEF IInv, CopyPlaced, Pending
  <2>2. Covers(S, blk[c], LastOf(c), GoesOn(c))
    BY <2>1 DEF IInv, ColumnsInStep
  <2>3. S \in SUBSET Rows /\ LastOf(c) \in Nat /\ GoesOn(c) \in Nat /\ Last \in Nat
    BY Facts
  <2>4. h \in S /\ LastOf(c) < h /\ \A p \in S : LastOf(c) < p => h <= p
    BY <2>2, <2>3, CoversTail
  <2>5. \A p \in S : p \in Rows /\ p \in Nat
    BY <2>3, RowNumbers
  <2>6. \A p \in S : p < h <=> p <= LastOf(c)
    BY <2>3, <2>4, <2>5
  <2>7. \A p \in Rows : p \in S /\ p <= Last <=> p \in {rows[k][1] : k \in 1 .. Len(rows)}
    BY DEF IInv, ResultSoFar
  <2>8. {rows[k][1] : k \in 1 .. Len(rows)} \subseteq Rows
    BY ResultRows
  <2> HIDE DEF S, h
  <2>9. col <= Columns + 1
    BY DEF IInv, RowSoFar
  <2>10. CASE c < col
    <3>1. LastOf(c) = row[1] /\ col > 1
      BY <2>10, Facts, RowNumbers DEF LastOf
    <3>2. row[1] \in S /\ Last < row[1] /\ \A p \in S : Last < p => row[1] <= p
      BY <3>1 DEF IInv, RowSoFar, S
    <3>3. Delivered(c) = {rows[k][1] : k \in 1 .. Len(rows)} \cup {row[1]}
      BY <2>9, <2>10 DEF Delivered
    <3>4. \A p \in S : p <= row[1] <=> p <= Last \/ p = row[1]
      BY <2>3, <2>5, <3>2
    <3>5. \A p : p \in {q \in S : q < h} <=> p \in S /\ (p <= Last \/ p = row[1])
      BY <2>6, <3>1, <3>4
    <3>6. \A p : p \in Delivered(c) <=> p \in S /\ (p <= Last \/ p = row[1])
      BY <2>5, <2>7, <2>8, <3>2, <3>3
    <3>7. {q \in S : q < h} = Delivered(c)
      BY <3>5, <3>6
    <3> QED BY <2>4, <3>7 DEF S, h
  <2>11. CASE ~ (c < col)
    <3>1. LastOf(c) = Last
      BY <2>11 DEF LastOf
    <3>2. Delivered(c) = {rows[k][1] : k \in 1 .. Len(rows)}
      BY <2>11 DEF Delivered
    <3>3. \A p : p \in {q \in S : q < h} <=> p \in S /\ p <= Last
      BY <2>6, <3>1
    <3>4. \A p : p \in Delivered(c) <=> p \in S /\ p <= Last
      BY <2>5, <2>7, <2>8, <3>2
    <3>5. {q \in S : q < h} = Delivered(c)
      BY <3>3, <3>4
    <3> QED BY <2>4, <3>5 DEF S, h
  <2> QED BY <2>10, <2>11
<1>2. PageHoldsPos
  <2> SUFFICES ASSUME copying PROVE base + off \in SelectedRows /\ off < num
    BY DEF PageHoldsPos
  <2>1. PICK k \in Cols : k = col
    BY DEF IInv, CopyPlaced
  <2>2. /\ ~ filter.completeSet /\ ReadingCursor(cursor[k])
        /\ base + off = cursor[k].pos /\ off < num
    BY <2>1 DEF IInv, CopyPlaced
  <2>3. cursor[k].pos \in SelectedRows
    BY <2>2, Facts, BlocksOf DEF ReadingCursor
  <2> QED BY <2>2, <2>3
<1> QED BY <1>1, <1>2 DEF WellFormed, IInv

LEMMA IInvExact == IInv => RowsExact
<1> SUFFICES ASSUME IInv PROVE RowsExact
  OBVIOUS
<1>1. RowsJoined
  BY DEF IInv, ResultSoFar
<1>2. ASSUME NEW k \in 1 .. Len(rows) - 1 PROVE rows[k][1] < rows[k + 1][1]
  <2>1. Len(rows) \in Nat
    BY DEF IInv, TypeOK
  <2>2. k \in 1 .. Len(rows) /\ k + 1 \in 1 .. Len(rows) /\ k < k + 1
    BY <2>1
  <2> QED BY <2>2 DEF IInv, ResultSoFar
<1>3. ASSUME Finished PROVE {rows[k][1] : k \in 1 .. Len(rows)} = SelectedRows
  <2>1. ~ success
    BY <1>3, RowNumbers DEF Finished, IInv, RowSoFar
  <2>2. \A p \in SelectedRows : p \in Rows /\ p <= Last
    BY <2>1, Facts DEF IInv, RowSoFar
  <2>3. \A p \in SelectedRows : \E k \in 1 .. Len(rows) : rows[k][1] = p
    BY <2>2 DEF IInv, ResultSoFar
  <2>4. \A k \in 1 .. Len(rows) : rows[k][1] \in SelectedRows
    BY ResultRows
  <2> QED BY <2>3, <2>4
<1> QED BY <1>1, <1>2, <1>3 DEF RowsExact

\* The next value of a column is that of the first selected row it has not delivered
\* yet, and a page fetched for a position holds it: the cursor of the column, the
\* start it remembers of the page and the offset in the page agree whichever block of
\* the filter and whichever page comes to its end first (DataSource.cpp:170-190,
\* MultiBlock.cpp:254-283).
THEOREM ColumnsStayInStep == PagesFitBlocks => (Spec => []WellFormed)
BY IInvHolds, IInvWellFormed, PTL

\* A result holds the values of one row of the table in each of its rows, these are
\* rows the filter has, in ascending order, and in the end all of them
\* (LRCSQueryImpl.cpp:118-136).
THEOREM RowsAreExact == PagesFitBlocks => (Spec => []RowsExact)
BY IInvHolds, IInvExact, PTL

=============================================================================
