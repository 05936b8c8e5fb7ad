------------------------- MODULE UnsortedScanProofs -------------------------
(***************************************************************************)
(* Proofs about UnsortedScan, for any number of rows, values, words and    *)
(* bits, any size of the bulk buffer and any number of scans.              *)
(*                                                                         *)
(* IInv is the inductive invariant.  Its parts say where the cursor is in  *)
(* relation to the positions of the scan (CursorBehind), what the two      *)
(* flags stand for (FirstCallFresh, EqualityFresh), and what is known of   *)
(* the rows in front of the cursor (CursorMatches, NothingSkipped).  What  *)
(* leaves the filter again follows from AnchorInv.                         *)
(***************************************************************************)
EXTENDS UnsortedScan, FilterProofs, FiniteSetTheorems

----------------------------------------------------------------------------
(* The order of the index and the bulk buffer *)

\* The entries of the index are totally ordered.
LEMMA BeforeOrder ==
  ASSUME column \in [Rows -> 1 .. K], NEW p \in Rows, NEW q \in Rows, NEW r \in Rows
  PROVE  /\ ~ Before(p, p)
         /\ Before(p, q) \/ p = q \/ Before(q, p)
         /\ Before(p, q) => ~ Before(q, p)
         /\ Before(p, q) /\ Before(q, r) => Before(p, r)
<1>1. /\ p \in Int /\ q \in Int /\ r \in Int
      /\ column[p] \in Int /\ column[q] \in Int /\ column[r] \in Int
  BY ScanAssumption DEF Rows
<1> QED BY <1>1 DEF Before

\* A set of entries has a first and a last one.
LEMMA FirstExists ==
  ASSUME column \in [Rows -> 1 .. K], NEW S \in SUBSET Rows, S # {}
  PROVE  \E p \in S : \A q \in S : ~ Before(q, p)
<1> DEFINE V == {column[x] : x \in S}
<1>1. V \in SUBSET Nat /\ V # {}
  BY ScanAssumption
<1>2. PICK v \in V : \A w \in V : v <= w
  BY <1>1, LeastExists
<1> DEFINE T == {x \in S : column[x] = v}
<1>3. T \in SUBSET Nat /\ T # {}
  <2>1. PICK x \in S : column[x] = v
    BY <1>2
  <2>2. x \in T /\ Rows \subseteq Nat
    BY <2>1, ScanAssumption DEF Rows
  <2> QED BY <2>2
<1>4. PICK p \in T : \A y \in T : p <= y
  BY <1>3, LeastExists
<1>5. ASSUME NEW q \in S PROVE ~ Before(q, p)
  <2>1. column[p] = v /\ v <= column[q] /\ v \in Nat /\ column[q] \in Nat
    BY <1>1, <1>2, <1>4
  <2>2. column[q] = v => p <= q
    BY <1>4
  <2>3. p \in Nat /\ q \in Nat
    BY ScanAssumption DEF Rows
  <2> QED BY <2>1, <2>2, <2>3 DEF Before
<1> QED BY <1>5

LEMMA LastProperties ==
  ASSUME column \in [Rows -> 1 .. K], NEW S \in SUBSET Rows, S # {}
  PROVE  /\ Last(S) \in S
         /\ \A q \in S : ~ Before(Last(S), q)
<1> DEFINE V == {column[x] : x \in S}
<1>1. V \in SUBSET (0 .. K) /\ V # {} /\ K \in Nat
  BY ScanAssumption
<1>2. PICK v \in V : \A w \in V : w <= v
  BY <1>1, GreatestExists
<1> DEFINE T == {x \in S : column[x] = v}
<1>3. T \in SUBSET (0 .. N) /\ T # {} /\ N \in Nat
  <2>1. PICK x \in S : column[x] = v
    BY <1>2
  <2>2. x \in T /\ Rows \subseteq 0 .. N
    BY <2>1, ScanAssumption DEF Rows
  <2> QED BY <2>2, ScanAssumption
<1>4. PICK p \in T : \A y \in T : y <= p
  BY <1>3, GreatestExists
<1>5. ASSUME NEW q \in S PROVE ~ Before(p, q)
  <2>1. column[p] = v /\ column[q] <= v /\ v \in Nat /\ column[q] \in Nat
    BY <1>1, <1>2, <1>4
  <2>2. column[q] = v => q <= p
    BY <1>4
  <2>3. p \in Nat /\ q \in Nat
    BY ScanAssumption DEF Rows
  <2> QED BY <2>1, <2>2, <2>3 DEF Before
<1> QED BY <1>5 DEF Last

LEMMA RowsFinite ==
  ASSUME NEW S \in SUBSET Rows
  PROVE  IsFiniteSet(S) /\ Cardinality(S) \in Nat
<1>1. IsFiniteSet(Rows)
  <2>1. 1 \in Int /\ N \in Int
    BY ScanAssumption
  <2> QED BY <2>1, FS_Interval DEF Rows
<1> QED BY <1>1, FS_Subset, FS_CardinalityType

\* One bulk get returns entries of the set it is given, at least one, and skips
\* none: what is not behind the last entry it returns is returned.
LEMMA BulkProperties ==
  ASSUME column \in [Rows -> 1 .. K], NEW S \in SUBSET Rows
  PROVE  /\ Bulk(S) \subseteq S
         /\ S # {} => Bulk(S) # {}
         /\ \A p \in Bulk(S) : \A q \in S : column[p] <= column[q]
         /\ \A p \in Bulk(S) : \A q \in S : ~ Before(p, q) => q \in Bulk(S)
<1>1. Bulk(S) \subseteq S /\ \A p \in Bulk(S) : \A q \in S : column[p] <= column[q]
  BY DEF Bulk
<1>3. ASSUME NEW X \in SUBSET S
      PROVE  IsFiniteSet(X) /\ Cardinality(X) \in Nat
  BY RowsFinite
<1>4. S # {} => Bulk(S) # {}
  <2> SUFFICES ASSUME S # {} PROVE Bulk(S) # {}
    OBVIOUS
  <2>1. PICK p \in S : \A q \in S : ~ Before(q, p)
    BY FirstExists
  <2>2. {q \in S : Before(q, p)} = {}
    BY <2>1
  <2>3. Cardinality({q \in S : Before(q, p)}) < BulkMax
    BY <2>2, FS_EmptySet, ScanAssumption
  <2>4. \A q \in S : column[p] <= column[q]
    <3> SUFFICES ASSUME NEW q \in S PROVE column[p] <= column[q]
      OBVIOUS
    <3>1. column[p] \in Int /\ column[q] \in Int
      BY ScanAssumption
    <3> QED BY <2>1, <3>1 DEF Before
  <2> QED BY <2>3, <2>4 DEF Bulk
<1>5. ASSUME NEW p \in Bulk(S), NEW q \in S, ~ Before(p, q)
      PROVE  q \in Bulk(S)
  <2>1. p \in S /\ Cardinality({r \in S : Before(r, p)}) < BulkMax
    BY DEF Bulk
  <2>2. column[q] = column[p]
    <3>1. column[p] \in Int /\ column[q] \in Int /\ column[p] <= column[q]
      BY <1>1, <2>1, ScanAssumption
    <3> QED BY <3>1, <1>5 DEF Before
  <2>3. {r \in S : Before(r, q)} \subseteq {r \in S : Before(r, p)}
    <3> SUFFICES ASSUME NEW r \in S, Before(r, q) PROVE Before(r, p)
      OBVIOUS
    <3> QED BY <1>5, <2>1, BeforeOrder
  <2>4. Cardinality({r \in S : Before(r, q)}) <= Cardinality({r \in S : Before(r, p)})
    BY <2>3, <1>3, FS_Subset
  <2>5. Cardinality({r \in S : Before(r, q)}) < BulkMax
    BY <2>1, <2>4, <1>3, ScanAssumption
  <2> QED BY <2>2, <2>5, <1>1 DEF Bulk
<1> QED BY <1>1, <1>4, <1>5

\* A set of entries with one key that fits the buffer is returned at once.
LEMMA BulkOfFew ==
  ASSUME column \in [Rows -> 1 .. K], NEW S \in SUBSET Rows,
         \A p, q \in S : column[p] = column[q], Cardinality(S) <= BulkMax
  PROVE  Bulk(S) = S
<1>1. IsFiniteSet(S)
  BY RowsFinite
<1>2. ASSUME NEW p \in S PROVE p \in Bulk(S)
  <2> DEFINE T == {q \in S : Before(q, p)}
  <2>1. T \subseteq S /\ T # S
    BY BeforeOrder
  <2>2. Cardinality(T) \in Nat /\ Cardinality(S) \in Nat
    BY <2>1, RowsFinite
  <2>3. Cardinality(T) <= Cardinality(S) /\ Cardinality(T) # Cardinality(S)
    BY <2>1, <1>1, FS_Subset
  <2>4. Cardinality(T) < BulkMax
    BY <2>2, <2>3, ScanAssumption
  <2>5. \A q \in S : column[p] <= column[q]
    BY ScanAssumption
  <2> QED BY <2>4, <2>5 DEF Bulk
<1> QED BY <1>2 DEF Bulk

----------------------------------------------------------------------------
(* The inductive invariant *)

\* The cursor has passed every position of the scan and stands on one of them
\* or behind them.
CursorBehind ==
  \A p \in added \cup page : cursor \in Rows /\ ~ Before(cursor, p)

\* The flag is only still set between two pages when nothing was added.
FirstCallFresh == firstCall /\ page = {} => added = {}

\* An equality scan that has not made its call has done nothing.
EqualityFresh == pred = "EQ" /\ ~ done => page = {} /\ filter = EmptyFilter /\ added = {}

\* An open range is read in index order from an entry that satisfies it.
CursorMatches ==
  scans = 1 /\ pred \in {"GT", "GE"} /\ (~ firstCall \/ page # {}) =>
    cursor \in Rows /\ Satisfies(column[cursor])

\* The rows the predicate selects, up to the cursor, have been read; all of them
\* when the loop has ended.
NothingSkipped ==
  /\ scans = 1 /\ pred # "EQ" /\ (~ firstCall \/ page # {}) =>
       cursor \in Rows /\ \A p \in Matching : ~ Before(cursor, p) => p \in added \cup page
  /\ scans = 1 /\ pred # "EQ" /\ done => Matching \subseteq added \cup page
  /\ pred = "EQ" /\ done => added \cup page = DbSet(rhs)

\* The part of the invariant that stands alone.
TypeInv == TypeOK /\ FilterOK(filter) /\ FilterSound

IInv ==
  /\ CursorBehind /\ FirstCallFresh /\ EqualityFresh
  /\ CursorMatches /\ NothingSkipped /\ ScanSound

----------------------------------------------------------------------------
(* Type correctness, and soundness of the filter *)

LEMMA ReadsInRows == Reads \subseteq Rows /\ Returns \subseteq Reads
<1>1. \A from : Bulk(from) \subseteq from
  BY DEF Bulk
<1>2. Reads \subseteq Rows
  BY <1>1 DEF Reads, DbSetRange, DbSet, DbFirst, DbNext
<1>3. Returns \subseteq Reads
  BY DEF Returns, InRange
<1> QED BY <1>2, <1>3

\* The position the inner loop takes is the least of the page.
LEMMA NextOfPage ==
  ASSUME page \subseteq Rows, page # {}
  PROVE  LET p == CHOOSE q \in page : \A r \in page : q <= r
         IN  p \in page /\ \A r \in page : p <= r
<1>1. page \in SUBSET Nat
  BY ScanAssumption DEF Rows
<1>2. \E q \in page : \A r \in page : q <= r
  BY <1>1, LeastExists
<1> QED BY <1>2

LEMMA TypeInit == Init => TypeInv
<1> SUFFICES ASSUME Init PROVE TypeInv
  OBVIOUS
<1>1. filter \in Filter /\ FilterOK(filter) /\ PositionsOf(filter) = {}
  BY EmptyFilterOK DEF Init, FilterOK
<1>2. TypeOK
  <2>1. firstCall \in BOOLEAN /\ done \in BOOLEAN
    BY Zenon DEF Init
  <2>2. cursor \in 0 .. N /\ scans \in 1 .. MaxScans \cup {1}
    BY ScanAssumption DEF Init
  <2>3. column \in [Rows -> 1 .. K] /\ pred \in Preds /\ rhs \in 1 .. K
    BY DEF Init
  <2>4. page \subseteq Rows /\ added \subseteq Rows
    BY DEF Init
  <2> QED BY <1>1, <2>1, <2>2, <2>3, <2>4 DEF TypeOK
<1> QED BY <1>1, <1>2 DEF TypeInv, FilterSound

LEMMA TypeStep == TypeInv /\ [Next]_vars => TypeInv'
<1> SUFFICES ASSUME TypeInv, [Next]_vars PROVE TypeInv'
  OBVIOUS
<1>1. TypeOK /\ FilterOK(filter) /\ PositionsOf(filter) \subseteq added
  BY DEF TypeInv, FilterSound
<1>2. CASE Fetch
  <2>1. Reads # {} => Last(Reads) \in Rows
    BY <1>1, ReadsInRows, LastProperties DEF TypeOK
  <2>2. cursor' \in 0 .. N
    BY <1>1, <1>2, <2>1, ScanAssumption DEF Fetch, TypeOK, Rows
  <2>3. page' \subseteq Rows /\ done' \in BOOLEAN
    BY <1>2, ReadsInRows DEF Fetch
  <2>4. TypeOK'
    BY <1>1, <1>2, <2>2, <2>3 DEF Fetch, TypeOK
  <2> QED BY <1>1, <1>2, <2>4 DEF Fetch, TypeInv, FilterSound, FilterOK, PositionsOf
<1>3. CASE AddNext
  <2> DEFINE p == CHOOSE q \in page : \A r \in page : q <= r
  <2>0. page \subseteq Rows /\ page # {}
    BY <1>1, <1>3 DEF AddNext, TypeOK
  <2>1. p \in page /\ p \in Rows /\ p \in Nat
    <3>1. p \in page
      BY <2>0, NextOfPage
    <3> HIDE DEF p
    <3> QED BY <3>1, <2>0, ScanAssumption DEF Rows
  <2>2. /\ filter' = AddPosition(filter, p) /\ added' = added \cup {p}
        /\ page' = page \ {p} /\ firstCall' = (firstCall /\ page # {p})
        /\ UNCHANGED <<column, pred, rhs, cursor, done, scans>>
    BY <1>3 DEF AddNext
  <2> HIDE DEF p
  <2>3. /\ FilterOK(AddPosition(filter, p))
        /\ PositionsOf(AddPosition(filter, p)) \subseteq PositionsOf(filter) \cup {p}
    BY <1>1, <2>1, AddPositionSound
  <2>4. FilterOK(filter') /\ PositionsOf(filter') \subseteq added'
    BY <1>1, <2>2, <2>3
  <2>5. TypeOK'
    BY <1>1, <2>1, <2>2, <2>4 DEF TypeOK, FilterOK
  <2> QED BY <2>4, <2>5 DEF TypeInv, FilterSound, FilterOK, PositionsOf
<1>4. CASE \E read \in BOOLEAN : NewScan(read)
  <2>1. PICK read \in BOOLEAN : NewScan(read)
    BY <1>4
  <2>2. FilterOK(filter') /\ PositionsOf(filter') = {}
    BY <2>1, EmptyFilterOK DEF NewScan
  <2>3. scans' \in 1 .. MaxScans \cup {1} /\ cursor' \in 0 .. N
    BY <1>1, <2>1, ScanAssumption DEF NewScan, TypeOK
  <2>4. TypeOK'
    BY <1>1, <2>1, <2>2, <2>3 DEF NewScan, TypeOK, FilterOK
  <2> QED BY <2>2, <2>4 DEF TypeInv, FilterSound, FilterOK, PositionsOf
<1>5. CASE UNCHANGED vars
  BY <1>1, <1>5 DEF vars, TypeInv, TypeOK, FilterOK, FilterSound, PositionsOf
<1> QED BY <1>2, <1>3, <1>4, <1>5 DEF Next

\* Every variable keeps its type, the filter in particular: no branch of
\* addPosition reads a block that is not there (MultiPosFilterBlock.cpp:36-129).
THEOREM TypeCorrect == Spec => []TypeOK
<1>1. TypeInv => TypeOK
  BY DEF TypeInv
<1> QED BY TypeInit, TypeStep, <1>1, PTL DEF Spec

\* The filter never holds a position that was not added to it, whatever the
\* order of the positions and the size of the blocks.
THEOREM FilterSoundness == Spec => []FilterSound
<1>1. TypeInv => FilterSound
  BY DEF TypeInv
<1> QED BY TypeInit, TypeStep, <1>1, PTL DEF Spec

----------------------------------------------------------------------------
(* What a scan reads *)

LEMMA ScanInit == Init => IInv
BY DEF Init, IInv, CursorBehind, FirstCallFresh, EqualityFresh, CursorMatches,
       NothingSkipped, ScanSound

\* A call that returns something leaves the cursor on one of the entries it
\* returns, with none of them behind.
LEMMA ReadsLast ==
  ASSUME TypeOK, Reads # {}
  PROVE  /\ Last(Reads) \in Reads /\ Last(Reads) \in Rows
         /\ \A p \in Reads : ~ Before(Last(Reads), p)
BY ReadsInRows, LastProperties DEF TypeOK

\* A get that is not the first of the scan starts behind what was added.
LEMMA ReadsNew ==
  ASSUME TypeOK, CursorBehind, FirstCallFresh, EqualityFresh, ~ done, page = {}
  PROVE  /\ Reads \cap added = {}
         /\ added # {} => cursor \in Rows /\ \A p \in Reads : Before(cursor, p)
<1>1. CASE firstCall \/ pred = "EQ"
  BY <1>1 DEF FirstCallFresh, EqualityFresh
<1>2. CASE ~ firstCall /\ pred # "EQ"
  <2>1. Reads = DbNext
    BY <1>2 DEF Reads, TypeOK, Preds
  <2>2. added # {} => cursor \in Rows /\ cursor # 0
    BY ScanAssumption DEF CursorBehind, Rows
  <2>3. \A p \in DbNext : cursor = 0 \/ Before(cursor, p)
    BY DEF DbNext, Bulk
  <2> QED BY <2>1, <2>2, <2>3 DEF CursorBehind
<1> QED BY <1>1, <1>2

LEMMA FetchBehind ==
  ASSUME TypeOK, CursorBehind, FirstCallFresh, EqualityFresh, Fetch
  PROVE  CursorBehind' /\ FirstCallFresh' /\ EqualityFresh'
<1>1. /\ ~ done /\ page = {} /\ page' = Returns /\ Returns \subseteq Reads
      /\ done' = (Returns = {} \/ pred = "EQ")
      /\ cursor' = IF Reads = {} THEN cursor ELSE Last(Reads)
      /\ UNCHANGED <<column, pred, rhs, firstCall, filter, added, scans>>
  BY ReadsInRows DEF Fetch
<1>2. CursorBehind'
  <2>1. CASE Reads = {}
    BY <1>1, <2>1 DEF CursorBehind, Before
  <2>2. CASE Reads # {}
    <3>1. /\ cursor' = Last(Reads) /\ cursor' \in Reads /\ cursor' \in Rows
          /\ \A p \in Reads : ~ Before(cursor', p)
      BY <1>1, <2>2, ReadsLast
    <3>2. ASSUME NEW p \in added PROVE ~ Before(cursor', p)
      <4>1. /\ p \in Rows /\ cursor \in Rows /\ ~ Before(cursor, p)
            /\ Before(cursor, cursor')
        BY <1>1, <3>1, ReadsNew DEF CursorBehind, TypeOK
      <4> QED BY <4>1, <3>1, BeforeOrder DEF TypeOK
    <3>3. ASSUME NEW p \in added \cup page' PROVE cursor' \in Rows /\ ~ Before(cursor', p)
      BY <1>1, <3>1, <3>2
    <3> QED BY <1>1, <3>3 DEF CursorBehind, Before
  <2> QED BY <2>1, <2>2
<1>3. FirstCallFresh'
  BY <1>1 DEF FirstCallFresh
<1>4. EqualityFresh'
  BY <1>1 DEF EqualityFresh
<1> QED BY <1>2, <1>3, <1>4

\* What the calls of an open range and of a bounded one return satisfies them.
LEMMA ReadsMatch ==
  ASSUME TypeOK, CursorMatches, ~ done, page = {}
  PROVE  /\ scans = 1 \/ pred \in {"EQ", "LT", "LE"} => Returns \subseteq Matching
         /\ scans = 1 /\ pred \in {"GT", "GE"} => Reads \subseteq Matching /\ Returns = Reads
<1>1. /\ column \in [Rows -> 1 .. K] /\ rhs \in 1 .. K /\ K \in Nat /\ pred \in Preds
      /\ firstCall \in BOOLEAN
  BY ScanAssumption DEF TypeOK
<1>2. \A p \in Rows : column[p] \in Int
  BY <1>1
<1>3. Returns \subseteq Rows /\ Reads \subseteq Rows
  BY ReadsInRows
<1>4. CASE pred = "EQ"
  <2>1. \A p \in Returns : column[p] = rhs
    BY <1>4 DEF Returns, Reads, DbSet, Bulk
  <2> QED BY <1>3, <1>4, <2>1 DEF Matching, Satisfies
<1>5. CASE pred = "LT"
  <2>1. \A p \in Returns : column[p] < rhs
    BY <1>5 DEF Returns, InRange
  <2> QED BY <1>3, <1>5, <2>1 DEF Matching, Satisfies
<1>6. CASE pred = "LE"
  <2>1. \A p \in Returns : column[p] < rhs + 1
    BY <1>6 DEF Returns, InRange, SmallestLarger
  <2>2. \A p \in Returns : column[p] <= rhs
    BY <1>1, <1>2, <1>3, <2>1
  <2> QED BY <1>3, <1>6, <2>2 DEF Matching, Satisfies
<1>7. CASE pred \in {"GT", "GE"}
  <2>1. Returns = Reads
    BY <1>7 DEF Returns
  <2> SUFFICES ASSUME scans = 1, NEW p \in Reads PROVE Satisfies(column[p])
    BY <1>3, <1>7, <2>1 DEF Matching
  <2>2. CASE firstCall /\ pred = "GT"
    <3>1. column[p] >= rhs + 1
      BY <2>2 DEF Reads, DbSetRange, SmallestLarger, Bulk
    <3>2. column[p] > rhs
      BY <1>1, <1>2, <1>3, <3>1
    <3> QED BY <2>2, <3>2 DEF Satisfies
  <2>3. CASE firstCall /\ pred = "GE"
    <3>1. column[p] >= rhs
      BY <2>3 DEF Reads, DbSetRange, Bulk
    <3> QED BY <2>3, <3>1 DEF Satisfies
  <2>4. CASE ~ firstCall
    <3>1. cursor \in Rows /\ Satisfies(column[cursor])
      BY <1>7, <2>4 DEF CursorMatches
    <3>2. Before(cursor, p)
      <4>1. cursor # 0
        BY <3>1, ScanAssumption DEF Rows
      <4> QED BY <1>7, <2>4, <4>1 DEF Reads, DbNext, Bulk
    <3>3. column[cursor] <= column[p] /\ column[cursor] \in Int /\ column[p] \in Int
      BY <1>2, <1>3, <3>1, <3>2 DEF Before
    <3>4. rhs \in Int
      BY <1>1
    <3>5. CASE pred = "GT"
      <4>1. column[cursor] > rhs
        BY <3>1, <3>5 DEF Satisfies
      <4>2. column[p] > rhs
        BY <4>1, <3>3, <3>4
      <4> QED BY <3>5, <4>2 DEF Satisfies
    <3>6. CASE pred = "GE"
      <4>1. column[cursor] >= rhs
        BY <3>1, <3>6 DEF Satisfies
      <4>2. column[p] >= rhs
        BY <4>1, <3>3, <3>4
      <4> QED BY <3>6, <4>2 DEF Satisfies
    <3> QED BY <1>7, <3>5, <3>6
  <2> QED BY <1>1, <1>7, <2>2, <2>3, <2>4
<1> QED BY <1>1, <1>4, <1>5, <1>6, <1>7 DEF Preds

\* The values a call of the switch starts from.
LEMMA ReadsAre ==
  ASSUME TypeOK
  PROVE  \E S \in SUBSET Rows :
           /\ Reads = Bulk(S)
           /\ pred = "EQ" => S = {p \in Rows : column[p] = rhs}
           /\ pred # "EQ" /\ ~ firstCall =>
                S = {p \in Rows : cursor = 0 \/ Before(cursor, p)}
           /\ pred # "EQ" /\ firstCall => Matching \subseteq S
<1>1. /\ column \in [Rows -> 1 .. K] /\ rhs \in 1 .. K /\ K \in Nat /\ pred \in Preds
      /\ firstCall \in BOOLEAN
  BY ScanAssumption DEF TypeOK
<1>2. \A p \in Rows : column[p] \in Int
  BY <1>1
<1>3. CASE pred = "EQ"
  BY <1>3 DEF Reads, DbSet
<1>4. CASE pred # "EQ" /\ ~ firstCall
  BY <1>1, <1>4 DEF Reads, DbNext, Preds
<1>5. CASE pred = "GT" /\ firstCall
  <2> DEFINE S == {p \in Rows : column[p] >= SmallestLarger(rhs)}
  <2>1. Reads = Bulk(S)
    BY <1>5 DEF Reads, DbSetRange
  <2>2. ASSUME NEW p \in Rows, column[p] > rhs PROVE column[p] >= rhs + 1
    BY <1>1, <1>2, <2>2
  <2>3. Matching \subseteq S
    BY <1>5, <2>2 DEF Matching, Satisfies, SmallestLarger
  <2> QED BY <1>5, <2>1, <2>3
<1>6. CASE pred = "GE" /\ firstCall
  <2> DEFINE S == {p \in Rows : column[p] >= rhs}
  <2>1. Reads = Bulk(S)
    BY <1>6 DEF Reads, DbSetRange
  <2>2. Matching \subseteq S
    BY <1>6 DEF Matching, Satisfies
  <2> QED BY <1>6, <2>1, <2>2
<1>7. CASE pred \in {"LT", "LE"} /\ firstCall
  <2>1. Reads = Bulk(Rows)
    BY <1>7 DEF Reads, DbFirst
  <2> QED BY <1>7, <2>1 DEF Matching
<1> QED BY <1>1, <1>3, <1>4, <1>5, <1>6, <1>7 DEF Preds

\* When the call returns nothing, no matching row is left in the set it started
\* from: the set is empty, or its first entry is not below the bound.
LEMMA NothingReturned ==
  ASSUME TypeOK, pred # "EQ", Returns = {}, NEW S \in SUBSET Rows, Reads = Bulk(S)
  PROVE  S \cap Matching = {}
<1>1. /\ column \in [Rows -> 1 .. K] /\ rhs \in 1 .. K /\ K \in Nat /\ pred \in Preds
  BY ScanAssumption DEF TypeOK
<1>2. \A p \in Rows : column[p] \in Int
  BY <1>1
<1>3. CASE S = {}
  BY <1>3
<1>4. CASE S # {}
  <2>1. PICK p \in Reads : \A q \in S : column[p] <= column[q]
    BY <1>1, <1>4, BulkProperties
  <2>2. p \in Rows
    BY ReadsInRows
  <2>3. CASE pred = "LT"
    <3>1. ~ (column[p] < rhs)
      BY <2>1, <2>3 DEF Returns, InRange
    <3>2. \A q \in S : ~ (column[q] < rhs)
      BY <1>1, <1>2, <2>1, <2>2, <3>1
    <3> QED BY <2>3, <3>2 DEF Matching, Satisfies
  <2>4. CASE pred = "LE"
    <3>1. ~ (column[p] < rhs + 1)
      BY <2>1, <2>4 DEF Returns, InRange, SmallestLarger
    <3>2. \A q \in S : ~ (column[q] <= rhs)
      BY <1>1, <1>2, <2>1, <2>2, <3>1
    <3> QED BY <2>4, <3>2 DEF Matching, Satisfies
  <2>5. CASE pred \in {"GT", "GE"}
    BY <2>1, <2>5 DEF Returns
  <2> QED BY <1>1, <2>3, <2>4, <2>5 DEF Preds
<1> QED BY <1>3, <1>4

\* A matching entry that is read is returned.
LEMMA InRangeOfMatching ==
  ASSUME TypeOK, NEW p \in Reads, Satisfies(column[p])
  PROVE  p \in Returns
<1>1. /\ rhs \in Int /\ column[p] \in Int
  BY ReadsInRows, ScanAssumption DEF TypeOK
<1>2. CASE pred = "LT"
  BY <1>2 DEF Returns, InRange, Satisfies
<1>3. CASE pred = "LE"
  <2>1. column[p] <= rhs
    BY <1>3 DEF Satisfies
  <2>2. column[p] < rhs + 1
    BY <1>1, <2>1
  <2> QED BY <1>3, <2>2 DEF Returns, InRange, SmallestLarger
<1>4. CASE pred \notin {"LT", "LE"}
  BY <1>4 DEF Returns
<1> QED BY <1>2, <1>3, <1>4

LEMMA FetchSkipsNothing ==
  ASSUME TypeOK, IInv, Fetch
  PROVE  NothingSkipped'
<1>1. /\ ~ done /\ page = {} /\ page' = Returns /\ Returns \subseteq Reads
      /\ done' = (Returns = {} \/ pred = "EQ")
      /\ cursor' = IF Reads = {} THEN cursor ELSE Last(Reads)
      /\ UNCHANGED <<column, pred, rhs, firstCall, filter, added, scans>>
  BY ReadsInRows DEF Fetch
<1>2. /\ column \in [Rows -> 1 .. K] /\ Matching' = Matching
  BY <1>1 DEF TypeOK, Matching, Satisfies
<1>3. PICK S \in SUBSET Rows :
        /\ Reads = Bulk(S)
        /\ pred # "EQ" /\ ~ firstCall =>
             S = {p \in Rows : cursor = 0 \/ Before(cursor, p)}
        /\ pred # "EQ" /\ firstCall => Matching \subseteq S
  BY ReadsAre
\* A matching row that is not in the set the call starts from was read before.
<1>4. ASSUME scans = 1, pred # "EQ", NEW p \in Matching, p \notin S
      PROVE  p \in added
  <2>1. ~ firstCall /\ S = {x \in Rows : cursor = 0 \/ Before(cursor, x)} /\ p \in Rows
    BY <1>3, <1>4 DEF Matching
  <2>2. ~ Before(cursor, p)
    BY <1>4, <2>1
  <2> QED BY <1>1, <1>4, <2>1, <2>2 DEF IInv, NothingSkipped
<1>5. ASSUME scans = 1, pred # "EQ", Returns = {}
      PROVE  Matching \subseteq added
  <2>1. S \cap Matching = {}
    BY <1>3, <1>5, NothingReturned
  <2> QED BY <1>4, <1>5, <2>1
<1>6. ASSUME scans = 1, pred # "EQ", ~ firstCall \/ Returns # {}
      PROVE  /\ cursor' \in Rows
             /\ \A p \in Matching : ~ Before(cursor', p) => p \in added \cup Returns
  <2>1. CASE Returns = {}
    <3>1. Matching \subseteq added /\ ~ firstCall
      BY <1>5, <1>6, <2>1
    <3>2. cursor \in Rows
      BY <1>6, <3>1 DEF IInv, NothingSkipped
    <3>3. cursor' \in Rows
      BY <1>1, <3>2, ReadsLast
    <3> QED BY <3>1, <3>3
  <2>2. CASE Returns # {}
    <3>1. /\ cursor' = Last(Reads) /\ cursor' \in Reads /\ cursor' \in Rows
      BY <1>1, <2>2, ReadsLast
    <3>2. ASSUME NEW p \in Matching, ~ Before(cursor', p), p \in S
          PROVE  p \in Returns
      <4>1. p \in Reads
        BY <1>2, <1>3, <3>1, <3>2, BulkProperties
      <4>2. Satisfies(column[p])
        BY DEF Matching
      <4> QED BY <4>1, <4>2, <1>6, <1>1, InRangeOfMatching
    <3> QED BY <1>4, <1>6, <3>1, <3>2
  <2> QED BY <2>1, <2>2
<1>7. pred = "EQ" => added' \cup page' = DbSet(rhs)'
  <2> SUFFICES ASSUME pred = "EQ" PROVE added' \cup page' = DbSet(rhs)'
    OBVIOUS
  <2>1. added = {} /\ Returns = DbSet(rhs)
    BY <1>1 DEF IInv, EqualityFresh, Returns, Reads
  <2> QED BY <1>1, <2>1 DEF DbSet, Bulk, Before
<1> QED BY <1>1, <1>2, <1>5, <1>6, <1>7 DEF NothingSkipped, Before

----------------------------------------------------------------------------
(* The steps *)

LEMMA FetchStep ==
  ASSUME TypeOK, IInv, Fetch
  PROVE  IInv'
<1>1. /\ ~ done /\ page = {} /\ page' = Returns /\ Returns \subseteq Reads
      /\ done' = (Returns = {} \/ pred = "EQ")
      /\ cursor' = IF Reads = {} THEN cursor ELSE Last(Reads)
      /\ UNCHANGED <<column, pred, rhs, firstCall, filter, added, scans>>
  BY ReadsInRows DEF Fetch
<1>2. CursorBehind' /\ FirstCallFresh' /\ EqualityFresh'
  BY FetchBehind DEF IInv
<1>3. NothingSkipped'
  BY FetchSkipsNothing
<1>4. /\ scans = 1 \/ pred \in {"EQ", "LT", "LE"} => Returns \subseteq Matching
      /\ scans = 1 /\ pred \in {"GT", "GE"} => Reads \subseteq Matching /\ Returns = Reads
  BY <1>1, ReadsMatch DEF IInv
<1>5. ScanSound'
  BY <1>1, <1>4 DEF IInv, ScanSound, Matching, Satisfies
<1>6. CursorMatches'
  <2> SUFFICES ASSUME scans = 1, pred \in {"GT", "GE"}, ~ firstCall \/ Returns # {}
               PROVE  cursor' \in Rows /\ Satisfies(column[cursor'])
    BY <1>1 DEF CursorMatches, Satisfies
  <2>1. CASE Reads = {}
    BY <1>1, <2>1 DEF IInv, CursorMatches
  <2>2. CASE Reads # {}
    BY <1>1, <1>4, <2>2, ReadsLast DEF Matching
  <2> QED BY <2>1, <2>2
<1> QED BY <1>2, <1>3, <1>5, <1>6 DEF IInv

LEMMA AddNextStep ==
  ASSUME TypeOK, IInv, AddNext
  PROVE  IInv'
<1> DEFINE p == CHOOSE q \in page : \A r \in page : q <= r
<1>1. page \subseteq Rows /\ page # {} /\ p \in page
  BY NextOfPage DEF TypeOK, AddNext
<1>2. /\ added' = added \cup {p} /\ page' = page \ {p}
      /\ firstCall' = (firstCall /\ page # {p})
      /\ UNCHANGED <<column, pred, rhs, cursor, done, scans>>
  BY DEF AddNext
<1> HIDE DEF p
<1>3. added' \cup page' = added \cup page
  BY <1>1, <1>2
<1>4. CursorBehind'
  BY <1>2, <1>3 DEF IInv, CursorBehind, Before
<1>5. FirstCallFresh'
  BY <1>1, <1>2 DEF FirstCallFresh
<1>6. EqualityFresh'
  BY <1>1, <1>2 DEF IInv, EqualityFresh
<1>7. CursorMatches'
  BY <1>1, <1>2 DEF IInv, CursorMatches, Satisfies
<1>8. NothingSkipped'
  <2>1. Matching' = Matching /\ DbSet(rhs)' = DbSet(rhs)
    BY <1>2 DEF Matching, Satisfies, DbSet, Bulk, Before
  <2>2. \A x : Before(cursor, x)' <=> Before(cursor, x)
    BY <1>2 DEF Before
  <2> QED BY <1>1, <1>2, <1>3, <2>1, <2>2 DEF IInv, NothingSkipped
<1>9. ScanSound'
  BY <1>2, <1>3 DEF IInv, ScanSound, Matching, Satisfies
<1> QED BY <1>4, <1>5, <1>6, <1>7, <1>8, <1>9 DEF IInv

LEMMA NewScanStep ==
  ASSUME TypeOK, IInv, NEW read \in BOOLEAN, NewScan(read)
  PROVE  IInv'
<1>1. /\ added' = {} /\ page' = {} /\ page = {} /\ filter' = EmptyFilter /\ ~ done'
      /\ scans' = scans + 1
  BY DEF NewScan
<1>2. scans' # 1
  BY <1>1, ScanAssumption DEF TypeOK
<1> QED BY <1>1, <1>2 DEF IInv, CursorBehind, FirstCallFresh, EqualityFresh, CursorMatches,
                         NothingSkipped, ScanSound

LEMMA ScanStep == TypeOK /\ IInv /\ [Next]_vars => IInv'
<1> SUFFICES ASSUME TypeOK, IInv, [Next]_vars PROVE IInv'
  OBVIOUS
<1>1. CASE Fetch
  BY <1>1, FetchStep
<1>2. CASE AddNext
  BY <1>2, AddNextStep
<1>3. CASE \E read \in BOOLEAN : NewScan(read)
  BY <1>3, NewScanStep
<1>4. CASE UNCHANGED vars
  BY <1>4 DEF vars, IInv, CursorBehind, FirstCallFresh, EqualityFresh, CursorMatches,
              NothingSkipped, ScanSound, Matching, Satisfies, DbSet, Bulk, Before
<1> QED BY <1>1, <1>2, <1>3, <1>4 DEF Next

LEMMA ScanInvariant == Spec => [](TypeOK /\ IInv)
<1>1. Spec => []TypeOK
  BY TypeCorrect
<1> QED BY <1>1, ScanInit, ScanStep, PTL DEF Spec

----------------------------------------------------------------------------
(* The theorems *)

\* A scan takes only rows that satisfy the predicate, the first one always and
\* every later one that compares what it reads with a bound.
THEOREM ScanSoundness == Spec => []ScanSound
<1>1. IInv => ScanSound
  BY DEF IInv
<1> QED BY <1>1, ScanInvariant, PTL

\* A scan that has ended took every matching row, page by page, wherever the
\* bulk buffer ends in a run of duplicates.
THEOREM ScanCompleteness == Spec => []ScanComplete
<1>1. TypeOK /\ IInv => ScanComplete
  <2> SUFFICES ASSUME TypeOK, IInv, Finished, scans = 1 \/ pred = "EQ",
                      pred = "EQ" => Cardinality(Matching) <= BulkMax
               PROVE  added = Matching
    BY DEF ScanComplete
  <2>1. done /\ page = {} /\ added \subseteq Matching
    BY DEF Finished, IInv, ScanSound
  <2>2. CASE pred # "EQ"
    BY <2>1, <2>2 DEF IInv, NothingSkipped
  <2>3. CASE pred = "EQ"
    <3> DEFINE S == {p \in Rows : column[p] = rhs}
    <3>1. Matching = S
      BY <2>3 DEF Matching, Satisfies
    <3>2. Bulk(S) = S
      <4>1. Cardinality(S) <= BulkMax /\ \A p, q \in S : column[p] = column[q]
        BY <2>3, <3>1
      <4> QED BY <4>1, BulkOfFew DEF TypeOK
    <3>3. added = Bulk(S)
      BY <2>1, <2>3 DEF IInv, NothingSkipped, DbSet
    <3> QED BY <3>1, <3>2, <3>3
  <2> QED BY <2>2, <2>3
<1> QED BY <1>1, ScanInvariant, PTL

\* No entry of the index is returned twice in one scan.
THEOREM NothingTwice == Spec => FetchedOnce
<1>1. TypeOK /\ IInv /\ [Next]_vars => [page = {} => page' \cap added = {}]_vars
  <2> SUFFICES ASSUME TypeOK, IInv, Next, page = {} PROVE page' \cap added = {}
    OBVIOUS
  <2>1. CASE Fetch
    <3>1. Reads \cap added = {}
      BY <2>1, ReadsNew DEF IInv, Fetch
    <3> QED BY <2>1, <3>1, ReadsInRows DEF Fetch
  <2>2. CASE \E read \in BOOLEAN : NewScan(read)
    BY <2>2 DEF NewScan
  <2>3. CASE AddNext
    BY <2>3 DEF AddNext
  <2> QED BY <2>1, <2>2, <2>3 DEF Next
<1>2. Spec => [][Next]_vars
  BY DEF Spec
<1> QED BY <1>1, <1>2, ScanInvariant, PTL DEF FetchedOnce

----------------------------------------------------------------------------
(* Equality: the positions arrive in ascending order *)

\* The filter of an equality scan holds what was added, in order, and what is
\* left of its page is behind it.
AscendingInv ==
  pred = "EQ" =>
    /\ Ordered(filter)
    /\ PositionsOf(filter) = added
    /\ \A p \in page : p > filter.endPos

LEMMA AscendingStep ==
  TypeInv /\ IInv /\ AscendingInv /\ [Next]_vars => AscendingInv'
<1> SUFFICES ASSUME TypeInv, IInv, AscendingInv, [Next]_vars, pred' = "EQ"
             PROVE  /\ Ordered(filter')
                    /\ PositionsOf(filter') = added'
                    /\ \A p \in page' : p > filter.endPos'
  BY DEF AscendingInv, Ordered, PositionsOf
<1>1. TypeOK /\ FilterOK(filter)
  BY DEF TypeInv
<1>2. Ordered(EmptyFilter) /\ PositionsOf(EmptyFilter) = {} /\ EmptyFilter.endPos = 0
  BY EmptySeq DEF Ordered, EmptyFilter, PositionsOf
<1>3. CASE Fetch
  <2>1. pred = "EQ" /\ filter' = EmptyFilter /\ added' = {}
    BY <1>3 DEF Fetch, IInv, EqualityFresh
  <2>2. page' \in SUBSET Rows
    BY <1>3, ReadsInRows DEF Fetch
  <2>3. \A p \in page' : p > 0
    BY <2>2, ScanAssumption DEF Rows
  <2> QED BY <1>2, <2>1, <2>3
<1>4. CASE AddNext
  <2> DEFINE p == CHOOSE q \in page : \A r \in page : q <= r
  <2>1. page \subseteq Rows /\ page # {}
    BY <1>1, <1>4 DEF TypeOK, AddNext
  <2>2. p \in page /\ \A r \in page : p <= r
    BY <2>1, NextOfPage
  <2>3. /\ filter' = AddPosition(filter, p) /\ added' = added \cup {p}
        /\ page' = page \ {p} /\ pred = "EQ"
    BY <1>4 DEF AddNext
  <2> HIDE DEF p
  <2>4. p \in Nat /\ p > filter.endPos /\ \A r \in page : r \in Nat
    BY <2>1, <2>2, <2>3, ScanAssumption DEF AscendingInv, Rows
  <2>5. /\ Ordered(filter') /\ filter'.endPos = p
        /\ PositionsOf(filter') = PositionsOf(filter) \cup {p}
    BY <1>1, <2>3, <2>4, AddPositionAscending DEF AscendingInv
  <2>6. \A r \in page' : r > p
    BY <2>2, <2>3, <2>4
  <2> QED BY <2>3, <2>5, <2>6 DEF AscendingInv
<1>5. CASE \E read \in BOOLEAN : NewScan(read)
  <2>1. filter' = EmptyFilter /\ added' = {} /\ page' = {}
    BY <1>5 DEF NewScan
  <2> QED BY <1>2, <2>1
<1>6. CASE UNCHANGED vars
  BY <1>6 DEF vars, AscendingInv
<1> QED BY <1>3, <1>4, <1>5, <1>6 DEF Next

\* An equality scan loses no position and leaves an ordered filter, over any
\* number of blocks, on a data source that is new or was used before.
THEOREM EqualityScanExact == Spec => []EqualityExact
<1>1. Init => AscendingInv
  BY EmptySeq DEF Init, AscendingInv, Ordered, EmptyFilter, PositionsOf
<1>2. AscendingInv => EqualityExact
  BY DEF AscendingInv, EqualityExact, Ordered, BlocksAscending, BoundsCurrent
<1>3. Spec => []TypeInv
  BY TypeInit, TypeStep, PTL DEF Spec
<1> QED BY <1>1, <1>2, <1>3, ScanInvariant, AscendingStep, PTL DEF Spec

----------------------------------------------------------------------------
(* What leaves the filter *)

\* The bounds of the filter and of its blocks are positions that were added, and
\* what is left of the page was not.
AnchorInv == Anchored(filter, added) /\ page \cap added = {}

\* The position the inner loop takes, and what the filter does with it.
LEMMA AddNextKeeps ==
  ASSUME TypeInv, AnchorInv, AddNext
  PROVE  \E p \in page :
           /\ added' = added \cup {p} /\ page' = page \ {p} /\ scans' = scans
           /\ Anchored(filter', added') /\ TakesAndKeeps(filter, filter', p)
<1> DEFINE p == CHOOSE q \in page : \A r \in page : q <= r
<1>1. page \subseteq Rows /\ page # {} /\ added \subseteq Rows /\ FilterOK(filter)
  BY DEF AddNext, TypeInv, TypeOK
<1>2. p \in page
  BY <1>1, NextOfPage
<1>3. /\ filter' = AddPosition(filter, p) /\ added' = added \cup {p}
      /\ page' = page \ {p} /\ scans' = scans
  BY DEF AddNext
<1> HIDE DEF p
<1>4. p \in Nat /\ added \in SUBSET Nat /\ 0 \notin added
  BY <1>1, <1>2, ScanAssumption DEF Rows
<1>5. Anchored(filter, added) /\ p \notin added
  BY <1>2 DEF AnchorInv
<1>6. /\ Anchored(AddPosition(filter, p), added \cup {p})
      /\ TakesAndKeeps(filter, AddPosition(filter, p), p)
  BY <1>1, <1>4, <1>5, AddPositionKeeps
<1> QED BY <1>2, <1>3, <1>6

LEMMA AnchorStep == TypeInv /\ IInv /\ AnchorInv /\ [Next]_vars => AnchorInv'
<1> SUFFICES ASSUME TypeInv, IInv, AnchorInv, [Next]_vars PROVE AnchorInv'
  OBVIOUS
<1>1. Anchored(EmptyFilter, {})
  BY EmptySeq DEF Anchored, EmptyFilter
<1>2. CASE Fetch
  <2>1. page' \cap added = {}
    BY <1>2, ReadsInRows, ReadsNew DEF Fetch, IInv, TypeInv
  <2> QED BY <1>2, <2>1 DEF Fetch, AnchorInv, Anchored
<1>3. CASE AddNext
  <2>1. PICK p \in page : /\ added' = added \cup {p} /\ page' = page \ {p}
                          /\ Anchored(filter', added')
    BY <1>3, AddNextKeeps
  <2> QED BY <2>1 DEF AnchorInv, Anchored
<1>4. CASE \E read \in BOOLEAN : NewScan(read)
  <2>1. filter' = EmptyFilter /\ added' = {} /\ page' = {}
    BY <1>4 DEF NewScan
  <2> QED BY <1>1, <2>1 DEF AnchorInv, Anchored
<1>5. CASE UNCHANGED vars
  BY <1>5 DEF vars, AnchorInv, Anchored
<1> QED BY <1>2, <1>3, <1>4, <1>5 DEF Next

\* Every position given to addPosition is in the filter afterwards, and positions
\* leave it only when a block is shifted to begin earlier.
THEOREM LostOnlyByShift == Spec => LossOnlyByShift
<1> DEFINE Keeps ==
      /\ added' \ added \subseteq PositionsOf(filter')
      /\ \/ PositionsOf(filter) \subseteq PositionsOf(filter')
         \/ scans' # scans
         \/ \E i \in 1 .. Len(filter.blocks) :
              filter'.blocks[i].start < filter.blocks[i].start
<1>1. Init => AnchorInv
  BY EmptySeq DEF Init, AnchorInv, Anchored, EmptyFilter
<1>2. TypeInv /\ AnchorInv /\ [Next]_vars => [Keeps]_vars
  <2> SUFFICES ASSUME TypeInv, AnchorInv, Next PROVE Keeps
    OBVIOUS
  <2>1. CASE Fetch
    BY <2>1 DEF Fetch
  <2>2. CASE AddNext
    <3>1. PICK p \in page : added' = added \cup {p} /\ TakesAndKeeps(filter, filter', p)
      BY <2>2, AddNextKeeps
    <3> QED BY <3>1 DEF TakesAndKeeps
  <2>3. CASE \E read \in BOOLEAN : NewScan(read)
    BY <2>3, ScanAssumption DEF NewScan, TypeInv, TypeOK
  <2> QED BY <2>1, <2>2, <2>3 DEF Next
<1>3. Spec => []TypeInv /\ [][Next]_vars
  BY TypeInit, TypeStep, PTL DEF Spec
<1> QED BY <1>1, <1>2, <1>3, ScanInvariant, AnchorStep, PTL DEF Spec, LossOnlyByShift

=============================================================================
