------------------------- MODULE QuerySessionProofs --------------------------
(***************************************************************************)
(* Theorems about a client of LRCSQuery, for any number of rows, columns,  *)
(* queries and openings: what its first query is answered, what stays true *)
(* of the later ones, and what it has to do not to end the process.        *)
(***************************************************************************)
EXTENDS QuerySession, TLAPS

----------------------------------------------------------------------------
(* The inductive invariant *)

\* A sorted column is in order.
Sorted == \A c \in Columns : kind[c] = "sorted" => Ascending(value[c])

\* closeDbEnv leaves the pointer behind, and initDbEnv sets it.
LibraryShape ==
  /\ env = "closed" => closed
  /\ m_bInited => env # "none"

\* A query is scanned on a table that is open; what is asked first of a handle finds
\* data sources nobody has used.
PhaseShape ==
  /\ phase = "idle" => scanned = {}
  /\ phase = "idle" /\ ~ used => \A c \in Columns : source[c] = NewSource
  /\ phase = "scan" => opened /\ DOMAIN answer = {} /\ fresh = ~ used

\* The columns a query names have its predicates as long as it is scanned.
BoundToQuery ==
  phase = "scan" =>
    \A c \in DOMAIN query : source[c].pointer = "alive" /\ source[c].cond = query[c]

\* What is left in a data source was left by a query that named its column, in the
\* same handle: its predicate, and where the scans of it are.
Named(c) == c \in named \/ (phase # "idle" /\ c \in DOMAIN query)
Traced ==
  \A c \in Columns :
    /\ source[c].pointer # "null" => Named(c)
    /\ ~ source[c].firstCall \/ Before(c).rows # {} =>
         c \in named \/ (Named(c) /\ c \in scanned)

\* A predicate that is alive is one of a query.
Pointed ==
  \A c \in Columns : source[c].pointer = "alive" => source[c].cond \in Conditions

\* The first query of a handle: what is not scanned yet is as new, and what is has
\* found the rows that are expected of its condition.
FirstScan ==
  phase = "scan" /\ fresh =>
    \A c \in Columns :
      /\ ~ source[c].finished
      /\ c \notin scanned =>
           /\ source[c].firstCall /\ ~ source[c].triple /\ ~ source[c].made
           /\ c \notin DOMAIN query => source[c].pointer = "null"
      /\ c \in scanned =>
           /\ c \notin DOMAIN query => source[c].matched = Complete
           /\ c \in ReliableColumns => Selected(source[c].matched) = Expected(c, query[c])

\* An equality or an upper bound is not exceeded by the filter of its column.
BoundScan ==
  phase = "scan" =>
    \A c \in scanned \cap DOMAIN query :
      Upper(c, query[c]) => Selected(source[c].matched) \subseteq RowsWith(c, query[c])

\* The cursors of all columns are at the end of a filter, or none is.
OneCursor ==
  /\ \A c, d \in Columns : source[c].finished = source[d].finished
  /\ filtered = 0 \/ (filtered = 1 /\ \A c \in Columns : source[c].finished)

Scans == BoundToQuery /\ FirstScan /\ BoundScan
Answers == FirstAnswerExact /\ NoTornRow /\ BoundsHold

IInv ==
  /\ TypeOK /\ Sorted /\ LibraryShape /\ PhaseShape /\ Pointed /\ Traced /\ Scans /\ OneCursor
  /\ Answers /\ SafeClient

----------------------------------------------------------------------------
(* What the operators of a scan return *)

LEMMA RowsOfTable ==
  ASSUME NEW c, NEW cond
  PROVE  /\ RowsWith(c, cond) \subseteq Rows
         /\ Expected(c, cond) \subseteq RowsWith(c, cond)
BY DEF RowsWith, Expected, WithBitmap

LEMMA TableFixed ==
  ASSUME UNCHANGED table
  PROVE  \A c, cond : /\ RowsWith(c, cond)' = RowsWith(c, cond)
                      /\ Expected(c, cond)' = Expected(c, cond)
                      /\ Reliable(c, cond)' = Reliable(c, cond)
                      /\ Upper(c, cond)' = Upper(c, cond)
<1> SUFFICES ASSUME NEW c, NEW cond
             PROVE  /\ RowsWith(c, cond)' = RowsWith(c, cond)
                    /\ Expected(c, cond)' = Expected(c, cond)
                    /\ Reliable(c, cond)' = Reliable(c, cond)
                    /\ Upper(c, cond)' = Upper(c, cond)
  OBVIOUS
<1>1. UNCHANGED <<kind, value, indexed>>
  BY DEF table
<1>2. RowsWith(c, cond)' = RowsWith(c, cond)
  BY <1>1 DEF RowsWith
<1>3. Expected(c, cond)' = Expected(c, cond)
  BY <1>1, <1>2 DEF Expected, WithBitmap
<1>4. Distinct(c)' = Distinct(c) /\ Hit(c, cond)' = Hit(c, cond)
  BY <1>1 DEF Distinct, Hit, Bounded, Present, AllBelow
<1> QED BY <1>1, <1>2, <1>3, <1>4 DEF Reliable, Upper

LEMMA NewIsTyped == NewSource \in Source
BY DEF NewSource, Source, Pointers, Filters, Found

LEMMA NoQueryTyped == NoQuery \in Queries
<1>1. NoQuery \in [{} -> Conditions] /\ {} \in SUBSET Columns
  BY DEF NoQuery
<1> QED BY <1>1 DEF Queries

\* A scan is given the rows it has reached, and leaves predicate and cursor alone.
LEMMA ReachedIs ==
  ASSUME NEW c, NEW cond
  PROVE  /\ Reached(c, cond) \subseteq Rows
         /\ source[c].firstCall \/ cond.type # "GE" => Reached(c, cond) = RowsWith(c, cond)
BY RowsOfTable DEF Reached

----------------------------------------------------------------------------
(* The ranges of a sorted column *)

LEMMA LargerIs ==
  ASSUME NEW v \in Nat
  PROVE  SmallestLarger(v) \in Nat /\ (SmallestLarger(v) = v \/ SmallestLarger(v) > v)
<1>1. Base \in Nat \ {0}
  BY SessionAssumption DEF Base
<1> QED BY <1>1 DEF SmallestLarger

\* Where a search ends, and what the value of a row is.
LEMMA PositionsAre ==
  ASSUME TypeOK, NEW c \in Columns, NEW v, NEW p \in Positions(c, v)
  PROVE  \/ p = 0 /\ ~ Present(c, v)
         \/ p \in Rows /\ value[c][p] = v /\ Present(c, v)
BY DEF Positions, Present

LEMMA ValuesAre ==
  ASSUME TypeOK, NEW c \in Columns, NEW p \in Rows
  PROVE  value[c][p] \in Nat
BY SessionAssumption DEF TypeOK

LEMMA NothingTyped == Nothing.triple \in BOOLEAN /\ Nothing.matched \in Filters
BY DEF Nothing, Found, Filters

\* What a range is, whatever it is of.
LEMMA RangesTyped ==
  ASSUME NEW c, NEW cond, NEW range \in Ranges(c, cond)
  PROVE  range.triple \in BOOLEAN /\ range.matched \in Filters
<1> DEFINE Typed(r) == r.triple \in BOOLEAN /\ r.matched \in Filters
<1>1. Typed(Nothing) /\ Typed(All) /\ Typed([All EXCEPT !.triple = TRUE])
  BY DEF Nothing, All, Complete, Found, Filters
<1>2. \A S \in SUBSET Rows : Typed(Range(S))
  BY DEF Range, Found, Filters
<1>3. ASSUME NEW p \in 0 .. N PROVE Typed(Below(p)) /\ Typed(FromOn(p))
  <2>1. p .. N \subseteq Rows \/ p = 0
    BY SessionAssumption DEF Rows
  <2>2. 1 .. p - 1 \subseteq Rows
    BY SessionAssumption DEF Rows
  <2> QED BY <1>1, <1>2, <2>1, <2>2 DEF Below, FromOn
<1>4. ASSUME NEW first \in Rows, NEW end \in 0 .. N PROVE Typed(Between(first, end))
  <2>1. first .. N \subseteq Rows /\ first .. end \subseteq Rows
    BY SessionAssumption DEF Rows
  <2> QED BY <1>1, <1>2, <2>1 DEF Between
<1>5. \A v : Positions(c, v) \subseteq 0 .. N
  BY SessionAssumption DEF Positions, Rows
<1>6. CASE cond.type = "EQ"
  <2>1. PICK first \in Positions(c, cond.rhs) :
          range \in IF first = 0 THEN {Nothing}
                    ELSE {Between(first, end) :
                            end \in {e \in Ends(c, first, cond.rhs) : e = 0 \/ e # first - 1}}
    BY <1>6 DEF Ranges, Equals
  <2>2. CASE first = 0
    BY <1>1, <2>1, <2>2
  <2>3. CASE first # 0
    <3>1. first \in Rows
      BY <1>5, <2>3, SessionAssumption DEF Rows
    <3>2. PICK end \in Ends(c, first, cond.rhs) : range = Between(first, end)
      BY <2>1, <2>3
    <3>3. end \in 0 .. N
      <4>1. first - 1 \in 0 .. N /\ 0 \in 0 .. N
        BY <3>1, SessionAssumption DEF Rows
      <4>2. ASSUME Present(c, SmallestLarger(cond.rhs)),
                   NEW p \in Positions(c, SmallestLarger(cond.rhs))
            PROVE  p - 1 \in 0 .. N
        <5>1. p \in Rows
          BY <4>2 DEF Positions, Present
        <5> QED BY <5>1, SessionAssumption DEF Rows
      <4> QED BY <4>1, <4>2 DEF Ends
    <3> QED BY <1>4, <3>1, <3>2, <3>3
  <2> QED BY <2>2, <2>3
<1>7. CASE cond.type = "GE"
  BY <1>3, <1>5, <1>7 DEF Ranges
<1>8. CASE cond.type \notin {"EQ", "GE"}
  BY <1>1, <1>3, <1>5, <1>8 DEF Ranges
<1> QED BY <1>6, <1>7, <1>8

LEMMA Strictly ==
  ASSUME TypeOK, Sorted, NEW c \in Columns, kind[c] = "sorted", Distinct(c),
         NEW p \in Rows, NEW q \in Rows
  PROVE  value[c][p] < value[c][q] <=> p < q
<1>1. /\ p < q => value[c][p] <= value[c][q]
      /\ q < p => value[c][q] <= value[c][p]
      /\ p # q => value[c][p] # value[c][q]
  BY DEF Sorted, Ascending, Distinct
<1>2. value[c][p] \in Nat /\ value[c][q] \in Nat /\ p \in Nat /\ q \in Nat
  BY ValuesAre DEF Rows
<1> QED BY <1>1, <1>2

\* The selection of each kind of range.
LEMMA SelectionIs ==
  /\ Selected(Nothing.matched) = {} /\ Selected(All.matched) = Rows
  /\ \A S : Selected(Range(S).matched) = S
BY DEF Nothing, All, Range, Found, Complete, Selected

\* The rows of an upper bound are not exceeded, and none is missed if it is hit.
LEMMA BelowIs ==
  ASSUME TypeOK, Sorted, NEW c \in Columns, kind[c] = "sorted", Distinct(c),
         NEW cond \in Conditions, cond.type = "LT", NEW range \in Ranges(c, cond)
  PROVE  /\ Selected(range.matched) \subseteq RowsWith(c, cond)
         /\ Hit(c, cond) => Selected(range.matched) = RowsWith(c, cond)
<1>1. RowsWith(c, cond) = {q \in Rows : value[c][q] < cond.rhs}
  BY DEF RowsWith
<1>2. CASE AllBelow(c, cond.rhs)
  <2>1. range = All
    BY <1>2 DEF Ranges
  <2> QED BY <1>1, <1>2, <2>1, SelectionIs DEF AllBelow
<1>3. CASE ~ AllBelow(c, cond.rhs)
  <2>1. PICK p \in Positions(c, cond.rhs) : range = Below(p)
    BY <1>3 DEF Ranges
  <2>2. CASE p = 0
    <3>1. ~ Present(c, cond.rhs)
      BY <2>2, PositionsAre DEF Rows
    <3>2. ~ Hit(c, cond)
      BY <1>3, <3>1 DEF Hit, Bounded
    <3>3. range = Nothing
      BY <2>1, <2>2 DEF Below
    <3> QED BY <3>2, <3>3, SelectionIs
  <2>3. CASE p \in Rows /\ value[c][p] = cond.rhs
    <3>1. RowsWith(c, cond) = {q \in Rows : q < p}
      BY <1>1, <2>3, Strictly
    <3>2. Selected(range.matched) = 1 .. p - 1
      <4>1. CASE p > 1
        BY <2>1, <4>1, SelectionIs DEF Below
      <4>2. CASE ~ p > 1
        <5>1. p = 1
          BY <2>3, <4>2, SessionAssumption DEF Rows
        <5>2. 1 .. p - 1 = {}
          BY <5>1
        <5> QED BY <2>1, <4>2, <5>2, SelectionIs DEF Below
      <4> QED BY <4>1, <4>2
    <3>3. 1 .. p - 1 = {q \in Rows : q < p}
      BY <2>3, SessionAssumption DEF Rows
    <3> QED BY <3>1, <3>2, <3>3
  <2> QED BY <2>2, <2>3, PositionsAre
<1> QED BY <1>2, <1>3

\* A lower bound that is a value of the column.
LEMMA FromIs ==
  ASSUME TypeOK, Sorted, NEW c \in Columns, kind[c] = "sorted", Distinct(c),
         NEW cond \in Conditions, cond.type = "GE", Hit(c, cond), NEW range \in Ranges(c, cond)
  PROVE  Selected(range.matched) = Expected(c, cond)
<1>1. PICK p \in Positions(c, cond.rhs) : range = FromOn(p)
  BY DEF Ranges
<1>2. p \in Rows /\ value[c][p] = cond.rhs
  BY PositionsAre DEF Hit
<1>3. RowsWith(c, cond) = {q \in Rows : value[c][q] >= cond.rhs}
  BY DEF RowsWith
<1>4. RowsWith(c, cond) = p .. N
  <2>1. \A q \in Rows : value[c][q] >= cond.rhs <=> ~ value[c][q] < value[c][p]
    BY <1>2, ValuesAre
  <2>2. \A q \in Rows : value[c][q] >= cond.rhs <=> ~ q < p
    BY <1>2, <2>1, Strictly
  <2> QED BY <1>2, <1>3, <2>2, SessionAssumption DEF Rows
<1>5. Expected(c, cond) = IF p .. N = {N} THEN {} ELSE p .. N
  BY <1>4 DEF Expected
<1>6. p .. N = {N} <=> p = N
  <2>1. p \in p .. N
    BY <1>2, SessionAssumption DEF Rows
  <2>2. p = N => p .. N = {N}
    BY SessionAssumption
  <2> QED BY <2>1, <2>2
<1>7. p # 0
  BY <1>2, SessionAssumption DEF Rows
<1> QED BY <1>1, <1>5, <1>6, <1>7, SelectionIs DEF FromOn

\* An equality with a value that is not there, or whose successor is.
LEMMA EqualIs ==
  ASSUME TypeOK, Sorted, NEW c \in Columns, kind[c] = "sorted", Distinct(c),
         NEW cond \in Conditions, cond.type = "EQ", Hit(c, cond), NEW range \in Ranges(c, cond)
  PROVE  Selected(range.matched) = RowsWith(c, cond)
<1>1. RowsWith(c, cond) = {q \in Rows : value[c][q] = cond.rhs}
  BY DEF RowsWith
<1>2. PICK first \in Positions(c, cond.rhs) :
        range \in IF first = 0 THEN {Nothing}
                  ELSE {Between(first, end) :
                          end \in {e \in Ends(c, first, cond.rhs) : e = 0 \/ e # first - 1}}
  BY DEF Ranges, Equals
<1>3. CASE first = 0
  <2>1. ~ Present(c, cond.rhs)
    BY <1>3, PositionsAre DEF Rows
  <2> QED BY <1>1, <1>2, <1>3, <2>1, SelectionIs DEF Present
<1>4. CASE first \in Rows /\ value[c][first] = cond.rhs /\ Present(c, cond.rhs)
  <2>1. first \in Nat /\ first # 0 /\ N \in Nat /\ first <= N /\ cond.rhs \in Nat
    BY <1>4, ValuesAre, SessionAssumption DEF Rows
  <2>2. RowsWith(c, cond) = {first}
    BY <1>1, <1>4 DEF Distinct
  <2>3. /\ SmallestLarger(cond.rhs) = cond.rhs + 1
        /\ Bounded(c, cond.rhs + 1)
    BY <1>4 DEF Hit
  <2>4. PICK end \in Ends(c, first, cond.rhs) : range = Between(first, end)
    BY <1>2, <2>1
  <2>5. CASE AllBelow(c, cond.rhs + 1)
    <3>1. end = 0
      BY <2>1, <2>3, <2>4, <2>5 DEF Ends
    <3>2. first = N
      <4>1. value[c][N] < cond.rhs + 1 /\ N \in Rows /\ value[c][N] \in Nat
        BY <2>1, <2>5, ValuesAre DEF AllBelow, Rows
      <4>2. ~ first < N
        BY <1>4, <2>1, <4>1, Strictly
      <4> QED BY <2>1, <4>2
    <3>3. first .. N = {first} /\ (first = 1 => Rows = {first})
      BY <2>1, <3>2 DEF Rows
    <3> QED BY <2>2, <2>4, <3>1, <3>3, SelectionIs DEF Between
  <2>6. CASE ~ AllBelow(c, cond.rhs + 1)
    <3>1. PICK p \in Positions(c, cond.rhs + 1) : end = p - 1
      BY <2>1, <2>3, <2>4, <2>6 DEF Ends, Bounded
    <3>2. p \in Rows /\ value[c][p] = cond.rhs + 1
      BY <2>3, <2>6, PositionsAre DEF Bounded
    <3>3. first < p /\ p \in Nat
      BY <1>4, <2>1, <3>2, Strictly DEF Rows
    <3>4. first .. p - 1 = {first}
      <4>1. \A q \in first .. p - 1 : q = first
        <5> SUFFICES ASSUME NEW q \in first .. p - 1, q # first PROVE FALSE
          OBVIOUS
        <5>1. q \in Rows /\ first < q /\ q < p
          BY <2>1, <3>2, <3>3 DEF Rows
        <5>2. value[c][first] < value[c][q] /\ value[c][q] < value[c][p]
          BY <1>4, <3>2, <5>1, Strictly
        <5> QED BY <1>4, <2>1, <3>2, <5>1, <5>2, ValuesAre
      <4> QED BY <2>1, <3>3, <4>1
    <3>5. end # 0 /\ ~ end < first
      BY <2>1, <3>1, <3>3
    <3> QED BY <2>2, <2>4, <3>1, <3>4, <3>5, SelectionIs DEF Between
  <2> QED BY <2>5, <2>6
<1> QED BY <1>2, <1>3, <1>4, PositionsAre

\* An equality throws only with a value that has no successor in the column.
LEMMA ThrowsIs ==
  ASSUME TypeOK, Sorted, NEW c \in Columns, kind[c] = "sorted",
         NEW rhs \in Constants, EqualThrows(c, rhs)
  PROVE  WithoutSuccessor(c, rhs)
<1> DEFINE temp == SmallestLarger(rhs)
<1>1. rhs \in Nat
  BY SessionAssumption
<1>2. temp \in Nat /\ (temp = rhs \/ temp > rhs)
  BY <1>1, LargerIs
<1> HIDE DEF temp
<1>3. PICK first \in Positions(c, rhs) \ {0} :
        \E end \in Ends(c, first, rhs) : 0 < end /\ end < first
  BY DEF EqualThrows
<1>4. first \in Rows /\ value[c][first] = rhs /\ Present(c, rhs)
  BY <1>3, PositionsAre
<1>5. PICK end \in Ends(c, first, rhs) : 0 < end /\ end < first
  BY <1>3
<1>6. ASSUME temp # rhs, Bounded(c, temp) PROVE FALSE
  <2>1. ~ AllBelow(c, temp)
    BY <1>5, <1>6 DEF Ends, temp
  <2>2. PICK p \in Positions(c, temp) : end = p - 1
    BY <1>5, <1>6, <2>1 DEF Ends, Bounded, temp
  <2>3. p \in Rows /\ value[c][p] = temp
    BY <1>6, <2>1, PositionsAre DEF Bounded
  <2>4. p \in Nat /\ first \in Nat
    BY <1>4, <2>3 DEF Rows
  <2>5. p <= first
    BY <1>5, <2>2, <2>4
  <2>6. value[c][p] <= value[c][first]
    <3>1. CASE p = first
      BY <1>1, <1>4, <3>1
    <3>2. CASE p < first
      BY <1>4, <2>3, <3>2 DEF Sorted, Ascending
    <3> QED BY <2>4, <2>5, <3>1, <3>2
  <2> QED BY <1>1, <1>2, <1>4, <1>6, <2>3, <2>6
<1> QED BY <1>4, <1>6 DEF WithoutSuccessor, temp

----------------------------------------------------------------------------
(* The scans *)

LEMMA OutcomeIs ==
  ASSUME NEW c \in Columns, NEW cond, NEW found \in Outcomes(c, cond)
  PROVE  /\ kind[c] = "plain" => found = PlainScan(c, cond)
         /\ kind[c] = "rle" => found = RLEScan(c, cond)
         /\ kind[c] = "bitmap" => found = BitmapScan(c, cond)
         /\ kind[c] = "sorted" => found \in SortedScan(c, cond)
BY DEF Outcomes

LEMMA OutcomeTyped ==
  ASSUME TypeOK, NEW c \in Columns, NEW cond, NEW found \in Outcomes(c, cond)
  PROVE  /\ found \in Source
         /\ found.pointer = source[c].pointer /\ found.cond = source[c].cond
         /\ found.finished = source[c].finished
<1>1. source[c] \in Source /\ kind[c] \in Kinds
  BY DEF TypeOK
<1>2. Reached(c, cond) \subseteq Rows /\ WithBitmap(c, RowsWith(c, cond)) \subseteq Rows
  BY ReachedIs, RowsOfTable DEF WithBitmap
<1>3. CASE kind[c] = "plain"
  <2>1. found = PlainScan(c, cond)
    BY <1>3, OutcomeIs
  <2> QED BY <1>1, <1>2, <1>3, <2>1 DEF PlainScan, Positioned, Source, Filters, Found
<1>4. CASE kind[c] = "sorted"
  <2>1. PICK range : /\ range \in Ranges(c, cond) \/ range = Nothing
                     /\ found = [source[c] EXCEPT !.triple = @ \/ range.triple,
                                                  !.matched = range.matched]
    <3>1. found \in SortedScan(c, cond)
      BY <1>4, OutcomeIs
    <3> QED BY <3>1 DEF SortedScan
  <2>2. range.triple \in BOOLEAN /\ range.matched \in Filters
    BY <2>1, RangesTyped, NothingTyped
  <2> QED BY <1>1, <2>1, <2>2 DEF Source
<1>5. CASE kind[c] = "rle"
  <2>1. Before(c) \in Filters
    BY <1>1 DEF Before, Source, Filters, Found
  <2>2. found = RLEScan(c, cond)
    BY <1>5, OutcomeIs
  <2> QED BY <1>1, <1>2, <1>5, <2>1, <2>2 DEF RLEScan, Positioned, Source, Filters
<1>6. CASE kind[c] = "bitmap"
  <2>1. found = BitmapScan(c, cond)
    BY <1>6, OutcomeIs
  <2> QED BY <1>1, <1>2, <1>6, <2>1 DEF BitmapScan, Positioned, Source, Filters, Found
<1> QED BY <1>1, <1>3, <1>4, <1>5, <1>6 DEF Kinds

LEMMA SortedOutcome ==
  ASSUME TypeOK, NEW c \in Columns, kind[c] = "sorted", NEW cond, NEW found \in Outcomes(c, cond)
  PROVE  \E range : /\ IF source[c].triple THEN range = Nothing ELSE range \in Ranges(c, cond)
                    /\ found.matched = range.matched
<1>1. source[c] \in Source
  BY DEF TypeOK
<1>2. PICK range : /\ IF source[c].triple THEN range = Nothing ELSE range \in Ranges(c, cond)
                   /\ found = [source[c] EXCEPT !.triple = @ \/ range.triple,
                                                !.matched = range.matched]
  <2>1. found \in SortedScan(c, cond)
    BY OutcomeIs
  <2> QED BY <2>1 DEF SortedScan
<1> QED BY <1>1, <1>2 DEF Source

LEMMA OutcomeExpected ==
  ASSUME TypeOK, Sorted, NEW c \in Columns, NEW cond \in Conditions, NEW found \in Outcomes(c, cond),
         source[c].firstCall, ~ source[c].triple, ~ source[c].made, Reliable(c, cond)
  PROVE  Selected(found.matched) = Expected(c, cond)
<1>1. source[c] \in Source /\ kind[c] \in Kinds
  BY DEF TypeOK
<1>2. Reached(c, cond) = RowsWith(c, cond)
  BY ReachedIs
<1>3. CASE kind[c] = "plain"
  <2>1. found = PlainScan(c, cond)
    BY <1>3, OutcomeIs
  <2> QED BY <1>1, <1>2, <1>3, <2>1 DEF PlainScan, Positioned, Source, Expected, Selected, Found
<1>4. CASE kind[c] = "sorted"
  <2>1. PICK range \in Ranges(c, cond) : found.matched = range.matched
    BY <1>4, SortedOutcome
  <2>2. Distinct(c) /\ Hit(c, cond)
    BY <1>4 DEF Reliable
  <2>3. cond.type \in Preds
    BY DEF Conditions
  <2>4. CASE cond.type = "GE"
    BY <1>4, <2>1, <2>2, <2>4, FromIs
  <2>5. CASE cond.type # "GE"
    <3>1. Expected(c, cond) = RowsWith(c, cond)
      BY <1>4, <2>5 DEF Expected
    <3> QED BY <1>4, <2>1, <2>2, <2>3, <2>5, <3>1, BelowIs, EqualIs DEF Preds
  <2> QED BY <2>4, <2>5
<1>5. CASE kind[c] = "rle"
  <2>1. found = RLEScan(c, cond)
    BY <1>5, OutcomeIs
  <2> QED BY <1>1, <1>2, <1>5, <2>1 DEF RLEScan, Positioned, Source, Before, Found, Expected, Selected
<1>6. CASE kind[c] = "bitmap"
  <2>1. found = BitmapScan(c, cond)
    BY <1>6, OutcomeIs
  <2> QED BY <1>1, <1>6, <2>1 DEF BitmapScan, Positioned, Source, Expected, Selected, Found
<1> QED BY <1>1, <1>3, <1>4, <1>5, <1>6 DEF Kinds

LEMMA OutcomeBounded ==
  ASSUME TypeOK, Sorted, NEW c \in Columns, NEW cond \in Conditions, NEW found \in Outcomes(c, cond),
         Upper(c, cond)
  PROVE  Selected(found.matched) \subseteq RowsWith(c, cond)
<1>1. source[c] \in Source /\ kind[c] \in Kinds
  BY DEF TypeOK
<1>2. CASE kind[c] = "plain"
  <2>1. Reached(c, cond) = RowsWith(c, cond)
    BY <1>2, ReachedIs DEF Upper
  <2>2. found = PlainScan(c, cond)
    BY <1>2, OutcomeIs
  <2> QED BY <1>1, <1>2, <2>1, <2>2 DEF PlainScan, Positioned, Source, Selected, Found
<1>3. CASE kind[c] = "sorted"
  <2>1. PICK range : /\ IF source[c].triple THEN range = Nothing ELSE range \in Ranges(c, cond)
                     /\ found.matched = range.matched
    BY <1>3, SortedOutcome
  <2>2. Distinct(c) /\ (cond.type = "LT" \/ (cond.type = "EQ" /\ Hit(c, cond)))
    BY <1>3 DEF Upper
  <2>3. CASE source[c].triple
    BY <2>1, <2>3, SelectionIs
  <2>4. CASE ~ source[c].triple
    BY <1>3, <2>1, <2>2, <2>4, BelowIs, EqualIs
  <2> QED BY <2>3, <2>4
<1>4. CASE kind[c] = "bitmap"
  <2>1. found = BitmapScan(c, cond)
    BY <1>4, OutcomeIs
  <2> QED BY <1>1, <1>4, <2>1 DEF BitmapScan, Positioned, Source, Selected, Found, WithBitmap
<1> QED BY <1>1, <1>2, <1>3, <1>4 DEF Kinds, Upper

\* What a column without an unfinished cursor reads: what all filters have selected.
LEMMA CombinedIs ==
  ASSUME TypeOK
  PROVE  Selected(Combined) = {p \in Rows : \A c \in Columns : p \in Selected(source[c].matched)}
<1>1. CASE \A c \in Columns : source[c].matched.complete
  BY <1>1 DEF Combined, Complete, Selected
<1>2. CASE ~ \A c \in Columns : source[c].matched.complete
  BY <1>2 DEF Combined, Found, Selected
<1> QED BY <1>1, <1>2

----------------------------------------------------------------------------
(* The library *)

Library == InitLibrary \/ Destroy \/ OpenDbTableByProj \/ CloseDbTable

LEMMA LibraryIs ==
  ASSUME IInv, Library
  PROVE  /\ phase = "idle" /\ (phase' = "idle" \/ (phase' = "crashed" /\ closed'))
         /\ NewHandle \/ (SameHandle /\ UNCHANGED opened)
         /\ UNCHANGED <<table, scanned, queries>>
         /\ LibraryShape'
BY DEF Library, InitLibrary, Destroy, OpenDbTableByProj, CloseDbTable, Initialised, IInv,
   TypeOK, LibraryShape

LEMMA LibraryTyped ==
  ASSUME IInv, Library
  PROVE  TypeOK'
<1>1. /\ NewHandle \/ (SameHandle /\ UNCHANGED opened)
      /\ UNCHANGED <<table, scanned, queries>>
      /\ phase' \in {"idle", "crashed"}
  BY LibraryIs
<1> DEFINE Handles ==
             /\ env \in {"none", "open", "closed"} /\ m_bInited \in BOOLEAN
             /\ opened \in BOOLEAN /\ closed \in BOOLEAN
<1>2. Handles'
  <2>1. Handles
    BY DEF IInv, TypeOK
  <2> QED BY <2>1 DEF Library, InitLibrary, Destroy, OpenDbTableByProj, CloseDbTable, Initialised
<1>3. opens' \in 0 .. MaxOpens
  <2>1. opens \in 0 .. MaxOpens
    BY DEF IInv, TypeOK
  <2>2. opens' = opens \/ (opens < MaxOpens /\ opens' = opens + 1)
    BY DEF Library, InitLibrary, Destroy, OpenDbTableByProj, CloseDbTable
  <2> QED BY <2>1, <2>2, SessionAssumption
<1>4. /\ source' \in [Columns -> Source]
      /\ used' \in BOOLEAN /\ named' \subseteq Columns /\ filtered' \in Nat /\ fresh' \in BOOLEAN
      /\ query' \in Queries /\ answer' \in [Columns -> SUBSET Rows] \cup {NoAnswer}
      /\ ~ opened' => \A c \in Columns : source'[c] = NewSource
  <2>1. CASE NewHandle
    BY <2>1, NewIsTyped, NoQueryTyped DEF NewHandle
  <2>2. CASE SameHandle /\ UNCHANGED opened
    BY <2>2 DEF SameHandle, IInv, TypeOK
  <2> QED BY <1>1, <2>1, <2>2
<1> QED BY <1>1, <1>2, <1>3, <1>4 DEF IInv, TypeOK, table

\* The answer stays that of the last query, and there is nothing to say of none.
LEMMA AnswersKept ==
  ASSUME IInv, UNCHANGED <<table, query, answer, fresh>>, phase' = "idle" => phase = "idle"
  PROVE  Answers'
<1>1. Answered' => Answered
  BY DEF Answered
<1> HIDE DEF Answered
<1>2. UNCHANGED kind /\ ReliableColumns' = ReliableColumns /\ \A D : Described(D)' = Described(D)
  BY TableFixed DEF table, ReliableColumns, Described
<1>3. FirstAnswerExact'
  BY <1>1, <1>2 DEF IInv, Answers, FirstAnswerExact
<1>4. NoTornRow'
  BY <1>1 DEF IInv, Answers, NoTornRow
<1>5. BoundsHold'
  BY <1>1, <1>2, TableFixed DEF IInv, Answers, BoundsHold
<1> QED BY <1>3, <1>4, <1>5 DEF Answers

LEMMA LibraryStep ==
  ASSUME IInv, Library
  PROVE  IInv'
<1>1. /\ phase = "idle" /\ (phase' = "idle" \/ (phase' = "crashed" /\ closed'))
      /\ NewHandle \/ (SameHandle /\ UNCHANGED opened)
      /\ UNCHANGED <<table, scanned, queries>>
      /\ LibraryShape'
  BY LibraryIs
<1>2. PhaseShape' /\ Sorted'
  BY <1>1 DEF IInv, PhaseShape, NewHandle, SameHandle, Sorted, table
<1>3. Traced'
  <2>1. CASE NewHandle
    BY <2>1 DEF NewHandle, NewSource, Found, Before, Traced
  <2>2. CASE SameHandle
    <3>1. \A c \in Columns : Before(c)' = Before(c)
      BY <2>2 DEF Before, SameHandle
    <3> QED BY <1>1, <2>2, <3>1 DEF IInv, PhaseShape, Named, Traced, SameHandle
  <2> QED BY <1>1, <2>1, <2>2
<1>4. Scans' /\ Pointed'
  BY <1>1 DEF Scans, BoundToQuery, FirstScan, BoundScan, IInv, Pointed, NewHandle, SameHandle,
     NewSource
<1>5. OneCursor'
  <2>1. CASE NewHandle
    <3>1. \A c \in Columns : source'[c].finished = FALSE
      BY <2>1 DEF NewHandle, NewSource
    <3> QED BY <2>1, <3>1 DEF OneCursor, NewHandle
  <2>2. CASE SameHandle
    BY <2>2 DEF IInv, OneCursor, SameHandle
  <2> QED BY <1>1, <2>1, <2>2
<1>6. Answers'
  <2>1. CASE NewHandle
    <3>1. DOMAIN answer' = {} /\ query' = NoQuery
      BY <2>1 DEF NewHandle, NoAnswer
    <3> QED BY <3>1 DEF Answers, FirstAnswerExact, NoTornRow, BoundsHold, Answered
  <2>2. CASE SameHandle
    BY <1>1, <2>2, AnswersKept DEF SameHandle
  <2> QED BY <1>1, <2>1, <2>2
<1>7. SafeClient'
  BY <1>1 DEF SafeClient
<1> QED BY <1>1, <1>2, <1>3, <1>4, <1>5, <1>6, <1>7, LibraryTyped DEF IInv

----------------------------------------------------------------------------
(* A query is asked *)

LEMMA QueriesAre ==
  ASSUME NEW q \in Queries
  PROVE  /\ DOMAIN q \subseteq Columns
         /\ \A c \in DOMAIN q : q[c] \in Conditions
BY DEF Queries

LEMMA BoundIs ==
  ASSUME TypeOK, NEW q \in Queries, NEW c \in Columns
  PROVE  /\ Bound(q)[c] \in Source
         /\ Bound(q)[c].firstCall = source[c].firstCall /\ Bound(q)[c].triple = source[c].triple
         /\ Bound(q)[c].made = source[c].made /\ Bound(q)[c].matched = source[c].matched
         /\ Bound(q)[c].finished = source[c].finished
         /\ c \in DOMAIN q => Bound(q)[c].pointer = "alive" /\ Bound(q)[c].cond = q[c]
         /\ c \notin DOMAIN q => Bound(q)[c] = source[c]
<1>1. source[c] \in Source
  BY DEF TypeOK
<1>2. c \in DOMAIN q => q[c] \in Conditions
  BY QueriesAre
<1> QED BY <1>1, <1>2 DEF Bound, Source, Pointers

LEMMA AskedTyped ==
  ASSUME IInv, NEW q \in Queries, QueryData(q) \/ QueryUnknownColumn(q)
  PROVE  TypeOK'
<1>1. source' \in [Columns -> Source]
  <2>1. source' = [c \in Columns |-> Bound(q)[c]]
    BY DEF QueryData, QueryUnknownColumn, Asked, Bound
  <2> QED BY <2>1, BoundIs DEF IInv
<1>2. queries' \in 0 .. MaxQueries
  BY SessionAssumption DEF QueryData, QueryUnknownColumn, Asked, IInv, TypeOK
<1>3. named' \subseteq Columns
  BY QueriesAre DEF QueryData, QueryUnknownColumn, IInv, TypeOK
<1>4. /\ phase' \in {"idle", "scan"} /\ used' \in BOOLEAN /\ fresh' \in BOOLEAN /\ opened
      /\ query' = q /\ answer' = NoAnswer
      /\ UNCHANGED <<table, handle, filtered, scanned>>
  BY DEF QueryData, QueryUnknownColumn, Asked, IInv, TypeOK
<1> QED BY <1>1, <1>2, <1>3, <1>4 DEF IInv, TypeOK, table, handle

LEMMA AskedStep ==
  ASSUME IInv, NEW q \in Queries, QueryData(q) \/ QueryUnknownColumn(q)
  PROVE  IInv'
<1>1. /\ phase = "idle" /\ opened /\ scanned = {}
      /\ fresh' = ~ used /\ source' = Bound(q) /\ query' = q /\ answer' = NoAnswer
      /\ UNCHANGED <<table, handle, filtered, scanned>>
  BY DEF QueryData, QueryUnknownColumn, Asked, IInv, PhaseShape
<1>2. \/ phase' = "scan" /\ UNCHANGED <<used, named>>
      \/ phase' = "idle" /\ used' = TRUE /\ named' = named \cup DOMAIN q
  BY <1>1 DEF QueryData, QueryUnknownColumn
<1>3. DOMAIN answer' = {}
  BY <1>1 DEF NoAnswer
<1>4. LibraryShape' /\ OneCursor' /\ Sorted'
  BY <1>1, BoundIs DEF IInv, LibraryShape, OneCursor, handle, Sorted, table
<1>5. PhaseShape'
  BY <1>1, <1>2, <1>3 DEF PhaseShape, IInv, TypeOK, handle
<1>6. Traced'
  <2> SUFFICES ASSUME NEW c \in Columns
               PROVE  /\ source'[c].pointer # "null" => Named(c)'
                      /\ ~ source'[c].firstCall \/ Before(c)'.rows # {} => c \in named'
    BY DEF Traced
  <2>1. /\ source[c].pointer # "null" => c \in named
        /\ ~ source[c].firstCall \/ Before(c).rows # {} => c \in named
    BY <1>1 DEF IInv, Traced, Named
  <2>2. Before(c)' = Before(c)
    BY <1>1, BoundIs DEF IInv, Before
  <2> QED BY <1>1, <1>2, <2>1, <2>2, BoundIs DEF IInv, Named
<1>7. BoundToQuery'
  BY <1>1, QueriesAre, BoundIs DEF IInv, BoundToQuery
<1>8. FirstScan'
  <2> SUFFICES ASSUME NEW c \in Columns, phase' = "scan", fresh'
               PROVE  /\ ~ source'[c].finished /\ source'[c].firstCall
                      /\ ~ source'[c].triple /\ ~ source'[c].made
                      /\ c \notin DOMAIN q => source'[c].pointer = "null"
    BY <1>1 DEF FirstScan
  <2>1. source[c] = NewSource
    BY <1>1 DEF IInv, PhaseShape
  <2> QED BY <1>1, <2>1, BoundIs DEF IInv, NewSource
<1>9. BoundScan'
  BY <1>1 DEF BoundScan
<1>10. Answers'
  BY <1>3 DEF Answers, FirstAnswerExact, NoTornRow, BoundsHold, Answered
<1>11. SafeClient'
  BY <1>2 DEF SafeClient
<1>12. Pointed'
  BY <1>1, QueriesAre, BoundIs DEF IInv, Pointed
<1> QED BY <1>4, <1>5, <1>6, <1>7, <1>8, <1>9, <1>10, <1>11, <1>12, AskedTyped DEF IInv, Scans

----------------------------------------------------------------------------
(* A column is scanned *)

\* It ends the process only over what an earlier query has left, or for want of the
\* next larger value.
Again(c, cond) == kind[c] = "rle" \/ (kind[c] = "bitmap" /\ cond.type = "EQ")
Endless(c, cond) == kind[c] = "sorted" /\ cond.type = "EQ" /\ WithoutSuccessor(c, cond.rhs)
ScanCrashes(c) ==
  /\ phase' = "crashed" /\ UNCHANGED <<source, scanned>>
  /\ \/ c \in named /\ (c \notin DOMAIN query \/ Again(c, query[c]))
     \/ c \in DOMAIN query /\ Endless(c, query[c])
ScanFinds(c) ==
  /\ UNCHANGED phase /\ scanned' = scanned \cup {c}
  /\ \/ /\ source[c].pointer = "null"
        /\ source' = [source EXCEPT ![c].matched = Complete, ![c].made = TRUE]
     \/ /\ source[c].pointer # "null"
        /\ \E cond \in Conditions :
             /\ c \in DOMAIN query => cond = query[c]
             /\ \E found \in Outcomes(c, cond) : source' = [source EXCEPT ![c] = found]

LEMMA ThrownOver ==
  ASSUME IInv, NEW c \in Columns, c \notin scanned, NEW cond \in Conditions, Throws(c, cond)
  PROVE  (c \in named /\ Again(c, cond)) \/ Endless(c, cond)
<1>1. kind[c] \in Kinds /\ kind[c] # "plain" /\ cond.rhs \in Constants
  BY DEF Throws, Conditions, IInv, TypeOK
<1>2. CASE kind[c] = "sorted"
  BY <1>1, <1>2, ThrowsIs DEF Throws, Endless, IInv
<1>3. CASE kind[c] # "sorted"
  <2>1. /\ ~ source[c].firstCall \/ Before(c).rows # {}
        /\ Again(c, cond)
    BY <1>1, <1>3 DEF Throws, DupThrows, Kinds, Again
  <2> QED BY <2>1 DEF IInv, Traced
<1> QED BY <1>2, <1>3

LEMMA ScanIs ==
  ASSUME IInv, NEW c \in Columns, ScanColumn(c)
  PROVE  /\ phase = "scan" /\ c \notin scanned
         /\ UNCHANGED <<table, handle, query, answer, history>>
         /\ ScanCrashes(c) \/ ScanFinds(c)
<1>1. /\ phase = "scan" /\ c \notin scanned
      /\ UNCHANGED <<table, handle, query, answer, history>>
  BY DEF ScanColumn
<1>2. c \in DOMAIN query => source[c].pointer = "alive" /\ source[c].cond = query[c]
  BY <1>1 DEF IInv, Scans, BoundToQuery
<1>3. CASE ScanWithoutPredicate(c)
  BY <1>1, <1>3 DEF ScanWithoutPredicate, ScanFinds
<1>4. ASSUME NEW cond \in Conditions, GetPosOnPred(c, cond), source[c].pointer # "null",
             c \in DOMAIN query => cond = query[c], c \in DOMAIN query \/ c \in named
      PROVE  ScanCrashes(c) \/ ScanFinds(c)
  <2>1. CASE Throws(c, cond) /\ phase' = "crashed" /\ UNCHANGED <<source, scanned>>
    BY <1>1, <1>4, <2>1, ThrownOver DEF ScanCrashes
  <2>2. CASE /\ \E found \in Outcomes(c, cond) : source' = [source EXCEPT ![c] = found]
             /\ scanned' = scanned \cup {c} /\ UNCHANGED phase
    BY <1>4, <2>2 DEF ScanFinds
  <2> QED BY <1>4, <2>1, <2>2 DEF GetPosOnPred
<1>5. CASE ScanPredicate(c)
  <2>1. source[c].pointer = "alive" /\ GetPosOnPred(c, source[c].cond)
    BY <1>5 DEF ScanPredicate
  <2>2. c \in DOMAIN query \/ c \in named
    BY <2>1 DEF IInv, Traced, Named
  <2>3. PICK cond \in Conditions : cond = source[c].cond /\ GetPosOnPred(c, cond)
    BY <2>1 DEF IInv, Pointed
  <2>4. source[c].pointer # "null" /\ (c \in DOMAIN query => cond = query[c])
    BY <1>2, <2>1, <2>3
  <2> QED BY <1>1, <1>4, <2>2, <2>3, <2>4
<1>6. CASE ScanDangling(c)
  <2>1. c \in named /\ c \notin DOMAIN query
    BY <1>2, <1>6 DEF ScanDangling, IInv, Traced, Named
  <2>2. CASE phase' = "crashed" /\ UNCHANGED <<source, scanned>>
    BY <1>1, <2>1, <2>2 DEF ScanCrashes
  <2>3. ASSUME NEW cond \in Conditions, GetPosOnPred(c, cond) PROVE ScanCrashes(c) \/ ScanFinds(c)
    BY <1>4, <1>6, <2>1, <2>3 DEF ScanDangling
  <2> QED BY <1>1, <1>6, <2>2, <2>3 DEF ScanDangling
<1> QED BY <1>1, <1>3, <1>5, <1>6 DEF ScanColumn

\* What the scan of c leaves of the data sources.
LEMMA FindsIs ==
  ASSUME IInv, NEW c \in Columns, ScanFinds(c)
  PROVE  /\ source' \in [Columns -> Source]
         /\ \A d \in Columns \ {c} : source'[d] = source[d]
         /\ source'[c].pointer = source[c].pointer /\ source'[c].cond = source[c].cond
         /\ source'[c].finished = source[c].finished
         /\ source[c].pointer = "null" =>
              /\ source'[c].matched = Complete
              /\ source'[c].firstCall = source[c].firstCall
         /\ source[c].pointer # "null" =>
              \E cond \in Conditions : /\ c \in DOMAIN query => cond = query[c]
                                      /\ source'[c] \in Outcomes(c, cond)
<1>1. source \in [Columns -> Source]
  BY DEF IInv, TypeOK
<1>2. CASE source[c].pointer = "null"
  <2>1. Complete \in Filters
    BY DEF Complete, Filters
  <2> QED BY <1>1, <1>2, <2>1 DEF ScanFinds, Source
<1>3. CASE source[c].pointer # "null"
  <2>1. PICK cond \in Conditions :
          /\ c \in DOMAIN query => cond = query[c]
          /\ \E found \in Outcomes(c, cond) : source' = [source EXCEPT ![c] = found]
    BY <1>3 DEF ScanFinds
  <2>2. PICK found \in Outcomes(c, cond) : source' = [source EXCEPT ![c] = found]
    BY <2>1
  <2>3. /\ found \in Source
        /\ found.pointer = source[c].pointer /\ found.cond = source[c].cond
        /\ found.finished = source[c].finished
    BY OutcomeTyped DEF IInv
  <2>4. source'[c] = found /\ \A d \in Columns \ {c} : source'[d] = source[d]
    BY <1>1, <2>2
  <2> QED BY <1>1, <1>3, <2>1, <2>2, <2>3, <2>4
<1> QED BY <1>2, <1>3

LEMMA CrashStep ==
  ASSUME IInv, NEW c \in Columns, ScanColumn(c), ScanCrashes(c)
  PROVE  IInv'
<1>1. /\ phase' = "crashed" /\ phase = "scan"
      /\ UNCHANGED <<table, handle, query, answer, history, source, scanned>>
      /\ \/ c \in named /\ (c \notin DOMAIN query \/ Again(c, query[c]))
         \/ c \in DOMAIN query /\ Endless(c, query[c])
  BY ScanIs DEF ScanCrashes
<1>2. UNCHANGED <<kind, value, indexed, env, m_bInited, opened, opens, closed, used, named, fresh,
                  filtered, queries>>
  BY <1>1 DEF table, handle, history
<1>3. TypeOK' /\ Sorted' /\ LibraryShape' /\ PhaseShape' /\ Pointed' /\ OneCursor'
  BY <1>1, <1>2 DEF IInv, TypeOK, Sorted, LibraryShape, PhaseShape, Pointed, OneCursor
<1>4. \A d : Before(d)' = Before(d)
  BY <1>1 DEF Before
<1>5. Traced' /\ Scans'
  BY <1>1, <1>2, <1>4 DEF IInv, Traced, Named, Scans, BoundToQuery, FirstScan, BoundScan
<1>6. Answers'
  BY <1>1, <1>2, AnswersKept
<1>7. SafeClient'
  <2>1. \A d, rhs : WithoutSuccessor(d, rhs)' = WithoutSuccessor(d, rhs)
    BY <1>2 DEF WithoutSuccessor, Present, Bounded, AllBelow
  <2>2. CASE c \in named \ DOMAIN query
    BY <1>2, <1>1, <2>2 DEF SafeClient
  <2>3. CASE c \in named \cap DOMAIN query /\ Again(c, query[c])
    BY <1>2, <1>1, <2>3 DEF SafeClient, Again
  <2>4. CASE c \in DOMAIN query /\ Endless(c, query[c])
    BY <1>2, <1>1, <2>1, <2>4 DEF SafeClient, Endless
  <2> QED BY <1>1, <2>2, <2>3, <2>4
<1> QED BY <1>3, <1>5, <1>6, <1>7 DEF IInv

LEMMA ScanStep ==
  ASSUME IInv, NEW c \in Columns, ScanColumn(c)
  PROVE  IInv'
<1>1. CASE ScanCrashes(c)
  BY <1>1, CrashStep
<1> SUFFICES ASSUME ScanFinds(c) PROVE IInv'
  BY <1>1, ScanIs
<1>2. /\ phase = "scan" /\ phase' = "scan" /\ c \notin scanned /\ scanned' = scanned \cup {c}
      /\ UNCHANGED <<table, handle, query, answer, history>>
  BY ScanIs DEF ScanFinds
<1>3. UNCHANGED <<kind, value, indexed, env, m_bInited, opened, opens, closed, used, named, fresh,
                  filtered, queries>>
  BY <1>2 DEF table, handle, history
<1>4. /\ source' \in [Columns -> Source]
      /\ \A d \in Columns \ {c} : source'[d] = source[d]
      /\ source'[c].pointer = source[c].pointer /\ source'[c].cond = source[c].cond
      /\ source'[c].finished = source[c].finished
  BY FindsIs
<1>5. TypeOK' /\ Sorted' /\ LibraryShape' /\ PhaseShape' /\ Pointed'
  <2>1. TypeOK' /\ Sorted' /\ LibraryShape' /\ PhaseShape'
    BY <1>2, <1>3, <1>4 DEF IInv, TypeOK, Sorted, LibraryShape, PhaseShape
  <2>2. \A d \in Columns : source'[d].pointer = source[d].pointer /\ source'[d].cond = source[d].cond
    BY <1>4
  <2> QED BY <2>1, <2>2 DEF IInv, Pointed
<1>6. OneCursor'
  BY <1>3, <1>4 DEF IInv, OneCursor
<1>7. BoundToQuery'
  <2>1. \A d \in Columns : source'[d].pointer = source[d].pointer /\ source'[d].cond = source[d].cond
    BY <1>4
  <2>2. DOMAIN query \subseteq Columns
    BY QueriesAre DEF IInv, TypeOK
  <2> QED BY <1>2, <2>1, <2>2 DEF IInv, Scans, BoundToQuery
<1>8. FirstScan'
  <2> SUFFICES ASSUME fresh, NEW d \in Columns
               PROVE  /\ ~ source'[d].finished
                      /\ d \notin scanned' =>
                           /\ source'[d].firstCall /\ ~ source'[d].triple /\ ~ source'[d].made
                           /\ d \notin DOMAIN query => source'[d].pointer = "null"
                      /\ d \in scanned' =>
                           /\ d \notin DOMAIN query => source'[d].matched = Complete
                           /\ d \in ReliableColumns =>
                                Selected(source'[d].matched) = Expected(d, query[d])
    BY <1>2, <1>3, TableFixed DEF FirstScan, ReliableColumns, Selected
  <2>1. CASE d # c
    BY <1>2, <1>4, <2>1 DEF IInv, Scans, FirstScan
  <2>2. CASE d = c
    <3>1. /\ ~ source[c].finished /\ source[c].firstCall /\ ~ source[c].triple /\ ~ source[c].made
          /\ c \notin DOMAIN query => source[c].pointer = "null"
          /\ c \in DOMAIN query => source[c].pointer = "alive"
      BY <1>2 DEF IInv, Scans, FirstScan, BoundToQuery
    <3>2. CASE c \in DOMAIN query
      <4>1. query[c] \in Conditions /\ source'[c] \in Outcomes(c, query[c])
        BY <3>1, <3>2, FindsIs
      <4>2. Reliable(c, query[c]) => Selected(source'[c].matched) = Expected(c, query[c])
        BY <3>1, <4>1, OutcomeExpected DEF IInv
      <4> QED BY <1>2, <1>4, <2>2, <3>1, <3>2, <4>2 DEF ReliableColumns
    <3>3. CASE c \notin DOMAIN query
      BY <1>2, <1>4, <2>2, <3>1, <3>3, FindsIs DEF ReliableColumns
    <3> QED BY <3>2, <3>3
  <2> QED BY <2>1, <2>2
<1>9. BoundScan'
  <2> SUFFICES ASSUME NEW d \in scanned' \cap DOMAIN query, Upper(d, query[d])
               PROVE  Selected(source'[d].matched) \subseteq RowsWith(d, query[d])
    BY <1>2, <1>3, TableFixed DEF BoundScan, Selected
  <2>1. CASE d # c
    BY <1>2, <1>4, <2>1 DEF IInv, TypeOK, Scans, BoundScan
  <2>2. CASE d = c
    <3>1. source[c].pointer = "alive"
      BY <1>2, <2>2 DEF IInv, Scans, BoundToQuery
    <3>2. query[c] \in Conditions /\ source'[c] \in Outcomes(c, query[c])
      BY <2>2, <3>1, FindsIs
    <3> QED BY <2>2, <3>2, OutcomeBounded DEF IInv
  <2> QED BY <2>1, <2>2
<1>10. Traced'
  <2> SUFFICES ASSUME NEW d \in Columns
               PROVE  /\ source'[d].pointer # "null" => Named(d)
                      /\ ~ source'[d].firstCall \/ Before(d)'.rows # {} =>
                           d \in named \/ (Named(d) /\ d \in scanned')
    BY <1>2, <1>3 DEF Traced, Named
  <2>1. CASE d # c
    <3>1. source'[d] = source[d]
      BY <1>4, <2>1
    <3>2. Before(d)' = Before(d)
      BY <3>1 DEF Before
    <3> QED BY <1>2, <3>1, <3>2 DEF IInv, Traced
  <2>2. CASE d = c
    <3>1. CASE source[c].pointer = "null"
      <4>1. Before(c)'.rows = {}
        BY <3>1, FindsIs DEF Before, Found, Complete
      <4> QED BY <1>2, <1>4, <2>2, <3>1, <4>1, FindsIs DEF IInv, Traced
    <3>2. CASE source[c].pointer # "null"
      BY <1>2, <1>4, <2>2, <3>2 DEF IInv, Traced
    <3> QED BY <3>1, <3>2
  <2> QED BY <2>1, <2>2
<1>11. Answers'
  BY <1>2, <1>3, AnswersKept
<1>12. SafeClient'
  BY <1>2 DEF SafeClient
<1> QED BY <1>5, <1>6, <1>7, <1>8, <1>9, <1>10, <1>11, <1>12 DEF IInv, Scans

----------------------------------------------------------------------------
(* The query is answered *)

LEMMA ReadsAre ==
  ASSUME IInv, NEW c \in Columns
  PROVE  /\ Reads(c) \subseteq Selected(Combined)
         /\ ~ source[c].finished => Reads(c) = Selected(Combined)
         /\ Selected(Combined) \subseteq Rows
         /\ \A d \in Columns : Reads(d) = Reads(c)
         /\ \A d \in Columns : Selected(Combined) \subseteq Selected(source[d].matched)
BY CombinedIs DEF Reads, IInv, OneCursor

LEMMA KeptIs ==
  ASSUME IInv, NEW c \in Columns
  PROVE  LET now == Freed(query, [d \in Columns |-> Kept(d)])[c]
         IN  /\ now \in Source
             /\ now.firstCall = source[c].firstCall /\ now.finished = Finished(c)
             /\ now.made = source[c].made
             /\ now.matched = source[c].matched \/ now.matched = Found({})
             /\ now.pointer = "null" <=> c \notin DOMAIN query /\ source[c].pointer = "null"
             /\ now.pointer = "alive" => source[c].pointer = "alive" /\ now.cond = source[c].cond
<1>1. source[c] \in Source
  BY DEF IInv, TypeOK
<1>2. Finished(c) \in BOOLEAN /\ Found({}) \in Filters
  BY <1>1 DEF Finished, Proper, Source, Found, Filters
<1>3. /\ Kept(c) \in Source
      /\ Kept(c).firstCall = source[c].firstCall /\ Kept(c).finished = Finished(c)
      /\ Kept(c).made = source[c].made /\ Kept(c).pointer = source[c].pointer
      /\ Kept(c).cond = source[c].cond
      /\ Kept(c).matched = source[c].matched \/ Kept(c).matched = Found({})
  BY <1>1, <1>2 DEF Kept, Source
<1> QED BY <1>3 DEF Freed, Source, Pointers

LEMMA AnswerStep ==
  ASSUME IInv, AnswerQuery
  PROVE  IInv'
<1>1. /\ phase = "scan" /\ phase' = "idle" /\ scanned = Columns /\ scanned' = {}
      /\ answer' = [c \in Columns |-> Reads(c)]
      /\ source' = [c \in Columns |-> Freed(query, [d \in Columns |-> Kept(d)])[c]]
      /\ used' = TRUE /\ named' = named \cup DOMAIN query
      /\ UNCHANGED <<table, handle, query, fresh, queries>>
  BY DEF AnswerQuery, Freed
<1>2. UNCHANGED <<kind, value, indexed, env, m_bInited, opened, opens, closed>> /\ opened
  BY <1>1 DEF table, handle, IInv, PhaseShape
<1>3. DOMAIN query \subseteq Columns
  BY QueriesAre DEF IInv, TypeOK
<1>4. OneCursor' /\ filtered' \in Nat
  <2>1. \A c \in Columns : source'[c].finished = Finished(c)
    BY <1>1, KeptIs
  <2>2. \A c, d \in Columns : Finished(c) = Finished(d)
    BY DEF Finished, IInv, OneCursor
  <2>3. CASE Proper(Combined) /\ \E c \in Columns : Reads(c) # {}
    <3>1. PICK c \in Columns : ~ source[c].finished
      BY <2>3 DEF Reads
    <3>2. filtered = 0 /\ filtered' = 1
      BY <2>3, <3>1 DEF AnswerQuery, IInv, OneCursor
    <3> QED BY <2>1, <2>2, <2>3, <3>2 DEF OneCursor, Finished
  <2>4. CASE ~ (Proper(Combined) /\ \E c \in Columns : Reads(c) # {})
    <3>1. filtered' = filtered
      BY <2>4 DEF AnswerQuery
    <3> QED BY <2>1, <2>2, <3>1 DEF OneCursor, Finished, IInv, TypeOK
  <2> QED BY <2>3, <2>4
<1>5. TypeOK'
  <2>1. source' \in [Columns -> Source]
    BY <1>1, KeptIs
  <2>2. answer' \in [Columns -> SUBSET Rows]
    BY <1>1, ReadsAre
  <2> QED BY <1>1, <1>2, <1>3, <1>4, <2>1, <2>2 DEF IInv, TypeOK
<1>6. Sorted' /\ LibraryShape' /\ PhaseShape' /\ Pointed' /\ Scans' /\ SafeClient'
  <2>1. Pointed'
    BY <1>1, KeptIs DEF IInv, Pointed
  <2> QED BY <1>1, <1>2, <2>1 DEF IInv, Sorted, LibraryShape, PhaseShape, Scans, BoundToQuery,
          FirstScan, BoundScan, SafeClient
<1>7. Traced'
  <2> SUFFICES ASSUME NEW c \in Columns
               PROVE  /\ source'[c].pointer # "null" => c \in named'
                      /\ ~ source'[c].firstCall \/ Before(c)'.rows # {} => c \in named'
    BY DEF Traced, Named
  <2>1. Before(c)'.rows # {} => Before(c).rows # {}
    <3>1. /\ source'[c].made = source[c].made
          /\ source'[c].matched = source[c].matched \/ source'[c].matched = Found({})
      BY <1>1, KeptIs
    <3> QED BY <3>1 DEF Before, Found
  <2>2. /\ source[c].pointer # "null" => Named(c)
        /\ ~ source[c].firstCall \/ Before(c).rows # {} => Named(c)
    BY DEF IInv, Traced, Named
  <2> QED BY <1>1, <2>1, <2>2, KeptIs DEF Named
<1>8. FirstAnswerExact'
  <2>1. ReliableColumns' = ReliableColumns /\ \A D : Described(D)' = Described(D)
    BY <1>1, TableFixed DEF ReliableColumns, Described
  <2> SUFFICES ASSUME fresh, NEW c \in Columns
               PROVE  /\ Reads(c) \subseteq Described(ReliableColumns)
                      /\ ReliableColumns = DOMAIN query => Reads(c) = Described(DOMAIN query)
    BY <1>1, <2>1 DEF FirstAnswerExact
  <2>2. ~ source[c].finished
    BY <1>1 DEF IInv, Scans, FirstScan
  <2>3. Reads(c) = {p \in Rows : \A d \in Columns : p \in Selected(source[d].matched)}
    BY <2>2, ReadsAre, CombinedIs DEF IInv
  <2>4. \A d \in ReliableColumns : Selected(source[d].matched) = Expected(d, query[d])
    BY <1>1, <1>3 DEF IInv, Scans, FirstScan, ReliableColumns
  <2>5. \A d \in Columns \ DOMAIN query : Selected(source[d].matched) = Rows
    BY <1>1 DEF IInv, Scans, FirstScan, Selected, Complete
  <2>6. ReliableColumns \subseteq Columns
    BY <1>3 DEF ReliableColumns
  <2> QED BY <1>3, <2>3, <2>4, <2>5, <2>6 DEF Described
<1>9. NoTornRow'
  BY <1>1, ReadsAre DEF NoTornRow
<1>10. BoundsHold'
  <2> SUFFICES ASSUME NEW c \in DOMAIN query, Upper(c, query[c]), NEW d \in Columns
               PROVE  Reads(d) \subseteq RowsWith(c, query[c])
    BY <1>1, <1>2, TableFixed DEF BoundsHold
  <2>1. Selected(source[c].matched) \subseteq RowsWith(c, query[c])
    BY <1>1, <1>3 DEF IInv, Scans, BoundScan
  <2> QED BY <1>3, <2>1, ReadsAre
<1> QED BY <1>4, <1>5, <1>6, <1>7, <1>8, <1>9, <1>10 DEF IInv, Answers

----------------------------------------------------------------------------
(* Theorems *)

LEMMA InvariantInit == Init => IInv
<1> SUFFICES ASSUME Init PROVE IInv
  OBVIOUS
<1>1. DOMAIN answer = {} /\ \A c \in Columns : source[c] = NewSource
  BY DEF Init, NoAnswer
<1>2. TypeOK
  <2>1. query \in Queries
    BY NoQueryTyped DEF Init
  <2>2. source \in [Columns -> Source]
    BY NewIsTyped DEF Init
  <2>3. queries \in 0 .. MaxQueries /\ opens \in 0 .. MaxOpens /\ filtered \in Nat
    BY SessionAssumption DEF Init
  <2> QED BY <1>1, <2>1, <2>2, <2>3 DEF Init, TypeOK
<1>3. Traced
  BY <1>1 DEF Traced, NewSource, Before, Found
<1>4. Sorted /\ Pointed
  BY <1>1 DEF Init, Sorted, Pointed, NewSource
<1> QED BY <1>1, <1>2, <1>3, <1>4
        DEF Init, IInv, LibraryShape, PhaseShape, Scans, BoundToQuery, FirstScan, BoundScan,
            OneCursor, NewSource, Answers, FirstAnswerExact, NoTornRow, BoundsHold, Answered,
            SafeClient

LEMMA InvariantStep == IInv /\ [Next]_vars => IInv'
<1> SUFFICES ASSUME IInv, [Next]_vars PROVE IInv'
  OBVIOUS
<1>1. CASE UNCHANGED vars
  <2>1. UNCHANGED <<kind, value, indexed, env, m_bInited, opened, opens, closed, source, phase, query,
                    scanned, answer, used, named, fresh, filtered, queries>>
    BY <1>1 DEF vars, table, handle, history
  <2>2. /\ TypeOK' /\ Sorted' /\ LibraryShape' /\ PhaseShape' /\ Pointed' /\ OneCursor'
        /\ SafeClient'
    BY <2>1 DEF IInv, TypeOK, Sorted, LibraryShape, PhaseShape, Pointed, OneCursor, SafeClient,
       WithoutSuccessor, Present, Bounded, AllBelow
  <2>3. Traced'
    BY <2>1 DEF IInv, Traced, Named, Before
  <2>4. Scans'
    BY <1>1, <2>1, TableFixed DEF vars, IInv, Scans, BoundToQuery, FirstScan, BoundScan, Selected,
       ReliableColumns
  <2>5. Answers'
    BY <1>1, <2>1, AnswersKept DEF vars
  <2> QED BY <2>2, <2>3, <2>4, <2>5 DEF IInv
<1> QED BY <1>1, LibraryStep, AskedStep, ScanStep, AnswerStep DEF Next, Ask, Library

LEMMA Invariant == Spec => []IInv
BY InvariantInit, InvariantStep, PTL DEF Spec

\* What each variable ranges over; a table without a handle has no data source that
\* was used (LRCSQuery.cpp:41-61, 136-145).
THEOREM TypeCorrect == Spec => []TypeOK
<1>1. IInv => TypeOK
  BY DEF IInv
<1> QED BY <1>1, Invariant, PTL

\* The first query of a handle is answered with the rows its conditions describe,
\* whatever was asked of the handles before it: exactly those, if the bounds of the
\* ranges on sorted columns are among their values, and with no others than those
\* of the conditions of which this can be said; a bitmap column finds the values
\* that have a bitmap (DataSource.cpp:244-318, LRCSQueryImpl.cpp:72-140).
THEOREM FirstIsExact == Spec => []FirstAnswerExact
<1>1. IInv => FirstAnswerExact
  BY DEF IInv, Answers
<1> QED BY <1>1, Invariant, PTL

\* Of any query of a handle: its rows are not torn, it is the only one that is
\* answered with the rows of a filter, and it does not exceed its equalities and
\* upper bounds, on a sorted column those whose range ends where its values tell
\* (DataSource.cpp:171, 273-302, LRCSQueryImpl.cpp:140).
THEOREM LaterAreBounded == Spec => []LaterAnswers
<1>1. IInv => LaterAnswers
  BY DEF IInv, Answers, OneCursor, LaterAnswers, OneFilteredAnswer, TypeOK
<1> QED BY <1>1, Invariant, PTL

\* The process ends only on a client that left out a column it had named, named a
\* run-length column again or a bitmap column again in an equality, asked a sorted
\* column for a value without a successor, or went on after Destroy
\* (LRCSQuery.cpp:186-190, RLEDataSource.cpp:75, 99, BitmapDataSource.cpp:73-77,
\* DataSource.cpp:273-286, BDBEnv.cpp:36).
THEOREM ClientIsSafe == Spec => []SafeClient
<1>1. IInv => SafeClient
  BY DEF IInv
<1> QED BY <1>1, Invariant, PTL

=============================================================================
