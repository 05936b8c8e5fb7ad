---------------------------- MODULE SortedColumn ----------------------------
(***************************************************************************)
(* A column sorted by value: PagePlacer::writePage builds its two indexes, *)
(* page by page, and DataSource::getPosOnPredValueSorted answers a         *)
(* predicate with one range of positions, from a lookup in the index of    *)
(* values, a binary search on a page, and the last position.               *)
(*                                                                         *)
(* A value is a string of two bytes, written as a number whose digits are  *)
(* the bytes; the order of the strings is the order of the numbers.        *)
(***************************************************************************)
EXTENDS Naturals, FiniteSets

CONSTANTS
  N,         \* rows: positions 1 .. N
  MaxByte    \* the largest byte, 0xFF in the program

ASSUME SortedAssumption ==
  N \in Nat \ {0} /\ MaxByte \in Nat \ {0}

Rows   == 1 .. N
Base   == MaxByte + 1
Values == 0 .. Base * Base - 1
NoValue == Base * Base

\* The last byte that is not the largest one is increased by one; those behind it
\* stay, and a string of largest bytes is returned as it is.
SmallestLarger(v) ==
  IF v % Base # MaxByte THEN v + 1
  ELSE IF v \div Base # MaxByte THEN v + Base
  ELSE v

Preds == {"LT", "LE", "EQ", "GE", "GT"}
Satisfies(v, pred, rhs) ==
  CASE pred = "LT" -> v < rhs  [] pred = "LE" -> v <= rhs [] pred = "EQ" -> v = rhs
    [] pred = "GE" -> v >= rhs [] pred = "GT" -> v > rhs

\* posOutTripleOnPred: a first position and a number of repetitions.  What lies
\* behind the last row is one position, N + 1.
NullTriple == [start |-> 0, reps |-> 0]
Triples == [start : 0 .. N, reps : 0 .. N + 1]

VARIABLES
  column,        \* the values of the rows, ascending
  ends,          \* the last positions of the pages StringEncoder cuts it into
  primary,       \* those of the pages that are written
  secondary,     \* the index of values: where the page of an end value ends
  lastSecondaryValue,
  triple,        \* posOutTripleOnPred
  complete,      \* matchedPredPos is the complete set
  matched,       \* the positions in it
  state,         \* "build", "ready", "answered", "spent", "thrown"
  asked          \* the predicate that was answered

layout == <<column, ends>>
index  == <<primary, secondary, lastSecondaryValue>>
source == <<triple, complete, matched>>
vars == <<layout, index, source, state, asked>>

Ascending == \A p, q \in Rows : p < q => column[p] <= column[q]

Init ==
  /\ column \in [Rows -> Values] /\ Ascending
  /\ ends \in SUBSET Rows /\ N \in ends
  /\ primary = {} /\ secondary = [v \in {} |-> 0] /\ lastSecondaryValue = NoValue
  /\ triple = NullTriple /\ complete = FALSE /\ matched = {}
  /\ state = "build" /\ asked = [pred |-> "EQ", rhs |-> 0]

----------------------------------------------------------------------------
(* The indexes *)

UseSecondaryAlways(e) == TRUE  \* variant: every page is entered, over the one before
\* The first page of an end value is entered into the index of values.
UseSecondary(e) == column[e] # lastSecondaryValue

WritePage(e) ==
  /\ state = "build"
  /\ e \in ends \ primary /\ \A f \in ends \ primary : e <= f
  /\ primary' = primary \cup {e}
  /\ IF UseSecondary(e)
       THEN /\ secondary' = [v \in DOMAIN secondary \cup {column[e]} |->
                               IF v = column[e] THEN e ELSE secondary[v]]
            /\ lastSecondaryValue' = column[e]
       ELSE UNCHANGED <<secondary, lastSecondaryValue>>
  /\ state' = IF e = N THEN "ready" ELSE "build"
  /\ UNCHANGED <<layout, source, asked>>

\* skipToPageSecondary: DB_SET_RANGE lands on the least entry from the key on; the
\* pages found, which is one or none.
Landed(key) ==
  {secondary[v] : v \in {w \in DOMAIN secondary :
     w >= key /\ \A u \in DOMAIN secondary : u >= key => w <= u}}

PageStart(e) == 1 + (CHOOSE s \in {0} \cup primary :
                       s < e /\ \A f \in {0} \cup primary : f < e => f <= s)

\* biSearch on the rows begin .. last; 0 when the value is not there.  No value is
\* returned on the way back from the inner call: the result of that call is still
\* where a result is looked for, and stands.
BiSearchIn(key) ==
  LET search[range \in (1 .. N + 1) \X (0 .. N)] ==
        LET mid == (range[1] + range[2]) \div 2
        IN  IF range[1] > range[2] THEN 0
            ELSE IF column[mid] = key THEN mid
            ELSE search[IF key < column[mid] THEN <<range[1], mid - 1>>
                                             ELSE <<mid + 1, range[2]>>]
  IN  search

BiSearch(e, key) == BiSearchIn(key)[<<PageStart(e), e>>]

----------------------------------------------------------------------------
(* The range of a predicate *)

HasPage(key) == Landed(key) # {}
Position(key) ==
  IF HasPage(key) THEN BiSearch(CHOOSE e \in Landed(key) : TRUE, key) ELSE 0

Range(first, last) == [start |-> first, reps |-> last - first + 1]
FromNext(first) == Range(first + 1, N)  \* variant
From(first) == Range(first, N)
Upto(last) == Range(1, last)

\* What a call makes of the triple and of the complete set.
Nothing == [triple |-> NullTriple, complete |-> FALSE]
All     == [triple |-> NullTriple, complete |-> TRUE]
Only(t) == [triple |-> t, complete |-> FALSE]

\* Without a position the triple of all rows is set, and set again from row 0.
GreaterThan(temp) ==
  IF ~ HasPage(temp) \/ Position(temp) = N THEN Nothing
  ELSE Only(From(Position(temp)))

GreaterThanOrEqual(rhs) ==
  IF Position(rhs) = N THEN Nothing
  ELSE [triple |-> From(Position(rhs)), complete |-> Position(rhs) = 0]

LessThan(key) ==
  IF ~ HasPage(key) THEN All
  ELSE IF Position(key) > 1 THEN Only(Upto(Position(key) - 1))
  ELSE Nothing

\* `end' is not initialised when the value behind the range is not on its page.
EndBefore(temp) ==  \* variant: one row less
  IF Position(temp) > 1 THEN {Position(temp) - 2} ELSE {0}
End(temp) ==
  IF ~ HasPage(temp) THEN {0}
  ELSE IF Position(temp) # 0 THEN {Position(temp) - 1}
  ELSE 0 .. N + 1

\* The repetitions are counted without a sign: a range that ends before it begins
\* goes on behind the last row, and one of no repetitions throws.
Equal(first, end) ==
  IF end = 0 THEN IF first = 1 THEN All ELSE Only(From(first))
  ELSE IF end >= first THEN Only(Range(first, end))
  ELSE IF end = first - 1 THEN Only([start |-> first, reps |-> 0])
  ELSE Only(Range(first, N + 1))

Results(pred, rhs) ==
  LET temp == SmallestLarger(rhs)
  IN  CASE pred = "GT" -> {GreaterThan(temp)}
        [] pred = "GE" -> {GreaterThanOrEqual(rhs)}
        [] pred = "LT" -> {LessThan(rhs)}
        [] pred = "LE" -> {LessThan(temp)}
        [] pred = "EQ" -> IF Position(rhs) = 0 THEN {Nothing}
                          ELSE {Equal(Position(rhs), end) : end \in End(temp)}

Thrown(result) == result.triple.start # 0 /\ result.triple.reps = 0

\* MultiPosFilterBlock::setTriple
Positions(t) == t.start .. t.start + t.reps - 1

Asked == state \in {"ready", "answered", "spent"} /\ UNCHANGED <<layout, index>>

\* A source whose triple is set once answers nothing ever after, to any predicate.
ScanAgain ==
  /\ Asked /\ triple # NullTriple
  /\ complete' = FALSE /\ matched' = {}
  /\ state' = "spent"
  /\ UNCHANGED <<triple, asked>>

FirstScan(pred, rhs) ==
  /\ Asked /\ triple = NullTriple
  /\ \E result \in Results(pred, rhs) :
       /\ triple' = result.triple
       /\ complete' = result.complete
       /\ matched' = IF result.complete \/ result.triple = NullTriple
                       THEN {} ELSE Positions(result.triple)
       /\ state' = IF Thrown(result) THEN "thrown" ELSE "answered"
       /\ asked' = [pred |-> pred, rhs |-> rhs]

Next ==
  \/ \E e \in Rows : WritePage(e)
  \/ \E pred \in Preds, rhs \in Values : FirstScan(pred, rhs)
  \/ ScanAgain

Spec == Init /\ [][Next]_vars

----------------------------------------------------------------------------
(* Properties *)

\* The types of the variables; the index of values points to pages that are there,
\* and the value it was extended by last is in it.
TypeOK ==
  /\ column \in [Rows -> Values] /\ Ascending
  /\ ends \subseteq Rows /\ N \in ends /\ primary \subseteq ends
  /\ DOMAIN secondary \subseteq Values
  /\ \A v \in DOMAIN secondary : secondary[v] \in primary
  /\ lastSecondaryValue \in Values \cup {NoValue}
  /\ primary # {} => lastSecondaryValue \in DOMAIN secondary
  /\ triple \in Triples /\ complete \in BOOLEAN /\ matched \subseteq 0 .. N + 1
  /\ state \in {"build", "ready", "answered", "spent", "thrown"}
  /\ asked \in [pred : Preds, rhs : Values]

Present(v) == \E p \in Rows : column[p] = v
AllBelow(v) == \A p \in Rows : column[p] < v

\* p is the first row from the value key on.
FirstFrom(p, key) == column[p] >= key /\ \A q \in Rows : q < p => column[q] < key

\* A lookup by value finds the page of the first row from that value on, over any
\* run of equal values and any number of pages it covers, and no page only if
\* there is no such row (PagePlacer.cpp:109-133, ROSAM.cpp:264).
PageHoldsBoundary ==
  state = "ready" =>
    \A key \in Values :
      /\ Landed(key) = {} => AllBelow(key)
      /\ \A e \in Landed(key) : \E p \in Rows :
           FirstFrom(p, key) /\ p <= e /\ \A f \in primary : f < e => f < p

\* The binary search finds a value on a page exactly if it is there.
SearchFinds ==
  state = "ready" =>
    \A key \in Values, e \in primary :
      LET page == {p \in Rows : PageStart(e) <= p /\ p <= e /\ column[p] = key}
      IN  IF page = {} THEN BiSearch(e, key) = 0 ELSE BiSearch(e, key) \in page

\* The types of the variables, and lookups and searches that find what is there.
WellFormed == TypeOK /\ PageHoldsBoundary /\ SearchFinds

Selected == IF complete THEN Rows ELSE matched
Matching == {p \in Rows : Satisfies(column[p], asked.pred, asked.rhs)}

\* The value a range begins or ends with is in the column, or there is none above it.
Bounded(v) == Present(v) \/ AllBelow(v)
HasSuccessor(v) == SmallestLarger(v) = v + 1
Hit ==
  CASE asked.pred = "LT" -> Bounded(asked.rhs)
    [] asked.pred = "GE" -> Present(asked.rhs)
    [] asked.pred \in {"LE", "GT"} ->
         HasSuccessor(asked.rhs) /\ Bounded(SmallestLarger(asked.rhs))
    [] asked.pred = "EQ" ->
         \/ ~ Present(asked.rhs)
         \/ HasSuccessor(asked.rhs) /\ Bounded(SmallestLarger(asked.rhs))

\* On a column of different values, a predicate whose bounds are values of the
\* column is answered exactly, over every layout of pages, but for the range that
\* begins with the last row and is given up (DataSource.cpp:251, 263).
HitExact ==
  state = "answered" /\ Hit /\ (\A p, q \in Rows : p # q => column[p] # column[q]) =>
    Selected = IF asked.pred \in {"GE", "GT"} /\ Matching = {N} THEN {} ELSE Matching

\* Where values repeat, the search lands on any of them, and such a predicate is
\* right on one side: a lower bound admits no row that breaks it, and an upper
\* bound loses no row (StringReader.cpp:86, DataSource.cpp:254, 299).
OneSided ==
  state = "answered" /\ Hit =>
    /\ asked.pred \in {"EQ", "GE"} => \A p \in Selected : column[p] >= asked.rhs
    /\ asked.pred = "GT" => \A p \in Selected : column[p] > asked.rhs
    /\ asked.pred \in {"LT", "LE"} => Matching \subseteq Selected

\* What a range selects whose bounds are values of the column.
BoundsExact == HitExact /\ OneSided

\* A scan throws only for an equality with a value of the column whose smallest
\* larger value is not in the column, or is the value itself, for there is none
\* above a string of 0xFF (DataSource.cpp:273-287, StringUtil.cpp:82).
ThrowsWithoutSuccessor ==
  state = "thrown" =>
    /\ asked.pred = "EQ" /\ Present(asked.rhs)
    /\ \/ ~ Present(SmallestLarger(asked.rhs))
       \/ SmallestLarger(asked.rhs) = asked.rhs
=============================================================================
