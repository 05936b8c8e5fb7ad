---------------------------- MODULE QuerySession ----------------------------
(***************************************************************************)
(* A client of LRCSQuery: it opens a table, asks it several queries over   *)
(* one handle, closes and opens it again, and starts the library anew.     *)
(* The handle keeps the data sources of the columns between the queries,   *)
(* and a data source keeps its predicate, firstCall, the triple of a       *)
(* sorted scan, the filter of a run-length scan and the cursor on the      *)
(* position filter; what a query answers depends on what is left of the    *)
(* ones before.                                                            *)
(*                                                                         *)
(* A filter is the set of its rows: what addPosition and AND lose of it in *)
(* tables whose rows do not fit one word is the matter of UnsortedScan and *)
(* PosOperator.  A value is a string of two bytes, written as in           *)
(* SortedColumn, whose ranges appear here without the layout of the pages. *)
(***************************************************************************)
EXTENDS Naturals, FiniteSets

CONSTANTS
  N,           \* rows: positions 1 .. N
  MaxByte,     \* the largest byte, 0xFF in the program
  Values,      \* what the rows of the columns hold ...
  Constants,   \* ... and what they are compared with
  Columns,     \* the columns of the table
  MaxQueries,  \* calls of QueryData
  MaxOpens     \* calls of OpenDbTableByProj that open, and of Init

ASSUME SessionAssumption ==
  /\ N \in Nat \ {0} /\ MaxByte \in Nat \ {0}
  /\ Values \subseteq Nat /\ Constants \subseteq Nat
  /\ MaxQueries \in Nat /\ MaxOpens \in Nat
  /\ IsFiniteSet(Columns)

Rows == 1 .. N
Base == MaxByte + 1

\* StringUtil::getSmallestLargerValue
SmallestLarger(v) ==
  IF v % Base # MaxByte THEN v + 1
  ELSE IF v \div Base # MaxByte THEN v + Base
  ELSE v

\* The data source OpenDbTableByProj makes for a column: without compression of
\* positions, of a column that is not or that is sorted by value, with run-length
\* coded positions, or with a bitmap for each value.
Kinds == {"plain", "sorted", "rle", "bitmap"}

Preds == {"LT", "EQ", "GE"}
Conditions == [type : Preds, rhs : Constants]
NoCondition == [type |-> "none", rhs |-> 0]

\* A position filter; setCompleteSet makes one that selects every row.
Filters == [complete : BOOLEAN, rows : SUBSET Rows]
Complete == [complete |-> TRUE, rows |-> {}]
Found(S) == [complete |-> FALSE, rows |-> S]
Selected(f) == IF f.complete THEN Rows ELSE f.rows

\* A predicate of a data source: none (NULL), alive, or deleted by QueryData.
Pointers == {"null", "alive", "dangling"}

Source == [pointer : Pointers, cond : Conditions \cup {NoCondition},
           firstCall : BOOLEAN, triple : BOOLEAN, made : BOOLEAN,
           matched : Filters, finished : BOOLEAN]

VARIABLES
  kind,     \* the columns, what they are ...
  value,    \* ... what they hold ...
  indexed,  \* ... and the values that have a bitmap, if they are bitmap columns
  env,      \* the Berkeley DB environment behind the static pointer
  m_bInited,
  opened,   \* whether the table has a handle
  source,   \* the data source of each column, while it has one
  phase,    \* "idle", "scan", "crashed"
  query,    \* the conditions of the last call of QueryData
  scanned,  \* columns whose getPosOnPred has returned
  answer,   \* the rows each column gave to the result; none before it is there
  named,    \* history: columns this handle was given a predicate for before
  used,     \* history: whether this handle was asked before
  fresh,    \* history: whether it was not, when the query was asked
  filtered, \* history: queries of this handle answered with rows of a filter
  queries, opens, closed  \* history: how often, and whether Destroy was called

handle  == <<env, m_bInited, opened, opens, closed>>
table   == <<kind, value, indexed>>
history == <<used, named, fresh, filtered, queries>>
vars == <<table, handle, source, phase, query, scanned, answer, history>>

NoQuery  == [c \in {} |-> NoCondition]
NoAnswer == [c \in {} |-> {}]

\* DataSource::init
NewSource == [pointer |-> "null", cond |-> NoCondition, firstCall |-> TRUE,
              triple |-> FALSE, made |-> FALSE, matched |-> Found({}),
              finished |-> FALSE]

Ascending(f) == \A p, q \in Rows : p < q => f[p] <= f[q]

Init ==
  /\ kind \in [Columns -> Kinds]
  /\ value \in [Columns -> [Rows -> Values]]
  /\ \A c \in Columns : kind[c] = "sorted" => Ascending(value[c])
  /\ indexed \in [Columns -> SUBSET Values]
  /\ \A c \in Columns :
       indexed[c] \subseteq IF kind[c] = "bitmap" THEN {value[c][p] : p \in Rows} ELSE {}
  /\ env = "none" /\ m_bInited = FALSE /\ opened = FALSE
  /\ source = [c \in Columns |-> NewSource]
  /\ phase = "idle" /\ query = NoQuery /\ scanned = {}
  /\ answer = NoAnswer
  /\ used = FALSE /\ named = {} /\ fresh = TRUE /\ filtered = 0 /\ queries = 0
  /\ opens = 0 /\ closed = FALSE

----------------------------------------------------------------------------
(* The library and the handle *)

\* closeDbEnv closes the environment and leaves the static pointer as it is, so
\* that initDbEnv makes no new one: the next use of the handle behind the pointer
\* is a use of a closed environment, which ends the process.
Initialised == IF env = "none" THEN "open" ELSE env

\* What is left of a handle that is closed, and what a new one begins with; the last
\* query and its answer are forgotten with the handle.
NewHandle ==
  /\ source' = [c \in Columns |-> NewSource]
  /\ used' = FALSE /\ named' = {} /\ filtered' = 0 /\ fresh' = TRUE
  /\ query' = NoQuery /\ answer' = NoAnswer
SameHandle == UNCHANGED <<source, used, named, filtered, fresh, query, answer>>

\* Init destroys first what there is.
InitLibrary ==
  /\ phase = "idle" /\ opens < MaxOpens
  /\ opens' = opens + 1
  /\ \/ /\ ~ m_bInited
        /\ env' = Initialised /\ m_bInited' = TRUE
        /\ SameHandle /\ UNCHANGED <<phase, opened, closed>>
     \/ /\ m_bInited /\ env = "open"
        /\ env' = "closed" /\ opened' = FALSE /\ closed' = TRUE
        /\ NewHandle
        /\ UNCHANGED <<phase, m_bInited>>
     \/ /\ m_bInited /\ env = "closed"
        /\ phase' = "crashed"
        /\ SameHandle /\ UNCHANGED <<env, m_bInited, opened, closed>>
  /\ UNCHANGED <<table, scanned, queries>>

Destroy ==
  /\ phase = "idle" /\ m_bInited
  /\ IF env = "closed"
       THEN /\ phase' = "crashed"
            /\ SameHandle /\ UNCHANGED <<env, m_bInited, opened, closed>>
       ELSE /\ env' = "closed" /\ m_bInited' = FALSE
            /\ opened' = FALSE /\ closed' = TRUE
            /\ NewHandle
            /\ UNCHANGED phase
  /\ UNCHANGED <<table, opens, scanned, queries>>

\* OpenDbTableByProj: the handle the table has, or a new one; getProjection
\* begins with a transaction of the environment.
OpenDbTableByProj ==
  /\ phase = "idle" /\ ~ opened /\ opens < MaxOpens
  /\ opens' = opens + 1
  /\ m_bInited' = TRUE
  /\ env' = IF m_bInited THEN env ELSE Initialised
  /\ IF env' = "open"
       THEN /\ opened' = TRUE
            /\ NewHandle
            /\ UNCHANGED phase
       ELSE /\ phase' = "crashed"
            /\ SameHandle /\ UNCHANGED opened
  /\ UNCHANGED <<table, closed, scanned, queries>>

CloseKeepsSources ==  \* variant: the handle goes, its data sources stay
  /\ phase = "idle" /\ opened /\ opened' = FALSE
  /\ UNCHANGED <<table, env, m_bInited, opens, closed, source, phase, query,
                 scanned, answer, history>>
CloseDbTable ==
  /\ phase = "idle" /\ opened
  /\ opened' = FALSE
  /\ NewHandle
  /\ UNCHANGED <<table, env, m_bInited, opens, closed, phase, scanned, queries>>

----------------------------------------------------------------------------
(* The predicates of a query *)

\* setPredicate and changeRHSBinding for the columns of q.
Bound(q) ==
  [c \in Columns |-> IF c \in DOMAIN q
     THEN [source[c] EXCEPT !.pointer = "alive", !.cond = q[c]] ELSE source[c]]

\* QueryData deletes the predicates of the call when it is answered.
Freed(q, src) ==
  [c \in Columns |-> IF c \in DOMAIN q
     THEN [src[c] EXCEPT !.pointer = "dangling", !.cond = NoCondition] ELSE src[c]]

Queries == UNION {[D -> Conditions] : D \in SUBSET Columns}

Asked(q) ==
  /\ phase = "idle" /\ opened /\ queries < MaxQueries
  /\ queries' = queries + 1
  /\ fresh' = ~ used
  /\ source' = Bound(q) /\ query' = q
  /\ answer' = NoAnswer
  /\ UNCHANGED <<table, handle, filtered>>

QueryData(q) ==
  /\ Asked(q)
  /\ phase' = "scan"
  /\ UNCHANGED <<used, named, scanned>>

\* A column the table does not have: the call returns with the predicates of the
\* columns in front of it set, and never deletes them.
QueryUnknownColumn(q) ==
  /\ Asked(q)
  /\ used' = TRUE /\ named' = named \cup DOMAIN q
  /\ UNCHANGED <<phase, scanned>>

----------------------------------------------------------------------------
(* The scans *)

RowsWith(c, cond) ==
  CASE cond.type = "EQ" -> {p \in Rows : value[c][p] = cond.rhs}
    [] cond.type = "GE" -> {p \in Rows : value[c][p] >= cond.rhs}
    [] OTHER            -> {p \in Rows : value[c][p] < cond.rhs}

\* Every query resets the cursors of the index before it reads values, so that
\* a GE scan without firstCall starts from the first entry: it reads all of them.
\* LT compares each key.
ReachedFromFirst(c, cond) ==  \* variant: a GE scan never looks for its first key
  IF cond.type = "GE" THEN Rows ELSE RowsWith(c, cond)
Reached(c, cond) ==
  IF cond.type = "GE" /\ ~ source[c].firstCall THEN Rows ELSE RowsWith(c, cond)

Positioned(c, S) == [source[c] EXCEPT !.firstCall = @ /\ S = {}]

PlainScan(c, cond) ==
  LET S == Reached(c, cond)
  IN  [Positioned(c, S) EXCEPT !.matched = Found(S)]

Present(c, v)  == \E p \in Rows : value[c][p] = v
AllBelow(c, v) == \A p \in Rows : value[c][p] < v

\* Where the search for a value ends: on one of the rows that hold it, which is not
\* the last row if there are others, or nowhere.
Positions(c, v) ==
  LET S == {p \in Rows : value[c][p] = v}
  IN  IF S = {} THEN {0} ELSE IF S = {N} THEN S ELSE S \ {N}

\* What a sorted scan comes to: its filter, and whether the triple is set.
Nothing  == [triple |-> FALSE, matched |-> Found({})]
All      == [triple |-> FALSE, matched |-> Complete]
Range(S) == [triple |-> TRUE, matched |-> Found(S)]

Below(p) == IF p > 1 THEN Range(1 .. p - 1) ELSE Nothing

\* Without a position all rows are selected, and the triple is set as well.
FromOn(p) ==
  IF p = N THEN Nothing
  ELSE IF p = 0 THEN [All EXCEPT !.triple = TRUE] ELSE Range(p .. N)

\* `end': the row in front of the next larger value; 0 if all rows are; and not
\* initialised if there are larger ones, but not this one.
Ends(c, first, rhs) ==
  LET temp == SmallestLarger(rhs)
  IN  IF temp = rhs THEN {first - 1}
      ELSE IF AllBelow(c, temp) THEN {0}
      ELSE IF Present(c, temp) THEN {p - 1 : p \in Positions(c, temp)}
      ELSE 0 .. N

\* The repetitions have no sign: behind an `end' that lies in front of the first row
\* the range goes on for as long as there are rows.
Between(first, end) ==
  IF end = 0 THEN IF first = 1 THEN All ELSE Range(first .. N)
  ELSE IF end < first THEN Range(first .. N)
  ELSE Range(first .. end)

\* No repetitions at all throw, and so many may find no memory.
EqualThrows(c, rhs) ==
  \E first \in Positions(c, rhs) \ {0} : \E end \in Ends(c, first, rhs) : 0 < end /\ end < first

Equals(c, rhs) ==
  UNION {IF first = 0 THEN {Nothing}
         ELSE {Between(first, end) : end \in {e \in Ends(c, first, rhs) : e = 0 \/ e # first - 1}} :
           first \in Positions(c, rhs)}

\* getPosOnPredValueSorted
Ranges(c, cond) ==
  CASE cond.type = "EQ" -> Equals(c, cond.rhs)
    [] cond.type = "GE" -> {FromOn(p) : p \in Positions(c, cond.rhs)}
    [] OTHER -> IF AllBelow(c, cond.rhs) THEN {All}
                ELSE {Below(p) : p \in Positions(c, cond.rhs)}

\* The triple is set once and for all; from then on nothing is selected.
SortedScan(c, cond) ==
  {[source[c] EXCEPT !.triple = @ \/ range.triple, !.matched = range.matched] :
     range \in IF source[c].triple THEN {Nothing} ELSE Ranges(c, cond)}

\* BitmapDataSource: a value has a bitmap once its rows have filled a block.  The
\* scan of a source that has read one begins its condition with an operator, if it
\* reads another, and comes to nothing; if it reads none, as well.
WithBitmap(c, S) == {p \in S : value[c][p] \in indexed[c]}
BitmapScan(c, cond) ==
  IF source[c].firstCall
    THEN LET S == WithBitmap(c, RowsWith(c, cond))
         IN  [Positioned(c, S) EXCEPT !.matched = Found(S)]
    ELSE [source[c] EXCEPT !.matched = Found({})]

\* RLEDataSource: the filter of the scan before, if there was one, stays; a complete
\* one stays complete.
Before(c) == IF source[c].made THEN source[c].matched ELSE Found({})

RLEScan(c, cond) ==
  LET S == Reached(c, cond)
  IN  [Positioned(c, S) EXCEPT !.made = TRUE,
                               !.matched = [Before(c) EXCEPT !.rows = @ \cup S]]

\* DB_NEXT_DUP without a position throws, and nothing in the parallel loop catches
\* it.  The first block a decoder gives has no value (RLEBlock.cpp:18-25): it can be
\* set as the triple of an empty filter, but its positions cannot be read to be
\* added to one that has rows.
DupThrows(c, cond) == cond.type = "EQ" /\ ~ source[c].firstCall

ThrowsAnyKind(c, cond) ==  \* variant: also where each key is compared
  DupThrows(c, cond)
Throws(c, cond) ==
  CASE kind[c] = "plain"  -> FALSE
    [] kind[c] = "sorted" -> /\ cond.type = "EQ" /\ ~ source[c].triple
                             /\ EqualThrows(c, cond.rhs)
    [] kind[c] = "bitmap" -> DupThrows(c, cond)
    [] kind[c] = "rle"    -> \/ DupThrows(c, cond)
                             \/ Before(c).rows # {} /\ Reached(c, cond) # {}

\* What a scan that does not throw may leave of the data source.
Outcomes(c, cond) ==
  CASE kind[c] = "plain"  -> {PlainScan(c, cond)}
    [] kind[c] = "sorted" -> SortedScan(c, cond)
    [] kind[c] = "bitmap" -> {BitmapScan(c, cond)}
    [] kind[c] = "rle"    -> {RLEScan(c, cond)}

GetPosOnPred(c, cond) ==
  \/ /\ Throws(c, cond)
     /\ phase' = "crashed"
     /\ UNCHANGED <<source, scanned>>
  \/ /\ ~ Throws(c, cond) \/ kind[c] = "sorted"
     /\ \E found \in Outcomes(c, cond) : source' = [source EXCEPT ![c] = found]
     /\ scanned' = scanned \cup {c}
     /\ UNCHANGED phase

ScanWithoutPredicate(c) ==
  /\ source[c].pointer = "null"
  /\ source' = [source EXCEPT ![c].matched = Complete, ![c].made = TRUE]
  /\ scanned' = scanned \cup {c}
  /\ UNCHANGED phase

ScanPredicate(c) ==
  /\ source[c].pointer = "alive"
  /\ GetPosOnPred(c, source[c].cond)

\* The predicate has been deleted: what is read in its place ends the process or
\* passes for a predicate, any one (the memory is given to the next new).
ScanDangling(c) ==
  /\ source[c].pointer = "dangling"
  /\ \/ /\ phase' = "crashed"
        /\ UNCHANGED <<source, scanned>>
     \/ \E cond \in Conditions : GetPosOnPred(c, cond)

ScanColumn(c) ==
  /\ phase = "scan" /\ c \notin scanned
  /\ ScanWithoutPredicate(c) \/ ScanPredicate(c) \/ ScanDangling(c)
  /\ UNCHANGED <<table, handle, query, answer, history>>

----------------------------------------------------------------------------
(* The answer *)

\* AND of all of them, the complete ones left out.
Combined ==
  IF \A c \in Columns : source[c].matched.complete THEN Complete
  ELSE Found({p \in Rows : \A c \in Columns : p \in Selected(source[c].matched)})

Proper(f) == ~ f.complete /\ f.rows # {}

\* The rows a column still reads: all of them without a filter, and those of the
\* filter through a cursor that is made once and never reset.
ReadsStaleNot(c) == Selected(Combined)  \* variant: a cursor for each filter
Reads(c) ==
  IF Proper(Combined) /\ source[c].finished THEN {} ELSE Selected(Combined)

Finished(c) == source[c].finished \/ Proper(Combined)

\* What a source keeps: getPosOnPred makes a new filter for all but RLE columns.
Kept(c) == [source[c] EXCEPT !.finished = Finished(c),
                             !.matched = IF kind[c] = "rle" THEN @ ELSE Found({})]

AnswerQuery ==
  /\ phase = "scan" /\ scanned = Columns
  /\ answer' = [c \in Columns |-> Reads(c)]
  /\ source' = Freed(query, [c \in Columns |-> Kept(c)])
  /\ used' = TRUE /\ named' = named \cup DOMAIN query
  /\ filtered' = IF Proper(Combined) /\ \E c \in Columns : Reads(c) # {}
                   THEN filtered + 1 ELSE filtered
  /\ phase' = "idle" /\ scanned' = {}
  /\ UNCHANGED <<table, handle, query, fresh, queries>>

Ask == \E q \in Queries : QueryData(q) \/ QueryUnknownColumn(q)

Next ==
  \/ InitLibrary \/ Destroy \/ OpenDbTableByProj \/ CloseDbTable
  \/ Ask \/ (\E c \in Columns : ScanColumn(c)) \/ AnswerQuery

Spec == Init /\ [][Next]_vars

----------------------------------------------------------------------------
(* Properties *)

\* The types of the variables; a table without a handle has no data source that
\* was used (CloseDbTable and Destroy delete them, LRCSQuery.cpp:41-61, 136-145).
TypeOK ==
  /\ kind \in [Columns -> Kinds] /\ value \in [Columns -> [Rows -> Values]]
  /\ indexed \in [Columns -> SUBSET Values]
  /\ env \in {"none", "open", "closed"} /\ m_bInited \in BOOLEAN /\ opened \in BOOLEAN
  /\ source \in [Columns -> Source]
  /\ phase \in {"idle", "scan", "crashed"}
  /\ query \in Queries /\ scanned \subseteq Columns
  /\ answer \in [Columns -> SUBSET Rows] \cup {NoAnswer}
  /\ named \subseteq Columns /\ used \in BOOLEAN /\ fresh \in BOOLEAN
  /\ filtered \in Nat /\ queries \in 0 .. MaxQueries
  /\ opens \in 0 .. MaxOpens /\ closed \in BOOLEAN
  /\ ~ opened => \A c \in Columns : source[c] = NewSource

Answered == phase = "idle" /\ DOMAIN answer = Columns

\* The value a range begins or ends with is in the column, or there is none above it.
Bounded(c, v) == Present(c, v) \/ AllBelow(c, v)
Hit(c, cond) ==
  CASE cond.type = "LT" -> Bounded(c, cond.rhs)
    [] cond.type = "GE" -> Present(c, cond.rhs)
    [] cond.type = "EQ" ->
         \/ ~ Present(c, cond.rhs)
         \/ SmallestLarger(cond.rhs) = cond.rhs + 1 /\ Bounded(c, cond.rhs + 1)

Distinct(c) == \A p, q \in Rows : p # q => value[c][p] # value[c][q]

\* What a new data source answers: the rows of the condition; of a sorted column, if
\* its values differ and the bounds of the range are among them, and then but for a
\* range that begins with the last row (DataSource.cpp:262); of a bitmap column
\* those whose value has a bitmap.
Reliable(c, cond) == kind[c] = "sorted" => Distinct(c) /\ Hit(c, cond)
Expected(c, cond) ==
  LET S == RowsWith(c, cond)
  IN  CASE kind[c] = "sorted" -> IF cond.type = "GE" /\ S = {N} THEN {} ELSE S
        [] kind[c] = "bitmap" -> WithBitmap(c, S)
        [] OTHER              -> S

Described(D) == {p \in Rows : \A d \in D : p \in Expected(d, query[d])}
ReliableColumns == {d \in DOMAIN query : Reliable(d, query[d])}

\* The first query a handle is given is answered with the rows its conditions
\* describe, also on a handle that was closed and opened again: exactly those, if
\* what a new data source answers to each is known, and no others than those of
\* the ones of which it is known (DataSource.cpp:251-302, LRCSQueryImpl.cpp:72).
FirstAnswerExact ==
  Answered /\ fresh =>
    \A c \in Columns :
      /\ answer[c] \subseteq Described(ReliableColumns)
      /\ ReliableColumns = DOMAIN query => answer[c] = Described(DOMAIN query)

\* All columns give the same rows to a result, on a handle in any state: no row
\* is torn, although each column has a cursor of its own that outlives the query
\* (DataSource.cpp:171).
NoTornRow == Answered => \A c, d \in Columns : answer[c] = answer[d]

\* The cursor is kept at the end of the filter of an earlier query, one that has
\* been deleted (DataSource.cpp:171, LRCSQueryImpl.cpp:140): of all the queries a
\* handle is asked, at most one is answered with rows of a filter.
OneFilteredAnswer == filtered <= 1

\* Whatever is left of earlier queries, rejected ones included, an equality or an
\* upper bound that the query names is never exceeded by an answer, on a column
\* without compression or with bitmaps, and on a sorted one whose values differ, of
\* an equality if the value behind the range is known (DataSource.cpp:273-299).
Upper(c, cond) ==
  CASE kind[c] = "rle"    -> FALSE
    [] kind[c] = "sorted" -> Distinct(c) /\ (cond.type = "LT" \/ (cond.type = "EQ" /\ Hit(c, cond)))
    [] OTHER              -> cond.type \in {"EQ", "LT"}

BoundsHold ==
  Answered =>
    \A c \in DOMAIN query :
      Upper(c, query[c]) =>
        \A d \in Columns : answer[d] \subseteq RowsWith(c, query[c])

\* What remains true of the answer to any query of a handle.
LaterAnswers == NoTornRow /\ OneFilteredAnswer /\ BoundsHold

\* The next larger value is not in the column, but larger ones are; or there is none
\* (DataSource.cpp:273-286, StringUtil.cpp:82).
WithoutSuccessor(c, rhs) ==
  LET temp == SmallestLarger(rhs)
  IN  Present(c, rhs) /\ (temp = rhs \/ ~ Bounded(c, temp))

\* The process ends only on a client that does one of these: it does not name all
\* the columns it has named before in a handle (m_pPred outlives its predicate,
\* LRCSQuery.cpp:186-190); it names a run-length column again, or a bitmap column
\* again in an equality (RLEDataSource.cpp:75, 99, BitmapDataSource.cpp:73-77); it
\* asks a sorted column for a value without a successor; it uses the library after
\* Destroy (BDBEnv.cpp:36).
SafeClient ==
  phase = "crashed" =>
    \/ named \ DOMAIN query # {}
    \/ \E c \in named \cap DOMAIN query :
         kind[c] = "rle" \/ (kind[c] = "bitmap" /\ query[c].type = "EQ")
    \/ \E c \in DOMAIN query :
         kind[c] = "sorted" /\ query[c].type = "EQ" /\ WithoutSuccessor(c, query[c].rhs)
    \/ closed

=============================================================================
