----------------------------- MODULE PosOperator -----------------------------
(***************************************************************************)
(* PosOperator combines the position filters of the predicates of a query, *)
(* left to right: doAndCaculate and doOrCaculate walk the blocks of two    *)
(* filters side by side, combine the words they share and collect the      *)
(* blocks of the result, which optimize then trims and merges.             *)
(*                                                                         *)
(* One step is one turn of an outer loop; the inner loop over the words of *)
(* two blocks is the set operation it computes on the aligned words.  A    *)
(* block the walk refers to is a pointer to a filter (side), a block (idx) *)
(* and the word the block's own iterator is at (int).                      *)
(***************************************************************************)
EXTENDS MultiPosFilterBlock, SequencesExt

CONSTANTS
  N,         \* rows: positions 1 .. N
  Spans,     \* a predicate selects some of the rows of one of these sets
  Operands   \* predicates of the query

ASSUME OperatorAssumption ==
  /\ N \in Nat /\ Spans \subseteq SUBSET (1 .. N)
  /\ Operands \in Nat \ {0}

Rows == 1 .. N

Null == [side |-> 0, idx |-> 0, int |-> 0]

VARIABLES
  operands,  \* the filters of the predicates, as their scans left them
  ops,       \* the operator in front of each operand but the first
  next,      \* the operand to combine next
  pc,        \* "parse", "walk" or "optimize"
  m,         \* the filters being combined
  ptr,       \* posFilterBlock1 and posFilterBlock2
  result,    \* spCacuPosBlock; between two operators m_pTempPosBlock1
  i          \* the block optimize is at, counted from 1

vars == <<operands, ops, next, pc, m, ptr, result, i>>

\* The filter a scan builds from ascending positions.
FilterOf(S) ==
  LET F[p \in 0 .. N] == IF p = 0 THEN EmptyFilter
                         ELSE IF p \in S THEN AddPosition(F[p - 1], p) ELSE F[p - 1]
  IN  F[N]

Selections == UNION {SUBSET S : S \in Spans}

Selected(f) == IF f.completeSet THEN Rows ELSE PositionsOf(f)

Init ==
  /\ operands \in [1 .. Operands -> {FilterOf(S) : S \in Selections} \cup {CompleteFilter}]
  /\ ops \in [2 .. Operands -> {"&", "|"}]
  /\ next = 2
  /\ pc = "parse"
  /\ m = <<EmptyFilter, EmptyFilter>>
  /\ ptr = <<Null, Null>>
  /\ result = operands[1]
  /\ i = 0

----------------------------------------------------------------------------
(* Blocks and words under the pointers *)

Of(fs, p) == fs[p.side].blocks[p.idx]
IntStart(fs, p) == Of(fs, p).start + (p.int - 1) * IntBits
LastInt(fs, p)  == Words(Of(fs, p).start, Of(fs, p).end)
IntsLeft(fs, p) == LastInt(fs, p) - p.int
HasNextInt(fs, p) == p.int < LastInt(fs, p)
HasNext(fs, p) == Of(fs, p).currPos < Of(fs, p).end

CutRightAt(fs, p, pos) == [fs EXCEPT ![p.side].blocks[p.idx] = CutRight(@, pos)]
CutRightPtr(fs, p, pos) == IF pos > Of(fs, p).start THEN [p EXCEPT !.int = 1] ELSE p

\* clone: the iterator of the copy is new
Clone(b) == [b EXCEPT !.currPos = 0]

\* getNextBlock: the filter's currBlockNum moves even when it runs out
AdvanceNot(fs, s) == [fs EXCEPT ![s].currBlockNum = @]  \* variant: it stays

Advance(fs, s) == [fs EXCEPT ![s].currBlockNum = @ + 1]
NextBlock(fs, s) ==
  IF fs[s].currBlockNum + 1 < Len(fs[s].blocks)
    THEN [side |-> s, idx |-> fs[s].currBlockNum + 2, int |-> 1]
    ELSE Null

\* The words two aligned blocks have in common, from the words their iterators
\* are at; as many as the shorter of them has left.
Shared(fs, a, b) ==
  LET d == IntsLeft(fs, a)
      e == IntsLeft(fs, b)
  IN  1 + (IF d <= e THEN d ELSE e)

\* What is done with the words of a pair, under the operator being applied.
WordBits(A, B) == IF ops[next] = "&" THEN A \cap B ELSE A \cup B

\* The block the inner loop leaves: it begins where block a begins, and addInt
\* moves its end to the last bit set, if any.
Combined(fs, a, b) ==
  LET from == IntStart(fs, a)
      word == from .. from + Shared(fs, a, b) * IntBits - 1
      bits == {q - (from - Of(fs, a).start) :
                 q \in WordBits(Of(fs, a).bits \cap word, Of(fs, b).bits \cap word)}
  IN  [start |-> Of(fs, a).start,
       end   |-> IF bits = {} THEN Of(fs, a).start
                 ELSE CHOOSE q \in bits : \A r \in bits : r <= q,
       bits |-> bits, currPos |-> 0]

Moved(fs, a, b, p) == [p EXCEPT !.int = @ + Shared(fs, a, b) - 1]

----------------------------------------------------------------------------
(* parseWhereOpreation and getPosFilter, one level of brackets *)

Right == operands[next]

\* A complete or a null operand decides the result at once.
Shortcut ==
  IF ops[next] = "&"
    THEN IF result.completeSet THEN {Right}
         ELSE IF Right.completeSet THEN {result}
         ELSE IF result.blocks = <<>> THEN {result}
         ELSE IF Right.blocks = <<>> THEN {Right}
         ELSE {}
    ELSE IF result.completeSet THEN {result}
         ELSE IF Right.completeSet THEN {Right}
         ELSE IF result.blocks = <<>> THEN {Right}
         ELSE IF Right.blocks = <<>> THEN {result}
         ELSE {}

ParseShortcut ==
  /\ pc = "parse" /\ next <= Operands
  /\ result' \in Shortcut
  /\ next' = next + 1
  /\ UNCHANGED <<operands, ops, pc, m, ptr, i>>

ParseOperand ==
  /\ pc = "parse" /\ next <= Operands /\ Shortcut = {}
  /\ m' = <<[result EXCEPT !.currBlockNum = 0], [Right EXCEPT !.currBlockNum = 0]>>
  /\ ptr' = [s \in 1 .. 2 |-> [side |-> s, idx |-> 1, int |-> 1]]
  /\ result' = EmptyFilter
  /\ pc' = "walk"
  /\ UNCHANGED <<operands, ops, next, i>>

Both == ptr[1] # Null /\ ptr[2] # Null

\* Which pointer is at the word that begins later: the first one when both are
\* at the same word.
Later   == IF IntStart(m, ptr[1]) >= IntStart(m, ptr[2]) THEN ptr[1] ELSE ptr[2]
Earlier == IF IntStart(m, ptr[1]) >= IntStart(m, ptr[2]) THEN ptr[2] ELSE ptr[1]

\* The word of pointer s begins behind the block of the other pointer.
Behind(s, t) == IntStart(m, ptr[s]) > Of(m, ptr[t]).end

EndWalk ==
  /\ pc' = "optimize" /\ i' = 1
  /\ UNCHANGED <<operands, ops, next, m, ptr, result>>

----------------------------------------------------------------------------
(* doAndCaculate *)

AndWalking == pc = "walk" /\ ops[next] = "&"

\* The block of a pointer ends before the other one begins.  The next one comes
\* from the filter the pointer is named after, whichever filter it points into.
AndSkipped == IF Behind(1, 2) THEN 2 ELSE 1

AndSkip ==
  /\ AndWalking /\ Both
  /\ Behind(1, 2) \/ Behind(2, 1)
  /\ m' = Advance(m, AndSkipped)
  /\ ptr' = [ptr EXCEPT ![AndSkipped] = NextBlock(m, AndSkipped)]
  /\ UNCHANGED <<operands, ops, next, pc, result, i>>

AndMerge ==
  /\ AndWalking /\ Both
  /\ ~ Behind(1, 2) /\ ~ Behind(2, 1)
  /\ LET at  == IntStart(m, Later)
         fs  == CutRightAt(m, Earlier, at)
         a0  == Later
         b0  == CutRightPtr(m, Earlier, at)
         a   == Moved(fs, a0, b0, a0)
         b   == Moved(fs, a0, b0, b0)
     IN  /\ result' = AddPosFilterBlock(result, Combined(fs, a0, b0))
         /\ \/ /\ ~ HasNextInt(fs, a) /\ HasNext(fs, b)
               /\ ptr' = <<NextBlock(fs, a.side), b>>
               /\ m' = Advance(fs, a.side)
            \/ /\ HasNextInt(fs, a) \/ ~ HasNext(fs, b)
               /\ ~ HasNextInt(fs, b) /\ HasNext(fs, a)
               /\ ptr' = <<NextBlock(fs, b.side), a>>
               /\ m' = Advance(fs, b.side)
            \/ /\ HasNextInt(fs, a) \/ ~ HasNext(fs, b)
               /\ HasNextInt(fs, b) \/ ~ HasNext(fs, a)
               /\ ptr' = <<NextBlock(fs, 1), NextBlock(fs, 2)>>
               /\ m' = Advance(Advance(fs, 1), 2)
  /\ UNCHANGED <<operands, ops, next, pc, i>>

AndEnd == AndWalking /\ ~ Both /\ EndWalk

----------------------------------------------------------------------------
(* doOrCaculate *)

OrWalking == pc = "walk" /\ ops[next] = "|"

\* What is left of the block of a pointer goes to the result as it is, and the
\* next one comes from the same filter.
Rest(p) == Clone(CutRight(Of(m, p), IntStart(m, p)))

OrCopy(s) ==
  /\ result' = AddPosFilterBlock(result, Rest(ptr[s]))
  /\ m' = Advance(m, ptr[s].side)
  /\ ptr' = [ptr EXCEPT ![s] = NextBlock(m, ptr[s].side)]
  /\ UNCHANGED <<operands, ops, next, pc, i>>

OrOnlyOne ==
  /\ OrWalking /\ ~ Both
  /\ \E s \in 1 .. 2 : ptr[s] # Null /\ OrCopy(s)

OrSkip ==
  /\ OrWalking /\ Both
  /\ \/ Behind(1, 2) /\ OrCopy(2)
     \/ ~ Behind(1, 2) /\ Behind(2, 1) /\ OrCopy(1)

\* The blocks overlap: the part of the earlier one in front of the later one is
\* copied, the common words are combined, and the rest of the longer one waits.
OrMerge ==
  /\ OrWalking /\ Both
  /\ ~ Behind(1, 2) /\ ~ Behind(2, 1)
  /\ LET at  == IntStart(m, Later)
         cut == IntStart(m, Earlier) < at
         fs  == IF cut THEN CutRightAt(m, Earlier, at) ELSE m
         a0  == Later
         b0  == IF cut THEN CutRightPtr(m, Earlier, at) ELSE Earlier
         a   == Moved(fs, a0, b0, a0)
         b   == Moved(fs, a0, b0, b0)
         pre == IF cut
                  THEN AddPosFilterBlock(result, CutLeft(Clone(Of(m, Earlier)), at - 1))
                  ELSE result
         mid == Combined(fs, a0, b0)
         Leave(done, rest) ==  \* done has no word left, rest has
           LET end == Of(fs, done).end
           IN  /\ result' = AddPosFilterBlock(pre, CutLeft(mid, end))
               /\ ptr' = <<NextBlock(fs, done.side), CutRightPtr(fs, rest, end + 1)>>
               /\ m' = Advance(CutRightAt(fs, rest, end + 1), done.side)
     IN  \/ ~ HasNextInt(fs, a) /\ HasNextInt(fs, b) /\ Leave(a, b)
         \/ ~ HasNextInt(fs, b) /\ HasNextInt(fs, a) /\ Leave(b, a)
         \/ /\ ~ HasNextInt(fs, a) /\ ~ HasNextInt(fs, b)
            /\ result' = AddPosFilterBlock(pre, mid)
            /\ ptr' = <<NextBlock(fs, 1), NextBlock(fs, 2)>>
            /\ m' = Advance(Advance(fs, 1), 2)
  /\ UNCHANGED <<operands, ops, next, pc, i>>

OrEnd == OrWalking /\ ptr[1] = Null /\ ptr[2] = Null /\ EndWalk

----------------------------------------------------------------------------
(* optimize *)

First(S) == CHOOSE q \in S : \A r \in S : q <= r

\* removePrecedingZero: the block from its first position on
TrimNone(b) == b  \* variant: the zeros stay
Trim(b) == CutRight(b, First(b.bits))

\* The block prev after the positions of b have been added to it in turn, up to
\* the one (full) it has no room for.
MergeInto(prev, b) ==
  LET M[q \in 0 .. N] ==
        IF q = 0 THEN [prev |-> prev, full |-> 0]
        ELSE IF q \notin b.bits \/ M[q - 1].full # 0 THEN M[q - 1]
        ELSE IF BlockAccepts(M[q - 1].prev, q)
          THEN [M[q - 1] EXCEPT !.prev = BlockAdd(@, q)]
        ELSE [M[q - 1] EXCEPT !.full = q]
  IN  M[N]

Optimizing == pc = "optimize" /\ i <= Len(result.blocks)

OptimizeErase ==
  /\ Optimizing /\ result.blocks[i].bits = {}
  /\ result' = [result EXCEPT !.blocks = RemoveAt(@, i)]
  /\ UNCHANGED <<operands, ops, next, pc, m, ptr, i>>

OptimizeFirst ==
  /\ Optimizing /\ result.blocks[i].bits # {} /\ i = 1
  /\ result' = [result EXCEPT !.blocks[1] = Trim(@),
                             !.startPos = First(result.blocks[1].bits)]
  /\ i' = 2
  /\ UNCHANGED <<operands, ops, next, pc, m, ptr>>

OptimizeMerge ==
  /\ Optimizing /\ result.blocks[i].bits # {} /\ i > 1
  /\ LET b      == Trim(result.blocks[i])
         merged == MergeInto(result.blocks[i - 1], b)
         kept   == [result EXCEPT !.blocks[i - 1] = merged.prev]
     IN  IF merged.full = 0
           THEN result' = [kept EXCEPT !.blocks = RemoveAt(@, i)] /\ i' = i
           ELSE /\ result' = [kept EXCEPT !.blocks[i] =
                                [CutRight(b, merged.full) EXCEPT !.currPos = merged.full]]
                /\ i' = i + 1
  /\ UNCHANGED <<operands, ops, next, pc, m, ptr>>

OptimizeEnd ==
  /\ pc = "optimize" /\ i > Len(result.blocks)
  /\ result' = [result EXCEPT !.currBlockNum = 0]
  /\ pc' = "parse" /\ next' = next + 1
  /\ UNCHANGED <<operands, ops, m, ptr, i>>

\* The condition is at its end; getPosFilter has returned.
Returned ==
  /\ pc = "parse" /\ next = Operands + 1
  /\ UNCHANGED vars

Next ==
  \/ ParseShortcut \/ ParseOperand \/ Returned
  \/ AndSkip \/ AndMerge \/ AndEnd
  \/ OrOnlyOne \/ OrSkip \/ OrMerge \/ OrEnd
  \/ OptimizeErase \/ OptimizeFirst \/ OptimizeMerge \/ OptimizeEnd

\* One thread runs getPosFilter to its end.
Spec == Init /\ [][Next]_vars /\ WF_vars(Next)

----------------------------------------------------------------------------
(* Properties *)

\* The positions the first k operands select, combined from left to right.
Expected ==
  LET Step(S, k) == IF ops[k] = "&" THEN S \cap Selected(operands[k])
                                    ELSE S \cup Selected(operands[k])
  IN  FoldLeft(Step, Selected(operands[1]), [k \in 1 .. next - 2 |-> k + 1])

TypeOK ==
  /\ operands \in [1 .. Operands -> Filter]
  /\ m \in [1 .. 2 -> Filter] /\ result \in Filter
  /\ \A s \in 1 .. 2 : ptr[s] = Null \/
       /\ ptr[s].side \in 1 .. 2
       /\ ptr[s].idx \in 1 .. Len(m[ptr[s].side].blocks)
       /\ ptr[s].int \in 1 .. LastInt(m, ptr[s])
  /\ next \in 2 .. Operands + 1 /\ i \in Nat

\* What is handed on is close to a filter a scan would build: its blocks fit their
\* bitmaps, do not begin with zeros and begin one behind the other.  A block may
\* begin in front of the end of an earlier one, but by less than a word, and only
\* where OR has been applied: when two blocks run out of words together OrMerge does
\* not cut what it combines.  Words have two bits or more.
ResultOrdered ==
  pc = "parse" =>
    \A k \in 1 .. Len(result.blocks) :
      LET b == result.blocks[k]
      IN  /\ b.start \in b.bits /\ Fits(b.start, b.end)
          /\ \A j \in 1 .. k - 1 :
               /\ result.blocks[j].start < b.start
               /\ result.blocks[j].end < b.start + IntBits - 2
               /\ (\A n \in 2 .. next - 1 : ops[n] = "&") => result.blocks[j].end < b.start

\* The types of the variables, and what the next operand and the readers rely on.
WellFormed == TypeOK /\ ResultOrdered

\* A combined filter selects no row the predicates do not, over any number of
\* blocks, and whatever is lost on the way.
ResultSound == pc = "parse" => Selected(result) \subseteq Expected

\* The positions of all operands together fit one block.
OneBlock ==
  LET S == UNION {PositionsOf(operands[k]) : k \in 1 .. Operands}
  IN  \A p, q \in S : Fits(p, q)

\* Nothing is lost where it must not be: as long as the positions of all operands
\* fit one block, AND and OR in any sequence give exactly the rows the condition
\* describes, whatever words the filters begin and end in; and OR does so over any
\* number of blocks, for every turn that leaves a block has copied or combined what
\* was left of it.
ResultExact ==
  pc = "parse" /\ (OneBlock \/ \A k \in 2 .. next - 1 : ops[k] = "|")
    => Selected(result) = Expected

\* What is left of the phase: the words from each pointer to the end of its block
\* and the blocks behind currBlockNum; the blocks optimize has not been at.
RestOf(p) == IF p = Null THEN 0 ELSE 1 + IntsLeft(m, p)
Unread(s) ==
  LET Add(n, k) == n + Words(m[s].blocks[k].start, m[s].blocks[k].end)
  IN  FoldLeft(Add, 0, [k \in 1 .. Len(m[s].blocks) - m[s].currBlockNum - 1 |->
                          m[s].currBlockNum + 1 + k])
Left ==
  CASE pc = "walk"     -> RestOf(ptr[1]) + RestOf(ptr[2]) + Unread(1) + Unread(2)
    [] pc = "optimize" -> Len(result.blocks) + 1 - i
    [] OTHER           -> 0

PhasesLeft ==
  3 * (Operands - next) + (CASE pc = "parse" -> 3 [] pc = "walk" -> 2 [] OTHER -> 1)

\* Every turn of the loops of doAndCaculate, doOrCaculate and optimize
\* (PosOperator.cpp:213, :320, MultiPosFilterBlock.cpp:159) takes something off
\* what is left, whichever pointers are swapped and blocks are cut on the way:
\* no condition makes them turn for ever.
TurnsMoveOn ==
  [][\/ PhasesLeft' < PhasesLeft
     \/ PhasesLeft' = PhasesLeft /\ Left' < Left]_vars

\* "Parse the where conditions and do "And" "Or" Caculate to get the final
\* position filters" (PosOperator.h): what AND selects, over several blocks too.
AndExact ==
  pc = "parse" /\ (\A k \in 2 .. next - 1 : ops[k] = "&") => Selected(result) = Expected

=============================================================================
