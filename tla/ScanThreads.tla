----------------------------- MODULE ScanThreads ------------------------------
(***************************************************************************)
(* How a query runs the scans of its columns: one after the other, in a    *)
(* parallel loop, or each on a thread of its own that is waited for, but   *)
(* for five seconds only (BlockPrinter, MULTITHREAD_WAY 2).  A thread      *)
(* writes its filter into its parameters, the query takes the filters from *)
(* there and frees the parameters, whether the threads have ended or not.  *)
(***************************************************************************)
EXTENDS Naturals

CONSTANT Columns  \* columns of the query: 1 .. Columns

ASSUME ColumnsAssumption == Columns \in Nat \ {0}

Cols == 1 .. Columns

VARIABLES
  way,        \* MULTITHREAD_WAY: "single", "loop", "threads"
  main,       \* what the query does: "scan", "wait", "take", "combine", "answer",
              \* "crashed"
  scan,       \* of each column: "none", "running", "failed" to start, "done"
  operand,    \* what addPosBlock was given: "none", "null", "filter"
  freed,      \* pParams is deleted
  timedOut,   \* history: the wait ended before the threads
  corrupted   \* history: a thread wrote to parameters that were deleted

threads == <<way, main, scan, operand, freed, timedOut, corrupted>>

ThreadsInit ==
  /\ way \in {"single", "loop", "threads"}
  /\ main = "scan"
  /\ scan = [c \in Cols |-> "none"]
  /\ operand = [c \in Cols |-> "none"]
  /\ freed = FALSE /\ timedOut = FALSE /\ corrupted = FALSE

AllDone == \A c \in Cols : scan[c] = "done"

\* In turn, or in the loop, which is joined at its end.
RunScan(c) ==
  /\ main = "scan" /\ way \in {"single", "loop"} /\ scan[c] = "none"
  /\ way = "single" => \A d \in 1 .. c - 1 : scan[d] = "done"
  /\ scan' = [scan EXCEPT ![c] = "done"]
  /\ main' = IF \A d \in Cols \ {c} : scan[d] = "done" THEN "take" ELSE "scan"
  /\ UNCHANGED <<way, operand, freed, timedOut, corrupted>>

\* _beginthreadex for every column; those it cannot start have no handle.
BeginThreads ==
  /\ main = "scan" /\ way = "threads"
  /\ scan' \in [Cols -> {"running", "failed"}]
  /\ main' = "wait"
  /\ UNCHANGED <<way, operand, freed, timedOut, corrupted>>

\* threadFunc_DataSrc: getPosOnPred, and the result to the parameters.
ThreadEnds(c) ==
  /\ main # "crashed" /\ scan[c] = "running"
  /\ scan' = [scan EXCEPT ![c] = "done"]
  /\ corrupted' = (corrupted \/ freed)
  /\ UNCHANGED <<way, main, operand, freed, timedOut>>

\* For all of them, or until the time is over; for no thread at all when one of
\* the handles is none.
WaitForMultipleObjects ==
  /\ main = "wait" /\ main' = "take"
  /\ timedOut' = \E c \in Cols : scan[c] = "running"
  /\ UNCHANGED <<way, scan, operand, freed, corrupted>>

\* pResult is NULL until the thread has written it.
TakeResult(c) ==
  /\ main = "take" /\ operand[c] = "none"
  /\ \A d \in 1 .. c - 1 : operand[d] # "none"
  /\ operand' = [operand EXCEPT ![c] = IF scan[c] = "done" THEN "filter" ELSE "null"]
  /\ UNCHANGED <<way, main, scan, freed, timedOut, corrupted>>

DeleteParams ==
  /\ main = "take" /\ \A c \in Cols : operand[c] # "none"
  /\ freed' = (way = "threads")
  /\ main' = "combine"
  /\ UNCHANGED <<way, scan, operand, timedOut, corrupted>>

ParsesAny ==  \* variant: an operand that is NULL is passed over
  \E c \in Cols : operand[c] = "filter"
\* Every operand is cloned, and a NULL is not one.
Parses == \A c \in Cols : operand[c] = "filter"

GetPosFilter ==
  /\ main = "combine"
  /\ main' = IF Parses THEN "answer" ELSE "crashed"
  /\ UNCHANGED <<way, scan, operand, freed, timedOut, corrupted>>

ThreadsTypeOK ==
  /\ way \in {"single", "loop", "threads"}
  /\ main \in {"scan", "wait", "take", "combine", "answer", "crashed"}
  /\ scan \in [Cols -> {"none", "running", "failed", "done"}]
  /\ operand \in [Cols -> {"none", "null", "filter"}]
  /\ freed \in BOOLEAN /\ timedOut \in BOOLEAN /\ corrupted \in BOOLEAN
=============================================================================
