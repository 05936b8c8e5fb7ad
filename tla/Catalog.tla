------------------------------ MODULE Catalog -------------------------------
(***************************************************************************)
(* The system catalogue: ProjMaker::createProjection and getProjection,    *)
(* called by several threads of a process, each with a ProjMaker of its    *)
(* own, on one transactional Berkeley DB environment, with failing calls   *)
(* and crashes of the process.                                             *)
(*                                                                         *)
(* Berkeley DB is external, and taken to do what its flags ask for: page   *)
(* locks held to the end of a transaction, no deadlock detection (nobody   *)
(* calls set_lk_detect), writes in place that an abort or a recovery takes *)
(* back, errors as exceptions, and a handle that was opened in a           *)
(* transaction is of no use while that transaction is open and after it    *)
(* has aborted.                                                            *)
(***************************************************************************)
EXTENDS Naturals, FiniteSets

CONSTANTS
  Makers,     \* threads, each with its ProjMaker
  Names,      \* names of projections
  Nobody,     \* no caller, no name
  Pages,      \* pages of $SYS$PROJECTION
  NumColumns, \* columns of a projection
  MaxCalls, MaxFails, MaxCrashes  \* bounds of the history

ASSUME CatalogAssumption ==
  /\ NumColumns \in Nat \ {0}
  /\ MaxCalls \in Nat /\ MaxFails \in Nat /\ MaxCrashes \in Nat
  /\ Nobody \notin Makers /\ Nobody \notin Names
  /\ Pages \cap {"master", "column", "secondary", "none"} = {}

\* A row of $SYS$PROJECTION, of $SYS$COLUMN, or of the secondary index on the
\* name of the projection.
Tables == {"projection", "column", "secondary"}
Row == [table : Tables, name : Names, by : Makers, no : 0 .. NumColumns]

\* What is locked: the master database with the names of the tables, the pages of
\* the projections, and the pages of the columns and of their index.
Resources == {"master", "column", "secondary"} \cup Pages
Lock == [on : Resources, mode : {"S", "X"}]

Steps == {"idle", "open", "projection", "column", "secondary", "commit"}
Call == [kind : {"create", "get"}, name : Names \cup {Nobody},
         step : Steps, no : 0 .. NumColumns]

VARIABLES
  pageOf,   \* the page of the row of each projection
  store,    \* the rows in place, committed or not
  added,    \* those the open transaction of each call has put
  locks,    \* those it holds
  strayed, leaked,  \* rows and locks of transactions nobody will ever end
  handles,  \* of each ProjMaker: none, opening, open, or of no use
  call,     \* the call each thread is in
  answer,   \* what its last lookup returned
  calls, fails, crashes  \* history

bounds == <<calls, fails, crashes>>
vars == <<pageOf, store, added, locks, strayed, leaked, handles, call, answer, bounds>>

NoCall == [kind |-> "get", name |-> Nobody, step |-> "idle", no |-> 0]
NoAnswer == [name |-> Nobody, by |-> Nobody]

Init ==
  /\ pageOf \in [Names -> Pages]
  /\ store = {} /\ strayed = {} /\ leaked = {}
  /\ added = [m \in Makers |-> {}]
  /\ locks = [m \in Makers |-> {}]
  /\ handles = [m \in Makers |-> "none"]
  /\ call = [m \in Makers |-> NoCall]
  /\ answer = [m \in Makers |-> NoAnswer]
  /\ calls = 0 /\ fails = 0 /\ crashes = 0

----------------------------------------------------------------------------
(* Locks *)

Conflict(held, res, mode) == held.on = res /\ (held.mode = "X" \/ mode = "X")

\* The threads a request of m waits for, and whether it waits for a transaction
\* that was left open.
Holders(m, res, mode) ==
  {k \in Makers \ {m} : \E held \in locks[k] : Conflict(held, res, mode)}
Behind(res, mode) == \E held \in leaked : Conflict(held, res, mode)

Free(m, res, mode) == Holders(m, res, mode) = {} /\ ~ Behind(res, mode)

Acquire(m, res, mode) ==
  /\ Free(m, res, mode)
  /\ locks' = [locks EXCEPT ![m] = @ \cup {[on |-> res, mode |-> mode]}]

At(m, kind, step) == call[m].kind = kind /\ call[m].step = step
Goto(m, step) == call' = [call EXCEPT ![m].step = step]

----------------------------------------------------------------------------
(* The begin and the end of a transaction *)

\* txn_begin
Begin(m, kind, n) ==
  /\ call[m].step = "idle" /\ calls < MaxCalls
  /\ call' = [call EXCEPT ![m] = [kind |-> kind, name |-> n, step |-> "open", no |-> 0]]
  /\ answer' = [answer EXCEPT ![m] = NoAnswer]
  /\ calls' = calls + 1
  /\ UNCHANGED <<pageOf, store, added, locks, strayed, leaked, handles, fails, crashes>>

\* What becomes of the handles this transaction has opened.
HandlesEnd(m, fate) ==
  handles' = [handles EXCEPT ![m] = IF @ = "opening" THEN fate ELSE @]

Ended(m) ==
  /\ call' = [call EXCEPT ![m] = NoCall]
  /\ added' = [added EXCEPT ![m] = {}]
  /\ locks' = [locks EXCEPT ![m] = {}]

CommitKeepsLocks(m) ==  \* variant: the transaction is not ended
  /\ call' = [call EXCEPT ![m] = NoCall]
  /\ added' = [added EXCEPT ![m] = {}]
  /\ HandlesEnd(m, "open")
  /\ UNCHANGED <<locks, store, strayed, leaked>>
Commit(m) ==
  /\ Ended(m) /\ HandlesEnd(m, "open")
  /\ UNCHANGED <<store, strayed, leaked>>

Abort(m) ==
  /\ Ended(m) /\ HandlesEnd(m, "dead")
  /\ store' = store \ added[m]
  /\ UNCHANGED <<strayed, leaked>>

\* The call returns, its transaction stays open.
LeaveOpen(m) ==
  /\ Ended(m) /\ HandlesEnd(m, "dead")
  /\ strayed' = strayed \cup added[m]
  /\ leaked' = leaked \cup locks[m]
  /\ UNCHANGED store

----------------------------------------------------------------------------
(* initDbStruc *)

OpenEachTime(m) ==  \* variant: the databases are opened by every call
  \E mode \in {"S", "X"} :
    /\ Acquire(m, "master", mode)
    /\ handles' = [handles EXCEPT ![m] = "opening"]
\* The databases are opened by the first call of a ProjMaker, in its transaction;
\* the master database is locked for reading, or for writing where they are new.
Open(m) ==
  \/ /\ handles[m] = "none"
     /\ \E mode \in {"S", "X"} : Acquire(m, "master", mode)
     /\ handles' = [handles EXCEPT ![m] = "opening"]
  \/ /\ handles[m] = "open"
     /\ UNCHANGED <<locks, handles>>

InitDbStruc(m) ==
  /\ call[m].step = "open" /\ handles[m] # "dead"
  /\ Open(m)
  /\ Goto(m, "projection")
  /\ UNCHANGED <<pageOf, store, added, strayed, leaked, answer, bounds>>

\* initialized is set: the next call finds handles it cannot use, and throws.
UseDead(m) ==
  /\ call[m].step = "open" /\ handles[m] = "dead"
  /\ call' = [call EXCEPT ![m] = NoCall]
  /\ UNCHANGED <<pageOf, store, added, locks, strayed, leaked, handles, answer, bounds>>

----------------------------------------------------------------------------
(* createProjection *)

Put(m, table, no) ==
  LET row == [table |-> table, name |-> call[m].name, by |-> m, no |-> no]
  IN  /\ store' = store \cup {row}
      /\ added' = [added EXCEPT ![m] = @ \cup {row}]

Defined(n) == \E r \in store : r.table = "projection" /\ r.name = n

PutOverwrites(m) ==  \* variant: without DB_NOOVERWRITE
  /\ Acquire(m, pageOf[call[m].name], "X")
  /\ Put(m, "projection", 0) /\ Goto(m, "column")
  /\ UNCHANGED <<strayed, leaked, handles>>
\* The row of the projection, which must be new.
PutProjection(m) ==
  \/ /\ ~ Defined(call[m].name)
     /\ Acquire(m, pageOf[call[m].name], "X")
     /\ Put(m, "projection", 0)
     /\ Goto(m, "column")
     /\ UNCHANGED <<strayed, leaked, handles>>
  \/ /\ Defined(call[m].name)
     /\ Free(m, pageOf[call[m].name], "X")
     /\ Abort(m)

\* A column, and then its entry in the index.
PutColumn(m) ==
  /\ Acquire(m, "column", "X")
  /\ Put(m, "column", call[m].no + 1)
  /\ Goto(m, "secondary")
  /\ UNCHANGED <<strayed, leaked, handles>>

PutSecondary(m) ==
  /\ Acquire(m, "secondary", "X")
  /\ Put(m, "secondary", call[m].no + 1)
  /\ call' = [call EXCEPT ![m].no = @ + 1,
                          ![m].step = IF call[m].no + 1 = NumColumns
                                        THEN "commit" ELSE "column"]
  /\ UNCHANGED <<strayed, leaked, handles>>

CreateStep(m) ==
  /\ \/ At(m, "create", "projection") /\ PutProjection(m)
     \/ At(m, "create", "column")     /\ PutColumn(m)
     \/ At(m, "create", "secondary")  /\ PutSecondary(m)
     \/ At(m, "create", "commit")     /\ Commit(m)
  /\ UNCHANGED <<pageOf, answer, bounds>>

----------------------------------------------------------------------------
(* getProjection *)

ReadUnlocked(m) ==  \* variant: the row is read outside of the transaction
  /\ Defined(call[m].name) /\ Goto(m, "secondary")
  /\ UNCHANGED <<store, added, locks, strayed, leaked, handles, answer>>
\* The row of the projection; when there is none, the function returns NULL at once.
ReadProjection(m) ==
  \/ /\ Defined(call[m].name)
     /\ Acquire(m, pageOf[call[m].name], "S")
     /\ Goto(m, "secondary")
     /\ UNCHANGED <<store, added, strayed, leaked, handles, answer>>
  \/ /\ ~ Defined(call[m].name)
     /\ Free(m, pageOf[call[m].name], "S")
     /\ answer' = [answer EXCEPT ![m] = [name |-> call[m].name, by |-> Nobody]]
     /\ call' = [call EXCEPT ![m] = NoCall]
     /\ locks' = [locks EXCEPT ![m] = {}]
     /\ leaked' = leaked \cup locks[m]
                    \cup {[on |-> pageOf[call[m].name], mode |-> "S"]}
     /\ HandlesEnd(m, "dead")
     /\ UNCHANGED <<store, added, strayed>>

\* pget looks into the index and goes from there to the columns.
ReadSecondary(m) ==
  /\ Acquire(m, "secondary", "S")
  /\ Goto(m, "column")
  /\ UNCHANGED <<store, added, strayed, leaked, handles, answer>>

ReadColumn(m) ==
  /\ Acquire(m, "column", "S")
  /\ Goto(m, "commit")
  /\ UNCHANGED <<store, added, strayed, leaked, handles, answer>>

Indexed(n) ==
  {r \in store : /\ r.table = "column" /\ r.name = n
                 /\ [r EXCEPT !.table = "secondary"] \in store}

\* The creator of a projection all columns of which are there; a mixture, or a
\* part of them, is nobody's.
CreatorOf(rows) ==
  IF \E m \in Makers : {<<r.by, r.no>> : r \in rows} = {m} \X (1 .. NumColumns)
    THEN CHOOSE m \in Makers : \A r \in rows : r.by = m
    ELSE Nobody

Return(m) ==
  /\ answer' = [answer EXCEPT ![m] = [name |-> call[m].name,
                                      by |-> CreatorOf(Indexed(call[m].name))]]
  /\ Commit(m)

GetStep(m) ==
  /\ \/ At(m, "get", "projection") /\ ReadProjection(m)
     \/ At(m, "get", "secondary")  /\ ReadSecondary(m)
     \/ At(m, "get", "column")     /\ ReadColumn(m)
     \/ At(m, "get", "commit")     /\ Return(m)
  /\ UNCHANGED <<pageOf, bounds>>

----------------------------------------------------------------------------
(* Failures *)

\* A call of Berkeley DB throws (no memory, no lock, no space): the exception
\* leaves the method, and the transaction is left open.
Fail(m) ==
  /\ call[m].step # "idle" /\ handles[m] # "dead" /\ fails < MaxFails
  /\ LeaveOpen(m)
  /\ fails' = fails + 1
  /\ UNCHANGED <<pageOf, answer, calls, crashes>>

\* ~ProjMaker closes the handles; the thread goes on with a new one.
Discard(m) ==
  /\ call[m].step = "idle" /\ handles[m] # "none"
  /\ handles' = [handles EXCEPT ![m] = "none"]
  /\ UNCHANGED <<pageOf, store, added, locks, strayed, leaked, call, answer, bounds>>

Uncommitted == strayed \cup UNION {added[m] : m \in Makers}

\* The process ends, and initDbEnv recovers the environment (DB_RECOVER).
Crash ==
  /\ crashes < MaxCrashes
  /\ crashes' = crashes + 1
  /\ store' = store \ Uncommitted
  /\ strayed' = {} /\ leaked' = {}
  /\ added' = [m \in Makers |-> {}]
  /\ locks' = [m \in Makers |-> {}]
  /\ handles' = [m \in Makers |-> "none"]
  /\ call' = [m \in Makers |-> NoCall]
  /\ answer' = [m \in Makers |-> NoAnswer]
  /\ UNCHANGED <<pageOf, calls, fails>>

Step(m) == InitDbStruc(m) \/ UseDead(m) \/ CreateStep(m) \/ GetStep(m)

Next ==
  \/ \E m \in Makers :
       \/ \E kind \in {"create", "get"}, n \in Names : Begin(m, kind, n)
       \/ Step(m) \/ Fail(m) \/ Discard(m)
  \/ Crash

\* A thread goes on when its lock is free; a call is not promised to be made.
Spec == Init /\ [][Next]_vars /\ \A m \in Makers : WF_vars(Step(m))

----------------------------------------------------------------------------
(* Properties *)

\* The types of the variables; a thread that is in no call has neither rows nor
\* locks of its own, and what is not committed is in place.
TypeOK ==
  /\ pageOf \in [Names -> Pages] /\ store \subseteq Row
  /\ added \in [Makers -> SUBSET store] /\ strayed \subseteq store
  /\ locks \in [Makers -> SUBSET Lock] /\ leaked \subseteq Lock
  /\ handles \in [Makers -> {"none", "opening", "open", "dead"}]
  /\ call \in [Makers -> Call]
  /\ answer \in [Makers -> [name : Names \cup {Nobody}, by : Makers \cup {Nobody}]]
  /\ calls \in 0 .. MaxCalls /\ fails \in 0 .. MaxFails /\ crashes \in 0 .. MaxCrashes
  /\ \A m \in Makers : call[m].step = "idle" => added[m] = {} /\ locks[m] = {}

\* Of the projections that are committed, by whom.
Committed(n) ==
  LET rows == {r \in store \ Uncommitted : r.name = n}
  IN  IF rows = {} THEN Nobody
      ELSE IF {r \in rows : r.table # "projection"} =
                {r \in rows : r.table = "column"} \cup
                {[r EXCEPT !.table = "secondary"] : r \in {q \in rows : q.table = "column"}}
           THEN CreatorOf({r \in rows : r.table = "column"}) ELSE Nobody

\* Creating and looking up are atomic, and creating is durable, although a
\* projection is written row by row and read back through an index, other threads
\* do the same on the same pages, calls fail in the middle of it and the process
\* ends at any moment (ProjMaker.cpp:93-120, 145-180).
Promise == INSTANCE CatalogPromise WITH catalog <- [n \in Names |-> Committed(n)]
IsAtomic == Promise!Spec

\* The lock a thread asks for next.
Wants(m) ==
  CASE call[m].step = "open" /\ handles[m] = "none" -> [on |-> "master", mode |-> "S"]
    [] call[m].step = "projection" ->
         [on |-> pageOf[call[m].name], mode |-> IF call[m].kind = "get" THEN "S" ELSE "X"]
    [] call[m].step \in {"column", "secondary"} ->
         [on |-> call[m].step, mode |-> IF call[m].kind = "get" THEN "S" ELSE "X"]
    [] OTHER -> [on |-> "none", mode |-> "S"]
WaitsFor(m) == Holders(m, Wants(m).on, Wants(m).mode)

\* Two threads wait for each other only when one writes a column and the other one
\* reads columns, of projections whose rows are on different pages: the one goes
\* from the columns to the index, the other one from the index to the columns.  On
\* one page the row of the projection keeps them apart (ProjMaker.cpp:114, 169).
DeadlockOnlyByIndex ==
  \A m, k \in Makers :
    k \in WaitsFor(m) /\ m \in WaitsFor(k) =>
      /\ {Wants(m).on, Wants(k).on} = {"column", "secondary"}
      /\ call[m].kind # call[k].kind
      /\ pageOf[call[m].name] # pageOf[call[k].name]

\* A thread that waits for ever: behind a transaction that a lookup that missed, or
\* a call that threw, has left open, or in a ring, or behind such a thread.
Hung(m) ==
  \/ Behind(Wants(m).on, Wants(m).mode)
  \/ \E k \in WaitsFor(m) : m \in WaitsFor(k) \/ Behind(Wants(k).on, Wants(k).mode)

\* A call returns, unless it waits for ever, with another one or behind a
\* transaction that nobody ends.
CallEnds ==
  \A m \in Makers : (call[m].step # "idle") ~> (call[m].step = "idle" \/ Hung(m))

\* Once a call has succeeded on a ProjMaker, no call spoils it for the next ones,
\* not a refused one and not one that throws; before, one does, for initialized is
\* set in the transaction of the first call and outlives it (ProjMaker.cpp:48, 95).
UsableOnceUsed ==
  [][\A m \in Makers : handles[m] = "open" => handles'[m] \in {"open", "none"}]_vars
=============================================================================
