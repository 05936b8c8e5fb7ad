--------------------------- MODULE CatalogProofs ----------------------------
(***************************************************************************)
(* Theorems about the system catalogue, for any number of threads, names,  *)
(* pages and columns, of failing calls and of crashes: what createProjec-  *)
(* tion and getProjection do to the tables implements CatalogPromise, and  *)
(* two threads wait for each other in one way only.                        *)
(***************************************************************************)
EXTENDS Catalog, TLAPS

----------------------------------------------------------------------------
(* The inductive invariant *)

\* That a reader finds a projection whole, or not at all, rests on the rows of each
\* projection being in one transaction, on what a transaction has put at each step,
\* and on the locks that keep the transactions apart.

\* The rows a creator m has put of a projection n: c columns, s of them indexed.
RowsOf(m, n, c, s) ==
  {[table |-> "projection", name |-> n, by |-> m, no |-> 0]}
  \cup {[table |-> "column", name |-> n, by |-> m, no |-> j] : j \in 1 .. c}
  \cup {[table |-> "secondary", name |-> n, by |-> m, no |-> j] : j \in 1 .. s}
Whole(m, n) == RowsOf(m, n, NumColumns, NumColumns)

Typed ==
  /\ pageOf \in [Names -> Pages] /\ store \subseteq Row
  /\ added \in [Makers -> SUBSET store] /\ strayed \subseteq store
  /\ locks \in [Makers -> SUBSET Lock] /\ leaked \subseteq Lock
  /\ handles \in [Makers -> {"none", "opening", "open", "dead"}]
  /\ call \in [Makers -> Call]
  /\ answer \in [Makers -> [name : Names \cup {Nobody}, by : Makers \cup {Nobody}]]
  /\ calls \in 0 .. MaxCalls /\ fails \in 0 .. MaxFails /\ crashes \in 0 .. MaxCrashes

\* How far a call has come with the columns.
CallShape ==
  \A m \in Makers :
    /\ call[m].step = "idle" => call[m] = NoCall
    /\ call[m].step # "idle" => call[m].name \in Names
    /\ call[m].step \in {"open", "projection"} => call[m].no = 0
    /\ call[m].step \in {"column", "secondary"} => call[m].no < NumColumns
    /\ At(m, "create", "commit") => call[m].no = NumColumns

\* What the transaction of a call has put.
Puts(m) == call[m].kind = "create" /\ call[m].step \in {"column", "secondary", "commit"}
PutSoFar ==
  \A m \in Makers :
    added[m] = IF Puts(m)
                 THEN RowsOf(m, call[m].name,
                             IF call[m].step = "secondary" THEN call[m].no + 1
                                                           ELSE call[m].no,
                             call[m].no)
                 ELSE {}

\* The rows of a projection: all of them are in one open transaction, or in one
\* that is left open, or they are whole; and one of them is in $SYS$PROJECTION.
Named(n) == {r \in store : r.name = n}
OneTransaction ==
  \A m \in Makers : Puts(m) => Named(call[m].name) = added[m] /\ added[m] \cap strayed = {}
AllStray ==
  \A n \in Names : Named(n) \cap strayed # {} => Named(n) \subseteq strayed
WholeOrOpen ==
  \A n \in Names :
    Named(n) # {} =>
      /\ Defined(n)
      /\ \/ Named(n) \cap Uncommitted # {}
         \/ \E m \in Makers : Named(n) = Whole(m, n)

\* The locks of a call: it holds those of the tables it has been at, for writing in
\* createProjection and for reading in getProjection ...
On(res, kind) == [on |-> res, mode |-> IF kind = "create" THEN "X" ELSE "S"]
HoldsWhatItUsed ==
  \A m \in Makers :
    /\ call[m].step \in {"column", "secondary", "commit"} =>
         On(pageOf[call[m].name], call[m].kind) \in locks[m]
    /\ call[m].kind = "create" =>
         /\ call[m].step = "secondary" \/ call[m].no > 0 => On("column", "create") \in locks[m]
         /\ call[m].no > 0 => On("secondary", "create") \in locks[m]
    /\ call[m].kind = "get" /\ call[m].step \in {"column", "commit"} =>
         On("secondary", "get") \in locks[m]

\* ... and no other ones.
Used(m, res) ==
  \/ res = "master"
  \/ /\ res = pageOf[call[m].name]
     /\ call[m].step \in {"column", "secondary", "commit"}
  \/ /\ res = "column"
     /\ \/ call[m].step = "commit"
        \/ call[m].kind = "create" /\ (call[m].step = "secondary" \/ call[m].no > 0)
  \/ /\ res = "secondary"
     /\ \/ call[m].step = "commit"
        \/ IF call[m].kind = "create" THEN call[m].no > 0 ELSE call[m].step = "column"
HoldsNoMore ==
  \A m \in Makers :
    /\ call[m].step \in {"idle", "open"} => locks[m] = {}
    /\ \A held \in locks[m] : Used(m, held.on)

\* Locks that are held together are compatible, also with those of transactions that
\* are left open; and what these have put is locked for ever.
Compatible ==
  \A m \in Makers : \A held \in locks[m] :
    /\ \A k \in Makers \ {m} : \A other \in locks[k] : ~ Conflict(held, other.on, other.mode)
    /\ \A other \in leaked : ~ Conflict(held, other.on, other.mode)
StrayLocked == \A r \in strayed : [on |-> pageOf[r.name], mode |-> "X"] \in leaked

IInv ==
  /\ Typed /\ CallShape /\ PutSoFar /\ OneTransaction /\ AllStray /\ WholeOrOpen
  /\ HoldsWhatItUsed /\ HoldsNoMore /\ Compatible /\ StrayLocked

----------------------------------------------------------------------------
(* The steps *)

\* What a step of one thread is.
StepOf(m) ==
  \/ \E kind \in {"create", "get"}, n \in Names : Begin(m, kind, n)
  \/ Step(m) \/ Fail(m) \/ Discard(m)

\* A refused createProjection has put nothing that its abort would take back.
LEMMA AbortsNothing ==
  ASSUME IInv, NEW m \in Makers, At(m, "create", "projection")
  PROVE  added[m] = {}
BY DEF IInv, PutSoFar, Puts, At

LEMMA AcquireTyped ==
  ASSUME Typed, NEW m \in Makers, NEW res \in Resources, NEW mode \in {"S", "X"},
         Acquire(m, res, mode)
  PROVE  locks' \in [Makers -> SUBSET Lock]
<1>1. [on |-> res, mode |-> mode] \in Lock
  BY DEF Lock
<1> QED BY <1>1 DEF Acquire, Typed

LEMMA GotoTyped ==
  ASSUME Typed, NEW m \in Makers, NEW step \in Steps, Goto(m, step)
  PROVE  call' \in [Makers -> Call]
BY DEF Goto, Typed, Call

\* What the step of m leaves of the calls and locks of all threads.
LEMMA GotoIs ==
  ASSUME Typed, NEW m \in Makers, NEW step \in Steps, Goto(m, step)
  PROVE  /\ \A k \in Makers \ {m} : call'[k] = call[k]
         /\ call'[m].kind = call[m].kind /\ call'[m].name = call[m].name
         /\ call'[m].step = step /\ call'[m].no = call[m].no
BY DEF Goto, Typed, Call

LEMMA AcquireIs ==
  ASSUME Typed, NEW m \in Makers, NEW res, NEW mode, Acquire(m, res, mode)
  PROVE  /\ \A k \in Makers \ {m} : locks'[k] = locks[k]
         /\ locks'[m] = locks[m] \cup {[on |-> res, mode |-> mode]}
BY DEF Acquire, Typed

LEMMA EndTyped ==
  ASSUME Typed, NEW m \in Makers, call' = [call EXCEPT ![m] = NoCall]
  PROVE  call' \in [Makers -> Call]
<1>1. NoCall \in Call
  BY CatalogAssumption DEF NoCall, Call, Steps
<1> QED BY <1>1 DEF Typed

LEMMA PutTyped ==
  ASSUME Typed, NEW m \in Makers, call[m].name \in Names,
         NEW table \in Tables, NEW no \in 0 .. NumColumns, Put(m, table, no)
  PROVE  store' \subseteq Row /\ added' \in [Makers -> SUBSET store'] /\ strayed \subseteq store'
<1>1. [table |-> table, name |-> call[m].name, by |-> m, no |-> no] \in Row
  BY DEF Row
<1> QED BY <1>1 DEF Put, Typed

\* Who has created the rows of a set of columns that is complete.
LEMMA CreatorIs ==
  ASSUME NEW m \in Makers, NEW rows, {<<r.by, r.no>> : r \in rows} = {m} \X (1 .. NumColumns)
  PROVE  CreatorOf(rows) = m
<1> DEFINE pairs == {<<r.by, r.no>> : r \in rows}
<1>1. \A r \in rows : r.by = m
  <2>1. \A r \in rows : <<r.by, r.no>> \in {m} \X (1 .. NumColumns)
    OBVIOUS
  <2> QED BY <2>1
<1>2. PICK r \in rows : r.by = m
  <2>1. <<m, 1>> \in {m} \X (1 .. NumColumns)
    BY CatalogAssumption
  <2>2. pairs # {}
    BY <2>1
  <2> QED BY <1>1, <2>2
<1>3. \A k \in Makers : (\A q \in rows : q.by = k) => k = m
  BY <1>1, <1>2
<1> QED BY <1>1, <1>3 DEF CreatorOf

LEMMA CreatorTyped ==
  ASSUME NEW rows
  PROVE  CreatorOf(rows) \in Makers \cup {Nobody}
<1>1. ASSUME NEW m \in Makers, {<<r.by, r.no>> : r \in rows} = {m} \X (1 .. NumColumns)
      PROVE  CreatorOf(rows) \in Makers
  BY <1>1, CreatorIs
<1> QED BY <1>1 DEF CreatorOf

LEMMA TypedStep ==
  ASSUME IInv, [Next]_vars
  PROVE  Typed'
<1> USE DEF IInv, Typed
<1>1. CASE UNCHANGED vars
  BY <1>1 DEF vars, bounds
<1>2. ASSUME NEW m \in Makers, NEW kind \in {"create", "get"}, NEW n \in Names, Begin(m, kind, n)
      PROVE  Typed'
  BY <1>2, CatalogAssumption DEF Begin, Call, Steps, NoAnswer
<1>3. ASSUME NEW m \in Makers, InitDbStruc(m) PROVE Typed'
  <2>1. locks' \in [Makers -> SUBSET Lock]
    BY <1>3, AcquireTyped DEF InitDbStruc, Open, Resources
  <2>2. call' \in [Makers -> Call]
    BY <1>3, GotoTyped DEF InitDbStruc, Steps
  <2> QED BY <1>3, <2>1, <2>2 DEF InitDbStruc, Open, bounds
<1>4. ASSUME NEW m \in Makers, UseDead(m) PROVE Typed'
  BY <1>4, CatalogAssumption DEF UseDead, NoCall, Call, Steps, bounds
<1>5. ASSUME NEW m \in Makers, CreateStep(m) PROVE Typed'
  <2> USE DEF bounds
  <2>1. call[m].step # "idle" /\ call[m].name \in Names /\ pageOf[call[m].name] \in Resources
    BY <1>5 DEF CreateStep, CallShape, At, Resources
  <2>2. ASSUME At(m, "create", "projection"), PutProjection(m),
               UNCHANGED <<pageOf, answer, bounds>>
        PROVE  Typed'
    <3>1. CASE Defined(call[m].name)
      <4>1. added[m] = {}
        BY <2>2, AbortsNothing
      <4>2. call' \in [Makers -> Call]
        BY <2>2, <3>1, EndTyped DEF PutProjection, Abort, Ended
      <4> QED BY <2>2, <3>1, <4>1, <4>2 DEF PutProjection, Abort, Ended, HandlesEnd
    <3>2. CASE ~ Defined(call[m].name)
      <4>1. locks' \in [Makers -> SUBSET Lock]
        BY <2>1, <2>2, <3>2, AcquireTyped DEF PutProjection
      <4>2. call' \in [Makers -> Call]
        BY <2>2, <3>2, GotoTyped DEF PutProjection, Steps
      <4>3. store' \subseteq Row /\ added' \in [Makers -> SUBSET store'] /\ strayed \subseteq store'
        BY <2>1, <2>2, <3>2, PutTyped, CatalogAssumption DEF PutProjection, Tables
      <4> QED BY <2>2, <3>2, <4>1, <4>2, <4>3 DEF PutProjection
    <3> QED BY <3>1, <3>2
  <2>3. ASSUME At(m, "create", "column"), PutColumn(m), UNCHANGED <<pageOf, answer, bounds>>
        PROVE  Typed'
    <3>1. locks' \in [Makers -> SUBSET Lock]
      BY <2>3, AcquireTyped DEF PutColumn, Resources
    <3>2. call' \in [Makers -> Call]
      BY <2>3, GotoTyped DEF PutColumn, Steps
    <3>3. call[m].no + 1 \in 0 .. NumColumns
      BY <2>3, CatalogAssumption DEF At, CallShape, Call
    <3>4. store' \subseteq Row /\ added' \in [Makers -> SUBSET store'] /\ strayed \subseteq store'
      BY <2>1, <2>3, <3>3, PutTyped DEF PutColumn, Tables
    <3> QED BY <2>3, <3>1, <3>2, <3>4 DEF PutColumn
  <2>4. ASSUME At(m, "create", "secondary"), PutSecondary(m), UNCHANGED <<pageOf, answer, bounds>>
        PROVE  Typed'
    <3>1. locks' \in [Makers -> SUBSET Lock]
      BY <2>4, AcquireTyped DEF PutSecondary, Resources
    <3>2. call[m].no + 1 \in 0 .. NumColumns
      BY <2>4, CatalogAssumption DEF At, CallShape, Call
    <3>3. call' \in [Makers -> Call]
      <4> DEFINE step == IF call[m].no + 1 = NumColumns THEN "commit" ELSE "column"
                 next == [kind |-> call[m].kind, name |-> call[m].name,
                          step |-> step, no |-> call[m].no + 1]
      <4>1. call[m] \in Call /\ next \in Call
        BY <3>2 DEF Call, Steps
      <4>2. /\ call' = [k \in Makers |-> call'[k]]
            /\ \A k \in Makers \ {m} : call'[k] = call[k]
        BY <2>4 DEF PutSecondary
      <4>3. call'[m] = next
        BY <2>4, <4>1 DEF PutSecondary, Call
      <4> HIDE DEF next
      <4> QED BY <4>1, <4>2, <4>3
    <3>4. store' \subseteq Row /\ added' \in [Makers -> SUBSET store'] /\ strayed \subseteq store'
      BY <2>1, <2>4, <3>2, PutTyped DEF PutSecondary, Tables
    <3> QED BY <2>4, <3>1, <3>3, <3>4 DEF PutSecondary
  <2>5. ASSUME Commit(m), UNCHANGED <<pageOf, answer, bounds>>
        PROVE  Typed'
    BY <2>5, CatalogAssumption DEF Commit, Ended, HandlesEnd, NoCall, Call, Steps
  <2> QED BY <1>5, <2>2, <2>3, <2>4, <2>5 DEF CreateStep
<1>6. ASSUME NEW m \in Makers, GetStep(m) PROVE Typed'
  <2> USE DEF bounds
  <2>1. call[m].step # "idle" /\ call[m].name \in Names /\ pageOf[call[m].name] \in Resources
    BY <1>6 DEF GetStep, CallShape, At, Resources
  <2>2. ASSUME ReadProjection(m), ~ Defined(call[m].name), UNCHANGED <<pageOf, bounds>>
        PROVE  Typed'
    <3>1. leaked' \subseteq Lock
      BY <2>1, <2>2 DEF ReadProjection, Lock
    <3>2. call' \in [Makers -> Call]
      BY <2>2, EndTyped DEF ReadProjection
    <3>3. /\ locks' = [locks EXCEPT ![m] = {}]
          /\ answer' = [answer EXCEPT ![m] = [name |-> call[m].name, by |-> Nobody]]
          /\ HandlesEnd(m, "dead") /\ UNCHANGED <<store, added, strayed>>
      BY <2>2 DEF ReadProjection
    <3> QED BY <2>1, <2>2, <3>1, <3>2, <3>3 DEF HandlesEnd
  <2>3. ASSUME NEW res \in Resources, NEW step \in Steps, Acquire(m, res, "S"), Goto(m, step),
               UNCHANGED <<store, added, strayed, leaked, handles, answer, pageOf, bounds>>
        PROVE  Typed'
    <3>1. locks' \in [Makers -> SUBSET Lock]
      BY <2>3, AcquireTyped
    <3>2. call' \in [Makers -> Call]
      BY <2>3, GotoTyped
    <3> QED BY <2>3, <3>1, <3>2
  <2>4. ASSUME Return(m), UNCHANGED <<pageOf, bounds>>
        PROVE  Typed'
    <3>1. CreatorOf(Indexed(call[m].name)) \in Makers \cup {Nobody}
      BY CreatorTyped
    <3> QED BY <2>1, <2>4, <3>1, CatalogAssumption
           DEF Return, Commit, Ended, HandlesEnd, NoCall, Call, Steps
  <2> QED BY <1>6, <2>1, <2>2, <2>3, <2>4
        DEF GetStep, ReadProjection, ReadSecondary, ReadColumn, Resources, Steps
<1>7. ASSUME NEW m \in Makers, Fail(m) PROVE Typed'
  BY <1>7, CatalogAssumption DEF Fail, LeaveOpen, Ended, HandlesEnd, NoCall, Call, Steps
<1>8. ASSUME NEW m \in Makers, Discard(m) PROVE Typed'
  BY <1>8 DEF Discard, bounds
<1>9. CASE Crash
  BY <1>9, CatalogAssumption DEF Crash, NoCall, NoAnswer, Call, Steps, Uncommitted
<1> QED BY <1>1, <1>2, <1>3, <1>4, <1>5, <1>6, <1>7, <1>8, <1>9 DEF Next, Step

\* How far a call has come, and what it has locked.
Calling == CallShape /\ HoldsWhatItUsed /\ HoldsNoMore

LEMMA CallingStep ==
  ASSUME IInv, [Next]_vars
  PROVE  Calling'
<1> DEFINE Fine(m) ==
      /\ call[m].step = "idle" => call[m] = NoCall
      /\ call[m].step # "idle" => call[m].name \in Names
      /\ call[m].step \in {"open", "projection"} => call[m].no = 0
      /\ call[m].step \in {"column", "secondary"} => call[m].no < NumColumns
      /\ At(m, "create", "commit") => call[m].no = NumColumns
      /\ call[m].step \in {"column", "secondary", "commit"} =>
           On(pageOf[call[m].name], call[m].kind) \in locks[m]
      /\ call[m].kind = "create" =>
           /\ call[m].step = "secondary" \/ call[m].no > 0 => On("column", "create") \in locks[m]
           /\ call[m].no > 0 => On("secondary", "create") \in locks[m]
      /\ call[m].kind = "get" /\ call[m].step \in {"column", "commit"} =>
           On("secondary", "get") \in locks[m]
      /\ call[m].step \in {"idle", "open"} => locks[m] = {}
      /\ \A held \in locks[m] : Used(m, held.on)
<1>1. \A m \in Makers : Fine(m)
  BY DEF IInv, CallShape, HoldsWhatItUsed, HoldsNoMore
<1>2. (\A m \in Makers : Fine(m)') => Calling'
  BY DEF Calling, CallShape, HoldsWhatItUsed, HoldsNoMore
<1>3. ASSUME NEW m \in Makers, UNCHANGED <<call[m], locks[m], pageOf>> PROVE Fine(m)'
  BY <1>1, <1>3 DEF At, On, Used
<1>4. \A m \in Makers : call[m].kind \in {"create", "get"} /\ call[m].no \in 0 .. NumColumns
  BY DEF IInv, Typed, Call
<1>5. ASSUME NEW m \in Makers, call'[m] = NoCall, locks'[m] = {} PROVE Fine(m)'
  BY <1>5, CatalogAssumption DEF NoCall, At, On, Used
<1>6. Typed
  BY DEF IInv
<1> HIDE DEF Fine
<1>7. ASSUME NEW m \in Makers, UNCHANGED pageOf, NEW k \in Makers, k # m, StepOf(m) PROVE Fine(k)'
  <2>1. UNCHANGED <<call[k], locks[k]>>
    BY <1>6, <1>7 DEF StepOf, Begin, Step, InitDbStruc, Open, UseDead, CreateStep, PutProjection,
         PutColumn, PutSecondary, Abort, Commit, Ended, GetStep, ReadProjection, ReadSecondary,
         ReadColumn, Return, Fail, LeaveOpen, Discard, Goto, Acquire, Typed
  <2> QED BY <1>3, <1>7, <2>1
<1>8. ASSUME NEW m \in Makers, NEW kind \in {"create", "get"}, NEW n \in Names, Begin(m, kind, n)
      PROVE  Fine(m)'
  <2>1. /\ call'[m] = [kind |-> kind, name |-> n, step |-> "open", no |-> 0]
        /\ locks'[m] = {}
    BY <1>1, <1>6, <1>8 DEF Begin, Typed, Fine
  <2> QED BY <1>8, <2>1 DEF Fine, At, On, Used
<1>9. ASSUME NEW m \in Makers, InitDbStruc(m) PROVE Fine(m)'
  <2>1. /\ call'[m].kind = call[m].kind /\ call'[m].name = call[m].name
        /\ call'[m].step = "projection" /\ call'[m].no = call[m].no
        /\ call[m].step = "open"
    BY <1>6, <1>9, GotoIs DEF InitDbStruc, Steps
  <2>2. locks'[m] = locks[m] \/ \E mode : locks'[m] = locks[m] \cup {[on |-> "master", mode |-> mode]}
    BY <1>6, <1>9, AcquireIs DEF InitDbStruc, Open
  <2>3. \A held \in locks'[m] : held.on = "master"
    <3>1. locks[m] = {}
      BY <1>1, <2>1 DEF Fine
    <3> QED BY <2>2, <3>1
  <2> QED BY <1>1, <2>1, <2>3 DEF Fine, At, On, Used
<1>10. ASSUME NEW m \in Makers, UseDead(m) PROVE Fine(m)'
  BY <1>1, <1>5, <1>6, <1>10 DEF UseDead, Typed, Fine
<1>11. ASSUME NEW m \in Makers, NEW res, NEW mode, NEW step \in Steps,
              Acquire(m, res, mode), Goto(m, step), UNCHANGED pageOf,
              mode = IF call[m].kind = "create" THEN "X" ELSE "S",
              \/ call[m].step = "projection" /\ res = pageOf[call[m].name] /\
                   step = IF call[m].kind = "create" THEN "column" ELSE "secondary"
              \/ At(m, "create", "column") /\ res = "column" /\ step = "secondary"
              \/ At(m, "get", "secondary") /\ res = "secondary" /\ step = "column"
              \/ At(m, "get", "column") /\ res = "column" /\ step = "commit"
       PROVE  Fine(m)'
  <2>1. /\ call'[m].kind = call[m].kind /\ call'[m].name = call[m].name
        /\ call'[m].step = step /\ call'[m].no = call[m].no
    BY <1>6, <1>11, GotoIs
  <2>2. locks'[m] = locks[m] \cup {[on |-> res, mode |-> mode]}
    BY <1>6, <1>11, AcquireIs
  <2>3. pageOf' = pageOf /\ Fine(m) /\ call[m].no \in 0 .. NumColumns
    BY <1>1, <1>4, <1>11
  <2>4. CASE call[m].step = "projection"
    <3>1. res = pageOf[call[m].name] /\ call[m].no = 0
      BY <1>11, <2>3, <2>4 DEF Fine, At
    <3>2. CASE call[m].kind = "create"
      BY <1>11, <2>1, <2>2, <2>3, <2>4, <3>1, <3>2, CatalogAssumption DEF Fine, At, On, Used
    <3>3. CASE call[m].kind = "get"
      BY <1>11, <2>1, <2>2, <2>3, <2>4, <3>1, <3>3, CatalogAssumption DEF Fine, At, On, Used
    <3> QED BY <1>4, <3>2, <3>3
  <2>5. CASE At(m, "create", "column") /\ res = "column" /\ step = "secondary"
    BY <1>11, <2>1, <2>2, <2>3, <2>5 DEF Fine, At, On, Used
  <2>6. CASE At(m, "get", "secondary") /\ res = "secondary" /\ step = "column"
    BY <1>11, <2>1, <2>2, <2>3, <2>6 DEF Fine, At, On, Used
  <2>7. CASE At(m, "get", "column") /\ res = "column" /\ step = "commit"
    BY <1>11, <2>1, <2>2, <2>3, <2>7 DEF Fine, At, On, Used
  <2> QED BY <1>11, <2>4, <2>5, <2>6, <2>7
<1>12. ASSUME NEW m \in Makers, At(m, "create", "secondary"), PutSecondary(m), UNCHANGED pageOf
       PROVE  Fine(m)'
  <2>1. /\ call'[m].kind = call[m].kind /\ call'[m].name = call[m].name
        /\ call'[m].step = IF call[m].no + 1 = NumColumns THEN "commit" ELSE "column"
        /\ call'[m].no = call[m].no + 1
    BY <1>6, <1>12 DEF PutSecondary, Typed, Call
  <2>2. locks'[m] = locks[m] \cup {[on |-> "secondary", mode |-> "X"]}
    BY <1>6, <1>12, AcquireIs DEF PutSecondary
  <2> QED BY <1>1, <1>4, <1>12, <2>1, <2>2, CatalogAssumption DEF Fine, At, On, Used
<1>13. ASSUME NEW m \in Makers, CreateStep(m) PROVE Fine(m)'
  <2>1. CASE At(m, "create", "projection") /\ PutProjection(m)
    BY <1>5, <1>6, <1>11, <1>13, <2>1 DEF CreateStep, PutProjection, Abort, Ended, At, Steps, Typed
  <2>2. CASE At(m, "create", "column") /\ PutColumn(m)
    BY <1>11, <1>13, <2>2 DEF CreateStep, PutColumn, At, Steps
  <2>3. CASE Commit(m)
    BY <1>5, <1>6, <2>3 DEF Commit, Ended, Typed
  <2> QED BY <1>12, <1>13, <2>1, <2>2, <2>3 DEF CreateStep
<1>14. ASSUME NEW m \in Makers, GetStep(m) PROVE Fine(m)'
  <2>1. CASE At(m, "get", "projection") /\ ReadProjection(m)
    BY <1>5, <1>6, <1>11, <1>14, <2>1 DEF GetStep, ReadProjection, At, Steps, Typed
  <2>2. CASE At(m, "get", "secondary") /\ ReadSecondary(m)
    BY <1>11, <1>14, <2>2 DEF GetStep, ReadSecondary, At, Steps
  <2>3. CASE At(m, "get", "column") /\ ReadColumn(m)
    BY <1>11, <1>14, <2>3 DEF GetStep, ReadColumn, At, Steps
  <2>4. CASE Commit(m)
    BY <1>5, <1>6, <2>4 DEF Commit, Ended, Typed
  <2> QED BY <1>14, <2>1, <2>2, <2>3, <2>4 DEF GetStep, Return
<1>15. ASSUME NEW m \in Makers, Fail(m) PROVE Fine(m)'
  BY <1>5, <1>6, <1>15 DEF Fail, LeaveOpen, Ended, Typed
<1>16. ASSUME NEW m \in Makers, Discard(m) PROVE Fine(m)'
  BY <1>3, <1>16 DEF Discard
<1>17. CASE Crash
  BY <1>2, <1>5, <1>17 DEF Crash
<1>18. CASE UNCHANGED vars
  BY <1>2, <1>3, <1>18 DEF vars
<1>19. ASSUME NEW m \in Makers, StepOf(m) PROVE Calling'
  <2>1. UNCHANGED pageOf
    BY <1>19 DEF StepOf, Begin, Step, InitDbStruc, UseDead, CreateStep, GetStep, Fail, Discard
  <2>2. Fine(m)'
    BY <1>8, <1>9, <1>10, <1>13, <1>14, <1>15, <1>16, <1>19 DEF StepOf, Step
  <2> QED BY <1>2, <1>7, <1>19, <2>1, <2>2
<1> QED BY <1>17, <1>18, <1>19 DEF Next, StepOf

\* A lock that was free is compatible with all others.
LEMMA AcquireCompatible ==
  ASSUME IInv, NEW m \in Makers, NEW res, NEW mode, Acquire(m, res, mode), leaked' = leaked
  PROVE  Compatible'
BY DEF IInv, Typed, Compatible, Acquire, Free, Holders, Behind, Conflict, Lock

\* So it is when one of another thread's is released, or left to nobody.
LEMMA ReleaseCompatible ==
  ASSUME IInv, NEW m \in Makers, locks' = [locks EXCEPT ![m] = {}],
         \A left \in leaked' : \/ left \in leaked \cup locks[m]
                               \/ left \in Lock /\ Free(m, left.on, left.mode)
  PROVE  Compatible'
BY DEF IInv, Typed, Compatible, Free, Holders, Behind, Conflict, Lock

LEMMA CompatibleStep ==
  ASSUME IInv, [Next]_vars
  PROVE  Compatible'
<1>1. CASE UNCHANGED <<locks, leaked>>
  BY <1>1 DEF IInv, Compatible
<1>2. ASSUME NEW m \in Makers, Step(m) PROVE Compatible'
  <2>1. \/ UNCHANGED <<locks, leaked>>
        \/ \E res \in Resources, mode \in {"S", "X"} : Acquire(m, res, mode) /\ leaked' = leaked
        \/ locks' = [locks EXCEPT ![m] = {}] /\ leaked' = leaked
        \/ /\ locks' = [locks EXCEPT ![m] = {}]
           /\ leaked' = leaked \cup locks[m] \cup {[on |-> pageOf[call[m].name], mode |-> "S"]}
           /\ pageOf[call[m].name] \in Resources
           /\ Free(m, pageOf[call[m].name], "S")
    BY <1>2 DEF Step, InitDbStruc, Open, UseDead, CreateStep, PutProjection, PutColumn,
         PutSecondary, Abort, Commit, Ended, GetStep, ReadProjection, ReadSecondary, ReadColumn,
         Return, At, IInv, Typed, CallShape, Resources
  <2>2. ASSUME pageOf[call[m].name] \in Resources, Free(m, pageOf[call[m].name], "S")
        PROVE  LET left == [on |-> pageOf[call[m].name], mode |-> "S"]
               IN  left \in Lock /\ Free(m, left.on, left.mode)
    BY <2>2 DEF Lock
  <2> QED BY <2>1, <2>2, <1>1, AcquireCompatible, ReleaseCompatible
<1>3. ASSUME NEW m \in Makers, Fail(m) PROVE Compatible'
  BY <1>3, ReleaseCompatible DEF Fail, LeaveOpen, Ended
<1>4. CASE Crash
  BY <1>4 DEF Crash, Compatible
<1> QED BY <1>1, <1>2, <1>3, <1>4 DEF Next, Begin, Discard, vars

----------------------------------------------------------------------------
(* The rows *)

LEMMA RowsBegin ==
  ASSUME NEW m, NEW n
  PROVE  RowsOf(m, n, 0, 0) = {[table |-> "projection", name |-> n, by |-> m, no |-> 0]}
<1>1. 1 .. 0 = {}
  OBVIOUS
<1> QED BY <1>1 DEF RowsOf

LEMMA UpTo ==
  ASSUME NEW m, NEW n, NEW table, NEW k \in Nat
  PROVE  {[table |-> table, name |-> n, by |-> m, no |-> j] : j \in 1 .. k + 1} =
           {[table |-> table, name |-> n, by |-> m, no |-> j] : j \in 1 .. k}
           \cup {[table |-> table, name |-> n, by |-> m, no |-> k + 1]}
<1>1. 1 .. k + 1 = (1 .. k) \cup {k + 1}
  OBVIOUS
<1> QED BY <1>1

LEMMA ColumnMore ==
  ASSUME NEW m, NEW n, NEW c \in Nat
  PROVE  RowsOf(m, n, c + 1, c) =
           RowsOf(m, n, c, c) \cup {[table |-> "column", name |-> n, by |-> m, no |-> c + 1]}
BY UpTo DEF RowsOf

LEMMA IndexMore ==
  ASSUME NEW m, NEW n, NEW c \in Nat
  PROVE  RowsOf(m, n, c + 1, c + 1) =
           RowsOf(m, n, c + 1, c)
           \cup {[table |-> "secondary", name |-> n, by |-> m, no |-> c + 1]}
BY UpTo DEF RowsOf

LEMMA RowsAre ==
  ASSUME NEW m, NEW n, NEW c, NEW s
  PROVE  /\ \A r \in RowsOf(m, n, c, s) : r.name = n /\ r.by = m
         /\ \E r \in RowsOf(m, n, c, s) : r.table = "projection"
<1>1. \A r \in RowsOf(m, n, c, s) : r.name = n /\ r.by = m
  BY DEF RowsOf
<1>2. [table |-> "projection", name |-> n, by |-> m, no |-> 0] \in RowsOf(m, n, c, s)
  BY DEF RowsOf
<1> QED BY <1>1, <1>2

LEMMA AddedBy ==
  ASSUME IInv, NEW m \in Makers, NEW r \in added[m]
  PROVE  Puts(m) /\ r.name = call[m].name /\ r.by = m
<1>1. Puts(m)
  BY DEF IInv, PutSoFar
<1>2. added[m] = RowsOf(m, call[m].name,
                        IF call[m].step = "secondary" THEN call[m].no + 1 ELSE call[m].no,
                        call[m].no)
  BY <1>1 DEF IInv, PutSoFar
<1> QED BY <1>1, <1>2, RowsAre

LEMMA AddedAre ==
  ASSUME IInv, NEW m \in Makers
  PROVE  /\ Puts(m) => /\ \E r \in added[m] : r.table = "projection"
                       /\ call[m].name \in Names /\ call[m].step # "idle"
                       /\ [on |-> pageOf[call[m].name], mode |-> "X"] \in locks[m]
         /\ ~ Puts(m) => added[m] = {}
         /\ \A k \in Makers \ {m} : added[k] \cap added[m] = {}
<1>1. \A k \in Makers : \A r \in added[k] : Puts(k) /\ r.by = k
  BY AddedBy
<1>2. Puts(m) => \E r \in added[m] : r.table = "projection"
  BY RowsAre DEF IInv, PutSoFar
<1> QED BY <1>1, <1>2 DEF IInv, PutSoFar, CallShape, Puts, HoldsWhatItUsed, On

\* What is uncommitted of a projection is all of it.
LEMMA AllUncommitted ==
  ASSUME IInv, NEW n \in Names, Named(n) \cap Uncommitted # {}
  PROVE  Named(n) \subseteq Uncommitted
<1>1. PICK r \in Named(n) : r \in Uncommitted
  OBVIOUS
<1>2. CASE r \in strayed
  BY <1>1, <1>2 DEF IInv, AllStray, Uncommitted
<1>3. ASSUME NEW m \in Makers, r \in added[m] PROVE Named(n) = added[m]
  <2>1. Puts(m) /\ r.name = call[m].name
    BY <1>3, AddedBy
  <2>2. r.name = n
    BY DEF Named
  <2> QED BY <2>1, <2>2 DEF IInv, OneTransaction
<1> QED BY <1>1, <1>2, <1>3 DEF Uncommitted

Rows == PutSoFar /\ OneTransaction /\ AllStray /\ WholeOrOpen /\ StrayLocked

\* A step that puts nothing and ends no transaction that has put something.
LEMMA QuietRows ==
  ASSUME IInv, UNCHANGED <<pageOf, store, added, strayed>>, leaked \subseteq leaked',
         \A k \in Makers : Puts(k)' = Puts(k) /\ (Puts(k) => call'[k] = call[k])
  PROVE  Rows'
<1>1. UNCHANGED Uncommitted
  BY DEF Uncommitted
<1>2. \A n : Named(n)' = Named(n) /\ (Defined(n) => Defined(n)')
  BY DEF Named, Defined
<1>3. PutSoFar'
  BY DEF IInv, PutSoFar
<1>4. OneTransaction' /\ AllStray' /\ WholeOrOpen'
  BY <1>1, <1>2 DEF IInv, OneTransaction, AllStray, WholeOrOpen
<1>5. StrayLocked'
  BY DEF IInv, StrayLocked
<1> QED BY <1>3, <1>4, <1>5 DEF Rows

\* A row is put into the transaction that has put the other ones of its projection,
\* or is the first of its name.
LEMMA PutRows ==
  ASSUME IInv, NEW m \in Makers, NEW table, NEW no, Put(m, table, no),
         UNCHANGED <<pageOf, strayed, leaked>>,
         call[m].name \in Names, Puts(m) \/ ~ Defined(call[m].name),
         \A k \in Makers \ {m} : call'[k] = call[k],
         Puts(m)', call'[m].name = call[m].name,
         added'[m] = RowsOf(m, call[m].name,
                            IF call'[m].step = "secondary" THEN call'[m].no + 1
                                                           ELSE call'[m].no,
                            call'[m].no)
  PROVE  Rows'
<1> DEFINE n == call[m].name
           row == [table |-> table, name |-> n, by |-> m, no |-> no]
<1>1. /\ store' = store \cup {row} /\ added' = [added EXCEPT ![m] = @ \cup {row}]
      /\ row.name = n
  BY DEF Put
<1>2. added'[m] = added[m] \cup {row} /\ \A k \in Makers \ {m} : added'[k] = added[k]
  BY <1>1 DEF IInv, Typed
<1>3. Named(n) = added[m] /\ added[m] \cap strayed = {}
  <2>1. CASE Puts(m)
    BY <2>1 DEF IInv, OneTransaction
  <2>2. CASE ~ Puts(m)
    BY <2>2, AddedAre DEF IInv, WholeOrOpen
  <2> QED BY <2>1, <2>2
<1>4. /\ Named(n)' = added'[m]
      /\ \A q : q # n => Named(q)' = Named(q)
  BY <1>1, <1>2, <1>3 DEF Named
<1>5. row \notin strayed
  BY <1>1, <1>3 DEF Named, IInv, Typed
<1> HIDE DEF row
<1>6. PutSoFar'
  <2>1. \A k \in Makers \ {m} : Puts(k)' = Puts(k)
    BY DEF Puts
  <2> QED BY <1>2, <2>1 DEF IInv, PutSoFar
<1>7. OneTransaction'
  <2>1. \A k \in Makers \ {m} : Puts(k)' = Puts(k)
    BY DEF Puts
  <2>2. ASSUME NEW k \in Makers \ {m}, Puts(k) PROVE call[k].name # n
    <3>1. Named(call[k].name) = added[k] /\ added[k] # {}
      BY <2>2, AddedAre DEF IInv, OneTransaction
    <3>2. CASE Puts(m)
      <4>1. added[k] \cap added[m] = {}
        BY AddedAre
      <4> QED BY <1>3, <3>1, <4>1
    <3>3. CASE ~ Puts(m)
      BY <1>3, <3>1, <3>3, AddedAre
    <3> QED BY <3>2, <3>3
  <2> QED BY <1>2, <1>3, <1>4, <1>5, <2>1, <2>2 DEF IInv, OneTransaction
<1>8. AllStray'
  BY <1>2, <1>3, <1>4, <1>5 DEF IInv, AllStray
<1>9. WholeOrOpen'
  <2>1. Uncommitted \subseteq Uncommitted' /\ row \in Uncommitted'
    BY <1>2 DEF Uncommitted
  <2>2. \A q : Defined(q) => Defined(q)'
    BY <1>1 DEF Defined
  <2>3. Defined(n)'
    BY <1>4, RowsAre DEF Defined, Named
  <2>4. row \in Named(n)'
    BY <1>2, <1>4
  <2>5. \A q \in Names : q # n /\ Named(q)' # {} =>
          /\ Defined(q)'
          /\ Named(q)' \cap Uncommitted' # {} \/ \E k \in Makers : Named(q)' = Whole(k, q)
    BY <1>4, <2>1, <2>2 DEF IInv, WholeOrOpen
  <2> QED BY <2>1, <2>3, <2>4, <2>5 DEF WholeOrOpen
<1>10. StrayLocked'
  BY DEF IInv, StrayLocked
<1> QED BY <1>6, <1>7, <1>8, <1>9, <1>10 DEF Rows

\* A transaction is committed when its projection is whole.
LEMMA CommitRows ==
  ASSUME IInv, NEW m \in Makers, call[m].step = "commit",
         UNCHANGED <<pageOf, store, strayed, leaked>>,
         added' = [added EXCEPT ![m] = {}], call' = [call EXCEPT ![m] = NoCall]
  PROVE  Rows'
<1>1. /\ added'[m] = {} /\ \A k \in Makers \ {m} : added'[k] = added[k]
      /\ call'[m] = NoCall /\ \A k \in Makers \ {m} : call'[k] = call[k]
  BY DEF IInv, Typed
<1>2. ~ Puts(m)' /\ \A k \in Makers \ {m} : Puts(k)' = Puts(k)
  BY <1>1 DEF Puts, NoCall
<1>3. PutSoFar'
  BY <1>1, <1>2 DEF IInv, PutSoFar
<1>4. \A n : Named(n)' = Named(n) /\ Defined(n)' = Defined(n)
  BY DEF Named, Defined
<1>5. OneTransaction' /\ AllStray'
  BY <1>1, <1>2, <1>4 DEF IInv, OneTransaction, AllStray
<1>6. WholeOrOpen'
  <2> SUFFICES ASSUME NEW n \in Names, Named(n) # {}, Named(n) \cap Uncommitted' = {}
               PROVE  \E k \in Makers : Named(n) = Whole(k, n)
    BY <1>4 DEF IInv, WholeOrOpen
  <2>1. CASE Named(n) \cap Uncommitted = {}
    BY <2>1 DEF IInv, WholeOrOpen
  <2>2. CASE Named(n) \cap Uncommitted # {}
    <3>1. PICK r \in Named(n) : r \in Uncommitted
      BY <2>2
    <3>2. r \in added[m]
      BY <1>1, <3>1 DEF Uncommitted
    <3>3. Puts(m) /\ call[m].name = n
      BY <3>1, <3>2, AddedBy DEF Named
    <3>4. Named(n) = added[m]
      BY <3>3 DEF IInv, OneTransaction
    <3>5. added[m] = Whole(m, n)
      BY <3>3 DEF IInv, PutSoFar, CallShape, Puts, At, Whole
    <3> QED BY <3>4, <3>5
  <2> QED BY <2>1, <2>2
<1>7. StrayLocked'
  BY DEF IInv, StrayLocked
<1> QED BY <1>3, <1>5, <1>6, <1>7 DEF Rows

\* A transaction that is left open keeps its rows, and its locks on them.
LEMMA LeaveRows ==
  ASSUME IInv, NEW m \in Makers, LeaveOpen(m), UNCHANGED pageOf
  PROVE  Rows'
<1>1. /\ added'[m] = {} /\ \A k \in Makers \ {m} : added'[k] = added[k]
      /\ call'[m] = NoCall /\ \A k \in Makers \ {m} : call'[k] = call[k]
      /\ strayed' = strayed \cup added[m] /\ leaked' = leaked \cup locks[m] /\ store' = store
  BY DEF IInv, Typed, LeaveOpen, Ended
<1>2. ~ Puts(m)' /\ \A k \in Makers \ {m} : Puts(k)' = Puts(k)
  BY <1>1 DEF Puts, NoCall
<1>3. PutSoFar'
  BY <1>1, <1>2 DEF IInv, PutSoFar
<1>4. \A n : Named(n)' = Named(n) /\ Defined(n)' = Defined(n)
  BY <1>1 DEF Named, Defined
<1>5. OneTransaction'
  <2> SUFFICES ASSUME NEW k \in Makers, Puts(k)'
               PROVE  Named(call[k].name) = added[k] /\ added[k] \cap strayed' = {}
                      /\ k # m
    BY <1>1, <1>2, <1>4 DEF OneTransaction
  <2>1. k # m /\ Puts(k)
    BY <1>2
  <2>2. added[k] \cap added[m] = {}
    BY <2>1, AddedAre
  <2> QED BY <1>1, <2>1, <2>2 DEF IInv, OneTransaction
<1>6. AllStray'
  <2> SUFFICES ASSUME NEW n \in Names, NEW r \in Named(n), r \in strayed'
               PROVE  Named(n) \subseteq strayed'
    BY <1>4 DEF AllStray
  <2>1. CASE r \in strayed
    BY <1>1, <2>1 DEF IInv, AllStray
  <2>2. CASE r \in added[m]
    <3>1. Puts(m) /\ r.name = call[m].name
      BY <2>2, AddedBy
    <3>2. r.name = n
      BY DEF Named
    <3> QED BY <1>1, <3>1, <3>2 DEF IInv, OneTransaction
  <2> QED BY <1>1, <2>1, <2>2
<1>7. WholeOrOpen'
  <2>1. Uncommitted' = Uncommitted
    BY <1>1 DEF Uncommitted
  <2> QED BY <1>4, <2>1 DEF IInv, WholeOrOpen
<1>8. StrayLocked'
  <2> SUFFICES ASSUME NEW r \in strayed' PROVE [on |-> pageOf[r.name], mode |-> "X"] \in leaked'
    BY DEF StrayLocked
  <2>1. CASE r \in strayed
    BY <1>1, <2>1 DEF IInv, StrayLocked
  <2>2. CASE r \in added[m]
    BY <1>1, <2>2, AddedAre, AddedBy
  <2> QED BY <1>1, <2>1, <2>2
<1> QED BY <1>3, <1>5, <1>6, <1>7, <1>8 DEF Rows

LEMMA CrashRows ==
  ASSUME IInv, Crash
  PROVE  Rows'
<1>1. \A m \in Makers : added'[m] = {} /\ call'[m] = NoCall /\ ~ Puts(m)'
  BY DEF Crash, Puts, NoCall
<1>2. strayed' = {} /\ Uncommitted' = {}
  BY <1>1 DEF Crash, Uncommitted
<1>3. ASSUME NEW n \in Names, Named(n)' # {}
      PROVE  Named(n)' = Named(n) /\ Named(n) \cap Uncommitted = {}
  <2>1. Named(n)' = Named(n) \ Uncommitted
    BY DEF Crash, Named
  <2> QED BY <1>3, <2>1, AllUncommitted
<1>4. WholeOrOpen'
  <2> SUFFICES ASSUME NEW n \in Names, Named(n)' # {}
               PROVE  Defined(n)' /\ \E m \in Makers : Named(n)' = Whole(m, n)
    BY DEF WholeOrOpen
  <2>1. Named(n) # {} /\ \E m \in Makers : Named(n) = Whole(m, n)
    BY <1>3 DEF IInv, WholeOrOpen
  <2>2. Defined(n)'
    BY <1>3, <2>1, RowsAre DEF Named, Defined, Whole
  <2> QED BY <1>3, <2>1, <2>2
<1> QED BY <1>1, <1>2, <1>4 DEF Rows, PutSoFar, OneTransaction, AllStray, StrayLocked

LEMMA RowsStep ==
  ASSUME IInv, [Next]_vars
  PROVE  Rows'
<1>1. CASE UNCHANGED vars
  BY <1>1, QuietRows DEF vars, Puts
<1>2. ASSUME NEW m \in Makers, NEW kind \in {"create", "get"}, NEW n \in Names, Begin(m, kind, n)
      PROVE  Rows'
  <2>1. /\ ~ Puts(m) /\ ~ Puts(m)' /\ \A k \in Makers \ {m} : call'[k] = call[k]
        /\ UNCHANGED <<pageOf, store, added, strayed, leaked>>
    BY <1>2 DEF Begin, Puts, IInv, Typed
  <2> QED BY <2>1, QuietRows DEF Puts
<1>3. ASSUME NEW m \in Makers, ~ Puts(m), ~ Puts(m)',
             (\E step : Goto(m, step)) \/ call' = [call EXCEPT ![m] = NoCall] \/ UNCHANGED call,
             UNCHANGED <<pageOf, store, added, strayed>>, leaked \subseteq leaked'
      PROVE  Rows'
  <2>1. \A k \in Makers \ {m} : call'[k] = call[k]
    BY <1>3 DEF IInv, Typed, Goto
  <2> QED BY <1>3, <2>1, QuietRows DEF Puts
<1>4. ASSUME NEW m \in Makers, InitDbStruc(m) PROVE Rows'
  <2>1. ~ Puts(m) /\ call'[m].step = "projection"
    BY <1>4, GotoIs DEF InitDbStruc, Puts, Steps, IInv
  <2> QED BY <1>3, <1>4, <2>1 DEF InitDbStruc, Puts, Steps
<1>5. ASSUME NEW m \in Makers, UseDead(m) PROVE Rows'
  <2>1. ~ Puts(m) /\ call'[m] = NoCall
    BY <1>5 DEF UseDead, Puts, IInv, Typed
  <2>2. ~ Puts(m)'
    BY <2>1 DEF Puts, NoCall
  <2> QED BY <1>3, <1>5, <2>1, <2>2 DEF UseDead
<1>6. ASSUME NEW m \in Makers, CreateStep(m) PROVE Rows'
  <2>1. CASE At(m, "create", "projection") /\ PutProjection(m)
    <3>1. CASE Defined(call[m].name)
      <4>1. added[m] = {} /\ Abort(m)
        BY <2>1, <3>1, AbortsNothing DEF PutProjection
      <4>2. call'[m] = NoCall /\ store' = store
        BY <4>1 DEF Abort, Ended, IInv, Typed
      <4>3. added' = added
        BY <4>1 DEF Abort, Ended, IInv, Typed
      <4>4. ~ Puts(m) /\ ~ Puts(m)'
        BY <2>1, <4>2 DEF Puts, At, NoCall
      <4> QED BY <1>3, <1>6, <4>1, <4>2, <4>3, <4>4 DEF CreateStep, Abort, Ended
    <3>2. CASE ~ Defined(call[m].name)
      <4>1. /\ call'[m].kind = "create" /\ call'[m].name = call[m].name
            /\ call'[m].step = "column" /\ call'[m].no = 0 /\ call[m].name \in Names
            /\ \A k \in Makers \ {m} : call'[k] = call[k]
        BY <2>1, <3>2, GotoIs DEF PutProjection, At, Steps, IInv, CallShape
      <4>2. added'[m] = {[table |-> "projection", name |-> call[m].name, by |-> m, no |-> 0]}
        BY <2>1, <3>2, AbortsNothing DEF PutProjection, Put, IInv, Typed
      <4> QED BY <1>6, <2>1, <3>2, <4>1, <4>2, PutRows, RowsBegin
              DEF CreateStep, PutProjection, Puts
    <3> QED BY <3>1, <3>2
  <2>2. CASE At(m, "create", "column") /\ PutColumn(m)
    <3>1. /\ call'[m].kind = "create" /\ call'[m].name = call[m].name
          /\ call'[m].step = "secondary" /\ call'[m].no = call[m].no
          /\ \A k \in Makers \ {m} : call'[k] = call[k]
      BY <2>2, GotoIs DEF PutColumn, At, Steps, IInv
    <3>2. Puts(m) /\ call[m].name \in Names /\ call[m].no \in Nat
      BY <2>2 DEF Puts, At, IInv, CallShape, Typed, Call
    <3>3. added[m] = RowsOf(m, call[m].name, call[m].no, call[m].no)
      BY <2>2, <3>2 DEF IInv, PutSoFar, At
    <3>4. added'[m] = added[m] \cup
            {[table |-> "column", name |-> call[m].name, by |-> m, no |-> call[m].no + 1]}
      BY <2>2 DEF PutColumn, Put, IInv, Typed
    <3>5. added'[m] = RowsOf(m, call[m].name, call[m].no + 1, call[m].no)
      <4>1. RowsOf(m, call[m].name, call[m].no + 1, call[m].no) =
              RowsOf(m, call[m].name, call[m].no, call[m].no) \cup
              {[table |-> "column", name |-> call[m].name, by |-> m, no |-> call[m].no + 1]}
        BY <3>2, ColumnMore
      <4> QED BY <3>3, <3>4, <4>1
    <3> QED BY <1>6, <2>2, <3>1, <3>2, <3>5, PutRows DEF CreateStep, PutColumn, Puts
  <2>3. CASE At(m, "create", "secondary") /\ PutSecondary(m)
    <3>1. /\ call'[m].kind = "create" /\ call'[m].name = call[m].name
          /\ call'[m].step \in {"commit", "column"} /\ call'[m].no = call[m].no + 1
          /\ \A k \in Makers \ {m} : call'[k] = call[k]
      BY <2>3 DEF PutSecondary, At, IInv, Typed, Call
    <3>2. Puts(m) /\ call[m].name \in Names /\ call[m].no \in Nat
      BY <2>3 DEF Puts, At, IInv, CallShape, Typed, Call
    <3>3. added[m] = RowsOf(m, call[m].name, call[m].no + 1, call[m].no)
      BY <2>3, <3>2 DEF IInv, PutSoFar, At
    <3>4. added'[m] = added[m] \cup
            {[table |-> "secondary", name |-> call[m].name, by |-> m, no |-> call[m].no + 1]}
      BY <2>3 DEF PutSecondary, Put, IInv, Typed
    <3>5. added'[m] = RowsOf(m, call[m].name, call'[m].no, call'[m].no)
      <4>1. RowsOf(m, call[m].name, call[m].no + 1, call[m].no + 1) = added'[m]
        <5>1. RowsOf(m, call[m].name, call[m].no + 1, call[m].no + 1) =
                RowsOf(m, call[m].name, call[m].no + 1, call[m].no)
                \cup {[table |-> "secondary", name |-> call[m].name, by |-> m,
                       no |-> call[m].no + 1]}
          BY <3>2, IndexMore
        <5> QED BY <3>3, <3>4, <5>1
      <4> QED BY <3>1, <4>1
    <3> QED BY <1>6, <2>3, <3>1, <3>2, <3>5, PutRows DEF CreateStep, PutSecondary, Puts
  <2>4. CASE At(m, "create", "commit") /\ Commit(m)
    BY <1>6, <2>4, CommitRows DEF CreateStep, Commit, Ended, At
  <2> QED BY <1>6, <2>1, <2>2, <2>3, <2>4 DEF CreateStep
<1>7. ASSUME NEW m \in Makers, GetStep(m) PROVE Rows'
  <2>1. call[m].kind = "get" /\ ~ Puts(m) /\ added[m] = {}
    BY <1>7, AddedAre DEF GetStep, At, Puts
  <2>2. added = [added EXCEPT ![m] = {}]
    BY <2>1 DEF IInv, Typed
  <2>3. call'[m].kind = "get"
    <3>1. ASSUME NEW step \in Steps, Goto(m, step) PROVE call'[m].kind = "get"
      BY <2>1, <3>1, GotoIs DEF IInv
    <3>2. ASSUME call' = [call EXCEPT ![m] = NoCall] PROVE call'[m].kind = "get"
      BY <3>2 DEF IInv, Typed, NoCall
    <3> QED BY <1>7, <3>1, <3>2 DEF GetStep, ReadProjection, ReadSecondary, ReadColumn,
              Return, Commit, Ended, Steps
  <2> QED BY <1>3, <1>7, <2>1, <2>2, <2>3 DEF GetStep, ReadProjection, ReadSecondary, ReadColumn,
              Return, Commit, Ended, Puts
<1>8. ASSUME NEW m \in Makers, Fail(m) PROVE Rows'
  BY <1>8, LeaveRows DEF Fail
<1>9. ASSUME NEW m \in Makers, Discard(m) PROVE Rows'
  BY <1>9, QuietRows DEF Discard, Puts
<1>10. CASE Crash
  BY <1>10, CrashRows
<1> QED BY <1>1, <1>2, <1>4, <1>5, <1>6, <1>7, <1>8, <1>9, <1>10 DEF Next, Step

----------------------------------------------------------------------------
(* Deadlock *)

LEMMA LockingInit == Init => Typed /\ CallShape /\ HoldsWhatItUsed /\ HoldsNoMore /\ Compatible
BY CatalogAssumption DEF Init, Typed, Call, Steps, NoCall, NoAnswer, CallShape,
   HoldsWhatItUsed, HoldsNoMore, Compatible, At

\* A thread that waits wants what another one holds in a mode that conflicts.
LEMMA Waiting ==
  ASSUME IInv, NEW m \in Makers, NEW k \in WaitsFor(m)
  PROVE  /\ k \in Makers /\ k # m
         /\ \E held \in locks[k] :
              /\ Conflict(held, Wants(m).on, Wants(m).mode)
              /\ Used(k, held.on) /\ held.on \in Resources
              /\ call[k].step \notin {"idle", "open"}
BY DEF WaitsFor, Holders, IInv, HoldsNoMore, Typed, Lock, Conflict

\* Two threads that wait for each other are both at the columns: each of them uses
\* what the other one is about to lock.
LEMMA InTheColumns ==
  ASSUME IInv, NEW m \in Makers, NEW k \in Makers, k \in WaitsFor(m), m \in WaitsFor(k)
  PROVE  /\ call[m].step \in {"column", "secondary"}
         /\ Used(k, call[m].step)
<1>1. PICK held \in locks[k] :
        /\ held.on = Wants(m).on /\ Used(k, Wants(m).on)
        /\ Wants(m).on \in Resources /\ call[k].step \notin {"idle", "open"}
  BY Waiting DEF Conflict
<1>2. PICK other \in locks[m] :
        /\ Used(m, Wants(k).on)
        /\ Wants(k).on \in Resources /\ call[m].step \notin {"idle", "open"}
  BY Waiting DEF Conflict
<1>3. /\ call[m].step \in Steps /\ call[k].step \in Steps
      /\ call[m].kind \in {"create", "get"} /\ call[k].kind \in {"create", "get"}
      /\ pageOf[call[m].name] \in Pages /\ pageOf[call[k].name] \in Pages
  BY <1>1, <1>2 DEF IInv, Typed, Call, CallShape
<1>4. /\ call[m].step # "commit" /\ call[k].step # "commit"
      /\ Wants(k).on # "master"
  BY <1>1, <1>2, <1>3, CatalogAssumption DEF Wants, Resources
<1>5. call[m].step # "projection"
  <2> SUFFICES ASSUME call[m].step = "projection" PROVE FALSE
    OBVIOUS
  <2>1. call[m].no = 0
    BY DEF IInv, CallShape
  <2> QED BY <1>2, <1>3, <1>4, <2>1 DEF Used
<1>6. call[m].step \in {"column", "secondary"}
  BY <1>2, <1>3, <1>4, <1>5 DEF Steps
<1>7. Wants(m).on = call[m].step
  BY <1>6 DEF Wants
<1> QED BY <1>1, <1>6, <1>7

LEMMA DeadlockShape ==
  ASSUME IInv
  PROVE  DeadlockOnlyByIndex
<1> SUFFICES ASSUME NEW m \in Makers, NEW k \in Makers, k \in WaitsFor(m), m \in WaitsFor(k)
             PROVE  /\ {Wants(m).on, Wants(k).on} = {"column", "secondary"}
                    /\ call[m].kind # call[k].kind
                    /\ pageOf[call[m].name] # pageOf[call[k].name]
  BY DEF DeadlockOnlyByIndex
<1> DEFINE SameLock(a, b, res) ==
      On(res, call[a].kind) \in locks[a] /\ On(res, call[b].kind) \in locks[b]
<1>1. /\ call[m].step \in {"column", "secondary"} /\ Used(k, call[m].step)
      /\ call[k].step \in {"column", "secondary"} /\ Used(m, call[k].step)
  BY InTheColumns
<1>2. m # k
  BY Waiting
<1>3. Wants(m).on = call[m].step /\ Wants(k).on = call[k].step
  BY <1>1 DEF Wants
<1>4. ASSUME NEW a \in {m, k}
      PROVE  /\ call[a].kind \in {"create", "get"} /\ call[a].no \in Nat
             /\ pageOf[call[a].name] \notin {"column", "secondary"}
  BY <1>1, CatalogAssumption DEF IInv, Typed, Call, CallShape
\* Locks on the same resource exclude each other, but for two readers.
<1>5. ASSUME NEW a \in {m, k}, NEW b \in {m, k}, a # b, NEW res, SameLock(a, b, res)
      PROVE  call[a].kind = "get" /\ call[b].kind = "get"
  <2>1. ~ Conflict(On(res, call[a].kind), On(res, call[b].kind).on, On(res, call[b].kind).mode)
    BY <1>5 DEF IInv, Compatible
  <2> QED BY <1>4, <2>1 DEF Conflict, On
\* A reader waits for the columns, and its writer for the index.
<1>6. ASSUME NEW a \in {m, k}, NEW b \in {m, k}, a # b, call[a].kind = "get",
             Used(a, call[b].step)
      PROVE  call[a].step = "column" /\ call[b].step = "secondary"
  BY <1>1, <1>4, <1>6 DEF Used
\* A writer has been at the columns when it is at the index.
<1>7. ASSUME NEW a \in {m, k}, NEW b \in {m, k}, a # b, call[a].kind = "create",
             Used(a, call[b].step)
      PROVE  On("column", "create") \in locks[a]
  <2>1. call[a].step = "secondary" \/ call[a].no > 0
    BY <1>1, <1>4, <1>7 DEF Used
  <2> QED BY <1>7, <2>1 DEF IInv, HoldsWhatItUsed
<1>8. ~ (call[m].kind = "get" /\ call[k].kind = "get")
  BY <1>1, <1>2, <1>6
<1>9. ~ (call[m].kind = "create" /\ call[k].kind = "create")
  BY <1>1, <1>2, <1>5, <1>7
<1>10. call[m].kind # call[k].kind
  BY <1>4, <1>8, <1>9
<1>11. {call[m].step, call[k].step} = {"column", "secondary"}
  BY <1>1, <1>2, <1>4, <1>6, <1>10
<1>12. pageOf[call[m].name] # pageOf[call[k].name]
  <2>1. /\ On(pageOf[call[m].name], call[m].kind) \in locks[m]
        /\ On(pageOf[call[k].name], call[k].kind) \in locks[k]
    BY <1>1 DEF IInv, HoldsWhatItUsed
  <2> QED BY <1>2, <1>5, <1>10, <2>1
<1> QED BY <1>3, <1>10, <1>11, <1>12

----------------------------------------------------------------------------
(* Theorems *)

LEMMA RowsInit == Init => Rows
BY DEF Init, Rows, NoCall, Puts, PutSoFar, Named, OneTransaction, AllStray, WholeOrOpen,
   StrayLocked

LEMMA InvariantInit == Init => IInv
BY LockingInit, RowsInit DEF IInv, Rows

LEMMA InvariantStep == IInv /\ [Next]_vars => IInv'
BY TypedStep, CallingStep, CompatibleStep, RowsStep DEF IInv, Calling, Rows

LEMMA Invariant == Spec => []IInv
BY InvariantInit, InvariantStep, PTL DEF Spec

\* What each variable ranges over; a thread that is in no call has no rows and no
\* locks left, however its last call has ended (ProjMaker.cpp:93-120, 145-180).
THEOREM TypeCorrect == Spec => []TypeOK
<1>1. IInv => TypeOK
  BY DEF IInv, TypeOK, Typed, PutSoFar, Puts, HoldsNoMore
<1> QED BY <1>1, Invariant, PTL

\* Two threads wait for each other only when one writes the columns of a projection
\* and the other one reads the columns of another, whose row is on another page
\* (ProjMaker.cpp:114, 169).
THEOREM DeadlockForm == Spec => []DeadlockOnlyByIndex
BY DeadlockShape, Invariant, PTL

\* A ProjMaker that has once made a call to the end stays of use, whatever becomes
\* of its later calls (ProjMaker.cpp:48, 95).
THEOREM SpoilsNothing == Spec => UsableOnceUsed
<1> DEFINE Spared == \A m \in Makers : handles[m] = "open" => handles'[m] \in {"open", "none"}
<1>1. ASSUME IInv, [Next]_vars PROVE [Spared]_vars
  <2>1. handles \in [Makers -> {"none", "opening", "open", "dead"}]
    BY <1>1 DEF IInv, Typed
  <2>2. ASSUME NEW m \in Makers, HandlesEnd(m, "open") \/ HandlesEnd(m, "dead") PROVE Spared
    BY <2>1, <2>2 DEF HandlesEnd
  <2>3. ASSUME NEW m \in Makers, Step(m) PROVE Spared
    <3>1. CASE InitDbStruc(m)
      BY <2>1, <3>1 DEF InitDbStruc, Open
    <3>2. CASE UNCHANGED handles
      BY <3>2
    <3> QED BY <2>2, <2>3, <3>1, <3>2
           DEF Step, UseDead, CreateStep, PutProjection, PutColumn, PutSecondary, Abort, Commit,
               GetStep, ReadProjection, ReadSecondary, ReadColumn, Return
  <2>4. ASSUME NEW m \in Makers, Fail(m) PROVE Spared
    BY <2>2, <2>4 DEF Fail, LeaveOpen
  <2>5. CASE \E m \in Makers : Discard(m)
    BY <2>1, <2>5 DEF Discard
  <2>6. CASE Crash
    BY <2>6 DEF Crash
  <2>7. CASE \E m \in Makers, kind \in {"create", "get"}, n \in Names : Begin(m, kind, n)
    BY <2>7 DEF Begin
  <2> QED BY <1>1, <2>3, <2>4, <2>5, <2>6, <2>7 DEF Next
<1> QED BY <1>1, Invariant, PTL DEF Spec, UsableOnceUsed

----------------------------------------------------------------------------
(* Atomicity *)

\* The rows no recovery takes back, and what those of one projection define.
Settled == store \ Uncommitted
ColumnsOf(rows) == {r \in rows : r.table = "column"}
CatalogOf(rows) ==
  IF rows = {} THEN Nobody
  ELSE IF {r \in rows : r.table # "projection"} =
            ColumnsOf(rows) \cup {[r EXCEPT !.table = "secondary"] : r \in ColumnsOf(rows)}
       THEN CreatorOf(ColumnsOf(rows)) ELSE Nobody

LEMMA CommittedIs == \A n : Committed(n) = CatalogOf({r \in Settled : r.name = n})
BY DEF Committed, CatalogOf, ColumnsOf, Settled

LEMMA CommittedNext == \A n : Committed(n)' = CatalogOf({r \in Settled' : r.name = n})
BY DEF Committed, CatalogOf, ColumnsOf, CreatorOf, Settled

LEMMA NobodysRows == CreatorOf({}) = Nobody
<1>1. ASSUME NEW m \in Makers PROVE {<<r.by, r.no>> : r \in {}} # {m} \X (1 .. NumColumns)
  <2>1. <<m, 1>> \in {m} \X (1 .. NumColumns)
    BY CatalogAssumption
  <2> QED BY <2>1
<1> QED BY <1>1 DEF CreatorOf

LEMMA WholeRows ==
  ASSUME NEW m, NEW n
  PROVE  /\ ColumnsOf(Whole(m, n)) =
              {[table |-> "column", name |-> n, by |-> m, no |-> j] : j \in 1 .. NumColumns}
         /\ {r \in Whole(m, n) : r.table = "secondary"} =
              {[table |-> "secondary", name |-> n, by |-> m, no |-> j] : j \in 1 .. NumColumns}
         /\ Whole(m, n) # {}
         /\ \A r \in Whole(m, n) : r.table \in Tables
<1> DEFINE Entries(table) ==
             {[table |-> table, name |-> n, by |-> m, no |-> j] : j \in 1 .. NumColumns}
           first == [table |-> "projection", name |-> n, by |-> m, no |-> 0]
<1>1. Whole(m, n) = {first} \cup Entries("column") \cup Entries("secondary")
  BY DEF Whole, RowsOf
<1>2. first.table = "projection" /\ \A table : \A r \in Entries(table) : r.table = table
  OBVIOUS
<1> HIDE DEF Entries, first
<1>3. ColumnsOf(Whole(m, n)) = Entries("column")
  BY <1>1, <1>2 DEF ColumnsOf
<1>4. {r \in Whole(m, n) : r.table = "secondary"} = Entries("secondary")
  BY <1>1, <1>2
<1>5. Whole(m, n) # {} /\ \A r \in Whole(m, n) : r.table \in Tables
  BY <1>1, <1>2 DEF Tables
<1> QED BY <1>3, <1>4, <1>5 DEF Entries

\* Each column of a whole projection is in the index.
LEMMA WholeIndexed ==
  ASSUME NEW m, NEW n
  PROVE  {[r EXCEPT !.table = "secondary"] : r \in ColumnsOf(Whole(m, n))} =
           {r \in Whole(m, n) : r.table = "secondary"}
<1> DEFINE Col(j) == [table |-> "column", name |-> n, by |-> m, no |-> j]
           Sec(j) == [table |-> "secondary", name |-> n, by |-> m, no |-> j]
<1>1. \A j : [Col(j) EXCEPT !.table = "secondary"] = Sec(j)
  OBVIOUS
<1>2. ColumnsOf(Whole(m, n)) = {Col(j) : j \in 1 .. NumColumns}
  BY WholeRows
<1>3. {r \in Whole(m, n) : r.table = "secondary"} = {Sec(j) : j \in 1 .. NumColumns}
  BY WholeRows
<1> HIDE DEF Col, Sec
<1> QED BY <1>1, <1>2, <1>3

LEMMA WholeBy ==
  ASSUME NEW m \in Makers, NEW n
  PROVE  CreatorOf(ColumnsOf(Whole(m, n))) = m
<1> DEFINE Col(j) == [table |-> "column", name |-> n, by |-> m, no |-> j]
<1>1. ColumnsOf(Whole(m, n)) = {Col(j) : j \in 1 .. NumColumns}
  BY WholeRows
<1>2. \A j : Col(j).by = m /\ Col(j).no = j
  OBVIOUS
<1> HIDE DEF Col
<1>3. {<<r.by, r.no>> : r \in ColumnsOf(Whole(m, n))} = {m} \X (1 .. NumColumns)
  <2> DEFINE pairs == {<<r.by, r.no>> : r \in ColumnsOf(Whole(m, n))}
  <2>1. \A p \in pairs : p \in {m} \X (1 .. NumColumns)
    BY <1>1, <1>2
  <2>2. ASSUME NEW p \in {m} \X (1 .. NumColumns) PROVE p \in pairs
    <3>1. PICK j \in 1 .. NumColumns : p = <<m, j>>
      OBVIOUS
    <3>2. Col(j) \in ColumnsOf(Whole(m, n))
      BY <1>1
    <3> QED BY <1>2, <3>1, <3>2
  <2> QED BY <2>1, <2>2
<1> QED BY <1>3, CreatorIs

LEMMA WholeCatalog ==
  ASSUME NEW m \in Makers, NEW n
  PROVE  CatalogOf(Whole(m, n)) = m
<1>1. Whole(m, n) # {} /\ \A r \in Whole(m, n) : r.table \in Tables
  BY WholeRows
<1>2. {r \in Whole(m, n) : r.table # "projection"} =
        ColumnsOf(Whole(m, n)) \cup {r \in Whole(m, n) : r.table = "secondary"}
  BY <1>1 DEF ColumnsOf, Tables
<1> QED BY <1>1, <1>2, WholeIndexed, WholeBy DEF CatalogOf

\* What is defined: by the creator of the whole rows, if no transaction that has put
\* them is open.
LEMMA CommittedForm ==
  ASSUME IInv, NEW n \in Names
  PROVE  /\ Named(n) \cap Uncommitted # {} => Committed(n) = Nobody
         /\ Named(n) = {} => Committed(n) = Nobody
         /\ \A m \in Makers :
              Named(n) \cap Uncommitted = {} /\ Named(n) = Whole(m, n) => Committed(n) = m
<1> DEFINE firm == {r \in Settled : r.name = n}
<1>1. Committed(n) = CatalogOf(firm)
  BY CommittedIs
<1>2. CatalogOf({}) = Nobody
  BY DEF CatalogOf
<1>3. Named(n) \cap Uncommitted # {} => firm = {}
  BY AllUncommitted DEF Named, Settled
<1>4. Named(n) \cap Uncommitted = {} => firm = Named(n)
  BY DEF Named, Settled
<1> HIDE DEF firm
<1> QED BY <1>1, <1>2, <1>3, <1>4, WholeCatalog

\* What a reader finds through the index is what is defined.
LEMMA FoundIs ==
  ASSUME IInv, NEW n \in Names, Named(n) \cap Uncommitted = {}
  PROVE  CreatorOf(Indexed(n)) = Committed(n)
<1>1. CASE Named(n) = {}
  <2>1. Indexed(n) = {}
    BY <1>1 DEF Named, Indexed
  <2> QED BY <1>1, <2>1, NobodysRows, CommittedForm
<1>2. CASE Named(n) # {}
  <2>1. PICK m \in Makers : Named(n) = Whole(m, n)
    BY <1>2 DEF IInv, WholeOrOpen
  <2>2. Indexed(n) = ColumnsOf(Whole(m, n))
    <3>1. Indexed(n) \subseteq ColumnsOf(Whole(m, n))
      BY <2>1 DEF Indexed, Named, ColumnsOf
    <3>2. ASSUME NEW r \in ColumnsOf(Whole(m, n)) PROVE r \in Indexed(n)
      <4>1. [r EXCEPT !.table = "secondary"] \in Whole(m, n)
        BY WholeIndexed
      <4> QED BY <2>1, <4>1 DEF Indexed, Named, ColumnsOf
    <3> QED BY <3>1, <3>2
  <2> QED BY <2>1, <2>2, WholeBy, CommittedForm
<1> QED BY <1>1, <1>2

\* A reader of the row of a projection keeps its writers away from it, and readers
\* do not meet those whose transaction is left open.
LEMMA ReaderAlone ==
  ASSUME IInv, NEW m \in Makers, At(m, "get", "commit")
  PROVE  Named(call[m].name) \cap Uncommitted = {}
<1> DEFINE n == call[m].name
           mine == [on |-> pageOf[n], mode |-> "S"]
           writers == [on |-> pageOf[n], mode |-> "X"]
<1>1. mine \in locks[m]
  BY DEF IInv, HoldsWhatItUsed, At, On
<1>2. /\ writers \notin leaked
      /\ \A k \in Makers \ {m} : writers \notin locks[k]
  BY <1>1 DEF IInv, Compatible, Conflict
<1>3. ASSUME NEW r \in Named(n), r \in strayed PROVE FALSE
  <2>1. r.name = n
    BY DEF Named
  <2> QED BY <1>2, <1>3, <2>1 DEF IInv, StrayLocked
<1>4. ASSUME NEW r \in Named(n), NEW k \in Makers, r \in added[k] PROVE FALSE
  <2>1. Puts(k) /\ call[k].name = n
    BY <1>4, AddedBy DEF Named
  <2>2. k # m
    BY <2>1 DEF Puts, At
  <2> QED BY <1>2, <2>1, <2>2, AddedAre
<1> QED BY <1>3, <1>4 DEF Uncommitted

catalog == [n \in Names |-> Committed(n)]

LEMMA SettledIs ==
  ASSUME UNCHANGED Settled
  PROVE  UNCHANGED catalog
<1>1. \A n : Committed(n)' = Committed(n)
  BY CommittedIs, CommittedNext
<1> QED BY <1>1 DEF catalog

\* A row that is put is not settled, and no row of its projection is.
LEMMA PutSettles ==
  ASSUME IInv, NEW m \in Makers, NEW table, NEW no, Put(m, table, no), UNCHANGED strayed,
         call[m].name \in Names, Puts(m) \/ ~ Defined(call[m].name)
  PROVE  UNCHANGED Settled
<1> DEFINE row == [table |-> table, name |-> call[m].name, by |-> m, no |-> no]
<1>1. row.name = call[m].name
  OBVIOUS
<1>2. store' = store \cup {row} /\ added' = [added EXCEPT ![m] = @ \cup {row}]
  BY DEF Put
<1> HIDE DEF row
<1>3. Uncommitted' = Uncommitted \cup {row}
  BY <1>2 DEF Uncommitted, IInv, Typed
<1>4. ASSUME row \in store PROVE row \in Uncommitted
  <2>1. row \in Named(call[m].name)
    BY <1>1, <1>4 DEF Named
  <2>2. Puts(m)
    BY <2>1 DEF IInv, WholeOrOpen
  <2> QED BY <2>1, <2>2 DEF IInv, OneTransaction, Uncommitted
<1> QED BY <1>2, <1>3, <1>4 DEF Settled

\* A transaction that has put nothing ends.
LEMMA QuietSettles ==
  ASSUME IInv, NEW m \in Makers, added[m] = {}, UNCHANGED <<store, strayed>>,
         added' = [added EXCEPT ![m] = {}]
  PROVE  UNCHANGED Settled
<1>1. added' = added
  BY DEF IInv, Typed
<1> QED BY <1>1 DEF Settled, Uncommitted

LEMMA LeaveSettles ==
  ASSUME IInv, NEW m \in Makers, LeaveOpen(m)
  PROVE  UNCHANGED Settled
<1>1. /\ added'[m] = {} /\ \A k \in Makers \ {m} : added'[k] = added[k]
      /\ strayed' = strayed \cup added[m] /\ store' = store
  BY DEF IInv, Typed, LeaveOpen, Ended
<1>2. Uncommitted' = Uncommitted
  BY <1>1 DEF Uncommitted
<1> QED BY <1>1, <1>2 DEF Settled

LEMMA CrashSettles ==
  ASSUME Crash
  PROVE  UNCHANGED Settled
<1>1. \A m \in Makers : added'[m] = {}
  BY DEF Crash
<1>2. Uncommitted' = {}
  BY <1>1 DEF Crash, Uncommitted
<1> QED BY <1>2 DEF Crash, Settled

\* The commit of a creator defines its projection, which was nobody's.
LEMMA CommitDefines ==
  ASSUME IInv, NEW m \in Makers, At(m, "create", "commit"), Commit(m),
         UNCHANGED <<pageOf, answer>>
  PROVE  Promise!Define(m, call[m].name)
<1> DEFINE n == call[m].name
<1>1. /\ Puts(m) /\ n \in Names /\ Named(n) = added[m] /\ added[m] # {}
      /\ added[m] \cap strayed = {}
  BY AddedAre DEF At, Puts, IInv, OneTransaction
<1>2. added[m] = Whole(m, n)
  BY <1>1 DEF IInv, PutSoFar, CallShape, At, Whole
<1>3. /\ added'[m] = {} /\ \A k \in Makers \ {m} : added'[k] = added[k]
      /\ UNCHANGED <<store, strayed>>
  BY DEF Commit, Ended, IInv, Typed
<1>4. Uncommitted' = Uncommitted \ added[m]
  <2>1. \A k \in Makers \ {m} : added[k] \cap added[m] = {}
    BY AddedAre
  <2> QED BY <1>1, <1>3, <2>1 DEF Uncommitted
<1>5. catalog[n] = Nobody
  <2>1. Named(n) \cap Uncommitted # {}
    BY <1>1 DEF Uncommitted
  <2> QED BY <1>1, <2>1, CommittedForm DEF catalog
<1>6. catalog'[n] = m
  <2>1. \A q \in Names : catalog'[q] = CatalogOf({r \in Settled' : r.name = q})
    BY CommittedNext DEF catalog
  <2>2. {r \in Settled' : r.name = n} = Whole(m, n)
    BY <1>1, <1>2, <1>3, <1>4 DEF Settled, Named
  <2> QED BY <1>1, <2>1, <2>2, WholeCatalog
<1>7. ASSUME NEW q \in Names, q # n PROVE catalog'[q] = catalog[q]
  <2>1. {r \in Settled' : r.name = q} = {r \in Settled : r.name = q}
    <3>1. \A r \in added[m] : r.name # q
      BY <1>1, <1>7 DEF Named
    <3> QED BY <1>3, <1>4, <3>1 DEF Settled
  <2> QED BY <2>1, CommittedIs, CommittedNext DEF catalog
<1>8. catalog' = [catalog EXCEPT ![n] = m]
  BY <1>1, <1>6, <1>7 DEF catalog
<1> QED BY <1>5, <1>8 DEF Promise!Define, catalog

\* A lookup answers what is defined at the moment it returns.
LEMMA ReturnLooks ==
  ASSUME IInv, NEW m \in Makers, At(m, "get", "commit"), Return(m)
  PROVE  Promise!Look(m, call[m].name)
<1>1. call[m].name \in Names
  BY DEF IInv, CallShape, At
<1>2. CreatorOf(Indexed(call[m].name)) = catalog[call[m].name]
  BY <1>1, ReaderAlone, FoundIs DEF catalog
<1>3. added[m] = {}
  BY AddedAre DEF At, Puts
<1>4. UNCHANGED catalog
  BY <1>3, QuietSettles, SettledIs DEF Return, Commit, Ended
<1> QED BY <1>2, <1>4 DEF Return, Promise!Look, catalog

LEMMA MissLooks ==
  ASSUME IInv, NEW m \in Makers, At(m, "get", "projection"), ReadProjection(m),
         ~ Defined(call[m].name)
  PROVE  Promise!Look(m, call[m].name)
<1>1. call[m].name \in Names
  BY DEF IInv, CallShape, At
<1>2. catalog[call[m].name] = Nobody
  BY <1>1, CommittedForm DEF IInv, WholeOrOpen, catalog
<1>3. UNCHANGED Settled
  BY DEF ReadProjection, Settled, Uncommitted
<1> QED BY <1>2, <1>3, SettledIs DEF ReadProjection, Promise!Look, catalog

LEMMA StepPromised ==
  ASSUME IInv, [Next]_vars
  PROVE  [Promise!Next]_(Promise!vars)
<1>1. ASSUME UNCHANGED Settled, UNCHANGED answer PROVE UNCHANGED Promise!vars
  BY <1>1, SettledIs DEF catalog, Promise!vars
<1>2. ASSUME UNCHANGED Settled, NEW S \in SUBSET Makers,
             answer' = [m \in Makers |-> IF m \in S THEN NoAnswer ELSE answer[m]]
      PROVE  Promise!Next
  <2>1. Promise!Forget(S)
    BY <1>2, SettledIs DEF catalog, Promise!Forget, Promise!NoAnswer, NoAnswer
  <2> QED BY <2>1 DEF Promise!Next
<1>3. ASSUME NEW m \in Makers, NEW n \in Names, Promise!Define(m, n) \/ Promise!Look(m, n)
      PROVE  Promise!Next
  BY <1>3 DEF Promise!Next
<1>4. CASE UNCHANGED <<store, added, strayed, answer>>
  BY <1>1, <1>4 DEF Settled, Uncommitted
<1>5. ASSUME NEW m \in Makers, NEW kind \in {"create", "get"}, NEW n \in Names, Begin(m, kind, n)
      PROVE  Promise!Next
  <2>1. UNCHANGED Settled
    BY <1>5 DEF Begin, Settled, Uncommitted
  <2>2. answer' = [k \in Makers |-> IF k \in {m} THEN NoAnswer ELSE answer[k]]
    BY <1>5 DEF Begin, IInv, Typed
  <2> QED BY <1>2, <2>1, <2>2
<1>6. ASSUME NEW m \in Makers, CreateStep(m) PROVE [Promise!Next]_(Promise!vars)
  <2>1. UNCHANGED <<pageOf, answer>> /\ call[m].name \in Names
    BY <1>6 DEF CreateStep, IInv, CallShape, At
  <2>2. CASE At(m, "create", "projection") /\ PutProjection(m)
    <3>1. CASE Defined(call[m].name)
      <4>1. Abort(m) /\ added[m] = {}
        BY <2>2, <3>1, AbortsNothing DEF PutProjection
      <4> QED BY <1>1, <2>1, <4>1, QuietSettles DEF Abort, Ended
    <3>2. CASE ~ Defined(call[m].name)
      BY <1>1, <2>1, <2>2, <3>2, PutSettles DEF PutProjection
    <3> QED BY <3>1, <3>2
  <2>3. CASE At(m, "create", "column") /\ PutColumn(m)
    BY <1>1, <2>1, <2>3, PutSettles DEF PutColumn, At, Puts
  <2>4. CASE At(m, "create", "secondary") /\ PutSecondary(m)
    BY <1>1, <2>1, <2>4, PutSettles DEF PutSecondary, At, Puts
  <2>5. CASE At(m, "create", "commit") /\ Commit(m)
    BY <1>3, <2>1, <2>5, CommitDefines
  <2> QED BY <1>6, <2>2, <2>3, <2>4, <2>5 DEF CreateStep
<1>7. ASSUME NEW m \in Makers, GetStep(m) PROVE [Promise!Next]_(Promise!vars)
  <2>1. call[m].name \in Names
    BY <1>7 DEF GetStep, IInv, CallShape, At
  <2>2. CASE At(m, "get", "projection") /\ ReadProjection(m)
    <3>1. CASE Defined(call[m].name)
      BY <1>4, <2>2, <3>1 DEF ReadProjection
    <3>2. CASE ~ Defined(call[m].name)
      BY <1>3, <2>1, <2>2, <3>2, MissLooks
    <3> QED BY <3>1, <3>2
  <2>3. CASE ReadSecondary(m) \/ ReadColumn(m)
    BY <1>4, <2>3 DEF ReadSecondary, ReadColumn
  <2>4. CASE At(m, "get", "commit") /\ Return(m)
    BY <1>3, <2>1, <2>4, ReturnLooks
  <2> QED BY <1>7, <2>2, <2>3, <2>4 DEF GetStep
<1>8. ASSUME NEW m \in Makers, Fail(m) PROVE UNCHANGED Promise!vars
  BY <1>1, <1>8, LeaveSettles DEF Fail
<1>9. CASE Crash
  <2>1. answer' = [m \in Makers |-> IF m \in Makers THEN NoAnswer ELSE answer[m]]
    BY <1>9 DEF Crash
  <2> QED BY <1>2, <1>9, <2>1, CrashSettles
<1>10. ASSUME NEW m \in Makers, InitDbStruc(m) \/ UseDead(m) \/ Discard(m)
       PROVE  [Promise!Next]_(Promise!vars)
  BY <1>4, <1>10 DEF InitDbStruc, UseDead, Discard
<1> QED BY <1>4, <1>5, <1>6, <1>7, <1>8, <1>9, <1>10 DEF Next, Step, vars

\* createProjection and getProjection are atomic, and what is created stays, for any
\* number of threads, columns, failing calls and crashes: each of their steps is a
\* step of CatalogPromise, or is one that nobody can see (ProjMaker.cpp:93-120, 145-180).
THEOREM Atomicity == Spec => IsAtomic
<1>1. Init => Promise!Init
  <2>1. Init => \A n \in Names : Committed(n) = Nobody
    BY DEF Init, Committed
  <2> QED BY <2>1 DEF Init, Promise!Init, Promise!NoAnswer, NoAnswer
<1>2. IInv /\ [Next]_vars => [Promise!Next]_(Promise!vars)
  BY StepPromised
<1> QED BY <1>1, <1>2, Invariant, PTL DEF Spec, IsAtomic, Promise!Spec

=============================================================================
