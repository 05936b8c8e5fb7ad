------------------------- MODULE LogRotationProofs --------------------------
(***************************************************************************)
(* Theorems about the rotation of the log, for any number of threads,      *)
(* slots, lines, crashes and failing uses of files: what LOG_SLOT holds,   *)
(* when the critical section is abandoned, which lines are kept when       *)
(* nothing goes wrong (Turn), and what crashes and uses of files that fail *)
(* cost (Series).                                                          *)
(***************************************************************************)
EXTENDS LogRotation, FiniteSetTheorems, WellFoundedInduction, TLAPS

\* Behind EnterCriticalSection, and where a rotation has closed the file.
Inside == Steps \ {"idle", "stamped"}
Closed == {"rename", "remove", "again", "mark", "save", "open"}

----------------------------------------------------------------------------
(* The inductive invariant *)

\* Neither property is inductive.  That the section is not abandoned rests on at()
\* finding the slot, hence on the table; what a crash makes of the table rests on
\* how far LOG_SLOT has been written.

Typed ==
  /\ slotFile \in Tables /\ logSlot \in Tables
  /\ isOpen \in BOOLEAN /\ slot \in Nat
  /\ csLock \in [owner : SUBSET Threads, count : Nat]
  /\ pc \in [Threads -> Steps]

\* The critical section keeps the threads apart.
Exclusive ==
  \A t \in Threads : pc[t] \in Inside => csLock.owner = {t} /\ csLock.count # 0

\* The table is empty when no entry of LOG_SLOT was read, and stays empty.
EmptyUnread == logSlot = NoTable => "unread" \in flaws

\* While there is a table, the section is entered once, by a thread inside it ...
HeldFromInside ==
  logSlot # NoTable =>
    \/ csLock = Nobody
    \/ csLock.count = 1 /\ \E t \in Threads : csLock.owner = {t} /\ pc[t] \in Inside

\* ... the slot of a rotation is in the table ...
SlotThere ==
  logSlot # NoTable => \A t \in Threads : pc[t] \in Closed => slot \in DOMAIN logSlot

\* ... and the file is closed by a rotation only, until it cannot be opened again.
OpenOutside ==
  logSlot # NoTable =>
    isOpen \/ "unopened" \in flaws
    \/ (csLock # Nobody /\ \A t \in Threads : pc[t] \in Inside => pc[t] \in Closed)

\* LOG_SLOT is the table until a rotation, and again when it has been written.
OnDisk == slotFile = logSlot \/ flaws \cap {"unread", "unsaved"} # {}
Saved ==
  csLock = Nobody \/ (\E t \in Threads : pc[t] \in {"entered", "index", "open", "leave"})
    => OnDisk

\* What has been written of it is the beginning of the table.
Saving ==
  \A t \in Threads : pc[t] = "save" =>
    \E n \in Nat, j \in Nat :
      /\ j < n /\ DOMAIN logSlot = 1 .. n
      /\ slotFile = [s \in 1 .. j |-> logSlot[s]]

IInv ==
  /\ Typed /\ Exclusive /\ EmptyUnread /\ HeldFromInside
  /\ SlotThere /\ OpenOutside /\ Saved /\ Saving

----------------------------------------------------------------------------
(* Tables *)

\* A table has a first part of the slots.
LEMMA TableDomain ==
  ASSUME NEW f \in Tables
  PROVE  \E n \in 0 .. NumSlots : f \in [1 .. n -> {"0", "1"}] /\ DOMAIN f = 1 .. n
BY DEF Tables

\* The empty table is the one without slots.
LEMMA EmptyTable ==
  ASSUME NEW f \in Tables, DOMAIN f = {}
  PROVE  f = NoTable
<1>1. f = [s \in DOMAIN f |-> f[s]]
  BY TableDomain
<1> QED BY <1>1 DEF NoTable

LEMMA NoTableIsTable == NoTable \in Tables /\ DOMAIN NoTable = {}
<1>1. NoTable \in [1 .. 0 -> {"0", "1"}]
  BY DEF NoTable
<1>2. 0 \in 0 .. NumSlots
  BY LogAssumption
<1> QED BY <1>1, <1>2 DEF Tables, NoTable

\* Any other one has the first slot.
LEMMA FirstSlot ==
  ASSUME NEW f \in Tables, f # NoTable
  PROVE  1 \in DOMAIN f
<1>1. PICK n \in 0 .. NumSlots : DOMAIN f = 1 .. n
  BY TableDomain
<1>2. n # 0
  BY <1>1, EmptyTable
<1> QED BY <1>1, <1>2, LogAssumption

\* A table stays one, and keeps its slots, when entries are set or reset.
LEMMA TableSet ==
  ASSUME NEW f \in Tables, NEW s
  PROVE  /\ [f EXCEPT ![s] = "1"] \in Tables
         /\ DOMAIN [f EXCEPT ![s] = "1"] = DOMAIN f
         /\ [r \in DOMAIN f |-> "0"] \in Tables
<1>1. PICK n \in 0 .. NumSlots : f \in [1 .. n -> {"0", "1"}] /\ DOMAIN f = 1 .. n
  BY TableDomain
<1>2. [f EXCEPT ![s] = "1"] \in [1 .. n -> {"0", "1"}]
  BY <1>1
<1>3. [r \in DOMAIN f |-> "0"] \in [1 .. n -> {"0", "1"}]
  BY <1>1
<1> QED BY <1>1, <1>2, <1>3 DEF Tables

\* Whether there is a table depends on its slots alone.
LEMMA SameSlots ==
  ASSUME NEW f \in Tables, NEW g \in Tables, DOMAIN f = DOMAIN g
  PROVE  f = NoTable <=> g = NoTable
BY EmptyTable, NoTableIsTable

\* A set of naturals has a least element.
LEMMA LeastExists ==
  ASSUME NEW S \in SUBSET Nat, S # {}
  PROVE  \E m \in S : \A x \in S : m <= x
<1>1. PICK m \in S : \A x \in S : ~ (<<x, m>> \in OpToRel(<, Nat))
  BY NatLessThanWellFounded, WFMin
<1>2. \A x \in S : x \in Nat /\ m \in Nat
  OBVIOUS
<1>3. \A x \in S : ~ (x < m)
  BY <1>1, <1>2 DEF OpToRel
<1> QED BY <1>2, <1>3

\* getCurrLogIndex finds a slot of the table.
LEMMA IndexInTable ==
  ASSUME logSlot \in Tables
  PROVE  /\ CurrLogIndex \in Nat
         /\ logSlot # NoTable => CurrLogIndex \in DOMAIN logSlot
<1>1. DOMAIN logSlot \subseteq Nat
  BY TableDomain
<1>2. CASE FreeSlots = {}
  BY <1>2, FirstSlot DEF CurrLogIndex
<1>3. CASE FreeSlots # {}
  <2>1. PICK s \in FreeSlots : \A r \in FreeSlots : s <= r
    BY <1>1, <1>3, LeastExists DEF FreeSlots
  <2>2. Lowest(FreeSlots) \in FreeSlots
    BY <2>1 DEF Lowest
  <2> QED BY <1>1, <1>3, <2>2 DEF CurrLogIndex, FreeSlots
<1> QED BY <1>2, <1>3

----------------------------------------------------------------------------
(* The steps *)

\* The thread inside is the only one, and while there is a table it has entered once.
LEMMA Alone ==
  ASSUME IInv, NEW t \in Threads, pc[t] \in Inside
  PROVE  /\ csLock.owner = {t} /\ csLock.count # 0 /\ csLock # Nobody
         /\ \A u \in Threads : u # t => pc[u] \notin Inside
         /\ logSlot # NoTable => csLock.count = 1
<1>1. csLock.owner = {t} /\ csLock.count # 0
  BY DEF IInv, Exclusive
<1>2. csLock # Nobody
  BY <1>1 DEF Nobody
<1>3. \A u \in Threads : u # t => pc[u] \notin Inside
  BY <1>1 DEF IInv, Exclusive
<1> QED BY <1>1, <1>2, <1>3 DEF IInv, HeldFromInside

LEMMA InitInv == Init => IInv
<1> SUFFICES ASSUME Init PROVE IInv
  OBVIOUS
<1>1. Fresh \in Tables
  <2>1. Fresh \in [1 .. NumSlots -> {"0", "1"}]
    BY DEF Fresh, Slots
  <2> QED BY <2>1, LogAssumption DEF Tables
<1>2. logSlot \in Tables /\ slotFile \in Tables
  BY <1>1, NoTableIsTable DEF Init
<1>3. Typed
  BY <1>2 DEF Init, Typed, Nobody, Steps
<1>4. \A t \in Threads : pc[t] = "idle"
  BY DEF Init
<1>5. EmptyUnread /\ (slotFile = logSlot \/ "unread" \in flaws)
  BY DEF Init, EmptyUnread, FlawsAtStart
<1> QED BY <1>3, <1>4, <1>5 DEF Init, IInv, Exclusive, HeldFromInside, SlotThere, OpenOutside,
             Saved, OnDisk, Saving, Inside, Closed

LEMMA StampInv ==
  ASSUME IInv, NEW t \in Threads, Stamp(t)
  PROVE  IInv'
<1> USE DEF Stamp, At, Goto, disk, memory, faults, OnDisk
<1>1. Typed'
  BY DEF IInv, Typed, Steps
<1>2. \A u \in Threads : pc'[u] # pc[u] => pc[u] = "idle" /\ pc'[u] = "stamped"
  BY DEF IInv, Typed
<1>3. \A u \in Threads : pc'[u] \in Inside <=> pc[u] \in Inside
  BY <1>2 DEF Inside
<1>4. \A u \in Threads : pc'[u] \in Inside => pc'[u] = pc[u]
  BY <1>2 DEF Inside
<1>5. Exclusive' /\ EmptyUnread' /\ HeldFromInside'
  BY <1>3 DEF IInv, Exclusive, EmptyUnread, HeldFromInside
<1>6. SlotThere' /\ OpenOutside' /\ Saved' /\ Saving'
  BY <1>2, <1>3, <1>4 DEF IInv, SlotThere, OpenOutside, Saved, Saving, Closed
<1> QED BY <1>1, <1>5, <1>6 DEF IInv

LEMMA EnterInv ==
  ASSUME IInv, NEW t \in Threads, Enter(t)
  PROVE  IInv'
<1> USE DEF Enter, At, Goto, disk, history, faults, OnDisk
<1>1. Typed'
  BY DEF IInv, Typed, Steps
<1>2. pc' = [pc EXCEPT ![t] = "entered"] /\ pc \in [Threads -> Steps] /\ pc[t] = "stamped"
  BY DEF IInv, Typed
<1>3. \A u \in Threads : u # t => pc[u] \notin Inside
  BY DEF IInv, Exclusive
<1>4. pc[t] \notin Inside
  BY <1>2 DEF Inside
<1>5. logSlot # NoTable => csLock = Nobody
  BY <1>3, <1>4 DEF IInv, HeldFromInside
<1>6. Exclusive'
  BY <1>1, <1>2, <1>3 DEF IInv, Typed, Exclusive
<1>7. EmptyUnread' /\ SlotThere'
  BY <1>2, <1>3, <1>4 DEF IInv, EmptyUnread, SlotThere, Closed, Inside, Steps
<1>8. HeldFromInside'
  BY <1>2, <1>5 DEF HeldFromInside, Nobody, Inside, Steps
<1>9. OpenOutside'
  BY <1>5 DEF IInv, OpenOutside
<1>10. OnDisk
  BY <1>5 DEF IInv, Saved, EmptyUnread
<1>11. Saved' /\ Saving'
  BY <1>2, <1>3, <1>10 DEF Saved, Saving, Inside, Steps
<1> QED BY <1>1, <1>6, <1>7, <1>8, <1>9, <1>11 DEF IInv

LEMMA WriteInv ==
  ASSUME IInv, NEW t \in Threads, Write(t)
  PROVE  IInv'
<1> USE DEF Write, At, Goto, memory, faults, OnDisk
<1>1. /\ pc \in [Threads -> Steps] /\ pc[t] = "entered"
      /\ pc' \in {[pc EXCEPT ![t] = "index"], [pc EXCEPT ![t] = "leave"]}
      /\ UNCHANGED <<slotFile, logSlot, isOpen, csLock, slot, flaws>>
  BY DEF IInv, Typed
<1>2. \A u \in Threads : u # t => pc[u] \notin Inside
  BY <1>1, Alone DEF Inside, Steps
<1>3. \A u \in Threads : pc'[u] \in Inside <=> pc[u] \in Inside
  BY <1>1 DEF Inside, Steps
<1>4. Typed' /\ Exclusive' /\ EmptyUnread' /\ HeldFromInside'
  BY <1>1, <1>3 DEF IInv, Typed, Exclusive, EmptyUnread, HeldFromInside, Steps
<1>5. logSlot # NoTable => isOpen \/ "unopened" \in flaws
  BY <1>1 DEF IInv, OpenOutside, Inside, Closed, Steps
<1>6. OnDisk
  BY <1>1 DEF IInv, Saved
<1>7. SlotThere' /\ OpenOutside' /\ Saved' /\ Saving'
  BY <1>1, <1>2, <1>5, <1>6 DEF SlotThere, OpenOutside, Saved, Saving, Inside, Closed, Steps
<1> QED BY <1>4, <1>7 DEF IInv

LEMMA LeaveInv ==
  ASSUME IInv, NEW t \in Threads, Leave(t)
  PROVE  IInv'
<1> USE DEF Leave, At, Goto, disk, history, faults, OnDisk
<1>1. /\ pc \in [Threads -> Steps] /\ pc[t] = "leave" /\ pc' = [pc EXCEPT ![t] = "idle"]
      /\ pc[t] \in Inside
  BY DEF IInv, Typed, Inside, Steps
<1>2. /\ \A u \in Threads : u # t => pc[u] \notin Inside
      /\ logSlot # NoTable => csLock.count = 1
  BY <1>1, Alone
<1>3. \A u \in Threads : pc'[u] \notin Inside
  BY <1>1, <1>2 DEF Inside
<1>4. OnDisk /\ (logSlot # NoTable => isOpen \/ "unopened" \in flaws)
  BY <1>1 DEF IInv, Saved, OpenOutside, Closed
<1>5. csLock' \in [owner : SUBSET Threads, count : Nat]
  <2>1. CASE csLock.count = 1
    BY <2>1 DEF Nobody
  <2>2. CASE csLock.count # 1
    <3>1. csLock.owner = {t} /\ csLock.count # 0
      BY <1>1, Alone DEF Inside
    <3> QED BY <2>2, <3>1 DEF IInv, Typed
  <2> QED BY <2>1, <2>2
<1>6. Typed'
  BY <1>1, <1>5 DEF IInv, Typed, Steps
<1>7. Exclusive' /\ EmptyUnread' /\ HeldFromInside'
  BY <1>2, <1>3 DEF IInv, Exclusive, EmptyUnread, HeldFromInside
<1>8. SlotThere' /\ OpenOutside' /\ Saved' /\ Saving'
  BY <1>3, <1>4 DEF SlotThere, OpenOutside, Saved, Saving, Inside, Closed, Steps
<1> QED BY <1>6, <1>7, <1>8 DEF IInv

\* What all steps of a rotation have in common: the thread stays inside, alone, and
\* leaves the critical section alone.
LEMMA RotateFrame ==
  ASSUME IInv, NEW t \in Threads, NEW step \in Inside, pc[t] \in Inside,
         pc' = [pc EXCEPT ![t] = step], csLock' = csLock, logSlot' \in Tables,
         DOMAIN logSlot' = DOMAIN logSlot
  PROVE  /\ pc' \in [Threads -> Steps] /\ pc'[t] = step
         /\ \A u \in Threads : u # t => pc[u] \notin Inside /\ pc'[u] \notin Inside
         /\ csLock \in [owner : SUBSET Threads, count : Nat] /\ csLock # Nobody
         /\ logSlot' = NoTable <=> logSlot = NoTable
         /\ Exclusive' /\ HeldFromInside'
<1>1. pc' \in [Threads -> Steps] /\ pc'[t] = step
  BY DEF IInv, Typed, Inside
<1>2. /\ csLock.owner = {t} /\ csLock.count # 0 /\ csLock # Nobody
      /\ \A u \in Threads : u # t => pc[u] \notin Inside
      /\ logSlot # NoTable => csLock.count = 1
  BY Alone
<1>3. \A u \in Threads : u # t => pc'[u] \notin Inside
  BY <1>2 DEF IInv, Typed
<1>4. logSlot' = NoTable <=> logSlot = NoTable
  BY SameSlots DEF IInv, Typed
<1>5. Exclusive' /\ HeldFromInside'
  BY <1>1, <1>2, <1>3, <1>4 DEF Exclusive, HeldFromInside
<1> QED BY <1>1, <1>2, <1>3, <1>4, <1>5 DEF IInv, Typed

LEMMA GetCurrLogIndexInv ==
  ASSUME IInv, NEW t \in Threads, GetCurrLogIndex(t)
  PROVE  IInv'
<1> USE DEF GetCurrLogIndex, At, Goto, disk, history, faults, OnDisk
<1>1. pc[t] = "index" /\ pc[t] \in Inside /\ "rename" \in Inside
  BY DEF Inside, Steps
<1>2. logSlot' \in Tables /\ DOMAIN logSlot' = DOMAIN logSlot
  BY TableSet DEF IInv, Typed
<1>3. /\ pc' \in [Threads -> Steps] /\ pc'[t] = "rename"
      /\ \A u \in Threads : u # t => pc'[u] \notin Inside
      /\ csLock # Nobody
      /\ logSlot' = NoTable <=> logSlot = NoTable
      /\ Exclusive' /\ HeldFromInside'
  BY <1>1, <1>2, RotateFrame
<1>4. slot' \in Nat /\ (logSlot # NoTable => slot' \in DOMAIN logSlot)
  BY IndexInTable DEF IInv, Typed
<1>5. Typed'
  BY <1>2, <1>3, <1>4 DEF IInv, Typed
<1>6. EmptyUnread' /\ SlotThere' /\ OpenOutside' /\ Saved' /\ Saving'
  BY <1>2, <1>3, <1>4 DEF IInv, EmptyUnread, SlotThere, OpenOutside, Saved, Saving, Inside,
     Closed, Steps
<1> QED BY <1>3, <1>5, <1>6 DEF IInv

\* The steps that rename and remove files.
LEMMA RenameInv ==
  ASSUME IInv, NEW t \in Threads, Rename(t) \/ Remove(t) \/ RenameAgain(t)
  PROVE  IInv'
<1>1. /\ pc[t] \in {"rename", "remove", "again"}
      /\ \E step \in {"remove", "again", "mark"} : pc' = [pc EXCEPT ![t] = step]
      /\ UNCHANGED <<slotFile, memory, flaws>>
  BY DEF Rename, Remove, RenameAgain, Moved, Held, At, Goto, disk, history, faults
<1>2. PICK step \in {"remove", "again", "mark"} : pc' = [pc EXCEPT ![t] = step]
  BY <1>1
<1>3. pc[t] \in Inside /\ step \in Inside
  BY <1>1 DEF Inside, Steps
<1>4. /\ pc' \in [Threads -> Steps] /\ pc'[t] = step
      /\ \A u \in Threads : u # t => pc'[u] \notin Inside
      /\ csLock # Nobody
      /\ Exclusive' /\ HeldFromInside'
  BY <1>1, <1>2, <1>3, RotateFrame DEF IInv, Typed, memory
<1>5. Typed'
  BY <1>1, <1>4 DEF IInv, Typed, memory
<1>6. EmptyUnread' /\ SlotThere' /\ OpenOutside' /\ Saved' /\ Saving'
  BY <1>1, <1>4 DEF IInv, EmptyUnread, SlotThere, OpenOutside, Saved, OnDisk, Saving, Inside,
     Closed, Steps, memory
<1> QED BY <1>4, <1>5, <1>6 DEF IInv

LEMMA ThrowInv ==
  ASSUME IInv, NEW t \in Threads, Throw(t)
  PROVE  IInv'
<1> USE DEF Throw, At, Goto, disk, memory, history, faults, OnDisk
<1>1. pc[t] = "mark" /\ pc[t] \in Inside
  BY DEF Inside, Steps
<1>2. logSlot = NoTable /\ OnDisk
  BY <1>1 DEF IInv, SlotThere, Closed, EmptyUnread
<1>3. Typed'
  BY DEF IInv, Typed, Steps
<1>4. \A u \in Threads : pc'[u] \notin Inside
  <2>1. \A u \in Threads : u # t => pc[u] \notin Inside
    BY <1>1, Alone
  <2> QED BY <2>1 DEF IInv, Typed, Inside
<1>5. EmptyUnread' /\ Exclusive' /\ HeldFromInside' /\ SlotThere' /\ OpenOutside'
  BY <1>2, <1>4 DEF IInv, EmptyUnread, Exclusive, HeldFromInside, SlotThere, OpenOutside
<1>6. Saved' /\ Saving'
  BY <1>2, <1>4 DEF Saved, Saving, Inside, Steps
<1> QED BY <1>3, <1>5, <1>6 DEF IInv

LEMMA MarkInv ==
  ASSUME IInv, NEW t \in Threads, Mark(t)
  PROVE  IInv'
<1>1. PICK step \in {"save", "open"} :
        /\ pc[t] = "mark" /\ pc' = [pc EXCEPT ![t] = step]
        /\ slot \in DOMAIN logSlot /\ logSlot' = [logSlot EXCEPT ![slot] = "1"]
        /\ UNCHANGED <<isOpen, csLock, slot>>
        /\ \/ step = "save" /\ slotFile' = NoTable /\ flaws' = flaws \ {"unsaved"}
           \/ step = "open" /\ slotFile' = slotFile /\ flaws' = flaws \cup {"unsaved"}
  BY DEF Mark, At, Goto
<1>2. pc[t] \in Inside /\ step \in Inside
  BY <1>1 DEF Inside, Steps
<1>3. /\ logSlot' \in Tables /\ DOMAIN logSlot' = DOMAIN logSlot
      /\ slotFile' \in Tables
  BY <1>1, TableSet, NoTableIsTable DEF IInv, Typed
<1>4. /\ pc' \in [Threads -> Steps] /\ pc'[t] = step
      /\ \A u \in Threads : u # t => pc'[u] \notin Inside
      /\ csLock # Nobody
      /\ logSlot' = NoTable <=> logSlot = NoTable
      /\ Exclusive' /\ HeldFromInside'
  BY <1>1, <1>2, <1>3, RotateFrame
<1>5. logSlot # NoTable /\ csLock' # Nobody
  BY <1>1, <1>4, NoTableIsTable
<1>6. Typed'
  BY <1>1, <1>3, <1>4 DEF IInv, Typed
<1>7. EmptyUnread' /\ SlotThere' /\ OpenOutside'
  BY <1>1, <1>3, <1>4, <1>5 DEF EmptyUnread, SlotThere, OpenOutside, Inside, Closed, Steps
<1>8. Saved'
  <2>1. \A u \in Threads : pc'[u] \in {"entered", "index", "open", "leave"} => u = t
    BY <1>4 DEF Inside, Steps
  <2>2. step = "open" => OnDisk'
    BY <1>1 DEF OnDisk
  <2> QED BY <1>1, <1>4, <1>5, <2>1, <2>2 DEF Saved
<1>9. Saving'
  <2> SUFFICES ASSUME step = "save"
               PROVE  \E n \in Nat, j \in Nat :
                        /\ j < n /\ DOMAIN logSlot' = 1 .. n
                        /\ slotFile' = [s \in 1 .. j |-> logSlot'[s]]
    BY <1>1, <1>4 DEF Saving, Inside, Steps
  <2>1. PICK n \in 0 .. NumSlots : DOMAIN logSlot' = 1 .. n
    BY <1>3, TableDomain
  <2>2. n \in Nat /\ 0 < n
    BY <1>1, <1>3, <2>1, LogAssumption DEF IInv, Typed
  <2>3. slotFile' = [s \in 1 .. 0 |-> logSlot'[s]]
    BY <1>1 DEF NoTable
  <2> QED BY <2>1, <2>2, <2>3
<1> QED BY <1>4, <1>6, <1>7, <1>8, <1>9 DEF IInv

LEMMA SaveInv ==
  ASSUME IInv, NEW t \in Threads, Save(t)
  PROVE  IInv'
<1> DEFINE next == Cardinality(DOMAIN slotFile) + 1
<1>1. /\ pc[t] = "save" /\ pc[t] \in Inside
      /\ slotFile' = [s \in 1 .. next |-> logSlot[s]]
      /\ pc' = [pc EXCEPT ![t] = IF next = Cardinality(DOMAIN logSlot) THEN "open" ELSE "save"]
      /\ UNCHANGED <<logSlot, isOpen, csLock, slot, flaws>>
  BY DEF Save, At, Goto, memory, history, faults, Inside, Steps
<1> HIDE DEF next
<1>2. PICK n \in Nat, j \in Nat :
        /\ j < n /\ DOMAIN logSlot = 1 .. n
        /\ slotFile = [s \in 1 .. j |-> logSlot[s]]
  BY <1>1 DEF IInv, Saving
<1>3. n <= NumSlots /\ logSlot \in [1 .. n -> {"0", "1"}]
  <2>1. PICK k \in 0 .. NumSlots : logSlot \in [1 .. k -> {"0", "1"}] /\ DOMAIN logSlot = 1 .. k
    BY TableDomain DEF IInv, Typed
  <2>2. k = n
    BY <1>2, <2>1, LogAssumption
  <2> QED BY <2>1, <2>2, LogAssumption
<1>4. next = j + 1 /\ Cardinality(DOMAIN logSlot) = n
  <2>1. Cardinality(1 .. j) = j /\ Cardinality(1 .. n) = n
    BY FS_Interval
  <2>2. DOMAIN slotFile = 1 .. j
    BY <1>2
  <2> QED BY <1>2, <2>1, <2>2 DEF next
<1>5. slotFile' = [s \in 1 .. j + 1 |-> logSlot[s]] /\ slotFile' \in Tables
  <2>1. slotFile' = [s \in 1 .. j + 1 |-> logSlot[s]]
    BY <1>1, <1>4
  <2>2. slotFile' \in [1 .. j + 1 -> {"0", "1"}] /\ j + 1 \in 0 .. NumSlots
    BY <1>2, <1>3, <2>1, LogAssumption
  <2> QED BY <2>1, <2>2 DEF Tables
<1>6. PICK step \in {"open", "save"} :
        pc' = [pc EXCEPT ![t] = step] /\ (step = "open" <=> j + 1 = n)
  BY <1>1, <1>4
<1>7. /\ pc' \in [Threads -> Steps] /\ pc'[t] = step
      /\ \A u \in Threads : u # t => pc'[u] \notin Inside
      /\ csLock # Nobody
      /\ Exclusive' /\ HeldFromInside'
  <2>1. step \in Inside /\ logSlot' \in Tables
    BY <1>1 DEF IInv, Typed, Inside, Steps
  <2> QED BY <1>1, <1>6, <2>1, RotateFrame
<1>8. logSlot # NoTable
  BY <1>2, NoTableIsTable
<1>9. step = "open" => slotFile' = logSlot
  BY <1>3, <1>5, <1>6
<1>10. Typed'
  BY <1>1, <1>5, <1>7 DEF IInv, Typed
<1>11. EmptyUnread' /\ SlotThere' /\ OpenOutside'
  BY <1>1, <1>7, <1>8 DEF IInv, EmptyUnread, SlotThere, OpenOutside, Inside, Closed, Steps
<1>12. Saved'
  BY <1>1, <1>7, <1>9 DEF Saved, OnDisk, Inside, Steps
<1>13. Saving'
  <2> SUFFICES ASSUME step = "save"
               PROVE  \E a \in Nat, b \in Nat :
                        /\ b < a /\ DOMAIN logSlot = 1 .. a
                        /\ slotFile' = [s \in 1 .. b |-> logSlot[s]]
    BY <1>1, <1>7 DEF Saving, Inside, Steps
  <2>1. j + 1 < n
    BY <1>2, <1>6
  <2> QED BY <1>2, <1>5, <2>1
<1> QED BY <1>7, <1>10, <1>11, <1>12, <1>13 DEF IInv

LEMMA OpenInv ==
  ASSUME IInv, NEW t \in Threads, Open(t)
  PROVE  IInv'
<1>1. /\ pc[t] = "open" /\ pc[t] \in Inside /\ "leave" \in Inside
      /\ pc' = [pc EXCEPT ![t] = "leave"]
      /\ UNCHANGED <<slotFile, logSlot, csLock, slot>>
      /\ \/ isOpen' = TRUE /\ flaws' = flaws
         \/ isOpen' = isOpen /\ flaws' = flaws \cup {"unopened"}
  BY DEF Open, At, Goto, disk, history, faults, Inside, Steps
<1>2. /\ pc' \in [Threads -> Steps] /\ pc'[t] = "leave"
      /\ \A u \in Threads : u # t => pc'[u] \notin Inside
      /\ csLock # Nobody
      /\ Exclusive' /\ HeldFromInside'
  BY <1>1, RotateFrame DEF IInv, Typed
<1>3. OnDisk'
  BY <1>1 DEF IInv, Saved, OnDisk
<1>4. Typed'
  BY <1>1, <1>2 DEF IInv, Typed
<1>5. EmptyUnread' /\ SlotThere' /\ OpenOutside' /\ Saved' /\ Saving'
  BY <1>1, <1>2, <1>3 DEF IInv, EmptyUnread, SlotThere, OpenOutside, Saved, Saving, Inside, Closed,
     Steps
<1> QED BY <1>2, <1>4, <1>5 DEF IInv

\* The next process finds what has been written of LOG_SLOT, or nothing.
LEMMA CrashInv ==
  ASSUME IInv, Crash
  PROVE  IInv'
<1> USE DEF Crash, disk
<1>1. \A t \in Threads : pc'[t] \notin Inside
  BY DEF Inside
<1>2. logSlot' \in Tables /\ slotFile' = slotFile
  BY NoTableIsTable DEF IInv, Typed
<1>3. Typed'
  BY <1>2 DEF IInv, Typed, Nobody, Steps
<1>4. EmptyUnread' /\ (slotFile' = logSlot' \/ "unread" \in flaws')
  BY DEF EmptyUnread, FlawsAtStart
<1>5. Exclusive' /\ HeldFromInside' /\ OpenOutside' /\ Saved'
  BY <1>1, <1>4 DEF Exclusive, HeldFromInside, OpenOutside, Saved, OnDisk
<1>6. SlotThere' /\ Saving'
  BY <1>1 DEF SlotThere, Saving, Inside, Closed, Steps
<1> QED BY <1>3, <1>4, <1>5, <1>6 DEF IInv

LEMMA NextInv == IInv /\ [Next]_vars => IInv'
<1> SUFFICES ASSUME IInv, [Next]_vars PROVE IInv'
  OBVIOUS
<1>1. CASE UNCHANGED vars
  BY <1>1 DEF IInv, Typed, Exclusive, EmptyUnread, HeldFromInside, SlotThere, OpenOutside,
       Saved, OnDisk, Saving, vars, disk, memory, history, faults
<1>2. ASSUME NEW t \in Threads, Stamp(t) \/ Step(t) PROVE IInv'
  BY <1>2, StampInv, EnterInv, WriteInv, LeaveInv, GetCurrLogIndexInv, RenameInv, ThrowInv,
     MarkInv, SaveInv, OpenInv DEF Step, Rotate
<1>3. CASE Crash
  BY <1>3, CrashInv
<1> QED BY <1>1, <1>2, <1>3 DEF Next

LEMMA Invariant == Spec => []IInv
BY InitInv, NextInv, PTL DEF Spec

----------------------------------------------------------------------------
(* The bounds *)

\* A call of writeToLog is counted from its stamp on: it enters the critical section
\* at most once, and writes at most one line.
Waiting == {t \in Threads : pc[t] = "stamped"}
Writers == {t \in Threads : pc[t] \in {"stamped", "entered"}}
Counts ==
  /\ called \in Lines /\ written \in Nat /\ IsFiniteSet(Writers)
  /\ csLock.count + Cardinality(Waiting) <= called
  /\ written + Cardinality(Writers) <= called

Stored ==
  /\ file \in Seq(Lines) /\ archive \in [Slots -> Seq(Lines)]
  /\ slot \in Slots
  /\ csLock.owner \in {{}} \cup {{t} : t \in Threads}
  /\ crashes \in 0 .. MaxCrashes /\ fails \in 0 .. MaxFails
  /\ flaws \in SUBSET Flaws /\ stuck \in SUBSET Slots

\* The file is closed for as long as it is rotated; it has room for another line when
\* it is open and no rotation is due, and when it has been renamed, or could not be.
ClosedInside == \A t \in Threads : pc[t] \in Closed => ~ isOpen
NoneDue == \A t \in Threads : pc[t] # "index"
Passed ==
  \E t \in Threads : \/ pc[t] \in {"mark", "save", "open"}
                     \/ pc[t] = "again" /\ archive[slot] # << >>
Room ==
  /\ Len(file) <= LogSize + 1 + crashes + fails
  /\ (isOpen /\ NoneDue) \/ Passed => Len(file) <= LogSize + crashes + fails

Bounded == Counts /\ Stored /\ ClosedInside /\ Room

LEMMA WaitingWrite ==
  ASSUME Counts
  PROVE  /\ Waiting \subseteq Writers /\ IsFiniteSet(Waiting)
         /\ Cardinality(Waiting) \in Nat /\ Cardinality(Writers) \in Nat
BY FS_Subset, FS_CardinalityType DEF Counts, Waiting, Writers

\* The steps that leave the numbers of the calls as they are.
LEMMA CountsKept ==
  ASSUME IInv, Bounded, NEW t \in Threads, NEW step \in Inside \ {"entered"},
         pc[t] \in Inside \ {"entered"}, pc' = [pc EXCEPT ![t] = step],
         UNCHANGED <<called, written, csLock>>
  PROVE  Counts'
<1>1. pc \in [Threads -> Steps]
  BY DEF IInv, Typed
<1>2. Waiting' = Waiting /\ Writers' = Writers
  BY <1>1 DEF Waiting, Writers, Inside
<1> QED BY <1>2 DEF Bounded, Counts

LEMMA StampBounded ==
  ASSUME IInv, Bounded, NEW t \in Threads, Stamp(t)
  PROVE  Bounded'
<1>1. /\ pc \in [Threads -> Steps] /\ pc[t] = "idle" /\ pc' = [pc EXCEPT ![t] = "stamped"]
      /\ called' = called + 1 /\ called < MaxLines
      /\ UNCHANGED <<file, archive, slotFile, logSlot, isOpen, csLock, slot, written,
                     crashes, fails, flaws, stuck>>
  BY DEF Stamp, At, Goto, disk, memory, faults, IInv, Typed
<1>2. /\ Waiting' = Waiting \cup {t} /\ t \notin Waiting
      /\ Writers' = Writers \cup {t} /\ t \notin Writers
  BY <1>1 DEF Waiting, Writers
<1>3. /\ Cardinality(Waiting') = Cardinality(Waiting) + 1
      /\ IsFiniteSet(Writers') /\ Cardinality(Writers') = Cardinality(Writers) + 1
  BY <1>2, WaitingWrite, FS_AddElement DEF Bounded, Counts
<1>4. Counts'
  <2>1. called \in Nat /\ written \in Nat /\ csLock.count \in Nat
    BY LogAssumption DEF Bounded, Counts, Lines, IInv, Typed
  <2> QED BY <1>1, <1>3, <2>1, WaitingWrite, LogAssumption DEF Bounded, Counts, Lines
<1>5. Stored'
  BY <1>1 DEF Bounded, Stored
<1>6. ClosedInside' /\ Room'
  BY <1>1 DEF Bounded, ClosedInside, Room, NoneDue, Passed, Closed
<1> QED BY <1>4, <1>5, <1>6 DEF Bounded

LEMMA EnterBounded ==
  ASSUME IInv, Bounded, NEW t \in Threads, Enter(t)
  PROVE  Bounded'
<1>1. /\ pc \in [Threads -> Steps] /\ pc[t] = "stamped" /\ pc' = [pc EXCEPT ![t] = "entered"]
      /\ csLock' = [owner |-> {t}, count |-> csLock.count + 1]
      /\ UNCHANGED <<file, archive, slotFile, logSlot, isOpen, slot, called, written,
                     crashes, fails, flaws, stuck>>
  BY DEF Enter, At, Goto, disk, history, faults, IInv, Typed
<1>2. Waiting' = Waiting \ {t} /\ t \in Waiting /\ Writers' = Writers
  BY <1>1 DEF Waiting, Writers
<1>3. Cardinality(Waiting') = Cardinality(Waiting) - 1
  BY <1>2, WaitingWrite, FS_RemoveElement DEF Bounded
<1>4. Counts'
  <2>1. csLock.count \in Nat /\ called \in Nat
    BY LogAssumption DEF IInv, Typed, Bounded, Counts, Lines
  <2> QED BY <1>1, <1>2, <1>3, <2>1, WaitingWrite DEF Bounded, Counts
<1>5. Stored'
  BY <1>1 DEF Bounded, Stored
<1>6. ClosedInside' /\ Room'
  BY <1>1 DEF Bounded, ClosedInside, Room, NoneDue, Passed, Closed
<1> QED BY <1>4, <1>5, <1>6 DEF Bounded

LEMMA WriteBounded ==
  ASSUME IInv, Bounded, NEW t \in Threads, Write(t)
  PROVE  Bounded'
<1>1. PICK step \in {"index", "leave"} :
        /\ pc \in [Threads -> Steps] /\ pc[t] = "entered" /\ pc' = [pc EXCEPT ![t] = step]
        /\ UNCHANGED <<archive, slotFile, logSlot, isOpen, csLock, slot, called, crashes, fails,
                       flaws, stuck>>
        /\ \/ /\ isOpen /\ written' = written + 1 /\ file' = Append(file, written + 1)
              /\ step = "leave" => Len(file) + 1 <= LogSize
           \/ ~ isOpen /\ UNCHANGED <<file, written>> /\ step = "leave"
  <2>1. Len(file) \in Nat
    BY DEF Bounded, Stored
  <2> QED BY <2>1, LogAssumption DEF Write, At, Goto, TooLong, memory, faults, IInv, Typed
<1>2. Waiting' = Waiting /\ Writers' = Writers \ {t} /\ t \in Writers
  BY <1>1 DEF Waiting, Writers
<1>3. /\ IsFiniteSet(Writers')
      /\ Cardinality(Writers') = Cardinality(Writers) - 1 /\ Cardinality(Writers') \in Nat
  BY <1>2, FS_RemoveElement, FS_CardinalityType DEF Bounded, Counts
<1>4. called \in Nat /\ written \in Nat /\ written + Cardinality(Writers) <= called
  BY LogAssumption DEF Bounded, Counts, Lines
<1>5. Counts'
  BY <1>1, <1>2, <1>3, <1>4, WaitingWrite DEF Bounded, Counts
<1>6. written + 1 \in Lines
  BY <1>3, <1>4, WaitingWrite, LogAssumption DEF Bounded, Counts, Lines
<1>7. file' \in Seq(Lines)
  <2>1. file \in Seq(Lines)
    BY DEF Bounded, Stored
  <2>2. Append(file, written + 1) \in Seq(Lines)
    BY <1>6, <2>1
  <2> QED BY <1>1, <2>1, <2>2
<1>8. Stored'
  BY <1>1, <1>7 DEF Bounded, Stored
<1>9. ClosedInside'
  BY <1>1 DEF Bounded, ClosedInside, Closed
<1>10. \A u \in Threads : pc[u] \in Inside => u = t
  BY <1>1, Alone DEF Inside, Steps
<1>11. NoneDue /\ ~ Passed' /\ (step = "index" => ~ NoneDue')
  BY <1>1, <1>10 DEF NoneDue, Passed, Inside, Steps
<1>12. Room'
  <2>1. crashes \in Nat /\ fails \in Nat /\ Len(file) \in Nat /\ LogSize \in Nat
    BY LogAssumption DEF Bounded, Stored
  <2>2. isOpen => Len(file) <= LogSize + crashes + fails /\ Len(file') = Len(file) + 1
    BY <1>1, <1>6, <1>11 DEF Bounded, Room, Stored
  <2>3. step = "leave" /\ isOpen => Len(file') <= LogSize
    BY <1>1, <2>2
  <2>4. ~ isOpen => file' = file
    BY <1>1
  <2> QED BY <1>1, <1>11, <2>1, <2>2, <2>3, <2>4 DEF Bounded, Room
<1> QED BY <1>5, <1>8, <1>9, <1>12 DEF Bounded

LEMMA LeaveBounded ==
  ASSUME IInv, Bounded, NEW t \in Threads, Leave(t)
  PROVE  Bounded'
<1>1. /\ pc \in [Threads -> Steps] /\ pc[t] = "leave" /\ pc' = [pc EXCEPT ![t] = "idle"]
      /\ csLock' = IF csLock.count = 1 THEN Nobody ELSE [csLock EXCEPT !.count = @ - 1]
      /\ UNCHANGED <<file, archive, slotFile, logSlot, isOpen, slot, called, written,
                     crashes, fails, flaws, stuck>>
  BY DEF Leave, At, Goto, disk, history, faults, IInv, Typed
<1>2. Waiting' = Waiting /\ Writers' = Writers
  BY <1>1 DEF Waiting, Writers
<1>3. csLock.count \in Nat /\ csLock.count # 0
  BY <1>1, Alone DEF IInv, Typed, Inside, Steps
<1>4. /\ csLock'.count = csLock.count - 1
      /\ csLock'.owner \in {{}, csLock.owner}
  BY <1>1, <1>3 DEF IInv, Typed, Nobody
<1>5. Counts'
  <2>1. called \in Nat
    BY LogAssumption DEF Bounded, Counts, Lines
  <2> QED BY <1>1, <1>2, <1>3, <1>4, <2>1, WaitingWrite DEF Bounded, Counts
<1>6. Stored'
  BY <1>1, <1>4 DEF Bounded, Stored
<1>7. ClosedInside' /\ Room'
  BY <1>1 DEF Bounded, ClosedInside, Room, NoneDue, Passed, Closed
<1> QED BY <1>5, <1>6, <1>7 DEF Bounded

\* A step of a rotation, but for what it does to the file.
LEMMA RotateBounded ==
  ASSUME IInv, Bounded, NEW t \in Threads, NEW step \in Closed \cup {"leave"},
         pc[t] \in Closed \cup {"index"}, pc' = [pc EXCEPT ![t] = step],
         UNCHANGED <<called, written, csLock, crashes>>,
         isOpen' = FALSE \/ (isOpen' = TRUE /\ step = "leave") \/ (isOpen' = isOpen /\ pc[t] # "index"),
         file' \in Seq(Lines), archive' \in [Slots -> Seq(Lines)], slot' \in Slots,
         fails' \in 0 .. MaxFails, flaws' \in SUBSET Flaws, stuck' \in SUBSET Slots,
         Len(file') <= LogSize + 1 + crashes + fails',
         \/ step \in {"rename", "remove"} \/ (step = "again" /\ archive'[slot'] = << >>)
         \/ Len(file') <= LogSize + crashes + fails'
  PROVE  Bounded'
<1>1. pc \in [Threads -> Steps] /\ pc[t] \in Inside \ {"entered"} /\ step \in Inside \ {"entered"}
  BY DEF IInv, Typed, Inside, Closed, Steps
<1>2. \A u \in Threads : u # t => pc[u] \notin Inside
  BY <1>1, Alone
<1>3. Counts'
  BY <1>1, CountsKept
<1>4. Stored'
  BY <1>1 DEF Bounded, Stored
<1>5. ClosedInside'
  BY <1>1, <1>2 DEF Bounded, ClosedInside, Closed, Inside, Steps
<1>6. isOpen' /\ NoneDue' => step = "leave"
  BY <1>1, <1>2 DEF Bounded, ClosedInside, Closed
<1>7. Passed' => step \in {"mark", "save", "open"} \/ (step = "again" /\ archive'[slot'] # << >>)
  BY <1>1, <1>2 DEF Passed, Inside, Steps
<1> QED BY <1>3, <1>4, <1>5, <1>6, <1>7 DEF Bounded, Room

LEMMA IndexBounded ==
  ASSUME IInv, Bounded, NEW t \in Threads, GetCurrLogIndex(t)
  PROVE  Bounded'
<1>1. CurrLogIndex \in Slots
  <2>1. DOMAIN logSlot \subseteq Slots
    BY TableDomain, LogAssumption DEF IInv, Typed, Slots
  <2>2. CASE logSlot = NoTable
    BY <2>2, NoTableIsTable, LogAssumption DEF CurrLogIndex, FreeSlots, Slots
  <2>3. CASE logSlot # NoTable
    BY <2>1, <2>3, IndexInTable DEF IInv, Typed
  <2> QED BY <2>2, <2>3
<1>2. /\ pc[t] = "index" /\ pc' = [pc EXCEPT ![t] = "rename"] /\ isOpen' = FALSE
      /\ slot' = CurrLogIndex
      /\ UNCHANGED <<file, archive, csLock, called, written, crashes, fails, flaws, stuck>>
  BY DEF GetCurrLogIndex, At, Goto, disk, history, faults
<1> QED BY <1>1, <1>2, RotateBounded DEF Bounded, Stored, Room, Closed

LEMMA RenameBounded ==
  ASSUME IInv, Bounded, NEW t \in Threads, Rename(t) \/ Remove(t) \/ RenameAgain(t)
  PROVE  Bounded'
<1>1. /\ LogSize \in Nat /\ crashes \in Nat /\ fails \in Nat /\ << >> \in Seq(Lines)
      /\ Len(file) \in Nat /\ Len(<< >>) = 0
  BY LogAssumption DEF Bounded, Stored
<1>2. /\ pc[t] \in {"rename", "remove", "again"}
      /\ UNCHANGED <<logSlot, isOpen, csLock, slot, called, written, crashes, flaws>>
  BY DEF Rename, Remove, RenameAgain, Moved, Held, At, disk, memory, history, faults
<1>3. /\ flaws' \in SUBSET Flaws /\ slot' \in Slots /\ slot \in Slots /\ stuck \in SUBSET Slots
      /\ file \in Seq(Lines) /\ archive \in [Slots -> Seq(Lines)]
  BY <1>2 DEF Bounded, Stored
<1>4. Held => fails' = fails + 1 /\ fails' \in 0 .. MaxFails
  BY <1>1, LogAssumption DEF Held
<1>5. fails \in 0 .. MaxFails /\ Len(file) <= LogSize + 1 + crashes + fails
  BY DEF Bounded, Stored, Room
<1>6. CASE Moved(t)
  <2>1. /\ archive' = [archive EXCEPT ![slot] = file] /\ file' = << >> /\ fails' = fails
        /\ stuck' = stuck /\ pc' = [pc EXCEPT ![t] = "mark"]
    BY <1>6 DEF Moved, Goto, history, faults
  <2>2. archive' \in [Slots -> Seq(Lines)]
    BY <1>3, <2>1
  <2>3. /\ Len(file') <= LogSize + 1 + crashes + fails'
        /\ Len(file') <= LogSize + crashes + fails'
    BY <1>1, <2>1
  <2> QED BY <1>1, <1>2, <1>3, <1>5, <2>1, <2>2, <2>3, RotateBounded DEF Closed
<1>7. CASE Rename(t) /\ ~ Moved(t)
  <2>1. /\ pc' = [pc EXCEPT ![t] = "remove"] /\ fails' \in {fails, fails + 1} /\ fails' \in 0 .. MaxFails
        /\ UNCHANGED <<file, archive, stuck>>
    BY <1>4, <1>5, <1>7 DEF Rename, Goto, Held, disk, history, faults
  <2>2. Len(file') <= LogSize + 1 + crashes + fails'
    BY <1>1, <1>5, <2>1
  <2> QED BY <1>2, <1>3, <2>1, <2>2, RotateBounded DEF Closed
<1>8. CASE Remove(t)
  <2>1. /\ pc' = [pc EXCEPT ![t] = "again"] /\ file' = file
        /\ \/ /\ archive' = [archive EXCEPT ![slot] = << >>] /\ fails' = fails
              /\ stuck' = stuck \ {slot}
           \/ archive' = archive /\ fails' = fails + 1 /\ Held /\ stuck' = stuck \cup {slot}
    BY <1>8 DEF Remove, Goto, Held
  <2>2. archive' \in [Slots -> Seq(Lines)] /\ stuck' \in SUBSET Slots /\ fails' \in 0 .. MaxFails
    BY <1>1, <1>3, <1>4, <1>5, <2>1
  <2>3. Len(file') <= LogSize + 1 + crashes + fails'
    BY <1>1, <1>5, <2>1
  <2>4. archive'[slot'] = << >> \/ Len(file') <= LogSize + crashes + fails'
    <3>1. CASE archive' = [archive EXCEPT ![slot] = << >>]
      BY <1>2, <1>3, <3>1
    <3>2. CASE archive' # [archive EXCEPT ![slot] = << >>]
      <4>1. fails' = fails + 1 /\ file' = file
        BY <2>1, <3>2
      <4> QED BY <1>1, <1>5, <4>1
    <3> QED BY <3>1, <3>2
  <2> QED BY <1>2, <1>3, <2>1, <2>2, <2>3, <2>4, RotateBounded DEF Closed
<1>9. CASE RenameAgain(t) /\ ~ Moved(t)
  <2>1. /\ pc' = [pc EXCEPT ![t] = "mark"] /\ pc[t] = "again"
        /\ UNCHANGED <<file, archive, stuck>>
        /\ \/ archive[slot] # << >> /\ fails' = fails
           \/ Held
    BY <1>9 DEF RenameAgain, At, Goto, disk, history, faults
  <2>2. fails' \in 0 .. MaxFails
    BY <1>4, <1>5, <2>1
  <2>3. Len(file') <= LogSize + crashes + fails'
    <3>1. CASE archive[slot] # << >> /\ fails' = fails
      <4>1. Passed
        BY <2>1, <3>1 DEF Passed
      <4> QED BY <2>1, <3>1, <4>1 DEF Bounded, Room
    <3>2. CASE Held
      BY <1>1, <1>4, <1>5, <2>1, <3>2
    <3> QED BY <2>1, <3>1, <3>2
  <2>4. Len(file') <= LogSize + 1 + crashes + fails'
    BY <1>1, <2>1, <2>2, <2>3
  <2> QED BY <1>2, <1>3, <2>1, <2>2, <2>3, <2>4, RotateBounded DEF Closed
<1> QED BY <1>6, <1>7, <1>8, <1>9

LEMMA MarkBounded ==
  ASSUME IInv, Bounded, NEW t \in Threads, Mark(t) \/ Save(t) \/ Open(t)
  PROVE  Bounded'
<1>1. PICK step \in {"save", "open", "leave"} :
        /\ pc' = [pc EXCEPT ![t] = step] /\ pc[t] \in {"mark", "save", "open"}
        /\ isOpen' = isOpen \/ (isOpen' = TRUE /\ step = "leave")
        /\ UNCHANGED <<file, archive, csLock, slot, called, written, crashes, stuck>>
        /\ fails' = fails \/ Held
        /\ flaws' \in {flaws, flaws \cup {"unsaved"}, flaws \cup {"unopened"}, flaws \ {"unsaved"}}
  BY DEF Mark, Save, Open, At, Goto, Held, disk, memory, history, faults
<1>2. Len(file) <= LogSize + crashes + fails
  BY <1>1 DEF Bounded, Room, Passed
<1>3. /\ crashes \in Nat /\ fails \in 0 .. MaxFails /\ Len(file) \in Nat /\ LogSize \in Nat
      /\ flaws' \in SUBSET Flaws
  BY <1>1, LogAssumption DEF Bounded, Stored, Flaws
<1>4. fails' \in {fails, fails + 1} /\ fails' \in 0 .. MaxFails
  BY <1>1, <1>3, LogAssumption DEF Held
<1>5. Len(file') <= LogSize + crashes + fails' /\ Len(file') <= LogSize + 1 + crashes + fails'
  BY <1>1, <1>2, <1>3, <1>4, LogAssumption
<1> QED BY <1>1, <1>3, <1>4, <1>5, RotateBounded DEF Bounded, Stored, Closed

LEMMA ThrowBounded ==
  ASSUME IInv, Bounded, NEW t \in Threads, Throw(t)
  PROVE  Bounded'
<1>1. /\ pc \in [Threads -> Steps] /\ pc[t] = "mark" /\ pc' = [pc EXCEPT ![t] = "idle"]
      /\ UNCHANGED <<file, archive, slotFile, logSlot, isOpen, csLock, slot, called, written,
                     crashes, fails, flaws, stuck>>
  BY DEF Throw, At, Goto, disk, memory, history, faults, IInv, Typed
<1>2. Waiting' = Waiting /\ Writers' = Writers
  BY <1>1 DEF Waiting, Writers
<1>3. Counts' /\ Stored' /\ ClosedInside'
  BY <1>1, <1>2 DEF Bounded, Counts, Stored, ClosedInside, Closed
<1>4. Passed
  BY <1>1 DEF Passed
<1> QED BY <1>1, <1>3, <1>4 DEF Bounded, Room

LEMMA CrashBounded ==
  ASSUME IInv, Bounded, Crash
  PROVE  Bounded'
<1>1. /\ pc' = [t \in Threads |-> "idle"] /\ csLock' = Nobody /\ slot' = 1 /\ isOpen' = TRUE
      /\ crashes' = crashes + 1 /\ crashes < MaxCrashes
      /\ fails' = fails \/ (fails < MaxFails /\ fails' = fails + 1)
      /\ flaws' \in {{}, {"unread"}} /\ UNCHANGED <<file, archive, called, written, stuck>>
  BY DEF Crash, FlawsAtStart, disk
<1>2. Waiting' = {} /\ Writers' = {}
  BY <1>1 DEF Waiting, Writers
<1>3. /\ crashes \in Nat /\ fails \in Nat /\ Len(file) \in Nat /\ LogSize \in Nat
      /\ called \in Nat /\ written \in Nat
  BY LogAssumption DEF Bounded, Stored, Counts, Lines
<1>4. Counts'
  <2>1. written <= called
    BY <1>3, WaitingWrite DEF Bounded, Counts
  <2> QED BY <1>1, <1>2, <1>3, <2>1, FS_EmptySet DEF Bounded, Counts, Nobody
<1>5. Stored'
  BY <1>1, <1>3, LogAssumption DEF Bounded, Stored, Nobody, Slots, Flaws
<1>6. ClosedInside' /\ Room'
  BY <1>1, <1>3 DEF Bounded, ClosedInside, Room, Passed, Closed
<1> QED BY <1>4, <1>5, <1>6 DEF Bounded

LEMMA InitBounded == Init => Bounded
<1> SUFFICES ASSUME Init PROVE Bounded
  OBVIOUS
<1>1. Waiting = {} /\ Writers = {}
  BY DEF Init, Waiting, Writers
<1>2. Counts
  BY <1>1, FS_EmptySet, LogAssumption DEF Init, Counts, Lines, Nobody
<1>3. Stored
  BY LogAssumption DEF Init, Stored, FlawsAtStart, Flaws, Nobody, Slots
<1>4. ClosedInside /\ Room
  BY LogAssumption DEF Init, ClosedInside, Room, Passed, Closed
<1> QED BY <1>2, <1>3, <1>4 DEF Bounded

LEMMA NextBounded == IInv /\ Bounded /\ [Next]_vars => Bounded'
<1> SUFFICES ASSUME IInv, Bounded, [Next]_vars PROVE Bounded'
  OBVIOUS
<1>1. CASE UNCHANGED vars
  BY <1>1 DEF Bounded, Counts, Waiting, Writers, Stored, ClosedInside, Room, NoneDue, Passed,
     vars, disk, memory, history, faults
<1>2. ASSUME NEW t \in Threads, Stamp(t) \/ Step(t) PROVE Bounded'
  BY <1>2, StampBounded, EnterBounded, WriteBounded, LeaveBounded, IndexBounded, RenameBounded,
     MarkBounded, ThrowBounded DEF Step, Rotate
<1>3. CASE Crash
  BY <1>3, CrashBounded
<1> QED BY <1>1, <1>2, <1>3 DEF Next

LEMMA BoundedAlways == Spec => []Bounded
BY InitBounded, NextBounded, Invariant, PTL DEF Spec

----------------------------------------------------------------------------
(* What a process that is not disturbed keeps *)

\* The number of lines k full files have, and which lines archive s of a turn of the
\* slots has that began behind line b.
Off(k) == k * FileLines
Block(b, s) == b + Off(s - 1) + 1 .. b + Off(s)
LinesOf(s) == {archive[s][i] : i \in DOMAIN archive[s]}

Rotating(S) == \E t \in Threads : pc[t] \in S
Replacing == {"rename", "remove", "again"}
Due == {"index"} \cup Replacing
Quiet == Steps \ (Due \cup {"mark"})

\* A turn of the slots began behind line b, and m archives of it have been written: the
\* file goes on behind them ...
FileInTurn(b, m) ==
  /\ b = 0 \/ b >= Off(NumSlots)
  /\ written = b + Off(m) + Len(file)
  /\ \A i \in 1 .. Len(file) : file[i] = b + Off(m) + i

\* ... the other archives are those of the turn before, when there was one, but for the
\* one a rotation has removed to replace it ...
ArchivesInTurn(b, m) ==
  \A s \in Slots :
    LinesOf(s) = IF s <= m THEN Block(b, s)
                 ELSE IF b = 0 \/ (s = slot /\ Rotating({"again"})) THEN {}
                 ELSE Block(b - Off(NumSlots), s)

\* ... the table has the m marks, the last one when it has been set, and a rotation is
\* at the slot that is next, with a file of one line too many.
TableInTurn(m) ==
  /\ DOMAIN logSlot = Slots
  /\ \A s \in Slots : logSlot[s] = "0" <=> (s > m \/ (s = slot /\ Rotating({"mark"})))
  /\ Rotating(Replacing) => m < NumSlots /\ slot = m + 1
  /\ Rotating({"mark"}) => slot = m
  /\ Rotating(Due) => Len(file) = FileLines
  /\ Len(file) <= LogSize \/ Rotating(Due)

Turn(b, m) == FileInTurn(b, m) /\ ArchivesInTurn(b, m) /\ TableInTurn(m)
InTurn == \E b \in Nat, m \in 0 .. NumSlots : Turn(b, m)
Undisturbed == crashes = 0 /\ fails = 0 /\ TableWhole => InTurn

\* An archive without lines is none.
LEMMA NoLines ==
  ASSUME NEW s, archive[s] \in Seq(Lines), LinesOf(s) = {}
  PROVE  archive[s] = << >>
<1>1. Len(archive[s]) \in Nat /\ DOMAIN archive[s] = 1 .. Len(archive[s])
  OBVIOUS
<1>2. DOMAIN archive[s] = {}
  BY DEF LinesOf
<1>3. Len(archive[s]) = 0
  <2>1. Len(archive[s]) # 0 => 1 \in 1 .. Len(archive[s])
    BY <1>1
  <2> QED BY <1>1, <1>2, <2>1
<1> QED BY <1>3

LEMMA OffFacts ==
  /\ FileLines \in Nat \ {0} /\ NumSlots \in Nat \ {0}
  /\ Off(0) = 0 /\ \A k \in Nat : Off(k) \in Nat /\ Off(k + 1) = Off(k) + FileLines
  /\ \A j, k \in Nat : /\ j <= k => Off(j) <= Off(k)
                       /\ j < k => Off(j) + FileLines <= Off(k)
<1>1. FileLines \in Nat \ {0} /\ NumSlots \in Nat \ {0}
  BY LogAssumption DEF FileLines
<1> DEFINE F == FileLines
<1> HIDE DEF F
<1>2. F \in Nat \ {0}
  BY <1>1 DEF F
<1>3. 0 * F = 0 /\ \A k \in Nat : k * F \in Nat /\ (k + 1) * F = k * F + F
  BY <1>2
<1>4. ASSUME NEW j \in Nat, NEW k \in Nat, j <= k PROVE j * F <= k * F
  <2>1. PICK d \in Nat : k = j + d
    <3>1. k - j \in Nat /\ k = j + (k - j)
      BY <1>4
    <3> QED BY <3>1
  <2>2. k * F = j * F + d * F
    BY <2>1, <1>2
  <2>3. j * F \in Nat /\ d * F \in Nat
    BY <1>3
  <2> QED BY <2>2, <2>3
<1>5. ASSUME NEW j \in Nat, NEW k \in Nat, j < k PROVE j * F + F <= k * F
  <2>1. j + 1 \in Nat /\ j + 1 <= k
    BY <1>5
  <2> QED BY <2>1, <1>3, <1>4
<1> QED BY <1>1, <1>3, <1>4, <1>5 DEF Off, F

\* Every line of some full files is in one of them.
LEMMA InSomeFile ==
  ASSUME NEW j \in Nat, NEW k \in Nat, NEW y \in Nat, Off(j) < y, y <= Off(k)
  PROVE  \E s \in j + 1 .. k : Off(s - 1) < y /\ y <= Off(s)
<1> DEFINE S == {s \in Nat : y <= Off(s)}
<1>1. k \in S
  OBVIOUS
<1>2. PICK s \in S : \A x \in S : s <= x
  <2> HIDE DEF S
  <2>1. S \subseteq Nat
    BY DEF S
  <2> QED BY <1>1, <2>1, LeastExists
<1>3. s \in Nat /\ s <= k /\ y <= Off(s)
  BY <1>1, <1>2
<1>4. ~ (s <= j)
  BY <1>3, OffFacts
<1>5. s - 1 \in Nat /\ s - 1 \notin S
  BY <1>2, <1>3, <1>4
<1>6. Off(s - 1) < y
  BY <1>5, OffFacts
<1> QED BY <1>3, <1>4, <1>6

\* Only one thread is in the critical section.
LEMMA TheOneInside ==
  ASSUME IInv, NEW t \in Threads, pc[t] \in Inside, NEW step, pc' = [pc EXCEPT ![t] = step],
         NEW S \in SUBSET Inside
  PROVE  /\ Rotating(S) <=> pc[t] \in S
         /\ Rotating(S)' <=> step \in S
<1>1. pc \in [Threads -> Steps]
  BY DEF IInv, Typed
<1>2. \A u \in Threads : u # t => pc[u] \notin Inside
  BY Alone
<1> QED BY <1>1, <1>2 DEF Rotating

\* Steps that have nothing to do with the archives.
LEMMA QuietTurn ==
  ASSUME IInv, InTurn, NEW t \in Threads, NEW step \in Quiet, pc[t] \in Quiet,
         pc' = [pc EXCEPT ![t] = step], UNCHANGED <<file, archive, logSlot, slot, written>>
  PROVE  InTurn'
<1>1. pc \in [Threads -> Steps]
  BY DEF IInv, Typed
<1>2. \A S : S \cap Quiet = {} => (Rotating(S)' <=> Rotating(S))
  BY <1>1 DEF Rotating
<1>3. /\ Rotating({"again"})' <=> Rotating({"again"})
      /\ Rotating({"mark"})' <=> Rotating({"mark"})
      /\ Rotating(Replacing)' <=> Rotating(Replacing)
      /\ Rotating(Due)' <=> Rotating(Due)
  BY <1>2 DEF Quiet, Due, Replacing
<1>4. PICK b \in Nat, m \in 0 .. NumSlots : Turn(b, m)
  BY DEF InTurn
<1>5. FileInTurn(b, m)'
  BY <1>4 DEF Turn, FileInTurn
<1>6. ArchivesInTurn(b, m)'
  BY <1>3, <1>4 DEF Turn, ArchivesInTurn, LinesOf
<1>7. TableInTurn(m)'
  BY <1>3, <1>4 DEF Turn, TableInTurn
<1> QED BY <1>5, <1>6, <1>7 DEF InTurn, Turn

\* Where the one thread in the section is, and where it goes.
LEMMA RotatingStep ==
  ASSUME IInv, NEW t \in Threads, pc[t] \in Inside, NEW step, pc' = [pc EXCEPT ![t] = step]
  PROVE  /\ Rotating({"again"}) <=> pc[t] = "again"
         /\ Rotating({"mark"}) <=> pc[t] = "mark"
         /\ Rotating(Replacing) <=> pc[t] \in Replacing
         /\ Rotating(Due) <=> pc[t] \in Due
         /\ Rotating({"again"})' <=> step = "again"
         /\ Rotating({"mark"})' <=> step = "mark"
         /\ Rotating(Replacing)' <=> step \in Replacing
         /\ Rotating(Due)' <=> step \in Due
<1>1. /\ {"again"} \in SUBSET Inside /\ {"mark"} \in SUBSET Inside
      /\ Replacing \in SUBSET Inside /\ Due \in SUBSET Inside
  BY DEF Inside, Steps, Due, Replacing
<1>2. \A S \in SUBSET Inside : (Rotating(S) <=> pc[t] \in S) /\ (Rotating(S)' <=> step \in S)
  BY TheOneInside
<1> QED BY <1>1, <1>2

\* The line that makes the file too long starts a rotation.
LEMMA WriteTurn ==
  ASSUME IInv, Bounded, InTurn, NEW t \in Threads, Write(t)
  PROVE  InTurn'
<1>1. pc[t] = "entered" /\ pc[t] \in Inside /\ pc[t] \in Quiet
  BY DEF Write, At, Inside, Quiet, Due, Replacing, Steps
<1>2. UNCHANGED <<archive, logSlot, slot>>
  BY DEF Write, memory
<1>3. CASE ~ isOpen
  BY <1>1, <1>2, <1>3, QuietTurn DEF Write, Goto, Quiet, Due, Replacing, Steps
<1>4. CASE isOpen
  <2> DEFINE step == IF TooLong(Len(file) + 1) THEN "index" ELSE "leave"
  <2>1. /\ written' = written + 1 /\ file' = Append(file, written + 1)
        /\ pc' = [pc EXCEPT ![t] = step]
    BY <1>4 DEF Write, Goto
  <2>2. PICK b \in Nat, m \in 0 .. NumSlots : Turn(b, m)
    BY DEF InTurn
  <2>3. /\ file \in Seq(Lines) /\ Len(file) \in Nat /\ LogSize \in Nat /\ Off(m) \in Nat
        /\ m \in Nat /\ written \in Nat
    <3>1. m \in Nat
      BY OffFacts
    <3>2. Off(m) \in Nat
      BY <3>1, OffFacts
    <3> QED BY <3>1, <3>2, LogAssumption DEF Bounded, Stored, Counts
  <2>4. step \in {"index", "leave"} /\ (step = "index" <=> Len(file) + 1 > LogSize)
    BY DEF TooLong
  <2> HIDE DEF step
  <2>5. /\ ~ Rotating({"again"}) /\ ~ Rotating({"mark"}) /\ ~ Rotating(Replacing)
        /\ ~ Rotating(Due)
        /\ ~ Rotating({"again"})' /\ ~ Rotating({"mark"})' /\ ~ Rotating(Replacing)'
        /\ Rotating(Due)' <=> step = "index"
    BY <1>1, <2>1, <2>4, RotatingStep DEF Replacing, Due
  <2>6. Len(file) <= LogSize
    BY <2>2, <2>5 DEF Turn, TableInTurn
  <2>7. /\ Len(file') = Len(file) + 1
        /\ \A i \in 1 .. Len(file') :
             file'[i] = IF i \in 1 .. Len(file) THEN file[i] ELSE written + 1
    BY <2>1, <2>3
  <2>8. FileInTurn(b, m)'
    <3>1. written = b + Off(m) + Len(file) /\ \A i \in 1 .. Len(file) : file[i] = b + Off(m) + i
      BY <2>2 DEF Turn, FileInTurn
    <3>2. written' = b + Off(m) + Len(file')
      BY <2>1, <2>3, <2>7, <3>1
    <3>3. ASSUME NEW i \in 1 .. Len(file') PROVE file'[i] = b + Off(m) + i
      <4>1. CASE i \in 1 .. Len(file)
        BY <4>1, <2>7, <3>1
      <4>2. CASE i = Len(file) + 1
        <5>1. i \notin 1 .. Len(file) /\ written + 1 = b + Off(m) + i
          BY <4>2, <2>3, <3>1
        <5> QED BY <5>1, <2>7
      <4> QED BY <4>1, <4>2, <2>3, <2>7
    <3> QED BY <3>2, <3>3, <2>2 DEF Turn, FileInTurn, Off
  <2>9. ArchivesInTurn(b, m)'
    BY <1>2, <2>2, <2>5 DEF Turn, ArchivesInTurn, LinesOf
  <2>10. TableInTurn(m)'
    <3>1. step = "index" => Len(file') = FileLines
      BY <2>3, <2>4, <2>6, <2>7 DEF FileLines
    <3>2. Len(file') <= LogSize \/ step = "index"
      BY <2>3, <2>4, <2>7
    <3> QED BY <1>2, <2>2, <2>5, <3>1, <3>2 DEF Turn, TableInTurn
  <2> QED BY <2>2, <2>8, <2>9, <2>10 DEF InTurn, Turn
<1> QED BY <1>3, <1>4

\* The slot of a rotation is the next one of this turn, or the first of the next turn.
LEMMA IndexTurn ==
  ASSUME IInv, Bounded, InTurn, NEW t \in Threads, GetCurrLogIndex(t)
  PROVE  InTurn'
<1>1. /\ pc[t] = "index" /\ pc' = [pc EXCEPT ![t] = "rename"]
      /\ slot' = CurrLogIndex
      /\ logSlot' = (IF FreeSlots # {} THEN logSlot ELSE [s \in DOMAIN logSlot |-> "0"])
      /\ UNCHANGED <<file, archive, written>>
  BY DEF GetCurrLogIndex, At, Goto, disk, history
<1>2. /\ ~ Rotating({"again"}) /\ ~ Rotating({"mark"}) /\ Rotating(Due)
      /\ ~ Rotating({"again"})' /\ ~ Rotating({"mark"})' /\ Rotating(Replacing)' /\ Rotating(Due)'
  <2>1. pc[t] \in Inside
    BY <1>1 DEF Inside, Steps
  <2>2. "index" \in Due /\ "rename" \in Due /\ "rename" \in Replacing
    BY DEF Replacing, Due
  <2>3. /\ Rotating({"again"}) <=> "index" = "again"
        /\ Rotating({"mark"}) <=> "index" = "mark"
        /\ Rotating(Due) <=> "index" \in Due
        /\ Rotating({"again"})' <=> "rename" = "again"
        /\ Rotating({"mark"})' <=> "rename" = "mark"
        /\ Rotating(Replacing)' <=> "rename" \in Replacing
        /\ Rotating(Due)' <=> "rename" \in Due
    BY <1>1, <2>1, RotatingStep
  <2> QED BY <2>2, <2>3
<1>3. PICK b \in Nat, m \in 0 .. NumSlots : Turn(b, m)
  BY DEF InTurn
<1>4. /\ NumSlots \in Nat \ {0} /\ Off(NumSlots) \in Nat /\ Off(m) \in Nat /\ m \in Nat
      /\ Len(file) \in Nat /\ LogSize \in Nat /\ Off(0) = 0
  <2>1. NumSlots \in Nat \ {0} /\ m \in Nat
    BY OffFacts
  <2>2. Off(NumSlots) \in Nat /\ Off(m) \in Nat /\ Off(0) = 0
    BY <2>1, OffFacts
  <2> QED BY <2>1, <2>2, LogAssumption DEF Bounded, Stored
<1>5. /\ DOMAIN logSlot = Slots /\ Len(file) = FileLines
      /\ FreeSlots = {s \in Slots : s > m}
  BY <1>2, <1>3 DEF Turn, TableInTurn, FreeSlots
<1>6. CASE m < NumSlots
  <2>1. m + 1 \in FreeSlots /\ \A r \in FreeSlots : m + 1 <= r
    BY <1>4, <1>5, <1>6 DEF Slots
  <2>2. FreeSlots \subseteq Nat
    BY <1>5, <1>4 DEF Slots
  <2>3. Lowest(FreeSlots) = m + 1
    <3>1. Lowest(FreeSlots) \in FreeSlots /\ \A r \in FreeSlots : Lowest(FreeSlots) <= r
      BY <2>1 DEF Lowest
    <3>2. Lowest(FreeSlots) <= m + 1 /\ m + 1 <= Lowest(FreeSlots) /\ Lowest(FreeSlots) \in Nat
      BY <2>1, <2>2, <3>1
    <3> QED BY <3>2, <1>4
  <2>4. slot' = m + 1 /\ logSlot' = logSlot
    BY <1>1, <2>1, <2>3 DEF CurrLogIndex
  <2>5. FileInTurn(b, m)'
    BY <1>1, <1>3 DEF Turn, FileInTurn
  <2>6. ArchivesInTurn(b, m)'
    BY <1>1, <1>2, <1>3 DEF Turn, ArchivesInTurn, LinesOf
  <2>7. TableInTurn(m)'
    BY <1>1, <1>2, <1>3, <1>5, <1>6, <2>4 DEF Turn, TableInTurn
  <2> QED BY <2>5, <2>6, <2>7 DEF InTurn, Turn
<1>7. CASE m = NumSlots
  <2> DEFINE c == b + Off(NumSlots)
  <2>1. FreeSlots = {}
    BY <1>4, <1>5, <1>7 DEF Slots
  <2>2. slot' = 1 /\ DOMAIN logSlot' = Slots /\ \A s \in Slots : logSlot'[s] = "0"
    BY <1>1, <1>5, <2>1 DEF CurrLogIndex
  <2>3. c \in Nat /\ c >= Off(NumSlots) /\ c - Off(NumSlots) = b /\ c + Off(0) = b + Off(m)
    BY <1>4, <1>7
  <2> HIDE DEF c
  <2>4. FileInTurn(c, 0)'
    BY <1>1, <1>3, <2>3 DEF Turn, FileInTurn, Off
  <2>5. ArchivesInTurn(c, 0)'
    <3>1. \A s \in Slots : s <= m /\ ~ (s <= 0)
      BY <1>4, <1>7 DEF Slots
    <3>2. \A s \in Slots : LinesOf(s)' = Block(b, s)
      BY <1>1, <1>3, <3>1 DEF Turn, ArchivesInTurn, LinesOf
    <3>3. c # 0
      <4>1. Off(NumSlots) # 0
        <5>1. Off(0) + FileLines <= Off(NumSlots)
          BY <1>4, OffFacts
        <5> QED BY <5>1, <1>4, OffFacts
      <4> QED BY <4>1, <2>3, <1>4
    <3>4. \A s \in Slots : Block(c - Off(NumSlots), s)' = Block(b, s)
      BY <2>3 DEF Block, Off
    <3> QED BY <1>2, <3>1, <3>2, <3>3, <3>4 DEF ArchivesInTurn, Off
  <2>6. TableInTurn(0)'
    <3>1. \A s \in Slots : s > 0
      BY <1>4 DEF Slots
    <3> QED BY <1>1, <1>2, <1>4, <1>5, <2>2, <3>1 DEF TableInTurn
  <2> QED BY <1>4, <2>3, <2>4, <2>5, <2>6 DEF InTurn, Turn
<1> QED BY <1>4, <1>6, <1>7

\* The file becomes the archive of the slot.
LEMMA MovedTurn ==
  ASSUME IInv, Bounded, InTurn, NEW t \in Threads, pc[t] \in Replacing, Moved(t)
  PROVE  InTurn'
<1>1. /\ archive' = [archive EXCEPT ![slot] = file] /\ file' = << >>
      /\ pc' = [pc EXCEPT ![t] = "mark"] /\ UNCHANGED <<logSlot, slot, written>>
  BY DEF Moved, Goto, memory, history
<1>2. /\ ~ Rotating({"mark"}) /\ Rotating(Due) /\ Rotating(Replacing)
      /\ ~ Rotating({"again"})' /\ Rotating({"mark"})' /\ ~ Rotating(Replacing)'
      /\ ~ Rotating(Due)'
  <2>1. pc[t] \in Inside
    BY DEF Inside, Steps, Replacing
  <2> QED BY <1>1, <2>1, RotatingStep DEF Replacing, Due
<1>3. PICK b \in Nat, m \in 0 .. NumSlots : Turn(b, m)
  BY DEF InTurn
<1>4. /\ m < NumSlots /\ slot = m + 1 /\ Len(file) = FileLines
  BY <1>2, <1>3 DEF Turn, TableInTurn
<1>5. /\ NumSlots \in Nat \ {0} /\ Off(NumSlots) \in Nat /\ Off(m) \in Nat /\ m \in Nat
      /\ FileLines \in Nat \ {0} /\ LogSize \in Nat /\ Off(m + 1) = Off(m) + FileLines
      /\ file \in Seq(Lines) /\ archive \in [Slots -> Seq(Lines)] /\ slot \in Slots
      /\ Len(<< >>) = 0 /\ (m + 1) - 1 = m
  <2>1. NumSlots \in Nat \ {0} /\ m \in Nat
    BY OffFacts
  <2>2. /\ Off(NumSlots) \in Nat /\ Off(m) \in Nat /\ Off(m + 1) = Off(m) + FileLines
        /\ FileLines \in Nat \ {0}
    BY <2>1, OffFacts
  <2> QED BY <2>1, <2>2, LogAssumption DEF Bounded, Stored
<1>6. /\ written = b + Off(m) + Len(file) /\ \A i \in 1 .. Len(file) : file[i] = b + Off(m) + i
  BY <1>3 DEF Turn, FileInTurn
<1>7. FileInTurn(b, m + 1)'
  <2>1. written' = b + Off(m + 1) + Len(file')
    BY <1>1, <1>4, <1>5, <1>6
  <2>2. \A i \in 1 .. Len(file') : file'[i] = b + Off(m + 1) + i
    BY <1>1, <1>5
  <2> QED BY <2>1, <2>2, <1>3 DEF Turn, FileInTurn, Off
<1>8. ArchivesInTurn(b, m + 1)'
  <2>1. LinesOf(slot)' = Block(b, m + 1)
    <3>1. archive'[slot] = file /\ DOMAIN file = 1 .. FileLines
      BY <1>1, <1>4, <1>5
    <3>2. LinesOf(slot)' = {file[i] : i \in 1 .. FileLines}
      BY <1>1, <3>1 DEF LinesOf
    <3>3. \A x \in b + Off(m) + 1 .. b + Off(m + 1) :
             x - (b + Off(m)) \in 1 .. FileLines /\ x = b + Off(m) + (x - (b + Off(m)))
      BY <1>5
    <3>4. \A i \in 1 .. FileLines : b + Off(m) + i \in b + Off(m) + 1 .. b + Off(m + 1)
      BY <1>5
    <3>5. {file[i] : i \in 1 .. FileLines} = b + Off(m) + 1 .. b + Off(m + 1)
      BY <1>4, <1>6, <3>3, <3>4
    <3> QED BY <3>2, <3>5, <1>5 DEF Block
  <2>2. \A s \in Slots : s # slot => LinesOf(s)' = LinesOf(s)
    BY <1>1, <1>5 DEF LinesOf
  <2>3. \A s \in Slots : s # slot => (s <= m + 1 <=> s <= m)
    BY <1>4, <1>5 DEF Slots
  <2>4. ASSUME NEW s \in Slots
        PROVE  LinesOf(s)' = IF s <= m + 1 THEN Block(b, s)
                             ELSE IF b = 0 \/ (s = slot /\ Rotating({"again"})') THEN {}
                             ELSE Block(b - Off(NumSlots), s)
    <3>1. CASE s = slot
      <4>1. LinesOf(s)' = Block(b, s) /\ s <= m + 1
        BY <1>1, <2>1, <3>1, <1>4, <1>5 DEF LinesOf
      <4> QED BY <4>1
    <3>2. CASE s # slot
      BY <1>3, <2>2, <2>3, <3>2 DEF Turn, ArchivesInTurn
    <3> QED BY <3>1, <3>2
  <2> QED BY <2>4, <1>1 DEF ArchivesInTurn, Block, Off
<1>9. TableInTurn(m + 1)'
  <2>1. \A s \in Slots : (s > m + 1 \/ s = slot) <=> s > m
    BY <1>4, <1>5 DEF Slots
  <2> QED BY <1>1, <1>2, <1>3, <1>4, <1>5, <2>1 DEF Turn, TableInTurn
<1>10. m + 1 \in 0 .. NumSlots
  BY <1>4, <1>5
<1> QED BY <1>3, <1>7, <1>8, <1>9, <1>10 DEF InTurn, Turn

\* A rename that meets an older archive removes it first.
LEMMA RenameTurn ==
  ASSUME IInv, Bounded, InTurn, NEW t \in Threads, fails' = 0,
         Rename(t) \/ Remove(t) \/ RenameAgain(t)
  PROVE  InTurn'
<1>1. pc[t] \in Replacing
  BY DEF Rename, Remove, RenameAgain, At, Replacing
<1>2. ~ Held
  BY DEF Held, Bounded, Stored
<1>3. PICK b \in Nat, m \in 0 .. NumSlots : Turn(b, m)
  BY DEF InTurn
<1>4. CASE Moved(t)
  BY <1>1, <1>4, MovedTurn
<1>5. CASE ~ Moved(t) /\ Rename(t)
  <2>1. /\ pc[t] = "rename" /\ pc' = [pc EXCEPT ![t] = "remove"]
        /\ UNCHANGED <<file, archive, logSlot, slot, written>>
    BY <1>2, <1>5 DEF Rename, At, Goto, disk, memory, history
  <2>2. pc[t] \in Inside
    BY <2>1 DEF Inside, Steps
  <2>3. /\ Rotating({"again"})' <=> Rotating({"again"})
        /\ Rotating({"mark"})' <=> Rotating({"mark"})
        /\ Rotating(Replacing)' <=> Rotating(Replacing)
        /\ Rotating(Due)' <=> Rotating(Due)
    <3>1. /\ "rename" \in Due /\ "rename" \in Replacing
          /\ "remove" \in Due /\ "remove" \in Replacing
      BY DEF Replacing, Due
    <3>2. /\ Rotating({"again"}) <=> "rename" = "again"
          /\ Rotating({"mark"}) <=> "rename" = "mark"
          /\ Rotating(Replacing) <=> "rename" \in Replacing
          /\ Rotating(Due) <=> "rename" \in Due
          /\ Rotating({"again"})' <=> "remove" = "again"
          /\ Rotating({"mark"})' <=> "remove" = "mark"
          /\ Rotating(Replacing)' <=> "remove" \in Replacing
          /\ Rotating(Due)' <=> "remove" \in Due
      BY <2>1, <2>2, RotatingStep
    <3> QED BY <3>1, <3>2
  <2>4. FileInTurn(b, m)'
    BY <1>3, <2>1 DEF Turn, FileInTurn
  <2>5. ArchivesInTurn(b, m)'
    BY <1>3, <2>1, <2>3 DEF Turn, ArchivesInTurn, LinesOf
  <2>6. TableInTurn(m)'
    BY <1>3, <2>1, <2>3 DEF Turn, TableInTurn
  <2> QED BY <2>4, <2>5, <2>6 DEF InTurn, Turn
<1>6. CASE Remove(t)
  <2>1. /\ pc[t] = "remove" /\ pc' = [pc EXCEPT ![t] = "again"]
        /\ archive' = [archive EXCEPT ![slot] = << >>]
        /\ UNCHANGED <<file, logSlot, slot, written>>
    BY <1>2, <1>6 DEF Remove, At, Goto, memory, history, faults
  <2>2. /\ ~ Rotating({"again"}) /\ ~ Rotating({"mark"}) /\ Rotating(Replacing) /\ Rotating(Due)
        /\ Rotating({"again"})' /\ ~ Rotating({"mark"})' /\ Rotating(Replacing)' /\ Rotating(Due)'
    <3>1. pc[t] \in Inside
      BY <2>1 DEF Inside, Steps
    <3> QED BY <2>1, <3>1, RotatingStep DEF Replacing, Due
  <2>3. FileInTurn(b, m)'
    BY <1>3, <2>1 DEF Turn, FileInTurn
  <2>4. ArchivesInTurn(b, m)'
    <3>1. slot = m + 1 /\ m \in Nat /\ slot \in Slots /\ archive \in [Slots -> Seq(Lines)]
      BY <1>3, <2>2, OffFacts DEF Turn, TableInTurn, Bounded, Stored
    <3>2. LinesOf(slot)' = {} /\ \A s \in Slots : s # slot => LinesOf(s)' = LinesOf(s)
      BY <2>1, <3>1 DEF LinesOf
    <3>3. ~ (slot <= m)
      BY <3>1
    <3> QED BY <1>3, <2>1, <2>2, <3>2, <3>3 DEF Turn, ArchivesInTurn
  <2>5. TableInTurn(m)'
    BY <1>3, <2>1, <2>2 DEF Turn, TableInTurn
  <2> QED BY <2>3, <2>4, <2>5 DEF InTurn, Turn
<1>7. CASE RenameAgain(t)
  <2>1. pc[t] = "again" /\ pc[t] \in Inside
    BY <1>7 DEF RenameAgain, At, Inside, Steps
  <2>2. Rotating({"again"}) /\ Rotating(Replacing)
    BY <2>1 DEF Rotating, Replacing
  <2>3. slot = m + 1 /\ m \in Nat /\ slot \in Slots /\ archive[slot] \in Seq(Lines)
    BY <1>3, <2>2, OffFacts DEF Turn, TableInTurn, Bounded, Stored
  <2>4. LinesOf(slot) = {}
    BY <1>3, <2>2, <2>3 DEF Turn, ArchivesInTurn
  <2>5. archive[slot] = << >>
    BY <2>3, <2>4, NoLines
  <2> QED BY <1>2, <1>4, <1>7, <2>5 DEF RenameAgain
<1> QED BY <1>4, <1>5, <1>6, <1>7

\* The mark is set.
LEMMA MarkTurn ==
  ASSUME IInv, Bounded, InTurn, NEW t \in Threads, Mark(t), fails' = 0
  PROVE  InTurn'
<1>0. ~ Held
  BY DEF Held, Bounded, Stored
<1>1. /\ pc[t] = "mark" /\ pc' = [pc EXCEPT ![t] = "save"]
      /\ logSlot' = [logSlot EXCEPT ![slot] = "1"] /\ slot \in DOMAIN logSlot
      /\ UNCHANGED <<file, archive, slot, written>>
  BY <1>0 DEF Mark, At, Goto
<1>2. /\ ~ Rotating({"again"}) /\ Rotating({"mark"}) /\ ~ Rotating(Replacing) /\ ~ Rotating(Due)
      /\ ~ Rotating({"again"})' /\ ~ Rotating({"mark"})' /\ ~ Rotating(Replacing)'
      /\ ~ Rotating(Due)'
  <2>1. pc[t] \in Inside
    BY <1>1 DEF Inside, Steps
  <2>2. /\ "mark" \notin Due /\ "mark" \notin Replacing
        /\ "save" \notin Due /\ "save" \notin Replacing
    BY DEF Replacing, Due
  <2>3. /\ Rotating({"again"}) <=> "mark" = "again"
        /\ Rotating({"mark"}) <=> "mark" = "mark"
        /\ Rotating(Replacing) <=> "mark" \in Replacing
        /\ Rotating(Due) <=> "mark" \in Due
        /\ Rotating({"again"})' <=> "save" = "again"
        /\ Rotating({"mark"})' <=> "save" = "mark"
        /\ Rotating(Replacing)' <=> "save" \in Replacing
        /\ Rotating(Due)' <=> "save" \in Due
    BY <1>1, <2>1, RotatingStep
  <2> QED BY <2>2, <2>3
<1>3. PICK b \in Nat, m \in 0 .. NumSlots : Turn(b, m)
  BY DEF InTurn
<1>4. FileInTurn(b, m)'
  BY <1>1, <1>3 DEF Turn, FileInTurn
<1>5. ArchivesInTurn(b, m)'
  BY <1>1, <1>2, <1>3 DEF Turn, ArchivesInTurn, LinesOf
<1>6. TableInTurn(m)'
  <2>1. /\ DOMAIN logSlot = Slots /\ slot = m /\ Len(file) <= LogSize
        /\ \A s \in Slots : logSlot[s] = "0" <=> (s > m \/ s = slot)
    BY <1>2, <1>3 DEF Turn, TableInTurn
  <2>2. DOMAIN logSlot' = Slots
        /\ \A s \in Slots : logSlot'[s] = IF s = slot THEN "1" ELSE logSlot[s]
    BY <1>1, <2>1
  <2>3. ~ (slot > m)
    BY <2>1, OffFacts
  <2>4. \A s \in Slots : logSlot'[s] = "0" <=> s > m
    BY <2>1, <2>2, <2>3
  <2> QED BY <1>1, <1>2, <2>1, <2>2, <2>4 DEF TableInTurn
<1> QED BY <1>4, <1>5, <1>6 DEF InTurn, Turn

\* Only a process that starts has another set of slots in its table.
LEMMA SlotsKept ==
  ASSUME IInv, [Next]_vars, ~ Crash
  PROVE  DOMAIN logSlot' = DOMAIN logSlot
<1>1. CASE UNCHANGED vars
  BY <1>1 DEF vars, memory
<1>2. ASSUME NEW t \in Threads, Stamp(t) \/ Step(t) PROVE DOMAIN logSlot' = DOMAIN logSlot
  <2>1. \/ logSlot' = logSlot \/ logSlot' = [s \in DOMAIN logSlot |-> "0"]
        \/ logSlot' = [logSlot EXCEPT ![slot] = "1"]
    BY <1>2 DEF Stamp, Step, Enter, Write, Leave, Rotate, GetCurrLogIndex, Rename, Remove,
       RenameAgain, Moved, Throw, Mark, Save, Open, memory
  <2> QED BY <2>1
<1> QED BY <1>1, <1>2 DEF Next

LEMMA NextUndisturbed ==
  IInv /\ Bounded /\ Undisturbed /\ Bounded' /\ [Next]_vars => Undisturbed'
<1> SUFFICES ASSUME IInv, Bounded, Undisturbed, Bounded', [Next]_vars, crashes' = 0, fails' = 0,
                    TableWhole'
             PROVE  InTurn'
  BY DEF Undisturbed
<1>1. /\ crashes \in Nat /\ fails \in Nat /\ MaxFails \in Nat
  BY LogAssumption DEF Bounded, Stored
<1>2. ~ Crash
  BY <1>1 DEF Crash
<1>0. TableWhole
  BY <1>2, SlotsKept DEF TableWhole
<1>3. CASE UNCHANGED vars
  <2>1. /\ UNCHANGED <<file, archive, logSlot, slot, pc, written>>
        /\ crashes = 0 /\ fails = 0
    BY <1>3 DEF vars, disk, memory, history, faults
  <2>2. PICK b \in Nat, m \in 0 .. NumSlots : Turn(b, m)
    BY <1>0, <2>1 DEF Undisturbed, InTurn
  <2>3. \A S : Rotating(S)' <=> Rotating(S)
    BY <2>1 DEF Rotating
  <2>4. FileInTurn(b, m)'
    BY <2>1, <2>2 DEF Turn, FileInTurn
  <2>5. ArchivesInTurn(b, m)'
    BY <2>1, <2>2, <2>3 DEF Turn, ArchivesInTurn, LinesOf
  <2>6. TableInTurn(m)'
    BY <2>1, <2>2, <2>3 DEF Turn, TableInTurn
  <2> QED BY <2>4, <2>5, <2>6 DEF InTurn, Turn
<1>4. ASSUME NEW t \in Threads, Stamp(t) \/ Step(t) PROVE InTurn'
  <2>1. UNCHANGED <<crashes, fails>>
    <3>1. ~ Held
      BY <1>1 DEF Held
    <3> QED BY <1>4, <3>1 DEF Stamp, Step, Enter, Write, Leave, Rotate, GetCurrLogIndex, Rename,
       Remove, RenameAgain, Moved, Throw, Mark, Save, Open, history, faults
  <2>3. InTurn
    BY <1>0, <2>1 DEF Undisturbed
  <2>4. CASE Stamp(t)
    BY <2>3, <2>4, QuietTurn DEF Stamp, At, Goto, disk, memory, Quiet, Due, Replacing, Steps
  <2>5. CASE Enter(t)
    BY <2>3, <2>5, QuietTurn DEF Enter, At, Goto, disk, history, Quiet, Due, Replacing, Steps
  <2>6. CASE Leave(t)
    BY <2>3, <2>6, QuietTurn DEF Leave, At, Goto, disk, history, Quiet, Due, Replacing, Steps
  <2>7. CASE Save(t)
    <3>1. PICK step \in {"save", "open"} :
            /\ pc[t] = "save" /\ pc' = [pc EXCEPT ![t] = step]
            /\ UNCHANGED <<file, archive, logSlot, slot, written>>
      BY <2>7 DEF Save, At, Goto, memory, history
    <3> QED BY <2>3, <3>1, QuietTurn DEF Quiet, Due, Replacing, Steps
  <2>8. CASE Open(t)
    <3>1. /\ pc[t] = "open" /\ pc' = [pc EXCEPT ![t] = "leave"]
          /\ UNCHANGED <<file, archive, logSlot, slot, written>>
      BY <2>8 DEF Open, At, Goto, Held, disk, history
    <3> QED BY <2>3, <3>1, QuietTurn DEF Quiet, Due, Replacing, Steps
  <2>9. ~ Throw(t)
    <3>1. slot \in Slots
      BY DEF Bounded, Stored
    <3>2. DOMAIN logSlot = Slots
      BY <2>3 DEF InTurn, Turn, TableInTurn
    <3> QED BY <3>1, <3>2 DEF Throw
  <2> QED BY <1>4, <2>3, <2>4, <2>5, <2>6, <2>7, <2>8, <2>9, WriteTurn, IndexTurn, RenameTurn,
     MarkTurn DEF Step, Rotate
<1> QED BY <1>2, <1>3, <1>4 DEF Next

LEMMA InitUndisturbed == Init => Undisturbed
<1> SUFFICES ASSUME Init, fails = 0, TableWhole PROVE Turn(0, 0)
  BY OffFacts DEF Undisturbed, InTurn
<1>0. logSlot = Fresh
  <2>1. NumSlots \in Slots
    BY LogAssumption DEF Slots
  <2>2. logSlot # NoTable
    BY <2>1, NoTableIsTable DEF TableWhole
  <2> QED BY <2>2 DEF Init
<1>1. \A S : S \cap {"idle"} = {} => ~ Rotating(S)
  BY DEF Init, Rotating
<1>2. /\ ~ Rotating({"again"}) /\ ~ Rotating({"mark"}) /\ ~ Rotating(Replacing) /\ ~ Rotating(Due)
  BY <1>1 DEF Due, Replacing
<1>3. Len(file) = 0 /\ written = 0
  BY DEF Init
<1>4. FileInTurn(0, 0)
  BY <1>3, OffFacts DEF FileInTurn
<1>5. ASSUME NEW s \in Slots PROVE LinesOf(s) = {} /\ s > 0 /\ logSlot[s] = "0"
  BY <1>0, LogAssumption DEF Init, LinesOf, Slots, Fresh
<1>6. ArchivesInTurn(0, 0)
  <2>1. \A s \in Slots : ~ (s <= 0) /\ LinesOf(s) = {}
    BY <1>5, LogAssumption DEF Slots
  <2> QED BY <2>1 DEF ArchivesInTurn
<1>7. TableInTurn(0)
  <2>1. DOMAIN logSlot = Slots /\ 0 <= LogSize
    BY <1>0, LogAssumption DEF Fresh
  <2> QED BY <1>2, <1>3, <1>5, <2>1 DEF TableInTurn
<1> QED BY <1>4, <1>6, <1>7 DEF Turn

LEMMA UndisturbedAlways == Spec => []Undisturbed
BY InitUndisturbed, NextUndisturbed, Invariant, BoundedAlways, PTL DEF Spec

\* The lines that are kept are those behind the first lo, and the first lo fill no more
\* than what the archives have no room for.
LEMMA KeptInTurn ==
  ASSUME Bounded, NEW b \in Nat, NEW m \in 0 .. NumSlots, Turn(b, m)
  PROVE  \E lo \in Nat : /\ Kept = lo + 1 .. written
                         /\ lo = 0 \/ lo + Off(NumSlots) <= written
<1> DEFINE N == Off(NumSlots)
           k == IF Rotating({"again"}) THEN m + 1 ELSE m
           lo == IF b = 0 THEN 0 ELSE b - N + Off(k)
<1>1. NumSlots \in Nat \ {0} /\ m \in Nat /\ FileLines \in Nat \ {0}
  BY OffFacts
<1>2. Rotating({"again"}) => m < NumSlots /\ slot = m + 1 /\ Len(file) = FileLines
  BY DEF Turn, TableInTurn, Rotating, Replacing, Due
<1>3. k \in m .. m + 1 /\ k <= NumSlots /\ (k = m + 1 => Rotating({"again"}))
  BY <1>1, <1>2
<1>4. Off(k) \in Nat /\ Off(m) \in Nat /\ N \in Nat /\ Off(k) <= N /\ Off(m) <= N
  <2>1. k \in Nat /\ k <= NumSlots /\ m <= NumSlots
    BY <1>1, <1>3
  <2> HIDE DEF k
  <2> QED BY <2>1, <1>1, OffFacts
<1>5. /\ Len(file) \in Nat /\ written \in Nat /\ file \in Seq(Lines)
      /\ written = b + Off(m) + Len(file) /\ (b = 0 \/ b >= N)
      /\ \A i \in 1 .. Len(file) : file[i] = b + Off(m) + i
  BY DEF Bounded, Stored, Counts, Turn, FileInTurn
<1>6. Off(k) <= Off(m) + Len(file)
  <2>1. CASE k = m
    BY <2>1, <1>4, <1>5
  <2>2. CASE k = m + 1
    BY <2>2, <1>1, <1>2, <1>3, OffFacts
  <2> QED BY <2>1, <2>2, <1>1, <1>3
<1>7. lo \in Nat /\ lo <= b /\ (lo = 0 \/ lo + N <= written)
  BY <1>4, <1>5, <1>6
<1>8. \A s \in Slots : s \in Nat /\ s >= 1 /\ s <= NumSlots /\ s - 1 \in Nat
  BY LogAssumption DEF Slots
<1>9. \A s \in Slots : LinesOf(s) =
        IF s <= m THEN Block(b, s)
        ELSE IF b = 0 \/ (s = slot /\ Rotating({"again"})) THEN {}
        ELSE Block(b - N, s)
  BY DEF Turn, ArchivesInTurn
<1>10. \A s \in Slots : s > m /\ ~ (s = slot /\ Rotating({"again"})) => s > k
  BY <1>1, <1>2, <1>3, <1>8
<1>11. ASSUME NEW s \in Slots, NEW x \in LinesOf(s)
       PROVE  x \in lo + 1 .. written
  <2>1. s \in Nat /\ s - 1 \in Nat /\ s <= NumSlots
    BY <1>8
  <2>2. Off(s - 1) \in Nat /\ Off(s) \in Nat /\ Off(s) <= N
    BY <2>1, <1>1, OffFacts
  <2>3. CASE s <= m
    <3>1. x \in Block(b, s)
      BY <1>9, <1>11, <2>3
    <3>2. Off(s) <= Off(m)
      BY <2>1, <2>3, <1>1, OffFacts
    <3> HIDE DEF k, N, lo
    <3> QED BY <3>1, <3>2, <2>2, <1>4, <1>5, <1>7 DEF Block
  <2>4. CASE ~ (s <= m)
    <3>1. b # 0 /\ ~ (s = slot /\ Rotating({"again"})) /\ x \in Block(b - N, s)
      BY <1>9, <1>11, <2>4
    <3>2. s > k
      BY <3>1, <2>1, <2>4, <1>1, <1>10
    <3>3. Off(k) <= Off(s - 1)
      <4>1. k \in Nat /\ k <= s - 1
        BY <3>2, <2>1, <1>1, <1>3
      <4> QED BY <4>1, <2>1, OffFacts
    <3> HIDE DEF k, N
    <3> QED BY <3>1, <3>3, <2>2, <1>4, <1>5 DEF Block
  <2> QED BY <2>3, <2>4
<1>12. ASSUME NEW i \in DOMAIN file PROVE file[i] \in lo + 1 .. written
  <2>1. i \in 1 .. Len(file) /\ file[i] = b + Off(m) + i
    BY <1>5
  <2> HIDE DEF k, N, lo
  <2> QED BY <2>1, <1>4, <1>5, <1>7
<1>13. ASSUME NEW x \in lo + 1 .. written PROVE x \in Kept
  <2>0. x \in Nat /\ lo < x /\ x <= written
    BY <1>5, <1>7
  <2>1. CASE x > b + Off(m)
    <3> DEFINE i == x - (b + Off(m))
    <3>1. i \in 1 .. Len(file) /\ b + Off(m) + i = x
      BY <2>0, <2>1, <1>4, <1>5
    <3>2. i \in DOMAIN file /\ file[i] = x
      BY <3>1, <1>5
    <3> QED BY <3>2 DEF Kept, InFile
  <2>2. CASE b < x /\ x <= b + Off(m)
    <3> DEFINE y == x - b
    <3>0. Off(0) = 0
      BY OffFacts
    <3>1. y \in Nat /\ Off(0) < y /\ y <= Off(m) /\ x = b + y
      BY <3>0, <2>0, <2>2, <1>4
    <3> HIDE DEF y
    <3>2. PICK s \in 0 + 1 .. m : Off(s - 1) < y /\ y <= Off(s)
      BY <3>1, <1>1, InSomeFile
    <3>3. s \in Slots /\ s <= m
      BY <3>2, <1>1 DEF Slots
    <3>4. Off(s - 1) \in Nat /\ Off(s) \in Nat
      BY <3>3, <1>8, OffFacts
    <3>5. x \in Block(b, s)
      BY <3>1, <3>2, <3>4 DEF Block
    <3>6. x \in LinesOf(s)
      BY <3>3, <3>5, <1>9
    <3> QED BY <3>3, <3>6 DEF Kept, InFile, LinesIn, LinesOf
  <2>3. CASE x <= b
    <3> DEFINE c == b - N
               y == x - c
    <3>1. b # 0 /\ b >= N /\ c \in Nat /\ lo = c + Off(k)
      BY <2>0, <2>3, <1>4, <1>5
    <3>2. y \in Nat /\ Off(k) < y /\ y <= N /\ x = c + y
      BY <3>1, <2>0, <2>3, <1>4
    <3> HIDE DEF c, y
    <3>3. PICK s \in k + 1 .. NumSlots : Off(s - 1) < y /\ y <= Off(s)
      BY <3>2, <1>1, <1>3, InSomeFile
    <3>4. s \in Slots /\ ~ (s <= m) /\ ~ (s = slot /\ Rotating({"again"}))
      BY <3>3, <1>1, <1>2, <1>3 DEF Slots
    <3>5. Off(s - 1) \in Nat /\ Off(s) \in Nat
      BY <3>4, <1>8, OffFacts
    <3>6. x \in Block(c, s)
      BY <3>1, <3>2, <3>3, <3>5 DEF Block
    <3>7. x \in LinesOf(s)
      BY <3>1, <3>4, <3>6, <1>9 DEF c
    <3> QED BY <3>4, <3>7 DEF Kept, InFile, LinesIn, LinesOf
  <2> QED BY <2>0, <2>1, <2>2, <2>3, <1>4
<1>14. Kept = lo + 1 .. written
  BY <1>11, <1>12, <1>13 DEF Kept, InFile, LinesIn, LinesOf
<1> QED BY <1>7, <1>14

----------------------------------------------------------------------------
(* What faults cost *)

\* The order of the slots from the oldest archive to the newest, when k are marked.
Rank(k, s) == IF s <= k THEN NumSlots + s ELSE s
Precede(S, T) == \A a \in S, c \in T : a < c
FirstMarked(table, k) == DOMAIN table = Slots /\ \A s \in Slots : table[s] = "0" <=> s > k

\* The faults have paid for the lines in E, which are as many as fit into one file for
\* each of them: all that have been lost out of turn are among them ...
Paid(E) == Cardinality(E) <= (crashes + fails) * FileLines /\ OutOfTurn \subseteq E

\* ... and, when k slots are marked, all that would be lost out of turn: the others are
\* in archives that follow each other in the order of the slots, and those that could not
\* be removed are older than the rest.
InOrder(k, E) ==
  \A s, r \in Slots :
    s # r /\ r \notin stuck /\ (s \in stuck \/ Rank(k, s) < Rank(k, r))
      => Precede(LinesOf(s) \ E, LinesOf(r))

\* That is so for the table in memory, of which m slots are marked, the last one when
\* the mark has been set ...
Marked(m) ==
  /\ \A s \in Slots : logSlot[s] = "0" <=> (s > m \/ (s = slot /\ Rotating({"mark"})))
  /\ Rotating(Replacing) => m < NumSlots /\ slot = m + 1
  /\ Rotating({"mark"}) => slot = m
InMemory(m, E) == TableWhole => Marked(m) /\ InOrder(m, E)

\* ... and for the one in LOG_SLOT, but for the archive that has not been marked there:
\* the next crash has to pay for it.
AtRisk == IF Rotating({"mark"}) \/ logSlot = NoTable THEN LinesOf(slot) ELSE {}
InLogSlot(k, E) ==
  DOMAIN slotFile = Slots => FirstMarked(slotFile, k) /\ InOrder(k, E \cup AtRisk)

\* A process without a table replaces the first archive once, and throws.
WithoutTable(E) ==
  logSlot = NoTable =>
    /\ slot = 1 /\ ~ Rotating({"save", "open"})
    /\ LinesOf(1) \subseteq E \/ (~ isOpen /\ ~ Rotating(Due))

\* What a file has too many has been paid for.
Sizes(E) ==
  /\ \/ Cardinality(InFile \ E) <= LogSize
     \/ Rotating(Due) /\ Cardinality(InFile \ E) <= FileLines
  /\ \A s \in Slots : Cardinality(LinesOf(s) \ E) <= FileLines
  /\ Rotating({"again"}) /\ archive[slot] # << >>
       => Cardinality(InFile \ E) <= LogSize /\ slot \in stuck

Series(E, m, k) ==
  Paid(E) /\ WithoutTable(E) /\ Sizes(E) /\ InMemory(m, E) /\ InLogSlot(k, E)

\* The file is the newest; and only a crash takes entries from the table, those that have
\* not been written to LOG_SLOT, or all.
Newest ==
  /\ \A s \in Slots : Precede(LinesOf(s), InFile)
  /\ Kept \subseteq 0 .. written
  /\ \A s \in stuck : archive[s] # << >>
Shrunk == logSlot = NoTable \/ DOMAIN slotFile \subseteq DOMAIN logSlot

\* While one of the tables is whole, the other one can become whole again.
Healthy == TableWhole \/ DOMAIN slotFile = Slots
InSeries == \E E \in SUBSET Lines, m, k \in 0 .. NumSlots : Series(E, m, k)
Charged == Newest /\ Shrunk /\ (Healthy => InSeries)

\* Sets of lines.
LEMMA LinesFinite ==
  ASSUME NEW S \in SUBSET Lines
  PROVE  IsFiniteSet(S) /\ Cardinality(S) \in Nat
<1>1. IsFiniteSet(Lines)
  BY FS_Interval, LogAssumption DEF Lines
<1> QED BY <1>1, FS_Subset, FS_CardinalityType

LEMMA FewerLines ==
  ASSUME NEW T \in SUBSET Lines, NEW S \in SUBSET T
  PROVE  Cardinality(S) <= Cardinality(T)
BY LinesFinite, FS_Subset

LEMMA MoreLines ==
  ASSUME NEW E \in SUBSET Lines, NEW A \in SUBSET Lines
  PROVE  Cardinality(E \cup A) <= Cardinality(E) + Cardinality(A \ E)
<1>1. IsFiniteSet(E) /\ IsFiniteSet(A \ E) /\ Cardinality(E) \in Nat /\ Cardinality(A \ E) \in Nat
  <2>1. A \ E \in SUBSET Lines
    OBVIOUS
  <2> QED BY <2>1, LinesFinite
<1>2. Cardinality(E \cup (A \ E)) =
        Cardinality(E) + Cardinality(A \ E) - Cardinality(E \cap (A \ E))
  BY <1>1, FS_Union
<1>3. E \cup (A \ E) = E \cup A /\ Cardinality(E \cap (A \ E)) = 0
  <2>1. E \cap (A \ E) = {}
    OBVIOUS
  <2> QED BY <2>1, FS_EmptySet
<1>4. Cardinality(E \cup A) = Cardinality(E \cup (A \ E))
  BY <1>3
<1> DEFINE a == Cardinality(E)
           b == Cardinality(A \ E)
           c == Cardinality(E \cap (A \ E))
           d == Cardinality(E \cup A)
<1>5. a \in Nat /\ b \in Nat /\ c = 0 /\ d = a + b - c
  BY <1>1, <1>2, <1>3, <1>4
<1>6. d <= a + b
  <2> HIDE DEF a, b, c, d
  <2> QED BY <1>5
<1> QED BY <1>6

\* One line of too many can be taken away.
LEMMA OneLine ==
  ASSUME NEW S \in SUBSET Lines, NEW n \in Nat, Cardinality(S) <= n + 1
  PROVE  \E A \in SUBSET S : Cardinality(A) <= 1 /\ Cardinality(S \ A) <= n
<1>1. CASE S = {}
  <2>1. Cardinality({}) = 0 /\ {} \ {} = {}
    BY FS_EmptySet
  <2> QED BY <1>1, <2>1
<1>2. CASE S # {}
  <2>1. PICK x \in S : TRUE
    BY <1>2
  <2>2. Cardinality(S \ {x}) = Cardinality(S) - 1 /\ Cardinality(S) \in Nat
    BY <2>1, LinesFinite, FS_RemoveElement
  <2>3. Cardinality({x}) = 1
    BY FS_Singleton
  <2>4. {x} \in SUBSET S /\ Cardinality(S \ {x}) <= n
    BY <1>2, <2>1, <2>2
  <2> QED BY <2>3, <2>4
<1> QED BY <1>1, <1>2

\* A sequence of lines has at most as many as it has entries.
LEMMA LinesOfSeq ==
  ASSUME NEW q \in Seq(Lines)
  PROVE  /\ {q[i] : i \in DOMAIN q} \in SUBSET Lines
         /\ Cardinality({q[i] : i \in DOMAIN q}) <= Len(q)
<1> DEFINE R == {q[i] : i \in DOMAIN q}
<1>1. Len(q) \in Nat /\ DOMAIN q = 1 .. Len(q)
  OBVIOUS
<1>2. R \subseteq Lines
  BY <1>1
<1>3. ExistsSurjection(1 .. Len(q), R)
  <2> DEFINE f == [i \in 1 .. Len(q) |-> q[i]]
  <2>1. f \in [1 .. Len(q) -> R] /\ \A y \in R : \E i \in 1 .. Len(q) : f[i] = y
    BY <1>1
  <2> QED BY <2>1 DEF ExistsSurjection, Surjection
<1>4. Cardinality(R) <= Len(q)
  <2> HIDE DEF R
  <2> QED BY <1>1, <1>3, FS_SurjCardinalityBound
<1> QED BY <1>2, <1>4

LEMMA LinesTyped ==
  ASSUME Bounded
  PROVE  /\ InFile \in SUBSET Lines /\ Cardinality(InFile) <= Len(file)
         /\ \A s \in Slots : LinesOf(s) \in SUBSET Lines
         /\ crashes + fails \in Nat /\ FileLines \in Nat /\ LogSize \in Nat
         /\ FileLines = LogSize + 1 /\ NumSlots \in Nat \ {0} /\ 1 \in Slots
         /\ written \in Nat /\ slot \in Slots
<1>1. file \in Seq(Lines) /\ archive \in [Slots -> Seq(Lines)] /\ slot \in Slots
  BY DEF Bounded, Stored
<1>2. InFile \in SUBSET Lines /\ Cardinality(InFile) <= Len(file)
  BY <1>1, LinesOfSeq DEF InFile
<1>3. \A s \in Slots : LinesOf(s) \in SUBSET Lines
  BY <1>1, LinesOfSeq DEF LinesOf
<1> QED BY <1>1, <1>2, <1>3, LogAssumption DEF Bounded, Stored, Counts, FileLines, Slots

LEMMA KeptIs ==
  /\ Kept = InFile \cup UNION {LinesOf(s) : s \in Slots}
  /\ \A S : LinesIn(S) = UNION {LinesOf(s) : s \in S}
BY DEF Kept, LinesIn, LinesOf

\* Another fault pays for as many lines as a file has.
LEMMA OneFault ==
  ASSUME NEW n \in Nat, NEW E \in SUBSET Lines, NEW A \in SUBSET Lines,
         Cardinality(E) <= n * FileLines, Cardinality(A \ E) <= FileLines
  PROVE  Cardinality(E \cup A) <= (n + 1) * FileLines
<1>1. /\ n * FileLines \in Nat /\ (n + 1) * FileLines = n * FileLines + FileLines
      /\ FileLines \in Nat
  BY OffFacts DEF Off
<1>2. /\ Cardinality(E \cup A) <= Cardinality(E) + Cardinality(A \ E)
      /\ Cardinality(E \cup A) \in Nat /\ Cardinality(E) \in Nat /\ Cardinality(A \ E) \in Nat
  <2>1. E \cup A \in SUBSET Lines /\ A \ E \in SUBSET Lines
    OBVIOUS
  <2> QED BY <2>1, LinesFinite, MoreLines
<1> DEFINE P == n * FileLines
           Q == (n + 1) * FileLines
           F == FileLines
<1>3. P \in Nat /\ Q = P + F /\ F \in Nat /\ Cardinality(E) <= P /\ Cardinality(A \ E) <= F
  BY <1>1
<1> HIDE DEF P, Q, F
<1>4. Cardinality(E \cup A) <= Q
  BY <1>2, <1>3
<1> QED BY <1>4 DEF Q

\* What has been paid for stays so.
LEMMA PaidStays ==
  ASSUME Bounded, NEW E \in SUBSET Lines, Paid(E), NEW n \in Nat,
         crashes' + fails' = crashes + fails + n, OutOfTurn' \subseteq E
  PROVE  Paid(E)'
<1>1. /\ crashes + fails \in Nat
      /\ (crashes + fails) * FileLines <= (crashes + fails + n) * FileLines
  <2>1. crashes + fails \in Nat
    BY LinesTyped
  <2> DEFINE k == crashes + fails
  <2>2. k \in Nat /\ k + n \in Nat /\ k <= k + n
    BY <2>1
  <2> HIDE DEF k
  <2>3. Off(k) <= Off(k + n)
    BY <2>2, OffFacts
  <2> QED BY <2>1, <2>3 DEF Off, k
<1>2. Cardinality(E) \in Nat /\ Cardinality(E) <= (crashes + fails) * FileLines
  BY LinesFinite DEF Paid
<1>3. (crashes + fails) * FileLines \in Nat /\ (crashes + fails + n) * FileLines \in Nat
  <2> DEFINE k == crashes + fails
  <2>1. k \in Nat /\ k + n \in Nat
    BY <1>1
  <2> HIDE DEF k
  <2>2. Off(k) \in Nat /\ Off(k + n) \in Nat
    BY <2>1, OffFacts
  <2> QED BY <2>2 DEF Off, k
<1> DEFINE P == (crashes + fails) * FileLines
           Q == (crashes + fails + n) * FileLines
<1>4. Cardinality(E) <= P /\ P <= Q /\ P \in Nat /\ Q \in Nat
  BY <1>1, <1>2, <1>3
<1> HIDE DEF P, Q
<1>5. Cardinality(E) <= Q
  BY <1>2, <1>4
<1>6. Cardinality(E) <= (crashes' + fails') * FileLines
  BY <1>5 DEF Q
<1> QED BY <1>6 DEF Paid, FileLines

LEMMA PaidFault ==
  ASSUME Bounded, NEW E \in SUBSET Lines, Paid(E), NEW A \in SUBSET Lines,
         Cardinality(A \ E) <= FileLines,
         crashes' + fails' = crashes + fails + 1, OutOfTurn' \subseteq E \cup A
  PROVE  Paid(E \cup A)'
<1>1. crashes + fails \in Nat
  BY LinesTyped
<1>2. Cardinality(E \cup A) <= (crashes + fails + 1) * FileLines
  BY <1>1, OneFault DEF Paid
<1>3. Cardinality(E \cup A) <= (crashes' + fails') * FileLines
  BY <1>2
<1> QED BY <1>3 DEF Paid, FileLines

\* More lines that are paid for disturb neither the order nor the sizes.
LEMMA OrderStays ==
  ASSUME NEW k, NEW E, NEW G, E \subseteq G, InOrder(k, E)
  PROVE  InOrder(k, G)
BY DEF InOrder, Precede

LEMMA SizesStay ==
  ASSUME Bounded, NEW E \in SUBSET Lines, NEW G \in SUBSET Lines, E \subseteq G
  PROVE  /\ \A n \in Nat : Cardinality(InFile \ E) <= n => Cardinality(InFile \ G) <= n
         /\ (\A s \in Slots : Cardinality(LinesOf(s) \ E) <= FileLines)
              => \A s \in Slots : Cardinality(LinesOf(s) \ G) <= FileLines
<1>1. InFile \in SUBSET Lines /\ \A s \in Slots : LinesOf(s) \in SUBSET Lines
  BY LinesTyped
<1>2. FileLines \in Nat
  BY LinesTyped
<1>3. ASSUME NEW S \in SUBSET Lines, NEW n \in Nat, Cardinality(S \ E) <= n
      PROVE  Cardinality(S \ G) <= n
  <2>1. S \ E \in SUBSET Lines /\ S \ G \in SUBSET (S \ E) /\ S \ G \in SUBSET Lines
    OBVIOUS
  <2>2. /\ Cardinality(S \ G) <= Cardinality(S \ E)
        /\ Cardinality(S \ G) \in Nat /\ Cardinality(S \ E) \in Nat
    BY <2>1, FewerLines, LinesFinite
  <2> QED BY <1>3, <2>2
<1> QED BY <1>1, <1>2, <1>3

\* The slot of a rotation is that of the oldest archive, and then of the newest.
LEMMA RankFacts ==
  /\ \A m \in 0 .. NumSlots - 1, s \in Slots :
       s # m + 1 => Rank(m, m + 1) < Rank(m, s)
  /\ \A m \in 0 .. NumSlots - 1, s, r \in Slots :
       /\ s # m + 1 /\ r # m + 1 => (Rank(m + 1, s) < Rank(m + 1, r) <=> Rank(m, s) < Rank(m, r))
       /\ ~ (Rank(m + 1, m + 1) < Rank(m + 1, s))
  /\ \A s, r \in Slots : Rank(NumSlots, s) < Rank(NumSlots, r) <=> Rank(0, s) < Rank(0, r)
BY LogAssumption DEF Rank, Slots

\* Where no rotation is under way, or the thread in the section is.
LEMMA NotRotating ==
  ASSUME IInv, NEW t \in Threads, NEW step \in Quiet, pc[t] \in Quiet,
         pc' = [pc EXCEPT ![t] = step]
  PROVE  \A S \in {{"again"}, {"mark"}, Replacing, Due} : Rotating(S)' <=> Rotating(S)
<1>1. pc \in [Threads -> Steps]
  BY DEF IInv, Typed
<1>2. \A S : S \cap Quiet = {} => (Rotating(S)' <=> Rotating(S))
  BY <1>1 DEF Rotating
<1> QED BY <1>2 DEF Quiet, Due, Replacing

\* A rotation is at one step, and goes to one step.
LEMMA StepOfRotation ==
  ASSUME IInv, NEW t \in Threads, pc[t] \in Inside, NEW step, pc' = [pc EXCEPT ![t] = step]
  PROVE  \A S \in SUBSET Inside : (Rotating(S) <=> pc[t] \in S) /\ (Rotating(S)' <=> step \in S)
BY TheOneInside

LEMMA SetsOfSteps ==
  /\ {"again"} \in SUBSET Inside /\ {"mark"} \in SUBSET Inside /\ {"save", "open"} \in SUBSET Inside
  /\ Replacing \in SUBSET Inside /\ Due \in SUBSET Inside
BY DEF Inside, Steps, Due, Replacing

\* While one of the tables is whole, a process that has a table has all of it.
LEMMA TableAt ==
  ASSUME IInv, Healthy, Shrunk, logSlot # NoTable
  PROVE  TableWhole
<1>1. PICK n \in 0 .. NumSlots : DOMAIN logSlot = 1 .. n
  BY TableDomain DEF IInv, Typed
<1>2. NumSlots \in Nat
  BY LogAssumption
<1> QED BY <1>1, <1>2 DEF Healthy, Shrunk, TableWhole, Slots

LEMMA TableNotEmpty == TableWhole => logSlot # NoTable
<1>1. 1 \in Slots
  BY LogAssumption DEF Slots
<1> QED BY <1>1, NoTableIsTable DEF TableWhole

\* The tables, from step to step.
LEMMA TablesNext ==
  ASSUME IInv, Shrunk, [Next]_vars
  PROVE  Shrunk' /\ (Healthy' => Healthy)
<1>1. /\ DOMAIN logSlot \subseteq Slots /\ 1 \in Slots
  <2>1. PICK n \in 0 .. NumSlots : DOMAIN logSlot = 1 .. n
    BY TableDomain DEF IInv, Typed
  <2> QED BY <2>1, LogAssumption DEF Slots
<1>2. CASE UNCHANGED <<slotFile, logSlot>>
  BY <1>2 DEF Shrunk, Healthy, TableWhole
<1>3. CASE Crash
  <2>1. slotFile' = slotFile /\ (logSlot' = slotFile \/ logSlot' = NoTable)
    BY <1>3 DEF Crash, disk
  <2>2. DOMAIN NoTable # Slots
    BY <1>1, NoTableIsTable
  <2> QED BY <2>1, <2>2 DEF Shrunk, Healthy, TableWhole
<1>4. ASSUME NEW t \in Threads, GetCurrLogIndex(t) PROVE Shrunk' /\ (Healthy' => Healthy)
  <2>1. /\ slotFile' = slotFile /\ DOMAIN logSlot' = DOMAIN logSlot
        /\ logSlot' \in Tables /\ logSlot \in Tables
    BY <1>4, TableSet DEF GetCurrLogIndex, disk, IInv, Typed
  <2> QED BY <2>1, SameSlots DEF Shrunk, Healthy, TableWhole
<1>5. ASSUME NEW t \in Threads, Mark(t) PROVE Shrunk' /\ (Healthy' => Healthy)
  <2>1. /\ slotFile' = NoTable \/ slotFile' = slotFile
        /\ DOMAIN logSlot' = DOMAIN logSlot /\ logSlot # NoTable
    BY <1>5, NoTableIsTable DEF Mark
  <2>2. DOMAIN NoTable = {} /\ {} # Slots
    BY <1>1, NoTableIsTable
  <2> QED BY <2>1, <2>2 DEF Shrunk, Healthy, TableWhole
<1>6. ASSUME NEW t \in Threads, Save(t) PROVE Shrunk' /\ (Healthy' => Healthy)
  <2>1. PICK n \in Nat, j \in Nat :
          j < n /\ DOMAIN logSlot = 1 .. n /\ slotFile = [s \in 1 .. j |-> logSlot[s]]
    BY <1>6 DEF Save, At, IInv, Saving
  <2>2. Cardinality(DOMAIN slotFile) = j
    BY <2>1, FS_Interval
  <2>3. DOMAIN slotFile' = 1 .. j + 1 /\ logSlot' = logSlot
    BY <1>6, <2>2 DEF Save, memory
  <2>4. DOMAIN slotFile' \subseteq DOMAIN logSlot
    BY <2>1, <2>3
  <2> QED BY <1>1, <2>3, <2>4 DEF Shrunk, Healthy, TableWhole
<1>7. ASSUME NEW t \in Threads,
             \/ Stamp(t) \/ Enter(t) \/ Write(t) \/ Leave(t) \/ Rename(t) \/ Remove(t)
             \/ RenameAgain(t) \/ Throw(t) \/ Open(t)
      PROVE  UNCHANGED <<slotFile, logSlot>>
  BY <1>7 DEF Stamp, Enter, Write, Leave, Rename, Remove, RenameAgain, Moved, Throw, Open, disk, memory
<1>8. UNCHANGED vars => UNCHANGED <<slotFile, logSlot>>
  BY DEF vars, disk, memory
<1> QED BY <1>2, <1>3, <1>4, <1>5, <1>6, <1>7, <1>8 DEF Next, Step, Rotate

\* Steps that move no line.
LEMMA SameArchives ==
  ASSUME UNCHANGED <<file, archive, stuck, written>>
  PROVE  /\ \A s : LinesOf(s)' = LinesOf(s)
         /\ InFile' = InFile /\ OutOfTurn' = OutOfTurn
         /\ Newest' <=> Newest
         /\ \A i, G : InOrder(i, G)' <=> InOrder(i, G)
<1>1. \A s : LinesOf(s)' = LinesOf(s)
  BY DEF LinesOf
<1>2. InFile' = InFile
  BY DEF InFile
<1>3. Kept' = Kept
  BY DEF Kept, InFile, LinesIn
<1>4. OutOfTurn' = OutOfTurn
  BY DEF OutOfTurn, Lost, Kept, InFile, LinesIn
<1>5. Newest' <=> Newest
  BY <1>1, <1>2, <1>3 DEF Newest, Precede
<1>6. \A i, G : InOrder(i, G)' <=> InOrder(i, G)
  BY <1>1 DEF InOrder, Precede, Rank
<1> QED BY <1>1, <1>2, <1>4, <1>5, <1>6

\* Steps that change neither the archives nor how far a rotation is.
LEMMA SameSeries ==
  ASSUME Bounded, NEW E \in SUBSET Lines, NEW m, NEW k, Series(E, m, k),
         UNCHANGED <<file, archive, slotFile, logSlot, slot, stuck, written, crashes>>,
         fails' \in {fails, fails + 1}, isOpen' => isOpen \/ logSlot # NoTable,
         Rotating({"again"})' <=> Rotating({"again"}), Rotating(Due)' <=> Rotating(Due),
         \/ logSlot = NoTable
         \/ /\ Rotating({"mark"})' <=> Rotating({"mark"})
            /\ Rotating(Replacing)' <=> Rotating(Replacing),
         logSlot = NoTable => ~ Rotating({"save", "open"})'
  PROVE  Series(E, m, k)'
<1>1. /\ \A s : LinesOf(s)' = LinesOf(s)
      /\ InFile' = InFile /\ OutOfTurn' = OutOfTurn
      /\ \A i, G : InOrder(i, G)' <=> InOrder(i, G)
  BY SameArchives
<1>2. Paid(E)'
  <2>1. Paid(E) /\ OutOfTurn' \subseteq E
    BY <1>1 DEF Series, Paid
  <2>2. CASE fails' = fails
    <3>1. crashes' + fails' = crashes + fails + 0
      BY <2>2, LinesTyped
    <3> QED BY <2>1, <3>1, PaidStays
  <2>3. CASE fails' = fails + 1
    <3>1. crashes' + fails' = crashes + fails + 1
      BY <2>3, LinesTyped DEF Bounded, Stored
    <3> QED BY <2>1, <3>1, PaidStays
  <2> QED BY <2>2, <2>3
<1>3. WithoutTable(E)'
  BY <1>1 DEF Series, WithoutTable
<1>4. Sizes(E)'
  BY <1>1 DEF Series, Sizes, FileLines
<1>5. InMemory(m, E)'
  <2>1. TableWhole' => TableWhole /\ logSlot # NoTable
    BY TableNotEmpty DEF TableWhole
  <2>2. ASSUME TableWhole' PROVE Marked(m)' /\ InOrder(m, E)'
    <3>1. Marked(m) /\ InOrder(m, E)
      BY <2>1, <2>2 DEF Series, InMemory
    <3>2. Marked(m)'
      BY <2>1, <2>2, <3>1 DEF Marked
    <3> QED BY <1>1, <3>1, <3>2
  <2> QED BY <2>2 DEF InMemory
<1>6. InLogSlot(k, E)'
  <2>1. AtRisk' = AtRisk
    BY <1>1 DEF AtRisk
  <2> QED BY <1>1, <2>1 DEF Series, InLogSlot, FirstMarked
<1> QED BY <1>2, <1>3, <1>4, <1>5, <1>6 DEF Series

\* A thread that does not go to a step is not there.
LEMMA NotThere ==
  ASSUME IInv, NEW t \in Threads, NEW step, pc' = [pc EXCEPT ![t] = step],
         NEW S, step \notin S
  PROVE  Rotating(S)' => Rotating(S)
<1>1. pc \in [Threads -> Steps]
  BY DEF IInv, Typed
<1> QED BY <1>1 DEF Rotating

LEMMA QuietSeries ==
  ASSUME IInv, Bounded, InSeries, NEW t \in Threads, NEW step \in {"idle", "stamped", "entered", "leave"},
         pc[t] \in Quiet, pc' = [pc EXCEPT ![t] = step],
         UNCHANGED <<file, archive, slotFile, logSlot, slot, stuck, written, crashes>>,
         fails' \in {fails, fails + 1},
         isOpen' = isOpen \/ pc[t] = "open"
  PROVE  InSeries'
<1>1. PICK E \in SUBSET Lines, m \in 0 .. NumSlots, k \in 0 .. NumSlots : Series(E, m, k)
  BY DEF InSeries
<1>2. step \in Quiet
  BY DEF Quiet, Steps, Due, Replacing
<1>3. \A S \in {{"again"}, {"mark"}, Replacing, Due} : Rotating(S)' <=> Rotating(S)
  BY <1>2, NotRotating
<1>4. logSlot = NoTable => ~ Rotating({"save", "open"}) /\ ~ Rotating({"save", "open"})'
  <2>1. logSlot = NoTable => ~ Rotating({"save", "open"})
    BY <1>1 DEF Series, WithoutTable
  <2>2. Rotating({"save", "open"})' => Rotating({"save", "open"})
    BY NotThere
  <2> QED BY <2>1, <2>2
<1>5. isOpen' => isOpen \/ logSlot # NoTable
  BY <1>4 DEF Rotating
<1>6. Series(E, m, k)'
  BY <1>1, <1>3, <1>4, <1>5, SameSeries
<1> QED BY <1>6 DEF InSeries

LEMMA StampSeries ==
  ASSUME IInv, Bounded, InSeries, NEW t \in Threads, Stamp(t) \/ Enter(t) \/ Leave(t) \/ Open(t)
  PROVE  InSeries'
<1>1. PICK step \in {"idle", "stamped", "entered", "leave"} :
        /\ pc[t] \in {"idle", "stamped", "leave", "open"} /\ pc' = [pc EXCEPT ![t] = step]
        /\ UNCHANGED <<file, archive, slotFile, logSlot, slot, stuck, written, crashes>>
        /\ fails' \in {fails, fails + 1}
        /\ isOpen' = isOpen \/ pc[t] = "open"
  <2>1. CASE Stamp(t)
    BY <2>1 DEF Stamp, At, Goto, disk, memory, faults
  <2>2. CASE Enter(t)
    BY <2>2 DEF Enter, At, Goto, disk, history, faults
  <2>3. CASE Leave(t)
    BY <2>3 DEF Leave, At, Goto, disk, history, faults
  <2>4. CASE Open(t)
    BY <2>4 DEF Open, At, Goto, Held, disk, history, faults
  <2> QED BY <2>1, <2>2, <2>3, <2>4
<1>2. pc[t] \in Quiet
  BY <1>1 DEF Quiet, Steps, Due, Replacing
<1> QED BY <1>1, <1>2, QuietSeries

\* A process without a table throws.
LEMMA ThrowSeries ==
  ASSUME IInv, Bounded, InSeries, NEW t \in Threads, Throw(t)
  PROVE  InSeries'
<1>1. PICK E \in SUBSET Lines, m \in 0 .. NumSlots, k \in 0 .. NumSlots : Series(E, m, k)
  BY DEF InSeries
<1>2. /\ pc[t] = "mark" /\ slot \notin DOMAIN logSlot /\ pc' = [pc EXCEPT ![t] = "idle"]
      /\ UNCHANGED <<file, archive, slotFile, logSlot, slot, stuck, written, crashes, fails, isOpen>>
  BY DEF Throw, At, Goto, disk, memory, history, faults
<1>3. logSlot = NoTable
  BY <1>2 DEF IInv, SlotThere, Closed
<1>4. pc[t] \in Inside /\ "idle" \notin Due
  BY <1>2 DEF Inside, Steps, Due, Replacing
<1>5. \A S \in SUBSET Inside : (Rotating(S) <=> pc[t] \in S) /\ (Rotating(S)' <=> "idle" \in S)
  BY <1>2, <1>4, StepOfRotation
<1>6. /\ ~ Rotating({"again"}) /\ ~ Rotating(Due)
      /\ ~ Rotating({"again"})' /\ ~ Rotating(Due)' /\ ~ Rotating({"save", "open"})'
  BY <1>2, <1>5, SetsOfSteps DEF Due, Replacing
<1>7. Series(E, m, k)'
  BY <1>1, <1>2, <1>3, <1>6, SameSeries
<1> QED BY <1>7 DEF InSeries

\* The new line is behind all the others.
LEMMA LineWritten ==
  ASSUME Bounded, Newest, file' = Append(file, written + 1), written' = written + 1,
         UNCHANGED <<archive, stuck>>
  PROVE  /\ \A s : LinesOf(s)' = LinesOf(s)
         /\ InFile' = InFile \cup {written + 1} /\ Len(file') = Len(file) + 1
         /\ OutOfTurn' \subseteq OutOfTurn
         /\ Newest'
<1>1. \A s : LinesOf(s)' = LinesOf(s)
  BY DEF LinesOf
<1>2. file \in Seq(Lines) /\ Len(file) \in Nat /\ written \in Nat
  BY DEF Bounded, Stored, Counts
<1>3. InFile' = InFile \cup {written + 1} /\ Len(file') = Len(file) + 1
  <2>1. /\ DOMAIN file = 1 .. Len(file) /\ DOMAIN file' = 1 .. Len(file) + 1
        /\ Len(file') = Len(file) + 1
        /\ \A i \in 1 .. Len(file) : file'[i] = file[i]
        /\ file'[Len(file) + 1] = written + 1
    BY <1>2
  <2>2. DOMAIN file' = DOMAIN file \cup {Len(file) + 1}
    BY <1>2, <2>1
  <2> QED BY <2>1, <2>2 DEF InFile
<1>4. Kept' = Kept \cup {written + 1} /\ LinesIn(Slots \ stuck)' = LinesIn(Slots \ stuck)
  BY <1>3 DEF Kept, LinesIn, Slots
<1>5. Kept \subseteq 0 .. written /\ \A s \in Slots : LinesOf(s) \subseteq Kept
  BY KeptIs DEF Newest
<1>6. OutOfTurn' \subseteq OutOfTurn
  <2>1. Lost' = Lost
    <3>1. (1 .. written') = (1 .. written) \cup {written + 1} /\ written + 1 \notin 1 .. written
      BY <1>2
    <3> QED BY <1>4, <3>1 DEF Lost
  <2>2. \A i \in Lost : ~ (written + 1 < i)
    BY <1>2 DEF Lost
  <2> QED BY <1>3, <1>4, <2>1, <2>2 DEF OutOfTurn
<1>7. Newest'
  <2>1. \A a \in Kept : a < written + 1
    BY <1>2, <1>5
  <2>2. \A s \in Slots : Precede(LinesOf(s), InFile \cup {written + 1})
    BY <1>5, <2>1 DEF Newest, Precede
  <2>3. \A s \in Slots : Precede(LinesOf(s), InFile)'
    BY <1>1, <1>3, <2>2 DEF Precede
  <2>4. Kept' \subseteq 0 .. written'
    BY <1>2, <1>4, <1>5
  <2>5. \A s \in stuck' : archive'[s] # << >>
    BY DEF Newest
  <2> QED BY <2>3, <2>4, <2>5 DEF Newest
<1> QED BY <1>1, <1>3, <1>6, <1>7

LEMMA WriteSeries ==
  ASSUME IInv, Bounded, Bounded', Newest, InSeries, NEW t \in Threads, Write(t)
  PROVE  InSeries'
<1>1. /\ pc[t] = "entered"
      /\ UNCHANGED <<archive, slotFile, logSlot, isOpen, slot, crashes, fails, stuck>>
  BY DEF Write, At, memory, faults
<1>2. CASE ~ isOpen
  <2>1. /\ pc' = [pc EXCEPT ![t] = "leave"] /\ UNCHANGED <<file, written>> /\ pc[t] \in Quiet
    BY <1>1, <1>2 DEF Write, Goto, Quiet, Due, Replacing, Steps
  <2> QED BY <1>1, <2>1, QuietSeries
<1>3. CASE isOpen
  <2> DEFINE step == IF TooLong(Len(file) + 1) THEN "index" ELSE "leave"
  <2>1. /\ written' = written + 1 /\ file' = Append(file, written + 1)
        /\ pc' = [pc EXCEPT ![t] = step]
    BY <1>3 DEF Write, Goto
  <2>2. PICK E \in SUBSET Lines, m \in 0 .. NumSlots, k \in 0 .. NumSlots : Series(E, m, k)
    BY DEF InSeries
  <2>3. step \in {"index", "leave"} /\ (step = "index" <=> Len(file) + 1 > LogSize)
    BY DEF TooLong
  <2> HIDE DEF step
  <2>4. /\ ~ Rotating({"mark"}) /\ ~ Rotating(Replacing) /\ ~ Rotating(Due)
        /\ ~ Rotating({"again"})' /\ ~ Rotating({"mark"})' /\ ~ Rotating(Replacing)'
        /\ Rotating(Due)' <=> step = "index"
        /\ ~ Rotating({"save", "open"})'
    <3>1. pc[t] \in Inside
      BY <1>1 DEF Inside, Steps
    <3>2. \A S \in SUBSET Inside : (Rotating(S) <=> pc[t] \in S) /\ (Rotating(S)' <=> step \in S)
      BY <2>1, <3>1, StepOfRotation
    <3> QED BY <1>1, <2>3, <3>2, SetsOfSteps DEF Replacing, Due
  <2>5. /\ \A s : LinesOf(s)' = LinesOf(s)
        /\ InFile' = InFile \cup {written + 1} /\ Len(file') = Len(file) + 1
        /\ OutOfTurn' \subseteq OutOfTurn
        /\ Newest'
    BY <1>1, <2>1, LineWritten
  <2>6. Paid(E)'
    <3>1. crashes' + fails' = crashes + fails + 0 /\ OutOfTurn' \subseteq E /\ Paid(E)
      BY <1>1, <2>2, <2>5, LinesTyped DEF Series, Paid
    <3> QED BY <3>1, PaidStays
  <2>7. WithoutTable(E)'
    BY <1>1, <1>3, <2>2, <2>4, <2>5 DEF Series, WithoutTable
  <2>8. Sizes(E)'
    <3>1. /\ InFile' \in SUBSET Lines /\ Cardinality(InFile') <= Len(file')
          /\ InFile \in SUBSET Lines /\ file \in Seq(Lines)
      <4>1. file' \in Seq(Lines) /\ file \in Seq(Lines)
        BY DEF Bounded, Stored
      <4>2. {file'[i] : i \in DOMAIN file'} \in SUBSET Lines /\ Cardinality({file'[i] : i \in DOMAIN file'}) <= Len(file')
        BY <4>1, LinesOfSeq
      <4> QED BY <4>1, <4>2, LinesTyped DEF InFile
    <3>2. /\ Cardinality(InFile' \ E) <= Cardinality(InFile')
          /\ Cardinality(InFile' \ E) \in Nat /\ Cardinality(InFile') \in Nat
      <4>1. InFile' \ E \in SUBSET InFile' /\ InFile' \ E \in SUBSET Lines
        BY <3>1
      <4> QED BY <3>1, <4>1, FewerLines, LinesFinite
    <3>3. Cardinality(InFile' \ E) <= Cardinality(InFile \ E) + 1 /\ Cardinality(InFile \ E) \in Nat
      <4> DEFINE F == InFile \ E
      <4>1. F \in SUBSET Lines /\ F \cup {written + 1} \in SUBSET Lines /\ {written + 1} \ F \in SUBSET Lines
            /\ {written + 1} \in SUBSET Lines
        BY <2>5, <3>1
      <4>2. Cardinality(F \cup {written + 1}) <= Cardinality(F) + Cardinality({written + 1} \ F)
        BY <4>1, MoreLines
      <4>3. Cardinality({written + 1} \ F) <= 1
        <5>1. Cardinality({written + 1}) = 1 /\ {written + 1} \ F \in SUBSET {written + 1}
          BY FS_Singleton
        <5> QED BY <4>1, <5>1, FewerLines
      <4>4. InFile' \ E \in SUBSET (F \cup {written + 1})
        BY <2>5
      <4>5. Cardinality(InFile' \ E) <= Cardinality(F \cup {written + 1})
        BY <4>1, <4>4, FewerLines
      <4>6. Cardinality(F) \in Nat /\ Cardinality(F \cup {written + 1}) \in Nat /\ Cardinality({written + 1} \ F) \in Nat
        BY <4>1, LinesFinite
      <4> HIDE DEF F
      <4>7. Cardinality(InFile' \ E) <= Cardinality(F) + 1
        BY <3>2, <4>2, <4>3, <4>5, <4>6
      <4> QED BY <4>6, <4>7 DEF F
    <3>4. Cardinality(InFile \ E) <= LogSize
      BY <2>2, <2>4 DEF Series, Sizes
    <3>5. \/ Cardinality(InFile' \ E) <= LogSize
          \/ step = "index" /\ Cardinality(InFile' \ E) <= FileLines
      <4>1. LogSize \in Nat /\ FileLines = LogSize + 1 /\ Len(file) \in Nat
        BY <3>1, LinesTyped
      <4>2. CASE step = "index"
        BY <3>2, <3>3, <3>4, <4>1, <4>2
      <4>3. CASE step # "index"
        BY <2>3, <2>5, <3>1, <3>2, <4>1, <4>3
      <4> QED BY <4>2, <4>3
    <3>6. \A s \in Slots : Cardinality(LinesOf(s)' \ E) <= FileLines
      BY <2>2, <2>5 DEF Series, Sizes
    <3> QED BY <2>4, <3>5, <3>6 DEF Sizes, FileLines, Slots
  <2>9. \A i, G : InOrder(i, G)' <=> InOrder(i, G)
    BY <1>1, <2>5 DEF InOrder, Precede, Rank
  <2>10. InMemory(m, E)'
    BY <1>1, <2>2, <2>4, <2>9 DEF Series, InMemory, Marked, TableWhole
  <2>11. InLogSlot(k, E)'
    <3>1. AtRisk' = AtRisk
      BY <1>1, <2>4, <2>5 DEF AtRisk
    <3> QED BY <1>1, <2>2, <2>9, <3>1 DEF Series, InLogSlot, FirstMarked
  <2>12. Series(E, m, k)'
    BY <2>6, <2>7, <2>8, <2>10, <2>11 DEF Series
  <2> QED BY <2>12 DEF InSeries
<1> QED BY <1>2, <1>3

\* What has been written to LOG_SLOT is the table.
LEMMA SaveSeries ==
  ASSUME IInv, Bounded, Shrunk, Healthy, InSeries, NEW t \in Threads, Save(t)
  PROVE  InSeries'
<1>1. PICK E \in SUBSET Lines, m \in 0 .. NumSlots, k \in 0 .. NumSlots : Series(E, m, k)
  BY DEF InSeries
<1>2. PICK step \in {"save", "open"} :
        /\ pc[t] = "save" /\ pc' = [pc EXCEPT ![t] = step]
        /\ UNCHANGED <<file, archive, logSlot, isOpen, slot, stuck, written, crashes, fails>>
  BY DEF Save, At, Goto, memory, history, faults
<1>3. /\ ~ Rotating({"again"}) /\ ~ Rotating({"mark"}) /\ ~ Rotating(Replacing) /\ ~ Rotating(Due)
      /\ ~ Rotating({"again"})' /\ ~ Rotating({"mark"})' /\ ~ Rotating(Replacing)' /\ ~ Rotating(Due)'
  <2>1. pc[t] \in Inside
    BY <1>2 DEF Inside, Steps
  <2>2. \A S \in SUBSET Inside : (Rotating(S) <=> pc[t] \in S) /\ (Rotating(S)' <=> step \in S)
    BY <1>2, <2>1, StepOfRotation
  <2> QED BY <1>2, <2>2, SetsOfSteps DEF Replacing, Due
<1>4. logSlot # NoTable /\ TableWhole
  <2>1. Rotating({"save", "open"})
    BY <1>2 DEF Rotating
  <2> QED BY <1>1, <2>1, TableAt DEF Series, WithoutTable
<1>5. /\ \A s : LinesOf(s)' = LinesOf(s)
      /\ InFile' = InFile /\ OutOfTurn' = OutOfTurn
      /\ \A i, G : InOrder(i, G)' <=> InOrder(i, G)
  BY <1>2, SameArchives
<1>6. Paid(E)'
  <2>1. crashes' + fails' = crashes + fails + 0 /\ OutOfTurn' \subseteq E /\ Paid(E)
    BY <1>1, <1>2, <1>5, LinesTyped DEF Series, Paid
  <2> QED BY <2>1, PaidStays
<1>7. WithoutTable(E)' /\ Sizes(E)'
  BY <1>1, <1>2, <1>3, <1>4, <1>5 DEF Series, WithoutTable, Sizes, FileLines
<1>8. Marked(m) /\ InOrder(m, E)
  BY <1>1, <1>4 DEF Series, InMemory
<1>9. InMemory(m, E)'
  BY <1>2, <1>3, <1>5, <1>8 DEF InMemory, Marked
<1>10. InLogSlot(m, E)'
  <2>1. ASSUME DOMAIN slotFile' = Slots PROVE FirstMarked(slotFile', m)
    <3>1. PICK n \in Nat : slotFile' = [s \in 1 .. n |-> logSlot[s]]
      <4>1. PICK i \in Nat, j \in Nat :
              j < i /\ DOMAIN logSlot = 1 .. i /\ slotFile = [s \in 1 .. j |-> logSlot[s]]
        BY <1>2 DEF IInv, Saving
      <4>2. Cardinality(DOMAIN slotFile) = j
        BY <4>1, FS_Interval
      <4>3. slotFile' = [s \in 1 .. j + 1 |-> logSlot[s]]
        BY <4>2 DEF Save
      <4> QED BY <4>3
    <3>2. \A s \in Slots : slotFile'[s] = logSlot[s]
      BY <2>1, <3>1
    <3> QED BY <1>3, <1>8, <2>1, <3>2 DEF FirstMarked, Marked
  <2>2. InOrder(m, E \cup AtRisk)'
    <3>1. InOrder(m, E)'
      BY <1>5, <1>8
    <3>2. AtRisk' = {} /\ E \cup {} = E
      BY <1>2, <1>3, <1>4 DEF AtRisk
    <3> QED BY <3>1, <3>2 DEF InOrder
  <2> QED BY <2>1, <2>2 DEF InLogSlot
<1>11. Series(E, m, m)'
  BY <1>6, <1>7, <1>9, <1>10 DEF Series
<1> QED BY <1>11 DEF InSeries

\* With the mark the archive counts as the newest; when LOG_SLOT cannot be written, the
\* fault pays for it.
LEMMA MarkSeries ==
  ASSUME IInv, Bounded, Shrunk, Healthy, InSeries, NEW t \in Threads, Mark(t)
  PROVE  InSeries'
<1>1. PICK E \in SUBSET Lines, m \in 0 .. NumSlots, k \in 0 .. NumSlots : Series(E, m, k)
  BY DEF InSeries
<1>2. PICK step \in {"save", "open"} :
        /\ pc[t] = "mark" /\ slot \in DOMAIN logSlot /\ pc' = [pc EXCEPT ![t] = step]
        /\ logSlot' = [logSlot EXCEPT ![slot] = "1"]
        /\ UNCHANGED <<file, archive, isOpen, slot, stuck, written, crashes>>
        /\ \/ slotFile' = NoTable /\ fails' = fails
           \/ slotFile' = slotFile /\ fails' = fails + 1
  BY DEF Mark, At, Goto, Held
<1>3. /\ Rotating({"mark"}) /\ ~ Rotating({"again"}) /\ ~ Rotating(Due)
      /\ ~ Rotating({"again"})' /\ ~ Rotating({"mark"})' /\ ~ Rotating(Replacing)' /\ ~ Rotating(Due)'
  <2>1. pc[t] \in Inside
    BY <1>2 DEF Inside, Steps
  <2>2. \A S \in SUBSET Inside : (Rotating(S) <=> pc[t] \in S) /\ (Rotating(S)' <=> step \in S)
    BY <1>2, <2>1, StepOfRotation
  <2> QED BY <1>2, <2>2, SetsOfSteps DEF Replacing, Due
<1>4. logSlot # NoTable /\ TableWhole /\ TableWhole' /\ logSlot' # NoTable
  <2>1. logSlot # NoTable
    BY <1>2, NoTableIsTable
  <2>2. TableWhole
    BY <2>1, TableAt
  <2>3. DOMAIN logSlot' = Slots /\ 1 \in Slots
    BY <1>2, <2>2, LogAssumption DEF TableWhole, Slots
  <2>4. logSlot' # NoTable
    BY <2>3, NoTableIsTable
  <2> QED BY <2>1, <2>2, <2>3, <2>4 DEF TableWhole, Slots
<1>5. /\ \A s : LinesOf(s)' = LinesOf(s)
      /\ InFile' = InFile /\ OutOfTurn' = OutOfTurn
      /\ \A i, G : InOrder(i, G)' <=> InOrder(i, G)
  BY <1>2, SameArchives
<1>6. Marked(m) /\ InOrder(m, E) /\ slot = m
  BY <1>1, <1>3, <1>4 DEF Series, InMemory, Marked
<1>7. Marked(m)'
  <2>1. \A s \in Slots : logSlot'[s] = IF s = slot THEN "1" ELSE logSlot[s]
    BY <1>2, <1>4 DEF TableWhole
  <2>2. m \in Nat /\ \A s \in Slots : s = m => ~ (s > m)
    BY LogAssumption DEF Slots
  <2>3. \A s \in Slots : logSlot'[s] = "0" <=> s > m
    BY <1>3, <1>6, <2>1, <2>2 DEF Marked
  <2> QED BY <1>3, <2>3 DEF Marked
<1>8. AtRisk' = {} /\ AtRisk = LinesOf(slot)
  BY <1>3, <1>4 DEF AtRisk
<1>9. CASE slotFile' = NoTable /\ fails' = fails
  <2>1. Paid(E)'
    <3>1. crashes' + fails' = crashes + fails + 0 /\ OutOfTurn' \subseteq E /\ Paid(E)
      BY <1>1, <1>2, <1>5, <1>9, LinesTyped DEF Series, Paid
    <3> QED BY <3>1, PaidStays
  <2>2. WithoutTable(E)' /\ Sizes(E)'
    BY <1>1, <1>2, <1>3, <1>4, <1>5 DEF Series, WithoutTable, Sizes, FileLines
  <2>3. InMemory(m, E)'
    BY <1>5, <1>6, <1>7 DEF InMemory
  <2>4. InLogSlot(k, E)'
    <3>1. DOMAIN slotFile' # Slots
      <4>1. 1 \in Slots
        BY LinesTyped
      <4> QED BY <1>9, <4>1, NoTableIsTable
    <3> QED BY <3>1 DEF InLogSlot, Slots
  <2>5. Series(E, m, k)'
    BY <2>1, <2>2, <2>3, <2>4 DEF Series
  <2> QED BY <2>5 DEF InSeries
<1>10. CASE slotFile' = slotFile /\ fails' = fails + 1
  <2>0. PICK A \in SUBSET Lines : A = LinesOf(slot)
    BY LinesTyped
  <2>9. PICK G \in SUBSET Lines : G = E \cup A
    OBVIOUS
  <2>1. E \subseteq G /\ slot \in Slots
    BY <2>9, LinesTyped
  <2>2. Cardinality(A \ E) <= FileLines
    BY <1>1, <2>0, <2>1 DEF Series, Sizes
  <2>3. Paid(G)'
    <3>1. crashes' + fails' = crashes + fails + 1
      BY <1>2, <1>10, LinesTyped DEF Bounded, Stored
    <3>2. OutOfTurn' \subseteq E \cup A /\ Paid(E)
      BY <1>1, <1>5 DEF Series, Paid
    <3>3. Paid(E \cup A)'
      BY <2>2, <3>1, <3>2, PaidFault
    <3> QED BY <2>9, <3>3
  <2>4. Sizes(G)'
    <3>1. /\ Cardinality(InFile \ G) <= LogSize
          /\ \A s \in Slots : Cardinality(LinesOf(s) \ G) <= FileLines
      <4>1. /\ Cardinality(InFile \ E) <= LogSize
            /\ \A s \in Slots : Cardinality(LinesOf(s) \ E) <= FileLines
        BY <1>1, <1>3 DEF Series, Sizes
      <4>2. LogSize \in Nat
        BY LinesTyped
      <4> QED BY <2>1, <4>1, <4>2, SizesStay
    <3> QED BY <1>3, <1>5, <3>1 DEF Sizes, FileLines, Slots
  <2>5. InMemory(m, G)'
    <3>1. InOrder(m, G)'
      BY <1>5, <1>6, <2>1, OrderStays
    <3> QED BY <1>7, <3>1 DEF InMemory
  <2>6. InLogSlot(k, G)'
    <3>1. E \cup AtRisk = G /\ G \cup AtRisk' = G
      BY <1>8, <2>0, <2>9
    <3>2. ASSUME DOMAIN slotFile' = Slots PROVE FirstMarked(slotFile', k) /\ InOrder(k, G)
      BY <1>1, <1>10, <3>1, <3>2 DEF Series, InLogSlot
    <3>3. InOrder(k, G) => InOrder(k, G \cup AtRisk)'
      BY <1>5, <3>1 DEF InOrder
    <3> QED BY <3>2, <3>3 DEF InLogSlot, FirstMarked, Slots
  <2>7. WithoutTable(G)'
    BY <1>4 DEF WithoutTable
  <2>8. Series(G, m, k)'
    BY <2>3, <2>4, <2>5, <2>6, <2>7 DEF Series
  <2> QED BY <2>1, <2>8 DEF InSeries
<1> QED BY <1>2, <1>9, <1>10

\* The archives are in the order of the slots before and behind the first slot.
LEMMA IndexSeries ==
  ASSUME IInv, Bounded, Shrunk, Healthy, InSeries, NEW t \in Threads, GetCurrLogIndex(t)
  PROVE  InSeries'
<1>1. /\ pc[t] = "index" /\ pc' = [pc EXCEPT ![t] = "rename"] /\ isOpen' = FALSE
      /\ slot' = CurrLogIndex
      /\ logSlot' = (IF FreeSlots # {} THEN logSlot ELSE [s \in DOMAIN logSlot |-> "0"])
      /\ UNCHANGED <<file, archive, slotFile, stuck, written, crashes, fails>>
  BY DEF GetCurrLogIndex, At, Goto, disk, history, faults
<1>2. /\ ~ Rotating({"again"}) /\ ~ Rotating({"mark"}) /\ Rotating(Due)
      /\ ~ Rotating({"again"})' /\ ~ Rotating({"mark"})' /\ Rotating(Due)'
      /\ ~ Rotating({"save", "open"})'
  <2>1. pc[t] \in Inside
    BY <1>1 DEF Inside, Steps
  <2>2. \A S \in SUBSET Inside : (Rotating(S) <=> pc[t] \in S) /\ (Rotating(S)' <=> "rename" \in S)
    BY <1>1, <2>1, StepOfRotation
  <2> QED BY <1>1, <2>2, SetsOfSteps DEF Replacing, Due
<1>3. PICK E \in SUBSET Lines, m \in 0 .. NumSlots, k \in 0 .. NumSlots : Series(E, m, k)
  BY DEF InSeries
<1>4. CASE logSlot = NoTable
  <2>1. FreeSlots = {} /\ logSlot' = logSlot
    BY <1>1, <1>4, NoTableIsTable DEF FreeSlots, NoTable
  <2>2. slot' = slot
    BY <1>1, <1>3, <1>4, <2>1 DEF CurrLogIndex, Series, WithoutTable
  <2>3. Series(E, m, k)'
    BY <1>1, <1>2, <1>3, <1>4, <2>1, <2>2, SameSeries
  <2> QED BY <2>3 DEF InSeries
<1>5. CASE logSlot # NoTable
  <2>1. TableWhole
    BY <1>5, TableAt
  <2>2. NumSlots \in Nat \ {0} /\ m \in Nat /\ Slots = 1 .. NumSlots
    BY LogAssumption DEF Slots
  <2>3. /\ \A s \in Slots : logSlot[s] = "0" <=> s > m
        /\ FreeSlots = {s \in Slots : s > m} /\ InOrder(m, E)
    BY <1>2, <1>3, <2>1 DEF Series, InMemory, Marked, FreeSlots, TableWhole
  <2>4. PICK n \in 0 .. NumSlots :
          /\ n < NumSlots /\ slot' = n + 1 /\ DOMAIN logSlot' = Slots
          /\ \A s \in Slots : logSlot'[s] = "0" <=> s > n
          /\ n = m \/ (n = 0 /\ m = NumSlots)
    <3>1. CASE m < NumSlots
      <4>1. m + 1 \in FreeSlots /\ \A r \in FreeSlots : m + 1 <= r
        BY <2>2, <2>3, <3>1
      <4>2. FreeSlots \subseteq Nat
        BY <2>2, <2>3
      <4>3. Lowest(FreeSlots) = m + 1
        <5>1. Lowest(FreeSlots) \in FreeSlots /\ \A r \in FreeSlots : Lowest(FreeSlots) <= r
          BY <4>1 DEF Lowest
        <5>2. /\ Lowest(FreeSlots) <= m + 1 /\ m + 1 <= Lowest(FreeSlots)
              /\ Lowest(FreeSlots) \in Nat
          BY <4>1, <4>2, <5>1
        <5> QED BY <5>2, <2>2
      <4>4. slot' = m + 1 /\ logSlot' = logSlot
        BY <1>1, <4>1, <4>3 DEF CurrLogIndex
      <4> QED BY <2>1, <2>3, <3>1, <4>4 DEF TableWhole
    <3>2. CASE m = NumSlots
      <4>1. FreeSlots = {}
        BY <2>2, <2>3, <3>2
      <4>2. slot' = 1 /\ DOMAIN logSlot' = Slots /\ \A s \in Slots : logSlot'[s] = "0" /\ s > 0
        BY <1>1, <2>1, <2>2, <4>1 DEF CurrLogIndex, TableWhole
      <4>3. 0 \in 0 .. NumSlots /\ 0 < NumSlots /\ 1 = 0 + 1
        BY <2>2
      <4> QED BY <3>2, <4>2, <4>3
    <3> QED BY <3>1, <3>2, <2>2
  <2>5. /\ \A s : LinesOf(s)' = LinesOf(s)
        /\ InFile' = InFile /\ OutOfTurn' = OutOfTurn
        /\ \A i, G : InOrder(i, G)' <=> InOrder(i, G)
    BY <1>1, SameArchives
  <2>6. logSlot' # NoTable
    BY <2>2, <2>4, NoTableIsTable
  <2>7. InMemory(n, E)'
    <3>1. \A s, r \in Slots : Rank(n, s) < Rank(n, r) <=> Rank(m, s) < Rank(m, r)
      BY <2>4, RankFacts
    <3>2. InOrder(n, E)
      BY <2>3, <3>1 DEF InOrder
    <3>3. Marked(n)'
      BY <1>2, <2>4 DEF Marked
    <3> QED BY <2>5, <3>2, <3>3 DEF InMemory
  <2>8. InLogSlot(k, E)'
    <3>1. AtRisk' = {} /\ AtRisk = {}
      BY <1>2, <1>5, <2>6 DEF AtRisk
    <3> QED BY <1>1, <1>3, <2>5, <3>1 DEF Series, InLogSlot, FirstMarked
  <2>9. Paid(E)'
    <3>1. crashes' + fails' = crashes + fails + 0 /\ OutOfTurn' \subseteq E /\ Paid(E)
      BY <1>1, <1>3, <2>5, LinesTyped DEF Series, Paid
    <3> QED BY <3>1, PaidStays
  <2>10. WithoutTable(E)' /\ Sizes(E)'
    BY <1>1, <1>2, <1>3, <2>5, <2>6 DEF Series, WithoutTable, Sizes, FileLines
  <2>11. Series(E, n, k)'
    BY <2>7, <2>8, <2>9, <2>10 DEF Series
  <2> QED BY <2>11 DEF InSeries
<1> QED BY <1>4, <1>5

\* Where a rotation replaces an archive: that of the next slot, which is the oldest, but
\* for those that could not be removed.
LEMMA ReplacingAt ==
  ASSUME IInv, Bounded, Shrunk, Healthy, NEW t \in Threads, pc[t] \in Replacing,
         NEW E \in SUBSET Lines, NEW m \in 0 .. NumSlots, NEW k, Series(E, m, k)
  PROVE  /\ Rotating(Due) /\ Cardinality(InFile \ E) <= FileLines
         /\ logSlot = NoTable => slot = 1 /\ LinesOf(slot) \subseteq E
         /\ logSlot # NoTable =>
              /\ TableWhole /\ m \in 0 .. NumSlots - 1 /\ m + 1 \in 0 .. NumSlots
              /\ slot = m + 1 /\ InOrder(m, E)
              /\ \A s \in Slots : logSlot[s] = "0" <=> s > m
         /\ DOMAIN slotFile = Slots => FirstMarked(slotFile, k) /\ InOrder(k, E)
         /\ \A r \in Slots \ stuck : r # slot => Precede(LinesOf(slot) \ E, LinesOf(r))
         /\ pc[t] = "again" /\ archive[slot] # << >>
              => Cardinality(InFile \ E) <= LogSize /\ slot \in stuck
<1>1. Rotating(Due) /\ Rotating(Replacing) /\ ~ Rotating({"mark"})
      /\ (pc[t] = "again" => Rotating({"again"}))
  <2>1. pc[t] \in Inside
    BY DEF Inside, Steps, Replacing
  <2>2. \A u \in Threads : u # t => pc[u] \notin Inside
    BY <2>1, Alone
  <2> QED BY <2>2 DEF Rotating, Due, Replacing, Inside, Steps
<1>2. Cardinality(InFile \ E) <= FileLines
  <2>1. InFile \ E \in SUBSET Lines /\ LogSize \in Nat /\ FileLines = LogSize + 1
    BY LinesTyped
  <2>2. Cardinality(InFile \ E) \in Nat
    BY <2>1, LinesFinite
  <2> QED BY <2>1, <2>2 DEF Series, Sizes
<1>3. logSlot = NoTable => slot = 1 /\ LinesOf(slot) \subseteq E
  BY <1>1 DEF Series, WithoutTable
<1>4. logSlot # NoTable =>
        /\ TableWhole /\ m \in 0 .. NumSlots - 1 /\ m + 1 \in 0 .. NumSlots
        /\ slot = m + 1 /\ InOrder(m, E)
        /\ \A s \in Slots : logSlot[s] = "0" <=> s > m
  <2>1. logSlot # NoTable => TableWhole
    BY TableAt
  <2>2. logSlot # NoTable => Marked(m) /\ InOrder(m, E)
    BY <2>1 DEF Series, InMemory
  <2>3. NumSlots \in Nat
    BY LogAssumption
  <2> QED BY <1>1, <2>1, <2>2, <2>3 DEF Marked
<1>5. DOMAIN slotFile = Slots => FirstMarked(slotFile, k) /\ InOrder(k, E)
  <2>1. E \cup AtRisk = E
    BY <1>1, <1>3 DEF AtRisk
  <2> QED BY <2>1 DEF Series, InLogSlot
<1>6. ASSUME NEW r \in Slots \ stuck, r # slot PROVE Precede(LinesOf(slot) \ E, LinesOf(r))
  <2>1. CASE logSlot = NoTable
    BY <1>3, <2>1 DEF Precede
  <2>2. CASE logSlot # NoTable
    <3>1. Rank(m, slot) < Rank(m, r) /\ slot \in Slots
      BY <1>4, <1>6, <2>2, RankFacts, LinesTyped
    <3> QED BY <1>4, <1>6, <2>2, <3>1 DEF InOrder
  <2> QED BY <2>1, <2>2
<1>7. pc[t] = "again" /\ archive[slot] # << >>
        => Cardinality(InFile \ E) <= LogSize /\ slot \in stuck
  BY <1>1 DEF Series, Sizes
<1> QED BY <1>1, <1>2, <1>3, <1>4, <1>5, <1>6, <1>7

\* With the next slot marked, its archive is the newest.
LEMMA AdvanceOrder ==
  ASSUME NEW m \in 0 .. NumSlots - 1, NEW s \in Slots, NEW r \in Slots,
         Rank(m + 1, s) < Rank(m + 1, r)
  PROVE  s # m + 1 /\ (r # m + 1 => Rank(m, s) < Rank(m, r))
BY RankFacts

LEMMA ToMark ==
  ASSUME IInv, Bounded, Shrunk, Healthy, NEW t \in Threads, pc[t] \in {"rename", "again"},
         pc' = [pc EXCEPT ![t] = "mark"],
         UNCHANGED <<slotFile, logSlot, slot, isOpen>>,
         NEW E \in SUBSET Lines, NEW m \in 0 .. NumSlots, NEW k \in 0 .. NumSlots, Series(E, m, k),
         NEW G \in SUBSET Lines, Paid(G)',
         logSlot # NoTable => InOrder(m + 1, G)',
         DOMAIN slotFile = Slots => InOrder(k, G \cup LinesOf(slot))',
         Cardinality(InFile' \ G) <= LogSize,
         \A s \in Slots : Cardinality(LinesOf(s)' \ G) <= FileLines
  PROVE  InSeries'
<1>1. /\ ~ Rotating({"again"})' /\ Rotating({"mark"})' /\ ~ Rotating(Replacing)' /\ ~ Rotating(Due)'
      /\ ~ Rotating({"save", "open"})'
  <2>1. pc[t] \in Inside
    BY DEF Inside, Steps
  <2>2. \A S \in SUBSET Inside : (Rotating(S) <=> pc[t] \in S) /\ (Rotating(S)' <=> "mark" \in S)
    BY <2>1, StepOfRotation
  <2> QED BY <2>2, SetsOfSteps DEF Replacing, Due
<1>2. /\ logSlot = NoTable => slot = 1
      /\ logSlot # NoTable =>
           /\ m \in 0 .. NumSlots - 1 /\ m + 1 \in 0 .. NumSlots /\ slot = m + 1
           /\ \A s \in Slots : logSlot[s] = "0" <=> s > m
      /\ DOMAIN slotFile = Slots => FirstMarked(slotFile, k)
  <2>1. pc[t] \in Replacing
    BY DEF Replacing
  <2> QED BY <2>1, ReplacingAt
<1>3. PICK n \in 0 .. NumSlots : logSlot # NoTable => n = m + 1
  BY <1>2
<1>4. InMemory(n, G)'
  <2>1. TableWhole' => logSlot # NoTable
    BY TableNotEmpty DEF TableWhole
  <2>2. ASSUME logSlot # NoTable PROVE Marked(n)'
    <3>1. NumSlots \in Nat /\ m \in Nat /\ n = m + 1 /\ slot = m + 1
      BY <1>2, <1>3, <2>2, LogAssumption
    <3>2. \A s \in Slots : (s > n \/ s = slot) <=> s > m
      BY <3>1 DEF Slots
    <3>3. \A s \in Slots : logSlot'[s] = "0" <=> (s > n \/ s = slot)
      BY <1>2, <2>2, <3>2
    <3> QED BY <1>1, <3>1, <3>3 DEF Marked
  <2> QED BY <1>3, <2>1, <2>2 DEF InMemory
<1>5. InLogSlot(k, G)'
  <2>1. AtRisk' = LinesOf(slot)'
    BY <1>1 DEF AtRisk
  <2> QED BY <1>2, <2>1 DEF InLogSlot, FirstMarked, InOrder
<1>6. WithoutTable(G)'
  <2>1. ~ isOpen
    BY DEF Bounded, ClosedInside, Closed
  <2> QED BY <1>1, <1>2, <2>1 DEF WithoutTable
<1>7. Sizes(G)'
  BY <1>1 DEF Sizes, FileLines, Slots
<1>8. Series(G, n, k)'
  BY <1>4, <1>5, <1>6, <1>7 DEF Series
<1> QED BY <1>8 DEF InSeries

\* The file becomes the newest archive.
LEMMA FileMoved ==
  ASSUME Bounded, Newest, archive[slot] = << >>,
         archive' = [archive EXCEPT ![slot] = file], file' = << >>, UNCHANGED <<slot, stuck, written>>
  PROVE  /\ slot \in Slots \ stuck /\ LinesOf(slot) = {} /\ LinesOf(slot)' = InFile /\ InFile' = {}
         /\ \A s \in Slots : s # slot => LinesOf(s)' = LinesOf(s)
         /\ OutOfTurn' = OutOfTurn /\ Newest'
<1>1. archive \in [Slots -> Seq(Lines)] /\ slot \in Slots \ stuck
  BY DEF Bounded, Stored, Newest
<1>2. /\ LinesOf(slot) = {} /\ LinesOf(slot)' = InFile /\ InFile' = {}
      /\ \A s \in Slots : s # slot => LinesOf(s)' = LinesOf(s)
  BY <1>1 DEF LinesOf, InFile
<1>3. Kept' = Kept /\ (InFile \cup LinesIn(Slots \ stuck))' = InFile \cup LinesIn(Slots \ stuck)
  <2>1. \A S \in SUBSET Slots : LinesIn(S) = UNION {LinesOf(s) : s \in S}
                                /\ LinesIn(S)' = UNION {LinesOf(s)' : s \in S}
    BY DEF LinesIn, LinesOf
  <2>2. ASSUME NEW S \in SUBSET Slots, slot \in S PROVE (InFile \cup LinesIn(S))' = InFile \cup LinesIn(S)
    <3>1. UNION {LinesOf(s)' : s \in S} = InFile \cup UNION {LinesOf(s) : s \in S}
      BY <1>2, <2>2
    <3> QED BY <1>2, <2>1, <3>1
  <2>3. Slots \in SUBSET Slots /\ Slots \ stuck \in SUBSET Slots
    OBVIOUS
  <2> QED BY <1>1, <2>2, <2>3 DEF Kept
<1>4. OutOfTurn' = OutOfTurn
  BY <1>3 DEF OutOfTurn, Lost
<1>5. Newest'
  BY <1>1, <1>2, <1>3 DEF Newest, Precede
<1> QED BY <1>1, <1>2, <1>4, <1>5

LEMMA MovedSeries ==
  ASSUME IInv, Bounded, Newest, Shrunk, Healthy, InSeries, NEW t \in Threads,
         pc[t] \in {"rename", "again"}, archive[slot] = << >>, Moved(t)
  PROVE  InSeries'
<1>1. PICK E \in SUBSET Lines, m \in 0 .. NumSlots, k \in 0 .. NumSlots : Series(E, m, k)
  BY DEF InSeries
<1>2. /\ archive' = [archive EXCEPT ![slot] = file] /\ file' = << >>
      /\ pc' = [pc EXCEPT ![t] = "mark"]
      /\ UNCHANGED <<slotFile, logSlot, slot, isOpen, stuck, written, crashes, fails>>
  BY DEF Moved, Goto, memory, history, faults
<1>3. /\ slot \in Slots \ stuck /\ LinesOf(slot) = {} /\ LinesOf(slot)' = InFile /\ InFile' = {}
      /\ \A s \in Slots : s # slot => LinesOf(s)' = LinesOf(s)
      /\ OutOfTurn' = OutOfTurn /\ Newest'
  BY <1>2, FileMoved
<1>4. /\ Cardinality(InFile \ E) <= FileLines
      /\ logSlot # NoTable =>
           /\ m \in 0 .. NumSlots - 1 /\ slot = m + 1 /\ InOrder(m, E)
      /\ DOMAIN slotFile = Slots => InOrder(k, E)
  <2>1. pc[t] \in Replacing
    BY DEF Replacing
  <2> QED BY <1>1, <2>1, ReplacingAt
<1>5. Paid(E)'
  <2>1. crashes' + fails' = crashes + fails + 0 /\ OutOfTurn' \subseteq E /\ Paid(E)
    BY <1>1, <1>2, <1>3, LinesTyped DEF Series, Paid
  <2> QED BY <2>1, PaidStays
<1>6. \A s \in Slots : Precede(LinesOf(s), InFile)
  BY DEF Newest
<1>7. logSlot # NoTable => InOrder(m + 1, E)'
  <2>1. ASSUME logSlot # NoTable, NEW s \in Slots, NEW r \in Slots, s # r, r \notin stuck,
               s \in stuck \/ Rank(m + 1, s) < Rank(m + 1, r)
        PROVE  Precede(LinesOf(s) \ E, LinesOf(r))'
    <3>1. s # slot
      BY <1>3, <1>4, <2>1, AdvanceOrder
    <3>2. CASE r = slot
      BY <1>2, <1>3, <1>6, <3>1, <3>2 DEF Precede
    <3>3. CASE r # slot
      <4>1. s \in stuck \/ Rank(m, s) < Rank(m, r)
        BY <1>4, <2>1, <3>3, AdvanceOrder
      <4>2. Precede(LinesOf(s) \ E, LinesOf(r))
        BY <1>4, <2>1, <4>1 DEF InOrder
      <4> QED BY <1>3, <3>1, <3>3, <4>2 DEF Precede
    <3> QED BY <3>2, <3>3
  <2> QED BY <1>2, <2>1 DEF InOrder, Rank
<1>8. DOMAIN slotFile = Slots => InOrder(k, E \cup LinesOf(slot))'
  <2>1. ASSUME DOMAIN slotFile = Slots, NEW s \in Slots, NEW r \in Slots, s # r, r \notin stuck,
               s \in stuck \/ Rank(k, s) < Rank(k, r)
        PROVE  Precede(LinesOf(s) \ (E \cup LinesOf(slot)), LinesOf(r))'
    <3>1. CASE s = slot
      BY <1>2, <3>1 DEF Precede
    <3>2. CASE s # slot /\ r = slot
      BY <1>2, <1>3, <1>6, <3>2 DEF Precede
    <3>3. CASE s # slot /\ r # slot
      <4>1. Precede(LinesOf(s) \ E, LinesOf(r))
        BY <1>4, <2>1 DEF InOrder
      <4> QED BY <1>3, <3>3, <4>1 DEF Precede
    <3> QED BY <3>1, <3>2, <3>3
  <2> QED BY <1>2, <2>1 DEF InOrder, Rank
<1>9. /\ Cardinality(InFile' \ E) <= LogSize
      /\ \A s \in Slots : Cardinality(LinesOf(s)' \ E) <= FileLines
  <2>1. Cardinality({}) = 0 /\ {} \ E = {} /\ LogSize \in Nat
    BY FS_EmptySet, LinesTyped
  <2>2. \A s \in Slots : Cardinality(LinesOf(s) \ E) <= FileLines
    BY <1>1 DEF Series, Sizes
  <2>3. ASSUME NEW s \in Slots PROVE LinesOf(s)' = InFile \/ LinesOf(s)' = LinesOf(s)
    BY <1>2, <1>3
  <2>4. Cardinality(InFile' \ E) <= LogSize
    <3>1. InFile' \ E = {}
      BY <1>3
    <3>2. Cardinality(InFile' \ E) = 0
      BY <2>1, <3>1
    <3> QED BY <2>1, <3>2
  <2>5. \A s \in Slots : Cardinality(LinesOf(s)' \ E) <= FileLines
    BY <1>4, <2>2, <2>3
  <2> QED BY <2>4, <2>5
<1> QED BY <1>1, <1>2, <1>5, <1>7, <1>8, <1>9, ToMark

\* The file stays, and the slot is passed over.
LEMMA StaysSeries ==
  ASSUME IInv, Bounded, Shrunk, Healthy, NEW t \in Threads, pc[t] = "again",
         NEW E \in SUBSET Lines, NEW m \in 0 .. NumSlots, NEW k \in 0 .. NumSlots, Series(E, m, k),
         pc' = [pc EXCEPT ![t] = "mark"],
         UNCHANGED <<file, archive, slotFile, logSlot, slot, isOpen, stuck, written>>,
         LinesOf(slot) = {} \/ slot \in stuck,
         NEW G \in SUBSET Lines, E \subseteq G, Paid(G)', Cardinality(InFile \ G) <= LogSize
  PROVE  InSeries'
<1>1. /\ \A s : LinesOf(s)' = LinesOf(s)
      /\ InFile' = InFile
      /\ \A i, H : InOrder(i, H)' <=> InOrder(i, H)
  BY SameArchives
<1>2. /\ logSlot # NoTable =>
           /\ m \in 0 .. NumSlots - 1 /\ slot = m + 1 /\ InOrder(m, E)
      /\ DOMAIN slotFile = Slots => InOrder(k, E)
  <2>1. pc[t] \in Replacing
    BY DEF Replacing
  <2> QED BY <2>1, ReplacingAt
<1>3. ASSUME logSlot # NoTable PROVE InOrder(m + 1, G)
  <2>1. ASSUME NEW s \in Slots, NEW r \in Slots, s # r, r \notin stuck,
               s \in stuck \/ Rank(m + 1, s) < Rank(m + 1, r)
        PROVE  Precede(LinesOf(s) \ G, LinesOf(r))
    <3>1. CASE r = slot
      BY <2>1, <3>1 DEF Precede
    <3>2. CASE r # slot
      <4>1. s \in stuck \/ Rank(m, s) < Rank(m, r)
        BY <1>2, <1>3, <2>1, <3>2, AdvanceOrder
      <4>2. Precede(LinesOf(s) \ E, LinesOf(r))
        BY <1>2, <1>3, <2>1, <4>1 DEF InOrder
      <4> QED BY <4>2 DEF Precede
    <3> QED BY <3>1, <3>2
  <2> QED BY <2>1 DEF InOrder
<1>4. DOMAIN slotFile = Slots => InOrder(k, G \cup LinesOf(slot))'
  <2>1. DOMAIN slotFile = Slots => InOrder(k, G \cup LinesOf(slot))
    BY <1>2, OrderStays
  <2> QED BY <1>1, <2>1 DEF InOrder, Precede, Rank
<1>5. /\ Cardinality(InFile' \ G) <= LogSize
      /\ \A s \in Slots : Cardinality(LinesOf(s)' \ G) <= FileLines
  <2>1. \A s \in Slots : Cardinality(LinesOf(s) \ E) <= FileLines
    BY DEF Series, Sizes
  <2>2. \A s \in Slots : Cardinality(LinesOf(s) \ G) <= FileLines
    BY <2>1, SizesStay
  <2> QED BY <1>1, <2>2
<1>6. logSlot # NoTable => InOrder(m + 1, G)'
  BY <1>1, <1>3
<1> QED BY <1>4, <1>5, <1>6, ToMark

\* The archive that is removed is the oldest one: what is lost with it out of turn has
\* been paid for.
LEMMA ArchiveRemoved ==
  ASSUME Bounded, Newest, archive' = [archive EXCEPT ![slot] = << >>], stuck' = stuck \ {slot},
         UNCHANGED <<file, slot, written>>, NEW E, OutOfTurn \subseteq E,
         \A r \in Slots \ stuck : r # slot => Precede(LinesOf(slot) \ E, LinesOf(r))
  PROVE  /\ slot \in Slots /\ LinesOf(slot)' = {} /\ InFile' = InFile
         /\ \A s \in Slots : s # slot => LinesOf(s)' = LinesOf(s)
         /\ OutOfTurn' \subseteq E /\ Newest'
<1>1. archive \in [Slots -> Seq(Lines)] /\ slot \in Slots
  BY DEF Bounded, Stored
<1>2. /\ LinesOf(slot)' = {} /\ InFile' = InFile
      /\ \A s \in Slots : s # slot => LinesOf(s)' = LinesOf(s)
  BY <1>1 DEF LinesOf, InFile
<1>3. \A S \in SUBSET Slots : LinesIn(S) = UNION {LinesOf(s) : s \in S}
                              /\ LinesIn(S)' = UNION {LinesOf(s)' : s \in S}
  BY DEF LinesIn, LinesOf
<1>4. Kept' \subseteq Kept /\ Kept \subseteq Kept' \cup LinesOf(slot)
  <2>1. Slots \in SUBSET Slots
    OBVIOUS
  <2>2. Kept' = InFile \cup UNION {LinesOf(s)' : s \in Slots}
    BY <1>2, <1>3, <2>1 DEF Kept
  <2>3. Kept = InFile \cup UNION {LinesOf(s) : s \in Slots}
    BY <1>3, <2>1 DEF Kept
  <2> QED BY <1>2, <2>2, <2>3
<1>5. (InFile \cup LinesIn(Slots \ stuck))' \subseteq
        InFile \cup UNION {LinesOf(s) : s \in {r \in Slots \ stuck : r # slot}}
  <2>1. Slots' = Slots /\ (Slots \ stuck)' \in SUBSET Slots
    BY DEF Slots
  <2>2. LinesIn(Slots \ stuck)' = UNION {LinesOf(s)' : s \in Slots \ stuck'}
    BY <2>1 DEF LinesIn, LinesOf
  <2>3. ASSUME NEW s \in Slots \ stuck', LinesOf(s)' # {}
        PROVE  s \in {r \in Slots \ stuck : r # slot} /\ LinesOf(s)' = LinesOf(s)
    BY <1>2, <2>3
  <2>4. UNION {LinesOf(s)' : s \in Slots \ stuck'}
          \subseteq UNION {LinesOf(s) : s \in {r \in Slots \ stuck : r # slot}}
    BY <2>3
  <2>5. (InFile \cup LinesIn(Slots \ stuck))' = InFile' \cup LinesIn(Slots \ stuck)'
    OBVIOUS
  <2> QED BY <1>2, <2>2, <2>4, <2>5
<1>6. OutOfTurn' \subseteq E
  <2>1. ASSUME NEW i \in OutOfTurn' PROVE i \in E
    <3>1. PICK j \in InFile \cup UNION {LinesOf(s) : s \in {r \in Slots \ stuck : r # slot}} : j < i
      BY <1>5 DEF OutOfTurn
    <3>2. i \in Lost \/ i \in LinesOf(slot)
      BY <1>4 DEF OutOfTurn, Lost
    <3>3. CASE i \in Lost
      <4>1. Slots \ stuck \in SUBSET Slots
        OBVIOUS
      <4>2. j \in InFile \cup LinesIn(Slots \ stuck)
        BY <1>3, <3>1, <4>1
      <4> QED BY <3>1, <3>3, <4>2 DEF OutOfTurn
    <3>4. CASE i \in LinesOf(slot) /\ i \notin E
      <4>1. i < j
        <5>1. Precede(LinesOf(slot), InFile)
          BY <1>1 DEF Newest
        <5> QED BY <3>1, <3>4, <5>1 DEF Precede
      <4>2. i \in Nat /\ j \in Nat
        <5>1. InFile \in SUBSET Lines /\ \A s \in Slots : LinesOf(s) \in SUBSET Lines
          BY LinesTyped
        <5> QED BY <1>1, <3>1, <3>4, <5>1 DEF Lines
      <4> QED BY <3>1, <4>1, <4>2
    <3> QED BY <3>2, <3>3, <3>4
  <2> QED BY <2>1
<1>7. Newest'
  <2>1. Kept' \subseteq 0 .. written'
    BY <1>4 DEF Newest
  <2>2. \A s \in Slots : Precede(LinesOf(s), InFile)'
    BY <1>2 DEF Newest, Precede
  <2>3. \A s \in stuck' : archive'[s] # << >>
    <3>1. stuck \subseteq Slots
      BY DEF Bounded, Stored
    <3> QED BY <1>1, <3>1 DEF Newest
  <2> QED BY <2>1, <2>2, <2>3 DEF Newest
<1> QED BY <1>1, <1>2, <1>6, <1>7

\* An archive that cannot be removed is older than all the others, but for those that
\* could not be removed before.
LEMMA OneMoreStuck ==
  ASSUME Bounded, stuck' = stuck \cup {slot}, UNCHANGED <<file, archive, slot, written>>,
         NEW E, \A r \in Slots \ stuck : r # slot => Precede(LinesOf(slot) \ E, LinesOf(r))
  PROVE  /\ \A s : LinesOf(s)' = LinesOf(s)
         /\ InFile' = InFile /\ OutOfTurn' \subseteq OutOfTurn
         /\ \A i : InOrder(i, E) => InOrder(i, E)'
<1>1. \A s : LinesOf(s)' = LinesOf(s)
  BY DEF LinesOf
<1>2. InFile' = InFile /\ Kept' = Kept
  BY DEF InFile, Kept, LinesIn
<1>3. LinesIn(Slots \ stuck)' \subseteq LinesIn(Slots \ stuck)
  BY DEF LinesIn, Slots
<1>4. OutOfTurn' \subseteq OutOfTurn
  BY <1>2, <1>3 DEF OutOfTurn, Lost
<1>5. ASSUME NEW i, InOrder(i, E) PROVE InOrder(i, E)'
  <2>1. ASSUME NEW s \in Slots, NEW r \in Slots, s # r, r \notin stuck', s \in stuck' \/ Rank(i, s) < Rank(i, r)
        PROVE  Precede(LinesOf(s) \ E, LinesOf(r))
    <3>1. r \in Slots \ stuck /\ r # slot
      BY <2>1
    <3>2. CASE s = slot
      BY <3>1, <3>2
    <3>3. CASE s # slot
      BY <1>5, <2>1, <3>1, <3>3 DEF InOrder
    <3> QED BY <3>2, <3>3
  <2> QED BY <1>1, <2>1 DEF InOrder, Precede, Rank
<1> QED BY <1>1, <1>2, <1>4, <1>5

\* A fault pays for the line by which the file is longer than the limit.
LEMMA LinePaid ==
  ASSUME Bounded, NEW E \in SUBSET Lines, Paid(E), Cardinality(InFile \ E) <= FileLines,
         crashes' + fails' = crashes + fails + 1, OutOfTurn' \subseteq E
  PROVE  \E G \in SUBSET Lines :
           E \subseteq G /\ Paid(G)' /\ Cardinality(InFile \ G) <= LogSize
<1>1. /\ InFile \ E \in SUBSET Lines /\ LogSize \in Nat /\ FileLines = LogSize + 1
  BY LinesTyped
<1>2. PICK A \in SUBSET (InFile \ E) :
        Cardinality(A) <= 1 /\ Cardinality((InFile \ E) \ A) <= LogSize
  BY <1>1, OneLine
<1>3. A \in SUBSET Lines /\ A \ E = A /\ E \cup A \in SUBSET Lines /\ InFile \ (E \cup A) = (InFile \ E) \ A
  BY <1>1
<1>4. Cardinality(A \ E) <= FileLines
  <2>1. Cardinality(A) \in Nat /\ Cardinality(A \ E) = Cardinality(A)
    BY <1>3, LinesFinite
  <2> QED BY <1>1, <1>2, <2>1
<1>5. OutOfTurn' \subseteq E \cup A
  OBVIOUS
<1>6. Paid(E \cup A)'
  BY <1>3, <1>4, <1>5, PaidFault
<1>7. E \subseteq E \cup A /\ Cardinality(InFile \ (E \cup A)) <= LogSize
  BY <1>2, <1>3
<1> QED BY <1>3, <1>6, <1>7

LEMMA RemoveSeries ==
  ASSUME IInv, Bounded, Newest, Shrunk, Healthy, InSeries, NEW t \in Threads, Remove(t)
  PROVE  InSeries'
<1>1. PICK E \in SUBSET Lines, m \in 0 .. NumSlots, k \in 0 .. NumSlots : Series(E, m, k)
  BY DEF InSeries
<1>2. /\ pc[t] = "remove" /\ pc' = [pc EXCEPT ![t] = "again"]
      /\ UNCHANGED <<file, slotFile, logSlot, isOpen, slot, written, crashes>>
      /\ \/ /\ archive' = [archive EXCEPT ![slot] = << >>] /\ stuck' = stuck \ {slot}
            /\ fails' = fails
         \/ /\ archive[slot] # << >> /\ archive' = archive /\ stuck' = stuck \cup {slot}
            /\ fails' = fails + 1
  BY DEF Remove, At, Goto, Held, memory
<1>3. /\ Rotating(Due) /\ ~ Rotating({"mark"})
      /\ Rotating({"again"})' /\ ~ Rotating({"mark"})' /\ Rotating(Replacing)' /\ Rotating(Due)'
      /\ ~ Rotating({"save", "open"})'
  <2>1. pc[t] \in Inside
    BY <1>2 DEF Inside, Steps
  <2>2. \A S \in SUBSET Inside : (Rotating(S) <=> pc[t] \in S) /\ (Rotating(S)' <=> "again" \in S)
    BY <1>2, <2>1, StepOfRotation
  <2> QED BY <1>2, <2>2, SetsOfSteps DEF Replacing, Due
<1>4. /\ Cardinality(InFile \ E) <= FileLines
      /\ logSlot = NoTable => slot = 1 /\ LinesOf(slot) \subseteq E
      /\ logSlot # NoTable =>
           /\ TableWhole /\ m \in 0 .. NumSlots - 1
           /\ slot = m + 1 /\ InOrder(m, E)
           /\ \A s \in Slots : logSlot[s] = "0" <=> s > m
      /\ DOMAIN slotFile = Slots => FirstMarked(slotFile, k) /\ InOrder(k, E)
      /\ \A r \in Slots \ stuck : r # slot => Precede(LinesOf(slot) \ E, LinesOf(r))
  <2>1. pc[t] \in Replacing
    BY <1>2 DEF Replacing
  <2> QED BY <1>1, <2>1, ReplacingAt
<1>5. /\ Paid(E) /\ OutOfTurn \subseteq E
      /\ \A s \in Slots : Cardinality(LinesOf(s) \ E) <= FileLines
  BY <1>1 DEF Series, Paid, Sizes
<1>6. TableWhole' => logSlot # NoTable
  BY <1>2, TableNotEmpty DEF TableWhole
<1>7. logSlot # NoTable => Marked(m)'
  <2>1. NumSlots \in Nat
    BY LogAssumption
  <2> QED BY <1>2, <1>3, <1>4, <2>1 DEF Marked
<1>8. CASE archive' = [archive EXCEPT ![slot] = << >>] /\ stuck' = stuck \ {slot} /\ fails' = fails
  <2>1. /\ slot \in Slots /\ LinesOf(slot)' = {} /\ InFile' = InFile
        /\ \A s \in Slots : s # slot => LinesOf(s)' = LinesOf(s)
        /\ OutOfTurn' \subseteq E /\ Newest'
    BY <1>2, <1>4, <1>5, <1>8, ArchiveRemoved
  <2>2. Paid(E)'
    <3>1. crashes' + fails' = crashes + fails + 0
      BY <1>2, <1>8, LinesTyped
    <3> QED BY <1>5, <2>1, <3>1, PaidStays
  <2>3. \A s \in Slots : LinesOf(s)' \subseteq LinesOf(s)
    BY <1>2, <2>1
  <2>4. \A i : InOrder(i, E) => InOrder(i, E)'
    <3>1. ASSUME NEW i, InOrder(i, E), NEW s \in Slots, NEW r \in Slots, s # r, r \notin stuck',
                 s \in stuck' \/ Rank(i, s) < Rank(i, r)
          PROVE  Precede(LinesOf(s) \ E, LinesOf(r))'
      <4>1. CASE s = slot \/ r = slot
        BY <1>2, <2>1, <4>1 DEF Precede
      <4>2. CASE s # slot /\ r # slot
        <5>1. r \notin stuck /\ (s \in stuck' => s \in stuck)
          BY <1>8, <3>1, <4>2
        <5>2. Precede(LinesOf(s) \ E, LinesOf(r))
          BY <3>1, <5>1 DEF InOrder
        <5> QED BY <2>1, <4>2, <5>2 DEF Precede
      <4> QED BY <4>1, <4>2
    <3> QED BY <3>1 DEF InOrder, Rank, Slots
  <2>5. InMemory(m, E)'
    BY <1>4, <1>6, <1>7, <2>4 DEF InMemory
  <2>6. InLogSlot(k, E)'
    <3>1. AtRisk' = {} /\ E \cup {} = E
      BY <1>2, <1>3, <2>1 DEF AtRisk
    <3>2. DOMAIN slotFile = Slots => InOrder(k, E \cup AtRisk)'
      BY <1>4, <2>4, <3>1 DEF InOrder
    <3> QED BY <1>2, <1>4, <3>2 DEF InLogSlot, FirstMarked, Slots
  <2>7. WithoutTable(E)'
    <3>1. logSlot = NoTable => LinesOf(1)' = {}
      BY <1>2, <1>4, <2>1
    <3> QED BY <1>2, <1>3, <1>4, <3>1 DEF WithoutTable
  <2>8. Sizes(E)'
    <3>1. archive'[slot'] = << >>
      <4>1. archive \in [Slots -> Seq(Lines)]
        BY DEF Bounded, Stored
      <4> QED BY <1>2, <1>8, <2>1, <4>1
    <3>2. \A s \in Slots : Cardinality(LinesOf(s)' \ E) <= FileLines
      <4>1. Cardinality({}) = 0 /\ FileLines \in Nat /\ {} \ E = {}
        BY FS_EmptySet, LinesTyped
      <4>2. \A s \in Slots : LinesOf(s)' = LinesOf(s) \/ LinesOf(s)' = {}
        BY <1>2, <2>1
      <4> QED BY <1>5, <4>1, <4>2
    <3> QED BY <1>3, <1>4, <2>1, <3>1, <3>2 DEF Sizes, FileLines, Slots
  <2>9. Series(E, m, k)'
    BY <2>2, <2>5, <2>6, <2>7, <2>8 DEF Series
  <2> QED BY <2>9 DEF InSeries
<1>9. CASE /\ archive[slot] # << >> /\ archive' = archive /\ stuck' = stuck \cup {slot}
           /\ fails' = fails + 1
  <2>1. /\ \A s : LinesOf(s)' = LinesOf(s)
        /\ InFile' = InFile /\ OutOfTurn' \subseteq OutOfTurn
        /\ \A i : InOrder(i, E) => InOrder(i, E)'
    BY <1>2, <1>4, <1>9, OneMoreStuck
  <2>2. PICK G \in SUBSET Lines : E \subseteq G /\ Paid(G)' /\ Cardinality(InFile \ G) <= LogSize
    <3>1. crashes' + fails' = crashes + fails + 1
      BY <1>2, <1>9, LinesTyped DEF Bounded, Stored
    <3>2. OutOfTurn' \subseteq E
      BY <1>5, <2>1
    <3> QED BY <1>4, <1>5, <3>1, <3>2, LinePaid
  <2>3. \A i : InOrder(i, E) => InOrder(i, G)'
    BY <2>1, <2>2 DEF InOrder, Precede
  <2>4. InMemory(m, G)'
    BY <1>4, <1>6, <1>7, <2>3 DEF InMemory
  <2>5. InLogSlot(k, G)'
    <3>1. AtRisk' \subseteq G
      BY <1>2, <1>3, <1>4, <2>1, <2>2 DEF AtRisk
    <3>2. G \cup AtRisk' = G
      BY <3>1
    <3>3. DOMAIN slotFile = Slots => InOrder(k, G \cup AtRisk)'
      BY <1>4, <2>3, <3>2 DEF InOrder
    <3> QED BY <1>2, <1>4, <3>3 DEF InLogSlot, FirstMarked, Slots
  <2>6. WithoutTable(G)'
    BY <1>2, <1>3, <1>4, <2>1, <2>2 DEF WithoutTable
  <2>7. Sizes(G)'
    <3>1. \A s \in Slots : Cardinality(LinesOf(s) \ G) <= FileLines
      BY <1>5, <2>2, SizesStay
    <3> QED BY <1>2, <1>9, <2>1, <2>2, <3>1 DEF Sizes, FileLines, Slots
  <2>8. Series(G, m, k)'
    BY <2>2, <2>4, <2>5, <2>6, <2>7 DEF Series
  <2> QED BY <2>8 DEF InSeries
<1> QED BY <1>2, <1>8, <1>9

LEMMA RenameSeries ==
  ASSUME IInv, Bounded, Newest, Shrunk, Healthy, InSeries, NEW t \in Threads, Rename(t)
  PROVE  InSeries'
<1>1. CASE archive[slot] = << >> /\ Moved(t)
  BY <1>1, MovedSeries DEF Rename, At
<1>2. CASE ~ (archive[slot] = << >> /\ Moved(t))
  <2>1. PICK E \in SUBSET Lines, m \in 0 .. NumSlots, k \in 0 .. NumSlots : Series(E, m, k)
    BY DEF InSeries
  <2>2. /\ pc[t] = "rename" /\ pc' = [pc EXCEPT ![t] = "remove"]
        /\ UNCHANGED <<file, archive, slotFile, logSlot, isOpen, slot, stuck, written, crashes>>
        /\ fails' \in {fails, fails + 1}
    BY <1>2 DEF Rename, At, Goto, Held, disk, memory, history, faults
  <2>3. /\ ~ Rotating({"again"}) /\ ~ Rotating({"mark"}) /\ Rotating(Replacing) /\ Rotating(Due)
        /\ ~ Rotating({"again"})' /\ ~ Rotating({"mark"})' /\ Rotating(Replacing)' /\ Rotating(Due)'
        /\ ~ Rotating({"save", "open"})'
    <3>1. pc[t] \in Inside
      BY <2>2 DEF Inside, Steps
    <3>2. \A S \in SUBSET Inside : (Rotating(S) <=> pc[t] \in S) /\ (Rotating(S)' <=> "remove" \in S)
      BY <2>2, <3>1, StepOfRotation
    <3> QED BY <2>2, <3>2, SetsOfSteps DEF Replacing, Due
  <2>4. Series(E, m, k)'
    BY <2>1, <2>2, <2>3, SameSeries
  <2> QED BY <2>4 DEF InSeries
<1> QED BY <1>1, <1>2

LEMMA RenameAgainSeries ==
  ASSUME IInv, Bounded, Newest, Shrunk, Healthy, InSeries, NEW t \in Threads, RenameAgain(t)
  PROVE  InSeries'
<1>1. CASE archive[slot] = << >> /\ Moved(t)
  BY <1>1, MovedSeries DEF RenameAgain, At
<1>2. CASE ~ (archive[slot] = << >> /\ Moved(t))
  <2>1. PICK E \in SUBSET Lines, m \in 0 .. NumSlots, k \in 0 .. NumSlots : Series(E, m, k)
    BY DEF InSeries
  <2>2. /\ pc[t] = "again" /\ pc' = [pc EXCEPT ![t] = "mark"]
        /\ UNCHANGED <<file, archive, slotFile, logSlot, isOpen, slot, stuck, written, crashes>>
        /\ \/ archive[slot] # << >> /\ fails' = fails
           \/ archive[slot] = << >> /\ fails' = fails + 1
    BY <1>2 DEF RenameAgain, At, Goto, Held, disk, memory, history, faults
  <2>3. /\ Cardinality(InFile \ E) <= FileLines
        /\ archive[slot] # << >> => Cardinality(InFile \ E) <= LogSize /\ slot \in stuck
    <3>1. pc[t] \in Replacing
      BY <2>2 DEF Replacing
    <3> QED BY <2>1, <2>2, <3>1, ReplacingAt
  <2>4. OutOfTurn' = OutOfTurn /\ Paid(E) /\ OutOfTurn \subseteq E
    BY <2>1, <2>2, SameArchives DEF Series, Paid
  <2>5. archive[slot] = << >> => LinesOf(slot) = {}
    BY DEF LinesOf
  <2>6. CASE archive[slot] # << >> /\ fails' = fails
    <3>1. Paid(E)'
      <4>1. crashes' + fails' = crashes + fails + 0 /\ OutOfTurn' \subseteq E
        BY <2>2, <2>4, <2>6, LinesTyped
      <4> QED BY <2>4, <4>1, PaidStays
    <3> QED BY <2>1, <2>2, <2>3, <2>6, <3>1, StaysSeries
  <2>7. CASE archive[slot] = << >> /\ fails' = fails + 1
    <3>1. PICK G \in SUBSET Lines : E \subseteq G /\ Paid(G)' /\ Cardinality(InFile \ G) <= LogSize
      <4>1. crashes' + fails' = crashes + fails + 1
        BY <2>2, <2>7, LinesTyped DEF Bounded, Stored
      <4>2. OutOfTurn' \subseteq E
        BY <2>4
      <4> QED BY <2>3, <2>4, <4>1, <4>2, LinePaid
    <3> QED BY <2>1, <2>2, <2>5, <2>7, <3>1, StaysSeries
  <2> QED BY <2>2, <2>6, <2>7
<1> QED BY <1>1, <1>2

\* A crash pays for the line by which the file is too long, or for the archive that has
\* not been marked in LOG_SLOT.
LEMMA CrashPaid ==
  ASSUME IInv, Bounded, NEW E \in SUBSET Lines, NEW m, NEW k, Series(E, m, k)
  PROVE  \E G \in SUBSET Lines :
           /\ E \subseteq G /\ AtRisk \subseteq G
           /\ Cardinality(G) <= (crashes + fails + 1) * FileLines
           /\ Cardinality(InFile \ G) <= LogSize
<1>1. crashes + fails \in Nat /\ Cardinality(E) <= (crashes + fails) * FileLines
  BY LinesTyped DEF Series, Paid
<1>2. ASSUME NEW A \in SUBSET Lines, Cardinality(A \ E) <= FileLines
      PROVE  Cardinality(E \cup A) <= (crashes + fails + 1) * FileLines
  BY <1>1, <1>2, OneFault
<1>3. InFile \in SUBSET Lines /\ LogSize \in Nat /\ FileLines = LogSize + 1 /\ slot \in Slots
  BY LinesTyped
<1>4. CASE Rotating(Due)
  <2>1. AtRisk \subseteq E
    <3>1. PICK t \in Threads : pc[t] \in Due
      BY <1>4 DEF Rotating
    <3>2. ~ Rotating({"mark"})
      <4>1. pc[t] \in Inside /\ pc[t] # "mark"
        BY <3>1 DEF Inside, Steps, Due, Replacing
      <4>2. \A u \in Threads : u # t => pc[u] \notin Inside
        BY <4>1, Alone
      <4> QED BY <4>1, <4>2 DEF Rotating, Inside, Steps
    <3> QED BY <1>4, <3>2 DEF AtRisk, Series, WithoutTable
  <2>2. Cardinality(InFile \ E) <= LogSize + 1
    <3>1. InFile \ E \in SUBSET Lines
      BY <1>3
    <3>2. Cardinality(InFile \ E) \in Nat
      BY <3>1, LinesFinite
    <3> QED BY <1>3, <3>2 DEF Series, Sizes
  <2>3. PICK A \in SUBSET (InFile \ E) :
          Cardinality(A) <= 1 /\ Cardinality((InFile \ E) \ A) <= LogSize
    <3>1. InFile \ E \in SUBSET Lines
      BY <1>3
    <3> QED BY <1>3, <2>2, <3>1, OneLine
  <2>4. A \in SUBSET Lines /\ A \ E = A /\ E \cup A \in SUBSET Lines /\ InFile \ (E \cup A) = (InFile \ E) \ A
    BY <1>3
  <2>5. Cardinality(A \ E) <= FileLines
    <3>1. Cardinality(A) \in Nat /\ Cardinality(A \ E) = Cardinality(A)
      BY <2>4, LinesFinite
    <3> QED BY <1>3, <2>3, <3>1
  <2>6. Cardinality(E \cup A) <= (crashes + fails + 1) * FileLines
    BY <1>2, <2>4, <2>5
  <2>7. E \subseteq E \cup A /\ AtRisk \subseteq E \cup A /\ Cardinality(InFile \ (E \cup A)) <= LogSize
    BY <2>1, <2>3, <2>4
  <2> QED BY <2>4, <2>6, <2>7
<1>5. CASE ~ Rotating(Due)
  <2>1. PICK A \in SUBSET Lines : A = AtRisk
    BY <1>3, LinesTyped DEF AtRisk
  <2>2. Cardinality(A \ E) <= FileLines
    <3>1. A = {} \/ A = LinesOf(slot)
      BY <2>1 DEF AtRisk
    <3>2. {} \ E = {} /\ Cardinality({}) = 0
      BY FS_EmptySet
    <3>3. Cardinality(LinesOf(slot) \ E) <= FileLines
      BY <1>3 DEF Series, Sizes
    <3> QED BY <1>3, <3>1, <3>2, <3>3
  <2>3. Cardinality(E \cup A) <= (crashes + fails + 1) * FileLines
    BY <1>2, <2>2
  <2>4. Cardinality(InFile \ E) <= LogSize
    BY <1>5 DEF Series, Sizes
  <2>5. E \cup A \in SUBSET Lines /\ E \subseteq E \cup A /\ AtRisk \subseteq E \cup A
    BY <2>1
  <2>6. Cardinality(InFile \ (E \cup A)) <= LogSize
    BY <1>3, <2>4, <2>5, SizesStay
  <2> QED BY <2>3, <2>5, <2>6
<1> QED BY <1>4, <1>5

\* The next process goes on with what LOG_SLOT holds, or without a table.
LEMMA CrashSeries ==
  ASSUME IInv, Bounded, Newest, InSeries, Crash, Healthy'
  PROVE  InSeries'
<1>1. PICK E \in SUBSET Lines, m \in 0 .. NumSlots, k \in 0 .. NumSlots : Series(E, m, k)
  BY DEF InSeries
<1>2. /\ UNCHANGED <<file, archive, slotFile, stuck, written>> /\ crashes' = crashes + 1
      /\ slot' = 1 /\ pc' = [t \in Threads |-> "idle"]
      /\ \/ logSlot' = slotFile /\ fails' = fails
         \/ logSlot' = NoTable /\ fails' = fails + 1
  BY DEF Crash, disk
<1>3. DOMAIN slotFile = Slots /\ slotFile # NoTable
  <2>1. 1 \in Slots
    BY LinesTyped
  <2>2. DOMAIN slotFile = Slots
    BY <1>2, <2>1, NoTableIsTable DEF Healthy, TableWhole, Slots
  <2> QED BY <2>1, <2>2, NoTableIsTable
<1>4. FirstMarked(slotFile, k) /\ InOrder(k, E \cup AtRisk)
  BY <1>1, <1>3 DEF Series, InLogSlot
<1>5. PICK G \in SUBSET Lines :
        /\ E \subseteq G /\ AtRisk \subseteq G
        /\ Cardinality(G) <= (crashes + fails + 1) * FileLines
        /\ Cardinality(InFile \ G) <= LogSize
  BY <1>1, CrashPaid
<1>6. /\ \A s : LinesOf(s)' = LinesOf(s)
      /\ InFile' = InFile /\ OutOfTurn' = OutOfTurn
      /\ \A i, H : InOrder(i, H)' <=> InOrder(i, H)
  BY <1>2, SameArchives
<1>7. InOrder(k, G) /\ OutOfTurn' \subseteq G
  <2>1. E \cup AtRisk \subseteq G
    BY <1>5
  <2> QED BY <1>1, <1>4, <1>6, <2>1, OrderStays DEF Series, Paid
<1>8. \A s \in Slots : Cardinality(LinesOf(s) \ G) <= FileLines
  <2>1. \A s \in Slots : Cardinality(LinesOf(s) \ E) <= FileLines
    BY <1>1 DEF Series, Sizes
  <2> QED BY <1>5, <2>1, SizesStay
<1>9. \A S : "idle" \notin S => ~ Rotating(S)'
  BY <1>2 DEF Rotating
<1>10. /\ ~ Rotating({"mark"})' /\ ~ Rotating({"again"})' /\ ~ Rotating(Replacing)' /\ ~ Rotating(Due)'
       /\ ~ Rotating({"save", "open"})'
  BY <1>9 DEF Replacing, Due
<1>11. crashes \in Nat /\ fails \in Nat
  BY DEF Bounded, Stored
<1>12. CASE logSlot' = slotFile /\ fails' = fails
  <2>1. Paid(G)'
    <3>1. crashes' + fails' = crashes + fails + 1
      BY <1>2, <1>11, <1>12
    <3>2. Cardinality(G) <= (crashes' + fails') * FileLines
      BY <1>5, <3>1
    <3> QED BY <1>7, <3>2 DEF Paid, FileLines
  <2>2. WithoutTable(G)'
    BY <1>3, <1>12 DEF WithoutTable
  <2>3. Sizes(G)'
    BY <1>5, <1>6, <1>8, <1>10 DEF Sizes, FileLines, Slots
  <2>4. InMemory(k, G)'
    BY <1>4, <1>6, <1>7, <1>10, <1>12 DEF InMemory, Marked, FirstMarked
  <2>5. InLogSlot(k, G)'
    <3>1. AtRisk' = {} /\ G \cup {} = G
      BY <1>3, <1>10, <1>12 DEF AtRisk
    <3>2. InOrder(k, G \cup AtRisk)'
      BY <1>6, <1>7, <3>1 DEF InOrder
    <3> QED BY <1>2, <1>4, <3>2 DEF InLogSlot, FirstMarked
  <2>6. Series(G, k, k)'
    BY <2>1, <2>2, <2>3, <2>4, <2>5 DEF Series
  <2> QED BY <2>6 DEF InSeries
<1>13. CASE logSlot' = NoTable /\ fails' = fails + 1
  <2>1. PICK A \in SUBSET Lines : A = LinesOf(1) /\ 1 \in Slots
    BY LinesTyped
  <2>2. PICK H \in SUBSET Lines : H = G \cup A
    OBVIOUS
  <2>3. G \subseteq H /\ A \subseteq H
    BY <2>2
  <2>4. Paid(H)'
    <3>1. Cardinality(A \ G) <= FileLines
      BY <1>8, <2>1
    <3>2. crashes + fails + 1 \in Nat
      BY <1>11
    <3>3. Cardinality(G \cup A) <= (crashes + fails + 1 + 1) * FileLines
      BY <1>5, <3>1, <3>2, OneFault
    <3>4. crashes' + fails' = crashes + fails + 1 + 1
      BY <1>2, <1>11, <1>13
    <3>5. Cardinality(H) <= (crashes' + fails') * FileLines
      BY <2>2, <3>3, <3>4
    <3>6. OutOfTurn' \subseteq H
      BY <1>7, <2>3
    <3> QED BY <3>5, <3>6 DEF Paid, FileLines
  <2>5. WithoutTable(H)'
    BY <1>2, <1>6, <1>10, <2>1, <2>3 DEF WithoutTable
  <2>6. Sizes(H)'
    <3>1. Cardinality(InFile \ H) <= LogSize
      BY <1>5, <2>3, SizesStay, LinesTyped
    <3>2. \A s \in Slots : Cardinality(LinesOf(s) \ H) <= FileLines
      BY <1>8, <2>3, SizesStay
    <3> QED BY <1>6, <1>10, <3>1, <3>2 DEF Sizes, FileLines, Slots
  <2>7. InMemory(m, H)'
    BY <1>13, TableNotEmpty, NoTableIsTable, LinesTyped DEF InMemory, TableWhole, Slots
  <2>8. InLogSlot(k, H)'
    <3>1. AtRisk' = LinesOf(1)
      BY <1>2, <1>6, <1>13 DEF AtRisk
    <3>2. H \cup AtRisk' = H
      BY <2>1, <2>3, <3>1
    <3>3. InOrder(k, H)
      BY <1>7, <2>3, OrderStays
    <3>4. InOrder(k, H \cup AtRisk)'
      BY <1>6, <3>2, <3>3 DEF InOrder
    <3> QED BY <1>2, <1>4, <3>4 DEF InLogSlot, FirstMarked
  <2>9. Series(H, m, k)'
    BY <2>4, <2>5, <2>6, <2>7, <2>8 DEF Series
  <2> QED BY <2>9 DEF InSeries
<1> QED BY <1>2, <1>12, <1>13

LEMMA InitCharged == Init => Charged
<1> SUFFICES ASSUME Init PROVE Charged
  OBVIOUS
<1>1. \A s \in Slots : LinesOf(s) = {}
  BY DEF Init, LinesOf
<1>2. InFile = {}
  BY DEF Init, InFile
<1>3. Kept = {} /\ OutOfTurn = {}
  <2>1. Kept = {}
    BY <1>1, <1>2, KeptIs
  <2>2. 1 .. written = {}
    BY DEF Init
  <2> QED BY <2>1, <2>2 DEF OutOfTurn, Lost
<1>4. Newest
  BY <1>1, <1>2, <1>3 DEF Newest, Precede, Init
<1>5. Shrunk
  BY DEF Shrunk, Init
<1>6. ~ Rotating({"mark"}) /\ ~ Rotating({"again"}) /\ ~ Rotating(Replacing) /\ ~ Rotating(Due)
      /\ ~ Rotating({"save", "open"})
  BY DEF Init, Rotating, Replacing, Due
<1>7. Cardinality({}) = 0 /\ LogSize \in Nat /\ FileLines \in Nat /\ {} \in SUBSET Lines
      /\ NumSlots \in Nat \ {0} /\ 1 \in Slots
  BY FS_EmptySet, LogAssumption DEF FileLines, Slots
<1>8. Paid({})
  <2>1. crashes + fails \in Nat
    BY LogAssumption DEF Init
  <2>2. (crashes + fails) * FileLines \in Nat
    <3> DEFINE n == crashes + fails
    <3>1. n \in Nat
      BY <2>1
    <3> HIDE DEF n
    <3>2. Off(n) \in Nat
      BY <3>1, OffFacts
    <3> QED BY <3>2 DEF Off, n
  <2>3. 0 <= (crashes + fails) * FileLines
    BY <2>2
  <2> QED BY <1>3, <1>7, <2>3 DEF Paid
<1>9. WithoutTable({})
  BY <1>1, <1>6, <1>7 DEF WithoutTable, Init
<1>10. Sizes({})
  <2>1. {} \ {} = {}
    OBVIOUS
  <2>2. Cardinality(InFile \ {}) = 0 /\ \A s \in Slots : Cardinality(LinesOf(s) \ {}) = 0
    BY <1>1, <1>2, <1>7, <2>1
  <2>3. 0 <= LogSize /\ 0 <= FileLines
    BY <1>7
  <2> QED BY <1>6, <2>2, <2>3 DEF Sizes
<1>11. \A i, H : InOrder(i, H)
  BY <1>1 DEF InOrder, Precede
<1>12. ASSUME NEW table, table \in {Fresh, NoTable}, DOMAIN table = Slots PROVE FirstMarked(table, 0)
  <2>1. table = Fresh
    BY <1>7, <1>12, NoTableIsTable
  <2>2. \A s \in Slots : s > 0
    BY <1>7 DEF Slots
  <2> QED BY <2>1, <2>2 DEF FirstMarked, Fresh
<1>13. slotFile \in {Fresh, NoTable} /\ logSlot \in {Fresh, NoTable}
  BY DEF Init
<1>14. InMemory(0, {})
  BY <1>6, <1>11, <1>12, <1>13 DEF InMemory, Marked, FirstMarked, TableWhole
<1>15. InLogSlot(0, {})
  BY <1>11, <1>12, <1>13 DEF InLogSlot
<1>16. Series({}, 0, 0)
  BY <1>8, <1>9, <1>10, <1>14, <1>15 DEF Series
<1>17. 0 \in 0 .. NumSlots
  BY <1>7
<1> QED BY <1>4, <1>5, <1>7, <1>16, <1>17 DEF Charged, InSeries

LEMMA NewestNext ==
  ASSUME IInv, Bounded, Newest, [Next]_vars
  PROVE  Newest'
<1>1. CASE UNCHANGED <<file, archive, stuck, written>>
  BY <1>1, SameArchives
<1>2. ASSUME NEW t \in Threads, Write(t) PROVE Newest'
  <2>1. CASE isOpen
    BY <1>2, <2>1, LineWritten DEF Write, faults
  <2>2. CASE ~ isOpen
    BY <1>1, <1>2, <2>2 DEF Write, faults
  <2> QED BY <2>1, <2>2
<1>3. ASSUME NEW t \in Threads, archive[slot] = << >>, Moved(t) PROVE Newest'
  BY <1>3, FileMoved DEF Moved, memory, history, faults
<1>4. ASSUME NEW t \in Threads, Rename(t) \/ RenameAgain(t) PROVE Newest'
  <2>1. (archive[slot] = << >> /\ Moved(t)) \/ UNCHANGED <<file, archive, stuck, written>>
    BY <1>4 DEF Rename, RenameAgain, Held, disk, history, faults
  <2> QED BY <1>1, <1>3, <2>1
<1>5. ASSUME NEW t \in Threads, Remove(t) PROVE Newest'
  <2>1. CASE archive' = [archive EXCEPT ![slot] = << >>] /\ stuck' = stuck \ {slot}
    <3>1. UNCHANGED <<file, slot, written>>
      BY <1>5 DEF Remove, Held, memory
    <3> DEFINE D == OutOfTurn \cup LinesOf(slot)
    <3>2. OutOfTurn \subseteq D /\ \A r \in Slots \ stuck : r # slot => Precede(LinesOf(slot) \ D, LinesOf(r))
      BY DEF Precede
    <3> HIDE DEF D
    <3> QED BY <2>1, <3>1, <3>2, ArchiveRemoved
  <2>2. CASE archive[slot] # << >> /\ archive' = archive /\ stuck' = stuck \cup {slot}
    <3>1. UNCHANGED <<file, written>>
      BY <1>5 DEF Remove, Held, memory
    <3>2. Kept' = Kept /\ InFile' = InFile /\ \A s : LinesOf(s)' = LinesOf(s)
      BY <2>2, <3>1 DEF Kept, InFile, LinesIn, LinesOf
    <3> QED BY <2>2, <3>1, <3>2 DEF Newest, Precede
  <2> QED BY <1>5, <2>1, <2>2 DEF Remove, Held
<1>6. ASSUME NEW t \in Threads, \/ Stamp(t) \/ Enter(t) \/ Leave(t) \/ Open(t) \/ Throw(t)
                                \/ Save(t) \/ Mark(t) \/ GetCurrLogIndex(t)
      PROVE  UNCHANGED <<file, archive, stuck, written>>
  BY <1>6 DEF Stamp, Enter, Leave, Open, Throw, Save, Mark, GetCurrLogIndex, Held,
              disk, memory, history, faults
<1>7. Crash \/ UNCHANGED vars => UNCHANGED <<file, archive, stuck, written>>
  BY DEF Crash, vars, disk, history, faults
<1> QED BY <1>1, <1>2, <1>4, <1>5, <1>6, <1>7 DEF Next, Step, Rotate

LEMMA NextCharged ==
  ASSUME IInv, Bounded, Bounded', Charged, [Next]_vars
  PROVE  Charged'
<1>1. Newest' /\ Shrunk' /\ (Healthy' => Healthy) /\ Newest /\ Shrunk
  BY TablesNext, NewestNext DEF Charged
<1>2. ASSUME Healthy' PROVE InSeries'
  <2>1. Healthy /\ InSeries
    BY <1>1, <1>2 DEF Charged
  <2>2. ASSUME NEW t \in Threads, Stamp(t) \/ Enter(t) \/ Leave(t) \/ Open(t) PROVE InSeries'
    BY <2>1, <2>2, StampSeries
  <2>3. ASSUME NEW t \in Threads, Throw(t) PROVE InSeries'
    BY <2>1, <2>3, ThrowSeries
  <2>4. ASSUME NEW t \in Threads, Save(t) PROVE InSeries'
    BY <1>1, <2>1, <2>4, SaveSeries
  <2>5. ASSUME NEW t \in Threads, Mark(t) PROVE InSeries'
    BY <1>1, <2>1, <2>5, MarkSeries
  <2>6. ASSUME NEW t \in Threads, GetCurrLogIndex(t) PROVE InSeries'
    BY <1>1, <2>1, <2>6, IndexSeries
  <2>7. ASSUME NEW t \in Threads, Write(t) PROVE InSeries'
    BY <1>1, <2>1, <2>7, WriteSeries
  <2>8. ASSUME NEW t \in Threads, Rename(t) PROVE InSeries'
    BY <1>1, <2>1, <2>8, RenameSeries
  <2>9. ASSUME NEW t \in Threads, Remove(t) PROVE InSeries'
    BY <1>1, <2>1, <2>9, RemoveSeries
  <2>10. ASSUME NEW t \in Threads, RenameAgain(t) PROVE InSeries'
    BY <1>1, <2>1, <2>10, RenameAgainSeries
  <2>11. CASE Crash
    BY <1>1, <1>2, <2>1, <2>11, CrashSeries
  <2>12. CASE UNCHANGED vars
    <3>1. UNCHANGED <<file, archive, slotFile, logSlot, isOpen, slot, stuck, written, crashes, fails, pc>>
      BY <2>12 DEF vars, disk, memory, history, faults
    <3>2. PICK E \in SUBSET Lines, m \in 0 .. NumSlots, k \in 0 .. NumSlots : Series(E, m, k)
      BY <2>1 DEF InSeries
    <3>3. \A S : Rotating(S)' <=> Rotating(S)
      BY <3>1 DEF Rotating
    <3>4. logSlot = NoTable => ~ Rotating({"save", "open"})'
      BY <3>2, <3>3 DEF Series, WithoutTable
    <3>5. Series(E, m, k)'
      BY <3>1, <3>2, <3>3, <3>4, SameSeries
    <3> QED BY <3>5 DEF InSeries
  <2> QED BY <2>2, <2>3, <2>4, <2>5, <2>6, <2>7, <2>8, <2>9, <2>10, <2>11, <2>12 DEF Next, Step, Rotate
<1> QED BY <1>1, <1>2 DEF Charged

LEMMA ChargedAlways == Spec => []Charged
<1>1. Spec => []Bounded
  BY BoundedAlways
<1>2. IInv /\ Bounded /\ Bounded' /\ Charged /\ [Next]_vars => Charged'
  BY NextCharged
<1> QED BY <1>1, <1>2, InitCharged, Invariant, PTL DEF Spec

LEMMA PaidInTurn ==
  ASSUME Bounded, Charged
  PROVE  OneFilePerFault
<1> SUFFICES ASSUME TableWhole
             PROVE  Cardinality(OutOfTurn) <= (crashes + fails) * FileLines
  BY DEF OneFilePerFault
<1>1. PICK E \in SUBSET Lines, m \in 0 .. NumSlots, k \in 0 .. NumSlots : Series(E, m, k)
  BY DEF Charged, Healthy, InSeries
<1>2. OutOfTurn \in SUBSET E /\ Cardinality(E) <= (crashes + fails) * FileLines
  BY <1>1 DEF Series, Paid
<1>3. Cardinality(OutOfTurn) <= Cardinality(E) /\ Cardinality(OutOfTurn) \in Nat /\ Cardinality(E) \in Nat
  BY <1>2, FewerLines, LinesFinite
<1>4. (crashes + fails) * FileLines \in Nat
  <2> DEFINE n == crashes + fails
  <2>1. n \in Nat
    BY LinesTyped
  <2> HIDE DEF n
  <2>2. Off(n) \in Nat
    BY <2>1, OffFacts
  <2> QED BY <2>2 DEF Off, n
<1> DEFINE q == (crashes + fails) * FileLines
<1>5. Cardinality(E) <= q /\ q \in Nat
  BY <1>2, <1>4
<1> HIDE DEF q
<1>6. Cardinality(OutOfTurn) <= q
  BY <1>3, <1>5
<1> QED BY <1>6 DEF q

----------------------------------------------------------------------------
(* The theorems *)

\* LOG_SLOT is the table in memory whenever no rotation is under way, whatever
\* crashed or failed before, but for a LOG_SLOT that was not read at the start or could
\* not be opened by the last rotation (Log.cpp:127-136, 162-165).
THEOREM TableSaved == Spec => []SlotsSaved
<1>1. IInv => SlotsSaved
  BY DEF IInv, Saved, OnDisk, SlotsSaved
<1> QED BY <1>1, Invariant, PTL

\* No line and no call is counted twice, the section is entered as often as it is
\* called, the file is rotated in time, but for crashes and uses of files that fail,
\* and LOG_SLOT is saved (Log.cpp:88-150).
THEOREM WellFormedAlways == Spec => []WellFormed
<1>1. ASSUME IInv, Bounded PROVE TypeOK
  <2>1. csLock.count \in 0 .. MaxLines
    BY <1>1, WaitingWrite, LogAssumption DEF Bounded, Counts, Lines, IInv, Typed
  <2>2. written \in Lines
    BY <1>1, WaitingWrite, LogAssumption DEF Bounded, Counts, Lines
  <2>3. csLock \in [owner : {{}} \cup {{t} : t \in Threads}, count : 0 .. MaxLines]
    BY <1>1, <2>1 DEF Bounded, Stored, IInv, Typed
  <2>4. \A t \in Threads : pc[t] \notin {"idle", "stamped"} => csLock.owner = {t}
    BY <1>1 DEF IInv, Typed, Exclusive, Inside
  <2> QED BY <1>1, <2>2, <2>3, <2>4 DEF TypeOK, Bounded, Stored, Counts, IInv, Typed
<1>2. ASSUME IInv, Bounded PROVE FileBounded
  BY <1>2, LogAssumption DEF FileBounded, FileLines, Bounded, Room
<1>3. IInv => SlotsSaved
  BY DEF IInv, Saved, OnDisk, SlotsSaved
<1>4. IInv /\ Bounded => WellFormed
  BY <1>1, <1>2, <1>3 DEF WellFormed
<1> QED BY <1>4, Invariant, BoundedAlways, PTL

\* A thread leaves the critical section behind it, and a line goes to a closed stream,
\* only in a process that read no entry of LOG_SLOT, or, the second, could not open its
\* log again: with any part of the table at() finds its slot, over all turns, crashes
\* and uses of a file that fail (Log.cpp:78, 122-132, 155, 162-165).
THEOREM OnlyUnreadAbandons == Spec => []AbandonedOnlyUnread
<1>1. ASSUME IInv, Abandoned PROVE logSlot = NoTable
  <2> SUFFICES ASSUME logSlot # NoTable PROVE FALSE
    OBVIOUS
  <2>1. PICK t \in Threads : csLock.owner = {t} /\ pc[t] \in {"idle", "stamped"}
    BY <1>1 DEF Abandoned
  <2>2. csLock # Nobody
    BY <2>1 DEF Nobody
  <2>3. PICK u \in Threads : csLock.owner = {u} /\ pc[u] \in Inside
    BY <1>1, <2>2 DEF IInv, HeldFromInside
  <2> QED BY <2>1, <2>3 DEF Inside
<1>2. ASSUME IInv, ~ isOpen, NEW t \in Threads, pc[t] \in {"entered", "leave"}
      PROVE  logSlot = NoTable \/ "unopened" \in flaws
  BY <1>2 DEF IInv, OpenOutside, Inside, Closed, Steps
<1>3. ASSUME IInv PROVE AbandonedOnlyUnread
  BY <1>1, <1>2, <1>3 DEF AbandonedOnlyUnread, IInv, EmptyUnread
<1> QED BY <1>3, Invariant, PTL

\* A process that has its table and is not disturbed loses the oldest lines only, and of
\* those no more than the archives have no room for, over any number of turns of the
\* slots (Log.cpp:115-125, 146-150).
THEOREM NewestAreKept == Spec => []NewestKept
<1>1. ASSUME Bounded, Undisturbed, crashes = 0, fails = 0, TableWhole
      PROVE  /\ OutOfTurn = {}
             /\ Cardinality(Lost) <= IF written > NumSlots * FileLines
                                     THEN written - NumSlots * FileLines ELSE 0
  <2>1. PICK b \in Nat, m \in 0 .. NumSlots : Turn(b, m)
    BY <1>1 DEF Undisturbed, InTurn
  <2>2. PICK lo \in Nat : /\ Kept = lo + 1 .. written
                          /\ lo = 0 \/ lo + Off(NumSlots) <= written
    BY <1>1, <2>1, KeptInTurn
  <2>3. written \in Nat /\ lo <= written /\ Off(NumSlots) \in Nat
    <3>1. Off(NumSlots) \in Nat
      BY OffFacts
    <3>2. written \in Nat
      BY <1>1 DEF Bounded, Counts
    <3> QED BY <2>2, <3>1, <3>2
  <2>4. Lost = 1 .. lo
    BY <2>2, <2>3 DEF Lost
  <2>5. OutOfTurn = {}
    <3>1. \A i \in Lost : \A k \in Kept : ~ (k < i)
      BY <2>2, <2>3, <2>4
    <3> QED BY <3>1 DEF OutOfTurn, Kept, LinesIn
  <2>6. Cardinality(Lost) = lo
    BY <2>4, FS_Interval
  <2>7. lo <= IF written > Off(NumSlots) THEN written - Off(NumSlots) ELSE 0
    BY <2>2, <2>3
  <2> QED BY <2>5, <2>6, <2>7 DEF Off
<1>2. Bounded /\ Undisturbed => NewestKept
  BY <1>1 DEF NewestKept
<1> QED BY <1>2, BoundedAlways, UndisturbedAlways, PTL

\* While the table is whole, each crash, in the middle of a rotation too, and each use of
\* a file that fails pays for all that is lost out of turn up to one file: the archives
\* follow each other in the order of the slots, but for those that could not be removed,
\* which are older, and for the lines that have been paid for (Log.cpp:115-136, 146-150).
THEOREM ArchivesAreKept == Spec => []ArchivesKept
<1>1. Bounded /\ Charged => OneFilePerFault
  BY PaidInTurn
<1>2. NewestKept /\ OneFilePerFault => ArchivesKept
  BY DEF ArchivesKept
<1> QED BY <1>1, <1>2, BoundedAlways, ChargedAlways, NewestAreKept, PTL

=============================================================================
