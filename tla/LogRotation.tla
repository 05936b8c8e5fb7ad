---------------------------- MODULE LogRotation -----------------------------
(***************************************************************************)
(* The runtime log (Log.cpp): threads write lines to a file under a        *)
(* critical section, a file that has grown too long is renamed to the      *)
(* archive of the next slot, and the table of slots is kept in memory and  *)
(* in the file LOG_SLOT.  The process may end between any two of these     *)
(* steps, LOG_SLOT may be missing, and any use of a file may fail because  *)
(* another process holds it; but for the open at the start of a process,   *)
(* where logInit throws (Log.cpp:45-46), no failure is looked at.          *)
(*                                                                         *)
(* A line is its number in the order of the writes, and a file the         *)
(* sequence of its lines.                                                  *)
(***************************************************************************)
EXTENDS Naturals, Sequences, FiniteSets

CONSTANTS
  Threads,
  NumSlots,  \* entries of the table, ten as shipped (SystemDB/LOG_SLOT)
  LogSize,   \* lines of a file that is not too long yet
  MaxLines, MaxCrashes, MaxFails  \* bounds of the history

ASSUME LogAssumption ==
  /\ NumSlots \in Nat \ {0} /\ LogSize \in Nat \ {0}
  /\ MaxLines \in Nat /\ MaxCrashes \in Nat /\ MaxFails \in Nat

Slots == 1 .. NumSlots
\* A table has lost the entries behind some point when the process ended while it
\* was written.
Tables == UNION {[1 .. k -> {"0", "1"}] : k \in 0 .. NumSlots}
NoTable == [s \in {} |-> "0"]
Fresh == [s \in Slots |-> "0"]

Steps == {"idle", "stamped", "entered", "index", "rename", "remove", "again",
          "mark", "save", "open", "leave"}

\* What a process may go on without: the entries of LOG_SLOT, the log file, the
\* table saved.
Flaws == {"unread", "unopened", "unsaved"}

VARIABLES
  file,      \* the log file
  archive,   \* the archives; << >> is none
  slotFile,  \* LOG_SLOT
  logSlot,   \* the table in memory
  isOpen,    \* whether logStream is open
  csLock,    \* who is in the critical section, and how often
  pc,        \* where each thread is in writeToLog
  slot,      \* the slot of the rotation
  called, written,  \* history: calls of writeToLog, lines that reached the file
  crashes, fails,   \* history: ends of the process, uses of a file that failed
  flaws,            \* history: what has failed in this process
  stuck             \* history: archives that were to be removed and are still there

disk    == <<file, archive, slotFile>>
memory  == <<logSlot, isOpen, csLock, slot>>
faults  == <<crashes, fails, flaws, stuck>>
history == <<called, written, faults>>
vars == <<disk, memory, pc, history>>

Nobody == [owner |-> {}, count |-> 0]

\* initLogSlot: a LOG_SLOT that is missing or cannot be opened leaves the table empty.
FlawsAtStart(table) == IF table = NoTable THEN {"unread"} ELSE {}

Init ==
  /\ file = << >> /\ archive = [s \in Slots |-> << >>]
  /\ slotFile \in {Fresh, NoTable}
  /\ \/ logSlot = slotFile /\ fails = 0
     \/ logSlot = NoTable /\ fails \in {1} \cap (0 .. MaxFails)
  /\ isOpen = TRUE /\ csLock = Nobody /\ slot = 1
  /\ pc = [t \in Threads |-> "idle"]
  /\ called = 0 /\ written = 0 /\ crashes = 0
  /\ flaws = FlawsAtStart(logSlot) /\ stuck = {}

At(t, step) == pc[t] = step
Goto(t, step) == pc' = [pc EXCEPT ![t] = step]

----------------------------------------------------------------------------
(* writeToLog *)

\* The time is taken in front of the critical section.
Stamp(t) ==
  /\ At(t, "idle") /\ called < MaxLines
  /\ called' = called + 1
  /\ Goto(t, "stamped")
  /\ UNCHANGED <<disk, memory, written, faults>>

\* The critical section lets its owner in again.
Enter(t) ==
  /\ At(t, "stamped") /\ csLock.owner \subseteq {t}
  /\ csLock' = [owner |-> {t}, count |-> csLock.count + 1]
  /\ Goto(t, "entered")
  /\ UNCHANGED <<disk, logSlot, isOpen, slot, history>>

TooLong(n) == n > LogSize

\* Each line is flushed.  What is written to a closed stream is lost, and its
\* position is -1.
Write(t) ==
  /\ At(t, "entered")
  /\ IF isOpen THEN /\ written' = written + 1
                    /\ file' = Append(file, written + 1)
                    /\ Goto(t, IF TooLong(Len(file) + 1) THEN "index" ELSE "leave")
     ELSE /\ Goto(t, "leave")
          /\ UNCHANGED <<file, written>>
  /\ UNCHANGED <<archive, slotFile, memory, called, faults>>

Leave(t) ==
  /\ At(t, "leave")
  /\ csLock' = IF csLock.count = 1 THEN Nobody ELSE [csLock EXCEPT !.count = @ - 1]
  /\ Goto(t, "idle")
  /\ UNCHANGED <<disk, logSlot, isOpen, slot, history>>

----------------------------------------------------------------------------
(* openNewLogFile *)

FreeSlots == {s \in DOMAIN logSlot : logSlot[s] = "0"}
Lowest(S) == CHOOSE s \in S : \A r \in S : s <= r
Highest(S) == CHOOSE s \in S : \A r \in S : r <= s

\* getCurrLogIndex: the first slot that is not used; when all are, none is.
CurrLogIndexLast ==  \* variant: the last free slot
  IF FreeSlots # {} THEN Highest(FreeSlots) ELSE 1
CurrLogIndex == IF FreeSlots # {} THEN Lowest(FreeSlots) ELSE 1

GetCurrLogIndexClears(t) ==  \* variant: a table that is used up is cleared
  /\ At(t, "index")
  /\ isOpen' = FALSE
  /\ slot' = CurrLogIndex
  /\ logSlot' = IF FreeSlots # {} THEN logSlot ELSE NoTable
  /\ Goto(t, "rename")
  /\ UNCHANGED <<disk, csLock, history>>
GetCurrLogIndex(t) ==
  /\ At(t, "index")
  /\ isOpen' = FALSE
  /\ slot' = CurrLogIndex
  /\ logSlot' = IF FreeSlots # {} THEN logSlot ELSE [s \in DOMAIN logSlot |-> "0"]
  /\ Goto(t, "rename")
  /\ UNCHANGED <<disk, csLock, history>>

Moved(t) ==
  /\ archive' = [archive EXCEPT ![slot] = file]
  /\ file' = << >>
  /\ Goto(t, "mark")
  /\ UNCHANGED <<slotFile, memory, history>>

\* A use of a file fails.
Held ==
  /\ fails < MaxFails /\ fails' = fails + 1
  /\ UNCHANGED <<called, written, crashes>>

RenameWaits(t) ==  \* variant: waits for the archive to be taken away
  At(t, "rename") /\ archive[slot] = << >> /\ Moved(t)
\* A rename over an archive that exists fails.
Rename(t) ==
  /\ At(t, "rename")
  /\ \/ archive[slot] = << >> /\ Moved(t)
     \/ /\ archive[slot] # << >> /\ Goto(t, "remove")
        /\ UNCHANGED <<disk, memory, history>>
     \/ /\ archive[slot] = << >> /\ Held /\ Goto(t, "remove")
        /\ UNCHANGED <<disk, memory, flaws, stuck>>

\* Neither remove nor the second rename is looked at: an archive that cannot be
\* removed makes the rename fail again.
Remove(t) ==
  /\ At(t, "remove") /\ Goto(t, "again")
  /\ \/ /\ archive' = [archive EXCEPT ![slot] = << >>]
        /\ stuck' = stuck \ {slot}
        /\ UNCHANGED <<called, written, crashes, fails>>
     \/ /\ archive[slot] # << >> /\ Held
        /\ stuck' = stuck \cup {slot}
        /\ UNCHANGED archive
  /\ UNCHANGED <<file, slotFile, memory, flaws>>

RenameAgain(t) ==
  /\ At(t, "again")
  /\ \/ archive[slot] = << >> /\ Moved(t)
     \/ /\ archive[slot] # << >> /\ Goto(t, "mark")
        /\ UNCHANGED <<disk, memory, history>>
     \/ /\ archive[slot] = << >> /\ Held /\ Goto(t, "mark")
        /\ UNCHANGED <<disk, memory, flaws, stuck>>

\* setCurrLogIndex: an empty table has no entry to set, and at() throws; the
\* exception leaves writeToLog, the critical section is not left.
Throw(t) ==
  /\ At(t, "mark") /\ slot \notin DOMAIN logSlot
  /\ Goto(t, "idle")
  /\ UNCHANGED <<disk, memory, history>>

MarkInMemory(t) ==  \* variant: the table is not saved
  /\ At(t, "mark") /\ slot \in DOMAIN logSlot
  /\ logSlot' = [logSlot EXCEPT ![slot] = "1"]
  /\ Goto(t, "open")
  /\ UNCHANGED <<disk, isOpen, csLock, slot, history>>
\* The entry is set and LOG_SLOT truncated, or it cannot be opened to be written ...
Mark(t) ==
  /\ At(t, "mark") /\ slot \in DOMAIN logSlot
  /\ logSlot' = [logSlot EXCEPT ![slot] = "1"]
  /\ \/ /\ slotFile' = NoTable /\ Goto(t, "save")
        /\ flaws' = flaws \ {"unsaved"}
        /\ UNCHANGED <<called, written, crashes, fails>>
     \/ /\ Held /\ Goto(t, "open")
        /\ flaws' = flaws \cup {"unsaved"}
        /\ UNCHANGED slotFile
  /\ UNCHANGED <<file, archive, isOpen, csLock, slot, stuck>>

\* ... and written, entry by entry, each of them flushed.
Save(t) ==
  LET next == Cardinality(DOMAIN slotFile) + 1
  IN  /\ At(t, "save")
      /\ slotFile' = [s \in 1 .. next |-> logSlot[s]]
      /\ Goto(t, IF next = Cardinality(DOMAIN logSlot) THEN "open" ELSE "save")
      /\ UNCHANGED <<file, archive, memory, history>>

\* The log file, a new one or the old one, is opened to be appended to; writeToLog
\* does not look at whether it is open.
Open(t) ==
  /\ At(t, "open") /\ Goto(t, "leave")
  /\ \/ isOpen' = TRUE /\ UNCHANGED history
     \/ /\ Held /\ flaws' = flaws \cup {"unopened"}
        /\ UNCHANGED <<isOpen, stuck>>
  /\ UNCHANGED <<disk, logSlot, csLock, slot>>

Rotate(t) ==
  \/ GetCurrLogIndex(t) \/ Rename(t) \/ Remove(t) \/ RenameAgain(t)
  \/ Throw(t) \/ Mark(t) \/ Save(t) \/ Open(t)

----------------------------------------------------------------------------

\* The process ends, and logInit of the next one reads LOG_SLOT and opens the file.
Crash ==
  /\ crashes < MaxCrashes
  /\ crashes' = crashes + 1
  /\ \/ logSlot' = slotFile /\ fails' = fails
     \/ logSlot' = NoTable /\ fails < MaxFails /\ fails' = fails + 1
  /\ flaws' = FlawsAtStart(logSlot')
  /\ isOpen' = TRUE /\ csLock' = Nobody /\ slot' = 1
  /\ pc' = [t \in Threads |-> "idle"]
  /\ UNCHANGED <<disk, called, written, stuck>>

Step(t) == Enter(t) \/ Write(t) \/ Rotate(t) \/ Leave(t)

Next == (\E t \in Threads : Stamp(t) \/ Step(t)) \/ Crash

\* A thread that is in writeToLog goes on, when it is let in.
Spec == Init /\ [][Next]_vars /\ \A t \in Threads : WF_vars(Step(t))

----------------------------------------------------------------------------
(* Properties *)

Lines == 0 .. MaxLines

\* The types of the variables; the owner of the critical section is the only
\* thread behind EnterCriticalSection.
TypeOK ==
  /\ file \in Seq(Lines) /\ archive \in [Slots -> Seq(Lines)]
  /\ slotFile \in Tables /\ logSlot \in Tables
  /\ isOpen \in BOOLEAN /\ slot \in Slots
  /\ csLock \in [owner : {{}} \cup {{t} : t \in Threads}, count : 0 .. MaxLines]
  /\ pc \in [Threads -> Steps]
  /\ called \in Lines /\ written \in Lines
  /\ crashes \in 0 .. MaxCrashes /\ fails \in 0 .. MaxFails
  /\ flaws \in SUBSET Flaws /\ stuck \in SUBSET Slots
  /\ \A t \in Threads : pc[t] \notin {"idle", "stamped"} => csLock.owner = {t}

LinesIn(S) == UNION {{archive[s][i] : i \in DOMAIN archive[s]} : s \in S}
InFile == {file[i] : i \in DOMAIN file}
Kept == InFile \cup LinesIn(Slots)
Lost == (1 .. written) \ Kept

\* Lines that are gone although older ones, of those that could be removed, are kept.
OutOfTurn == {i \in Lost : \E k \in InFile \cup LinesIn(Slots \ stuck) : k < i}

FileLines == LogSize + 1

TableWhole == DOMAIN logSlot = Slots

\* A process that has its table and is not disturbed keeps the newest lines, and at
\* least as many as fill all the archives: the oldest archive is the one that is
\* overwritten, over any number of turns of the slots (Log.cpp:115-125, 146-150).
NewestKept ==
  crashes = 0 /\ fails = 0 /\ TableWhole =>
    /\ OutOfTurn = {}
    /\ Cardinality(Lost) <= IF written > NumSlots * FileLines
                            THEN written - NumSlots * FileLines ELSE 0

\* While the table is whole, a crash, in the middle of a rotation too, and a use of a
\* file that fails cost no more than one archive that was not the oldest one: not
\* counted are the archives that outlast their turn because they could not be
\* removed, while all the others are overwritten (Log.cpp:146-150).
OneFilePerFault ==
  TableWhole => Cardinality(OutOfTurn) <= (crashes + fails) * FileLines

\* What is kept of the log, without and with faults.
ArchivesKept == NewestKept /\ OneFilePerFault

\* The file is rotated in time: it is longer than the limit by one line for the
\* write, and by one for each time the rotation did not take place.
FileBounded == Len(file) <= FileLines + crashes + fails

\* Outside of a rotation LOG_SLOT is the table in memory, so that the next process
\* goes on where this one ends, but for a LOG_SLOT that could not be read, and one
\* that could not be opened in the last rotation (Log.cpp:127-136).
SlotsSaved ==
  csLock = Nobody \/ (\E t \in Threads : pc[t] \in {"entered", "leave"})
    => slotFile = logSlot \/ flaws \cap {"unread", "unsaved"} # {}

\* The types of the variables, a file of the right size and a table that is saved.
WellFormed == TypeOK /\ FileBounded /\ SlotsSaved

\* The critical section is abandoned, its owner has left the function.
Abandoned == \E t \in Threads : csLock.owner = {t} /\ pc[t] \in {"idle", "stamped"}

\* The critical section is abandoned only in a process that read no entry of LOG_SLOT
\* at its start: the file was missing, could not be opened, or a process had ended
\* between truncating it and writing the first entry.  A table that is used up, or of
\* which only some entries are left, never throws.  And lines go to a closed stream
\* only in such a process or behind an open that failed (Log.cpp:78, 122-132, 155,
\* 162-165).
AbandonedOnlyUnread ==
  /\ Abandoned => "unread" \in flaws
  /\ ~ isOpen /\ (\E t \in Threads : pc[t] \in {"entered", "leave"}) =>
       flaws \cap {"unread", "unopened"} # {}

\* A line that waits for the critical section gets through, rotations included,
\* unless it has been abandoned.
WriteEnds == \A t \in Threads : (pc[t] = "stamped") ~> (pc[t] = "idle" \/ Abandoned)
=============================================================================
