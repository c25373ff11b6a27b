----------------------------- MODULE SemMatrix ------------------------------
(***************************************************************************)
(* The matrix exercise of C/semafore/main.c: the parent reads count rows   *)
(* into shared memory, forks a child for each and lets the child add the   *)
(* vector to its row.  One System V semaphore guards the memory; no result *)
(* of semop is looked at.  A number is abstracted to how often the vector  *)
(* was added to it.  The memory is asked for as one int, whatever count    *)
(* is; the kernel gives a page.                                            *)
(***************************************************************************)
EXTENDS Integers, FiniteSets

CONSTANTS MaxCount,  \* bound: the user enters no more rows
          PageInts   \* ints in the page (1024 in most builds)

ASSUME CountAssumption == MaxCount \in Nat \ {0} /\ PageInts \in Nat

Rows == 0 .. MaxCount - 1

Parent == MaxCount

Procs == Rows \cup {Parent}

Cells == 0 .. PageInts - 1

VARIABLES
  count,   \* rows the user has asked for
  status,  \* "running", or "undefined" after an access outside the page
  sem,     \* value of the semaphore
  removed, \* whether the semaphore has been removed
  array,   \* the shared memory: additions made to each number, -1 before it is read
  pc,      \* the statement each process is at
  row,     \* the parent's loop counter
  temp,    \* temp[r]: the value child r has loaded and not yet stored
  printed  \* printed[r]: the result child r has printed

vars == <<count, status, sem, removed, array, pc, row, temp, printed>>

\* A variant with a bug, not used below: rows and columns overlap.
YAtOverlapping(r) == count - r

\* A variant with a bug, not used below: the columns begin one cell too late.
YAtBehind(r) == count * 2 + 1 - r

\* Where the coordinates of row r are in the shared array: array[r], array[count*2-r].
XAt(r) == r
YAt(r) == count * 2 - r

NoResult == [x |-> -1, y |-> -1]

TypeOK ==
  /\ count \in 1 .. MaxCount /\ status \in {"running", "undefined"}
  /\ sem \in Nat /\ removed \in BOOLEAN
  /\ array \in [Cells -> Int]
  /\ pc \in [Procs -> {"none", "lock", "fill", "release", "fork", "wait", "rmid", "loadx", "storex",
                       "loady", "storey", "print", "done"}]
  /\ row \in 0 .. count
  /\ temp \in [Rows -> Int]
  /\ printed \in [Rows -> [x : Int, y : Int]]

\* After semctl(SETVAL, 1) and shmat.
Init ==
  /\ count \in 1 .. MaxCount /\ status = "running"
  /\ sem = 1 /\ removed = FALSE
  /\ array = [i \in Cells |-> -1]
  /\ pc = [p \in Procs |-> IF p = Parent THEN "lock" ELSE "none"]
  /\ row = 0
  /\ temp = [r \in Rows |-> 0]
  /\ printed = [r \in Rows |-> NoResult]

Goto(p, label) == pc' = [pc EXCEPT ![p] = label]

-----------------------------------------------------------------------------
(* semop and semctl.                                                       *)

\* A variant with a bug, not used below: semop with IPC_NOWAIT, its result ignored.
DownNoWait(p, next) ==
  /\ pc[p] = "lock"
  /\ sem' = IF removed \/ sem = 0 THEN sem ELSE sem - 1
  /\ Goto(p, next)
  /\ UNCHANGED <<count, status, removed, array, row, temp, printed>>

\* lock_res: blocks at zero, and fails at once when the semaphore is removed,
\* before the call or during it.
Down(p, next) ==
  /\ pc[p] = "lock" /\ (sem > 0 \/ removed)
  /\ sem' = IF removed THEN sem ELSE sem - 1
  /\ Goto(p, next)
  /\ UNCHANGED <<count, status, removed, array, row, temp, printed>>

\* A variant with a bug, not used below: the release is never reached.
UpForgotten(p, next) ==
  /\ pc[p] = "release" /\ Goto(p, next)
  /\ UNCHANGED <<count, status, sem, removed, array, row, temp, printed>>

\* rel_res
Up(p, next) ==
  /\ pc[p] = "release"
  /\ sem' = IF removed THEN sem ELSE sem + 1
  /\ Goto(p, next)
  /\ UNCHANGED <<count, status, removed, array, row, temp, printed>>

-----------------------------------------------------------------------------
(* The parent.                                                             *)

\* Both cells of row 0 are filled at once, the last cell among them.
Fill ==
  /\ pc[Parent] = "fill"
  /\ \/ /\ row < count /\ {XAt(row), YAt(row)} \subseteq Cells
        /\ array' = [array EXCEPT ![XAt(row)] = 0, ![YAt(row)] = 0] /\ row' = row + 1
        /\ UNCHANGED <<status, pc>>
     \/ /\ row < count /\ ~({XAt(row), YAt(row)} \subseteq Cells)
        /\ status' = "undefined" /\ UNCHANGED <<array, row, pc>>
     \/ /\ row = count /\ row' = 0 /\ Goto(Parent, "release") /\ UNCHANGED <<status, array>>
  /\ UNCHANGED <<count, sem, removed, temp, printed>>

\* A variant with a bug, not used below: one turn too many.
ForkOneMore ==
  /\ pc[Parent] = "fork"
  /\ IF row <= count
     THEN pc' = [pc EXCEPT ![row] = "lock"] /\ row' = row + 1
     ELSE Goto(Parent, "wait") /\ UNCHANGED row
  /\ UNCHANGED <<count, status, sem, removed, array, temp, printed>>

Fork ==
  /\ pc[Parent] = "fork"
  /\ IF row < count
     THEN pc' = [pc EXCEPT ![row] = "lock"] /\ row' = row + 1
     ELSE Goto(Parent, "wait") /\ UNCHANGED row
  /\ UNCHANGED <<count, status, sem, removed, array, temp, printed>>

\* wait(NULL) returns as soon as one child has ended.
Wait ==
  /\ pc[Parent] = "wait" /\ \E r \in Rows : pc[r] = "done"
  /\ Goto(Parent, "rmid")
  /\ UNCHANGED <<count, status, sem, removed, array, row, temp, printed>>

\* The memory lives on until the last child has detached from it; the semaphore
\* is gone for everybody.
Remove ==
  /\ pc[Parent] = "rmid"
  /\ removed' = TRUE /\ Goto(Parent, "done")
  /\ UNCHANGED <<count, status, sem, array, row, temp, printed>>

-----------------------------------------------------------------------------
(* Child r: array[j] = array[j] + vx; array[count*2-j] = ... + vy; printf. *)

Outside == status' = "undefined" /\ UNCHANGED <<array, temp, pc>>

Load(r, at, label, next) ==
  /\ pc[r] = label
  /\ IF at \in Cells
     THEN temp' = [temp EXCEPT ![r] = array[at]] /\ Goto(r, next) /\ UNCHANGED <<status, array>>
     ELSE Outside
  /\ UNCHANGED <<count, sem, removed, row, printed>>

Store(r, at, label, next) ==
  /\ pc[r] = label
  /\ IF at \in Cells
     THEN array' = [array EXCEPT ![at] = temp[r] + 1] /\ Goto(r, next) /\ UNCHANGED <<status, temp>>
     ELSE Outside
  /\ UNCHANGED <<count, sem, removed, row, printed>>

\* From the cells it has just stored to.
PrintResult(r) ==
  /\ pc[r] = "print"
  /\ printed' = [printed EXCEPT ![r] = [x |-> array[XAt(r)], y |-> array[YAt(r)]]]
  /\ Goto(r, "release") /\ UNCHANGED <<count, status, sem, removed, array, row, temp>>

Child(r) ==
  \/ Down(r, "loadx") \/ Up(r, "done")
  \/ Load(r, XAt(r), "loadx", "storex") \/ Store(r, XAt(r), "storex", "loady")
  \/ Load(r, YAt(r), "loady", "storey") \/ Store(r, YAt(r), "storey", "print")
  \/ PrintResult(r)

ParentStep == Down(Parent, "fill") \/ Fill \/ Up(Parent, "fork") \/ Fork \/ Wait \/ Remove

Next == status = "running" /\ (ParentStep \/ \E r \in Rows : Child(r))

Spec == Init /\ [][Next]_vars

\* Each process is scheduled.  Nobody takes the semaphore twice, so this is
\* enough for every waiter to get it in the end.
FairSpec ==
  /\ Spec /\ WF_vars(status = "running" /\ ParentStep)
  /\ \A r \in Rows : WF_vars(status = "running" /\ Child(r))

-----------------------------------------------------------------------------
\* p is between lock_res and rel_res.
Inside(p) == pc[p] \in {"fill", "release", "loadx", "storex", "loady", "storey", "print"}

\* As long as the semaphore exists its value and the process inside exclude each
\* other, and there is no second one (main.c:47-54, 60-70).
Exclusive ==
  ~removed =>
    /\ sem \in {0, 1}
    /\ \A p \in Procs : Inside(p) => sem = 0 /\ \A q \in Procs : Inside(q) => p = q

\* Every child prints its row with the vector added once to each coordinate, also
\* when the semaphore was taken away while it waited: no two rows share a cell of
\* the array (main.c:51, 65-68, 80-81).
ResultsRight == \A r \in Rows : printed[r] \in {NoResult, [x |-> 1, y |-> 1]}

\* The segment is asked for as one int.  What is stored outside the page it gets is stored
\* by the parent, before it has forked a child, and only where 2 * count + 1 ints do not fit:
\* 511 rows work with pages of 1024 ints, 512 do not (main.c:29, 49-52, 65-66).
PageHoldsRows ==
  status = "undefined" => count * 2 >= PageInts /\ \A r \in Rows : pc[r] = "none"

\* The early removal keeps nobody waiting: as long as the last cell is in the page, every
\* row is processed and every child ends (main.c:59-81).
EveryChildEnds ==
  count \in {n \in 1 .. MaxCount : n * 2 \in Cells} ~> \A r \in Rows : r < count => pc[r] = "done"
=============================================================================
