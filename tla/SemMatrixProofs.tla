-------------------------- MODULE SemMatrixProofs ---------------------------
(***************************************************************************)
(* Proofs about SemMatrix for every number of rows and every size of page. *)
(* Mutual exclusion is close to inductive by itself; that the results are  *)
(* right does not rest on it, but on every row having two cells of the     *)
(* array for itself, and a page that is too small stops the parent before  *)
(* there is a child.                                                       *)
(***************************************************************************)
EXTENDS SemMatrix, TLAPS

ParentPhase == {"lock", "fill", "release", "fork", "wait", "rmid", "done"}
ChildPhase == {"none", "lock", "loadx", "storex", "loady", "storey", "print", "release", "done"}

\* Who can be where: no child before the fork of its row, no removal before the
\* last fork.
PhaseInv ==
  /\ pc[Parent] \in ParentPhase
  /\ \A r \in Rows : pc[r] \in ChildPhase
  /\ pc[Parent] \in {"lock", "release"} => row = 0
  /\ pc[Parent] \in {"lock", "fill", "release"} => \A r \in Rows : pc[r] = "none"
  /\ pc[Parent] = "fork" => \A r \in Rows : r >= row => pc[r] = "none"
  /\ \A r \in Rows : r >= count => pc[r] = "none"
  /\ removed => pc[Parent] = "done"

\* The last cell, array[count*2], is in the page.
Fits == count * 2 < PageInts

\* It belongs to the first row: the parent comes no further without it.
FitInv == ~Fits => pc[Parent] \in {"lock", "fill"} /\ row = 0

\* The cells of row r hold what its child has stored so far.
RowInv(r) ==
  LET filled == /\ r < count
                /\ \/ pc[Parent] \notin {"lock", "fill"}
                   \/ pc[Parent] = "fill" /\ r < row
  IN  /\ filled => /\ array[XAt(r)] = IF pc[r] \in {"none", "lock", "loadx", "storex"} THEN 0 ELSE 1
                   /\ array[YAt(r)] = IF pc[r] \in {"print", "release", "done"} THEN 1 ELSE 0
      /\ pc[r] \in {"storex", "storey"} => temp[r] = 0
      /\ printed[r] \in {NoResult, [x |-> 1, y |-> 1]}

SemInv == TypeOK /\ PhaseInv /\ Exclusive /\ FitInv /\ PageHoldsRows /\ \A r \in Rows : RowInv(r)

-----------------------------------------------------------------------------
\* No two rows share a cell, and where the last one is in the page all of them are
\* (main.c:51, 65-66).
LEMMA CellsApart ==
  ASSUME count \in 1 .. MaxCount
  PROVE  /\ \A r \in Rows : r < count /\ Fits => XAt(r) \in Cells /\ YAt(r) \in Cells
         /\ \A r, s \in Rows : r < count /\ s < count =>
              /\ XAt(r) # YAt(s)
              /\ r # s => XAt(r) # XAt(s) /\ YAt(r) # YAt(s)
         /\ ~Fits => ~({XAt(0), YAt(0)} \subseteq Cells)
  BY CountAssumption, SMT DEF Rows, Cells, XAt, YAt, Fits

\* The parent is not a row.
LEMMA ParentApart == /\ Parent \notin Rows /\ Parent \in Procs /\ \A r \in Rows : r \in Procs
                     /\ Rows \subseteq Int /\ \A r \in Rows : 0 <= r /\ r < MaxCount
  BY CountAssumption, SMT DEF Rows, Parent, Procs

\* A child has its cells in the page.
LEMMA ChildHasCells ==
  ASSUME SemInv
  PROVE  \A r \in Rows : pc[r] # "none" => /\ r < count /\ Fits
                                           /\ XAt(r) \in Cells /\ YAt(r) \in Cells
  <1> USE ParentApart DEF TypeOK, SemInv, PhaseInv, FitInv
  <1>1. \A r \in Rows : pc[r] # "none" => r < count /\ Fits BY SMT
  <1>2. \A r \in Rows : r < count /\ Fits => XAt(r) \in Cells /\ YAt(r) \in Cells BY CellsApart
  <1> QED BY <1>1, <1>2

\* The invariant holds before the first semop.
LEMMA SemInit == Init => SemInv
  <1> SUFFICES ASSUME Init PROVE SemInv OBVIOUS
  <1> USE CountAssumption, ParentApart DEF Init
  <1>1. TypeOK
    <2>1. sem \in Nat /\ row \in 0 .. count /\ count \in 1 .. MaxCount /\ status \in {"running", "undefined"} BY SMT
    <2>2. removed \in BOOLEAN BY Zenon
    <2>3. array \in [Cells -> Int] BY SMT
    <2>4. temp \in [Rows -> Int] BY SMT
    <2>5. printed \in [Rows -> [x : Int, y : Int]] BY SMT DEF NoResult
    <2>6. pc \in [Procs -> {"lock", "none"}] BY SMT
    <2> QED BY <2>1, <2>2, <2>3, <2>4, <2>5, <2>6 DEF TypeOK
  <1>2. PhaseInv BY SMT DEF PhaseInv, ParentPhase, ChildPhase
  <1>3. Exclusive BY SMT DEF Exclusive, Inside
  <1>4. ASSUME NEW r \in Rows PROVE RowInv(r)
    BY SMT DEF RowInv
  <1>5. FitInv /\ PageHoldsRows BY SMT DEF FitInv, PageHoldsRows
  <1> QED BY <1>1, <1>2, <1>3, <1>4, <1>5 DEF SemInv

\* Every step keeps the types.
LEMMA TypeStep == ASSUME SemInv, [Next]_vars PROVE TypeOK'
  <1> USE CountAssumption, ParentApart DEF TypeOK, SemInv, PhaseInv, Goto
  <1>1. ASSUME NEW p \in Procs, NEW next \in {"fill", "loadx"}, Down(p, next) PROVE TypeOK'
    BY <1>1, SMT DEF Down
  <1>2. ASSUME NEW p \in Procs, NEW next \in {"fork", "done"}, Up(p, next) PROVE TypeOK'
    BY <1>2, SMT DEF Up
  <1>3. CASE Fill BY <1>3, SMT DEF Fill
  <1>4. CASE Fork
    <2>1. row < count => row \in Procs BY SMT DEF Rows
    <2> QED BY <1>4, <2>1, SMT DEF Fork
  <1>5. CASE Wait BY <1>5, SMT DEF Wait
  <1>6. CASE Remove BY <1>6, SMT DEF Remove
  <1>7. ASSUME NEW r \in Rows, NEW at, NEW from, NEW next \in {"storex", "storey"},
               Load(r, at, from, next)
        PROVE TypeOK'
    BY <1>7, SMT DEF Load, Outside
  <1>8. ASSUME NEW r \in Rows, NEW at, NEW from, NEW next \in {"loady", "print"},
               Store(r, at, from, next)
        PROVE TypeOK'
    BY <1>8, SMT DEF Store, Outside
  <1>9. ASSUME NEW r \in Rows, PrintResult(r) PROVE TypeOK'
    <2>1. pc[r] # "none" BY <1>9, SMT DEF PrintResult
    <2>2. array[XAt(r)] \in Int /\ array[YAt(r)] \in Int BY <2>1, ChildHasCells
    <2> QED BY <1>9, <2>2, SMT DEF PrintResult
  <1>10. CASE UNCHANGED vars BY <1>10, SMT DEF vars
  <1> QED BY <1>1, <1>2, <1>3, <1>4, <1>5, <1>6, <1>7, <1>8, <1>9, <1>10
             DEF Next, ParentStep, Child

\* No process gets ahead of the parent's loop.
LEMMA PhaseStep == ASSUME SemInv, [Next]_vars PROVE PhaseInv'
  <1> USE CountAssumption, ParentApart DEF TypeOK, SemInv, PhaseInv, ParentPhase, ChildPhase, Goto
  <1>1. CASE Down(Parent, "fill") BY <1>1, SMT DEF Down
  <1>2. CASE Fill BY <1>2, SMT DEF Fill
  <1>3. CASE Up(Parent, "fork") BY <1>3, SMT DEF Up
  <1>4. CASE Fork
    <2>1. row < count => row \in Rows BY SMT DEF Rows
    <2> QED BY <1>4, <2>1, SMT DEF Fork
  <1>5. CASE Wait BY <1>5, SMT DEF Wait
  <1>6. CASE Remove BY <1>6, SMT DEF Remove
  <1>7. ASSUME NEW r \in Rows, Down(r, "loadx") \/ Up(r, "done") PROVE PhaseInv'
    BY <1>7, SMT DEF Down, Up
  <1>8. ASSUME NEW r \in Rows, \/ Load(r, XAt(r), "loadx", "storex")
                               \/ Load(r, YAt(r), "loady", "storey")
        PROVE PhaseInv'
    BY <1>8, SMT DEF Load, Outside
  <1>9. ASSUME NEW r \in Rows, \/ Store(r, XAt(r), "storex", "loady")
                               \/ Store(r, YAt(r), "storey", "print")
        PROVE PhaseInv'
    BY <1>9, SMT DEF Store, Outside
  <1>10. ASSUME NEW r \in Rows, PrintResult(r) PROVE PhaseInv'
    BY <1>10, SMT DEF PrintResult
  <1>11. CASE UNCHANGED vars BY <1>11, SMT DEF vars
  <1> QED BY <1>1, <1>2, <1>3, <1>4, <1>5, <1>6, <1>7, <1>8, <1>9, <1>10, <1>11
             DEF Next, ParentStep, Child

\* The semaphore changes hands only between lock_res and rel_res.
LEMMA ExclusiveStep == ASSUME SemInv, [Next]_vars PROVE Exclusive'
  <1> USE CountAssumption, ParentApart DEF TypeOK, SemInv, PhaseInv, ParentPhase, ChildPhase,
                                           Goto, Exclusive, Inside
  <1>1. ASSUME NEW p \in Procs, NEW next \in {"fill", "loadx"}, Down(p, next) PROVE Exclusive'
    BY <1>1, SMT DEF Down
  <1>2. ASSUME NEW p \in Procs, NEW next \in {"fork", "done"}, Up(p, next) PROVE Exclusive'
    BY <1>2, SMT DEF Up
  <1>3. CASE Fill BY <1>3, SMT DEF Fill
  <1>4. CASE Fork
    <2>1. row < count => row \in Rows /\ pc[row] = "none" BY <1>4, SMT DEF Rows, Fork
    <2> QED BY <1>4, <2>1, SMT DEF Fork
  <1>5. CASE Wait BY <1>5, SMT DEF Wait
  <1>6. CASE Remove BY <1>6, SMT DEF Remove
  <1>7. ASSUME NEW r \in Rows, \/ Load(r, XAt(r), "loadx", "storex")
                               \/ Load(r, YAt(r), "loady", "storey")
        PROVE Exclusive'
    BY <1>7, SMT DEF Load, Outside
  <1>8. ASSUME NEW r \in Rows, \/ Store(r, XAt(r), "storex", "loady")
                               \/ Store(r, YAt(r), "storey", "print")
        PROVE Exclusive'
    BY <1>8, SMT DEF Store, Outside
  <1>9. ASSUME NEW r \in Rows, PrintResult(r) PROVE Exclusive'
    BY <1>9, SMT DEF PrintResult
  <1>10. CASE UNCHANGED vars BY <1>10, SMT DEF vars
  <1> QED BY <1>1, <1>2, <1>3, <1>4, <1>5, <1>6, <1>7, <1>8, <1>9, <1>10
             DEF Next, ParentStep, Child

\* A step of one process leaves the cells of every other row alone.
LEMMA RowStep == ASSUME SemInv, [Next]_vars, NEW s \in Rows PROVE RowInv(s)'
  <1> USE CountAssumption, ParentApart DEF TypeOK, SemInv, PhaseInv, ParentPhase, ChildPhase,
                                           Goto, RowInv
  <1>0. XAt(s)' = XAt(s) /\ YAt(s)' = YAt(s)
    <2>1. count' = count
      BY DEF Next, ParentStep, Child, Down, Up, Fill, Fork, Wait, Remove, Load, Store, PrintResult, vars
    <2> QED BY <2>1 DEF XAt, YAt
  <1>a. /\ \A r \in Rows : r < count /\ Fits => XAt(r) \in Cells /\ YAt(r) \in Cells
        /\ \A r, t \in Rows : r < count /\ t < count =>
             /\ XAt(r) # YAt(t)
             /\ r # t => XAt(r) # XAt(t) /\ YAt(r) # YAt(t)
    BY CellsApart
  <1>f. \A r \in Rows : pc[r] # "none" => r < count /\ XAt(r) \in Cells /\ YAt(r) \in Cells
    BY ChildHasCells
  <1>1. CASE Down(Parent, "fill") BY <1>0, <1>1, SMT DEF Down
  <1>2. CASE Fill
    <2>1. CASE row < count
      <3>1. row \in Rows BY <2>1, SMT DEF Rows
      <3>2. CASE status' = "undefined" /\ UNCHANGED <<array, row, pc>>
        BY <1>0, <1>2, <3>2, SMT DEF Fill
      <3>3. CASE /\ {XAt(row), YAt(row)} \subseteq Cells
                 /\ array' = [array EXCEPT ![XAt(row)] = 0, ![YAt(row)] = 0] /\ row' = row + 1
                 /\ UNCHANGED <<status, pc>>
        <4>1. array'[XAt(row)] = 0 /\ array'[YAt(row)] = 0 BY <3>3, SMT
        <4>2. \A k \in Cells : k \notin {XAt(row), YAt(row)} => array'[k] = array[k] BY <3>3, SMT
        <4>3. UNCHANGED <<count, sem, removed, temp, printed>> BY <1>2 DEF Fill
        <4>4. s < row => XAt(s) \in Cells /\ YAt(s) \in Cells
          <5>1. s < row => row # 0 BY SMT
          <5> QED BY <1>2, <1>a, <2>1, <5>1, SMT DEF FitInv
        <4>5. s < row => /\ XAt(s) \notin {XAt(row), YAt(row)}
                         /\ YAt(s) \notin {XAt(row), YAt(row)}
          BY <1>a, <2>1, <3>1, SMT
        <4>6. pc[Parent] = "fill" /\ pc[s] = "none" BY <1>2 DEF Fill
        <4>7. s < row => array'[XAt(s)] = array[XAt(s)] /\ array'[YAt(s)] = array[YAt(s)]
          BY <4>2, <4>4, <4>5
        <4>8. s = row => array'[XAt(s)] = 0 /\ array'[YAt(s)] = 0 BY <4>1
        <4>9. s < row + 1 => s < row \/ s = row BY SMT
        <4> HIDE DEF TypeOK, PhaseInv
        <4>10. pc' = pc /\ row' = row + 1 BY <3>3
        <4> QED BY <1>0, <4>3, <4>6, <4>7, <4>8, <4>9, <4>10, SMT
      <3> QED BY <1>2, <2>1, <3>2, <3>3 DEF Fill
    <2>2. CASE row = count
      BY <1>0, <1>2, <2>2, SMT DEF Fill
    <2> QED BY <2>1, <2>2, SMT
  <1>3. CASE Up(Parent, "fork") BY <1>0, <1>3, SMT DEF Up
  <1>4. CASE Fork
    <2>1. row < count => row \in Rows BY SMT DEF Rows
    <2> QED BY <1>0, <1>4, <2>1, SMT DEF Fork
  <1>5. CASE Wait BY <1>0, <1>5, SMT DEF Wait
  <1>6. CASE Remove BY <1>0, <1>6, SMT DEF Remove
  <1>7. ASSUME NEW r \in Rows, Down(r, "loadx") \/ Up(r, "done") PROVE RowInv(s)'
    BY <1>0, <1>7, SMT DEF Down, Up
  <1>8. ASSUME NEW r \in Rows, \/ Load(r, XAt(r), "loadx", "storex")
                               \/ Load(r, YAt(r), "loady", "storey")
        PROVE RowInv(s)'
    BY <1>0, <1>8, <1>f, SMT DEF Load, Outside
  <1>9. ASSUME NEW r \in Rows, NEW at \in {XAt(r), YAt(r)}, NEW from, NEW next,
               Store(r, at, from, next),
               \/ at = XAt(r) /\ from = "storex" /\ next = "loady"
               \/ at = YAt(r) /\ from = "storey" /\ next = "print"
        PROVE RowInv(s)'
    <2>1. pc[r] = from /\ from # "none" BY <1>9, SMT DEF Store
    <2>2. r < count /\ XAt(r) \in Cells /\ YAt(r) \in Cells BY <1>f, <2>1
    <2>3. /\ array' = [array EXCEPT ![at] = temp[r] + 1] /\ pc' = [pc EXCEPT ![r] = next]
          /\ UNCHANGED <<temp, count, sem, removed, row, printed>>
      BY <1>9, <2>2 DEF Store
    <2>4. array'[at] = temp[r] + 1 /\ \A k \in Cells : k # at => array'[k] = array[k]
      BY <1>9, <2>2, <2>3, SMT
    <2>5. temp[r] = 0 BY <1>9, <2>1, SMT
    <2>6. CASE s = r
      <3>1. XAt(r) # YAt(r) BY <1>a, <2>2
      <3> QED BY <1>0, <1>9, <2>1, <2>2, <2>3, <2>4, <2>5, <2>6, <3>1, SMT
    <2>7. CASE s # r
      <3>1. pc'[s] = pc[s] /\ pc'[Parent] = pc[Parent] BY <2>3, <2>7, SMT
      <3>2. pc[Parent] \notin {"lock", "fill"} /\ Fits BY <2>1, <1>9, ChildHasCells, SMT
      <3>3. s < count => /\ XAt(s) \in Cells /\ YAt(s) \in Cells
                         /\ array'[XAt(s)] = array[XAt(s)] /\ array'[YAt(s)] = array[YAt(s)]
        BY <1>9, <1>a, <2>2, <2>4, <2>7, <3>2
      <3> QED BY <1>0, <2>3, <3>1, <3>3, SMT
    <2> QED BY <2>6, <2>7
  <1>10. ASSUME NEW r \in Rows, PrintResult(r) PROVE RowInv(s)'
    BY <1>0, <1>10, SMT DEF PrintResult
  <1>11. CASE UNCHANGED vars BY <1>0, <1>11, SMT DEF vars
  <1> QED BY <1>1, <1>2, <1>3, <1>4, <1>5, <1>6, <1>7, <1>8, <1>9, <1>10, <1>11
             DEF Next, ParentStep, Child

\* Only the parent meets the end of the page, with its first row.
LEMMA PageStep == ASSUME SemInv, [Next]_vars PROVE FitInv' /\ PageHoldsRows'
  <1> USE CountAssumption, ParentApart DEF TypeOK, SemInv, PhaseInv, ParentPhase, ChildPhase,
                                           Goto, FitInv, Fits, PageHoldsRows
  <1>a. /\ \A r \in Rows : r < count /\ Fits => XAt(r) \in Cells /\ YAt(r) \in Cells
        /\ ~Fits => ~({XAt(0), YAt(0)} \subseteq Cells)
    BY CellsApart
  <1>f. \A r \in Rows : pc[r] # "none" => XAt(r) \in Cells /\ YAt(r) \in Cells /\ Fits
    BY ChildHasCells
  <1>1. CASE Down(Parent, "fill") BY <1>1, SMT DEF Down
  <1>2. CASE Fill
    <2>1. row < count => row \in Rows BY SMT DEF Rows
    <2> QED BY <1>2, <1>a, <2>1, SMT DEF Fill
  <1>3. CASE Up(Parent, "fork") BY <1>3, SMT DEF Up
  <1>4. CASE status = "running" /\ (Fork \/ Wait \/ Remove)
    BY <1>4, SMT DEF Fork, Wait, Remove
  <1>7. ASSUME NEW r \in Rows, status = "running", Child(r) PROVE FitInv' /\ PageHoldsRows'
    <2>1. pc[r] # "none" BY <1>7, SMT DEF Child, Down, Up, Load, Store, PrintResult
    <2>2. status' = status /\ count' = count /\ row' = row /\ pc'[Parent] = pc[Parent]
      BY <1>7, <1>f, <2>1, SMT DEF Child, Down, Up, Load, Store, PrintResult
    <2> QED BY <1>7, <1>f, <2>1, <2>2, SMT
  <1>8. CASE UNCHANGED vars BY <1>8, SMT DEF vars
  <1> QED BY <1>1, <1>2, <1>3, <1>4, <1>7, <1>8 DEF Next, ParentStep

\* The invariant holds in every reachable state.
LEMMA SemInvariant == Spec => []SemInv
  <1>1. SemInv /\ [Next]_vars => SemInv'
    <2> SUFFICES ASSUME SemInv, [Next]_vars PROVE SemInv' OBVIOUS
    <2>1. \A r \in Rows : RowInv(r)' BY RowStep
    <2> QED BY <2>1, TypeStep, PhaseStep, ExclusiveStep, PageStep DEF SemInv
  <1> QED BY <1>1, SemInit, PTL DEF Spec

-----------------------------------------------------------------------------
\* For every number of rows and size of page the loop counter, the semaphore, the cells of
\* the page and what is done with them keep their types (main.c:47-81).
THEOREM MatrixTyped == Spec => []TypeOK
  <1>1. SemInv => TypeOK BY DEF SemInv
  <1> QED BY <1>1, SemInvariant, PTL

\* For every number of rows and size of page: outside the page, which is all that shmget
\* gives for sizeof(int), the parent stores as soon as the last cell is not in it, and
\* never else; no child ever does (main.c:29, 49-52, 65-66).
THEOREM PageIsEnough == Spec => []PageHoldsRows
  <1>1. SemInv => PageHoldsRows BY DEF SemInv
  <1> QED BY <1>1, SemInvariant, PTL

\* For every number of rows no two processes are between lock_res and rel_res
\* while the semaphore exists (main.c:47-54, 60-70).
THEOREM MutualExclusion == Spec => []Exclusive
  <1>1. SemInv => Exclusive BY DEF SemInv
  <1> QED BY <1>1, SemInvariant, PTL

\* For every number of rows each child prints its row plus the vector, whether or
\* not it still had the semaphore when it did (main.c:65-68).
THEOREM EveryRowIsRight == Spec => []ResultsRight
  <1>1. SemInv => ResultsRight BY DEF SemInv, RowInv, ResultsRight
  <1> QED BY <1>1, SemInvariant, PTL
=============================================================================
