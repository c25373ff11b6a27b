---------------------------- MODULE SpawnCounter ----------------------------
(***************************************************************************)
(* The counter of C/semafore/06-1a.c: each start of the program forks      *)
(* Count processes that lock a semaphore, count themselves in shared       *)
(* memory and print the result.  Memory and semaphore outlive the program. *)
(* The release stands inside the error branch of shmdt, after an exit, so  *)
(* it is never executed although the comment above it (line 92) announces  *)
(* it, and neither is the exit of a child: having printed, a child goes on *)
(* with the loop it was forked in.                                         *)
(***************************************************************************)
EXTENDS Integers, FiniteSets

CONSTANTS Count,     \* turns of the loop (5 in the code)
          MaxStarts  \* bound: how often the program is started

ASSUME SpawnAssumption == Count \in Nat \ {0} /\ MaxStarts \in Nat \ {0}

Starts == 1 .. MaxStarts
Turns  == 0 .. Count - 1

\* A process is known by the start it descends from and the turns in which it and its
\* ancestors were forked; these rise from each ancestor to the next.
Procs == Starts \X SUBSET Turns

Main(s) == <<s, {}>>

VARIABLES
  shm,      \* whether the memory segment exists
  new,      \* new[s]: the flag of the processes of start s, inherited by fork
  sem,      \* the semaphore
  pc, i,    \* statement and loop counter of each process
  array,    \* array[1], array[2]: how often program 2 was spawned, and in total
  temp,     \* what a process has loaded and not stored yet
  setvals,  \* history: how often the semaphore was set to 1
  entries,  \* history: how often it was taken
  since,    \* history: as entries, from the last process that initialised the array
  crowded   \* history: two processes have been in the counting part at once

vars == <<shm, new, sem, pc, i, array, temp, setvals, entries, since, crowded>>
histVars == <<setvals, entries, since, crowded>>

Counting == {"init1", "init2", "load1", "store1", "load2", "store2", "print"}

TypeOK ==
  /\ shm \in BOOLEAN /\ new \in [Starts -> BOOLEAN] /\ sem \in {0, 1}
  /\ pc \in [Procs -> {"none", "shmget", "setval", "loop", "lock", "done"} \cup Counting]
  /\ i \in [Procs -> 0 .. Count]
  /\ array \in [1 .. 2 -> Nat] /\ temp \in [Procs -> Nat]
  /\ setvals \in Nat /\ entries \in Nat /\ since \in 0 .. entries /\ crowded \in BOOLEAN

Init ==
  /\ shm = FALSE /\ new = [s \in Starts |-> TRUE] /\ sem = 0
  /\ pc = [p \in Procs |-> IF p[2] = {} THEN "shmget" ELSE "none"] /\ i = [p \in Procs |-> 0]
  /\ array = [k \in 1 .. 2 |-> 0] /\ temp = [p \in Procs |-> 0]
  /\ setvals = 0 /\ entries = 0 /\ since = 0 /\ crowded = FALSE

Goto(p, label) == pc' = [pc EXCEPT ![p] = label]

Inside(p) == pc[p] \in Counting

-----------------------------------------------------------------------------
\* shmget with IPC_EXCL: exactly one start creates the memory.  Starts are numbered in
\* the order in which they get here.
ShmGet(s) ==
  /\ \A t \in 1 .. s - 1 : pc[Main(t)] # "shmget"
  /\ pc[Main(s)] = "shmget" /\ Goto(Main(s), "setval")
  /\ new' = [new EXCEPT ![s] = ~shm] /\ shm' = TRUE
  /\ UNCHANGED <<sem, i, array, temp, histVars>>

\* semget, and semctl(SETVAL, 1) whoever holds the semaphore or waits for it.
SetVal(s) ==
  /\ pc[Main(s)] = "setval" /\ Goto(Main(s), "loop")
  /\ sem' = 1 /\ setvals' = setvals + 1
  /\ UNCHANGED <<shm, new, i, array, temp, entries, since, crowded>>

-----------------------------------------------------------------------------
Child(p) == <<p[1], p[2] \cup {i[p]}>>

\* A turn of the loop, in the first process or in one that has counted itself.
Fork(p) ==
  /\ pc[p] = "loop" /\ i[p] < Count
  /\ pc' = [pc EXCEPT ![Child(p)] = "lock"]
  /\ i' = [i EXCEPT ![p] = i[p] + 1, ![Child(p)] = i[p]]
  /\ UNCHANGED <<shm, new, sem, array, temp, histVars>>

Return(p) ==
  /\ pc[p] = "loop" /\ i[p] = Count
  /\ Goto(p, "done")
  /\ UNCHANGED <<shm, new, sem, i, array, temp, histVars>>

\* A variant with a plausible bug, not used below: sem_op 0, which waits for zero.
LockWaitForZero(p) ==
  /\ pc[p] = "lock" /\ sem = 0
  /\ UNCHANGED sem /\ Goto(p, IF new[p[1]] THEN "init1" ELSE "load1")
  /\ entries' = entries + 1
  /\ since' = IF new[p[1]] THEN 1 ELSE since + 1
  /\ crowded' = (crowded \/ \E q \in Procs : Inside(q))
  /\ UNCHANGED <<shm, new, i, array, temp, setvals>>

\* lock_res: blocks until some later start sets the semaphore again.
Lock(p) ==
  /\ pc[p] = "lock" /\ sem > 0
  /\ sem' = sem - 1 /\ Goto(p, IF new[p[1]] THEN "init1" ELSE "load1")
  /\ entries' = entries + 1
  /\ since' = IF new[p[1]] THEN 1 ELSE since + 1
  /\ crowded' = (crowded \/ \E q \in Procs : Inside(q))
  /\ UNCHANGED <<shm, new, i, array, temp, setvals>>

\* A variant with a bug, not used below: the first process is not counted.
InitialiseZero(p, k, label, next) ==
  /\ pc[p] = label /\ Goto(p, next)
  /\ array' = [array EXCEPT ![k] = 0]
  /\ UNCHANGED <<shm, new, sem, i, temp, histVars>>

\* array[0] is always 0 and left out.
Initialise(p, k, label, next) ==
  /\ pc[p] = label /\ Goto(p, next)
  /\ array' = [array EXCEPT ![k] = 1]
  /\ UNCHANGED <<shm, new, sem, i, temp, histVars>>

Load(p, k, label, next) ==
  /\ pc[p] = label /\ Goto(p, next)
  /\ temp' = [temp EXCEPT ![p] = array[k]]
  /\ UNCHANGED <<shm, new, sem, i, array, histVars>>

Store(p, k, label, next) ==
  /\ pc[p] = label /\ Goto(p, next)
  /\ array' = [array EXCEPT ![k] = temp[p] + 1]
  /\ UNCHANGED <<shm, new, sem, i, temp, histVars>>

\* printf and shmdt, which succeeds: the block with the release and the exit is skipped.
PrintCount(p) ==
  /\ pc[p] = "print" /\ Goto(p, "loop")
  /\ i' = [i EXCEPT ![p] = i[p] + 1]
  /\ UNCHANGED <<shm, new, sem, array, temp, histVars>>

CountItself(p) ==
  \/ Initialise(p, 1, "init1", "init2") \/ Initialise(p, 2, "init2", "print")
  \/ Load(p, 1, "load1", "store1") \/ Store(p, 1, "store1", "load2")
  \/ Load(p, 2, "load2", "store2") \/ Store(p, 2, "store2", "print")

Process(p) == Fork(p) \/ Return(p) \/ Lock(p) \/ CountItself(p) \/ PrintCount(p)

Next == (\E s \in Starts : ShmGet(s) \/ SetVal(s)) \/ \E p \in Procs : Process(p)

Spec == Init /\ [][Next]_vars

\* Every process is scheduled; nobody has to start the program.
FairSpec ==
  /\ Spec /\ \A s \in Starts : WF_vars(SetVal(s))
  /\ \A p \in Procs : WF_vars(Process(p))

-----------------------------------------------------------------------------
\* As long as no start has set the semaphore under a process that was counting, both
\* counters say how many have counted since the last one that still took the array for
\* new; and they never exceed the number that have counted at all (06-1a.c:50, 57, 77-84).
CountsEntries ==
  /\ ~crowded /\ ~(\E p \in Procs : Inside(p)) => array[1] = since /\ array[2] = since
  /\ array[1] <= entries /\ array[2] <= entries

\* A permit does not stay unused: children of the start that has set the semaphore, or
\* of an earlier one, wait for it.  That anybody gives it back is not said
\* (06-1a.c:57-74).
PermitIsTaken == sem = 1 ~> sem = 0
=============================================================================
