----------------------------- MODULE SysVMatrix -----------------------------
(***************************************************************************)
(* The matrix exercise of C/sysV/main.c: a program reads Count rows, puts  *)
(* each into a System V message queue and forks a child per row that takes *)
(* a row out and adds the program's vector to it.  The queue belongs to    *)
(* the directory, not to the program, so whoever runs there shares it.     *)
(* msgsnd and msgrcv are called with IPC_NOWAIT and nobody looks at their  *)
(* results.                                                                *)
(***************************************************************************)
EXTENDS Integers, Sequences, FiniteSets

CONSTANTS Programs,  \* runs of the program in one directory, at the same time or not
          Count,     \* rows each of them is given
          QCap,      \* rows the kernel lets a queue hold
          Kills      \* whether a program may be interrupted

ASSUME MatrixAssumption == /\ IsFiniteSet(Programs)
                           /\ Count \in Nat \ {0} /\ QCap \in Nat \ {0} /\ Kills \in BOOLEAN

Nums == 1 .. Count

Children == Programs \X Nums

\* The row a program reads in turn i of its first loop.
Row(p, i) == [of |-> p, num |-> i]
Rows == [of : Programs, num : Nums]

NoRow == [of |-> 0, num |-> 0]

VARIABLES
  pc, n,     \* the statement and the loop counter of each program
  msqid,     \* the queue each program has got from msgget, 0 before
  key,       \* the queue that exists for the directory's key, 0 if there is none
  created,   \* how many queues there have been: identifiers are not used again
  queue,     \* what that queue holds
  child,     \* the state of each child
  result,    \* the row each child has added its vector to
  failed     \* history: a msgsnd or msgrcv has failed, or a program was interrupted

vars == <<pc, n, msqid, key, created, queue, child, result, failed>>

TypeOK ==
  /\ pc \in [Programs -> {"start", "fill", "fork", "wait", "rmid", "done", "killed"}]
  /\ n \in [Programs -> 1 .. Count + 1]
  /\ created \in Nat /\ key \in 0 .. created /\ msqid \in [Programs -> 0 .. created]
  /\ queue \in Seq(Rows) /\ Len(queue) <= QCap /\ (key = 0 => queue = <<>>)
  /\ child \in [Children -> {"none", "run", "done", "killed"}]
  /\ result \in [Children -> Rows \cup {NoRow}]
  /\ failed \in BOOLEAN

Init ==
  /\ pc = [p \in Programs |-> "start"] /\ n = [p \in Programs |-> 1]
  /\ msqid = [p \in Programs |-> 0] /\ key = 0 /\ created = 0 /\ queue = <<>>
  /\ child = [c \in Children |-> "none"] /\ result = [c \in Children |-> NoRow]
  /\ failed = FALSE

Goto(p, label) == pc' = [pc EXCEPT ![p] = label]

-----------------------------------------------------------------------------
(* The parent.                                                             *)

\* msgget(key, 0600|IPC_CREAT): the queue that is there, whatever it holds, or a new one.
MsgGet(p) ==
  /\ pc[p] = "start" /\ Goto(p, "fill")
  /\ IF key = 0 THEN created' = created + 1 /\ key' = created + 1 ELSE UNCHANGED <<created, key>>
  /\ msqid' = [msqid EXCEPT ![p] = key']
  /\ UNCHANGED <<n, queue, child, result, failed>>

\* scanf and msgsnd: the row is lost when the queue is full or has been removed.
MsgSnd(p) ==
  /\ pc[p] = "fill"
  /\ IF msqid[p] = key /\ Len(queue) < QCap
     THEN queue' = Append(queue, Row(p, n[p])) /\ UNCHANGED failed
     ELSE failed' = TRUE /\ UNCHANGED queue
  /\ IF n[p] < Count
     THEN n' = [n EXCEPT ![p] = n[p] + 1] /\ UNCHANGED pc
     ELSE n' = [n EXCEPT ![p] = 1] /\ Goto(p, "fork")
  /\ UNCHANGED <<msqid, key, created, child, result>>

\* A variant with a bug, not used below: one child too many.
ForkOneMore(p) ==
  /\ pc[p] = "fork"
  /\ IF n[p] <= Count + 1
     THEN /\ child' = [child EXCEPT ![<<p, n[p]>>] = "run"]
          /\ n' = [n EXCEPT ![p] = n[p] + 1] /\ UNCHANGED pc
     ELSE Goto(p, "wait") /\ UNCHANGED <<child, n>>
  /\ UNCHANGED <<msqid, key, created, queue, result, failed>>

Fork(p) ==
  /\ pc[p] = "fork"
  /\ IF n[p] <= Count
     THEN /\ child' = [child EXCEPT ![<<p, n[p]>>] = "run"]
          /\ n' = [n EXCEPT ![p] = n[p] + 1] /\ UNCHANGED pc
     ELSE Goto(p, "wait") /\ UNCHANGED <<child, n>>
  /\ UNCHANGED <<msqid, key, created, queue, result, failed>>

\* wait(NULL) returns as soon as one child has ended.
Wait(p) ==
  /\ pc[p] = "wait" /\ \E i \in Nums : child[<<p, i>>] = "done"
  /\ Goto(p, "rmid")
  /\ UNCHANGED <<n, msqid, key, created, queue, child, result, failed>>

\* A variant with a bug, not used below: a queue with rows in it is left alone.
RemoveWhenEmpty(p) ==
  /\ pc[p] = "rmid" /\ Goto(p, "done")
  /\ IF msqid[p] = key /\ queue = <<>> THEN key' = 0 /\ UNCHANGED queue ELSE UNCHANGED <<key, queue>>
  /\ UNCHANGED <<n, msqid, created, child, result, failed>>

\* msgctl(IPC_RMID): it fails when another program has removed the queue before.
Remove(p) ==
  /\ pc[p] = "rmid" /\ Goto(p, "done")
  /\ IF msqid[p] = key THEN key' = 0 /\ queue' = <<>> ELSE UNCHANGED <<key, queue>>
  /\ UNCHANGED <<n, msqid, created, child, result, failed>>

-----------------------------------------------------------------------------
(* The child of row i.                                                     *)

\* A variant with a bug, not used below: the row stays in the queue (MSG_COPY).
MsgRcvCopy(p, i) ==
  /\ child[<<p, i>>] = "run" /\ child' = [child EXCEPT ![<<p, i>>] = "done"]
  /\ IF msqid[p] = key /\ queue # <<>>
     THEN result' = [result EXCEPT ![<<p, i>>] = Head(queue)] /\ UNCHANGED <<queue, failed>>
     ELSE /\ result' = [result EXCEPT ![<<p, i>>] = Row(p, Count)]
          /\ failed' = TRUE /\ UNCHANGED queue
  /\ UNCHANGED <<pc, n, msqid, key, created>>

\* msgrcv takes the first row there is, whoever put it there.  When it fails, buf is
\* still what the parent's last scanf has left in it.  Printing the sum ends the child.
MsgRcv(p, i) ==
  /\ child[<<p, i>>] = "run" /\ child' = [child EXCEPT ![<<p, i>>] = "done"]
  /\ IF msqid[p] = key /\ queue # <<>>
     THEN /\ result' = [result EXCEPT ![<<p, i>>] = Head(queue)]
          /\ queue' = Tail(queue) /\ UNCHANGED failed
     ELSE /\ result' = [result EXCEPT ![<<p, i>>] = Row(p, Count)]
          /\ failed' = TRUE /\ UNCHANGED queue
  /\ UNCHANGED <<pc, n, msqid, key, created>>

-----------------------------------------------------------------------------
\* ^C reaches the program and its children; the queue stays.
Kill(p) ==
  /\ Kills /\ pc[p] \in {"fill", "fork", "wait", "rmid"}
  /\ Goto(p, "killed") /\ failed' = TRUE
  /\ child' = [c \in Children |-> IF c[1] = p /\ child[c] = "run" THEN "killed" ELSE child[c]]
  /\ UNCHANGED <<n, msqid, key, created, queue, result>>

Parent(p) == MsgGet(p) \/ MsgSnd(p) \/ Fork(p) \/ Wait(p) \/ Remove(p)

Next == \E p \in Programs : Parent(p) \/ Kill(p) \/ \E i \in Nums : MsgRcv(p, i)

Spec == Init /\ [][Next]_vars

-----------------------------------------------------------------------------
\* Every row is dealt out to one child.  Two children work on the same row only where
\* one of them has come too late and repeats the last row of its own program; and if no
\* call has failed, then all rows of all programs have been worked on in the end, though
\* not each by a child of its own program (main.c:40, 52, 66-67).
RowsDealtOut ==
  /\ \A c, d \in Children :
       c # d /\ result[c] = result[d] /\ result[c] # NoRow =>
         \E e \in {c, d} : result[e] = Row(e[1], Count)
  /\ ~failed /\ (\A c \in Children : child[c] = "done") => {result[c] : c \in Children} = Rows

\* A program that ends by itself leaves none of its rows to a later one, even when
\* others have used the queue meanwhile or have removed it before (main.c:33, 40, 67).
CleanExitLeavesNothing ==
  \A p \in Programs : pc[p] = "done" => \A k \in DOMAIN queue : queue[k].of # p
=============================================================================
