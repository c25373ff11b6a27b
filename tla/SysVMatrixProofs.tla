-------------------------- MODULE SysVMatrixProofs --------------------------
(***************************************************************************)
(* Proofs about the System V matrix, for any number of programs in one     *)
(* directory, any number of rows and any queue: who works on which row,    *)
(* and what a program leaves behind.                                       *)
(***************************************************************************)
EXTENDS SysVMatrix, SequenceTheorems, FiniteSetTheorems, TLAPS

\* A row that its program has come to in its first loop.
Issued(r) == pc[r.of] # "start" /\ (pc[r.of] = "fill" => r.num < n[r.of])

\* A program has a queue, and children, when it has come to that; a child that has ended a result.
LoopInv ==
  \A p \in Programs :
    /\ msqid[p] = 0 <=> pc[p] = "start"
    /\ pc[p] \in {"start", "fill"} => n[p] \in Nums
    /\ \A i \in Nums :
         /\ pc[p] \in {"start", "fill"} \/ (pc[p] = "fork" /\ i >= n[p]) => child[<<p, i>>] = "none"
         /\ result[<<p, i>>] # NoRow <=> child[<<p, i>>] = "done"

\* What the queue holds has been put there once, by a program that still has this queue.
QueueInv ==
  \A k \in DOMAIN queue :
    /\ msqid[queue[k].of] = key /\ pc[queue[k].of] # "done" /\ Issued(queue[k])
    /\ \A j \in DOMAIN queue : queue[j] = queue[k] => j = k

\* The result of child c is that of no other, unless a child has come too late.
ResultInv ==
  \A c \in Children : result[c] # NoRow =>
    /\ Issued(result[c])
    /\ \A k \in DOMAIN queue : result[c] = queue[k] => failed /\ result[c] = Row(c[1], Count)
    /\ \A d \in Children : c # d /\ result[c] = result[d] =>
         failed /\ \E e \in {c, d} : result[e] = Row(e[1], Count)

MatrixInv == TypeOK /\ LoopInv /\ QueueInv /\ ResultInv

-----------------------------------------------------------------------------
\* Children and rows are pairs of a program and a number.
LEMMA Pairs ==
  /\ \A p \in Programs, i \in Nums : <<p, i>> \in Children /\ Row(p, i) \in Rows
  /\ \A c \in Children : c[1] \in Programs /\ c[2] \in Nums /\ c = <<c[1], c[2]>>
  /\ \A r \in Rows : r.of \in Programs /\ r.num \in Nums /\ r = Row(r.of, r.num)
  /\ \A p \in Programs, i \in Int : Row(p, i).of = p /\ Row(p, i).num = i
  /\ NoRow \notin Rows /\ Count \in Nums
  BY MatrixAssumption DEF Children, Rows, Row, NoRow, Nums

LEMMA MatrixInit == Init => MatrixInv
  <1> SUFFICES ASSUME Init PROVE MatrixInv OBVIOUS
  <1>1. queue = <<>> /\ Len(queue) = 0 /\ DOMAIN queue = {} /\ queue \in Seq(Rows) BY DEF Init
  <1>a. created \in Nat /\ key \in 0 .. created /\ msqid \in [Programs -> 0 .. created] BY DEF Init
  <1>b. Len(queue) <= QCap BY <1>1, MatrixAssumption
  <1>c. /\ pc \in [Programs -> {"start", "fill", "fork", "wait", "rmid", "done", "killed"}]
        /\ n \in [Programs -> 1 .. Count + 1]
        /\ child \in [Children -> {"none", "run", "done", "killed"}]
        /\ result \in [Children -> Rows \cup {NoRow}] /\ failed \in BOOLEAN
    <2>1. 1 \in 1 .. Count + 1 BY MatrixAssumption
    <2> QED BY <2>1 DEF Init
  <1>2. TypeOK BY <1>1, <1>a, <1>b, <1>c DEF Init, TypeOK
  <1>3. LoopInv
    <2>1. 1 \in Nums BY MatrixAssumption DEF Nums
    <2>2. /\ \A p \in Programs : msqid[p] = 0 /\ pc[p] = "start" /\ n[p] = 1
          /\ \A c \in Children : child[c] = "none" /\ result[c] = NoRow
      BY DEF Init
    <2> QED BY <2>1, <2>2, Pairs DEF LoopInv
  <1> QED BY <1>1, <1>2, <1>3 DEF Init, MatrixInv, QueueInv, ResultInv

\* The types.
LEMMA MatrixTypes == MatrixInv /\ [Next]_vars => TypeOK'
  <1> SUFFICES ASSUME TypeOK, LoopInv, [Next]_vars PROVE TypeOK'
    BY DEF MatrixInv
  <1> USE MatrixAssumption DEF TypeOK, Goto
  <1>1. ASSUME NEW p \in Programs, MsgGet(p) PROVE TypeOK'
    <2>1. created' \in Nat /\ key' \in 0 .. created' /\ created <= created' /\ (key' = 0 => queue' = <<>>)
      BY <1>1 DEF MsgGet
    <2>2. msqid' \in [Programs -> 0 .. created'] BY <1>1, <2>1 DEF MsgGet
    <2> QED BY <1>1, <2>1, <2>2 DEF MsgGet
  <1>2. ASSUME NEW p \in Programs, MsgSnd(p) PROVE TypeOK'
    <2>1. Row(p, n[p]) \in Rows /\ n[p] \in Nums /\ msqid[p] # 0
      BY <1>2, Pairs DEF MsgSnd, LoopInv
    <2>a. n' \in [Programs -> 1 .. Count + 1]
      <3>1. PICK k \in 1 .. Count + 1 : n' = [n EXCEPT ![p] = k]
        <4>1. CASE n[p] < Count BY <1>2, <4>1 DEF MsgSnd
        <4>2. CASE ~(n[p] < Count) BY <1>2, <4>2 DEF MsgSnd
        <4> QED BY <4>1, <4>2
      <3> QED BY <3>1
    <2>b. pc' \in [Programs -> {"start", "fill", "fork", "wait", "rmid", "done", "killed"}] BY <1>2 DEF MsgSnd
    <2>2. CASE msqid[p] = key /\ Len(queue) < QCap
      <3>1. queue' = Append(queue, Row(p, n[p])) /\ failed' = failed BY <1>2, <2>2 DEF MsgSnd
      <3>2. queue' \in Seq(Rows) /\ Len(queue') = Len(queue) + 1 BY <2>1, <3>1
      <3> QED BY <1>2, <2>a, <2>b, <2>1, <2>2, <3>1, <3>2 DEF MsgSnd
    <2>3. CASE ~(msqid[p] = key /\ Len(queue) < QCap)
      <3>1. queue' = queue /\ failed' = TRUE BY <1>2, <2>3 DEF MsgSnd
      <3> QED BY <1>2, <2>a, <2>b, <3>1 DEF MsgSnd
    <2> QED BY <2>2, <2>3
  <1>3. ASSUME NEW p \in Programs, Fork(p) PROVE TypeOK'
    <2>1. CASE n[p] <= Count
      <3>1. child' \in [Children -> {"none", "run", "done", "killed"}] BY <1>3, <2>1 DEF Fork
      <3>2. n' \in [Programs -> 1 .. Count + 1] BY <1>3, <2>1 DEF Fork
      <3> QED BY <1>3, <2>1, <3>1, <3>2 DEF Fork
    <2>2. CASE ~(n[p] <= Count) BY <1>3, <2>2 DEF Fork
    <2> QED BY <2>1, <2>2
  <1>4. ASSUME NEW p \in Programs, Wait(p) PROVE TypeOK' BY <1>4 DEF Wait
  <1>5. ASSUME NEW p \in Programs, Remove(p) PROVE TypeOK'
    <2>1. queue' \in Seq(Rows) /\ Len(queue') <= QCap /\ (key' = 0 => queue' = <<>>)
      <3>1. <<>> \in Seq(Rows) /\ Len(<<>>) = 0 OBVIOUS
      <3>2. CASE msqid[p] = key BY <1>5, <3>1, <3>2 DEF Remove
      <3>3. CASE msqid[p] # key BY <1>5, <3>3 DEF Remove
      <3> QED BY <3>2, <3>3
    <2> QED BY <1>5, <2>1 DEF Remove
  <1>6. ASSUME NEW p \in Programs, Kill(p) PROVE TypeOK'
    <2>1. child' \in [Children -> {"none", "run", "done", "killed"}]
      <3>1. \A c \in Children : (IF c[1] = p /\ child[c] = "run" THEN "killed" ELSE child[c])
                                  \in {"none", "run", "done", "killed"} OBVIOUS
      <3> QED BY <1>6, <3>1 DEF Kill
    <2> QED BY <1>6, <2>1 DEF Kill
  <1>7. ASSUME NEW p \in Programs, NEW i \in Nums, MsgRcv(p, i) PROVE TypeOK'
    <2>1. Row(p, Count) \in Rows BY Pairs
    <2>2. child' \in [Children -> {"none", "run", "done", "killed"}] BY <1>7 DEF MsgRcv
    <2>3. CASE msqid[p] = key /\ queue # <<>>
      <3>1. queue' = Tail(queue) /\ result' = [result EXCEPT ![<<p, i>>] = Head(queue)] /\ failed' = failed
        BY <1>7, <2>3 DEF MsgRcv
      <3>2. queue' \in Seq(Rows) /\ Len(queue') = Len(queue) - 1 /\ Head(queue) \in Rows BY <2>3, <3>1
      <3> QED BY <1>7, <2>2, <2>3, <3>1, <3>2 DEF MsgRcv
    <2>4. CASE ~(msqid[p] = key /\ queue # <<>>) BY <1>7, <2>1, <2>2, <2>4 DEF MsgRcv
    <2> QED BY <2>3, <2>4
  <1>8. CASE UNCHANGED vars BY <1>8 DEF vars
  <1> QED BY <1>1, <1>2, <1>3, <1>4, <1>5, <1>6, <1>7, <1>8 DEF Next, Parent

-----------------------------------------------------------------------------
\* What MsgRcv does, in the two cases.
LEMMA Receipt ==
  ASSUME TypeOK, NEW p \in Programs, NEW i \in Nums, MsgRcv(p, i)
  PROVE  /\ child[<<p, i>>] = "run" /\ child'[<<p, i>>] = "done"
         /\ \A c \in Children : c # <<p, i>> => child'[c] = child[c] /\ result'[c] = result[c]
         /\ UNCHANGED <<pc, n, msqid, key, created>>
         /\ \/ /\ queue # <<>> /\ result'[<<p, i>>] = Head(queue)
               /\ queue' = Tail(queue) /\ failed' = failed
            \/ /\ result'[<<p, i>>] = Row(p, Count)
               /\ failed' = TRUE /\ queue' = queue
  <1>1. <<p, i>> \in Children BY Pairs
  <1>2. CASE msqid[p] = key /\ queue # <<>> BY <1>1, <1>2 DEF MsgRcv, TypeOK
  <1>3. CASE ~(msqid[p] = key /\ queue # <<>>) BY <1>1, <1>3 DEF MsgRcv, TypeOK
  <1> QED BY <1>2, <1>3

\* What Fork does.
LEMMA Birth ==
  ASSUME TypeOK, NEW p \in Programs, Fork(p)
  PROVE  /\ UNCHANGED <<msqid, key, created, queue, result, failed>> /\ pc[p] = "fork"
         /\ pc' \in [Programs -> {"start", "fill", "fork", "wait", "rmid", "done", "killed"}]
         /\ \A q \in Programs : q # p => pc'[q] = pc[q] /\ n'[q] = n[q]
         /\ \/ /\ n[p] \in Nums /\ n'[p] = n[p] + 1 /\ pc'[p] = "fork"
               /\ child'[<<p, n[p]>>] = "run"
               /\ \A c \in Children : c # <<p, n[p]>> => child'[c] = child[c]
            \/ child' = child /\ pc'[p] = "wait"
  <1>1. CASE n[p] <= Count
    <2>1. n[p] \in Nums BY <1>1, MatrixAssumption DEF TypeOK, Nums
    <2>2. <<p, n[p]>> \in Children BY <2>1, Pairs
    <2> QED BY <1>1, <2>1, <2>2 DEF Fork, TypeOK
  <1>2. CASE ~(n[p] <= Count) BY <1>2 DEF Fork, Goto, TypeOK
  <1> QED BY <1>1, <1>2

\* The loops.
LEMMA LoopStep == MatrixInv /\ [Next]_vars => LoopInv'
  <1> SUFFICES ASSUME TypeOK, LoopInv, QueueInv, [Next]_vars PROVE LoopInv'
    BY DEF MatrixInv
  <1>1. ASSUME NEW p \in Programs, MsgGet(p) PROVE LoopInv'
    <2>1. msqid'[p] # 0 /\ \A q \in Programs : q # p => msqid'[q] = msqid[q] /\ pc'[q] = pc[q]
      BY <1>1 DEF MsgGet, TypeOK, Goto
    <2>2. pc[p] = "start" /\ pc'[p] = "fill" /\ UNCHANGED <<n, child, result>>
      BY <1>1 DEF MsgGet, TypeOK, Goto
    <2> QED BY <2>1, <2>2 DEF LoopInv
  <1>2. ASSUME NEW p \in Programs, MsgSnd(p) PROVE LoopInv'
    <2>1. /\ UNCHANGED <<msqid, child, result>> /\ pc[p] = "fill"
          /\ \A q \in Programs : q # p => n'[q] = n[q] /\ pc'[q] = pc[q]
      BY <1>2 DEF MsgSnd, TypeOK, Goto
    <2>2. \/ n'[p] \in Nums /\ pc'[p] = "fill"
          \/ pc'[p] = "fork"
      <3>1. n[p] \in Int /\ n[p] \in Nums BY <2>1 DEF TypeOK, LoopInv, Nums
      <3>2. CASE n[p] < Count
        <4>1. n[p] + 1 \in Nums BY <3>1, <3>2, MatrixAssumption DEF Nums
        <4> QED BY <1>2, <3>2, <4>1 DEF MsgSnd, TypeOK
      <3>3. CASE ~(n[p] < Count) BY <1>2, <3>3 DEF MsgSnd, TypeOK, Goto
      <3> QED BY <3>2, <3>3
    <2> QED BY <2>1, <2>2 DEF LoopInv
  <1>3. ASSUME NEW p \in Programs, Fork(p) PROVE LoopInv'
    <2> SUFFICES ASSUME NEW q \in Programs
                 PROVE  /\ msqid'[q] = 0 <=> pc'[q] = "start"
                        /\ pc'[q] \in {"start", "fill"} => n'[q] \in Nums
                        /\ \A j \in Nums :
                             /\ pc'[q] \in {"start", "fill"} \/ (pc'[q] = "fork" /\ j >= n'[q])
                                  => child'[<<q, j>>] = "none"
                             /\ result'[<<q, j>>] # NoRow <=> child'[<<q, j>>] = "done"
      BY DEF LoopInv
    <2>b. /\ UNCHANGED <<msqid, result>> /\ pc[p] = "fork" /\ pc'[p] \in {"fork", "wait"}
          /\ \A o \in Programs : o # p => pc'[o] = pc[o] /\ n'[o] = n[o]
      BY <1>3, Birth
    <2>c. \A c \in Children : child'[c] = child[c] \/ (c = <<p, n[p]>> /\ child'[c] = "run")
      BY <1>3, Birth
    <2>d. \/ n[p] \in Nums /\ n'[p] = n[p] + 1 /\ child'[<<p, n[p]>>] = "run"
          \/ child' = child /\ pc'[p] = "wait"
      BY <1>3, Birth
    <2>1. /\ msqid'[q] = 0 <=> pc'[q] = "start"
          /\ pc'[q] \in {"start", "fill"} => n'[q] \in Nums
      BY <2>b DEF LoopInv
    <2>2. ASSUME NEW j \in Nums, q # p
          PROVE  /\ pc'[q] \in {"start", "fill"} \/ (pc'[q] = "fork" /\ j >= n'[q]) => child'[<<q, j>>] = "none"
                 /\ result'[<<q, j>>] # NoRow <=> child'[<<q, j>>] = "done"
      <3>1. <<q, j>> \in Children /\ <<q, j>> # <<p, n[p]>> BY <2>2, Pairs
      <3>2. child'[<<q, j>>] = child[<<q, j>>] BY <2>c, <3>1
      <3> QED BY <2>2, <2>b, <3>2 DEF LoopInv
    <2>3. ASSUME NEW j \in Nums
          PROVE  /\ pc'[p] \in {"start", "fill"} \/ (pc'[p] = "fork" /\ j >= n'[p]) => child'[<<p, j>>] = "none"
                 /\ result'[<<p, j>>] # NoRow <=> child'[<<p, j>>] = "done"
      <3>0. j \in Int /\ n[p] \in Int /\ <<p, j>> \in Children BY Pairs DEF Nums, TypeOK
      <3>4. child[<<p, j>>] # "none" => j < n[p] BY <2>b, <3>0 DEF LoopInv
      <3>1. CASE j = n[p]
        <4>1. child[<<p, j>>] = "none" /\ result[<<p, j>>] = NoRow BY <2>b, <3>0, <3>1 DEF LoopInv
        <4> QED BY <2>b, <2>d, <3>0, <3>1, <4>1
      <3>2. CASE j # n[p]
        <4>1. child'[<<p, j>>] = child[<<p, j>>] /\ result' = result
          <5>1. <<p, j>> # <<p, n[p]>> BY <3>2
          <5> QED BY <2>b, <2>c, <3>0, <5>1
        <4>2. result[<<p, j>>] # NoRow <=> child[<<p, j>>] = "done" BY DEF LoopInv
        <4>3. pc'[p] = "fork" => n'[p] = n[p] + 1 BY <2>d
        <4> QED BY <2>b, <3>0, <3>4, <4>1, <4>2, <4>3
      <3> QED BY <3>1, <3>2
    <2> QED BY <2>1, <2>2, <2>3
  <1>4. ASSUME NEW p \in Programs, Wait(p) \/ Remove(p) PROVE LoopInv'
    <2>1. /\ UNCHANGED <<msqid, child, result, n>> /\ pc[p] \notin {"start", "fill", "fork"}
          /\ pc'[p] \notin {"start", "fill", "fork"} /\ \A q \in Programs : q # p => pc'[q] = pc[q]
      BY <1>4 DEF Wait, Remove, TypeOK, Goto
    <2> QED BY <2>1 DEF LoopInv
  <1>5. ASSUME NEW p \in Programs, Kill(p) PROVE LoopInv'
    <2>1. /\ UNCHANGED <<msqid, result, n>> /\ pc[p] # "start"
          /\ pc'[p] = "killed" /\ \A q \in Programs : q # p => pc'[q] = pc[q]
          /\ \A c \in Children : child'[c] = IF c[1] = p /\ child[c] = "run" THEN "killed" ELSE child[c]
      BY <1>5 DEF Kill, TypeOK, Goto
    <2> QED BY <2>1, Pairs DEF LoopInv
  <1>6. ASSUME NEW p \in Programs, NEW i \in Nums, MsgRcv(p, i) PROVE LoopInv'
    <2>1. Row(p, Count) # NoRow BY Pairs
    <2>2. queue # <<>> => Head(queue) # NoRow BY Pairs DEF TypeOK
    <2>3. result'[<<p, i>>] # NoRow BY <1>6, <2>1, <2>2, Receipt
    <2>4. child[<<p, i>>] = "run" /\ child'[<<p, i>>] = "done" /\ UNCHANGED <<pc, n, msqid>> BY <1>6, Receipt
    <2>5. \A q \in Programs, j \in Nums :
            <<q, j>> # <<p, i>> => child'[<<q, j>>] = child[<<q, j>>] /\ result'[<<q, j>>] = result[<<q, j>>]
      <3>1. \A c \in Children : c # <<p, i>> => child'[c] = child[c] /\ result'[c] = result[c] BY <1>6, Receipt
      <3> QED BY <3>1, Pairs
    <2>6. ~(pc[p] \in {"start", "fill"} \/ (pc[p] = "fork" /\ i >= n[p])) BY <2>4 DEF LoopInv
    <2> QED BY <2>3, <2>4, <2>5, <2>6 DEF LoopInv
  <1>7. CASE UNCHANGED vars BY <1>7 DEF vars, LoopInv
  <1> QED BY <1>1, <1>2, <1>3, <1>4, <1>5, <1>6, <1>7 DEF Next, Parent

-----------------------------------------------------------------------------
\* What a program has come to in its loop it does not come to again.
LEMMA IssuedStep == TypeOK /\ LoopInv /\ [Next]_vars => \A r \in Rows : Issued(r) => Issued(r)'
  <1> SUFFICES ASSUME TypeOK, LoopInv, [Next]_vars, NEW r \in Rows, Issued(r) PROVE Issued(r)'
    OBVIOUS
  <1> USE Pairs DEF Issued
  <1>1. ASSUME NEW p \in Programs, MsgGet(p) PROVE Issued(r)' BY <1>1 DEF MsgGet, Goto, TypeOK
  <1>2. ASSUME NEW p \in Programs, MsgSnd(p) PROVE Issued(r)'
    <2>1. n[p] \in Int /\ r.num \in Int BY DEF TypeOK, Nums
    <2>2. \A q \in Programs : q # p => n'[q] = n[q] /\ pc'[q] = pc[q] BY <1>2 DEF MsgSnd, TypeOK, Goto
    <2>3. pc[p] = "fill" /\ (pc'[p] = "fork" \/ (pc'[p] = "fill" /\ n'[p] = n[p] + 1))
      BY <1>2 DEF MsgSnd, TypeOK, Goto
    <2> QED BY <2>1, <2>2, <2>3
  <1>3. ASSUME NEW p \in Programs, Fork(p) PROVE Issued(r)'
    <2>1. /\ pc'[p] \in {"fork", "wait"}
          /\ \A o \in Programs : o # p => pc'[o] = pc[o] /\ n'[o] = n[o]
      BY <1>3, Birth
    <2> QED BY <2>1
  <1>4. ASSUME NEW p \in Programs, Wait(p) \/ Remove(p) \/ Kill(p) PROVE Issued(r)'
    BY <1>4 DEF Wait, Remove, Kill, Goto, TypeOK
  <1>5. ASSUME NEW p \in Programs, NEW i \in Nums, MsgRcv(p, i) PROVE Issued(r)'
    <2>1. UNCHANGED <<pc, n>> BY <1>5, Receipt
    <2> QED BY <2>1
  <1>6. CASE UNCHANGED vars BY <1>6 DEF vars
  <1> QED BY <1>1, <1>2, <1>3, <1>4, <1>5, <1>6 DEF Next, Parent

\* The row that MsgSnd puts into the queue is one that was not issued before.
LEMMA Sending ==
  ASSUME TypeOK, LoopInv, NEW p \in Programs, MsgSnd(p)
  PROVE  /\ UNCHANGED <<msqid, key, result>> /\ msqid[p] # 0
         /\ \A q \in Programs : pc'[q] = "done" => pc[q] = "done"
         /\ \E r \in Rows :
              /\ r.of = p /\ ~Issued(r) /\ Issued(r)'
              /\ \/ queue' = Append(queue, r) /\ failed' = failed /\ msqid[p] = key
                 \/ queue' = queue /\ failed' = TRUE
  <1>1. n[p] \in Nums /\ n[p] \in Int /\ msqid[p] # 0 /\ pc[p] = "fill" /\ UNCHANGED <<msqid, key, result>>
    BY DEF MsgSnd, LoopInv, TypeOK
  <1>2. pc'[p] = "fork" \/ (pc'[p] = "fill" /\ n'[p] = n[p] + 1) BY DEF MsgSnd, TypeOK, Goto
  <1>3. \A q \in Programs : q # p => pc'[q] = pc[q] BY DEF MsgSnd, TypeOK, Goto
  <1>4. PICK r \in Rows : r = Row(p, n[p]) BY <1>1, Pairs
  <1>5. r.of = p /\ r.num = n[p] BY <1>1, <1>4, Pairs
  <1>6. ~Issued(r) /\ Issued(r)' BY <1>1, <1>2, <1>5 DEF Issued
  <1>7. \/ queue' = Append(queue, r) /\ failed' = failed /\ msqid[p] = key
        \/ queue' = queue /\ failed' = TRUE
    BY <1>4 DEF MsgSnd
  <1> QED BY <1>1, <1>2, <1>3, <1>5, <1>6, <1>7

\* The queue.
LEMMA QueueStep == MatrixInv /\ [Next]_vars => QueueInv'
  <1> SUFFICES ASSUME TypeOK, LoopInv, QueueInv, [Next]_vars PROVE QueueInv'
    BY DEF MatrixInv
  <1>0. queue \in Seq(Rows) /\ \A r \in Rows : Issued(r) => Issued(r)' BY IssuedStep DEF TypeOK
  <1>q. \A k \in DOMAIN queue : /\ queue[k] \in Rows /\ queue[k].of \in Programs
                                /\ pc[queue[k].of] # "start"
    BY <1>0, Pairs DEF QueueInv, Issued
  \* A step that leaves the queue to its programs.
  <1>same. ASSUME queue' = queue, \A k \in DOMAIN queue : msqid'[queue[k].of] = key' /\ pc'[queue[k].of] # "done"
           PROVE  QueueInv'
    <2>1. \A k \in DOMAIN queue : Issued(queue[k])'
      <3> SUFFICES ASSUME NEW k \in DOMAIN queue PROVE Issued(queue[k])' OBVIOUS
      <3>1. PICK r \in Rows : r = queue[k] /\ Issued(r)' BY <1>0, <1>q DEF QueueInv
      <3> QED BY <1>same, <3>1 DEF Issued
    <2> QED BY <1>same, <2>1 DEF QueueInv
  <1>1. ASSUME NEW p \in Programs, MsgGet(p) PROVE QueueInv'
    <2>1. /\ queue' = queue /\ pc[p] = "start" /\ pc'[p] # "done"
          /\ \A q \in Programs : q # p => msqid'[q] = msqid[q] /\ pc'[q] = pc[q]
      BY <1>1 DEF MsgGet, Goto, TypeOK
    <2>2. CASE queue = <<>> BY <2>1, <2>2 DEF QueueInv
    <2>3. CASE queue # <<>>
      <3>1. key' = key BY <1>1, <2>3 DEF MsgGet, TypeOK
      <3>2. \A k \in DOMAIN queue : queue[k].of # p BY <1>q, <2>1
      <3> QED BY <1>q, <1>same, <2>1, <3>1, <3>2 DEF QueueInv
    <2> QED BY <2>2, <2>3
  <1>2. ASSUME NEW p \in Programs, MsgSnd(p) PROVE QueueInv'
    <2>1. /\ UNCHANGED <<msqid, key>>
          /\ \A q \in Programs : pc'[q] = "done" => pc[q] = "done"
      BY <1>2, Sending
    <2>2. PICK r \in Rows :
            /\ r.of = p /\ ~Issued(r) /\ Issued(r)'
            /\ \/ queue' = Append(queue, r) /\ msqid[p] = key
               \/ queue' = queue
      BY <1>2, Sending
    <2>3. CASE queue' = queue BY <1>q, <1>same, <2>1, <2>3 DEF QueueInv
    <2>4. CASE queue' = Append(queue, r) /\ msqid[p] = key
      <3>1. Len(queue) \in Nat /\ DOMAIN queue = 1 .. Len(queue) /\ DOMAIN queue' = 1 .. Len(queue) + 1
            /\ queue'[Len(queue) + 1] = r /\ \A k \in DOMAIN queue : queue'[k] = queue[k]
        BY <1>0, <2>4
      <3>2. \A k \in DOMAIN queue : queue[k] # r BY <2>2 DEF QueueInv
      <3>3. pc[p] # "done" BY <1>2 DEF MsgSnd
      <3> SUFFICES ASSUME NEW k \in DOMAIN queue'
                   PROVE  /\ msqid'[queue'[k].of] = key' /\ pc'[queue'[k].of] # "done" /\ Issued(queue[k])'
                          /\ \A j \in DOMAIN queue' : queue'[j] = queue'[k] => j = k
        BY DEF QueueInv
      <3>4. CASE k = Len(queue) + 1
        <4>1. Issued(queue[k])' BY <2>2, <3>1, <3>4 DEF Issued
        <4>2. \A j \in DOMAIN queue' : queue'[j] = queue'[k] => j = k BY <3>1, <3>2, <3>4
        <4> QED BY <2>1, <2>2, <2>4, <3>1, <3>3, <3>4, <4>1, <4>2
      <3>5. CASE k # Len(queue) + 1
        <4>1. k \in DOMAIN queue /\ queue'[k] = queue[k] BY <3>1, <3>5
        <4>2. PICK s \in Rows : s = queue[k] /\ Issued(s)' BY <1>0, <1>q, <4>1 DEF QueueInv
        <4>3. Issued(queue[k])' BY <4>1, <4>2 DEF Issued
        <4>4. \A j \in DOMAIN queue' : queue'[j] = queue'[k] => j = k
          <5> SUFFICES ASSUME NEW j \in DOMAIN queue', queue'[j] = queue'[k] PROVE j = k OBVIOUS
          <5>1. j # Len(queue) + 1 BY <3>1, <3>2, <4>1
          <5> QED BY <3>1, <4>1, <5>1 DEF QueueInv
        <4> QED BY <1>q, <2>1, <4>1, <4>3, <4>4 DEF QueueInv
      <3> QED BY <3>4, <3>5
    <2> QED BY <2>2, <2>3, <2>4
  <1>3. ASSUME NEW p \in Programs, Fork(p) PROVE QueueInv'
    <2>1. /\ UNCHANGED <<msqid, key, queue>> /\ pc'[p] \in {"fork", "wait"}
          /\ \A o \in Programs : o # p => pc'[o] = pc[o]
      BY <1>3, Birth
    <2> QED BY <1>q, <1>same, <2>1 DEF QueueInv
  <1>4. ASSUME NEW p \in Programs, Wait(p) \/ Kill(p) PROVE QueueInv'
    <2>1. UNCHANGED <<msqid, key, queue>> /\ \A q \in Programs : pc'[q] = "done" => pc[q] = "done"
      BY <1>4 DEF Wait, Kill, Goto, TypeOK
    <2> QED BY <1>q, <1>same, <2>1 DEF QueueInv
  <1>5. ASSUME NEW p \in Programs, Remove(p) PROVE QueueInv'
    <2>1. CASE msqid[p] = key BY <1>5, <2>1 DEF Remove, QueueInv
    <2>2. CASE msqid[p] # key
      <3>1. UNCHANGED <<msqid, key, queue>> /\ \A q \in Programs : q # p => pc'[q] = pc[q]
        BY <1>5, <2>2 DEF Remove, Goto, TypeOK
      <3>2. \A k \in DOMAIN queue : queue[k].of # p BY <2>2 DEF QueueInv
      <3> QED BY <1>q, <1>same, <3>1, <3>2 DEF QueueInv
    <2> QED BY <2>1, <2>2
  <1>6. ASSUME NEW p \in Programs, NEW i \in Nums, MsgRcv(p, i) PROVE QueueInv'
    <2>1. UNCHANGED <<pc, n, msqid, key>> /\ (queue' = queue \/ (queue # <<>> /\ queue' = Tail(queue)))
      BY <1>6, Receipt
    <2>2. CASE queue' = queue BY <1>q, <1>same, <2>1, <2>2 DEF QueueInv
    <2>3. CASE queue # <<>> /\ queue' = Tail(queue)
      <3>1. \A k \in DOMAIN queue' : k \in Int /\ k + 1 \in DOMAIN queue /\ queue'[k] = queue[k + 1]
        BY <1>0, <2>3
      <3> QED BY <2>1, <3>1 DEF QueueInv, Issued
    <2> QED BY <2>1, <2>2, <2>3
  <1>7. CASE UNCHANGED vars BY <1>7 DEF vars, QueueInv, Issued
  <1> QED BY <1>1, <1>2, <1>3, <1>4, <1>5, <1>6, <1>7 DEF Next, Parent

\* The results.
LEMMA ResultStep == MatrixInv /\ [Next]_vars => ResultInv'
  <1> SUFFICES ASSUME TypeOK, LoopInv, QueueInv, ResultInv, [Next]_vars PROVE ResultInv'
    BY DEF MatrixInv
  <1>0. /\ queue \in Seq(Rows) /\ result \in [Children -> Rows \cup {NoRow}] /\ failed \in BOOLEAN
        /\ \A r \in Rows : Issued(r) => Issued(r)'
    BY IssuedStep DEF TypeOK
  \* What has been issued stays so, as a result too.
  <1>issued. ASSUME NEW c \in Children, result'[c] = result[c], result[c] # NoRow PROVE Issued(result[c])'
    <2>1. PICK r \in Rows : r = result[c] /\ Issued(r)' BY <1>0, <1>issued DEF ResultInv
    <2> QED BY <1>issued, <2>1 DEF Issued
  \* A step that has no result, and puts nothing that could be one into the queue.
  <1>same. ASSUME UNCHANGED result, failed => failed',
                  \A k \in DOMAIN queue' : (\E j \in DOMAIN queue : queue'[k] = queue[j]) \/ ~Issued(queue'[k])
           PROVE  ResultInv'
    <2> SUFFICES ASSUME NEW c \in Children, result[c] # NoRow
                 PROVE  /\ Issued(result[c])'
                        /\ \A k \in DOMAIN queue' : result[c] = queue'[k] => failed' /\ result[c] = Row(c[1], Count)
                        /\ \A d \in Children : c # d /\ result[c] = result[d] =>
                             failed' /\ \E e \in {c, d} : result[e] = Row(e[1], Count)
      BY <1>same DEF ResultInv
    <2>1. ASSUME NEW k \in DOMAIN queue', result[c] = queue'[k] PROVE failed' /\ result[c] = Row(c[1], Count)
      <3>1. PICK j \in DOMAIN queue : queue'[k] = queue[j] BY <1>same, <2>1 DEF ResultInv
      <3> QED BY <1>same, <2>1, <3>1 DEF ResultInv
    <2> QED BY <1>issued, <1>same, <2>1 DEF ResultInv
  <1>1. ASSUME NEW p \in Programs, MsgGet(p) \/ Wait(p) \/ Kill(p) PROVE ResultInv'
    <2>1. UNCHANGED <<result, queue>> /\ (failed => failed') BY <1>1 DEF MsgGet, Wait, Kill
    <2> QED BY <1>same, <2>1
  <1>2. ASSUME NEW p \in Programs, Fork(p) PROVE ResultInv'
    <2>1. UNCHANGED <<result, queue, failed>> BY <1>2, Birth
    <2> QED BY <1>same, <2>1
  <1>3. ASSUME NEW p \in Programs, Remove(p) PROVE ResultInv'
    <2>1. UNCHANGED <<result, failed>> /\ (queue' = queue \/ queue' = <<>>) BY <1>3 DEF Remove
    <2> QED BY <1>same, <2>1
  <1>4. ASSUME NEW p \in Programs, MsgSnd(p) PROVE ResultInv'
    <2>1. result' = result BY <1>4, Sending
    <2>2. PICK r \in Rows : /\ ~Issued(r)
                            /\ \/ queue' = Append(queue, r) /\ failed' = failed
                               \/ queue' = queue /\ failed' = TRUE
      BY <1>4, Sending
    <2>3. CASE queue' = queue /\ failed' = TRUE BY <1>same, <2>1, <2>3
    <2>4. CASE queue' = Append(queue, r) /\ failed' = failed
      <3>1. \A k \in DOMAIN queue' : (k \in DOMAIN queue /\ queue'[k] = queue[k]) \/ queue'[k] = r
        BY <1>0, <2>4
      <3> QED BY <1>same, <2>1, <2>2, <2>4, <3>1
    <2> QED BY <2>2, <2>3, <2>4
  <1>5. ASSUME NEW p \in Programs, NEW i \in Nums, MsgRcv(p, i) PROVE ResultInv'
    <2> DEFINE me == <<p, i>>
    <2>1. /\ me \in Children /\ child[me] = "run" /\ UNCHANGED <<pc, n>>
          /\ \A c \in Children : c # me => result'[c] = result[c]
      <3>1. me \in Children BY Pairs
      <3>2. child[<<p, i>>] = "run" /\ UNCHANGED <<pc, n>> BY <1>5, Receipt
      <3>3. \A c \in Children : c # <<p, i>> => result'[c] = result[c] BY <1>5, Receipt
      <3> QED BY <3>1, <3>2, <3>3
    <2>2. result[me] = NoRow /\ pc[p] \notin {"start", "fill"} /\ me[1] = p BY <2>1 DEF LoopInv
    <2> HIDE DEF me
    <2>3. CASE queue # <<>> /\ result'[me] = Head(queue) /\ queue' = Tail(queue) /\ failed' = failed
      <3>1. /\ 1 \in DOMAIN queue /\ result'[me] = queue[1]
            /\ \A k \in DOMAIN queue' : k # 0 /\ k + 1 \in DOMAIN queue /\ queue'[k] = queue[k + 1] /\ k + 1 # 1
        BY <1>0, <2>3
      <3>2. \A k \in DOMAIN queue' : result'[me] # queue'[k] BY <3>1 DEF QueueInv
      <3>3. Issued(result[me])' BY <2>1, <3>1 DEF Issued, QueueInv
      <3>4. ASSUME NEW d \in Children, d # me, result[d] = result'[me]
            PROVE  failed /\ result[d] = Row(d[1], Count)
        <4>1. result[d] # NoRow BY <1>0, <3>1, <3>4, Pairs
        <4> QED BY <3>1, <3>4, <4>1 DEF ResultInv
      <3> SUFFICES ASSUME NEW c \in Children, result'[c] # NoRow
                   PROVE  /\ Issued(result[c])'
                          /\ \A k \in DOMAIN queue' : result'[c] = queue'[k] => failed' /\ result'[c] = Row(c[1], Count)
                          /\ \A d \in Children : c # d /\ result'[c] = result'[d] =>
                               failed' /\ \E e \in {c, d} : result'[e] = Row(e[1], Count)
        BY DEF ResultInv
      <3>5. CASE c = me BY <2>1, <2>3, <3>2, <3>3, <3>4, <3>5
      <3>6. CASE c # me
        <4>1. result'[c] = result[c] BY <2>1, <3>6
        <4>2. Issued(result[c])' BY <1>issued, <4>1
        <4>3. ASSUME NEW k \in DOMAIN queue', result'[c] = queue'[k]
              PROVE  failed' /\ result'[c] = Row(c[1], Count)
          BY <2>3, <3>1, <4>1, <4>3 DEF ResultInv
        <4>4. ASSUME NEW d \in Children, c # d, result'[c] = result'[d]
              PROVE  failed' /\ \E e \in {c, d} : result'[e] = Row(e[1], Count)
          <5>1. CASE d = me BY <2>3, <3>4, <3>6, <4>1, <4>4, <5>1
          <5>2. CASE d # me
            <6>1. result'[d] = result[d] BY <2>1, <5>2
            <6>2. PICK e \in {c, d} : failed /\ result[e] = Row(e[1], Count) BY <4>1, <4>4, <6>1 DEF ResultInv
            <6> QED BY <2>3, <4>1, <6>1, <6>2
          <5> QED BY <5>1, <5>2
        <4> QED BY <4>2, <4>3, <4>4
      <3> QED BY <3>5, <3>6
    <2>4. CASE result'[me] = Row(p, Count) /\ failed' = TRUE /\ queue' = queue
      <3>1. Issued(result[me])' BY <2>1, <2>2, <2>4, MatrixAssumption, Pairs DEF Issued
      <3> SUFFICES ASSUME NEW c \in Children, result'[c] # NoRow
                   PROVE  /\ Issued(result[c])'
                          /\ \A k \in DOMAIN queue' : result'[c] = queue'[k] => failed' /\ result'[c] = Row(c[1], Count)
                          /\ \A d \in Children : c # d /\ result'[c] = result'[d] =>
                               failed' /\ \E e \in {c, d} : result'[e] = Row(e[1], Count)
        BY DEF ResultInv
      <3>5. CASE c = me BY <2>2, <2>4, <3>1, <3>5
      <3>6. CASE c # me
        <4>1. result'[c] = result[c] BY <2>1, <3>6
        <4>2. Issued(result[c])' BY <1>issued, <4>1
        <4>3. ASSUME NEW k \in DOMAIN queue', result'[c] = queue'[k]
              PROVE  failed' /\ result'[c] = Row(c[1], Count)
          BY <2>4, <4>1, <4>3 DEF ResultInv
        <4>4. ASSUME NEW d \in Children, c # d, result'[c] = result'[d]
              PROVE  failed' /\ \E e \in {c, d} : result'[e] = Row(e[1], Count)
          <5>1. CASE d = me BY <2>2, <2>4, <5>1
          <5>2. CASE d # me
            <6>1. result'[d] = result[d] BY <2>1, <5>2
            <6>2. PICK e \in {c, d} : failed /\ result[e] = Row(e[1], Count) BY <4>1, <4>4, <6>1 DEF ResultInv
            <6> QED BY <2>4, <4>1, <6>1, <6>2
          <5> QED BY <5>1, <5>2
        <4> QED BY <4>2, <4>3, <4>4
      <3> QED BY <3>5, <3>6
    <2>5. \/ queue # <<>> /\ result'[me] = Head(queue) /\ queue' = Tail(queue) /\ failed' = failed
          \/ result'[me] = Row(p, Count) /\ failed' = TRUE /\ queue' = queue
      BY <1>5, Receipt DEF me
    <2> QED BY <2>3, <2>4, <2>5
  <1>6. CASE UNCHANGED vars
    <2>1. UNCHANGED <<result, queue, failed>> BY <1>6 DEF vars
    <2> QED BY <1>same, <2>1
  <1> QED BY <1>1, <1>2, <1>3, <1>4, <1>5, <1>6 DEF Next, Parent

LEMMA MatrixInvariant == Spec => []MatrixInv
  <1>1. MatrixInv /\ [Next]_vars => MatrixInv'
    BY MatrixTypes, LoopStep, QueueStep, ResultStep DEF MatrixInv
  <1> QED BY <1>1, MatrixInit, PTL DEF Spec

-----------------------------------------------------------------------------
\* As many children as rows: children with results of their own have done all rows.
LEMMA AllRows ==
  ASSUME result \in [Children -> Rows], \A c, d \in Children : result[c] = result[d] => c = d
  PROVE  {result[c] : c \in Children} = Rows
  <1>1. IsFiniteSet(Children)
    <2>1. IsFiniteSet(Nums) BY MatrixAssumption, FS_Interval DEF Nums
    <2> QED BY <2>1, MatrixAssumption, FS_Product DEF Children
  <1> DEFINE row == [c \in Children |-> Row(c[1], c[2])]
  <1>2. row \in Surjection(Children, Rows)
    <2>1. row \in [Children -> Rows] BY Pairs
    <2>2. \A r \in Rows : \E c \in Children : row[c] = r
      <3> SUFFICES ASSUME NEW r \in Rows PROVE \E c \in Children : row[c] = r OBVIOUS
      <3>1. <<r.of, r.num>> \in Children /\ row[<<r.of, r.num>>] = r BY Pairs
      <3> QED BY <3>1
    <2> QED BY <2>1, <2>2 DEF Surjection
  <1>3. row \in Injection(Children, Rows)
    <2>1. \A c, d \in Children : row[c] = row[d] => c = d BY Pairs DEF Row
    <2> QED BY <1>2, <2>1 DEF Injection, IsInjective, Surjection
  <1> HIDE DEF row
  <1>4. IsFiniteSet(Rows) /\ Cardinality(Rows) = Cardinality(Children) BY <1>1, <1>2, <1>3, FS_Surjection
  <1>5. result \in Injection(Children, Rows) BY DEF Injection, IsInjective
  <1>6. result \in Surjection(Children, Rows) BY <1>4, <1>5, FS_Injection
  <1> QED BY <1>6 DEF Surjection

\* For any programs, rows and queue the variables stay within their types.
THEOREM SharedMatrixTyped == Spec => []TypeOK
  <1>1. MatrixInv => TypeOK BY DEF MatrixInv
  <1> QED BY <1>1, MatrixInvariant, PTL

\* However many programs share the queue, remove it and make it anew, two children work on one row
\* only where one of them came too late; and where nothing fails all rows are done
\* (main.c:40, 52, 66-67).
THEOREM EachRowDealtOut == Spec => []RowsDealtOut
  <1>1. MatrixInv => RowsDealtOut
    <2> SUFFICES ASSUME TypeOK, LoopInv, ResultInv PROVE RowsDealtOut BY DEF MatrixInv
    <2>1. ASSUME NEW c \in Children, NEW d \in Children, c # d, result[c] = result[d], result[c] # NoRow
          PROVE  failed /\ \E e \in {c, d} : result[e] = Row(e[1], Count)
      BY <2>1 DEF ResultInv
    <2>2. ASSUME ~failed, \A c \in Children : child[c] = "done"
          PROVE  {result[c] : c \in Children} = Rows
      <3>1. \A c \in Children : result[c] # NoRow BY <2>2, Pairs DEF LoopInv
      <3>2. result \in [Children -> Rows] BY <3>1 DEF TypeOK
      <3> QED BY <2>1, <2>2, <3>1, <3>2, AllRows
    <2> QED BY <2>1, <2>2 DEF RowsDealtOut
  <1> QED BY <1>1, MatrixInvariant, PTL

\* A program that has ended by itself has no row in the queue, whoever has removed or made
\* it meanwhile (main.c:33, 40, 67).
THEOREM NothingLeftBehind == Spec => []CleanExitLeavesNothing
  <1>1. MatrixInv => CleanExitLeavesNothing BY DEF MatrixInv, QueueInv, CleanExitLeavesNothing
  <1> QED BY <1>1, MatrixInvariant, PTL
=============================================================================
