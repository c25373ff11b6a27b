-------------------------- MODULE ProcBufferProofs --------------------------
(***************************************************************************)
(* What ProcBuffer promises, for any processes, buffer, lengths and        *)
(* counts: a text that is read by calls that come one by one is given out  *)
(* to its end, piece by piece, and what accidents need.                    *)
(***************************************************************************)
EXTENDS ProcBuffer, SequenceTheorems, TLAPS

-----------------------------------------------------------------------------
(* The inductive invariant.                                                *)

Writing(p) == proc[p].pc \in InWrite
Catting(p) == proc[p].pc \in {"call"} \cup InRead

\* What is left of the text, and what a call is given of it.
Left     == len - given
Share(p) == IF proc[p].asked > Left THEN Left ELSE proc[p].asked

ShownType == [id : Garbage .. MaxUses, place : Places]

Labels == {"idle", "call"} \cup InRead \cup InWrite
Passed == Asked \cup Lengths \cup {0}
Counts == Asked \cup Int32
Ids    == 0 .. MaxUses

ProcType == [pc : Labels, asked : Passed, count : Counts, loaded : Int32, id : Ids]

ReadingType == reading \in [by : SUBSET Procs, asked : Asked \cup {0},
                            shown : Seq(ShownType), over : BOOLEAN]

\* The arguments of calls stay what they were.
CallInv ==
  \A p \in Procs :
    /\ Catting(p) => proc[p].asked \in Asked
    /\ Writing(p) => proc[p].count \in Nat /\ (proc[p].pc # "copy_from" => proc[p].count <= BUFSIZE)

\* Without a race at most one call is running, in a module that is loaded.
OneInv ==
  /\ raced => text = NoText /\ given = 0 /\ reading = NoReading
  /\ ~raced => (\A p, q \in Busy : p = q) /\ (Busy # {} => module = "live")
  /\ ~raced /\ module \in {"new", "entry", "raw"} => text = NoText

\* How far a writer that is alone has come.
Written(p) ==
  /\ proc[p].pc \in {"set_len", "set_temp"} => \A k \in 0 .. proc[p].count - 1 : msg[k] = proc[p].id
  /\ proc[p].pc = "set_temp" => len = proc[p].count

WrittenInv == ~raced => \A p \in Procs : Written(p)

\* Between writes the text stands in msg, and between calls temp is what is left of it.
TextStands ==
  /\ len = text.len
  /\ HasMemory => \A k \in 0 .. len - 1 : msg[k] = text.id

TextInv ==
  ~raced /\ (\A p \in Procs : ~Writing(p)) => TextStands /\ (Busy = {} => temp = Left)

\* What a reader that is alone has worked out at each of its statements.
Shared(p) ==
  /\ proc[p].pc \in {"limit", "assign", "subtract", "store"} => temp = Left
  /\ proc[p].pc \in {"limit", "assign"} => proc[p].count = proc[p].asked
  /\ proc[p].pc = "assign" => proc[p].count > temp
  /\ proc[p].pc \in {"assign", "subtract"} => proc[p].loaded = Left
  /\ proc[p].pc \in {"subtract", "store", "copy_to"} => proc[p].count = Share(p)
  /\ proc[p].pc = "store" => proc[p].loaded = Left - proc[p].count
  /\ proc[p].pc = "copy_to" => temp = Left - proc[p].count
  /\ proc[p].pc \in {"load_len", "rewind"} => Left = 0
  /\ proc[p].pc = "rewind" => proc[p].loaded = len

ShareInv == ~raced => \A p \in Procs : Shared(p)

\* A reading has been given as many bytes as its calls have taken off the text, in whole
\* pieces of its count until the end.
Whole(g, a) == \E m \in Nat : g = m * a

ReadingInv ==
  /\ reading.by = {} => reading = NoReading
  /\ \A p \in reading.by :
       /\ reading.by = {p} /\ Busy \subseteq {p} /\ reading.asked \in Asked
       /\ Catting(p) => ~reading.over /\ reading.asked = proc[p].asked
       /\ \A k \in DOMAIN reading.shown :
            reading.shown[k] = [id |-> text.id, place |-> (k - 1) % reading.asked]
       /\ IF reading.over THEN Len(reading.shown) = text.len
          ELSE Len(reading.shown) = given /\ (given = text.len \/ Whole(given, reading.asked))

\* What every step keeps, and two kinds of state in which no more is to be said: one in
\* which nothing is remembered, and one in which no call is running.
Basics == TypeOK /\ ReadingType /\ CallInv

Forgotten == raced /\ text = NoText /\ given = 0 /\ reading = NoReading

Settled ==
  /\ ~raced /\ Busy = {} /\ OneInv /\ AccidentsExplained /\ ReadingInv
  /\ TextStands /\ temp = Left

\* A third one: p is in the only call that is running.
Solo(p) ==
  /\ ~raced /\ Busy = {p} /\ module = "live" /\ AccidentsExplained /\ ReadingInv
  /\ Written(p) /\ Shared(p) /\ (~Writing(p) => TextStands)

Solitary == \E p \in Procs : Solo(p)

ProcInv ==
  /\ TypeOK /\ ReadingType /\ CallInv /\ OneInv /\ AccidentsExplained
  /\ WrittenInv /\ TextInv /\ ShareInv /\ ReadingInv

-----------------------------------------------------------------------------
(* Arithmetic.                                                             *)

\* Division by a positive number leaves a remainder below it.
LEMMA Remainder ==
  ASSUME NEW n \in Int, NEW d \in Nat \ {0}
  PROVE  n % d \in 0 .. d - 1
  BY SMT

\* A remainder is what exceeds a multiple.
LEMMA RemainderOfMultiple ==
  ASSUME NEW d \in Nat \ {0}, NEW m \in Nat, NEW j \in 0 .. d - 1
  PROVE  (m * d + j) % d = j
  BY SMT

\* AsInt yields an int, and leaves what is one.
LEMMA AsIntRange ==
  ASSUME NEW n \in Int
  PROVE  AsInt(n) \in Int32
<1>1. (n + Half) % (2 * Half) \in 0 .. 2 * Half - 1 BY Remainder, ProcAssumption
<1> QED BY <1>1, ProcAssumption DEF AsInt, Int32

LEMMA AsIntKeeps ==
  ASSUME NEW n \in 0 .. BUFSIZE
  PROVE  AsInt(n) = n
<1> DEFINE d == 2 * Half
<1>1. d \in Nat \ {0} /\ n + Half \in 0 .. d - 1 BY ProcAssumption
<1>2. (0 * d + (n + Half)) % d = n + Half BY <1>1, RemainderOfMultiple
<1>3. 0 * d + (n + Half) = n + Half BY <1>1
<1> QED BY <1>1, <1>2, <1>3, ProcAssumption DEF AsInt

-----------------------------------------------------------------------------
(* What follows from the invariant in any state.                           *)

\* A call that runs without a race is the only one, and the module is loaded.
LEMMA Alone ==
  ASSUME OneInv, ~raced, NEW p \in Procs, p \in Busy
  PROVE  /\ module = "live" /\ HasEntry /\ HasMemory
         /\ \A q \in Procs \ {p} : proc[q].pc \notin InRead \cup InWrite
         /\ Busy = {p}
  BY DEF OneInv, Busy, HasEntry, HasMemory

\* After a race nothing is remembered, so types and arguments are all there is to say.
LEMMA ForgottenIsEnough == Basics /\ Forgotten => ProcInv
<1> SUFFICES ASSUME Basics, Forgotten PROVE ProcInv OBVIOUS
<1> USE DEF Basics, Forgotten
<1>1. OneInv BY DEF OneInv
<1>2. ReadingInv BY DEF ReadingInv, NoReading
<1> QED BY <1>1, <1>2 DEF ProcInv, AccidentsExplained, WrittenInv, TextInv, ShareInv

\* Without a running call only the text and the reading are to be looked at.
LEMMA SettledIsEnough == Basics /\ Settled => ProcInv
<1> SUFFICES ASSUME Basics, Settled PROVE ProcInv OBVIOUS
<1> USE DEF Basics, Settled
<1>1. \A p \in Procs : proc[p].pc \notin InRead \cup InWrite BY DEF Busy
<1>2. WrittenInv /\ ShareInv BY <1>1 DEF WrittenInv, Written, ShareInv, Shared, InRead, InWrite
<1>3. TextInv BY DEF TextInv
<1> QED BY <1>2, <1>3 DEF ProcInv

\* A call that runs alone has only itself to look at.
LEMMA SolitaryIsEnough == Basics /\ Solitary => ProcInv
<1> SUFFICES ASSUME Basics, NEW p \in Procs, Solo(p) PROVE ProcInv BY DEF Solitary
<1> USE DEF Basics, Solo
<1>1. \A q \in Procs \ {p} : proc[q].pc \notin InRead \cup InWrite BY DEF Busy
<1>2. WrittenInv /\ ShareInv BY <1>1 DEF WrittenInv, Written, ShareInv, Shared, InRead, InWrite
<1>3. TextInv BY <1>1 DEF TextInv, Writing
<1>4. OneInv BY DEF OneInv
<1> QED BY <1>2, <1>3, <1>4 DEF ProcInv

LEMMA Solos ==
  ASSUME ProcInv, ~raced, NEW p \in Procs, p \in Busy
  PROVE  /\ Solo(p) /\ HasMemory
         /\ \A q \in Procs \ {p} : proc[q].pc \notin InRead \cup InWrite
<1>1. OneInv BY DEF ProcInv
<1>2. /\ module = "live" /\ HasMemory /\ Busy = {p}
      /\ \A q \in Procs \ {p} : proc[q].pc \notin InRead \cup InWrite
  BY <1>1, Alone
<1>3. ~Writing(p) => TextStands BY <1>2 DEF ProcInv, TextInv, Writing
<1> QED BY <1>2, <1>3 DEF ProcInv, Solo, WrittenInv, ShareInv

\* A state without a race in which no call is running is settled.
LEMMA Settles ==
  ASSUME ProcInv, ~raced, Busy = {}
  PROVE  Settled
<1>1. \A p \in Procs : ~Writing(p) BY DEF Busy, Writing
<1> QED BY <1>1 DEF ProcInv, Settled, TextInv

\* Before anything has happened.
LEMMA InitProc == Init => ProcInv
<1> SUFFICES ASSUME Init PROVE ProcInv OBVIOUS
<1> USE ProcAssumption DEF Init
<1>1. proc \in [Procs -> ProcType]
  BY DEF ProcType, Labels, Passed, Counts, Ids, Idle, Int32
<1>2. msg \in [Places -> Garbage .. MaxUses] BY DEF Places, Garbage
<1>3. TypeOK
  <2>1. len \in 0 .. BUFSIZE /\ temp \in Int32 /\ uses \in 0 .. MaxUses BY DEF Int32
  <2>2. text \in [id : 0 .. MaxUses, len : 0 .. BUFSIZE] /\ given \in 0 .. text.len BY DEF NoText
  <2>3. reading.by \in SUBSET Procs /\ Len(reading.shown) <= text.len BY DEF NoReading, NoText
  <2> QED BY <1>1, <1>2, <2>1, <2>2, <2>3 DEF TypeOK, ProcType, Labels, Passed, Counts, Ids
<1>4. ReadingType BY DEF ReadingType, NoReading
<1>5. Busy = {} BY DEF Busy, Idle, InRead, InWrite
<1>6. CallInv BY DEF CallInv, Catting, Writing, Idle, InRead, InWrite
<1>7. OneInv BY <1>5 DEF OneInv
<1>8. ReadingInv BY DEF ReadingInv, NoReading
<1>9. Settled
  BY <1>5, <1>7, <1>8 DEF Settled, AccidentsExplained, TextStands, NoText, Left, HasMemory
<1> QED BY <1>3, <1>4, <1>6, <1>9, SettledIsEnough DEF Basics

-----------------------------------------------------------------------------
(* Loading and unloading: without a race no call is running.               *)

LEMMA LoadKeeps ==
  ASSUME ProcInv, status = "running", Load
  PROVE  ProcInv'
<1> USE DEF ProcInv
<1>1. /\ proc' = proc /\ len' = len /\ temp' = temp /\ uses' = uses /\ status' = status
      /\ raced' = raced /\ text' = text /\ given' = given /\ reading' = reading /\ Busy' = Busy
  BY DEF Load, histVars, Busy
<1>2. TypeOK'
  BY <1>1, ProcAssumption DEF Load, TypeOK, ProcCreate, Kmalloc, Memset, RemoveProcEntry, Kfree, Zero, Garbage, Places
<1>3. ReadingType' BY <1>1 DEF ReadingType
<1>4. CallInv' BY <1>1 DEF CallInv, Catting, Writing
<1> Basics' BY <1>2, <1>3, <1>4 DEF Basics
<1>5. CASE raced
  <2>1. Forgotten' BY <1>1, <1>5 DEF OneInv, Forgotten
  <2> QED BY <2>1, ForgottenIsEnough, PTL
<1>6. CASE ~raced
  <2>1. Busy = {}
    BY <1>6 DEF OneInv, Load, ProcCreate, Kmalloc, Memset, RemoveProcEntry, Kfree
  <2>2. Settled BY <1>6, <2>1, Settles
  <2>3. OneInv'
    BY <1>1, <1>6, <2>1 DEF OneInv, Load, ProcCreate, Kmalloc, Memset, RemoveProcEntry, Kfree
  <2>4. ReadingInv' BY <1>1 DEF ReadingInv, Catting
  <2>5. HasMemory' => \A k \in 0 .. len' - 1 : msg'[k] = text'.id
    <3>1. CASE ProcCreate \/ Kfree BY <3>1 DEF ProcCreate, Kfree, HasMemory
    <3>2. CASE Kmalloc \/ Memset BY <1>1, <1>6, <2>2, <3>2 DEF Kmalloc, Memset, OneInv, NoText, Settled, TextStands
    <3>3. CASE RemoveProcEntry BY <1>1, <2>2, <3>3 DEF RemoveProcEntry, HasMemory, Settled, TextStands
    <3> QED BY <3>1, <3>2, <3>3 DEF Load
  <2>6. Settled' BY <1>1, <1>6, <2>1, <2>2, <2>3, <2>4, <2>5 DEF Settled, TextStands, Left, AccidentsExplained
  <2> QED BY <2>6, SettledIsEnough, PTL
<1> QED BY <1>5, <1>6

-----------------------------------------------------------------------------
(* write_proc.                                                             *)

\* A step moves one process, and the others stay where they are.
Moves(p) == \A q \in Procs \ {p} : proc'[q] = proc[q]

LEMMA BusyStep ==
  ASSUME NEW p \in Procs, Moves(p), \A q \in Procs \ {p} : proc[q].pc \notin InRead \cup InWrite
  PROVE  Busy' = IF proc'[p].pc \in InRead \cup InWrite THEN {p} ELSE {}
  BY DEF Busy, Moves

\* What the other processes pass stays what it was.
LEMMA CallStep ==
  ASSUME NEW p \in Procs, Moves(p), CallInv,
         Catting(p)' => proc'[p].asked \in Asked,
         Writing(p)' => proc'[p].count \in Nat /\ (proc'[p].pc # "copy_from" => proc'[p].count <= BUFSIZE)
  PROVE  CallInv'
  BY DEF Moves, CallInv, Catting, Writing

LEMMA WriteProcKeeps ==
  ASSUME ProcInv, status = "running", NEW p \in Procs, NEW n \in Lengths, WriteProc(p, n)
  PROVE  ProcInv'
<1> USE DEF ProcInv
<1>1. n \in Nat /\ n \in Int32 BY ProcAssumption DEF Int32
<1>2. TypeOK'
  <2>1. proc' \in [Procs -> ProcType]
    BY <1>1, ProcAssumption DEF WriteProc, TypeOK, ProcType, Labels, Passed, Counts, Ids, InWrite, Int32
  <2>2. /\ raced' \in BOOLEAN /\ text' \in [id : 0 .. MaxUses, len : 0 .. BUFSIZE] /\ given' \in 0 .. text'.len
        /\ reading'.by \in SUBSET Procs /\ Len(reading'.shown) <= text'.len
    BY ProcAssumption DEF WriteProc, Begins, TypeOK, NoText, NoReading
  <2> QED BY <2>1, <2>2, ProcAssumption DEF WriteProc, TypeOK, ProcType, Labels, Passed, Counts, Ids
<1>3. ReadingType' BY DEF WriteProc, Begins, ReadingType, NoReading
<1>4. CallInv'
  BY <1>1 DEF WriteProc, CallInv, Catting, Writing, InRead, InWrite, TypeOK
<1> Basics' BY <1>2, <1>3, <1>4 DEF Basics
<1>5. CASE Busy # {} \/ module # "live"
  <2>1. Forgotten' BY <1>5 DEF WriteProc, Begins, Forgotten, NoText
  <2> QED BY <2>1, ForgottenIsEnough, PTL
<1>6. CASE Busy = {} /\ module = "live"
  <2>1. ~raced' /\ text' = text /\ given' = given /\ module' = module /\ status' = status
    BY <1>6 DEF WriteProc, Begins
  <2>2. proc'[p].pc = "copy_from" BY DEF WriteProc, TypeOK
  <2>3. Busy' = {p} BY <1>6, <2>2, BusyStep DEF WriteProc, Moves, Busy, InWrite, TypeOK
  <2>4. ReadingInv'
    <3>1. CASE raced \/ reading.by # {p}
      <4>1. reading' = NoReading BY <1>6, <3>1 DEF WriteProc, Begins, OneInv, NoReading
      <4> QED BY <4>1 DEF ReadingInv, NoReading
    <3>2. CASE ~raced /\ reading.by = {p}
      <4>1. reading' = reading BY <1>6, <3>2 DEF WriteProc, Begins
      <4> QED BY <2>1, <2>2, <2>3, <3>2, <4>1 DEF ReadingInv, Catting, InRead
    <3> QED BY <3>1, <3>2
  <2>5. Written(p)' /\ Shared(p)' /\ Writing(p)'
    BY <2>2 DEF Written, Shared, Writing, InWrite
  <2>6. Solo(p)' BY <1>6, <2>1, <2>3, <2>4, <2>5 DEF Solo, AccidentsExplained
  <2>7. Solitary' BY <2>6 DEF Solitary
  <2> QED BY <2>7, SolitaryIsEnough, PTL
<1> QED BY <1>5, <1>6
LEMMA CopyFromUserKeeps ==
  ASSUME ProcInv, status = "running", NEW p \in Procs, CopyFromUser(p)
  PROVE  ProcInv'
<1> USE DEF ProcInv
<1>1. /\ module' = module /\ len' = len /\ temp' = temp /\ uses' = uses /\ raced' = raced /\ text' = text
      /\ given' = given /\ reading' = reading
  BY DEF CopyFromUser, histVars
<1>2. p \in Busy /\ Writing(p) /\ ~Catting(p) BY DEF CopyFromUser, Busy, Writing, Catting, InWrite, InRead
<1>3. CASE ~InMsg(proc[p].count)
  <2>1. proc[p].count \in Nat BY <1>2 DEF CallInv
  <2>2. proc' = proc /\ msg' = msg /\ status' = "undefined" BY <1>3 DEF CopyFromUser
  <2>3. Basics' BY <1>1, <2>2 DEF Basics, TypeOK, ReadingType, CallInv, Catting, Writing
  <2>4. CASE raced
    <3>1. Forgotten' BY <1>1, <2>4 DEF OneInv, Forgotten
    <3> QED BY <2>3, <3>1, ForgottenIsEnough, PTL
  <2>5. CASE ~raced
    <3>1. Solo(p) /\ HasMemory BY <1>2, <2>5, Solos
    <3>2. proc[p].count > BUFSIZE BY <1>3, <2>1, <3>1, ProcAssumption DEF InMsg
    <3>3. AccidentsExplained' BY <2>2, <3>2 DEF AccidentsExplained, CopyFromUser
    <3>4. Solo(p)'
      BY <1>1, <2>2, <3>1, <3>3
      DEF Solo, Busy, ReadingInv, Catting, Written, Shared, Share, Left, Writing, TextStands, HasMemory
    <3>5. Solitary' BY <3>4 DEF Solitary
    <3> QED BY <2>3, <3>5, SolitaryIsEnough, PTL
  <2> QED BY <2>4, <2>5
<1>4. CASE InMsg(proc[p].count)
  <2>1. /\ proc' = [proc EXCEPT ![p].pc = "set_len"] /\ status' = status
        /\ msg' = [k \in Places |-> IF k < proc[p].count THEN proc[p].id ELSE msg[k]]
    BY <1>4 DEF CopyFromUser, Goto
  <2>2. /\ Moves(p) /\ proc'[p].pc = "set_len" /\ proc'[p].count = proc[p].count /\ proc'[p].id = proc[p].id
    BY <2>1 DEF Moves, TypeOK
  <2>3. ~Catting(p)' /\ Writing(p)' BY <2>2 DEF Catting, Writing, InRead, InWrite
  <2>4. TypeOK'
    <3>1. msg' \in [Places -> Garbage .. MaxUses] BY <2>1, ProcAssumption DEF TypeOK, Garbage
    <3>2. proc' \in [Procs -> ProcType]
      BY <2>1 DEF TypeOK, ProcType, Labels, Passed, Counts, Ids, InWrite
    <3> QED BY <1>1, <2>1, <3>1, <3>2 DEF TypeOK, ProcType, Labels, Passed, Counts, Ids
  <2>5. ReadingType' BY <1>1 DEF ReadingType
  <2>6. CallInv'
    <3>1. proc[p].count \in Nat BY <1>2 DEF CallInv
    <3>2. proc[p].count <= BUFSIZE BY <1>4, <3>1, ProcAssumption DEF InMsg
    <3> QED BY <2>2, <2>3, <3>1, <3>2, CallStep
  <2> Basics' BY <2>4, <2>5, <2>6 DEF Basics
  <2>7. CASE raced
    <3>1. Forgotten' BY <1>1, <2>7 DEF OneInv, Forgotten
    <3> QED BY <3>1, ForgottenIsEnough, PTL
  <2>8. CASE ~raced
    <3>1. Solo(p) /\ (\A q \in Procs \ {p} : proc[q].pc \notin InRead \cup InWrite) BY <1>2, <2>8, Solos
    <3>2. Busy' = {p} BY <2>2, <3>1, BusyStep DEF InWrite
    <3>3. \A k \in 0 .. proc[p].count - 1 : msg'[k] = proc[p].id
      <4>1. proc[p].count \in 0 .. BUFSIZE
        <5>1. proc[p].count \in Nat BY <1>2 DEF CallInv
        <5> QED BY <1>4, <5>1, ProcAssumption DEF InMsg
      <4> QED BY <2>1, <4>1, ProcAssumption DEF Places
    <3>4. Written(p)' /\ Shared(p)' BY <2>2, <3>3 DEF Written, Shared
    <3>5. ReadingInv' BY <1>1, <2>2, <2>3, <3>1, <3>2 DEF ReadingInv, Solo, Catting, Moves
    <3>6. Solo(p)' BY <1>1, <2>1, <2>3, <3>1, <3>2, <3>4, <3>5 DEF Solo, AccidentsExplained
    <3>7. Solitary' BY <3>6 DEF Solitary
    <3> QED BY <3>7, SolitaryIsEnough, PTL
  <2> QED BY <2>7, <2>8
<1> QED BY <1>3, <1>4

LEMMA SetLenKeeps ==
  ASSUME ProcInv, status = "running", NEW p \in Procs, SetLen(p)
  PROVE  ProcInv'
<1> USE DEF ProcInv
<1>1. /\ module' = module /\ msg' = msg /\ temp' = temp /\ uses' = uses /\ raced' = raced /\ text' = text
      /\ given' = given /\ reading' = reading /\ status' = status
      /\ proc' = [proc EXCEPT ![p].pc = "set_temp"] /\ len' = proc[p].count
  BY DEF SetLen, Goto, histVars
<1>2. p \in Busy /\ Writing(p) /\ ~Catting(p) BY DEF SetLen, Busy, Writing, Catting, InWrite, InRead
<1>3. /\ Moves(p) /\ proc'[p].pc = "set_temp" /\ proc'[p].count = proc[p].count /\ proc'[p].id = proc[p].id
  BY <1>1 DEF Moves, TypeOK
<1>4. ~Catting(p)' /\ Writing(p)' BY <1>3 DEF Catting, Writing, InRead, InWrite
<1>5. TypeOK'
  <2>1. len' \in 0 .. BUFSIZE BY <1>1, <1>2, ProcAssumption DEF CallInv, SetLen
  <2>2. proc' \in [Procs -> ProcType]
    BY <1>1 DEF TypeOK, ProcType, Labels, Passed, Counts, Ids, InWrite
  <2> QED BY <1>1, <2>1, <2>2 DEF TypeOK, ProcType, Labels, Passed, Counts, Ids
<1>6. ReadingType' BY <1>1 DEF ReadingType
<1>7. CallInv' BY <1>2, <1>3, <1>4, CallStep DEF CallInv, SetLen
<1> Basics' BY <1>5, <1>6, <1>7 DEF Basics
<1>8. CASE raced
  <2>1. Forgotten' BY <1>1, <1>8 DEF OneInv, Forgotten
  <2> QED BY <2>1, ForgottenIsEnough, PTL
<1>9. CASE ~raced
  <2>1. Solo(p) /\ (\A q \in Procs \ {p} : proc[q].pc \notin InRead \cup InWrite) BY <1>2, <1>9, Solos
  <2>2. Busy' = {p} BY <1>3, <2>1, BusyStep DEF InWrite
  <2>3. Written(p)' BY <1>1, <1>3, <2>1 DEF Written, Solo, SetLen
  <2>4. Shared(p)' BY <1>3 DEF Shared
  <2>5. ReadingInv' BY <1>1, <1>3, <1>4, <2>1, <2>2 DEF ReadingInv, Solo, Catting, Moves
  <2>6. Solo(p)' BY <1>1, <1>4, <2>1, <2>2, <2>3, <2>4, <2>5 DEF Solo, AccidentsExplained
  <2>7. Solitary' BY <2>6 DEF Solitary
  <2> QED BY <2>7, SolitaryIsEnough, PTL
<1> QED BY <1>8, <1>9

LEMMA SetTempKeeps ==
  ASSUME ProcInv, status = "running", NEW p \in Procs, SetTemp(p)
  PROVE  ProcInv'
<1> USE DEF ProcInv
<1>1. /\ module' = module /\ msg' = msg /\ len' = len /\ uses' = uses /\ raced' = raced /\ status' = status
      /\ given' = 0 /\ reading' = NoReading /\ proc' = [proc EXCEPT ![p] = Idle]
  BY DEF SetTemp
<1>2. p \in Busy /\ Writing(p) /\ proc[p].count \in 0 .. BUFSIZE
  BY ProcAssumption DEF SetTemp, Busy, Writing, InWrite, CallInv
<1>3. Moves(p) /\ proc'[p] = Idle BY <1>1 DEF Moves, TypeOK
<1>4. ~Catting(p)' /\ ~Writing(p)' BY <1>3 DEF Catting, Writing, InRead, InWrite, Idle
<1>5. TypeOK'
  <2>1. temp' \in Int32 BY <1>2, ProcAssumption DEF SetTemp, TypeOK, Int32
  <2>2. text' \in [id : 0 .. MaxUses, len : 0 .. BUFSIZE] BY <1>2, ProcAssumption DEF SetTemp, TypeOK, NoText
  <2>3. given' \in 0 .. text'.len /\ reading'.by \in SUBSET Procs /\ Len(reading'.shown) <= text'.len
    BY <1>1, <2>2 DEF NoReading
  <2>4. proc' \in [Procs -> ProcType]
    BY <1>1, ProcAssumption DEF TypeOK, ProcType, Labels, Passed, Counts, Ids, Idle, Int32
  <2> QED BY <1>1, <2>1, <2>2, <2>3, <2>4 DEF TypeOK, ProcType, Labels, Passed, Counts, Ids
<1>6. ReadingType' BY <1>1 DEF ReadingType, NoReading
<1>7. CallInv' BY <1>3, <1>4, CallStep
<1> Basics' BY <1>5, <1>6, <1>7 DEF Basics
<1>8. CASE raced
  <2>1. Forgotten' BY <1>1, <1>8 DEF SetTemp, Forgotten
  <2> QED BY <2>1, ForgottenIsEnough, PTL
<1>9. CASE ~raced
  <2>1. Solo(p) /\ (\A q \in Procs \ {p} : proc[q].pc \notin InRead \cup InWrite) BY <1>2, <1>9, Solos
  <2>2. Busy' = {} BY <1>3, <2>1, BusyStep DEF InWrite, InRead, Idle
  <2>3. text' = [id |-> proc[p].id, len |-> proc[p].count] BY <1>9 DEF SetTemp
  <2>4. len = proc[p].count /\ (\A k \in 0 .. proc[p].count - 1 : msg[k] = proc[p].id)
    BY <2>1 DEF Solo, Written, SetTemp
  <2>5. TextStands' BY <1>1, <2>3, <2>4 DEF TextStands
  <2>6. temp' = Left' BY <1>1, <1>2, <2>4 DEF SetTemp, Left
  <2>7. OneInv' BY <1>1, <1>9, <2>1, <2>2 DEF OneInv, Solo
  <2>8. ReadingInv' BY <1>1 DEF ReadingInv, NoReading
  <2>9. Settled' BY <1>1, <1>9, <2>2, <2>5, <2>6, <2>7, <2>8 DEF Settled, AccidentsExplained
  <2> QED BY <2>9, SettledIsEnough, PTL
<1> QED BY <1>8, <1>9
-----------------------------------------------------------------------------
(* A program that reads to the end, from call to call.                     *)

LEMMA CatKeeps ==
  ASSUME ProcInv, status = "running", NEW p \in Procs, NEW n \in Asked, Cat(p, n)
  PROVE  ProcInv'
<1> USE DEF ProcInv
<1>1. /\ module' = module /\ msg' = msg /\ len' = len /\ temp' = temp /\ raced' = raced /\ status' = status
      /\ text' = text /\ given' = given /\ proc' = [proc EXCEPT ![p] = [pc |-> "call", asked |-> n, count |-> 0, loaded |-> 0, id |-> 0]]
  BY DEF Cat
<1>2. Moves(p) /\ proc'[p].pc = "call" /\ proc'[p].asked = n BY <1>1 DEF Moves, TypeOK
<1>3. ~Writing(p)' BY <1>2 DEF Writing, InWrite
<1>4. Busy' = Busy BY <1>2 DEF Busy, Moves, Cat, InRead, InWrite
<1>5. /\ reading' = NoReading
      \/ /\ Busy = {} /\ ~raced /\ given = 0
         /\ reading' = [by |-> {p}, asked |-> n, shown |-> <<>>, over |-> FALSE]
  BY DEF Cat
<1>6. TypeOK'
  <2>1. uses' \in 0 .. MaxUses BY ProcAssumption DEF Cat, TypeOK
  <2>2. proc' \in [Procs -> ProcType]
    <3>1. 0 \in Int32 /\ 0 \in 0 .. MaxUses BY ProcAssumption DEF Int32
    <3>2. [pc |-> "call", asked |-> n, count |-> 0, loaded |-> 0, id |-> 0] \in ProcType BY <3>1 DEF ProcType, Labels, Passed, Counts, Ids
    <3> QED BY <1>1, <3>2 DEF TypeOK, ProcType, Labels, Passed, Counts, Ids
  <2>3. reading'.by \in SUBSET Procs /\ Len(reading'.shown) <= text'.len
    BY <1>1, <1>5 DEF TypeOK, NoReading
  <2> QED BY <1>1, <2>1, <2>2, <2>3 DEF TypeOK, ProcType, Labels, Passed, Counts, Ids
<1>7. ReadingType'
  <2>1. <<>> \in Seq(ShownType) OBVIOUS
  <2>2. NoReading \in [by : SUBSET Procs, asked : Asked \cup {0}, shown : Seq(ShownType), over : BOOLEAN]
    BY <2>1 DEF NoReading
  <2>3. [by |-> {p}, asked |-> n, shown |-> <<>>, over |-> FALSE]
          \in [by : SUBSET Procs, asked : Asked \cup {0}, shown : Seq(ShownType), over : BOOLEAN]
    BY <2>1
  <2> QED BY <1>5, <2>2, <2>3 DEF ReadingType
<1>8. CallInv' BY <1>2, <1>3, CallStep
<1> Basics' BY <1>6, <1>7, <1>8 DEF Basics
<1>9. ReadingInv'
  <2>1. CASE reading' = NoReading BY <2>1 DEF ReadingInv, NoReading
  <2>2. CASE reading' # NoReading
    <3>1. given' = 0 * reading'.asked BY <1>1, <1>5, <2>2, ProcAssumption
    <3>2. Whole(given, reading.asked)' BY <3>1 DEF Whole
    <3>3. /\ reading'.by = {p} /\ reading'.asked = n /\ reading'.shown = <<>> /\ ~reading'.over /\ Busy' = {}
      BY <1>4, <1>5, <2>2
    <3>4. Len(reading'.shown) = given' /\ DOMAIN reading'.shown = {} BY <1>1, <1>5, <2>2, <3>3
    <3> QED BY <1>2, <3>2, <3>3, <3>4 DEF ReadingInv
  <2> QED BY <2>1, <2>2
<1>10. CASE raced
  <2>1. Forgotten' BY <1>1, <1>5, <1>10 DEF OneInv, Forgotten
  <2> QED BY <2>1, ForgottenIsEnough, PTL
<1>11. CASE ~raced /\ Busy = {}
  <2>1. Settled BY <1>11, Settles
  <2>2. OneInv' BY <1>1, <1>4, <1>11 DEF OneInv
  <2>3. Settled' BY <1>1, <1>4, <1>9, <2>1, <2>2 DEF Settled, AccidentsExplained, TextStands, HasMemory, Left
  <2> QED BY <2>3, SettledIsEnough, PTL
<1>12. CASE ~raced /\ Busy # {}
  <2>1. PICK q \in Busy : TRUE BY <1>12
  <2>2. q \in Procs /\ q # p /\ proc'[q] = proc[q]
    BY <1>2, <2>1 DEF Busy, Moves, Cat, InRead, InWrite
  <2>3. Solo(q) BY <1>12, <2>1, <2>2, Solos
  <2>4. Solo(q)'
    BY <1>1, <1>4, <1>9, <2>2, <2>3
    DEF Solo, AccidentsExplained, Written, Shared, Share, Left, Writing, TextStands, HasMemory
  <2>5. Solitary' BY <2>2, <2>4 DEF Solitary
  <2> QED BY <2>5, SolitaryIsEnough, PTL
<1> QED BY <1>10, <1>11, <1>12

LEMMA RefusedKeeps ==
  ASSUME ProcInv, status = "running", NEW p \in Procs, Refused(p)
  PROVE  ProcInv'
<1> USE DEF ProcInv
<1>1. /\ module' = module /\ msg' = msg /\ len' = len /\ temp' = temp /\ uses' = uses /\ raced' = raced
      /\ status' = status /\ text' = text /\ given' = given /\ reading' = reading
      /\ proc' = [proc EXCEPT ![p] = Idle]
  BY DEF Refused, Local, histVars
<1>2. Moves(p) /\ proc'[p] = Idle BY <1>1 DEF Moves, TypeOK
<1>3. ~Writing(p)' /\ ~Catting(p)' BY <1>2 DEF Writing, Catting, InRead, InWrite, Idle
<1>4. Busy' = Busy BY <1>2 DEF Busy, Moves, Refused, InRead, InWrite, Idle
<1>5. TypeOK'
  <2>1. proc' \in [Procs -> ProcType] BY <1>1, ProcAssumption DEF TypeOK, ProcType, Labels, Passed, Counts, Ids, Idle, Int32
  <2> QED BY <1>1, <2>1 DEF TypeOK, ProcType, Labels, Passed, Counts, Ids
<1>6. ReadingType' BY <1>1 DEF ReadingType
<1>7. CallInv' BY <1>2, <1>3, CallStep
<1> Basics' BY <1>5, <1>6, <1>7 DEF Basics
<1>8. CASE raced
  <2>1. Forgotten' BY <1>1, <1>8 DEF OneInv, Forgotten
  <2> QED BY <2>1, ForgottenIsEnough, PTL
<1>9. CASE ~raced
  <2>1. Busy = {} BY <1>9 DEF OneInv, Refused, HasEntry
  <2>2. Settled BY <1>9, <2>1, Settles
  <2>3. OneInv' BY <1>1, <1>4, <1>9 DEF OneInv
  <2>4. ReadingInv' BY <1>1, <1>2, <1>3, <1>4 DEF ReadingInv, Catting, Moves
  <2>5. Settled' BY <1>1, <1>4, <2>2, <2>3, <2>4 DEF Settled, AccidentsExplained, TextStands, HasMemory, Left
  <2> QED BY <2>5, SettledIsEnough, PTL
<1> QED BY <1>8, <1>9
-----------------------------------------------------------------------------
(* read_proc.                                                              *)

\* read_proc changes where it is, what it has loaded, and its count.
Changes(p, a, c, l) == proc' = [proc EXCEPT ![p].pc = a, ![p].count = c, ![p].loaded = l]
Loads(p, a, l)      == proc' = [proc EXCEPT ![p].pc = a, ![p].loaded = l]

LEMMA Changed ==
  ASSUME proc \in [Procs -> ProcType], NEW p \in Procs, NEW a \in Labels, NEW c \in Counts, NEW l \in Int32,
         Changes(p, a, c, l)
  PROVE  /\ proc' \in [Procs -> ProcType] /\ Moves(p)
         /\ proc'[p].pc = a /\ proc'[p].count = c /\ proc'[p].loaded = l /\ proc'[p].asked = proc[p].asked
  BY DEF Changes, ProcType, Moves

LEMMA Loaded ==
  ASSUME proc \in [Procs -> ProcType], NEW p \in Procs, NEW a \in Labels, NEW l \in Int32,
         Loads(p, a, l)
  PROVE  /\ proc' \in [Procs -> ProcType] /\ Moves(p)
         /\ proc'[p].pc = a /\ proc'[p].count = proc[p].count /\ proc'[p].loaded = l
         /\ proc'[p].asked = proc[p].asked
  BY DEF Loads, ProcType, Moves

LEMMA ReadProcKeeps ==
  ASSUME ProcInv, status = "running", NEW p \in Procs, ReadProc(p)
  PROVE  ProcInv'
<1> USE DEF ProcInv
<1>1. /\ module' = module /\ msg' = msg /\ len' = len /\ temp' = temp /\ uses' = uses /\ status' = status
      /\ proc' = [proc EXCEPT ![p].pc = "limit", ![p].count = proc[p].asked, ![p].loaded = 0]
  BY DEF ReadProc
<1>2. /\ Moves(p) /\ proc'[p].pc = "limit" /\ proc'[p].asked = proc[p].asked /\ proc'[p].count = proc[p].asked
      /\ proc' \in [Procs -> ProcType]
  <2>1. proc \in [Procs -> ProcType] BY DEF TypeOK, ProcType, Labels, Passed, Counts, Ids
  <2>2. proc[p].asked \in Counts BY DEF ReadProc, CallInv, Catting, Counts
  <2>3. "limit" \in Labels /\ 0 \in Int32 BY ProcAssumption DEF Labels, InRead, Int32
  <2>4. Changes(p, "limit", proc[p].asked, 0) BY DEF ReadProc, Changes
  <2> QED BY <2>1, <2>2, <2>3, <2>4, Changed
<1>3. Catting(p) /\ Catting(p)' /\ ~Writing(p)' /\ p \notin Busy
  BY <1>2 DEF ReadProc, Catting, Writing, InRead, InWrite, Busy
<1>4. proc[p].asked \in Asked BY <1>3 DEF CallInv
<1>5. TypeOK'
  <2>1. proc' \in [Procs -> ProcType] BY <1>2
  <2>2. /\ raced' \in BOOLEAN /\ text' \in [id : 0 .. MaxUses, len : 0 .. BUFSIZE] /\ given' \in 0 .. text'.len
        /\ reading'.by \in SUBSET Procs /\ Len(reading'.shown) <= text'.len
    BY ProcAssumption DEF ReadProc, Begins, TypeOK, NoText, NoReading
  <2> QED BY <1>1, <2>1, <2>2 DEF TypeOK, ProcType, Labels, Passed, Counts, Ids
<1>6. ReadingType' BY DEF ReadProc, Begins, ReadingType, NoReading
<1>7. CallInv' BY <1>2, <1>3, <1>4, CallStep
<1> Basics' BY <1>5, <1>6, <1>7 DEF Basics
<1>8. CASE Busy # {} \/ module # "live" \/ raced
  <2>1. Forgotten' BY <1>8 DEF ReadProc, Begins, Forgotten
  <2> QED BY <2>1, ForgottenIsEnough, PTL
<1>9. CASE Busy = {} /\ module = "live" /\ ~raced
  <2>1. Settled BY <1>9, Settles
  <2>2. ~raced' /\ text' = text /\ given' = given
    BY <1>9 DEF ReadProc, Begins
  <2>3. Busy' = {p} BY <1>2, <1>9, BusyStep DEF InRead, Busy
  <2>4. ReadingInv'
    <3>1. CASE reading.by # {p}
      <4>1. reading' = NoReading BY <1>9, <3>1 DEF ReadProc, Begins
      <4> QED BY <4>1 DEF ReadingInv, NoReading
    <3>2. CASE reading.by = {p}
      <4>1. reading' = reading BY <1>9, <3>2 DEF ReadProc, Begins
      <4> QED BY <1>2, <1>3, <2>2, <2>3, <3>2, <4>1 DEF ReadingInv
    <3> QED BY <3>1, <3>2
  <2>5. TextStands' BY <1>1, <2>1, <2>2 DEF TextStands, Settled, HasMemory
  <2>6. Written(p)' BY <1>2 DEF Written
  <2>7. Shared(p)' BY <1>1, <1>2, <2>1, <2>2 DEF Shared, Settled, Left
  <2>8. Solo(p)' BY <1>1, <1>9, <2>2, <2>3, <2>4, <2>5, <2>6, <2>7 DEF Solo, AccidentsExplained
  <2>9. Solitary' BY <2>8 DEF Solitary
  <2> QED BY <2>9, SolitaryIsEnough, PTL
<1> QED BY <1>8, <1>9

\* What a statement of read_proc that touches only its own variables has to show.
LEMMA LocalKeeps ==
  ASSUME ProcInv, status = "running", NEW p \in Procs, Local, Moves(p),
         proc[p].pc \in InRead, proc'[p].pc \in InRead, proc'[p].asked = proc[p].asked,
         proc' \in [Procs -> ProcType],
         Solo(p) => Shared(p)'
  PROVE  ProcInv'
<1> USE DEF ProcInv
<1>1. /\ module' = module /\ msg' = msg /\ len' = len /\ temp' = temp /\ uses' = uses /\ raced' = raced
      /\ status' = status /\ text' = text /\ given' = given /\ reading' = reading
  BY DEF Local, histVars
<1>2. p \in Busy /\ Catting(p) /\ Catting(p)' /\ ~Writing(p) /\ ~Writing(p)'
  BY DEF Busy, Catting, Writing, InRead, InWrite
<1>3. proc[p].asked \in Asked BY <1>2 DEF CallInv
<1>4. TypeOK' BY <1>1 DEF TypeOK, ProcType, Labels, Passed, Counts, Ids
<1>5. ReadingType' BY <1>1 DEF ReadingType
<1>6. CallInv' BY <1>2, <1>3, CallStep
<1> Basics' BY <1>4, <1>5, <1>6 DEF Basics
<1>7. CASE raced
  <2>1. Forgotten' BY <1>1, <1>7 DEF OneInv, Forgotten
  <2> QED BY <2>1, ForgottenIsEnough, PTL
<1>8. CASE ~raced
  <2>1. Solo(p) /\ (\A q \in Procs \ {p} : proc[q].pc \notin InRead \cup InWrite) BY <1>2, <1>8, Solos
  <2>2. Busy' = {p} BY <2>1, BusyStep
  <2>3. Written(p)' BY DEF Written, InRead
  <2>4. TextStands' BY <1>1, <1>2, <2>1 DEF Solo, TextStands, HasMemory
  <2>5. ReadingInv' BY <1>1, <1>2, <2>1, <2>2 DEF ReadingInv, Solo
  <2>6. Solo(p)' BY <1>1, <2>1, <2>2, <2>3, <2>4, <2>5 DEF Solo, AccidentsExplained
  <2>7. Solitary' BY <2>6 DEF Solitary
  <2> QED BY <2>7, SolitaryIsEnough, PTL
<1> QED BY <1>7, <1>8

\* What is left is never negative, and no more than the buffer.
LEMMA LeftRange ==
  ASSUME ProcInv, NEW p \in Procs, Solo(p), proc[p].pc \in InRead
  PROVE  Left \in 0 .. BUFSIZE /\ proc[p].asked \in Nat \ {0} /\ Share(p) \in 0 .. Left
<1>1. ~Writing(p) /\ Catting(p) BY DEF Writing, Catting, InRead, InWrite
<1>2. proc[p].asked \in Nat \ {0} BY <1>1, ProcAssumption DEF ProcInv, CallInv
<1>3. len = text.len BY <1>1 DEF Solo, TextStands
<1>4. Left \in 0 .. BUFSIZE BY <1>3, ProcAssumption DEF ProcInv, TypeOK, Left
<1> QED BY <1>2, <1>4 DEF Share

LEMMA LimitKeeps ==
  ASSUME ProcInv, status = "running", NEW p \in Procs, Limit(p)
  PROVE  ProcInv'
<1>1. Local /\ proc[p].pc = "limit" /\ proc \in [Procs -> ProcType] /\ temp \in Int32
  BY DEF Limit, ProcInv, TypeOK, ProcType, Labels, Passed, Counts, Ids
<1>2. PICK label \in {"assign", "subtract"} :
        /\ label = IF temp >= 0 /\ proc[p].count > temp THEN "assign" ELSE "subtract"
        /\ Loads(p, label, temp)
  BY DEF Limit, Loads
<1>3. label \in Labels BY DEF Labels, InRead
<1>4. /\ Moves(p) /\ proc'[p].pc = label /\ proc'[p].loaded = temp /\ proc' \in [Procs -> ProcType]
      /\ proc'[p].count = proc[p].count /\ proc'[p].asked = proc[p].asked
  BY <1>1, <1>2, <1>3, Loaded
<1>5. ASSUME Solo(p) PROVE Shared(p)'
  <2>1. temp = Left /\ proc[p].count = proc[p].asked BY <1>1, <1>5 DEF Solo, Shared
  <2>2. Left \in 0 .. BUFSIZE /\ proc[p].asked \in Nat \ {0} BY <1>1, <1>5, LeftRange DEF InRead
  <2>3. temp' = temp /\ Left' = Left BY <1>1 DEF Local, histVars, Left
  <2> QED BY <1>2, <1>4, <2>1, <2>2, <2>3, ProcAssumption DEF Shared, Share
<1> QED BY <1>1, <1>2, <1>4, <1>5, LocalKeeps DEF InRead
LEMMA AssignKeeps ==
  ASSUME ProcInv, status = "running", NEW p \in Procs, Assign(p)
  PROVE  ProcInv'
<1>1. Local /\ proc[p].pc = "assign" /\ proc \in [Procs -> ProcType] /\ temp \in Int32 /\ proc[p].loaded \in Int32
  BY DEF Assign, ProcInv, TypeOK, ProcType, Labels, Passed, Counts, Ids
<1>2. PICK t \in {proc[p].loaded, temp} : Changes(p, "subtract", t, t)
  BY DEF Assign, Changes
<1>3. "subtract" \in Labels /\ t \in Int32 /\ t \in Counts BY <1>1 DEF Labels, Counts, InRead
<1>4. /\ Moves(p) /\ proc'[p].pc = "subtract" /\ proc'[p].count = t /\ proc'[p].loaded = t
      /\ proc' \in [Procs -> ProcType] /\ proc'[p].asked = proc[p].asked
  BY <1>1, <1>2, <1>3, Changed
<1>5. ASSUME Solo(p) PROVE Shared(p)'
  <2>1. temp = Left /\ proc[p].loaded = Left /\ proc[p].asked > Left BY <1>1, <1>5 DEF Solo, Shared
  <2>2. temp' = temp /\ Left' = Left BY <1>1 DEF Local, histVars, Left
  <2> QED BY <1>4, <2>1, <2>2 DEF Shared, Share
<1> QED BY <1>1, <1>4, <1>5, LocalKeeps DEF InRead

LEMMA SubtractKeeps ==
  ASSUME ProcInv, status = "running", NEW p \in Procs, Subtract(p)
  PROVE  ProcInv'
<1>1. /\ Local /\ proc[p].pc = "subtract" /\ proc \in [Procs -> ProcType] /\ temp \in Int32
      /\ proc[p].loaded \in Int32 /\ proc[p].count \in Counts
  BY DEF Subtract, ProcInv, TypeOK, ProcType, Labels, Passed, Counts, Ids
<1>2. PICK t \in {proc[p].loaded, temp} : Loads(p, "store", AsInt(t - proc[p].count))
  BY DEF Subtract, Loads
<1>3. "store" \in Labels BY DEF Labels, InRead
<1>4. AsInt(t - proc[p].count) \in Int32
  <2>1. Int32 \subseteq Int /\ Counts \subseteq Int BY ProcAssumption DEF Int32, Counts
  <2>2. t \in Int /\ proc[p].count \in Int BY <1>1, <2>1
  <2>3. t - proc[p].count \in Int BY <2>2
  <2> QED BY <2>3, AsIntRange
<1>5. /\ Moves(p) /\ proc'[p].pc = "store" /\ proc'[p].loaded = AsInt(t - proc[p].count)
      /\ proc' \in [Procs -> ProcType] /\ proc'[p].count = proc[p].count /\ proc'[p].asked = proc[p].asked
  BY <1>1, <1>2, <1>3, <1>4, Loaded
<1>6. ASSUME Solo(p) PROVE Shared(p)'
  <2>1. temp = Left /\ proc[p].loaded = Left /\ proc[p].count = Share(p) BY <1>1, <1>6 DEF Solo, Shared
  <2>2. temp' = temp /\ Left' = Left BY <1>1 DEF Local, histVars, Left
  <2>3. Left \in 0 .. BUFSIZE /\ Share(p) \in 0 .. Left BY <1>1, <1>6, LeftRange DEF InRead
  <2>4. AsInt(t - proc[p].count) = Left - Share(p)
    <3>1. t - proc[p].count = Left - Share(p) /\ Left - Share(p) \in 0 .. BUFSIZE BY <2>1, <2>3, ProcAssumption
    <3> QED BY <3>1, AsIntKeeps
  <2>5. Share(p)' = Share(p) BY <1>5, <2>2 DEF Share
  <2> QED BY <1>5, <2>1, <2>2, <2>4, <2>5 DEF Shared
<1> QED BY <1>1, <1>5, <1>6, LocalKeeps DEF InRead

LEMMA LoadLenKeeps ==
  ASSUME ProcInv, status = "running", NEW p \in Procs, LoadLen(p)
  PROVE  ProcInv'
<1>1. /\ Local /\ proc[p].pc = "load_len" /\ proc \in [Procs -> ProcType] /\ len \in Int32
      /\ Loads(p, "rewind", len)
  BY ProcAssumption DEF LoadLen, Loads, ProcInv, TypeOK, ProcType, Labels, Passed, Counts, Ids, Int32
<1>2. "rewind" \in Labels BY DEF Labels, InRead
<1>3. /\ Moves(p) /\ proc'[p].pc = "rewind" /\ proc'[p].loaded = len
      /\ proc' \in [Procs -> ProcType] /\ proc'[p].asked = proc[p].asked
  BY <1>1, <1>2, Loaded
<1>4. ASSUME Solo(p) PROVE Shared(p)'
  BY <1>1, <1>3, <1>4 DEF Solo, Shared, Local, histVars, Left
<1> QED BY <1>1, <1>3, <1>4, LocalKeeps DEF InRead
LEMMA StoreKeeps ==
  ASSUME ProcInv, status = "running", NEW p \in Procs, Store(p)
  PROVE  ProcInv'
<1> USE DEF ProcInv
<1>1. /\ module' = module /\ msg' = msg /\ len' = len /\ uses' = uses /\ raced' = raced
      /\ status' = status /\ text' = text /\ given' = given /\ reading' = reading
      /\ temp' = proc[p].loaded /\ proc' = [proc EXCEPT ![p].pc = "copy_to"]
  BY DEF Store, Goto, histVars
<1>2. /\ Moves(p) /\ proc'[p].pc = "copy_to" /\ proc'[p].count = proc[p].count /\ proc'[p].asked = proc[p].asked
  BY <1>1 DEF Moves, TypeOK
<1>3. p \in Busy /\ Catting(p) /\ Catting(p)' /\ ~Writing(p) /\ ~Writing(p)'
  BY <1>2 DEF Store, Busy, Catting, Writing, InRead, InWrite
<1>4. TypeOK'
  <2>1. proc' \in [Procs -> ProcType] BY <1>1 DEF TypeOK, ProcType, Labels, Passed, Counts, Ids, InRead
  <2>2. temp' \in Int32 BY <1>1 DEF TypeOK
  <2> QED BY <1>1, <2>1, <2>2 DEF TypeOK, ProcType, Labels, Passed, Counts, Ids
<1>5. ReadingType' BY <1>1 DEF ReadingType
<1>6. CallInv' BY <1>2, <1>3, CallStep DEF CallInv
<1> Basics' BY <1>4, <1>5, <1>6 DEF Basics
<1>7. CASE raced
  <2>1. Forgotten' BY <1>1, <1>7 DEF OneInv, Forgotten
  <2> QED BY <2>1, ForgottenIsEnough, PTL
<1>8. CASE ~raced
  <2>1. Solo(p) /\ (\A q \in Procs \ {p} : proc[q].pc \notin InRead \cup InWrite) BY <1>3, <1>8, Solos
  <2>2. Busy' = {p} BY <1>2, <2>1, BusyStep DEF InRead
  <2>3. Written(p)' BY <1>2 DEF Written
  <2>4. Shared(p)' BY <1>1, <1>2, <2>1 DEF Shared, Share, Left, Solo, Store
  <2>5. TextStands' BY <1>1, <1>3, <2>1 DEF Solo, TextStands, HasMemory
  <2>6. ReadingInv' BY <1>1, <1>2, <1>3, <2>1, <2>2 DEF ReadingInv, Solo
  <2>7. Solo(p)' BY <1>1, <2>1, <2>2, <2>3, <2>4, <2>5, <2>6 DEF Solo, AccidentsExplained
  <2>8. Solitary' BY <2>7 DEF Solitary
  <2> QED BY <2>8, SolitaryIsEnough, PTL
<1> QED BY <1>7, <1>8

\* The bytes that one call gives.
Piece(n) == [k \in 1 .. n |-> [id |-> msg[k - 1], place |-> k - 1]]

\* A piece that follows whole ones continues the reading.
LEMMA PieceFollows ==
  ASSUME NEW shown \in Seq(ShownType), NEW a \in Nat \ {0}, NEW n \in 0 .. a, NEW w \in 0 .. MaxUses,
         n <= BUFSIZE, msg \in [Places -> Garbage .. MaxUses],
         \A k \in 0 .. n - 1 : msg[k] = w,
         \A k \in DOMAIN shown : shown[k] = [id |-> w, place |-> (k - 1) % a],
         n = 0 \/ Whole(Len(shown), a)
  PROVE  /\ shown \o Piece(n) \in Seq(ShownType) /\ Len(shown \o Piece(n)) = Len(shown) + n
         /\ \A k \in DOMAIN (shown \o Piece(n)) :
              (shown \o Piece(n))[k] = [id |-> w, place |-> (k - 1) % a]
<1>1. Piece(n) \in Seq(ShownType) /\ Len(Piece(n)) = n
  <2>1. \A k \in 1 .. n : [id |-> msg[k - 1], place |-> k - 1] \in ShownType
    BY ProcAssumption DEF ShownType, Places
  <2> QED BY <2>1 DEF Piece
<1>2. /\ shown \o Piece(n) \in Seq(ShownType) /\ Len(shown \o Piece(n)) = Len(shown) + n
      /\ \A k \in 1 .. Len(shown) + n :
           (shown \o Piece(n))[k] = IF k <= Len(shown) THEN shown[k] ELSE Piece(n)[k - Len(shown)]
  BY <1>1, ConcatProperties
<1>3. ASSUME NEW k \in DOMAIN (shown \o Piece(n))
      PROVE  (shown \o Piece(n))[k] = [id |-> w, place |-> (k - 1) % a]
  <2>1. k \in 1 .. Len(shown) + n BY <1>2, <1>3
  <2>2. CASE k <= Len(shown)
    <3>1. (shown \o Piece(n))[k] = shown[k] /\ k \in DOMAIN shown BY <1>2, <2>1, <2>2
    <3> QED BY <3>1
  <2>3. CASE k > Len(shown)
    <3> DEFINE j == k - Len(shown)
    <3>1. j \in 1 .. n /\ n # 0 BY <2>1, <2>3
    <3>2. (shown \o Piece(n))[k] = Piece(n)[j] BY <1>2, <2>1, <2>3
    <3>3. Piece(n)[j] = [id |-> w, place |-> j - 1] BY <3>1 DEF Piece
    <3>4. PICK m \in Nat : Len(shown) = m * a BY <3>1 DEF Whole
    <3>5. k - 1 = Len(shown) + (j - 1) /\ j - 1 \in 0 .. a - 1 BY <2>1, <3>1
    <3>6. (m * a + (j - 1)) % a = j - 1 BY <3>5, RemainderOfMultiple
    <3> QED BY <3>2, <3>3, <3>4, <3>5, <3>6
  <2> QED BY <2>1, <2>2, <2>3
<1> QED BY <1>2, <1>3

LEMMA CopyToUserKeeps ==
  ASSUME ProcInv, status = "running", NEW p \in Procs, CopyToUser(p)
  PROVE  ProcInv'
<1> USE DEF ProcInv
<1> DEFINE n == proc[p].count
<1>1. /\ module' = module /\ msg' = msg /\ len' = len /\ temp' = temp /\ uses' = uses /\ raced' = raced
      /\ text' = text /\ proc[p].pc = "copy_to"
  BY DEF CopyToUser
<1>2. p \in Busy /\ Catting(p) /\ ~Writing(p) BY <1>1 DEF Busy, Catting, Writing, InRead, InWrite
<1>3. proc[p].asked \in Asked /\ proc[p].asked \in Nat \ {0} BY <1>2, ProcAssumption DEF CallInv
<1>4. CASE ~InMsg(n)
  <2>1. raced
    <3>1. SUFFICES ASSUME ~raced PROVE FALSE OBVIOUS
    <3>2. Solo(p) /\ HasMemory BY <1>2, <3>1, Solos
    <3>3. Left \in 0 .. BUFSIZE /\ Share(p) \in 0 .. Left BY <1>1, <3>2, LeftRange DEF InRead
    <3>4. n \in 0 .. BUFSIZE BY <1>1, <3>2, <3>3, ProcAssumption DEF Solo, Shared
    <3> QED BY <1>4, <3>2, <3>4 DEF InMsg
  <2>2. proc' = proc /\ given' = given /\ reading' = reading /\ status' = "undefined"
    BY <1>4 DEF CopyToUser
  <2>3. Basics' BY <1>1, <2>2 DEF Basics, TypeOK, ReadingType, CallInv, Catting, Writing
  <2>4. Forgotten' BY <1>1, <2>1, <2>2 DEF OneInv, Forgotten
  <2> QED BY <2>3, <2>4, ForgottenIsEnough, PTL
<1>5. CASE InMsg(n)
  <2>1. /\ proc' = [proc EXCEPT ![p].pc = IF n = 0 THEN "load_len" ELSE "call"]
        /\ given' = IF raced THEN 0 ELSE given + n
        /\ reading' = IF reading.by = {p} THEN [reading EXCEPT !.shown = @ \o Piece(n)] ELSE reading
        /\ status' = status
    BY <1>5 DEF CopyToUser, Goto, Piece
  <2>2. /\ Moves(p) /\ proc'[p].pc = IF n = 0 THEN "load_len" ELSE "call"
        /\ proc'[p].count = n /\ proc'[p].asked = proc[p].asked
    BY <2>1 DEF Moves, TypeOK
  <2>3. Catting(p)' /\ ~Writing(p)' BY <2>2 DEF Catting, Writing, InRead, InWrite
  <2>4. proc' \in [Procs -> ProcType]
    <3>1. proc \in [Procs -> ProcType] BY DEF TypeOK, ProcType, Labels, Passed, Counts, Ids
    <3>2. PICK label \in Labels : proc' = [proc EXCEPT ![p].pc = label] BY <2>1 DEF Labels, InRead
    <3> QED BY <3>1, <3>2 DEF ProcType
  <2>5. CallInv' BY <1>3, <2>2, <2>3, CallStep
  <2>6. CASE raced
    <3>1. given' = 0 /\ reading' = NoReading /\ reading = NoReading /\ given = 0
      <4>1. given = 0 /\ reading = NoReading BY <2>6 DEF OneInv
      <4>2. reading.by # {p} BY <4>1 DEF NoReading
      <4> QED BY <2>1, <2>6, <4>1, <4>2
    <3>2. TypeOK' BY <1>1, <2>1, <2>4, <3>1 DEF TypeOK, ProcType, Labels, Passed, Counts, Ids
    <3>3. ReadingType' BY <3>1 DEF ReadingType
    <3>4. Basics' BY <2>5, <3>2, <3>3 DEF Basics
    <3>5. Forgotten' BY <1>1, <2>6, <3>1 DEF OneInv, Forgotten
    <3> QED BY <3>4, <3>5, ForgottenIsEnough, PTL
  <2>7. CASE ~raced
    <3>1. Solo(p) /\ HasMemory /\ (\A q \in Procs \ {p} : proc[q].pc \notin InRead \cup InWrite)
      BY <1>2, <2>7, Solos
    <3>2. Left \in 0 .. BUFSIZE /\ Share(p) \in 0 .. Left BY <1>1, <3>1, LeftRange DEF InRead
    <3>3. n = Share(p) /\ temp = Left - n BY <1>1, <3>1 DEF Solo, Shared
    <3>4. /\ len = text.len /\ (\A k \in 0 .. len - 1 : msg[k] = text.id) /\ len \in 0 .. BUFSIZE
          /\ text.id \in 0 .. MaxUses /\ given \in 0 .. text.len /\ BUFSIZE \in Nat
      BY <1>2, <3>1, ProcAssumption DEF Solo, TextStands, TypeOK
    <3>5. /\ n \in 0 .. proc[p].asked /\ n <= BUFSIZE /\ given + n \in 0 .. text.len
          /\ n <= len - given
      BY <1>3, <3>2, <3>3, <3>4 DEF Share, Left
    <3>6. given' = given + n BY <2>1, <2>7
    <3>7. Left' = Left - n /\ temp' = Left' BY <1>1, <3>3, <3>4, <3>5, <3>6 DEF Left
    <3>8. ReadingType' /\ ReadingInv' /\ reading'.by \in SUBSET Procs /\ Len(reading'.shown) <= text'.len
      <4>1. CASE reading.by # {p}
        <5>1. reading.by = {} BY <3>1, <4>1 DEF ReadingInv, Solo
        <5>2. reading' = NoReading BY <2>1, <4>1, <5>1 DEF ReadingInv
        <5>3. Len(reading.shown) <= text.len /\ reading = NoReading BY <5>1 DEF TypeOK, ReadingInv
        <5> QED BY <1>1, <5>2, <5>3 DEF ReadingType, ReadingInv, NoReading
      <4>2. CASE reading.by = {p}
        <5> DEFINE a == reading.asked
        <5>1. /\ ~reading.over /\ a = proc[p].asked /\ Len(reading.shown) = given
              /\ given = text.len \/ Whole(given, a)
              /\ \A k \in DOMAIN reading.shown : reading.shown[k] = [id |-> text.id, place |-> (k - 1) % a]
          BY <1>2, <4>2 DEF ReadingInv
        <5>2. reading.shown \in Seq(ShownType) BY DEF ReadingType
        <5>3. n = 0 \/ Whole(Len(reading.shown), a) BY <3>4, <3>5, <5>1
        <5>4. \A k \in 0 .. n - 1 : msg[k] = text.id BY <3>4, <3>5
        <5>5. msg \in [Places -> Garbage .. MaxUses] BY DEF TypeOK
        <5> DEFINE shown == reading.shown
        <5> DEFINE w == text.id
        <5> DEFINE new == shown \o Piece(n)
        <5>6. /\ shown \in Seq(ShownType) /\ w \in 0 .. MaxUses /\ a \in Nat \ {0} /\ n \in 0 .. a /\ n <= BUFSIZE
              /\ \A k \in 0 .. n - 1 : msg[k] = w
              /\ \A k \in DOMAIN shown : shown[k] = [id |-> w, place |-> (k - 1) % a]
              /\ n = 0 \/ Whole(Len(shown), a)
          BY <1>3, <3>4, <3>5, <5>1, <5>2, <5>3, <5>4
        <5>7. /\ new \in Seq(ShownType) /\ Len(new) = Len(shown) + n
              /\ \A k \in DOMAIN new : new[k] = [id |-> w, place |-> (k - 1) % a]
          <6> HIDE DEF shown, w, n, a
          <6> QED BY <5>5, <5>6, PieceFollows
        <5> HIDE DEF new
        <5>8. reading' = [reading EXCEPT !.shown = new] BY <2>1, <4>2 DEF new
        <5>9. /\ reading'.by = {p} /\ reading'.asked = a /\ reading'.shown = new /\ ~reading'.over
              /\ ReadingType'
          BY <5>1, <5>7, <5>8, <4>2 DEF ReadingType
        <5>10. given' = text'.len \/ Whole(given', a)
          <6>1. CASE n < proc[p].asked
            <7>1. n = Left BY <1>3, <3>2, <3>3, <6>1 DEF Share
            <7> QED BY <1>1, <3>4, <3>6, <7>1 DEF Left
          <6>2. CASE n = proc[p].asked
            <7>1. n # 0 BY <1>3, <6>2
            <7>2. PICK m \in Nat : given = m * a BY <5>1, <5>3, <7>1 DEF Whole
            <7>3. (m + 1) * a = m * a + a BY <1>3, <5>1
            <7>4. given' = (m + 1) * a BY <3>6, <5>1, <6>2, <7>2, <7>3
            <7> QED BY <7>4 DEF Whole
          <6> QED BY <1>3, <3>5, <6>1, <6>2
        <5>11. Busy' \subseteq {p} BY <2>2, <3>1, BusyStep
        <5>12. ReadingInv' BY <1>1, <1>3, <2>2, <3>6, <5>1, <5>7, <5>9, <5>10, <5>11 DEF ReadingInv
        <5>13. Len(reading'.shown) <= text'.len BY <1>1, <3>5, <5>1, <5>7, <5>9
        <5> QED BY <5>9, <5>12, <5>13
      <4> QED BY <4>1, <4>2
    <3>9. TypeOK'
      <4>1. given' \in 0 .. text'.len BY <1>1, <3>5, <3>6
      <4> QED BY <1>1, <2>1, <2>4, <3>8, <4>1 DEF TypeOK, ProcType, Labels, Passed, Counts, Ids
    <3>10. Basics' BY <2>5, <3>8, <3>9 DEF Basics
    <3>11. TextStands' BY <1>1, <3>4 DEF TextStands
    <3>12. CASE n = 0
      <4>1. proc'[p].pc = "load_len" /\ Busy' = {p} BY <2>2, <3>1, <3>12, BusyStep DEF InRead
      <4>2. Left' = 0 BY <1>3, <3>2, <3>3, <3>7, <3>12 DEF Share
      <4>3. Written(p)' /\ Shared(p)' BY <4>1, <4>2 DEF Written, Shared
      <4>4. Solo(p)' BY <1>1, <2>1, <2>7, <3>1, <3>8, <3>11, <4>1, <4>3 DEF Solo, AccidentsExplained
      <4>5. Solitary' BY <4>4 DEF Solitary
      <4> QED BY <3>10, <4>5, SolitaryIsEnough, PTL
    <3>13. CASE n # 0
      <4>1. Busy' = {} BY <2>2, <3>1, <3>13, BusyStep DEF InRead, InWrite
      <4>2. OneInv' BY <1>1, <2>7, <3>1, <4>1 DEF OneInv, Solo
      <4>3. Settled' BY <1>1, <2>1, <2>7, <3>7, <3>8, <3>11, <4>1, <4>2 DEF Settled, AccidentsExplained
      <4> QED BY <3>10, <4>3, SettledIsEnough, PTL
    <3> QED BY <3>12, <3>13
  <2> QED BY <2>6, <2>7
<1> QED BY <1>4, <1>5

LEMMA RewindKeeps ==
  ASSUME ProcInv, status = "running", NEW p \in Procs, Rewind(p)
  PROVE  ProcInv'
<1> USE DEF ProcInv
<1>1. /\ module' = module /\ msg' = msg /\ len' = len /\ uses' = uses /\ raced' = raced /\ status' = status
      /\ text' = text /\ given' = 0 /\ temp' = proc[p].loaded /\ proc[p].pc = "rewind"
      /\ proc' = [proc EXCEPT ![p] = Idle]
      /\ reading' = IF reading.by = {p} THEN [reading EXCEPT !.over = TRUE] ELSE reading
  BY DEF Rewind
<1>2. p \in Busy /\ Catting(p) /\ ~Writing(p) BY <1>1 DEF Busy, Catting, Writing, InRead, InWrite
<1>3. Moves(p) /\ proc'[p] = Idle BY <1>1 DEF Moves, TypeOK
<1>4. ~Catting(p)' /\ ~Writing(p)' BY <1>3 DEF Catting, Writing, InRead, InWrite, Idle
<1>5. ReadingType' BY <1>1 DEF ReadingType
<1>6. reading'.by = reading.by /\ reading'.shown = reading.shown /\ reading'.asked = reading.asked
  BY <1>1 DEF ReadingType
<1>7. TypeOK'
  <2>1. temp' \in Int32 BY <1>1 DEF TypeOK
  <2>2. proc' \in [Procs -> ProcType]
    <3>1. Idle \in ProcType BY ProcAssumption DEF Idle, ProcType, Labels, Passed, Counts, Ids, Int32
    <3> QED BY <1>1, <3>1 DEF TypeOK, ProcType, Labels, Passed, Counts, Ids
  <2>3. given' \in 0 .. text'.len BY <1>1, ProcAssumption DEF TypeOK
  <2> QED BY <1>1, <1>6, <2>1, <2>2, <2>3 DEF TypeOK, ProcType, Labels, Passed, Counts, Ids
<1>8. CallInv' BY <1>3, <1>4, CallStep
<1> Basics' BY <1>5, <1>7, <1>8 DEF Basics
<1>9. CASE raced
  <2>1. reading = NoReading /\ text = NoText BY <1>9 DEF OneInv
  <2>2. reading.by # {p} BY <2>1 DEF NoReading
  <2>3. Forgotten' BY <1>1, <1>9, <2>1, <2>2 DEF Forgotten
  <2> QED BY <2>3, ForgottenIsEnough, PTL
<1>10. CASE ~raced
  <2>1. Solo(p) /\ HasMemory /\ (\A q \in Procs \ {p} : proc[q].pc \notin InRead \cup InWrite)
    BY <1>2, <1>10, Solos
  <2>2. Busy' = {} BY <1>3, <2>1, BusyStep DEF InRead, InWrite, Idle
  <2>3. Left = 0 /\ proc[p].loaded = len /\ TextStands BY <1>1, <1>2, <2>1 DEF Solo, Shared
  <2>4. TextStands' BY <1>1, <2>3 DEF TextStands, HasMemory
  <2>5. temp' = Left' BY <1>1, <2>3 DEF Left, TypeOK
  <2>6. OneInv' BY <1>1, <1>10, <2>1, <2>2 DEF OneInv, Solo
  <2>7. ReadingInv'
    <3>1. CASE reading.by # {p}
      <4>1. reading.by = {} BY <2>1, <3>1 DEF ReadingInv, Solo
      <4>2. reading' = NoReading BY <1>1, <3>1, <4>1 DEF ReadingInv
      <4> QED BY <4>2 DEF ReadingInv, NoReading
    <3>2. CASE reading.by = {p}
      <4>1. reading'.over BY <1>1, <3>2 DEF ReadingType
      <4>2. Len(reading.shown) = given /\ given = len BY <1>2, <2>3, <3>2 DEF ReadingInv, Left, TypeOK
      <4>3. Len(reading'.shown) = text'.len BY <1>1, <1>6, <2>3, <4>2 DEF TextStands
      <4>4. /\ reading.asked \in Asked
            /\ \A k \in DOMAIN reading.shown :
                 reading.shown[k] = [id |-> text.id, place |-> (k - 1) % reading.asked]
        BY <3>2 DEF ReadingInv
      <4> QED BY <1>1, <1>4, <1>6, <2>2, <3>2, <4>1, <4>3, <4>4 DEF ReadingInv
    <3> QED BY <3>1, <3>2
  <2>8. Settled' BY <1>1, <1>10, <2>1, <2>2, <2>4, <2>5, <2>6, <2>7 DEF Settled, Solo, AccidentsExplained
  <2> QED BY <2>8, SettledIsEnough, PTL
<1> QED BY <1>9, <1>10

-----------------------------------------------------------------------------
(* The theorems.                                                           *)

LEMMA NextProc == ProcInv /\ [Next]_vars => ProcInv'
<1> SUFFICES ASSUME ProcInv, [Next]_vars PROVE ProcInv' OBVIOUS
<1>1. CASE UNCHANGED vars
  BY <1>1 DEF vars, histVars, ProcInv, TypeOK, ReadingType, CallInv, Catting, Writing, OneInv, Busy,
     AccidentsExplained, WrittenInv, Written, TextInv, TextStands, HasMemory, Left, ShareInv, Shared, Share,
     ReadingInv
<1>2. CASE Next
  <2>1. CASE status = "running" /\ Load BY <2>1, LoadKeeps
  <2>2. ASSUME NEW p \in Procs, status = "running", Continue(p) PROVE ProcInv'
    BY <2>2, CopyFromUserKeeps, SetLenKeeps, SetTempKeeps, RefusedKeeps, ReadProcKeeps, LimitKeeps, AssignKeeps,
       SubtractKeeps, StoreKeeps, CopyToUserKeeps, LoadLenKeeps, RewindKeeps
    DEF Continue
  <2>3. ASSUME NEW p \in Procs, NEW n \in Lengths, status = "running", WriteProc(p, n) PROVE ProcInv'
    BY <2>3, WriteProcKeeps
  <2>4. ASSUME NEW p \in Procs, NEW n \in Asked, status = "running", Cat(p, n) PROVE ProcInv'
    BY <2>4, CatKeeps
  <2> QED BY <1>2, <2>1, <2>2, <2>3, <2>4 DEF Next
<1> QED BY <1>1, <1>2

LEMMA ProcInvariant == Spec => []ProcInv
  BY InitProc, NextProc, PTL DEF Spec

\* All variables of /proc/buffer keep their types: whatever counts race with one another,
\* temp never leaves an int, and no more is given of a text than was written; len goes
\* beyond msg only by a write that has overrun it, where the model ends (main.c:19-35).
THEOREM ProcTyped == Spec => []TypeOK
<1>1. ProcInv => TypeOK BY DEF ProcInv
<1> QED BY <1>1, ProcInvariant, PTL

\* Calls that come one by one share the text: temp is what is left of it, a reading is given as
\* many bytes as the text has, and each piece starts with the first byte (main.c:19-28, 33-35).
THEOREM SerialReadsAreShared == Spec => []SerialReadsShare
<1>1. ASSUME ProcInv PROVE SerialReadsShare
  <2>1. SUFFICES ASSUME ~raced, Busy = {} PROVE SerialReadsShare BY DEF SerialReadsShare
  <2>2. Settled BY <1>1, <2>1, Settles
  <2>3. \A k \in DOMAIN reading.shown : reading.shown[k] = [id |-> text.id, place |-> (k - 1) % reading.asked]
    <3>1. CASE reading.by = {} BY <2>2, <3>1 DEF Settled, ReadingInv, NoReading
    <3>2. CASE reading.by # {} BY <2>2, <3>2 DEF Settled, ReadingInv
    <3> QED BY <3>1, <3>2
  <2>4. reading.over => Len(reading.shown) = text.len
    <3>1. CASE reading.by = {} BY <2>2, <3>1 DEF Settled, ReadingInv, NoReading
    <3>2. CASE reading.by # {} BY <2>2, <3>2 DEF Settled, ReadingInv
    <3> QED BY <3>1, <3>2
  <2> QED BY <2>2, <2>3, <2>4 DEF SerialReadsShare, Settled, TextStands, Left
<1>2. ProcInv => SerialReadsShare BY <1>1
<1> QED BY <1>2, ProcInvariant, PTL

\* Memory outside msg is touched only where calls have overlapped or met the loading of the
\* module, or by a single write longer than msg (main.c:19-23, 33, 46-48, 59-60).
THEOREM AccidentsHaveCauses == Spec => []AccidentsExplained
<1>1. ProcInv => AccidentsExplained BY DEF ProcInv
<1> QED BY <1>1, ProcInvariant, PTL
=============================================================================
