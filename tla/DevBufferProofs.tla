-------------------------- MODULE DevBufferProofs ---------------------------
(***************************************************************************)
(* Proofs about the character device, for any processes, any length of msg *)
(* and any order of their accesses: what has to have overlapped before     *)
(* memory is touched that is not there, and what the readers of an         *)
(* undisturbed string are given.                                           *)
(***************************************************************************)
EXTENDS DevBuffer, TLAPS

PcOf   == {"closed", "opening", "open", "releasing"} \cup Reading \cup Writing
States == [pc : PcOf, len : Nat, chars : Nat, place : Nat, id : 0 .. MaxCalls]
Gotten == [id : 0 .. MaxCalls, place : Places]

\* What the local variables of a call are worth at each of its points.
CallInv ==
  \A p \in Procs :
    /\ proc[p].pc \in {"take", "advance"} => proc[p].len > 0
    /\ proc[p].pc \in {"test", "take", "advance"} => msg_Ptr # Null
    /\ proc[p].pc \in Writing => proc[p].chars <= proc[p].len /\ proc[p].id > 0
    /\ proc[p].pc \in Storing => proc[p].len > 0
    /\ proc[p].pc = "copy" => proc[p].place < proc[p].chars
    /\ proc[p].pc = "terminate" => proc[p].place = proc[p].chars
    /\ proc[p].pc \in {"strlen", "rewind"} /\ proc[p].len > 0 => End(p) \in Places

\* Nobody is counted where the module is going.
CountInv == module \in {"going", "out"} => held = {}

\* The last place of msg holds a NUL except while a string that fills it is being stored.
Past(p) == proc[p].pc \in Storing /\ proc[p].place >= BUF_LEN
LastInv == (\A p \in Procs : ~Past(p)) => msg[BUF_LEN - 1] = NUL

\* One reader alone stays inside msg: what it has seen not to be NUL is not the last place.
InsideInv ==
  ~crowded =>
    /\ \A p, q \in Procs : proc[p].pc \in Reading /\ proc[q].pc \in Reading => p = q
    /\ \A p, q \in Procs : Brimful(p) /\ q \in Busy => p = q
    /\ \A p \in Procs : proc[p].pc = "strlen" => proc[p].place \in Places
    /\ msg_Ptr # Null => msg_Ptr \in Places
    /\ \A p \in Procs :
         /\ proc[p].pc = "take" => msg_Ptr < BUF_LEN - 1
         /\ proc[p].pc = "advance" => proc[p].place < BUF_LEN - 1

SafeInv == TypeOK /\ CallInv /\ CountInv /\ LastInv /\ InsideInv /\ AccidentsExplained

-----------------------------------------------------------------------------
\* Who is at work on a string of its own; no text is known meanwhile.
Copying(p) == proc[p].pc \in Writing /\ proc[p].len > 0

\* Of what has raced nothing is told; else the calls follow one another.
AloneInv ==
  /\ raced => text = NoText /\ got = <<>> /\ due = 0
  /\ ~raced => \A p, q \in Procs : p \in Busy /\ q \in Busy => p = q
  /\ text.len > 0 => text.id > 0

\* What an undisturbed writer has put into msg so far.
CopyInv ==
  ~raced =>
    \A p \in Procs : Copying(p) =>
      /\ proc[p].id > 0
      /\ proc[p].pc \in Storing => \A k \in Places : k < proc[p].place => msg[k] = proc[p].id
      /\ proc[p].pc \in {"strlen", "rewind"} =>
           /\ \A k \in Places : k < End(p) => msg[k] = proc[p].id
           /\ msg[End(p)] = NUL

\* The text stands in msg, NUL behind it, and msg_Ptr is where the readers are.
WholeInv ==
  ~raced /\ (\A p \in Procs : ~Copying(p)) =>
    /\ \A k \in Places : k < text.len => msg[k] = text.id
    /\ msg[text.len] = NUL
    /\ \A k \in DOMAIN got : got[k] = [id |-> text.id, place |-> k - 1]
    /\ Len(got) <= due
    /\ IF msg_Ptr = Null THEN text.len = 0 ELSE msg_Ptr = Len(got)

\* How far a reader is from what it is due.
DueInv ==
  ~raced /\ (\A p \in Procs : ~Copying(p)) =>
    /\ (\A p \in Procs : proc[p].pc \notin Reading) => Len(got) = due
    /\ \A p \in Procs : proc[p].pc \in Reading =>
         /\ due = IF Len(got) + proc[p].len < text.len THEN Len(got) + proc[p].len ELSE text.len
         /\ proc[p].pc \in {"take", "advance"} => Len(got) < text.len
         /\ proc[p].pc = "advance" => proc[p].place = Len(got)

SerialInv == SafeInv /\ AloneInv /\ CopyInv /\ WholeInv /\ DueInv

-----------------------------------------------------------------------------
\* What becomes of proc where one process moves on,
LEMMA Becomes ==
  ASSUME TypeOK, NEW p \in Procs, NEW x \in States, Become(p, x)
  PROVE  /\ proc' \in [Procs -> States]
         /\ proc'[p] = x
         /\ \A q \in Procs : q # p => proc'[q] = proc[q]
  BY DEF TypeOK, Become, States, PcOf

\* and where only its label changes.
LEMMA Goes ==
  ASSUME TypeOK, NEW p \in Procs, NEW label \in PcOf, Goto(p, label)
  PROVE  /\ proc' \in [Procs -> States]
         /\ proc'[p].pc = label /\ proc'[p].len = proc[p].len
         /\ proc'[p].place = proc[p].place /\ proc'[p].id = proc[p].id
         /\ proc'[p].chars = proc[p].chars
         /\ \A q \in Procs : q # p => proc'[q] = proc[q]
  BY DEF TypeOK, Goto, States, PcOf

\* One place further.
LEMMA Steps ==
  ASSUME TypeOK, NEW p \in Procs, NEW label \in PcOf, Step(p, label)
  PROVE  /\ proc' \in [Procs -> States]
         /\ proc'[p].pc = label /\ proc'[p].len = proc[p].len
         /\ proc'[p].place = proc[p].place + 1 /\ proc'[p].id = proc[p].id
         /\ proc'[p].chars = proc[p].chars
         /\ \A q \in Procs : q # p => proc'[q] = proc[q]
  <1>1. proc \in [Procs -> States] BY DEF TypeOK, States, PcOf
  <1>2. proc[p].place + 1 \in Nat BY <1>1 DEF States
  <1> DEFINE x == [proc[p] EXCEPT !.place = proc[p].place + 1, !.pc = label]
  <1>3. /\ x \in States /\ x.pc = label /\ x.place = proc[p].place + 1
        /\ x.len = proc[p].len /\ x.id = proc[p].id /\ x.chars = proc[p].chars
    BY <1>1, <1>2 DEF States
  <1>4. proc' = [proc EXCEPT ![p] = x] BY <1>1 DEF Step
  <1> HIDE DEF x
  <1> QED BY <1>1, <1>3, <1>4

\* Back to the first place, to look for the NUL.
LEMMA Measures ==
  ASSUME TypeOK, NEW p \in Procs, Become(p, [proc[p] EXCEPT !.pc = "strlen", !.place = 0])
  PROVE  /\ proc' \in [Procs -> States]
         /\ proc'[p].pc = "strlen" /\ proc'[p].len = proc[p].len
         /\ proc'[p].place = 0 /\ proc'[p].id = proc[p].id
         /\ proc'[p].chars = proc[p].chars
         /\ \A q \in Procs : q # p => proc'[q] = proc[q]
  <1>1. proc \in [Procs -> States] /\ "strlen" \in PcOf BY DEF TypeOK, States, PcOf, Writing
  <1> DEFINE x == [proc[p] EXCEPT !.pc = "strlen", !.place = 0]
  <1>2. /\ x \in States /\ x.pc = "strlen" /\ x.place = 0
        /\ x.len = proc[p].len /\ x.id = proc[p].id /\ x.chars = proc[p].chars
    BY <1>1 DEF States
  <1>3. Become(p, x) OBVIOUS
  <1> HIDE DEF x
  <1> QED BY <1>1, <1>2, <1>3, Becomes

\* The histories keep their types.
LEMMA Recorded ==
  ASSUME NEW race \in BOOLEAN, NEW t \in Text, NEW g \in Seq(Gotten), NEW d \in 0 .. t.len,
         Record(race, t, g, d)
  PROVE  /\ raced' \in BOOLEAN /\ raced' = race
         /\ text' \in Text /\ got' \in Seq(Gotten) /\ due' \in 0 .. text'.len
         /\ race => text' = NoText /\ got' = <<>> /\ due' = 0
         /\ ~race => text' = t /\ got' = g /\ due' = d
  <1>1. NoText \in Text /\ NoText.len = 0 BY DevAssumption DEF NoText, Text
  <1>2. CASE race BY <1>1, <1>2 DEF Record
  <1>3. CASE ~race BY <1>3 DEF Record
  <1> QED BY <1>2, <1>3

\* The states of a process that the actions name.
LEMMA NamedStates ==
  /\ Closed \in States /\ Opening \in States /\ Opened \in States /\ Releasing \in States
  /\ Closed.pc = "closed" /\ Opening.pc = "opening" /\ Opened.pc = "open" /\ Releasing.pc = "releasing"
  /\ \A label \in PcOf, n \in Nat, c \in Nat, k \in Nat, w \in 0 .. MaxCalls :
       /\ At(label, n, c, k, w) \in States
       /\ At(label, n, c, k, w).pc = label /\ At(label, n, c, k, w).len = n
       /\ At(label, n, c, k, w).chars = c
       /\ At(label, n, c, k, w).place = k /\ At(label, n, c, k, w).id = w
  BY DevAssumption DEF Closed, Opening, Opened, Releasing, At, States, PcOf, Reading, Writing, Storing

\* Where a write begins, and how much it is going to store.
LEMMA Starts ==
  ASSUME NEW n \in Nat, NEW end \in Nat
  PROVE  /\ Begin(n, end) \in PcOf /\ Begin(n, end) \in Writing
         /\ Stored(n, end) \in Nat /\ Stored(n, end) <= n
         /\ Begin(n, end) = "strlen" <=> n = 0
         /\ Begin(n, end) = "copy" => 0 < Stored(n, end)
         /\ Begin(n, end) = "terminate" => Stored(n, end) = 0
         /\ Begin(n, end) # "rewind"
  BY DEF Begin, Stored, PcOf, Writing, Storing

\* Every variable but those of proc and the histories.
DeviceTypes ==
  /\ module \in {"new", "live", "going", "out"} /\ held \in SUBSET Procs
  /\ msg \in [Places -> 0 .. MaxCalls] /\ msg_Ptr \in Int /\ msg_Ptr >= Null
  /\ calls \in 0 .. MaxCalls /\ status \in {"running", "undefined"}

HistoryTypes ==
  /\ text \in Text /\ due \in 0 .. text.len /\ raced \in BOOLEAN /\ crowded \in BOOLEAN
  /\ got \in Seq(Gotten)

LEMMA TypesSplit == TypeOK <=> DeviceTypes /\ HistoryTypes /\ proc \in [Procs -> States]
  BY DEF TypeOK, DeviceTypes, HistoryTypes, States, PcOf, Gotten

LEMMA InitTyped == Init => TypeOK
  <1> SUFFICES ASSUME Init PROVE TypeOK OBVIOUS
  <1>1. NoText \in Text /\ NoText.len = 0 BY DevAssumption DEF NoText, Text
  <1>2. DeviceTypes BY DevAssumption DEF Init, DeviceTypes, NUL, Null, Places
  <1>3. raced \in BOOLEAN /\ crowded \in BOOLEAN BY Zenon DEF Init
  <1>4. HistoryTypes BY <1>1, <1>3 DEF Init, HistoryTypes, Gotten
  <1>5. proc \in [Procs -> States] BY NamedStates DEF Init
  <1> QED BY <1>2, <1>4, <1>5, TypesSplit

LEMMA StepTyped == TypeOK /\ CallInv /\ [Next]_vars => TypeOK'
  <1> SUFFICES ASSUME TypeOK, CallInv, [Next]_vars PROVE TypeOK' OBVIOUS
  <1> USE NamedStates
  <1>t. DeviceTypes /\ HistoryTypes /\ proc \in [Procs -> States] BY TypesSplit
  <1>h. UNCHANGED histVars => HistoryTypes' BY <1>t DEF histVars, HistoryTypes
  <1>d. UNCHANGED <<module, held, msg, msg_Ptr, calls>> /\ status' \in {"running", "undefined"}
          => DeviceTypes'
    BY <1>t DEF DeviceTypes
  <1>s. TypeOK' <=> DeviceTypes' /\ HistoryTypes' /\ proc' \in [Procs -> States]
    BY TypesSplit DEF TypeOK, DeviceTypes, HistoryTypes, States, PcOf, Gotten
  <1> HIDE DEF TypeOK
  <1>1. CASE InitModule \/ Unload \/ CleanupModule
    BY <1>1, <1>t, <1>h, <1>s DEF InitModule, Unload, CleanupModule, DeviceTypes
  <1>2. ASSUME NEW p \in Procs, Open(p) \/ DeviceOpen(p) \/ DeviceRelease(p) \/ ReleaseReturns(p) PROVE TypeOK'
    <2>1. DeviceTypes' /\ UNCHANGED histVars
      BY <1>2, <1>t DEF Open, DeviceOpen, DeviceRelease, ReleaseReturns, DeviceTypes
    <2>2. proc' \in [Procs -> States] BY <1>2, Becomes DEF Open, DeviceOpen, DeviceRelease, ReleaseReturns
    <2> QED BY <1>h, <1>s, <2>1, <2>2
  <1>3. ASSUME NEW p \in Procs, UseAfterUnload(p) PROVE TypeOK'
    BY <1>3, <1>t, <1>h, <1>d, <1>s DEF UseAfterUnload
  <1>4. ASSUME NEW p \in Procs, NEW n \in Lengths, NEW end \in Ends, DeviceWrite(p, n, end) PROVE TypeOK'
    <2>1. n \in Nat /\ end \in Nat /\ calls + 1 \in 0 .. MaxCalls
      BY <1>4, <1>t, DevAssumption DEF DeviceWrite, DeviceTypes
    <2>2. At(Begin(n, end), n, Stored(n, end), 0, calls + 1) \in States
      BY <2>1, Starts
    <2>3. proc' \in [Procs -> States] BY <1>4, <2>2, Becomes DEF DeviceWrite
    <2>4. DeviceTypes' BY <1>4, <1>t, <2>1 DEF DeviceWrite, DeviceTypes
    <2>5. (IF Busy = {} THEN raced /\ n = 0 ELSE TRUE) \in BOOLEAN BY <1>t, Zenon DEF HistoryTypes
    <2>7. crowded' \in BOOLEAN BY <1>4, Zenon DEF DeviceWrite
    <2>6. HistoryTypes' BY <1>4, <1>t, <2>5, <2>7, Recorded DEF DeviceWrite, HistoryTypes
    <2> QED BY <1>s, <2>3, <2>4, <2>6
  <1>5. ASSUME NEW p \in Procs, NEW n \in Lengths, DeviceRead(p, n) PROVE TypeOK'
    <2>1. n \in Nat /\ calls + 1 \in 0 .. MaxCalls
      BY <1>5, <1>t, DevAssumption DEF DeviceRead, DeviceTypes
    <2>2. At("check", n, 0, 0, 0) \in States
      BY <2>1, DevAssumption DEF PcOf, Reading
    <2>3. proc' \in [Procs -> States] BY <1>5, <2>2, Becomes DEF DeviceRead
    <2>4. DeviceTypes' BY <1>5, <1>t, <2>1 DEF DeviceRead, DeviceTypes
    <2>5. (raced \/ Busy # {}) \in BOOLEAN /\ crowded' \in BOOLEAN
      BY <1>5, Zenon DEF DeviceRead
    <2>6. (IF due + n < text.len THEN due + n ELSE text.len) \in 0 .. text.len
      BY <1>t, <2>1 DEF HistoryTypes, Text
    <2>7. HistoryTypes' BY <1>5, <1>t, <2>5, <2>6, Recorded DEF DeviceRead, HistoryTypes
    <2> QED BY <1>s, <2>3, <2>4, <2>7
  <1>6. ASSUME NEW p \in Procs, Copy(p) PROVE TypeOK'
    <2>1. (IF proc[p].place + 1 < proc[p].chars THEN "copy" ELSE "terminate") \in PcOf
      BY DEF PcOf, Writing, Storing
    <2>2. proc' \in [Procs -> States] BY <1>6, <1>t, <2>1, Steps DEF Copy
    <2>3. proc[p].id \in 0 .. MaxCalls BY <1>t DEF States
    <2>4. msg' \in [Places -> 0 .. MaxCalls] BY <1>6, <1>t, <2>3 DEF Copy, DeviceTypes
    <2>5. DeviceTypes' /\ UNCHANGED histVars BY <1>6, <1>t, <2>4 DEF Copy, DeviceTypes
    <2> QED BY <1>h, <1>s, <2>2, <2>5
  <1>14. ASSUME NEW p \in Procs, Terminate(p) PROVE TypeOK'
    <2>2. proc' \in [Procs -> States] BY <1>14, <1>t, Measures DEF Terminate
    <2>3. NUL \in 0 .. MaxCalls BY DevAssumption DEF NUL
    <2>4. msg' \in [Places -> 0 .. MaxCalls] BY <1>14, <1>t, <2>3 DEF Terminate, DeviceTypes
    <2>5. DeviceTypes' /\ UNCHANGED histVars BY <1>14, <1>t, <2>4 DEF Terminate, DeviceTypes
    <2> QED BY <1>h, <1>s, <2>2, <2>5
  <1>15. ASSUME NEW p \in Procs, Strlen(p) PROVE TypeOK'
    <2>1. "strlen" \in PcOf /\ "rewind" \in PcOf BY DEF PcOf, Writing
    <2>2. proc' \in [Procs -> States] BY <1>15, <1>t, <2>1, Steps, Goes DEF Strlen
    <2>3. DeviceTypes' /\ UNCHANGED histVars BY <1>15, <1>t DEF Strlen, DeviceTypes
    <2> QED BY <1>h, <1>s, <2>2, <2>3
  <1>7. ASSUME NEW p \in Procs, Rewind(p) PROVE TypeOK'
    <2>1. proc' \in [Procs -> States] BY <1>7, Becomes DEF Rewind
    <2>2. DeviceTypes' BY <1>7, <1>t DEF Rewind, DeviceTypes, Null
    <2> DEFINE t == IF proc[p].len = 0 THEN text ELSE [id |-> proc[p].id, len |-> End(p)]
    <2>0. /\ proc[p].len \in Nat /\ proc[p].id \in 0 .. MaxCalls
          /\ proc[p].len # 0 => End(p) \in 0 .. BUF_LEN - 1
      <3>1. proc[p].pc = "rewind" /\ proc[p].len \in Nat /\ proc[p].id \in 0 .. MaxCalls
        BY <1>7, <1>t DEF States, Rewind, Runs
      <3>2. proc[p].len # 0 => End(p) \in Places BY <3>1 DEF CallInv
      <3> QED BY <3>1, <3>2 DEF Places
    <2>3. t \in Text BY <1>t, <2>0, DevAssumption DEF HistoryTypes, Text
    <2>4. 0 \in 0 .. t.len /\ <<>> \in Seq(Gotten) BY <2>3 DEF Text
    <2>5. Record(raced, t, <<>>, 0) /\ crowded' = crowded BY <1>7 DEF Rewind
    <2> HIDE DEF t
    <2>6. HistoryTypes' BY <1>t, <2>3, <2>4, <2>5, Recorded DEF HistoryTypes
    <2> QED BY <1>s, <2>1, <2>2, <2>6
  <1>8. ASSUME NEW p \in Procs, NEW next \in PcOf, LookAt(p, next) PROVE TypeOK'
    <2>1. proc' \in [Procs -> States] BY <1>8, <1>t, Becomes, Goes DEF LookAt
    <2>2. DeviceTypes' /\ UNCHANGED histVars BY <1>8, <1>t DEF LookAt, DeviceTypes
    <2> QED BY <1>h, <1>s, <2>1, <2>2
  <1>9. ASSUME NEW p \in Procs, Check(p) \/ Test(p) PROVE TypeOK'
    BY <1>8, <1>9 DEF Check, Test, PcOf, Reading
  <1>10. ASSUME NEW p \in Procs, Return(p) PROVE TypeOK'
    <2>1. proc' \in [Procs -> States] BY <1>10, Becomes DEF Return
    <2> QED BY <1>10, <1>t, <1>h, <1>d, <1>s, <2>1 DEF Return, DeviceTypes
  <1>11. ASSUME NEW p \in Procs, Take(p) PROVE TypeOK'
    <2>1. msg_Ptr \in Nat BY <1>11, <1>t DEF Take, Runs, CallInv, DeviceTypes, Null
    <2>2. At("advance", proc[p].len, 0, msg_Ptr, 0) \in States
      <3>1. proc[p].len \in Nat BY <1>t DEF States
      <3> QED BY <2>1, <3>1, DevAssumption DEF PcOf, Reading
    <2>3. proc' \in [Procs -> States] BY <1>11, <2>2, Becomes DEF Take
    <2> QED BY <1>11, <1>t, <1>h, <1>d, <1>s, <2>3 DEF Take, DeviceTypes
  <1>12. ASSUME NEW p \in Procs, Advance(p) PROVE TypeOK'
    <2>1. proc[p].place \in Nat /\ proc[p].len - 1 \in Nat
      <3>1. proc[p].len \in Nat /\ proc[p].place \in Nat BY <1>t DEF States
      <3>2. proc[p].len > 0 BY <1>12 DEF Advance, Runs, CallInv
      <3> QED BY <3>1, <3>2, DevAssumption
    <2>2. DeviceTypes' BY <1>12, <1>t, <2>1 DEF Advance, DeviceTypes, Null
    <2>3. CASE proc[p].place \in Places
      <3>1. At("test", proc[p].len - 1, 0, 0, 0) \in States
        BY <2>1, DevAssumption DEF PcOf, Reading
      <3>2. proc' \in [Procs -> States] BY <1>12, <2>3, <3>1, Becomes DEF Advance
      <3>3. [id |-> msg[proc[p].place], place |-> proc[p].place] \in Gotten
        BY <1>t, <2>3 DEF DeviceTypes, Gotten
      <3>4. Append(got, [id |-> msg[proc[p].place], place |-> proc[p].place]) \in Seq(Gotten)
        BY <1>t, <3>3 DEF HistoryTypes
      <3>5. HistoryTypes' BY <1>12, <1>t, <2>3, <3>4, Recorded DEF Advance, HistoryTypes
      <3> QED BY <1>s, <2>2, <3>2, <3>5
    <2>4. CASE proc[p].place \notin Places
      BY <1>12, <1>t, <1>h, <1>s, <2>2, <2>4 DEF Advance
    <2> QED BY <2>3, <2>4
  <1>13. CASE UNCHANGED vars BY <1>13, <1>t, <1>h, <1>d, <1>s DEF vars, DeviceTypes
  <1> QED BY <1>1, <1>2, <1>3, <1>4, <1>5, <1>6, <1>7, <1>9, <1>10, <1>11, <1>12, <1>13, <1>14, <1>15
          DEF Next, Process

-----------------------------------------------------------------------------
LEMMA InitSafe == Init => SafeInv
  <1> SUFFICES ASSUME Init PROVE SafeInv OBVIOUS
  <1>1. \A p \in Procs : proc[p].pc = "closed" BY NamedStates DEF Init
  <1>2. CallInv /\ InsideInv
    BY <1>1, DevAssumption DEF Init, CallInv, InsideInv, Brimful, Reading, Writing, Storing, Null
  <1>3. LastInv BY DevAssumption DEF Init, LastInv, Places
  <1>4. CountInv /\ AccidentsExplained BY DEF Init, CountInv, AccidentsExplained
  <1> QED BY <1>2, <1>3, <1>4, InitTyped DEF SafeInv

\* Where a reader goes on or returns the writers are where they were.
LEMMA ReaderMoves ==
  ASSUME NEW p \in Procs, proc[p].pc \in Reading, proc'[p].pc \notin Writing,
         \A q \in Procs : q # p => proc'[q] = proc[q]
  PROVE  \A q \in Procs : /\ (Past(q))' <=> Past(q)
                          /\ (Brimful(q))' <=> Brimful(q)
                          /\ ((q \in Busy)' => (q \in Busy))
                          /\ (proc'[q].pc \in Writing => proc'[q] = proc[q])
  BY DEF Past, Brimful, Busy, End, Reading, Writing, Storing

\* Who has got past the end of msg has a string that fills it.
LEMMA PastIsBrimful ==
  ASSUME CallInv, proc \in [Procs -> States]
  PROVE  \A q \in Procs : Past(q) => Brimful(q)
  <1> SUFFICES ASSUME NEW q \in Procs, Past(q) PROVE Brimful(q) OBVIOUS
  <1>1. proc[q].chars \in Nat /\ proc[q].place \in Nat BY DEF States
  <1>2. proc[q].place <= proc[q].chars BY <1>1 DEF Past, CallInv, Storing
  <1> QED BY <1>1, <1>2, DevAssumption DEF Past, Brimful, Writing

\* A step keeps whoever reads alone inside msg, and whoever is counted in the module.
LEMMA StepSafe == SafeInv /\ [Next]_vars => SafeInv'
  <1> SUFFICES ASSUME SafeInv, [Next]_vars PROVE SafeInv' OBVIOUS
  <1> USE NamedStates
  <1>i. TypeOK /\ CallInv /\ CountInv /\ LastInv /\ InsideInv /\ AccidentsExplained BY DEF SafeInv
  <1>t. TypeOK' BY <1>i, StepTyped
  <1>p. proc \in [Procs -> States] /\ msg \in [Places -> 0 .. MaxCalls] /\ msg_Ptr \in Int
    BY <1>i, TypesSplit DEF DeviceTypes
  <1> HIDE DEF SafeInv, TypeOK
  <1>1. ASSUME InitModule \/ Unload \/ CleanupModule, status = "running" PROVE SafeInv'
    <2>1. UNCHANGED <<held, msg, msg_Ptr, proc, status, crowded>> /\ (module' \in {"going", "out"} => held = {})
      BY <1>1, <1>i DEF InitModule, Unload, CleanupModule, histVars, CountInv
    <2>2. CallInv' /\ InsideInv' /\ LastInv' /\ CountInv'
      BY <1>i, <2>1 DEF CallInv, End, InsideInv, Brimful, Busy, LastInv, Past, CountInv
    <2>3. AccidentsExplained' BY <1>1, <2>1 DEF AccidentsExplained
    <2> QED BY <1>t, <2>2, <2>3 DEF SafeInv
  <1>2. ASSUME NEW p \in Procs, Open(p) \/ DeviceOpen(p) \/ DeviceRelease(p) \/ ReleaseReturns(p), status = "running" PROVE SafeInv'
    <2>1. proc'[p].pc \in {"closed", "opening", "open", "releasing"} /\ \A q \in Procs : q # p => proc'[q] = proc[q]
      BY <1>2, <1>i, Becomes DEF Open, DeviceOpen, DeviceRelease, ReleaseReturns
    <2>2. UNCHANGED <<module, msg, msg_Ptr, status, crowded>>
      BY <1>2 DEF Open, DeviceOpen, DeviceRelease, ReleaseReturns, histVars
    <2>6. proc[p].pc \in {"closed", "opening", "open", "releasing"}
      BY <1>2 DEF Open, DeviceOpen, DeviceRelease, ReleaseReturns, Runs
    <2>3. CallInv' /\ InsideInv'
      BY <1>i, <2>1, <2>2 DEF CallInv, End, InsideInv, Brimful, Busy, Reading, Writing, Storing
    <2>4. CountInv' BY <1>2, <1>i DEF CountInv, Open, DeviceOpen, DeviceRelease, ReleaseReturns
    <2>5. LastInv' /\ AccidentsExplained'
      BY <1>2, <1>i, <2>1, <2>2, <2>6 DEF LastInv, Past, Storing, AccidentsExplained
    <2> QED BY <1>t, <2>3, <2>4, <2>5 DEF SafeInv
  <1>3. ASSUME NEW p \in Procs, UseAfterUnload(p) PROVE SafeInv'
    <2>1. CallInv' /\ InsideInv' /\ LastInv' /\ CountInv'
      BY <1>3, <1>i DEF UseAfterUnload, histVars, CallInv, End, InsideInv, Brimful, Busy, LastInv, Past, CountInv
    <2>2. p \in Procs \ held BY <1>3, <1>i DEF UseAfterUnload, CountInv
    <2>3. AccidentsExplained' BY <1>3, <2>2 DEF UseAfterUnload, AccidentsExplained
    <2> QED BY <1>t, <2>1, <2>3 DEF SafeInv
  <1>4. ASSUME NEW p \in Procs, NEW n \in Lengths, NEW end \in Ends, DeviceWrite(p, n, end), status = "running"
        PROVE SafeInv'
    <2>1. n \in Nat /\ end \in Nat /\ calls + 1 \in 1 .. MaxCalls
      BY <1>4, <1>i, TypesSplit, DevAssumption DEF DeviceWrite, DeviceTypes
    <2> DEFINE x == At(Begin(n, end), n, Stored(n, end), 0, calls + 1)
    <2>0. /\ Begin(n, end) \in PcOf /\ Begin(n, end) \in Writing
          /\ Stored(n, end) \in Nat /\ Stored(n, end) <= n
          /\ Begin(n, end) = "strlen" <=> n = 0
          /\ Begin(n, end) = "copy" => 0 < Stored(n, end)
          /\ Begin(n, end) = "terminate" => Stored(n, end) = 0
          /\ Begin(n, end) # "rewind"
      BY <2>1, Starts
    <2>2. /\ x \in States /\ x.pc = Begin(n, end) /\ x.len = n /\ x.chars = Stored(n, end)
          /\ x.place = 0 /\ x.id = calls + 1
      BY <2>0, <2>1
    <2>3. Become(p, x) BY <1>4 DEF DeviceWrite
    <2> HIDE DEF x
    <2>4. /\ proc'[p].pc = Begin(n, end) /\ proc'[p].len = n /\ proc'[p].chars = Stored(n, end)
          /\ proc'[p].place = 0 /\ proc'[p].id = calls + 1
          /\ \A q \in Procs : q # p => proc'[q] = proc[q]
      BY <1>i, <2>2, <2>3, Becomes
    <2>5. UNCHANGED <<module, held, msg, msg_Ptr, status>> BY <1>4 DEF DeviceWrite
    <2>6. CallInv'
      <3>1. \A q \in Procs : q # p => proc'[q] = proc[q] /\ (End(q))' = End(q) BY <2>4 DEF End
      <3>2. proc'[p].pc \notin Reading /\ proc'[p].pc # "rewind" /\ (proc'[p].pc = "strlen" => proc'[p].len = 0)
        BY <2>0, <2>4 DEF Reading, Writing, Storing
      <3>3. /\ proc'[p].chars <= proc'[p].len /\ proc'[p].id > 0
            /\ proc'[p].pc \in Storing => proc'[p].len > 0
            /\ proc'[p].pc = "copy" => proc'[p].place < proc'[p].chars
            /\ proc'[p].pc = "terminate" => proc'[p].place = proc'[p].chars
        BY <2>0, <2>1, <2>4 DEF Storing
      <3> QED BY <1>i, <2>5, <3>1, <3>2, <3>3 DEF CallInv, Reading
    <2>7. ~crowded' => ~crowded /\ \A q \in Busy : ~Brimful(q) /\ ~(Stored(n, end) >= BUF_LEN)
      <3>1. crowded' = (crowded \/ \E q \in Busy : Brimful(q) \/ Stored(n, end) >= BUF_LEN)
        BY <1>4 DEF DeviceWrite
      <3> QED BY <3>1, Zenon
    <2>8. InsideInv'
      <3>1. p \notin Busy /\ proc'[p].pc \notin Reading
        BY <1>4, <2>0, <2>4 DEF DeviceWrite, Runs, Busy, Reading, Writing, Storing
      <3>2. \A q \in Procs : q # p => /\ (q \in Busy)' <=> (q \in Busy)
                                     /\ (Brimful(q))' <=> Brimful(q)
                                     /\ (Brimful(q) => (q \in Busy))
        BY <2>4 DEF Busy, Brimful
      <3>3. (Brimful(p))' => Stored(n, end) >= BUF_LEN BY <2>4 DEF Brimful
      <3>4. ~crowded' => \A q, r \in Procs : (Brimful(q))' /\ (r \in Busy)' => q = r
        <4> SUFFICES ASSUME ~crowded', NEW q \in Procs, NEW r \in Procs, (Brimful(q))', (r \in Busy)'
                     PROVE  q = r
          OBVIOUS
        <4>1. ~crowded /\ \A o \in Busy : ~Brimful(o) /\ ~(Stored(n, end) >= BUF_LEN) BY <2>7
        <4>2. CASE q # p
          <5>1. Brimful(q) /\ q \in Busy BY <2>4, <4>2 DEF Brimful, Busy
          <5> QED BY <4>1, <5>1
        <4>3. CASE q = p /\ r # p
          <5>1. r \in Busy BY <2>4, <4>3 DEF Busy
          <5>2. Stored(n, end) >= BUF_LEN BY <3>3, <4>3
          <5> QED BY <4>1, <5>1, <5>2
        <4> QED BY <4>2, <4>3
      <3>5. 0 \in Places BY DevAssumption DEF Places
      <3> QED BY <1>i, <2>0, <2>4, <2>5, <2>7, <3>1, <3>4, <3>5 DEF InsideInv, Reading, Writing, Storing
    <2>9. LastInv'
      <3>1. \A q \in Procs : ~(Past(q))' => ~Past(q)
        BY <1>4, <2>4 DEF Past, DeviceWrite, Runs, Storing
      <3> QED BY <1>i, <2>5, <3>1 DEF LastInv
    <2>10. CountInv' /\ AccidentsExplained'
      BY <1>4, <1>i, <2>5 DEF CountInv, AccidentsExplained
    <2> QED BY <1>t, <2>6, <2>8, <2>9, <2>10 DEF SafeInv
  <1>5. ASSUME NEW p \in Procs, NEW n \in Lengths, DeviceRead(p, n), status = "running" PROVE SafeInv'
    <2>1. n \in Nat /\ 0 \in 0 .. MaxCalls /\ "check" \in PcOf
      BY <1>5, DevAssumption DEF DeviceRead, PcOf, Reading
    <2>2. At("check", n, 0, 0, 0) \in States /\ At("check", n, 0, 0, 0).pc = "check" BY <2>1
    <2>3. proc'[p].pc = "check" /\ \A q \in Procs : q # p => proc'[q] = proc[q]
      BY <1>5, <1>i, <2>2, Becomes DEF DeviceRead
    <2>4. UNCHANGED <<module, held, msg, msg_Ptr, status>> BY <1>5 DEF DeviceRead
    <2>5. ~crowded' => ~crowded /\ \A q \in Procs : proc[q].pc \notin Reading /\ ~Brimful(q)
      <3>1. crowded' = (crowded \/ \E q \in Busy : proc[q].pc \in Reading \/ Brimful(q))
        BY <1>5 DEF DeviceRead
      <3>2. \A q \in Procs : Brimful(q) \/ proc[q].pc \in Reading => q \in Busy BY DEF Busy, Brimful
      <3> QED BY <3>1, <3>2, Zenon
    <2>6. CallInv' BY <1>i, <2>3, <2>4 DEF CallInv, End, Writing, Storing
    <2>9. \A q \in Procs : (Brimful(q))' => Brimful(q) BY <2>3 DEF Brimful, Writing, Storing
    <2>7. InsideInv' BY <1>i, <2>3, <2>4, <2>5, <2>9 DEF InsideInv, Reading
    <2>10. \A q \in Procs : ~(Past(q))' => ~Past(q)
      BY <1>5, <2>3 DEF Past, DeviceRead, Runs, Storing
    <2>8. CountInv' /\ LastInv' /\ AccidentsExplained'
      BY <1>5, <1>i, <2>4, <2>10 DEF CountInv, LastInv, AccidentsExplained
    <2> QED BY <1>t, <2>6, <2>7, <2>8 DEF SafeInv
  <1>6. ASSUME NEW p \in Procs, Copy(p), status = "running" PROVE SafeInv'
    <2>4. /\ proc[p].place \in Nat /\ proc[p].chars \in Nat /\ proc[p].len \in Nat
          /\ proc[p].pc = "copy" /\ proc[p].place < proc[p].chars /\ proc[p].chars <= proc[p].len
      BY <1>6, <1>p, <1>i DEF States, Copy, Runs, CallInv, Writing, Storing
    <2>3. UNCHANGED <<module, held, msg_Ptr, crowded>> BY <1>6 DEF Copy, histVars
    <2>8. CountInv' BY <1>i, <2>3 DEF CountInv
    <2>1. CASE proc[p].place \in Places
      <3> DEFINE next == IF proc[p].place + 1 < proc[p].chars THEN "copy" ELSE "terminate"
      <3>1. next \in PcOf BY DEF PcOf, Writing, Storing
      <3>2. /\ proc'[p].pc = next /\ proc'[p].len = proc[p].len /\ proc'[p].chars = proc[p].chars
            /\ proc'[p].place = proc[p].place + 1 /\ proc'[p].id = proc[p].id
            /\ \A q \in Procs : q # p => proc'[q] = proc[q]
        BY <1>6, <1>i, <2>1, <3>1, Steps DEF Copy
      <3>3. UNCHANGED status /\ msg' = [msg EXCEPT ![proc[p].place] = proc[p].id]
        BY <1>6, <2>1 DEF Copy
      <3>4. CallInv' BY <1>i, <2>3, <2>4, <3>2 DEF CallInv, End, Writing, Storing
      <3>5. \A q \in Procs : /\ (q \in Busy)' <=> (q \in Busy)
                             /\ (Brimful(q))' <=> Brimful(q)
        BY <2>4, <3>2 DEF Busy, Brimful, Writing, Storing
      <3>6. InsideInv' BY <1>i, <2>3, <2>4, <3>2, <3>5 DEF InsideInv, Reading
      <3>7. LastInv'
        <4>1. CASE proc[p].place = BUF_LEN - 1
          <5>1. (Past(p))' BY <2>4, <3>2, <4>1, DevAssumption DEF Past, Storing
          <5> QED BY <5>1 DEF LastInv
        <4>2. CASE proc[p].place # BUF_LEN - 1
          <5>1. \A q \in Procs : ~(Past(q))' => ~Past(q)
            BY <2>4, <3>2, DevAssumption DEF Past, Storing
          <5>2. msg'[BUF_LEN - 1] = msg[BUF_LEN - 1]
            BY <1>p, <3>3, <4>2, DevAssumption DEF Places
          <5> QED BY <1>i, <5>1, <5>2 DEF LastInv
        <4> QED BY <4>1, <4>2
      <3>8. AccidentsExplained' BY <1>6, <3>3 DEF AccidentsExplained
      <3> QED BY <1>t, <2>8, <3>4, <3>6, <3>7, <3>8 DEF SafeInv
    <2>2. CASE proc[p].place \notin Places
      <3>1. UNCHANGED <<msg, proc>> BY <1>6, <2>2 DEF Copy
      <3>2. CallInv' /\ InsideInv' /\ LastInv'
        BY <1>i, <2>3, <3>1 DEF CallInv, End, InsideInv, Brimful, Busy, LastInv, Past
      <3>3. proc'[p].pc \in Storing /\ proc'[p].len > BUF_LEN
        BY <2>2, <2>4, <3>1, DevAssumption DEF Places, Storing
      <3>4. AccidentsExplained' BY <3>3 DEF AccidentsExplained
      <3> QED BY <1>t, <2>8, <3>2, <3>4 DEF SafeInv
    <2> QED BY <2>1, <2>2
  <1>13. ASSUME NEW p \in Procs, Terminate(p), status = "running" PROVE SafeInv'
    <2>4. /\ proc[p].place \in Nat /\ proc[p].chars \in Nat /\ proc[p].len \in Nat
          /\ proc[p].pc = "terminate" /\ proc[p].place = proc[p].chars /\ proc[p].chars <= proc[p].len
          /\ proc[p].len > 0
      BY <1>13, <1>p, <1>i DEF States, Terminate, Runs, CallInv, Writing, Storing
    <2>3. UNCHANGED <<module, held, msg_Ptr, crowded>> BY <1>13 DEF Terminate, histVars
    <2>8. CountInv' BY <1>i, <2>3 DEF CountInv
    <2>5. End(p) \in Nat /\ End(p) < proc[p].len /\ End(p) <= proc[p].chars /\ proc[p].chars <= End(p) + 1
      BY <2>4 DEF End
    <2>1. CASE End(p) \in Places
      <3>1. Become(p, [proc[p] EXCEPT !.pc = "strlen", !.place = 0]) BY <1>13, <2>1 DEF Terminate
      <3>2. /\ proc'[p].pc = "strlen" /\ proc'[p].len = proc[p].len /\ proc'[p].chars = proc[p].chars
            /\ proc'[p].place = 0 /\ proc'[p].id = proc[p].id
            /\ \A q \in Procs : q # p => proc'[q] = proc[q]
        BY <1>i, <3>1, Measures
      <3>3. UNCHANGED status /\ msg' = [msg EXCEPT ![End(p)] = NUL] BY <1>13, <2>1 DEF Terminate
      <3>9. (End(p))' = End(p) BY <3>2 DEF End
      <3>4. CallInv'
        <4>1. \A q \in Procs : q # p => (End(q))' = End(q) BY <3>2 DEF End
        <4> QED BY <1>i, <2>1, <2>3, <2>4, <3>2, <3>9, <4>1 DEF CallInv, Writing, Storing
      <3>5. \A q \in Procs : /\ (q \in Busy)' <=> (q \in Busy)
                             /\ (Brimful(q))' <=> Brimful(q)
        BY <2>4, <3>2 DEF Busy, Brimful, Writing, Storing
      <3>10. 0 \in Places BY DevAssumption DEF Places
      <3>6. InsideInv' BY <1>i, <2>3, <2>4, <3>2, <3>5, <3>10 DEF InsideInv, Reading
      <3>7. LastInv'
        <4>1. CASE End(p) = BUF_LEN - 1
          <5>1. msg'[BUF_LEN - 1] = NUL BY <1>p, <2>1, <3>3, <4>1
          <5> QED BY <5>1 DEF LastInv
        <4>2. CASE End(p) # BUF_LEN - 1
          <5>1. ~Past(p) BY <2>1, <2>4, <2>5, <4>2, DevAssumption DEF Past, Places
          <5>2. \A q \in Procs : ~(Past(q))' => ~Past(q) BY <3>2, <5>1 DEF Past
          <5>3. msg'[BUF_LEN - 1] = msg[BUF_LEN - 1]
            BY <1>p, <3>3, <4>2, DevAssumption DEF Places
          <5> QED BY <1>i, <5>2, <5>3 DEF LastInv
        <4> QED BY <4>1, <4>2
      <3>8. AccidentsExplained' BY <1>13, <3>3 DEF AccidentsExplained
      <3> QED BY <1>t, <2>8, <3>4, <3>6, <3>7, <3>8 DEF SafeInv
    <2>2. CASE End(p) \notin Places
      <3>1. UNCHANGED <<msg, proc>> BY <1>13, <2>2 DEF Terminate
      <3>2. CallInv' /\ InsideInv' /\ LastInv'
        BY <1>i, <2>3, <3>1 DEF CallInv, End, InsideInv, Brimful, Busy, LastInv, Past
      <3>3. proc'[p].pc \in Storing /\ proc'[p].len > BUF_LEN
        BY <2>2, <2>4, <2>5, <3>1, DevAssumption DEF Places, Storing
      <3>4. AccidentsExplained' BY <3>3 DEF AccidentsExplained
      <3> QED BY <1>t, <2>8, <3>2, <3>4 DEF SafeInv
    <2> QED BY <2>1, <2>2
  <1>14. ASSUME NEW p \in Procs, Strlen(p), status = "running" PROVE SafeInv'
    <2>4. proc[p].place \in Nat /\ proc[p].pc = "strlen" BY <1>14, <1>p DEF States, Strlen, Runs
    <2>3. UNCHANGED <<module, held, msg, msg_Ptr, crowded>> BY <1>14 DEF Strlen, histVars
    <2>8. CountInv' BY <1>i, <2>3 DEF CountInv
    <2>1. CASE proc[p].place \in Places
      <3>1. PICK next \in {"strlen", "rewind"} :
              /\ IF next = "rewind" THEN Goto(p, next) ELSE Step(p, next) /\ msg[proc[p].place] # NUL
        BY <1>14, <2>1 DEF Strlen
      <3>0. "strlen" \in PcOf /\ "rewind" \in PcOf BY DEF PcOf, Writing
      <3>2. /\ proc'[p].pc = next /\ proc'[p].len = proc[p].len /\ proc'[p].chars = proc[p].chars
            /\ proc'[p].id = proc[p].id
            /\ next = "strlen" => proc'[p].place = proc[p].place + 1
            /\ \A q \in Procs : q # p => proc'[q] = proc[q]
        BY <1>i, <3>0, <3>1, Steps, Goes
      <3>3. UNCHANGED status BY <1>14, <2>1 DEF Strlen
      <3>4. CallInv'
        <4>1. \A q \in Procs : (End(q))' = End(q) BY <3>2 DEF End
        <4> QED BY <1>i, <2>3, <2>4, <3>2, <4>1 DEF CallInv, Writing, Storing
      <3>5. \A q \in Procs : /\ (q \in Busy)' <=> (q \in Busy)
                             /\ (Brimful(q))' <=> Brimful(q)
        BY <2>4, <3>2 DEF Busy, Brimful, Writing, Storing
      <3>7. \A q \in Procs : (Past(q))' <=> Past(q) BY <2>4, <3>2 DEF Past, Storing
      <3>6. LastInv' BY <1>i, <2>3, <3>7 DEF LastInv
      <3>9. ~crowded /\ next = "strlen" => proc'[p].place \in Places
        <4> SUFFICES ASSUME ~crowded, next = "strlen" PROVE proc'[p].place \in Places
          OBVIOUS
        <4>1. \A q \in Procs : ~Past(q)
          <5> SUFFICES ASSUME NEW q \in Procs, Past(q) PROVE FALSE OBVIOUS
          <5>3. Brimful(q) BY <1>i, <1>p, PastIsBrimful
          <5>4. p \in Busy BY <2>4 DEF Busy, Writing
          <5>5. p = q BY <1>i, <5>3, <5>4 DEF InsideInv
          <5> QED BY <2>4, <5>5 DEF Past, Storing
        <4>2. proc[p].place # BUF_LEN - 1 BY <1>i, <3>1, <4>1 DEF LastInv
        <4> QED BY <2>1, <2>4, <3>2, <4>2, DevAssumption DEF Places
      <3>10. InsideInv' BY <1>i, <2>3, <2>4, <3>2, <3>5, <3>9 DEF InsideInv, Reading
      <3>8. AccidentsExplained' BY <1>14, <3>3 DEF AccidentsExplained
      <3> QED BY <1>t, <2>8, <3>4, <3>6, <3>10, <3>8 DEF SafeInv
    <2>2. CASE proc[p].place \notin Places
      <3>1. UNCHANGED proc BY <1>14, <2>2 DEF Strlen
      <3>2. CallInv' /\ InsideInv' /\ LastInv'
        BY <1>i, <2>3, <3>1 DEF CallInv, End, InsideInv, Brimful, Busy, LastInv, Past
      <3>3. crowded BY <1>i, <2>2, <2>4 DEF InsideInv
      <3>4. AccidentsExplained' BY <2>3, <3>3 DEF AccidentsExplained
      <3> QED BY <1>t, <2>8, <3>2, <3>4 DEF SafeInv
    <2> QED BY <2>1, <2>2
  <1>7. ASSUME NEW p \in Procs, Rewind(p), status = "running" PROVE SafeInv'
    <2>1. proc'[p].pc = "open" /\ \A q \in Procs : q # p => proc'[q] = proc[q]
      BY <1>7, <1>i, Becomes DEF Rewind
    <2>2. UNCHANGED <<module, held, msg, status, crowded>> /\ msg_Ptr' = 0 BY <1>7 DEF Rewind
    <2>3. CallInv' BY <1>i, <2>1, <2>2 DEF CallInv, End, Writing, Storing, Null
    <2>6. \A q \in Procs : ((q \in Busy)' => (q \in Busy)) /\ ((Brimful(q))' => Brimful(q))
      BY <2>1 DEF Busy, Brimful, Reading, Writing, Storing
    <2>4. InsideInv'
      <3>1. \A q \in Procs : ~crowded /\ proc[q].pc = "take" => 0 < BUF_LEN - 1
        BY <1>i, <1>p, DevAssumption DEF InsideInv, CallInv, Places
      <3> QED BY <1>i, <2>1, <2>2, <2>6, <3>1, DevAssumption DEF InsideInv, Reading, Places
    <2>7. \A q \in Procs : ~(Past(q))' => ~Past(q) BY <1>7, <2>1 DEF Past, Storing, Rewind, Runs
    <2>5. CountInv' /\ LastInv' /\ AccidentsExplained'
      BY <1>7, <1>i, <2>2, <2>7 DEF CountInv, LastInv, AccidentsExplained
    <2> QED BY <1>t, <2>3, <2>4, <2>5 DEF SafeInv
  <1>8. ASSUME NEW p \in Procs, Check(p) \/ Test(p), status = "running" PROVE SafeInv'
    <2>1. PICK next \in {"test", "take"} :
            /\ LookAt(p, next) /\ proc[p].pc \in Reading
            /\ next = "take" => proc[p].len > 0
      BY <1>8 DEF Check, Test, Runs, Reading
    <2>2. UNCHANGED <<module, held, msg, msg_Ptr, crowded>> BY <2>1 DEF LookAt, histVars
    <2>3. CountInv' BY <1>i, <2>2 DEF CountInv
    <2>6. \A q \in Procs : Past(q) => q # p BY <2>1 DEF Past, Reading, Storing
    <2>4. CASE msg_Ptr \in Places
      <3>1. UNCHANGED status /\ \A q \in Procs : q # p => proc'[q] = proc[q]
        BY <1>i, <2>1, <2>4, Becomes, Goes DEF LookAt, PcOf, Reading
      <3>2. AccidentsExplained' BY <1>8, <3>1 DEF AccidentsExplained
      <3>3. CASE msg[msg_Ptr] = NUL
        <4>1. proc'[p].pc = "open" BY <1>i, <2>1, <2>4, <3>3, Becomes DEF LookAt
        <4>5. \A q \in Procs : /\ ((Past(q))' <=> Past(q)) /\ ((Brimful(q))' <=> Brimful(q))
                               /\ ((q \in Busy)' => (q \in Busy))
                               /\ (proc'[q].pc \in Writing => proc'[q] = proc[q])
          BY <2>1, <3>1, <4>1, ReaderMoves DEF Writing, Storing
        <4>6. LastInv' BY <1>i, <2>2, <4>5 DEF LastInv
        <4>3. CallInv' BY <1>i, <2>2, <3>1, <4>1 DEF CallInv, End, Writing, Storing
        <4>4. InsideInv' BY <1>i, <2>2, <3>1, <4>1, <4>5 DEF InsideInv, Reading
        <4> QED BY <1>t, <2>3, <3>2, <4>3, <4>4, <4>6 DEF SafeInv
      <3>4. CASE msg[msg_Ptr] # NUL
        <4>1. proc'[p].pc = next /\ proc'[p].len = proc[p].len
          BY <1>i, <2>1, <2>4, <3>4, Goes DEF LookAt, PcOf, Reading
        <4>5. \A q \in Procs : /\ ((Past(q))' <=> Past(q)) /\ ((Brimful(q))' <=> Brimful(q))
                               /\ ((q \in Busy)' => (q \in Busy))
                               /\ (proc'[q].pc \in Writing => proc'[q] = proc[q])
          BY <2>1, <3>1, <4>1, ReaderMoves DEF Writing, Storing
        <4>6. LastInv' BY <1>i, <2>2, <4>5 DEF LastInv
        <4>7. ~crowded => \A q \in Procs : ~Past(q)
          <5>1. \A q \in Procs : Past(q) => Brimful(q) BY <1>i, <1>p, PastIsBrimful
          <5>2. p \in Busy BY <2>1 DEF Busy
          <5> QED BY <1>i, <2>6, <5>1, <5>2 DEF InsideInv
        <4>2. msg_Ptr # Null /\ (~crowded => msg_Ptr < BUF_LEN - 1)
          BY <1>i, <2>4, <3>4, <4>7, DevAssumption DEF LastInv, Places, Null
        <4>3. CallInv' BY <1>i, <2>1, <2>2, <3>1, <4>1, <4>2 DEF CallInv, End, Writing, Storing
        <4>4. InsideInv' BY <1>i, <2>1, <2>2, <3>1, <4>1, <4>2, <4>5 DEF InsideInv, Reading
        <4> QED BY <1>t, <2>3, <3>2, <4>3, <4>4, <4>6 DEF SafeInv
      <3> QED BY <3>3, <3>4
    <2>5. CASE msg_Ptr \notin Places
      <3>1. UNCHANGED proc /\ status' = "undefined" BY <2>1, <2>5 DEF LookAt
      <3>2. CallInv' /\ InsideInv' /\ LastInv'
        BY <1>i, <2>2, <3>1 DEF CallInv, End, InsideInv, Brimful, Busy, LastInv, Past
      <3>3. AccidentsExplained' BY <1>i, <2>2, <2>5, <3>1 DEF InsideInv, AccidentsExplained
      <3> QED BY <1>t, <2>3, <3>2, <3>3 DEF SafeInv
    <2> QED BY <2>4, <2>5
  <1>9. ASSUME NEW p \in Procs, Return(p), status = "running" PROVE SafeInv'
    <2>1. proc'[p].pc = "open" /\ \A q \in Procs : q # p => proc'[q] = proc[q]
      BY <1>9, <1>i, Becomes DEF Return
    <2>2. UNCHANGED <<module, held, msg, msg_Ptr, status, crowded>> BY <1>9 DEF Return, histVars
    <2>5. \A q \in Procs : /\ ((Past(q))' <=> Past(q)) /\ ((Brimful(q))' <=> Brimful(q))
                           /\ ((q \in Busy)' => (q \in Busy))
                           /\ (proc'[q].pc \in Writing => proc'[q] = proc[q])
      BY <1>9, <2>1, ReaderMoves DEF Return, Runs, Reading, Writing, Storing
    <2>3. CallInv' BY <1>i, <2>1, <2>2 DEF CallInv, End, Writing, Storing
    <2>6. InsideInv' BY <1>i, <2>1, <2>2, <2>5 DEF InsideInv, Reading
    <2>4. CountInv' /\ LastInv' /\ AccidentsExplained'
      BY <1>9, <1>i, <2>2, <2>5 DEF CountInv, LastInv, AccidentsExplained
    <2> QED BY <1>t, <2>3, <2>4, <2>6 DEF SafeInv
  <1>10. ASSUME NEW p \in Procs, Take(p), status = "running" PROVE SafeInv'
    <2>1. msg_Ptr # Null /\ proc[p].len > 0 /\ proc[p].pc = "take"
      BY <1>10, <1>i DEF Take, Runs, CallInv
    <2>2. proc[p].len \in Nat /\ msg_Ptr \in Nat
      BY <1>i, <1>p, <2>1, TypesSplit DEF States, DeviceTypes, Null
    <2>3. /\ At("advance", proc[p].len, 0, msg_Ptr, 0) \in States
          /\ At("advance", proc[p].len, 0, msg_Ptr, 0).pc = "advance"
          /\ At("advance", proc[p].len, 0, msg_Ptr, 0).len = proc[p].len
          /\ At("advance", proc[p].len, 0, msg_Ptr, 0).place = msg_Ptr
      <3>1. "advance" \in PcOf /\ 0 \in Nat /\ 0 \in 0 .. MaxCalls
        BY DevAssumption DEF PcOf, Reading
      <3> QED BY <2>2, <3>1
    <2>4. /\ proc'[p].pc = "advance" /\ proc'[p].len = proc[p].len /\ proc'[p].place = msg_Ptr
          /\ \A q \in Procs : q # p => proc'[q] = proc[q]
      BY <1>10, <1>i, <2>3, Becomes DEF Take
    <2>5. UNCHANGED <<module, held, msg, msg_Ptr, status, crowded>> BY <1>10 DEF Take, histVars
    <2>9. \A q \in Procs : /\ ((Past(q))' <=> Past(q)) /\ ((Brimful(q))' <=> Brimful(q))
                           /\ ((q \in Busy)' => (q \in Busy))
                           /\ (proc'[q].pc \in Writing => proc'[q] = proc[q])
      BY <2>1, <2>4, ReaderMoves DEF Reading, Writing, Storing
    <2>6. CallInv' BY <1>i, <2>1, <2>4, <2>5 DEF CallInv, End, Writing, Storing
    <2>7. InsideInv' BY <1>i, <2>1, <2>4, <2>5, <2>9 DEF InsideInv, Reading
    <2>8. CountInv' /\ LastInv' /\ AccidentsExplained'
      BY <1>10, <1>i, <2>5, <2>9 DEF CountInv, LastInv, AccidentsExplained
    <2> QED BY <1>t, <2>6, <2>7, <2>8 DEF SafeInv
  <1>11. ASSUME NEW p \in Procs, Advance(p), status = "running" PROVE SafeInv'
    <2>1. proc[p].pc = "advance" /\ proc[p].len > 0 BY <1>11, <1>i DEF Advance, Runs, CallInv
    <2>2. proc[p].len \in Nat /\ proc[p].place \in Nat BY <1>p DEF States
    <2>3. msg_Ptr' = proc[p].place + 1 /\ UNCHANGED <<module, held, msg, crowded>>
      BY <1>11 DEF Advance, histVars
    <2>4. CountInv' BY <1>i, <2>3 DEF CountInv
    <2>5. ~crowded => proc[p].place < BUF_LEN - 1 /\ msg_Ptr' \in Places
      BY <1>i, <2>1, <2>2, <2>3, DevAssumption DEF InsideInv, Places
    <2>6. CASE proc[p].place \in Places
      <3>1. proc[p].len - 1 \in Nat /\ "test" \in PcOf /\ 0 \in 0 .. MaxCalls
        BY <2>1, <2>2, DevAssumption DEF PcOf, Reading
      <3>2. /\ At("test", proc[p].len - 1, 0, 0, 0) \in States
            /\ At("test", proc[p].len - 1, 0, 0, 0).pc = "test"
        BY <3>1
      <3>3. UNCHANGED status /\ proc'[p].pc = "test" /\ \A q \in Procs : q # p => proc'[q] = proc[q]
        BY <1>11, <1>i, <2>6, <3>2, Becomes DEF Advance
      <3>7. \A q \in Procs : /\ ((Past(q))' <=> Past(q)) /\ ((Brimful(q))' <=> Brimful(q))
                             /\ ((q \in Busy)' => (q \in Busy))
                             /\ (proc'[q].pc \in Writing => proc'[q] = proc[q])
        BY <2>1, <3>3, ReaderMoves DEF Reading, Writing, Storing
      <3>4. CallInv' BY <1>i, <2>2, <2>3, <3>3 DEF CallInv, End, Writing, Storing, Null
      <3>5. InsideInv' BY <1>i, <2>1, <2>3, <2>5, <3>3, <3>7 DEF InsideInv, Reading
      <3>6. AccidentsExplained' /\ LastInv' BY <1>11, <1>i, <2>3, <3>3, <3>7 DEF AccidentsExplained, LastInv
      <3> QED BY <1>t, <2>4, <3>4, <3>5, <3>6 DEF SafeInv
    <2>7. CASE proc[p].place \notin Places
      <3>1. crowded BY <2>2, <2>5, <2>7, DevAssumption DEF Places
      <3>2. UNCHANGED proc BY <1>11, <2>7 DEF Advance
      <3>3. CallInv' /\ LastInv' BY <1>i, <2>2, <2>3, <3>2 DEF CallInv, End, LastInv, Past, Null
      <3>4. InsideInv' /\ AccidentsExplained' BY <2>3, <3>1 DEF InsideInv, AccidentsExplained
      <3> QED BY <1>t, <2>4, <3>3, <3>4 DEF SafeInv
    <2> QED BY <2>6, <2>7
  <1>12. CASE UNCHANGED vars
    <2>1. CallInv' /\ InsideInv' /\ LastInv' /\ CountInv' /\ AccidentsExplained'
      BY <1>12, <1>i
      DEF vars, histVars, CallInv, End, InsideInv, Brimful, Busy, LastInv, Past, CountInv, AccidentsExplained
    <2> QED BY <1>t, <2>1 DEF SafeInv
  <1> QED BY <1>1, <1>2, <1>3, <1>4, <1>5, <1>6, <1>7, <1>8, <1>9, <1>10, <1>11, <1>12, <1>13, <1>14
          DEF Next, Process

-----------------------------------------------------------------------------
Known == AloneInv /\ CopyInv /\ WholeInv /\ DueInv

LEMMA InitSerial == Init => SerialInv
  <1> SUFFICES ASSUME Init PROVE SerialInv OBVIOUS
  <1>1. \A p \in Procs : proc[p].pc = "closed" BY NamedStates DEF Init
  <1>2. text = NoText /\ got = <<>> /\ due = 0 /\ msg_Ptr = Null /\ NoText.len = 0 /\ ~raced
    BY DEF Init, NoText
  <1>3. AloneInv /\ CopyInv BY <1>1, <1>2 DEF AloneInv, CopyInv, Copying, Busy, Reading, Writing, Storing
  <1>4. msg[0] = NUL BY DevAssumption DEF Init, Places
  <1>5. WholeInv BY <1>2, <1>4 DEF WholeInv, Places
  <1>6. DueInv BY <1>1, <1>2 DEF DueInv, Reading
  <1> QED BY <1>3, <1>5, <1>6, InitSafe DEF SerialInv

\* Nothing that is known changes where msg, msg_Ptr and the histories stay and nobody
\* begins a call, goes on with one or ends it.
LEMMA Undisturbed ==
  ASSUME Known, UNCHANGED <<msg, msg_Ptr, text, got, due, raced>>,
         \A q \in Procs : \/ proc'[q] = proc[q]
                          \/ /\ proc[q].pc \notin Reading \cup Writing
                             /\ proc'[q].pc \notin Reading \cup Writing
  PROVE  Known'
  <1>1. AloneInv' BY DEF Known, AloneInv, Busy
  <1>2. \A q \in Procs : (Copying(q))' => Copying(q) /\ proc'[q] = proc[q]
    BY DEF Copying
  <1>3. \A q \in Procs : Copying(q) => (Copying(q))'
    BY DEF Copying
  <1>4. CopyInv' BY <1>2 DEF Known, CopyInv, End
  <1>5. WholeInv' BY <1>3 DEF Known, WholeInv
  <1>6. \A q \in Procs : /\ proc'[q].pc \in Reading <=> proc[q].pc \in Reading
                         /\ proc'[q].pc \in Reading => proc'[q] = proc[q]
    OBVIOUS
  <1>7. DueInv' BY <1>3, <1>6 DEF Known, DueInv
  <1> QED BY <1>1, <1>4, <1>5, <1>7 DEF Known

\* Where a reader p is not disturbed, nobody copies and nobody else is in a call.
LEMMA ReadsAlone ==
  ASSUME Known, ~raced, NEW p \in Procs, proc[p].pc \in Reading
  PROVE  /\ \A q \in Procs : ~Copying(q)
         /\ \A q \in Procs : q # p => proc[q].pc \notin Reading \cup Writing
  BY DEF Known, AloneInv, Copying, Busy, Reading, Writing, Storing

\* A reader that goes on with its call: what is known of the text, if that stays.
LEMMA ReaderGoesOn ==
  ASSUME Known, NEW p \in Procs, proc[p].pc \in Reading, proc'[p].pc \notin Writing,
         \A q \in Procs : q # p => proc'[q] = proc[q],
         UNCHANGED <<msg, msg_Ptr, text, got, due, raced>>
  PROVE  AloneInv' /\ CopyInv' /\ WholeInv'
  <1>1. p \in Busy BY DEF Busy
  <1>2. AloneInv' BY <1>1 DEF Known, AloneInv, Busy
  <1>3. \A q \in Procs : ~raced => ~Copying(q) BY ReadsAlone
  <1>4. \A q \in Procs : ~raced => ~(Copying(q))' BY <1>3 DEF Copying
  <1> QED BY <1>2, <1>3, <1>4 DEF Known, CopyInv, WholeInv

LEMMA StepSerial == SerialInv /\ [Next]_vars => SerialInv'
  <1> SUFFICES ASSUME SerialInv, [Next]_vars PROVE SerialInv' OBVIOUS
  <1> USE NamedStates
  <1>i. SafeInv /\ Known /\ TypeOK BY DEF SerialInv, Known, SafeInv
  <1>s. SafeInv' BY <1>i, StepSafe
  <1>k. Known' => SerialInv' BY <1>s DEF SerialInv, Known
  <1>p. /\ proc \in [Procs -> States] /\ msg \in [Places -> 0 .. MaxCalls] /\ msg_Ptr \in Int
        /\ text \in Text /\ due \in 0 .. text.len /\ got \in Seq(Gotten) /\ raced \in BOOLEAN
        /\ text.len \in 0 .. BUF_LEN - 1 /\ NoText \in Text /\ NoText.len = 0
    BY <1>i, TypesSplit, DevAssumption DEF DeviceTypes, HistoryTypes, Text, NoText
  <1>n. Len(got) \in Nat BY <1>p
  <1> HIDE DEF SerialInv, Known, SafeInv, TypeOK
  <1>1. ASSUME InitModule \/ Unload \/ CleanupModule \/ UNCHANGED vars PROVE Known'
    BY <1>1, <1>i, Undisturbed DEF InitModule, Unload, CleanupModule, vars, histVars
  <1>2. ASSUME NEW p \in Procs, Open(p) \/ DeviceOpen(p) \/ DeviceRelease(p) \/ ReleaseReturns(p) \/ UseAfterUnload(p) PROVE Known'
    <2>1. UNCHANGED <<msg, msg_Ptr, text, got, due, raced>>
      BY <1>2 DEF Open, DeviceOpen, DeviceRelease, ReleaseReturns, UseAfterUnload, histVars
    <2>2. CASE UseAfterUnload(p) BY <1>i, <2>1, <2>2, Undisturbed DEF UseAfterUnload
    <2>3. CASE Open(p) \/ DeviceOpen(p) \/ DeviceRelease(p) \/ ReleaseReturns(p)
      <3>1. /\ proc'[p].pc \in {"closed", "opening", "open", "releasing"} /\ proc[p].pc \in {"closed", "opening", "open", "releasing"}
            /\ \A q \in Procs : q # p => proc'[q] = proc[q]
        BY <1>i, <2>3, Becomes DEF Open, DeviceOpen, DeviceRelease, ReleaseReturns, Runs
      <3> QED BY <1>i, <2>1, <3>1, Undisturbed DEF Reading, Writing, Storing
    <2> QED BY <1>2, <2>2, <2>3
  <1>3. ASSUME NEW p \in Procs, NEW n \in Lengths, NEW end \in Ends, DeviceWrite(p, n, end) PROVE Known'
    <2>1. n \in Nat /\ end \in Nat /\ calls + 1 \in 1 .. MaxCalls
      BY <1>3, <1>i, TypesSplit, DevAssumption DEF DeviceWrite, DeviceTypes
    <2>15. /\ Begin(n, end) \in PcOf /\ Begin(n, end) \in Writing
           /\ Stored(n, end) \in Nat
           /\ (Begin(n, end) = "strlen" <=> n = 0)
           /\ Begin(n, end) # "rewind"
      BY <2>1, Starts
    <2> DEFINE x == At(Begin(n, end), n, Stored(n, end), 0, calls + 1)
    <2>2. /\ x \in States /\ x.pc = Begin(n, end) /\ x.len = n /\ x.place = 0 /\ x.id = calls + 1
      BY <2>1, <2>15
    <2>16. Become(p, x) BY <1>3 DEF DeviceWrite
    <2> HIDE DEF x
    <2>4. /\ proc'[p].pc = Begin(n, end) /\ proc'[p].len = n /\ proc'[p].place = 0
          /\ proc'[p].id = calls + 1
      BY <1>i, <2>2, <2>16, Becomes
    <2>3. \A q \in Procs : q # p => proc'[q] = proc[q] BY <1>i, <2>2, <2>16, Becomes
    <2> DEFINE race == IF Busy = {} THEN raced /\ n = 0 ELSE TRUE
    <2>5. race \in BOOLEAN BY <1>p, Zenon
    <2>6. Record(race, text, got, due) /\ UNCHANGED <<msg, msg_Ptr>> BY <1>3 DEF DeviceWrite
    <2>7. ~race => Busy = {} /\ (n = 0 => ~raced) BY <1>p, Zenon
    <2> HIDE DEF race
    <2>8. /\ raced' = race
          /\ race => text' = NoText /\ got' = <<>> /\ due' = 0
          /\ ~race => text' = text /\ got' = got /\ due' = due
      BY <1>p, <2>5, <2>6, Recorded
    <2>9. ~race => \A q \in Procs : proc[q].pc \notin Reading \cup Writing
      BY <2>7 DEF Busy
    <2>10. AloneInv'
      <3>1. text'.len > 0 => text'.id > 0
        BY <1>i, <1>p, <2>5, <2>8 DEF Known, AloneInv
      <3>2. ~race => \A q \in Procs : q # p => proc'[q].pc \notin Reading \cup Writing
        BY <2>3, <2>9
      <3> QED BY <2>5, <2>8, <3>1, <3>2 DEF AloneInv, Busy
    <2>11. CopyInv'
      <3>1. \A q \in Procs : ~race /\ (Copying(q))' => q = p /\ n > 0 BY <2>1, <2>3, <2>4, <2>9 DEF Copying
      <3>2. n > 0 => /\ proc'[p].pc \notin {"strlen", "rewind"}
                     /\ proc'[p].place = 0 /\ proc'[p].id > 0
        BY <2>1, <2>4, <2>15
      <3> QED BY <2>8, <3>1, <3>2 DEF CopyInv, Places
    <2>12. ~race /\ (\A q \in Procs : ~(Copying(q))') => ~raced /\ \A q \in Procs : ~Copying(q)
      BY <2>1, <2>4, <2>7, <2>9, <2>15 DEF Copying
    <2>13. WholeInv' BY <1>i, <2>6, <2>8, <2>12 DEF Known, WholeInv
    <2>17. proc'[p].pc \notin Reading BY <2>4, <2>15 DEF Reading, Writing, Storing
    <2>14. DueInv' BY <1>i, <2>3, <2>8, <2>9, <2>12, <2>17 DEF Known, DueInv
    <2> QED BY <2>10, <2>11, <2>13, <2>14 DEF Known
  <1>4. ASSUME NEW p \in Procs, NEW n \in Lengths, DeviceRead(p, n) PROVE Known'
    <2>1. n \in Nat /\ 0 \in 0 .. MaxCalls /\ "check" \in PcOf
      BY <1>4, DevAssumption DEF DeviceRead, PcOf, Reading
    <2>2. /\ At("check", n, 0, 0, 0) \in States /\ At("check", n, 0, 0, 0).pc = "check"
          /\ At("check", n, 0, 0, 0).len = n
      BY <2>1
    <2>3. /\ proc'[p].pc = "check" /\ proc'[p].len = n
          /\ \A q \in Procs : q # p => proc'[q] = proc[q]
      BY <1>4, <1>i, <2>2, Becomes DEF DeviceRead
    <2> DEFINE race == raced \/ Busy # {}
               owed == IF due + n < text.len THEN due + n ELSE text.len
    <2>4. race \in BOOLEAN BY Zenon
    <2>5. owed \in 0 .. text.len /\ due <= owed BY <1>p, <2>1
    <2>6. Record(race, text, got, owed) /\ UNCHANGED <<msg, msg_Ptr>> BY <1>4 DEF DeviceRead
    <2>7. ~race => ~raced /\ \A q \in Procs : proc[q].pc \notin Reading \cup Writing BY DEF Busy
    <2> HIDE DEF race
    <2>8. /\ raced' = race
          /\ race => text' = NoText /\ got' = <<>> /\ due' = 0
          /\ ~race => text' = text /\ got' = got /\ due' = owed
      BY <1>p, <2>4, <2>5, <2>6, Recorded
    <2>9. AloneInv'
      <3>1. text'.len > 0 => text'.id > 0 BY <1>i, <1>p, <2>4, <2>8 DEF Known, AloneInv
      <3>2. ~race => \A q \in Procs : q # p => proc'[q].pc \notin Reading \cup Writing
        BY <2>3, <2>7
      <3> QED BY <2>4, <2>8, <3>1, <3>2 DEF AloneInv, Busy
    <2>10. \A q \in Procs : ~race => ~(Copying(q))' /\ ~Copying(q)
      BY <2>3, <2>7 DEF Copying, Writing, Storing
    <2>11. CopyInv' BY <2>8, <2>10 DEF CopyInv
    <2>12. ~race => Len(got) = due BY <1>i, <2>7, <2>10 DEF Known, DueInv
    <2>13. WholeInv' BY <1>i, <1>p, <2>5, <2>6, <2>7, <2>8, <2>10, <2>12 DEF Known, WholeInv
    <2>14. DueInv'
      BY <2>3, <2>7, <2>8, <2>12 DEF DueInv, Reading
    <2> QED BY <2>9, <2>11, <2>13, <2>14 DEF Known
  <1>5. ASSUME NEW p \in Procs, Copy(p) PROVE Known'
    <2>4. /\ proc[p].place \in Nat /\ proc[p].chars \in Nat /\ proc[p].len \in Nat
          /\ proc[p].pc = "copy" /\ proc[p].place < proc[p].chars /\ proc[p].chars <= proc[p].len
          /\ proc[p].id > 0
      BY <1>5, <1>p, <1>i DEF States, Copy, Runs, SafeInv, CallInv, Writing, Storing
    <2>3. UNCHANGED <<msg_Ptr, text, got, due, raced>> BY <1>5 DEF Copy, histVars
    <2>1. CASE proc[p].place \notin Places
      BY <1>5, <1>i, <2>1, <2>3, Undisturbed DEF Copy
    <2>2. CASE proc[p].place \in Places
      <3> DEFINE next == IF proc[p].place + 1 < proc[p].chars THEN "copy" ELSE "terminate"
      <3>1. next \in PcOf /\ next \in Storing BY DEF PcOf, Writing, Storing
      <3>2. /\ proc'[p].pc = next /\ proc'[p].len = proc[p].len
            /\ proc'[p].place = proc[p].place + 1 /\ proc'[p].id = proc[p].id
            /\ \A q \in Procs : q # p => proc'[q] = proc[q]
        BY <1>5, <1>i, <2>2, <3>1, Steps DEF Copy
      <3> HIDE DEF next
      <3>3. /\ \A k \in Places : k # proc[p].place => msg'[k] = msg[k]
            /\ msg'[proc[p].place] = proc[p].id
        BY <1>5, <1>p, <2>2 DEF Copy
      <3>4. proc'[p].pc \in Storing /\ proc'[p].pc \notin {"strlen", "rewind"}
        BY <3>1, <3>2 DEF Storing
      <3>5. Copying(p) /\ (Copying(p))' BY <2>4, <3>2, <3>4 DEF Copying, Writing, Storing
      <3>6. WholeInv' /\ DueInv' BY <3>5 DEF WholeInv, DueInv
      <3>7. \A q \in Procs : (q \in Busy)' <=> (q \in Busy)
        BY <2>4, <3>2, <3>4 DEF Busy, Writing, Storing
      <3>8. AloneInv' BY <1>i, <2>3, <3>7 DEF Known, AloneInv
      <3>9. \A q \in Procs : ~raced /\ (Copying(q))' => q = p
        BY <1>i, <2>4, <3>2 DEF Known, AloneInv, Busy, Copying, Writing, Storing
      <3>10. ~raced => \A k \in Places : k < proc[p].place => msg[k] = proc[p].id
        BY <1>i, <2>4, <3>5 DEF Known, CopyInv, Storing
      <3>11. ~raced => \A k \in Places : k < proc[p].place + 1 => msg'[k] = proc[p].id
        BY <2>4, <3>3, <3>10, DevAssumption DEF Places
      <3>12. CopyInv' BY <2>3, <2>4, <3>2, <3>4, <3>9, <3>11 DEF CopyInv
      <3> QED BY <3>6, <3>8, <3>12 DEF Known
    <2> QED BY <2>1, <2>2
  <1>11. ASSUME NEW p \in Procs, Terminate(p) PROVE Known'
    <2>4. /\ proc[p].place \in Nat /\ proc[p].chars \in Nat /\ proc[p].len \in Nat
          /\ proc[p].pc = "terminate" /\ proc[p].place = proc[p].chars
          /\ proc[p].chars <= proc[p].len /\ proc[p].len > 0 /\ proc[p].id > 0
      BY <1>11, <1>p, <1>i DEF States, Terminate, Runs, SafeInv, CallInv, Writing, Storing
    <2>3. UNCHANGED <<msg_Ptr, text, got, due, raced>> BY <1>11 DEF Terminate, histVars
    <2>5. End(p) \in Nat /\ End(p) <= proc[p].chars BY <2>4 DEF End
    <2>1. CASE End(p) \notin Places
      BY <1>11, <1>i, <2>1, <2>3, Undisturbed DEF Terminate
    <2>2. CASE End(p) \in Places
      <3>1. Become(p, [proc[p] EXCEPT !.pc = "strlen", !.place = 0]) BY <1>11, <2>2 DEF Terminate
      <3>2. /\ proc'[p].pc = "strlen" /\ proc'[p].len = proc[p].len /\ proc'[p].chars = proc[p].chars
            /\ proc'[p].id = proc[p].id
            /\ \A q \in Procs : q # p => proc'[q] = proc[q]
        BY <1>i, <3>1, Measures
      <3>3. /\ \A k \in Places : k # End(p) => msg'[k] = msg[k]
            /\ msg'[End(p)] = NUL
        BY <1>11, <1>p, <2>2 DEF Terminate
      <3>4. (End(p))' = End(p) BY <3>2 DEF End
      <3>5. Copying(p) /\ (Copying(p))' BY <2>4, <3>2 DEF Copying, Writing, Storing
      <3>6. WholeInv' /\ DueInv' BY <3>5 DEF WholeInv, DueInv
      <3>7. \A q \in Procs : (q \in Busy)' <=> (q \in Busy)
        BY <2>4, <3>2 DEF Busy, Writing, Storing
      <3>8. AloneInv' BY <1>i, <2>3, <3>7 DEF Known, AloneInv
      <3>9. \A q \in Procs : ~raced /\ (Copying(q))' => q = p
        BY <1>i, <2>4, <3>2 DEF Known, AloneInv, Busy, Copying, Writing, Storing
      <3>10. ~raced => \A k \in Places : k < proc[p].place => msg[k] = proc[p].id
        BY <1>i, <2>4, <3>5 DEF Known, CopyInv, Storing
      <3>11. ~raced => \A k \in Places : k < End(p) => msg'[k] = proc[p].id
        BY <2>4, <2>5, <3>3, <3>10, DevAssumption DEF Places
      <3>12. CopyInv' BY <2>3, <2>4, <3>2, <3>3, <3>4, <3>9, <3>11 DEF CopyInv, Storing
      <3> QED BY <3>6, <3>8, <3>12 DEF Known
    <2> QED BY <2>1, <2>2
  <1>12. ASSUME NEW p \in Procs, Strlen(p) PROVE Known'
    <2>1. proc[p].pc = "strlen" BY <1>12 DEF Strlen, Runs
    <2>2. UNCHANGED <<msg, msg_Ptr, text, got, due, raced>> BY <1>12 DEF Strlen, histVars
    <2>3. CASE proc[p].place \notin Places
      BY <1>12, <1>i, <2>2, <2>3, Undisturbed DEF Strlen
    <2>4. CASE proc[p].place \in Places
      <3>1. PICK next \in {"strlen", "rewind"} : IF next = "rewind" THEN Goto(p, next) ELSE Step(p, next)
        BY <1>12, <2>4 DEF Strlen
      <3>2. "strlen" \in PcOf /\ "rewind" \in PcOf BY DEF PcOf, Writing
      <3>3. /\ proc'[p].pc = next /\ proc'[p].len = proc[p].len /\ proc'[p].chars = proc[p].chars
            /\ proc'[p].id = proc[p].id
            /\ \A q \in Procs : q # p => proc'[q] = proc[q]
        BY <1>i, <3>1, <3>2, Steps, Goes
      <3>4. \A q \in Procs : (End(q))' = End(q) BY <3>3 DEF End
      <3>5. \A q \in Procs : (Copying(q))' <=> Copying(q)
        BY <2>1, <3>3 DEF Copying, Writing, Storing
      <3>6. \A q \in Procs : (q \in Busy)' <=> (q \in Busy)
        BY <2>1, <3>3 DEF Busy, Writing, Storing
      <3>7. \A q \in Procs : /\ (proc'[q].pc \in Reading <=> proc[q].pc \in Reading)
                             /\ (proc'[q].pc \in Reading => proc'[q] = proc[q])
                             /\ (proc'[q].pc \in Storing => proc'[q] = proc[q])
                             /\ (proc'[q].pc \in {"strlen", "rewind"} => proc[q].pc \in {"strlen", "rewind"})
                             /\ proc'[q].id = proc[q].id
        BY <2>1, <3>3 DEF Reading, Storing
      <3>8. AloneInv' BY <1>i, <2>2, <3>6 DEF Known, AloneInv
      <3>9. CopyInv' BY <1>i, <2>2, <3>4, <3>5, <3>7 DEF Known, CopyInv
      <3>10. WholeInv' BY <1>i, <2>2, <3>5 DEF Known, WholeInv
      <3>11. DueInv' BY <1>i, <2>2, <3>5, <3>7 DEF Known, DueInv
      <3> QED BY <3>8, <3>9, <3>10, <3>11 DEF Known
    <2> QED BY <2>3, <2>4
  <1>6. ASSUME NEW p \in Procs, Rewind(p) PROVE Known'
    <2> DEFINE t == IF proc[p].len = 0 THEN text ELSE [id |-> proc[p].id, len |-> End(p)]
    <2>1. proc'[p].pc = "open" /\ \A q \in Procs : q # p => proc'[q] = proc[q]
      BY <1>6, <1>i, Becomes DEF Rewind
    <2>2. Record(raced, t, <<>>, 0) /\ UNCHANGED msg /\ msg_Ptr' = 0 BY <1>6 DEF Rewind
    <2>3. /\ proc[p].pc = "rewind" /\ proc[p].len \in Nat /\ proc[p].id \in 0 .. MaxCalls
          /\ proc[p].len # 0 => End(p) \in 0 .. BUF_LEN - 1
      <3>1. proc[p].pc = "rewind" /\ proc[p].len \in Nat /\ proc[p].id \in 0 .. MaxCalls
        BY <1>6, <1>p DEF Rewind, Runs, States
      <3>2. proc[p].len # 0 => End(p) \in Places BY <1>i, <3>1 DEF SafeInv, CallInv
      <3> QED BY <3>1, <3>2 DEF Places
    <2>4. t \in Text BY <1>p, <2>3, DevAssumption DEF Text
    <2>5. 0 \in 0 .. t.len /\ <<>> \in Seq(Gotten) BY <2>4 DEF Text
    <2>6. proc[p].len # 0 => t.id = proc[p].id /\ t.len = End(p) OBVIOUS
    <2>7. proc[p].len = 0 => t = text OBVIOUS
    <2> HIDE DEF t
    <2>8. /\ raced' = raced
          /\ raced => text' = NoText /\ got' = <<>> /\ due' = 0
          /\ ~raced => text' = t /\ got' = <<>> /\ due' = 0
      BY <2>2 DEF Record
    <2>9. \A q \in Procs : ~raced => /\ q # p => proc[q].pc \notin Reading \cup Writing
                                     /\ proc'[q].pc \notin Reading \cup Writing
      BY <1>i, <2>1, <2>3 DEF Known, AloneInv, Busy, Reading, Writing, Storing
    <2>10. ~raced /\ proc[p].len # 0 =>
             /\ proc[p].id > 0
             /\ \A k \in Places : k < End(p) => msg[k] = proc[p].id
             /\ msg[End(p)] = NUL
      BY <1>i, <2>3 DEF Known, CopyInv, Copying, Writing, Storing
    <2>11. ~raced /\ proc[p].len = 0 =>
             /\ text.len > 0 => text.id > 0
             /\ \A k \in Places : k < text.len => msg[k] = text.id
             /\ msg[text.len] = NUL
      BY <1>i, <2>9 DEF Known, AloneInv, WholeInv, Copying
    <2>12. AloneInv'
      <3>1. text'.len > 0 => text'.id > 0 BY <1>p, <2>6, <2>7, <2>8, <2>10, <2>11
      <3> QED BY <2>8, <2>9, <3>1 DEF AloneInv, Busy
    <2>13. \A q \in Procs : ~raced => ~(Copying(q))' BY <2>9 DEF Copying
    <2>14. CopyInv' BY <2>8, <2>13 DEF CopyInv
    <2>15. WholeInv' BY <2>2, <2>6, <2>7, <2>8, <2>10, <2>11 DEF WholeInv, Null
    <2>16. DueInv' BY <2>8, <2>9 DEF DueInv
    <2> QED BY <2>12, <2>14, <2>15, <2>16 DEF Known
  <1>7. ASSUME NEW p \in Procs, Check(p) \/ Test(p) PROVE Known'
    <2>1. PICK next \in {"test", "take"} :
            /\ LookAt(p, next) /\ proc[p].pc \in {"check", "test"}
            /\ next = "take" => proc[p].len > 0
      BY <1>7 DEF Check, Test, Runs
    <2>2. UNCHANGED <<msg, msg_Ptr, text, got, due, raced>> BY <2>1 DEF LookAt, histVars
    <2>3. CASE msg_Ptr \notin Places
      BY <1>i, <2>1, <2>2, <2>3, Undisturbed DEF LookAt
    <2>4. CASE msg_Ptr \in Places
      <3>1. \A q \in Procs : q # p => proc'[q] = proc[q]
        BY <1>i, <2>1, <2>4, Becomes, Goes DEF LookAt, PcOf, Reading
      <3>2. ~raced => /\ \A q \in Procs : ~Copying(q)
                      /\ \A q \in Procs : q # p => proc[q].pc \notin Reading \cup Writing
        BY <1>i, <2>1, ReadsAlone DEF Reading
      <3>3. ~raced => /\ \A k \in Places : k < text.len => msg[k] = text.id
                      /\ msg[text.len] = NUL /\ Len(got) <= due /\ msg_Ptr = Len(got)
        BY <1>i, <2>4, <3>2 DEF Known, WholeInv, Places, Null
      <3>4. ~raced => due = IF Len(got) + proc[p].len < text.len THEN Len(got) + proc[p].len ELSE text.len
        BY <1>i, <2>1, <3>2 DEF Known, DueInv, Reading
      <3>5. proc[p].len \in Nat /\ Len(got) \in Nat BY <1>n, <1>p DEF States
      <3>6. CASE msg[msg_Ptr] = NUL
        <4>1. proc'[p].pc = "open" BY <1>i, <2>1, <2>4, <3>6, Becomes DEF LookAt
        <4>2. ~raced => Len(got) = due
          <5>1. text.len > 0 => text.id > 0 BY <1>i DEF Known, AloneInv
          <5>2. ~raced => ~(msg_Ptr < text.len) BY <1>p, <2>4, <3>3, <3>6, <5>1 DEF NUL
          <5> QED BY <1>p, <3>3, <3>5, <5>2
        <4>3. \A q \in Procs : ~raced => proc'[q].pc \notin Reading BY <3>1, <3>2, <4>1 DEF Reading
        <4>4. DueInv' BY <2>2, <4>2, <4>3 DEF DueInv
        <4>5. AloneInv' /\ CopyInv' /\ WholeInv'
          BY <1>i, <2>1, <2>2, <3>1, <4>1, ReaderGoesOn DEF Reading, Writing, Storing
        <4> QED BY <4>4, <4>5 DEF Known
      <3>7. CASE msg[msg_Ptr] # NUL
        <4>1. proc'[p].pc = next /\ proc'[p].len = proc[p].len
          BY <1>i, <2>1, <2>4, <3>7, Goes DEF LookAt, PcOf, Reading
        <4>2. ~raced => Len(got) < text.len
          <5>1. ~raced => Len(got) # text.len BY <3>3, <3>7
          <5> QED BY <1>p, <3>3, <3>5, <5>1
        <4>3. \A q \in Procs : ~raced /\ proc'[q].pc \in Reading => q = p BY <3>1, <3>2
        <4>4. DueInv' BY <2>1, <2>2, <3>4, <4>1, <4>2, <4>3 DEF DueInv, Reading
        <4>5. AloneInv' /\ CopyInv' /\ WholeInv'
          BY <1>i, <2>1, <2>2, <3>1, <4>1, ReaderGoesOn DEF Reading, Writing, Storing
        <4> QED BY <4>4, <4>5 DEF Known
      <3> QED BY <3>6, <3>7
    <2> QED BY <2>3, <2>4
  <1>8. ASSUME NEW p \in Procs, Return(p) PROVE Known'
    <2>1. proc'[p].pc = "open" /\ \A q \in Procs : q # p => proc'[q] = proc[q]
      BY <1>8, <1>i, Becomes DEF Return
    <2>2. /\ UNCHANGED <<msg, msg_Ptr, text, got, due, raced>>
          /\ proc[p].pc = "test" /\ proc[p].len = 0
      BY <1>8 DEF Return, Runs, histVars
    <2>3. ~raced => /\ \A q \in Procs : ~Copying(q)
                    /\ \A q \in Procs : q # p => proc[q].pc \notin Reading \cup Writing
      BY <1>i, <2>2, ReadsAlone DEF Reading
    <2>4. ~raced => Len(got) = due
      <3>1. ~raced => Len(got) <= due BY <1>i, <2>3 DEF Known, WholeInv
      <3>2. ~raced => due = IF Len(got) + 0 < text.len THEN Len(got) + 0 ELSE text.len
        BY <1>i, <2>2, <2>3 DEF Known, DueInv, Reading
      <3> QED BY <1>p, <3>1, <3>2
    <2>5. \A q \in Procs : ~raced => proc'[q].pc \notin Reading BY <2>1, <2>3 DEF Reading
    <2>6. DueInv' BY <2>2, <2>4, <2>5 DEF DueInv
    <2>7. AloneInv' /\ CopyInv' /\ WholeInv'
      BY <1>i, <2>1, <2>2, ReaderGoesOn DEF Reading, Writing, Storing
    <2> QED BY <2>6, <2>7 DEF Known
  <1>9. ASSUME NEW p \in Procs, Take(p) PROVE Known'
    <2>1. msg_Ptr # Null /\ proc[p].len > 0 /\ proc[p].pc = "take"
      BY <1>9, <1>i DEF Take, Runs, CallInv, SafeInv
    <2>2. proc[p].len \in Nat /\ msg_Ptr \in Nat
      BY <1>i, <1>p, <2>1, TypesSplit DEF States, DeviceTypes, Null
    <2>3. /\ At("advance", proc[p].len, 0, msg_Ptr, 0) \in States
          /\ At("advance", proc[p].len, 0, msg_Ptr, 0).pc = "advance"
          /\ At("advance", proc[p].len, 0, msg_Ptr, 0).len = proc[p].len
          /\ At("advance", proc[p].len, 0, msg_Ptr, 0).place = msg_Ptr
      <3>1. "advance" \in PcOf /\ 0 \in Nat /\ 0 \in 0 .. MaxCalls
        BY DevAssumption DEF PcOf, Reading
      <3> QED BY <2>2, <3>1
    <2>4. /\ proc'[p].pc = "advance" /\ proc'[p].len = proc[p].len /\ proc'[p].place = msg_Ptr
          /\ \A q \in Procs : q # p => proc'[q] = proc[q]
      BY <1>9, <1>i, <2>3, Becomes DEF Take
    <2>5. UNCHANGED <<msg, msg_Ptr, text, got, due, raced>> BY <1>9 DEF Take, histVars
    <2>6. ~raced => /\ \A q \in Procs : ~Copying(q)
                    /\ \A q \in Procs : q # p => proc[q].pc \notin Reading \cup Writing
      BY <1>i, <2>1, ReadsAlone DEF Reading
    <2>7. ~raced => msg_Ptr = Len(got) BY <1>i, <2>1, <2>6 DEF Known, WholeInv
    <2>8. ~raced =>
            /\ due = IF Len(got) + proc[p].len < text.len THEN Len(got) + proc[p].len ELSE text.len
            /\ Len(got) < text.len
      BY <1>i, <2>1, <2>6 DEF Known, DueInv, Reading
    <2>9. \A q \in Procs : ~raced /\ proc'[q].pc \in Reading => q = p BY <2>4, <2>6
    <2>10. DueInv' BY <2>4, <2>5, <2>7, <2>8, <2>9 DEF DueInv, Reading
    <2>11. AloneInv' /\ CopyInv' /\ WholeInv'
      BY <1>i, <2>1, <2>4, <2>5, ReaderGoesOn DEF Reading, Writing, Storing
    <2> QED BY <2>10, <2>11 DEF Known
  <1>10. ASSUME NEW p \in Procs, Advance(p) PROVE Known'
    <2>1. proc[p].pc = "advance" /\ proc[p].len > 0
      BY <1>10, <1>i DEF Advance, Runs, CallInv, SafeInv
    <2>2. proc[p].len \in Nat /\ proc[p].place \in Nat /\ Len(got) \in Nat
      BY <1>n, <1>p DEF States
    <2>3. msg_Ptr' = proc[p].place + 1 /\ UNCHANGED msg BY <1>10 DEF Advance
    <2>4. ~raced => /\ \A q \in Procs : ~Copying(q)
                    /\ \A q \in Procs : q # p => proc[q].pc \notin Reading \cup Writing
      BY <1>i, <2>1, ReadsAlone DEF Reading
    <2>5. ~raced =>
            /\ due = IF Len(got) + proc[p].len < text.len THEN Len(got) + proc[p].len ELSE text.len
            /\ Len(got) < text.len /\ proc[p].place = Len(got)
      BY <1>i, <2>1, <2>4 DEF Known, DueInv, Reading
    <2>6. ~raced => proc[p].place \in Places BY <1>p, <2>2, <2>5, DevAssumption DEF Places
    <2>7. CASE proc[p].place \notin Places
      <3>1. raced /\ raced' /\ UNCHANGED <<text, got, due>> /\ UNCHANGED proc
        BY <1>10, <2>6, <2>7 DEF Advance, histVars
      <3> QED BY <1>i, <3>1 DEF Known, AloneInv, CopyInv, WholeInv, DueInv
    <2>8. CASE proc[p].place \in Places
      <3> DEFINE item == [id |-> msg[proc[p].place], place |-> proc[p].place]
      <3>1. proc[p].len - 1 \in Nat /\ "test" \in PcOf /\ 0 \in 0 .. MaxCalls
        BY <2>1, <2>2, DevAssumption DEF PcOf, Reading
      <3>2. /\ At("test", proc[p].len - 1, 0, 0, 0) \in States
            /\ At("test", proc[p].len - 1, 0, 0, 0).pc = "test"
            /\ At("test", proc[p].len - 1, 0, 0, 0).len = proc[p].len - 1
        BY <3>1
      <3>3. /\ proc'[p].pc = "test" /\ proc'[p].len = proc[p].len - 1
            /\ \A q \in Procs : q # p => proc'[q] = proc[q]
        BY <1>10, <1>i, <2>8, <3>2, Becomes DEF Advance
      <3>4. item \in Gotten BY <1>p, <2>8 DEF Gotten
      <3>5. Append(got, item) \in Seq(Gotten) BY <1>p, <3>4
      <3>6. Record(raced, text, Append(got, item), due) BY <1>10, <2>8 DEF Advance
      <3>7. item.place = proc[p].place /\ item.id = msg[proc[p].place] OBVIOUS
      <3>8. ~raced => item = [id |-> text.id, place |-> Len(got)]
        BY <1>i, <2>4, <2>5, <2>8 DEF Known, WholeInv
      <3> HIDE DEF item
      <3>9. /\ raced' = raced
            /\ raced => text' = NoText /\ got' = <<>> /\ due' = 0
            /\ ~raced => text' = text /\ got' = Append(got, item) /\ due' = due
        BY <3>6 DEF Record
      <3>10. ~raced => /\ Len(got') = Len(got) + 1
                       /\ \A k \in DOMAIN got' : got'[k] = [id |-> text.id, place |-> k - 1]
        <4> SUFFICES ASSUME ~raced
                     PROVE  /\ Len(got') = Len(got) + 1
                            /\ \A k \in DOMAIN got' : got'[k] = [id |-> text.id, place |-> k - 1]
          OBVIOUS
        <4>1. got' = Append(got, item) BY <3>9
        <4>2. /\ Len(got') = Len(got) + 1 /\ DOMAIN got' = 1 .. Len(got) + 1
              /\ \A k \in 1 .. Len(got) : got'[k] = got[k]
              /\ got'[Len(got) + 1] = item
          BY <1>p, <3>4, <4>1
        <4>3. \A k \in 1 .. Len(got) : got[k] = [id |-> text.id, place |-> k - 1]
          BY <1>i, <1>p, <2>4 DEF Known, WholeInv
        <4>4. (Len(got) + 1) - 1 = Len(got) BY <2>2
        <4>5. \A k \in 1 .. Len(got) + 1 : k \in 1 .. Len(got) \/ k = Len(got) + 1 BY <2>2
        <4> QED BY <3>8, <4>2, <4>3, <4>4, <4>5
      <3>11. \A q \in Procs : ~raced /\ proc'[q].pc \in Reading \cup Writing => q = p
        BY <2>4, <3>3
      <3>12. AloneInv'
        <4>1. text'.len > 0 => text'.id > 0 BY <1>i, <1>p, <3>9 DEF Known, AloneInv
        <4> QED BY <3>9, <3>11, <4>1 DEF AloneInv, Busy
      <3>13. \A q \in Procs : ~raced => ~(Copying(q))'
        BY <3>3, <3>11 DEF Copying, Writing, Storing
      <3>14. CopyInv' BY <3>9, <3>13 DEF CopyInv
      <3>15. WholeInv'
        <4>1. ~raced => /\ \A k \in Places : k < text.len => msg[k] = text.id
                        /\ msg[text.len] = NUL
          BY <1>i, <2>4 DEF Known, WholeInv
        <4>2. ~raced => Len(got) + 1 <= due /\ msg_Ptr' = Len(got) + 1 /\ msg_Ptr' # Null
          BY <1>p, <2>1, <2>2, <2>3, <2>5 DEF Null
        <4> QED BY <2>3, <3>9, <3>10, <4>1, <4>2 DEF WholeInv
      <3>16. DueInv'
        <4>1. ~raced => due = IF (Len(got) + 1) + (proc[p].len - 1) < text.len
                              THEN (Len(got) + 1) + (proc[p].len - 1) ELSE text.len
          BY <2>2, <2>5
        <4> QED BY <3>3, <3>9, <3>10, <3>11, <4>1 DEF DueInv, Reading
      <3> QED BY <3>12, <3>14, <3>15, <3>16 DEF Known
    <2> QED BY <2>7, <2>8
  <1> QED BY <1>k, <1>1, <1>2, <1>3, <1>4, <1>5, <1>6, <1>7, <1>8, <1>9, <1>10, <1>11, <1>12
          DEF Next, Process

-----------------------------------------------------------------------------
\* For any processes and any length of msg, the variables stay within their types
\* (main.c:70-122).
THEOREM DeviceTyped == Spec => []TypeOK
  <1>1. SafeInv => TypeOK BY DEF SafeInv
  <1> QED BY <1>1, InitSafe, StepSafe, PTL DEF Spec

\* For any lengths and strings that processes pass: memory that is not there is touched only
\* where reads have overlapped, or a call and the writing of a string that fills msg, before
\* the first write, by one write longer than msg, or by a process that the unloading did not
\* count (main.c:74, 82-83, 91, 94-95, 112-115).
THEOREM AccidentsHaveCauses == Spec => []AccidentsExplained
  <1>1. SafeInv => AccidentsExplained BY DEF SafeInv
  <1> QED BY <1>1, InitSafe, StepSafe, PTL DEF Spec

\* Calls one by one: every reader is given what is due to it of the string, once and in
\* order (main.c:87-103, 106-119).
THEOREM SerialReadsAreExact == Spec => []SerialReadsExact
  <1>1. SerialInv => SerialReadsExact
    <2> SUFFICES ASSUME SerialInv, ~raced, Busy = {}, msg_Ptr # Null
                 PROVE  /\ Len(got) = due /\ msg_Ptr = due
                        /\ \A k \in DOMAIN got : got[k] = [id |-> text.id, place |-> k - 1]
      BY DEF SerialReadsExact
    <2>1. \A p \in Procs : ~Copying(p) /\ proc[p].pc \notin Reading BY DEF Busy, Copying
    <2> QED BY <2>1 DEF SerialInv, WholeInv, DueInv
  <1> QED BY <1>1, InitSerial, StepSerial, PTL DEF Spec
=============================================================================
