----------------------------- MODULE ProcBuffer -----------------------------
(***************************************************************************)
(* The file /proc/buffer of LKM/proc/main.c: write_proc puts a text into   *)
(* msg and its length into len and temp; read_proc gives as much as temp   *)
(* still allows, always from the start of msg, and answers 0 once before   *)
(* it starts again.  len and temp are shared and nothing is locked, so     *)
(* each access to them is a step; a build may keep a value it has loaded   *)
(* or load it anew for the next use, so both are possible.  What two       *)
(* copies at the same time make of msg is not told apart: one comes first. *)
(***************************************************************************)
EXTENDS Integers, Sequences, FiniteSets

CONSTANTS Procs,    \* processes that use the file
          BUFSIZE,  \* length of msg (100 in the code)
          Lengths,  \* the lengths written, which nobody compares with BUFSIZE
          Asked,    \* what readers pass as count
          Half,     \* an int goes from -Half to Half - 1
          MaxUses   \* bound: writes and readings to the end

ASSUME ProcAssumption ==
  /\ IsFiniteSet(Procs) /\ BUFSIZE \in Nat \ {0} /\ Lengths \subseteq 0 .. Half - 1
  /\ Asked \subseteq Nat \ {0} /\ Half \in Nat /\ Half > BUFSIZE /\ MaxUses \in Nat

\* What stands in msg: the number of a write, or
Zero    == 0
Garbage == -1

Int32  == -Half .. Half - 1
AsInt(n) == ((n + Half) % (2 * Half)) - Half
Places == 0 .. BUFSIZE - 1

VARIABLES
  module,     \* how far loading or unloading has come
  msg, len, temp,
  proc,       \* where each process is, and its variables
  uses,       \* writes and readings so far
  status,     \* "running", or "undefined" after an access outside the memory of msg
  raced,      \* history: a call has begun inside another, or inside the loading of the
              \* module, since a write last began alone
  text,       \* history: what was written last,
  given,      \* how many bytes have been read of it,
  reading     \* and the reading to the end in which nobody else has taken part

histVars == <<raced, text, given, reading>>
vars == <<module, msg, len, temp, proc, uses, status, histVars>>

\* A process with its count, which read_proc lowers, the value it has loaded, and the
\* number of its write; asked is what it passes as count.
Idle == [pc |-> "idle", asked |-> 0, count |-> 0, loaded |-> 0, id |-> 0]

InRead  == {"limit", "assign", "subtract", "store", "copy_to", "load_len", "rewind"}
InWrite == {"copy_from", "set_len", "set_temp"}

NoText    == [id |-> 0, len |-> 0]
NoReading == [by |-> {}, asked |-> 0, shown |-> <<>>, over |-> FALSE]

TypeOK ==
  /\ module \in {"new", "entry", "raw", "live", "removed", "out"}
  /\ msg \in [Places -> Garbage .. MaxUses]
  /\ len \in 0 .. BUFSIZE /\ temp \in Int32
  /\ proc \in [Procs -> [pc : {"idle", "call"} \cup InRead \cup InWrite, asked : Asked \cup Lengths \cup {0},
                         count : Asked \cup Int32, loaded : Int32, id : 0 .. MaxUses]]
  /\ uses \in 0 .. MaxUses /\ status \in {"running", "undefined"} /\ raced \in BOOLEAN
  /\ text \in [id : 0 .. MaxUses, len : 0 .. BUFSIZE] /\ given \in 0 .. text.len
  /\ reading.by \in SUBSET Procs /\ Len(reading.shown) <= text.len

Init ==
  /\ module = "new" /\ msg = [k \in Places |-> Garbage] /\ len = 0 /\ temp = 0
  /\ proc = [p \in Procs |-> Idle] /\ uses = 0 /\ status = "running"
  /\ raced = FALSE /\ text = NoText /\ given = 0 /\ reading = NoReading

Busy == {p \in Procs : proc[p].pc \in InRead \cup InWrite}

HasEntry  == module \in {"entry", "raw", "live"}
HasMemory == module \in {"raw", "live", "removed"}

\* n bytes from the start of msg can be copied.
InMsg(n) == n = 0 \/ (HasMemory /\ n \in 0 .. BUFSIZE)

-----------------------------------------------------------------------------
(* proc_init and proc_cleanup.  The file is there before its memory.       *)

ProcCreate == module = "new" /\ module' = "entry" /\ UNCHANGED msg
Kmalloc    == module = "entry" /\ module' = "raw" /\ UNCHANGED msg
Memset     == module = "raw" /\ module' = "live" /\ msg' = [k \in Places |-> Zero]

\* A variant with a bug, not used below: a running call is not waited for.
RemoveProcEntryAtOnce == module = "live" /\ module' = "removed" /\ UNCHANGED msg

\* remove_proc_entry waits until no call is running.
RemoveProcEntry == module = "live" /\ Busy = {} /\ module' = "removed" /\ UNCHANGED msg

Kfree == module = "removed" /\ module' = "out" /\ UNCHANGED msg

Load ==
  /\ ProcCreate \/ Kmalloc \/ Memset \/ RemoveProcEntry \/ Kfree
  /\ UNCHANGED <<len, temp, proc, uses, status, histVars>>

-----------------------------------------------------------------------------
\* What the beginning of a call means for the histories.
Begins(p, writes) ==
  LET race == Busy # {} \/ module # "live" \/ (raced /\ ~writes)
  IN  /\ raced' = race
      /\ text' = IF race THEN NoText ELSE text
      /\ given' = IF race THEN 0 ELSE given
      /\ reading' = IF race \/ reading.by # {p} THEN NoReading ELSE reading

Goto(p, label) == proc' = [proc EXCEPT ![p].pc = label]

Local == UNCHANGED <<module, msg, len, temp, uses, status, histVars>>

(* write_proc.                                                             *)

WriteProc(p, n) ==
  /\ HasEntry /\ proc[p].pc = "idle" /\ uses < MaxUses /\ uses' = uses + 1
  /\ proc' = [proc EXCEPT ![p] = [pc |-> "copy_from", asked |-> n, count |-> n, loaded |-> 0, id |-> uses + 1]]
  /\ Begins(p, TRUE)
  /\ UNCHANGED <<module, msg, len, temp, status>>

\* As many bytes as the writer says, whatever the length of msg.
CopyFromUser(p) ==
  /\ proc[p].pc = "copy_from"
  /\ IF InMsg(proc[p].count)
     THEN /\ Goto(p, "set_len") /\ UNCHANGED status
          /\ msg' = [k \in Places |-> IF k < proc[p].count THEN proc[p].id ELSE msg[k]]
     ELSE status' = "undefined" /\ UNCHANGED <<proc, msg>>
  /\ UNCHANGED <<module, len, temp, uses, histVars>>

SetLen(p) ==
  /\ proc[p].pc = "set_len" /\ Goto(p, "set_temp") /\ len' = proc[p].count
  /\ UNCHANGED <<module, msg, temp, uses, status, histVars>>

\* temp = len, where len may be loaded again.
SetTemp(p) ==
  /\ proc[p].pc = "set_temp" /\ proc' = [proc EXCEPT ![p] = Idle]
  /\ temp' \in {proc[p].count, len}
  /\ text' = IF raced THEN NoText ELSE [id |-> proc[p].id, len |-> proc[p].count]
  /\ given' = 0 /\ reading' = NoReading
  /\ UNCHANGED <<module, msg, len, uses, status, raced>>

-----------------------------------------------------------------------------
(* A program like cat: it calls read_proc until it is answered 0.          *)

Cat(p, n) ==
  /\ HasEntry /\ proc[p].pc = "idle" /\ uses < MaxUses /\ uses' = uses + 1
  /\ proc' = [proc EXCEPT ![p] = [pc |-> "call", asked |-> n, count |-> 0, loaded |-> 0, id |-> 0]]
  /\ reading' = IF Busy = {} /\ ~raced /\ given = 0
                THEN [by |-> {p}, asked |-> n, shown |-> <<>>, over |-> FALSE] ELSE NoReading
  /\ UNCHANGED <<module, msg, len, temp, status, raced, text, given>>

\* The file has been removed since: an error, which ends the reading.
Refused(p) ==
  /\ proc[p].pc = "call" /\ ~HasEntry /\ proc' = [proc EXCEPT ![p] = Idle] /\ Local

(* read_proc.                                                              *)

ReadProc(p) ==
  /\ proc[p].pc = "call" /\ HasEntry
  /\ proc' = [proc EXCEPT ![p].pc = "limit", ![p].count = proc[p].asked, ![p].loaded = 0]
  /\ Begins(p, FALSE)
  /\ UNCHANGED <<module, msg, len, temp, uses, status>>

\* count > temp, where temp becomes unsigned: a negative one exceeds every count.
Limit(p) ==
  /\ proc[p].pc = "limit"
  /\ proc' = [proc EXCEPT ![p].pc = IF temp >= 0 /\ proc[p].count > temp THEN "assign" ELSE "subtract",
                          ![p].loaded = temp]
  /\ Local

\* count = temp.
Assign(p) ==
  /\ proc[p].pc = "assign"
  /\ \E t \in {proc[p].loaded, temp} :
       proc' = [proc EXCEPT ![p].pc = "subtract", ![p].count = t, ![p].loaded = t]
  /\ Local

\* temp = temp - count, the load
Subtract(p) ==
  /\ proc[p].pc = "subtract"
  /\ \E t \in {proc[p].loaded, temp} :
       proc' = [proc EXCEPT ![p].pc = "store", ![p].loaded = AsInt(t - proc[p].count)]
  /\ Local

\* A variant with a bug, not used below: the difference is not brought back into an int.
StoreWide(p) ==
  /\ proc[p].pc = "store" /\ Goto(p, "copy_to")
  /\ temp' = IF proc[p].loaded < 0 THEN proc[p].loaded - 2 * Half ELSE proc[p].loaded
  /\ UNCHANGED <<module, msg, len, uses, status, histVars>>

\* and the store.
Store(p) ==
  /\ proc[p].pc = "store" /\ Goto(p, "copy_to") /\ temp' = proc[p].loaded
  /\ UNCHANGED <<module, msg, len, uses, status, histVars>>

\* A piece from the start of msg goes to the user.
CopyToUser(p) ==
  /\ proc[p].pc = "copy_to"
  /\ LET n     == proc[p].count
         piece == [k \in 1 .. n |-> [id |-> msg[k - 1], place |-> k - 1]]
     IN  IF InMsg(n)
         THEN /\ IF n = 0 THEN Goto(p, "load_len") ELSE Goto(p, "call")
              /\ given' = IF raced THEN 0 ELSE given + n
              /\ reading' = IF reading.by = {p} THEN [reading EXCEPT !.shown = @ \o piece] ELSE reading
              /\ UNCHANGED status
         ELSE status' = "undefined" /\ UNCHANGED <<proc, given, reading>>
  /\ UNCHANGED <<module, msg, len, temp, uses, raced, text>>

\* if (count == 0) temp = len: the load and the store.
LoadLen(p) ==
  /\ proc[p].pc = "load_len" /\ proc' = [proc EXCEPT ![p].pc = "rewind", ![p].loaded = len] /\ Local

\* A variant with a bug, not used below: the next reader is not served again.
RewindForgotten(p) ==
  /\ proc[p].pc = "rewind" /\ proc' = [proc EXCEPT ![p] = Idle] /\ UNCHANGED temp
  /\ given' = 0 /\ reading' = IF reading.by = {p} THEN [reading EXCEPT !.over = TRUE] ELSE reading
  /\ UNCHANGED <<module, msg, len, uses, status, raced, text>>

\* A variant with a bug, not used below: the answer is the count asked for, not 0.
RewindUnanswered(p) ==
  /\ proc[p].pc = "rewind" /\ Goto(p, "call") /\ temp' = proc[p].loaded
  /\ given' = 0 /\ reading' = NoReading
  /\ UNCHANGED <<module, msg, len, uses, status, raced, text>>

Rewind(p) ==
  /\ proc[p].pc = "rewind" /\ proc' = [proc EXCEPT ![p] = Idle] /\ temp' = proc[p].loaded
  /\ given' = 0 /\ reading' = IF reading.by = {p} THEN [reading EXCEPT !.over = TRUE] ELSE reading
  /\ UNCHANGED <<module, msg, len, uses, status, raced, text>>

-----------------------------------------------------------------------------
\* What a process does once it has begun.
Continue(p) ==
  \/ CopyFromUser(p) \/ SetLen(p) \/ SetTemp(p)
  \/ Refused(p) \/ ReadProc(p) \/ Limit(p) \/ Assign(p) \/ Subtract(p) \/ Store(p)
  \/ CopyToUser(p) \/ LoadLen(p) \/ Rewind(p)

Next ==
  /\ status = "running"
  /\ \/ Load
     \/ \E p \in Procs : \/ Continue(p)
                         \/ \E n \in Lengths : WriteProc(p, n)
                         \/ \E n \in Asked : Cat(p, n)

Spec == Init /\ [][Next]_vars

\* A process that is not blocked runs on.
FairSpec == Spec /\ \A p \in Procs : WF_vars(status = "running" /\ Continue(p))

-----------------------------------------------------------------------------
\* As long as the calls since a write come one by one, temp is what is left of its text,
\* all readers together; a reading in which nobody else takes part is given as many bytes
\* as the text has before it is answered 0, whatever count it passes, and every piece of it
\* starts with the first byte again, so that only a count as long as the text shows it
\* whole (main.c:19-28, 33-35).
SerialReadsShare ==
  ~raced /\ Busy = {} =>
    /\ len = text.len /\ temp = len - given
    /\ HasMemory => \A k \in 0 .. len - 1 : msg[k] = text.id
    /\ \A k \in DOMAIN reading.shown :
         reading.shown[k] = [id |-> text.id, place |-> (k - 1) % reading.asked]
    /\ reading.over => Len(reading.shown) = text.len

\* Memory outside msg is touched only where calls overlap, where one comes while the module
\* is being loaded, or by a single write longer than msg.  The entry is there before its
\* memory; unloading waits for the calls; and a negative temp, which would let one reader
\* copy as much as it likes, takes two calls at once (main.c:19-23, 33, 46-48, 59-60).
AccidentsExplained ==
  status = "undefined" =>
    raced \/ \E p \in Procs : proc[p].pc = "copy_from" /\ proc[p].count > BUFSIZE

\* Whoever reads until he is answered 0 comes to an end once the others leave the file
\* alone, even where temp has become negative and limits nothing: it is counted down until
\* it is positive again.  While another reads too, both may go on for ever (main.c:19-26).
LastReaderEnds ==
  \A p \in Procs : <>[](\A q \in Procs \ {p} : proc[q].pc = "idle")
                   => []<>(proc[p].pc = "idle" \/ status = "undefined")
=============================================================================
