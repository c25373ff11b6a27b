----------------------------- MODULE DevBuffer ------------------------------
(***************************************************************************)
(* The character device of LKM/dev_buffer/main.c: device_write puts a      *)
(* string into msg, device_read hands it out from where msg_Ptr points.    *)
(* Processes call them at the same time and nothing is locked, so each     *)
(* access to msg and msg_Ptr is a step of its own.  The character a write  *)
(* puts at a place of msg is known by the number of the write; 0 is NUL.   *)
(***************************************************************************)
EXTENDS Integers, Sequences, FiniteSets

CONSTANTS Procs,    \* processes that use the device
          BUF_LEN,  \* length of msg (100 in the code)
          Lengths,  \* what they pass as length, which nobody compares with BUF_LEN
          Ends,     \* where the NUL is in the strings they write, within length or behind
          MaxCalls  \* bound: calls of read and write

ASSUME DevAssumption ==
  /\ IsFiniteSet(Procs) /\ BUF_LEN \in Nat \ {0} /\ Lengths \cup Ends \subseteq Nat
  /\ MaxCalls \in Nat

NUL  == 0
Null == -1     \* the pointer before the first write

Places == 0 .. BUF_LEN - 1

VARIABLES
  module,       \* "new", "live", "going" while it is unloaded, and "out"
  held,         \* the processes whose open has raised its reference count
  msg, msg_Ptr,
  proc,         \* where each process is, and the local variables of its call
  calls,        \* calls of read and write so far
  status,       \* "running", or "undefined" after an access to memory that is not there
  text,         \* history: the last string written,
  got,          \* what has been read of it, and
  due,          \* how much should have been;
  raced,        \* history: a call has begun inside another since a write last began alone;
  crowded       \* history: a read has overlapped another read, or any call the writing of
                \* a string that fills msg to its last place

histVars == <<text, got, due, raced, crowded>>
vars == <<module, held, msg, msg_Ptr, proc, calls, status, histVars>>

\* While it is in a call a process has a length, of which a read counts down, the number
\* of characters a write stores, a place it has got from msg_Ptr or is at itself, and the
\* number of its write.
Reading == {"check", "test", "take", "advance"}
Storing == {"copy", "terminate"}
Writing == Storing \cup {"strlen", "rewind"}
At(label, n, c, k, w) == [pc |-> label, len |-> n, chars |-> c, place |-> k, id |-> w]
Closed    == At("closed", 0, 0, 0, 0)
Opening   == At("opening", 0, 0, 0, 0)
Opened    == At("open", 0, 0, 0, 0)
Releasing == At("releasing", 0, 0, 0, 0)

Text   == [id : 0 .. MaxCalls, len : 0 .. BUF_LEN - 1]
NoText == [id |-> 0, len |-> 0]

TypeOK ==
  /\ module \in {"new", "live", "going", "out"} /\ held \in SUBSET Procs
  /\ msg \in [Places -> 0 .. MaxCalls] /\ msg_Ptr \in Int /\ msg_Ptr >= Null
  /\ proc \in [Procs -> [pc : {"closed", "opening", "open", "releasing"} \cup Reading \cup Writing,
                         len : Nat, chars : Nat, place : Nat, id : 0 .. MaxCalls]]
  /\ calls \in 0 .. MaxCalls /\ status \in {"running", "undefined"}
  /\ text \in Text /\ due \in 0 .. text.len /\ raced \in BOOLEAN /\ crowded \in BOOLEAN
  /\ got \in Seq([id : 0 .. MaxCalls, place : Places])

Init ==
  /\ module = "new" /\ held = {}
  /\ msg = [k \in Places |-> NUL] /\ msg_Ptr = Null
  /\ proc = [p \in Procs |-> Closed]
  /\ calls = 0 /\ status = "running"
  /\ text = NoText /\ got = <<>> /\ due = 0 /\ raced = FALSE /\ crowded = FALSE

Busy == {p \in Procs : proc[p].pc \in Reading \cup Writing}

Goto(p, label) == proc' = [proc EXCEPT ![p].pc = label]
Become(p, state) == proc' = [proc EXCEPT ![p] = state]

\* The code of the module is there to be executed, and process p is at label.
Runs(p, label) == module \in {"live", "going"} /\ proc[p].pc = label

-----------------------------------------------------------------------------
(* Loading, opening, closing and unloading.  fops has no owner: only       *)
(* try_module_get and module_put in device_open and device_release count.  *)

InitModule ==
  /\ module = "new" /\ module' = "live"
  /\ UNCHANGED <<held, msg, msg_Ptr, proc, calls, status, histVars>>

Open(p) ==
  /\ Runs(p, "closed") /\ Become(p, Opening)
  /\ UNCHANGED <<module, held, msg, msg_Ptr, calls, status, histVars>>

\* try_module_get fails while the module is going, but nobody looks at its result.
DeviceOpen(p) ==
  /\ Runs(p, "opening") /\ Become(p, Opened)
  /\ held' = IF module = "live" THEN held \cup {p} ELSE held
  /\ UNCHANGED <<module, msg, msg_Ptr, calls, status, histVars>>

\* module_put; the process has yet to return from the text of the module.
DeviceRelease(p) ==
  /\ Runs(p, "open") /\ Become(p, Releasing)
  /\ held' = held \ {p}
  /\ UNCHANGED <<module, msg, msg_Ptr, calls, status, histVars>>

ReleaseReturns(p) ==
  /\ Runs(p, "releasing") /\ Become(p, Closed)
  /\ UNCHANGED <<module, held, msg, msg_Ptr, calls, status, histVars>>

\* A variant with a bug, not used below: nobody is counted.
UnloadUncounted ==
  /\ module = "live" /\ module' = "going"
  /\ UNCHANGED <<held, msg, msg_Ptr, proc, calls, status, histVars>>

\* rmmod is refused while the count is not zero.
Unload ==
  /\ module = "live" /\ held = {} /\ module' = "going"
  /\ UNCHANGED <<held, msg, msg_Ptr, proc, calls, status, histVars>>

\* unregister_chrdev, and the memory of the module is freed.
CleanupModule ==
  /\ module = "going" /\ module' = "out"
  /\ UNCHANGED <<held, msg, msg_Ptr, proc, calls, status, histVars>>

\* Whatever a process that has not left device_release does after that.
UseAfterUnload(p) ==
  /\ module = "out" /\ proc[p] # Closed /\ status' = "undefined"
  /\ UNCHANGED <<module, held, msg, msg_Ptr, proc, calls, histVars>>

-----------------------------------------------------------------------------
\* No history is kept of what has raced.
Record(race, t, g, d) ==
  /\ raced' = race
  /\ text' = IF race THEN NoText ELSE t
  /\ got' = IF race THEN <<>> ELSE g
  /\ due' = IF race THEN 0 ELSE d

(* device_write: snprintf(msg, len, "%s", buffer), then strlen(msg) and     *)
(* msg_Ptr = msg.                                                          *)

\* The string ends where its NUL is, within the len bytes handed over or behind them.
Stored(n, end) == IF end < n THEN end ELSE n

Begin(n, end) == IF n = 0 THEN "strlen" ELSE IF end = 0 THEN "terminate" ELSE "copy"

Brimful(p) == proc[p].pc \in Writing /\ proc[p].chars >= BUF_LEN

DeviceWrite(p, n, end) ==
  /\ Runs(p, "open") /\ calls < MaxCalls /\ calls' = calls + 1
  /\ Become(p, At(Begin(n, end), n, Stored(n, end), 0, calls + 1))
  /\ Record(IF Busy = {} THEN raced /\ n = 0 ELSE TRUE, text, got, due)
  /\ crowded' = (crowded \/ \E q \in Busy : Brimful(q) \/ Stored(n, end) >= BUF_LEN)
  /\ UNCHANGED <<module, held, msg, msg_Ptr, status>>

Step(p, next) == proc' = [proc EXCEPT ![p].place = proc[p].place + 1, ![p].pc = next]

\* One character of the string, the len-th included, wherever that is.
Copy(p) ==
  /\ Runs(p, "copy")
  /\ IF proc[p].place \in Places
     THEN /\ msg' = [msg EXCEPT ![proc[p].place] = proc[p].id]
          /\ Step(p, IF proc[p].place + 1 < proc[p].chars THEN "copy" ELSE "terminate")
          /\ UNCHANGED status
     ELSE status' = "undefined" /\ UNCHANGED <<msg, proc>>
  /\ UNCHANGED <<module, held, msg_Ptr, calls, histVars>>

\* Where the NUL goes: behind the string, or over its len-th character.
End(p) == IF proc[p].chars < proc[p].len THEN proc[p].chars ELSE proc[p].len - 1

\* A variant with a bug, not used below: strncpy for snprintf, without the NUL.
TerminateNot(p) ==
  /\ Runs(p, "terminate") /\ Become(p, [proc[p] EXCEPT !.pc = "strlen", !.place = 0])
  /\ UNCHANGED <<module, held, msg, msg_Ptr, calls, status, histVars>>

Terminate(p) ==
  /\ Runs(p, "terminate")
  /\ IF End(p) \in Places
     THEN /\ msg' = [msg EXCEPT ![End(p)] = NUL]
          /\ Become(p, [proc[p] EXCEPT !.pc = "strlen", !.place = 0])
          /\ UNCHANGED status
     ELSE status' = "undefined" /\ UNCHANGED <<msg, proc>>
  /\ UNCHANGED <<module, held, msg_Ptr, calls, histVars>>

\* strlen(msg) looks at one place after the other until it finds a NUL.
Strlen(p) ==
  /\ Runs(p, "strlen")
  /\ IF proc[p].place \in Places
     THEN /\ IF msg[proc[p].place] = NUL THEN Goto(p, "rewind") ELSE Step(p, "strlen")
          /\ UNCHANGED status
     ELSE status' = "undefined" /\ UNCHANGED proc
  /\ UNCHANGED <<module, held, msg, msg_Ptr, calls, histVars>>

\* A write of no length changes nothing, but what was there can be read again.
Rewind(p) ==
  /\ Runs(p, "rewind") /\ Become(p, Opened)
  /\ msg_Ptr' = 0
  /\ Record(raced, IF proc[p].len = 0 THEN text ELSE [id |-> proc[p].id, len |-> End(p)], <<>>, 0)
  /\ UNCHANGED <<module, held, msg, calls, status, crowded>>

-----------------------------------------------------------------------------
(* device_read.                                                            *)

DeviceRead(p, n) ==
  /\ Runs(p, "open") /\ calls < MaxCalls /\ calls' = calls + 1
  /\ Become(p, At("check", n, 0, 0, 0))
  /\ Record(raced \/ Busy # {}, text, got, IF due + n < text.len THEN due + n ELSE text.len)
  /\ crowded' = (crowded \/ \E q \in Busy : proc[q].pc \in Reading \/ Brimful(q))
  /\ UNCHANGED <<module, held, msg, msg_Ptr, status>>

\* *msg_Ptr is looked at: first for an empty string, then in each turn of the loop.
LookAt(p, next) ==
  /\ IF msg_Ptr \in Places
     THEN /\ IF msg[msg_Ptr] = NUL THEN Become(p, Opened) ELSE Goto(p, next)
          /\ UNCHANGED status
     ELSE status' = "undefined" /\ UNCHANGED proc
  /\ UNCHANGED <<module, held, msg, msg_Ptr, calls, histVars>>

Check(p) == Runs(p, "check") /\ LookAt(p, "test")

\* A variant with a bug, not used below: length is not looked at.
TestNoLength(p) == Runs(p, "test") /\ LookAt(p, "take")

Test(p) == Runs(p, "test") /\ proc[p].len > 0 /\ LookAt(p, "take")

Return(p) ==
  /\ Runs(p, "test") /\ proc[p].len = 0 /\ Become(p, Opened)
  /\ UNCHANGED <<module, held, msg, msg_Ptr, calls, status, histVars>>

\* *(msg_Ptr++): the pointer is loaded,
Take(p) ==
  /\ Runs(p, "take")
  /\ Become(p, At("advance", proc[p].len, 0, msg_Ptr, 0))
  /\ UNCHANGED <<module, held, msg, msg_Ptr, calls, status, histVars>>

\* and stored one further; the character goes to the user.
Advance(p) ==
  /\ Runs(p, "advance") /\ msg_Ptr' = proc[p].place + 1
  /\ IF proc[p].place \in Places
     THEN /\ Record(raced, text, Append(got, [id |-> msg[proc[p].place], place |-> proc[p].place]), due)
          /\ Become(p, At("test", proc[p].len - 1, 0, 0, 0)) /\ UNCHANGED <<status, crowded>>
     ELSE status' = "undefined" /\ UNCHANGED <<histVars, proc>>
  /\ UNCHANGED <<module, held, msg, calls>>

-----------------------------------------------------------------------------
Process(p) ==
  \/ Open(p) \/ DeviceOpen(p) \/ DeviceRelease(p) \/ ReleaseReturns(p) \/ UseAfterUnload(p)
  \/ \E n \in Lengths, end \in Ends : DeviceWrite(p, n, end)
  \/ \E n \in Lengths : DeviceRead(p, n)
  \/ Copy(p) \/ Terminate(p) \/ Strlen(p) \/ Rewind(p)
  \/ Check(p) \/ Test(p) \/ Return(p) \/ Take(p) \/ Advance(p)

Next ==
  /\ status = "running"
  /\ (\E p \in Procs : Process(p)) \/ InitModule \/ Unload \/ CleanupModule

Spec == Init /\ [][Next]_vars

-----------------------------------------------------------------------------
\* Once a write has had the device for itself, and as long as the calls after it come one by
\* one, the readers are given its string from the first character on, up to its NUL or to the
\* last but one of its length: each character once, none of an older string behind it, and to
\* each reader as much as it has asked for, whatever has raced before.  The module describes
\* itself as "Reverse string kernel module" (main.c:9): nothing in it reverses the string,
\* and this property says what it does instead (main.c:87-103, 106-119).
SerialReadsExact ==
  ~raced /\ Busy = {} /\ msg_Ptr # Null =>
    /\ Len(got) = due /\ msg_Ptr = due
    /\ \A k \in DOMAIN got : got[k] = [id |-> text.id, place |-> k - 1]

\* Memory that is not there is only touched where two reads have overlapped, or a call and the
\* writing of a string that fills msg to its last place, where a read came before the first
\* write, where one write alone is given a length above BUF_LEN, or by a process that the
\* unloading does not wait for: it opened too late to be counted, or has just taken itself
\* off the count.  While the strings are shorter than msg, a single reader never passes the
\* end, whatever the writers do meanwhile (main.c:74, 82-83, 91, 94-95, 112-115).
AccidentsExplained ==
  status = "undefined" =>
    \/ crowded \/ msg_Ptr = Null
    \/ \E p \in Procs : proc[p].pc \in Storing /\ proc[p].len > BUF_LEN
    \/ module = "out" /\ \E p \in Procs \ held : proc[p] # Closed
=============================================================================
