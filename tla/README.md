# Verification of Eltex-lab

TLA+ models, model-checking runs and machine-checked proofs for the programs of
this repository. Eltex-lab is a collection of course programs in C, Bash and
kernel C. Its own systems of several interacting processes are the message
relay of `C/kursivaya` and the IGMPv2 host of `Igmp`; around them stand smaller
exercises with processes, threads, semaphores and queues. `Crosscompile`
(almost all of the files) is third-party code: glib, ncurses, mc and their builds.

Paths below are relative to `src/`.

## 1. The system

### 1.1 Inventory

| Component | State it keeps | Operations | What is hard about it |
|---|---|---|---|
| Relay server, `C/kursivaya/main.c`, `HandleTCP*.c` | two listeners, two broadcasters, one thread per connection, a System V message queue in the kernel | broadcast the address, accept, read a value and `msgsnd` it, `msgrcv` a message and send it | threads compete for one queue; any error ends the whole process; the queue survives it |
| Relay peers, `client.c`, `manager.c` | the connection, how much was sent or received | wait for a datagram, connect once, send for ever / receive until 0 | come and go at any time; connect may be refused and is not retried |
| Framing, `message.proto`, the receive loops | a receive buffer that is never cleared | `recv`, `dmessage__unpack`, use the value | `recv` may return part of a frame |
| IGMP host, `Igmp/client.c` | `rngip`, `rngiplen`, shared by two threads without a lock | answer a specific or general query; add, delete a group | each loop sleeps while the other thread changes the table |
| Query generator, `Igmp/querygenerator.c` | none | send one query | its code field decides what the host divides by |
| IGMP server prototype, `Trash/IGMP_server.c` | a count of clients, a query thread | count reports and leaves, create and cancel the thread | the count is not a set of members; cancellation is asynchronous; packets get lost |
| Semaphore matrix, `C/semafore/main.c` | shared array, one semaphore | fill, fork a child per row, add, print, remove | semaphore and memory are removed while children use them |
| Spawn counter, `C/semafore/06-1a.c` | shared counters, one semaphore, both outliving the program | fork, count and print | the release is unreachable, children go on forking, a second start meets the processes of the first |
| System V matrix, `C/sysV/main.c` | a message queue of the directory | hand a row to each child | the queue is shared with other runs, may be full, and is removed while children wait for their row |
| Winnie and the bees, `C/Vinny/main.c` | one byte in a file | read, add or subtract, write | lost updates; eight bits |
| Character device, `LKM/dev_buffer` | one message, a shared read pointer, a reference count nobody checks | load, open, read, write, close, unload | no locks; unloading |
| Proc file, `LKM/proc` | one text, `len` and `temp` | load, read, write, unload | no locks; the entry is there before its memory |
| Keyboard lights, `LKM/lights` | a timer | handler, unload | the handler arms the timer again |
| Single-process exercises (`C/Sorting`, `C/FileOperation`, `C/Struct`, `C/protobuf`, `C/pipe`, `C/thread`, sockets, `Bash`) | local | one pass over their input | a few boundary cases |

How they interact: the relay's peers and server meet over UDP broadcast (ports
for clients and for managers), one TCP connection per peer, and inside the
server over the message queue; the IGMP programs exchange IGMPv2 packets; the
members of each exercise share kernel objects (semaphore, shared memory,
message queue, file). Nothing connects one exercise with another.

What makes each correct:

- relay: a value is delivered at most once and in order, is lost only where the
  code lets go of it, reaches somebody as long as somebody is there, and the
  server goes down for known reasons only;
- framing: a value arrives as it was sent;
- IGMP host: the table is what the user asked for, and each query is answered
  for each group exactly once;
- IGMP server: one thread asks while members are there and none afterwards;
- semaphore matrix: mutual exclusion, right sums, no child left waiting, no store outside the memory;
- System V matrix: each row goes to one child, and nothing is left for a later run;
- spawn counter: the counters say how many have counted;
- Winnie and the bees: honey neither appears nor vanishes, and the story ends;
- character device: a string that was written is read once, to its end, and it is known
  which calls leave the memory of the module;
- proc file: a text is read to its end, the end is told, and it is known which copies leave its memory.

### 1.2 Modules

| Module | Models | Extends |
|---|---|---|
| `RelayContract` | what the relay promises: at-most-once, in-order delivery | |
| `Relay` | the whole of `C/kursivaya`, one action per call that changes state | |
| `FrameStream` | one TCP connection of the relay, byte by byte | |
| `KursivayaProofs` | theorems about `Relay`, its refinement of `RelayContract` among them, and about `FrameStream` | `Relay`, `FrameStream` |
| `IgmpHost` | `Igmp/client.c`, queries from `querygenerator.c` | |
| `IgmpServer` | `Trash/IGMP_server.c` with its hosts | |
| `IgmpProofs` | theorems about both | `IgmpHost`, `IgmpServer` |
| `SemMatrix`, `SemMatrixProofs` | `C/semafore/main.c` | |
| `SysVMatrix`, `SysVMatrixProofs` | `C/sysV/main.c`, several runs of it in one directory | |
| `SpawnCounter`, `SpawnCounterProofs` | `C/semafore/06-1a.c`, several starts | |
| `Honey`, `HoneyProofs` | `C/Vinny/main.c` | |
| `DevBuffer`, `DevBufferProofs` | `LKM/dev_buffer/main.c` with the processes that use the device | |
| `ProcBuffer`, `ProcBufferProofs` | `LKM/proc/main.c` with the processes that use the file | |
| `MC...` | instances for TLC: model values, symmetry | the module they are named for |

A proof module that is about two components extends both; for that reason `FrameStream` and `IgmpServer` have names
like `StreamInit` and `ServerSpec` where the other modules say `Init` and `Spec`.

## 2. How the models correspond to the code

**Relay.** Threads and processes are program counters: `thread[p]` is the call
the server thread of peer `p` blocks in, `peer[p]` where the program of `p` is,
`link[p]` the state of the TCP connection as the two ends can tell it. A value is
the pair of its client and its number there. `sent` and `got` are the two ends of
a client's connection, `queue` the kernel's message queue, `rbuf[m]` the message a
manager's thread holds, `out[m]` and `seen[m]` the two ends of a manager's
connection. `exit()` in any thread is `Die`: every thread ends and every
connection breaks, but `queue` and `created` stay, since the kernel keeps the
queue. Decisions worth knowing:

- nothing in the repository removes the queue, so `msgsnd` and `msgrcv` cannot fail
  with EIDRM and their error branches are not modelled; `msgsnd` blocks at `QCap`;
- the buffers of a socket and the backlog of a listener are not bounded: `send`
  and `connect` do not block;
- each client and manager is a process that connects once, as the programs do;
- `send` to a peer that is gone succeeds once and is answered by a reset; the next
  one fails. Whether by SIGPIPE or by -1 makes no difference, both end the process;
- faults are an explicit constant, `Faults`: a crash of the server, peers that
  are stopped, a connection that is reset, a port still in use after a restart, and
  bytes that do not unpack. `UnpackFails` is the error branch of HandleTCPClient.c:46-47,
  which reports the null pointer and goes on; `DereferenceNull` is line 49, which ends the server.
  How such bytes come about from short reads is the subject of `FrameStream`.

**FrameStream.** A packed `DMessage` is 0a 0c 0a 0a and ten characters that are no
control characters. So fourteen bytes unpack exactly if they start with these
four, and that is how `Unpacks` is written. The buffer of the receiver keeps what
it held: `Leftover` enumerates which header bytes an earlier connection may have
left on the stack.

**IgmpHost.** `lpc` and `cpc` are the statements the two threads are at; each
action is one turn of a loop or one access to the shared table. `i`, `j`,
`timer` are the variables of the code; `size` is the length of the variable-length
array `timer`, fixed when the query came. Sleeps are not timed: where the code sleeps,
the other thread may do anything. `query.code` keeps its unit (tenths of a
second), so the divisions and the remainder are those of the code. An access
beyond an array gives any answer when it is a read (`Due`) and ends the model in
`status = "undefined"` when it is a write. `Unset` is the null pointer of a slot that was never filled:
the order in which an add fills the slot and raises the length keeps the loops from meeting one. `BadLine` is
an input the command loop is not made for: a command without an address, or the end of the input after one,
crashes the program, a line of more than fifteen characters overruns `wordstdin` (client.c:303-317). `stable` and `tally` are history: the
slots a query asks about that nobody deletes meanwhile, and the reports sent for each.

**IgmpServer.** Main's turn (receive, count, create or cancel) is one action,
since only main touches the count. A thread is asleep, where it can be cancelled, or
inside `sendto`, past that point. Each host is a member of one group. `sin_addr` is never set
(IGMP_server.c:63-66), so where a query goes depends on what the stack holds: it reaches any of the members or
`sendto` fails (90-93), and `missed` remembers that one did not reach them all. With `Lossy` a report or leave may be lost.
A host that leaves may or may not still answer the query it has got (client.c:246, 279-281), so
`due` is not a part of `members`.

**SemMatrix.** A number is the count of additions made to it. Load and store of
each addition are separate steps. No result of `semop` is looked at, so a removed
semaphore lets everybody through. `fork` is assumed to succeed. `shmget` is asked for
`sizeof(int)` (line 29) and obtains a page, `PageInts` ints; a store outside it ends the model in
`status = "undefined"`.

**SysVMatrix.** `key` is the queue the kernel finds for the directory, `msqid[p]` the one
program `p` has got; identifiers are not used again, so a queue that was removed and made
anew is another queue. A row is the program it was typed into and its number, hence a
result is right or a mix-up. A failing `msgrcv` leaves in `buf` what the fork has copied: the last row its
parent has read. With `Kills` a run may be interrupted at any statement; the queue stays, as the kernel
keeps it.

**SpawnCounter.** The child has no `exit` on the path it takes (the block that holds it
belongs to `if (shmdt(array) < 0)`), so `PrintCount` returns to the loop, and the process forks its own
children. A process is named by its start and the turns in which it and its ancestors were forked. The flag `new` is
one per start, since fork copies it and nobody changes it later.

**Honey.** `food[p]` is the variable each process keeps between its read and its
write; the write keeps the value modulo `Modulus`. `Modulus >= 2 * Food` is 256 against 64 in the code.
`Look` and `Taste` are the two reads of Winnie; he counts a meal before he sees that
there was not enough.

**DevBuffer.** `*(msg_Ptr++)` is a load, an access and a store, and the test of
`*msg_Ptr` an access of its own. A module whose `fops` has no owner is held only by
`try_module_get`, whose failure nobody looks at: `held` are those who really count. A write is `vsnprintf`: it
stores up to `len` characters of the string, as far as its own NUL (`Copy`), only then puts the NUL in
the last place over the last character (`Terminate`), and `strlen` reads what has become of `msg` (`Strlen`).
Lengths and strings are any: nobody compares `len` with `BUF_LEN`. A close takes itself off the count
(`DeviceRelease`) and returns in a step of its own (`ReleaseReturns`), when the module may be gone. `text`,
`got` and `due` are history and are forgotten when calls overlap (`raced`) until a
write has had the device for itself. A touch of memory that is not there, be it a null or
overrun pointer or an unloaded module, ends the model in `status = "undefined"`.

**ProcBuffer.** `count > temp` compares an unsigned with a signed number: a negative `temp` exceeds
every count (`Limit`). The compiler may keep a loaded `temp` or load it again; both are
possible at each use. A write may be of any length an int holds; the copy of one longer than `msg` ends the
model in `status = "undefined"`, before `len` is set. `temp` has the width of `Half`, and wraps round. The copies are one step each: what two
of them make of `msg` at the same time is excluded from every property anyhow. `Cat` is the
reader the code is written for, one that reads until it is answered 0; `remove_proc_entry`
waits for running calls, as the kernel does.

## 3. Runs

| Run | Checks | Instance | What it shows |
|---|---|---|---|
| `relay_safety` | `TypeOK`, `RelayInv`, `DeliveredOnce`, `SeenInOrder`, `LossIsBounded`, `ImplementsContract` | 1 client with 3 values, 2 managers, queue of 2, every fault, two restarts | no value repeated or reordered, by any manager; loss at most one or two values per broken connection; each step is a step of `RelayContract` |
| `relay_delivery` | `Delivery`, `StopsHaveCauses` | 2 clients, 2 managers, queue of 1, each of them may be stopped, frames that do not unpack | every value reaches a manager unless one has left or the server has gone down; it goes down only where a manager finds no queue or has left, or a frame does not unpack |
| `frame_stream` | `StreamTypeOK`, `WholeReadsSuffice`, `NeverRealigned`, `DamageIsBounded` | 4 frames of 14 bytes, every split | whole reads lose nothing; after a short one at most three damaged values and never an intact one |
| `igmp_host` | `TypeOK`, `AnsweredOnce`, `TableMatchesCommands`, `QueryAnswered` | table of 3 that may overflow, two groups at first, 2 queries, 3 commands, bad lines, codes 0 and 15 | exactly one report per query for each group that is left alone, and in the end one; table and commands agree |
| `igmp_stray` | `OnlyActualGroups`, violated | one del | a report for 0.0.0.0 |
| `igmp_server` | `ServerTypeOK`, `OneQuerier`, `SilentAfterCancel`, `CountCoversMembers`, `MembersAreAsked` | 2 hosts, 8 packets, losses, queries that fail or go astray, 3 threads | the thread follows the count; a cancelled one sends at most one more query; until the first loss the count is never below the members and, while no query goes astray, members are asked |
| `sem_matrix` | `TypeOK`, `Exclusive`, `ResultsRight`, `PageHoldsRows`, `EveryChildEnds` | up to 5 rows, a page of 9 ints | exclusion while the semaphore lives, right results afterwards too; no store leaves the page unless the rows do not fit on it |
| `sysv_matrix` | `TypeOK`, `RowsDealtOut`, `CleanExitLeavesNothing` | 3 programs, 2 rows each, queue of 3, interruptions | a row is worked on twice only as the stale last row of a child that came too late; a run that ends by itself leaves no row behind, whoever used or removed the queue meanwhile |
| `spawn_counter` | `CountsEntries`, `PermitIsTaken` | 3 turns, 2 starts | counters exact until two have counted at once; a permit is taken (two starts that set the semaphore before the first lock give one between them) |
| `honey` | `PotBounded`, `WinnieDies` | 3 bees, meals of 1 to 3, a byte of 8 values | lost updates move the pot only within bounds; the bees cannot keep Winnie alive for ever |
| `dev_buffer` | `TypeOK`, `SerialReadsExact`, `AccidentsExplained` | 3 processes, buffer of 3, lengths 0, 1, 3 and 4, strings of 1 and 4 characters, 3 calls, unloading | calls one by one give each character once, in the order of the string, and no older one; memory that is not there is touched in the listed ways only |
| `proc_buffer` | `TypeOK`, `SerialReadsShare`, `AccidentsExplained`, `LastReaderEnds` | 2 processes, buffer of 3, writes of 0, 2, 3 and 4, 3 uses, ints from -5 to 4, loading and unloading | one by one, a reader is given as many bytes as the text has, each piece from its start; accidents need an overlap or a write longer than the buffer; a reader left alone ends |

`igmp_stray` states what a comment of the repository says, and fails: between the check
of a slot (client.c:279) and its report (281) the other thread may have deleted it. It is the finding in
`PROJECT.json`. Other places where the code departs from its comments show in the models as well, as
reachable states that the properties above have to make room for:

- a manager that left is noticed by the second `send` only, which ends the server
  (HandleTCPManager.c:46), and so does a manager that comes before any client has created the queue
  (line 30), although main.c:132 says "run forever";
- one short read, or a client that sends something else, lets a frame fail to unpack, which is
  reported and then dereferenced (HandleTCPClient.c:46-49): the bound of `DamageIsBounded` comes from this
  crash. `StopsHaveCauses` says that these three are the only ways down as long as nobody kills the server, no
  connection is reset and the ports are free;
- a query with the code 0, which IGMP_server.c:83 sends, is divided by (client.c:267, 242): the
  excuse `status # "running"` of `QueryAnswered`;
- `clients++` counts the answers to the server's own queries as well (IGMP_server.c:189): the count is
  never below the members (`CountCoversMembers`), but does not return to 0;
- `wait(NULL)` in semafore/main.c:77 and sysV/main.c:66 waits for one child, not for all;
- a comment in 06-1a.c:92 announces the release of the semaphore, but the statement stands behind the `exit` of the
  error branch of `shmdt` (93): whoever gets in never releases, and everybody else waits for another
  start. No property asserts the release, which no step executes, nor its absence;
- dev_buffer/main.c:9 calls the module "Reverse string kernel module", and its device is `reverse`, but no
  statement reverses anything: `SerialReadsExact` states what the code does, that the string is read in
  its own order, and a build that did reverse it would have to change it;
- `shmget` in semafore/main.c:29 is asked for one int where the array needs `2 * count + 1`: `PageHoldsRows` says
  that the page it obtains is what bounds the rows;
- nobody compares the lengths given to dev_buffer/main.c:112 and proc/main.c:33 with the buffers:
  both `AccidentsExplained` name it as a cause;
- `sin_addr` of the query is never set (IGMP_server.c:63-66), hence `MembersAreAsked` has to except queries
  that fail or miss a member;
- `fgets` in client.c:307 takes nineteen characters into sixteen bytes: the properties of `IgmpHost` end where it does;
- readers with a small buffer get the beginning of /proc/buffer again and again (proc/main.c:23):
  `SerialReadsShare` has the place of each byte;
- two readers of /proc/buffer may keep each other going by storing back old values of `temp`, hence
  `LastReaderEnds` speaks of a reader left alone;
- a reader of `dev_buffer` that overlaps with another may step over the end of `msg`, and later
  readers, alone or not, go on from there until the next write (dev_buffer/main.c:94-95).

**Bounds.** `MaxSend`, `MaxStarts`, `MaxFrames`, `MaxQueries`, `MaxCommands`, `MaxPackets`
and `ThreadLimit` only stop counters. Two managers are the least that compete for the queue; three values of
one client are enough for two in the queue behind one in a thread, and two clients with a
queue of one slot for a blocked `msgsnd` that the other has caused. After a restart old
messages meet a manager that connects late. The one-client and the two-client run together cover
what a single run with both could not within minutes; the theorems cover all sizes. Four frames suffice for a short read in any
frame, since the receiver's state is its offset modulo 14. Two queries make one wait
while another is answered, three commands allow an add, a del and another
add around it. Four rows have two children in wait while one is inside and one has
ended, and fit on a page of nine ints; five do not. Three programs let a queue be removed, made
anew and removed again while the third still holds an old identifier; with two rows each and three places
it can be full. Two starts are the least that meet each other's processes; with three
turns children have children. Three bees against meals of three allow a meal to be
undone and a pot below zero; the byte of 8 values is as tight as the assumption allows. Three
processes in `DevBuffer` are two readers that overlap and a writer; three calls are a write alone after two
that overlapped, or two readers of one string; lengths go from nothing to one more than the buffer, and the strings end
within them or behind. Two processes in `ProcBuffer` are enough for every pair of
overlapping calls; a process that has ended begins again, and a reading is many
calls; counts of 2 and 4 read in pieces and at once, and beyond the buffer where nothing limits them, and a write
of 4 runs over a buffer of 3.
Where a theorem exists, the bound is a convenience only.

**Deadlock** is not checked: all these systems may stop rightly. Clients stop at
`MaxSend`, a server that exited stays down, a user need not type,
processes of 06-1a.c wait for a start that may not come, and the kernel modules are unused.

**Fairness.** Weak fairness of each thread and process, which is what the kernels' schedulers
give: no action needs to be repeatedly enabled and disabled to happen. For a
blocked `msgsnd` or `semop`, weak fairness of each waiter would not be enough if others could take the
place for ever; in `relay_delivery` each client sends one value,
and in `SemMatrix` each process takes the semaphore once; in `SpawnCounter` it does not matter who takes
it. In `Honey` and `ProcBuffer` nothing is ever blocked: fairness says that processes run and sleeps end. Nobody
has to start a program, open a file or call write. The broadcast is repeated
every second without end, hence fair. Faults, restarts, users, joins and answers are
never fair: nothing obliges them to happen.

## 4. Theorems

| Theorem | States | About |
|---|---|---|
| `TypeCorrect`, `RelayInvariant`, `AtMostOnce`, `InOrder` (`KursivayaProofs`) | `Spec => []TypeOK`, `[]RelayInv`, `[]DeliveredOnce`, `[]SeenInOrder` | any clients, managers, capacity, faults |
| `LossesAreBounded` (`KursivayaProofs`) | `[]LossIsBounded` | the same, clients and managers finite in number |
| `RelayRefinesContract` (`KursivayaProofs`) | `Spec => ImplementsContract` | any clients, managers, capacity, faults |
| `StopsAreCaused` (`KursivayaProofs`) | `Spec => StopsHaveCauses` | `Faults \subseteq {"leave", "unpack"}` |
| `WholeReadsDeliver`, `NeverAlignedAgain`, `AtMostThreeDamaged`, `StreamTyped` (`KursivayaProofs`) | `[]WholeReadsSuffice`, `[]NeverRealigned`, `[]DamageIsBounded`, `[]StreamTypeOK` | values of any length, any number of frames, any leftover in the buffer |
| `EachGroupAnsweredOnce`, `HostTypes` (`IgmpProofs`) | `[]AnsweredOnce`, `[]TypeOK` | any groups, codes, table, commands |
| `TableFollowsCommands` (`IgmpProofs`) | `[]TableMatchesCommands` | `DuplicateAdds = FALSE` |
| `ExactlyOneQuerier`, `CancelledFallSilent` (`IgmpProofs`) | `[]OneQuerier`, `[]SilentAfterCancel` | any hosts, with losses or without |
| `CountCovers`, `ServerTyped` (`IgmpProofs`) | `[]CountCoversMembers`, `[]ServerTypeOK` | the same |
| `CountersCountEntries` (`SpawnCounterProofs`) | `[]CountsEntries` | any number of turns and starts |
| `PotIsBounded`, `HoneyTyped` (`HoneyProofs`) | `[]PotBounded`, `[]TypeOK` and that Winnie is no bee | any number of bees, any meals |
| `MutualExclusion`, `EveryRowIsRight`, `PageIsEnough`, `MatrixTyped` (`SemMatrixProofs`) | `[]Exclusive`, `[]ResultsRight`, `[]PageHoldsRows`, `[]TypeOK` | any number of rows, any page |
| `EachRowDealtOut`, `NothingLeftBehind`, `SharedMatrixTyped` (`SysVMatrixProofs`) | `[]RowsDealtOut`, `[]CleanExitLeavesNothing`, `[]TypeOK` | any number of programs, rows and places in the queue, with interruptions or without |
| `SerialReadsAreExact`, `AccidentsHaveCauses`, `DeviceTyped` (`DevBufferProofs`) | `[]SerialReadsExact`, `[]AccidentsExplained`, `[]TypeOK` | any processes, buffer, lengths and number of calls |
| `SerialReadsAreShared`, `AccidentsHaveCauses`, `ProcTyped` (`ProcBufferProofs`) | `[]SerialReadsShare`, `[]AccidentsExplained`, `[]TypeOK` | any processes, buffer, lengths, counts, width of an int and number of calls |

The assumptions are the named ASSUMEs of the modules: kinds and ranges of the
constants, clients that are not managers, a `NoMsg` that is not a message,
initial groups that are different and fit into the table, an int that holds the lengths written and is wider than the buffer is
long, finitely many clients,
managers, programs and users of the device. No length is assumed to fit its buffer.

**Relay.** `DeliveredOnce` is not inductive: that a message is written once
depends on where it was before. `RelayInv` says it for the whole way. `CountersInv`:
a thread in `msgsnd` has read a value, and no more than was sent. `QueueInv`: the
queue holds, for each client, rising numbers that the client's thread has passed on.
`RbufInv`: each thread that is to send has a message of its own, and it is ahead of
everything of that client in the queue. `OutInv`: what is written out is ahead of
the queue and of every `rbuf`. A message thus moves through disjoint stages, and
each stage holds earlier numbers than the one before it. A crash only removes
stages. The refinement maps `pending` to the union of the stages and `received` to
what managers have read; each action is then a `Send`, a `Deliver`, a `Lose` or a stutter.

`LossIsBounded` compares sizes of sets that change in steps of any size: one crash loses what
every thread holds. `LossInv` therefore gives each lost value something to blame. A connection is a token that can be
blamed for one value once it is broken, and a departed manager's for a second one once the server has
gone as well; `LossInv` says that a function from tokens to values exists whose values at the used
tokens include all that is lost. `LostIsUntraced` says what lost means from the other side (a value the server has read and that is at
no stage any more), so that an action which moves a value on loses none, and only `Die` and `SendLost` need tokens of
their own. `ThreadLinkInv` (a thread works on a connection not yet broken) makes sure that a crash
finds them unused. That the used tokens are no more than the bound is `UsedIsBounded`, by cardinality.

**Framing.** `StreamInv` says for a short read that came in frame `a`: the first `a` values are intact, no later one is, and
while the receiver is alive it stands `o` bytes behind the end of frame `a`, having forwarded one value more than that, or two
with `o` at 3 or 4, or three with `o` at 4 (`Offset`). A whole read then finds a value in place of the header and
crashes; a further short one can only be completed by a stale header, which leaves so few places. `BufInv` knows where each byte of the buffer came
from, which excludes that a value's bytes look like a header.

**IGMP host.** `HostInv` states how far each loop has come: during a specific query
a slot of `stable` has been reported exactly if it is below `j`, during a general
one if `(timer[s], s)` comes before `(i, j)`. The table only grows while the loops run and a deletion first takes
its slot out of `stable`; this is why no lock is needed for `AnsweredOnce`, although one is for
`OnlyActualGroups`. That no loop meets an `Unset` slot needs only that the add fills its slot before it raises
the length, whatever the other thread does in between. `TableInv` adds what the table holds between the two halves of an add or a del.

**IGMP server.** `ServerInv` ties the flag `thread_started` to the newest thread and
lets a cancelled thread have sent one query only once it is no longer inside `sendto`. `CountCoversMembers` is
inductive with the types: each packet that comes or goes moves one place of the socket (`Arrival`, `Departure`), and
main counts what it takes away. An answer that is still due after the leave only adds a report and cannot bring the count below
the members.

**Semaphore matrix.** `SemInv` adds to exclusion the phases of the parent (no child
runs before its fork, no removal before the last) and, for each row, the value of
its two cells at each statement of its child. `ResultsRight` does not rest on the
semaphore at all, but on `CellsApart`: no two rows share a cell. `FitInv` says that where the page is too small the
parent gets no further than the filling, so all the cells a child uses are in the page (`PageHoldsRows`).

**System V matrix.** `QueueInv`: a queued row belongs to a program that still has this very queue, has sent
the row and has not removed the queue; each row is queued once. Once a program has removed its queue, none of its rows is in
any queue that exists, and `CleanExitLeavesNothing` follows, since no program ends by itself without the removal. `LoopInv`: which rows have been
forked and sent at each statement of the parent. `ResultInv`: what a child has got is a row that has been sent, and it is
also in the queue, or with another child, only once a call has failed and only as the last row of its program. That where no call has failed all rows have been worked on is a pigeonhole argument (`AllRows`): as many
different rows as there are.

**Spawn counter.** `Names` makes the naming of processes sound: the turns in a name rise, and the
parent's loop counter is beyond the last of them, so no fork meets a process that is
already there. `Amounts` compares each counter with the entries: the processes that have entered and not
yet stored are exactly what it is behind at least, however many are inside, which
is why it never runs ahead even when updates are lost. `Exact` follows the one process inside from
statement to statement.

**Honey.** The bounds hold for the pot and for each value read and not yet written back. Both only widen,
by a meal and by a bee, so a stale value stays within them; that no byte overflows needs that
each bee comes home once (`brought` is the number of those home, by cardinality) and that Winnie, while he
lives, never becomes one.

**Character device.** `SafeInv` follows a lone reader (`InsideInv`): it goes on to `take` only when it has
seen a character that is not NUL, hence not the last place of `msg`; so its store of `msg_Ptr` stays inside whatever the writers
have done meanwhile. That the last place holds a NUL (`LastInv`) fails only while a string that fills `msg` is being
stored, between its last character and the NUL that replaces it; a call beside such a write counts as `crowded`, and so does a
read beside another. `CountInv`: nobody is counted in a module that goes, so what runs there was opened too late or has just
closed. `SerialInv` adds what holds while calls come one by one: `CopyInv` what a writer has
put into `msg` so far, `WholeInv` that between writes the text stands there with its NUL and that `msg_Ptr` is as far as the
readers have got, `DueInv` what the reader at work still has to get at each of its statements. The histories
are forgotten when calls overlap, and the invariant has to be found again at the end of the first write that
has the device for itself (`Rewind`).

**Proc file.** In each state one of three things holds: a race has taken place and nothing is remembered (`Forgotten`); no call is
running, the text stands in `msg` and `temp` is what is left of it (`Settled`); or one call is running alone
(`Solo`). `Shared` says what a lone reader has worked out at each statement: `temp` is not negative, so the comparison of an
unsigned with a signed number does what was meant, and the difference needs no wrapping (`AsIntKeeps`). `Whole` is
why each byte has its place: until the text is at its end, readings consist of whole pieces of their count, so the place of a byte in `msg` is
its number modulo that count (`RemainderOfMultiple`, `PieceFollows`). A write of more than `BUFSIZE` bytes ends at its copy, so
`len` is never set to more, which is why `ProcTyped` can bound it without an assumption on what is written.

**Only model-checked:** all liveness (`Delivery`, `QueryAnswered`, `MembersAreAsked`,
`EveryChildEnds`, `PermitIsTaken`, `WinnieDies`, `LastReaderEnds`), which is out of the prover's reach. Every
invariant and action property of a passing run is the statement of a theorem.

## 5. Not modelled, and why

Random texts, packet bytes, checksums and printed lines (no property is about
them), the length of sleeps, failing `malloc`, `kmalloc` and `socket` calls at start-up (the process ends
before it has any state), and the second
`unregister_chrdev` of dev_buffer/main.c:63, which repeats the call of line 54. In `lights` the
timer handler adds the timer again (light.c:43) while `del_timer` (72) does not wait for it; two sides
with four statements are plain without a model. Of the other components see `PROJECT.json`: sequential
exercises have no state worth a model, `Bash` scripts configure the host, and
`Crosscompile` is not this repository's code.

## 6. Plan

Done: `RelayContract`, `Relay`, `FrameStream`, `IgmpHost`, `IgmpServer`, `SemMatrix`, `SysVMatrix`, `SpawnCounter`,
`Honey`, `DevBuffer` and `ProcBuffer`, each with its proofs. What could follow:

1. Proofs of what the liveness properties rest on: that a blocked thread or process finds what it waits for
   as long as its partner is there, as invariants of their own (that somebody inside holds the semaphore of
   `SemMatrix` as long as it is taken and exists, and the same for `SpawnCounter`).
2. `WordFilter` (`fist.c`), `IpCalc`, `Checksum`: algorithms against reference definitions.
3. `Lights`, together with the loading and unloading of the other kernel modules.
