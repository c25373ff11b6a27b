---------------------------- MODULE FrameStream ----------------------------
(***************************************************************************)
(* One TCP connection of C/kursivaya at the level of bytes: the sender     *)
(* packs each value into a frame of fixed length, and the receiver         *)
(* (HandleTCPClient, and manager.c in the other direction) hands its whole *)
(* buffer to dmessage__unpack however much of it recv has filled.          *)
(*                                                                         *)
(* A packed DMessage is 0a 0c 0a 0a and the ten characters of the value,   *)
(* none of which is a control character.  So a buffer unpacks if and only  *)
(* if it starts with those four bytes, and the value is whatever follows.  *)
(***************************************************************************)
EXTENDS Naturals, Sequences, FiniteSets

CONSTANTS Body,       \* characters in a value (10 in the code)
          ShortReads, \* whether recv may return part of a frame
          MaxFrames   \* bound: frames the sender writes

ASSUME FrameAssumption == /\ Body \in Nat \ {0} /\ MaxFrames \in Nat
                          /\ ShortReads \in BOOLEAN

Header == <<"0a", "0c", "0a", "0a">>

H == Len(Header)

RCVBUFSIZE == H + Body

\* A byte is known by its frame and its place there.  Frame 0 is what an earlier
\* connection may have left on the stack; place 0 is any other byte found there.
Byte == [frame : 0 .. MaxFrames, place : 0 .. RCVBUFSIZE]

Char(b) == IF b.place \in DOMAIN Header THEN Header[b.place] ELSE "char"

Frame(n) == [i \in 1 .. RCVBUFSIZE |-> [frame |-> n, place |-> i]]

\* A stack on which only the bytes of an old frame at the places S survive.
Leftover(S) == [i \in 1 .. RCVBUFSIZE |-> [frame |-> 0, place |-> IF i \in S THEN i ELSE 0]]

\* A variant with a bug, not used below: only the first tag is looked at.
UnpacksLoosely(b) == Char(b[1]) = Header[1]

\* dmessage__unpack(NULL, RCVBUFSIZE, buf) # NULL
Unpacks(b) == \A i \in 1 .. H : Char(b[i]) = Header[i]

Value(b) == SubSeq(b, H + 1, RCVBUFSIZE)

VARIABLES
  written,    \* frames the sender has passed to send()
  closed,     \* whether it has closed the connection
  pos,        \* bytes the receiver has read
  buf,        \* its buffer, never cleared
  forwarded,  \* the values it has passed on
  status,     \* "running", "returned" or "crashed"
  short       \* history: some recv has returned part of a frame

streamVars == <<written, closed, pos, buf, forwarded, status, short>>

StreamTypeOK ==
  /\ written \in 0 .. MaxFrames /\ closed \in BOOLEAN
  /\ pos \in 0 .. MaxFrames * RCVBUFSIZE
  /\ buf \in [1 .. RCVBUFSIZE -> Byte]
  /\ forwarded \in Seq([1 .. Body -> Byte])
  /\ status \in {"running", "returned", "crashed"}
  /\ short \in BOOLEAN

\* buf is an uninitialised array on a stack that may be a former thread's; all
\* that matters of it is which bytes of a header it happens to hold.
StreamInit ==
  /\ written = 0 /\ closed = FALSE /\ pos = 0
  /\ buf \in {Leftover(S) : S \in SUBSET (1 .. H)}
  /\ forwarded = <<>> /\ status = "running" /\ short = FALSE

Send ==
  /\ ~closed /\ written < MaxFrames
  /\ written' = written + 1
  /\ UNCHANGED <<closed, pos, buf, forwarded, status, short>>

Close ==
  /\ ~closed
  /\ closed' = TRUE
  /\ UNCHANGED <<written, pos, buf, forwarded, status, short>>

Stream(i) == Frame(((i - 1) \div RCVBUFSIZE) + 1)[((i - 1) % RCVBUFSIZE) + 1]

StreamUnread == written * RCVBUFSIZE - pos

\* Variants with a plausible bug each, none used by StreamNext: recv is credited with a
\* full buffer; the last byte is not stored.
RecvSizesAlwaysFull == {RCVBUFSIZE}

FilledButLast(k) == [i \in 1 .. RCVBUFSIZE |-> IF i < k THEN Stream(pos + i) ELSE buf[i]]

\* What recv may return: as much as fits, or fewer bytes when the segments
\* arrive separately.
RecvSizes == LET most == IF StreamUnread < RCVBUFSIZE THEN StreamUnread ELSE RCVBUFSIZE
             IN  IF ShortReads THEN 1 .. most ELSE {most} \ {0}

Filled(k) == [i \in 1 .. RCVBUFSIZE |-> IF i <= k THEN Stream(pos + i) ELSE buf[i]]

\* A variant with a bug, not used below: what does not unpack is skipped.
RecvSkips(k) ==
  /\ status = "running" /\ k \in RecvSizes
  /\ pos' = pos + k
  /\ buf' = Filled(k)
  /\ short' = (short \/ k < RCVBUFSIZE)
  /\ forwarded' = IF Unpacks(buf') THEN Append(forwarded, Value(buf')) ELSE forwarded
  /\ UNCHANGED <<written, closed, status>>

\* One turn of the loop: recv, unpack the whole buffer, use msg->a.  A NULL
\* from unpack is only reported; the next statement dereferences it.
Recv(k) ==
  /\ status = "running" /\ k \in RecvSizes
  /\ pos' = pos + k
  /\ buf' = Filled(k)
  /\ short' = (short \/ k < RCVBUFSIZE)
  /\ IF Unpacks(buf')
     THEN /\ forwarded' = Append(forwarded, Value(buf'))
          /\ UNCHANGED status
     ELSE /\ status' = "crashed"
          /\ UNCHANGED forwarded
  /\ UNCHANGED <<written, closed>>

\* recv returns 0: "zero indicates end of transmission".
EndOfStream ==
  /\ status = "running" /\ closed /\ StreamUnread = 0
  /\ status' = "returned"
  /\ UNCHANGED <<written, closed, pos, buf, forwarded, short>>

StreamNext == Send \/ Close \/ (\E k \in 1 .. RCVBUFSIZE : Recv(k)) \/ EndOfStream

StreamSpec == StreamInit /\ [][StreamNext]_streamVars

-----------------------------------------------------------------------------
Intact(i) == forwarded[i] = Value(Frame(i))

\* As long as recv returns whole frames, every value is passed on unharmed and
\* in its place, whatever the buffer held at first (HandleTCPClient.c:40-64, manager.c:80-99).
WholeReadsSuffice ==
  ~short => /\ status # "crashed"
            /\ pos = Len(forwarded) * RCVBUFSIZE
            /\ \A i \in DOMAIN forwarded : Intact(i)

\* After a short read the receiver never finds a frame boundary again: no
\* intact value follows a damaged one (HandleTCPClient.c:45, manager.c:86).
NeverRealigned ==
  \A i, j \in DOMAIN forwarded : i < j /\ ~Intact(i) => ~Intact(j)

\* A connection passes on at most three damaged values before it crashes the
\* process: only a read that starts inside the header can be completed by the
\* stale header in the buffer (HandleTCPClient.c:45, manager.c:86).
DamageIsBounded == Cardinality({i \in DOMAIN forwarded : ~Intact(i)}) <= H - 1
=============================================================================
