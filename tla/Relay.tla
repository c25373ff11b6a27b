------------------------------- MODULE Relay -------------------------------
(***************************************************************************)
(* The message relay of C/kursivaya: one server process, the clients that  *)
(* feed it and the managers it feeds, one TCP connection and one server    *)
(* thread per peer, and the System V message queue in between.             *)
(*                                                                         *)
(*   client.c --TCP 2500--> HandleTCPClient --msgsnd--> [queue]            *)
(*                          HandleTCPManages <--msgrcv-- [queue]           *)
(*   manager.c <--TCP 1500-- HandleTCPManages                              *)
(*                                                                         *)
(* A value is identified by the client that made it and its number there.  *)
(* A TCP connection is the sequence of values ever written to it with the  *)
(* reader's position; how values become bytes is the subject of            *)
(* FrameStream.  The queue belongs to the kernel and outlives the server.  *)
(***************************************************************************)
EXTENDS Integers, Sequences, FiniteSets

CONSTANTS Clients,      \* client processes (client.c), each connects once
          Managers,     \* manager processes (manager.c), each connects once
          NoMsg,        \* an rbuf with nothing to send in it
          QCap,         \* messages the kernel queue holds before msgsnd blocks
          QueueAtBoot,  \* whether an earlier run may have left the queue behind
          Faults,       \* the faults the environment may inject
          MaxSend,      \* bound: values a client sends
          MaxStarts     \* bound: times the server is started

FaultKinds == {"crash",   \* the server is killed or meets a failing system call
               "leave",   \* a client or manager process is stopped
               "abort",   \* a client's connection is reset by the network
               "bind",    \* a restarted server finds its port still in use
              "unpack"}  \* recv returns bytes that are no whole message

Message == [from : Clients, no : Nat \ {0}]

ASSUME PeersAssumption == Clients \cap Managers = {}
ASSUME FinitePeers == IsFiniteSet(Clients) /\ IsFiniteSet(Managers)
ASSUME NoMsgAssumption == NoMsg \notin Message
ASSUME BoundsAssumption == /\ QCap \in Nat \ {0}
                           /\ MaxSend \in Nat
                           /\ MaxStarts \in Nat \ {0}
ASSUME ChoiceAssumption == QueueAtBoot \subseteq BOOLEAN /\ Faults \subseteq FaultKinds

Peers == Clients \cup Managers

Ports == {"PORTFORCLIENTS", "PORTFORMANAGERS"}

PortOf(p) == IF p \in Clients THEN "PORTFORCLIENTS" ELSE "PORTFORMANAGERS"

VARIABLES
  server,     \* "up" or "down": every thread of the process lives or none does
  starts,     \* how many times the server has been started
  listening,  \* the ports CreateTCPServerSocket has opened
  peer,       \* peer[p]: where the client or manager process is
  link,       \* link[p]: the TCP connection between p and the server
  sent,       \* sent[c]: values client c has passed to send()
  got,        \* got[c]: values the server has read and unpacked from c
  thread,     \* thread[p]: the call the server thread of p is at
  created,    \* whether the message queue exists in the kernel
  queue,      \* its contents, oldest first
  rbuf,       \* rbuf[m]: the message m's thread took and has not yet sent
  out,        \* out[m]: every message written to m's connection
  seen        \* seen[m]: how many of them manager m has read

procVars == <<server, starts, listening>>
peerVars == <<peer, link>>
upVars   == <<sent, got>>
msqVars  == <<created, queue>>
downVars == <<rbuf, out, seen>>
vars == <<procVars, peerVars, upVars, thread, msqVars, downVars>>

PeerPhase == {"discover",   \* blocked in recvfrom on the broadcast port
              "connect",    \* knows the server's address, has yet to connect
              "open",       \* connected: sending or receiving
              "dead"}       \* exited

LinkState == {"none", "open",
              "fin",        \* the peer has closed its end
              "reset",      \* the next send on it fails
              "aborted",    \* the next recv on it fails
              "gone"}       \* the server's end died with the server

ClientPhase  == {"none", "msgget", "recv", "msgsnd", "null", "done"}
ManagerPhase == {"none", "msgget", "msgrcv", "send"}

TypeOK ==
  /\ server \in {"up", "down"}
  /\ starts \in 1 .. MaxStarts
  /\ listening \in SUBSET Ports
  /\ peer \in [Peers -> PeerPhase]
  /\ link \in [Peers -> LinkState]
  /\ sent \in [Clients -> 0 .. MaxSend]
  /\ got \in [Clients -> 0 .. MaxSend]
  /\ thread \in [Peers -> ClientPhase \cup ManagerPhase]
  /\ created \in BOOLEAN
  /\ queue \in Seq(Message)
  /\ rbuf \in [Managers -> Message \cup {NoMsg}]
  /\ out \in [Managers -> Seq(Message)]
  /\ seen \in [Managers -> Nat]

\* main has just launched its threads; no listener is open yet.
Init ==
  /\ server = "up" /\ starts = 1 /\ listening = {}
  /\ peer = [p \in Peers |-> "discover"]
  /\ link = [p \in Peers |-> "none"]
  /\ sent = [c \in Clients |-> 0]
  /\ got = [c \in Clients |-> 0]
  /\ thread = [p \in Peers |-> "none"]
  /\ created \in QueueAtBoot /\ queue = <<>>
  /\ rbuf = [m \in Managers |-> NoMsg]
  /\ out = [m \in Managers |-> <<>>]
  /\ seen = [m \in Managers |-> 0]

-----------------------------------------------------------------------------
(* The server process.                                                     *)

\* exit() in any thread, or a fatal signal: every thread and both ends of
\* every socket the server holds go at once.  What it had read is lost.
Die ==
  /\ server' = "down"
  /\ listening' = {}
  /\ link' = [p \in Peers |-> IF link[p] = "none" THEN "none" ELSE "gone"]
  /\ thread' = [p \in Peers |-> "none"]
  /\ rbuf' = [m \in Managers |-> NoMsg]
  /\ UNCHANGED <<starts, peer, upVars, msqVars, out, seen>>

Crash == "crash" \in Faults /\ server = "up" /\ Die

Restart ==
  /\ server = "down" /\ starts < MaxStarts
  /\ server' = "up" /\ starts' = starts + 1
  /\ UNCHANGED <<listening, peerVars, upVars, thread, msqVars, downVars>>

\* The two listener threads open their sockets in either order, and only
\* after the two broadcasters have been started.
CreateTCPServerSocket(port) ==
  /\ server = "up" /\ port \notin listening
  /\ listening' = listening \cup {port}
  /\ UNCHANGED <<server, starts, peerVars, upVars, thread, msqVars, downVars>>

\* bind() fails while connections of the previous run linger on the port.
BindFails(port) ==
  /\ "bind" \in Faults /\ starts > 1
  /\ server = "up" /\ port \notin listening
  /\ Die

\* One datagram of the broadcast that is repeated every second reaches p.
UdpBroadcastSender(p) ==
  /\ server = "up" /\ peer[p] = "discover"
  /\ peer' = [peer EXCEPT ![p] = "connect"]
  /\ UNCHANGED <<procVars, link, upVars, thread, msqVars, downVars>>

\* accept, malloc, pthread_create.  The kernel may have completed the
\* connection, and the peer used or closed it, long before.
AcceptTCPConnection(p) ==
  /\ server = "up" /\ PortOf(p) \in listening
  /\ link[p] \in {"open", "fin", "aborted"} /\ thread[p] = "none"
  /\ thread' = [thread EXCEPT ![p] = "msgget"]
  /\ UNCHANGED <<procVars, peerVars, upVars, msqVars, downVars>>

-----------------------------------------------------------------------------
(* The peers' processes.                                                   *)

\* connect() is refused, and the process exits, unless the port is open.
Connect(p) ==
  /\ peer[p] = "connect"
  /\ IF PortOf(p) \in listening
     THEN /\ peer' = [peer EXCEPT ![p] = "open"]
          /\ link' = [link EXCEPT ![p] = "open"]
     ELSE /\ peer' = [peer EXCEPT ![p] = "dead"]
          /\ UNCHANGED link
  /\ UNCHANGED <<procVars, upVars, thread, msqVars, downVars>>

ClientSend(c) ==
  /\ peer[c] = "open" /\ link[c] = "open" /\ sent[c] < MaxSend
  /\ sent' = [sent EXCEPT ![c] = sent[c] + 1]
  /\ UNCHANGED <<procVars, peerVars, got, thread, msqVars, downVars>>

\* The first send after the server has gone still returns success.
ClientSendLost(c) ==
  /\ peer[c] = "open" /\ link[c] = "gone" /\ sent[c] < MaxSend
  /\ sent' = [sent EXCEPT ![c] = sent[c] + 1]
  /\ link' = [link EXCEPT ![c] = "reset"]
  /\ UNCHANGED <<procVars, peer, got, thread, msqVars, downVars>>

ClientSendFails(c) ==
  /\ peer[c] = "open" /\ link[c] \in {"gone", "reset", "aborted"}
  /\ peer' = [peer EXCEPT ![c] = "dead"]
  /\ UNCHANGED <<procVars, link, upVars, thread, msqVars, downVars>>

ManagerRecv(m) ==
  /\ peer[m] = "open" /\ seen[m] < Len(out[m])
  /\ seen' = [seen EXCEPT ![m] = seen[m] + 1]
  /\ UNCHANGED <<procVars, peerVars, upVars, thread, msqVars, rbuf, out>>

\* recv returns 0 once the server's end is closed and all data is read.
ManagerEnd(m) ==
  /\ peer[m] = "open" /\ link[m] = "gone" /\ seen[m] = Len(out[m])
  /\ peer' = [peer EXCEPT ![m] = "dead"]
  /\ UNCHANGED <<procVars, link, upVars, thread, msqVars, downVars>>

\* The user stops a client or a manager; the kernel closes its socket.
Leave(p) ==
  /\ "leave" \in Faults /\ peer[p] # "dead"
  /\ peer' = [peer EXCEPT ![p] = "dead"]
  /\ link' = [link EXCEPT ![p] = IF @ = "open" THEN "fin" ELSE @]
  /\ UNCHANGED <<procVars, upVars, thread, msqVars, downVars>>

\* A reset arrives on a client's connection: unread data is discarded.
Abort(c) ==
  /\ "abort" \in Faults /\ link[c] = "open"
  /\ link' = [link EXCEPT ![c] = "aborted"]
  /\ UNCHANGED <<procVars, peer, upVars, thread, msqVars, downVars>>

-----------------------------------------------------------------------------
(* Variants of the thread actions below with a plausible bug each; none is *)
(* part of Next.  They show what the properties can tell apart.            *)

\* recv is not asked whether anything is there.
RecvValueUnguarded(c) ==
  /\ thread[c] = "recv" /\ link[c] \in {"open", "fin"}
  /\ got' = [got EXCEPT ![c] = got[c] + 1]
  /\ thread' = [thread EXCEPT ![c] = "msgsnd"]
  /\ UNCHANGED <<procVars, peerVars, sent, msqVars, downVars>>

\* A return of 0 from recv counts as an error.
RecvEndAsError(c) == thread[c] = "recv" /\ link[c] = "fin" /\ got[c] = sent[c] /\ Die

\* The loop goes back to msgsnd without a new recv.
MsgSndTwice(c) ==
  /\ thread[c] = "msgsnd" /\ Len(queue) < QCap
  /\ queue' = Append(queue, [from |-> c, no |-> got[c]])
  /\ UNCHANGED <<procVars, peerVars, upVars, thread, created, downVars>>

\* A stack in place of the queue.
MsgSndAtFront(c) ==
  /\ thread[c] = "msgsnd" /\ Len(queue) < QCap
  /\ queue' = <<[from |-> c, no |-> got[c]]>> \o queue
  /\ thread' = [thread EXCEPT ![c] = "recv"]
  /\ UNCHANGED <<procVars, peerVars, upVars, created, downVars>>

\* The capacity is off by one.
MsgSndOffByOne(c) ==
  /\ thread[c] = "msgsnd" /\ Len(queue) < QCap - 1
  /\ queue' = Append(queue, [from |-> c, no |-> got[c]])
  /\ thread' = [thread EXCEPT ![c] = "recv"]
  /\ UNCHANGED <<procVars, peerVars, upVars, created, downVars>>

\* The message is read but not removed.
MsgRcvCopy(m) ==
  /\ thread[m] = "msgrcv" /\ queue # <<>>
  /\ rbuf' = [rbuf EXCEPT ![m] = Head(queue)]
  /\ thread' = [thread EXCEPT ![m] = "send"]
  /\ UNCHANGED <<procVars, peerVars, upVars, msqVars, out, seen>>

\* The thread repeats the send without a new msgrcv.
SendValueAgain(m) ==
  /\ thread[m] = "send" /\ link[m] = "open" /\ Len(out[m]) < 4
  /\ out' = [out EXCEPT ![m] = Append(@, rbuf[m])]
  /\ UNCHANGED <<procVars, peerVars, upVars, thread, msqVars, rbuf, seen>>

\* The reset goes unnoticed: SIGPIPE ignored and send unchecked.
SendLostUnnoticed(m) ==
  /\ thread[m] = "send" /\ link[m] = "fin"
  /\ rbuf' = [rbuf EXCEPT ![m] = NoMsg]
  /\ thread' = [thread EXCEPT ![m] = "msgget"]
  /\ UNCHANGED <<procVars, peerVars, upVars, msqVars, out, seen>>

-----------------------------------------------------------------------------
(* HandleTCPClient: the server thread of client c.                         *)

\* msgget(KEY, IPC_CREAT | 0666)
MsgGetClient(c) ==
  /\ thread[c] = "msgget"
  /\ created' = TRUE
  /\ thread' = [thread EXCEPT ![c] = "recv"]
  /\ UNCHANGED <<procVars, peerVars, upVars, queue, downVars>>

\* recv of a whole message, unpack, and strcpy into sbuf.mtext; sbuf is then
\* value got[c] of c.
RecvValue(c) ==
  /\ thread[c] = "recv" /\ link[c] \in {"open", "fin"} /\ got[c] < sent[c]
  /\ got' = [got EXCEPT ![c] = got[c] + 1]
  /\ thread' = [thread EXCEPT ![c] = "msgsnd"]
  /\ UNCHANGED <<procVars, peerVars, sent, msqVars, downVars>>

\* recv returns part of a message, or what some other program wrote to the port:
\* unpack returns NULL, which is reported while the other threads run on ...
UnpackFails(c) ==
  /\ "unpack" \in Faults
  /\ thread[c] = "recv" /\ link[c] \in {"open", "fin"}
  /\ thread' = [thread EXCEPT ![c] = "null"]
  /\ UNCHANGED <<procVars, peerVars, upVars, msqVars, downVars>>

\* ... and dereferenced: the whole server goes down.
DereferenceNull(c) == thread[c] = "null" /\ Die

\* recv returns 0: leave the loop, close the socket, the thread ends.
RecvEnd(c) ==
  /\ thread[c] = "recv" /\ link[c] = "fin" /\ got[c] = sent[c]
  /\ thread' = [thread EXCEPT ![c] = "done"]
  /\ UNCHANGED <<procVars, peerVars, upVars, msqVars, downVars>>

\* recv returns -1: DieWithError takes the whole server down.
RecvFails(c) == thread[c] = "recv" /\ link[c] = "aborted" /\ Die

\* msgsnd blocks while the queue is full.
MsgSnd(c) ==
  /\ thread[c] = "msgsnd" /\ Len(queue) < QCap
  /\ queue' = Append(queue, [from |-> c, no |-> got[c]])
  /\ thread' = [thread EXCEPT ![c] = "recv"]
  /\ UNCHANGED <<procVars, peerVars, upVars, created, downVars>>

-----------------------------------------------------------------------------
(* ThreadMainManager and HandleTCPManages: the server thread of manager m. *)

\* msgget(KEY, 0666) finds the queue ...
MsgGetManager(m) ==
  /\ thread[m] = "msgget" /\ created
  /\ thread' = [thread EXCEPT ![m] = "msgrcv"]
  /\ UNCHANGED <<procVars, peerVars, upVars, msqVars, downVars>>

\* ... or, without IPC_CREAT, fails and exit(1) takes the whole server down.
MsgGetFails(m) == thread[m] = "msgget" /\ ~created /\ Die

\* msgrcv blocks while the queue is empty; each message goes to one thread.
MsgRcv(m) ==
  /\ thread[m] = "msgrcv" /\ queue # <<>>
  /\ rbuf' = [rbuf EXCEPT ![m] = Head(queue)]
  /\ queue' = Tail(queue)
  /\ thread' = [thread EXCEPT ![m] = "send"]
  /\ UNCHANGED <<procVars, peerVars, upVars, created, out, seen>>

SendValue(m) ==
  /\ thread[m] = "send" /\ link[m] = "open"
  /\ out' = [out EXCEPT ![m] = Append(@, rbuf[m])]
  /\ rbuf' = [rbuf EXCEPT ![m] = NoMsg]
  /\ thread' = [thread EXCEPT ![m] = "msgget"]
  /\ UNCHANGED <<procVars, peerVars, upVars, msqVars, seen>>

\* The first send to a departed manager succeeds and is answered by a reset.
SendLost(m) ==
  /\ thread[m] = "send" /\ link[m] = "fin"
  /\ link' = [link EXCEPT ![m] = "reset"]
  /\ rbuf' = [rbuf EXCEPT ![m] = NoMsg]
  /\ thread' = [thread EXCEPT ![m] = "msgget"]
  /\ UNCHANGED <<procVars, peer, upVars, msqVars, out, seen>>

\* The next one fails (SIGPIPE, or DieWithError): the whole server goes down.
SendFails(m) == thread[m] = "send" /\ link[m] \in {"fin", "reset"} /\ Die

-----------------------------------------------------------------------------
ServerThread(p) ==
  \/ AcceptTCPConnection(p)
  \/ p \in Clients /\ (\/ MsgGetClient(p) \/ RecvValue(p) \/ RecvEnd(p) \/ RecvFails(p)
                       \/ DereferenceNull(p) \/ MsgSnd(p))
  \/ p \in Managers /\ (\/ MsgGetManager(p) \/ MsgGetFails(p) \/ MsgRcv(p)
                        \/ SendValue(p) \/ SendLost(p) \/ SendFails(p))

PeerProcess(p) ==
  \/ Connect(p)
  \/ p \in Clients /\ (ClientSend(p) \/ ClientSendLost(p) \/ ClientSendFails(p))
  \/ p \in Managers /\ (ManagerRecv(p) \/ ManagerEnd(p))

Environment ==
  \/ Crash \/ Restart
  \/ \E port \in Ports : BindFails(port)
  \/ \E p \in Peers : Leave(p)
  \/ \E c \in Clients : Abort(c) \/ UnpackFails(c)

Next ==
  \/ \E port \in Ports : CreateTCPServerSocket(port)
  \/ \E p \in Peers : UdpBroadcastSender(p) \/ ServerThread(p) \/ PeerProcess(p)
  \/ Environment

Spec == Init /\ [][Next]_vars

\* Each thread of the server and each peer process is scheduled by its kernel;
\* the broadcast is repeated for ever, so some datagram gets through.  A restart,
\* like any fault, is up to the environment and is not assumed.
Fairness ==
  /\ \A port \in Ports : WF_vars(CreateTCPServerSocket(port))
  /\ \A p \in Peers : /\ WF_vars(UdpBroadcastSender(p))
                      /\ WF_vars(ServerThread(p))
                      /\ WF_vars(PeerProcess(p))

FairSpec == Spec /\ Fairness

-----------------------------------------------------------------------------
(* Properties.                                                             *)

\* Values on their way from c's connection to a manager's.
Held(c) == IF thread[c] = "msgsnd" THEN {[from |-> c, no |-> got[c]]} ELSE {}

Unread(c) == IF link[c] \in {"open", "fin"}
             THEN {[from |-> c, no |-> n] : n \in got[c] + 1 .. sent[c]} ELSE {}

Queued == {queue[i] : i \in DOMAIN queue}

Taken == {rbuf[m] : m \in Managers} \ {NoMsg}

Written(m) == {out[m][i] : i \in DOMAIN out[m]}

\* Every value in the server's hands: read from a client, not yet written out.
InServer == (UNION {Held(c) : c \in Clients}) \cup Queued \cup Taken

\* What the server has unpacked and nobody has any more, and the connections it can be due to.
Lost == {v \in {[from |-> c, no |-> n] : c \in Clients, n \in 1 .. MaxSend} :
           v.no <= got[v.from] /\ v \notin InServer /\ \A m \in Managers : v \notin Written(m)}

Broken   == {p \in Peers : link[p] \in {"reset", "gone"}}
Departed == {m \in Managers : m \in Broken /\ peer[m] = "dead"}

\* No value is written to two managers, or twice to one: msgrcv hands each
\* message to one of the competing threads, and nothing is retried
\* (HandleTCPManager.c:35-46, HandleTCPClient.c:43-64).
DeliveredOnce ==
  \A m, n \in Managers : \A i \in DOMAIN out[m], j \in DOMAIN out[n] :
    out[m][i] = out[n][j] => m = n /\ i = j

\* A manager receives the values of one client in the order they were sent,
\* whatever other managers took in between and however often the server was
\* restarted over the surviving queue (HandleTCPClient.c:53, HandleTCPManager.c:35).
SeenInOrder ==
  \A m \in Managers : \A i, j \in DOMAIN out[m] :
    i < j /\ out[m][i].from = out[m][j].from => out[m][i].no < out[m][j].no

\* Of the values the server has unpacked, it loses at most one for each client
\* connection that broke (the one in msgsnd when the server died) and two for
\* each manager's (one sent to a departed manager, one in rbuf when the server
\* died).  Queued messages survive (HandleTCPClient.c:53, HandleTCPManager.c:35-47).
LossIsBounded == Cardinality(Lost) <= Cardinality(Broken) + Cardinality(Departed)

\* The server stops for one of three reasons only: a manager asked for a queue
\* that no client had created yet, a manager left and a later send to it failed,
\* or a client's thread read what does not unpack.  That a client leaves, a queue
\* is full or a manager is slow does not stop it (HandleTCPClient.c:40-65,
\* HandleTCPManager.c:30-46).  For kills, resets and ports in use, see Faults.
StopsHaveCauses ==
  [][server = "up" /\ server' = "down"
       => \/ ~created
          \/ \E m \in Managers : peer[m] = "dead" /\ thread[m] = "send"
          \/ \E c \in Clients : thread[c] = "null"]_vars

\* As long as the server lives, every value a client sends is received by a
\* manager, also when the client leaves after sending it, unless a connected
\* manager has left, whose thread may have taken it, or none came (main.c:90-119).
Delivery ==
  \A c \in Clients, n \in 1 .. MaxSend :
    sent[c] >= n ~> \/ \E m \in Managers :
                         \E i \in 1 .. seen[m] : out[m][i] = [from |-> c, no |-> n]
                    \/ server = "down"
                    \/ \E m \in Managers : peer[m] = "dead" /\ link[m] # "none"
                    \/ \A m \in Managers : peer[m] = "dead"

-----------------------------------------------------------------------------
(* The inductive invariant behind DeliveredOnce, SeenInOrder and the       *)
(* refinement: a client's values are in order all the way along the relay. *)

\* The last value of c that its thread has handed over to the queue.
Passed(c) == IF thread[c] = "msgsnd" THEN got[c] - 1 ELSE got[c]

\* msg and every later value of its client are still to come from the queue.
AheadOfQueue(msg) == /\ msg.no <= Passed(msg.from)
                     /\ \A i \in DOMAIN queue :
                          queue[i].from = msg.from => msg.no < queue[i].no

CountersInv == \A c \in Clients : /\ got[c] <= sent[c]
                                  /\ thread[c] = "msgsnd" => got[c] > 0
                                  /\ link[c] = "none" => sent[c] = 0

LinkInv == \A p \in Peers : peer[p] \in {"discover", "connect"} => link[p] = "none"

QueueInv == /\ \A i \in DOMAIN queue : queue[i].no <= Passed(queue[i].from)
            /\ \A i, j \in DOMAIN queue :
                 i < j /\ queue[i].from = queue[j].from => queue[i].no < queue[j].no

RbufInv == /\ \A m \in Managers : /\ thread[m] = "send" <=> rbuf[m] # NoMsg
                                  /\ rbuf[m] # NoMsg => AheadOfQueue(rbuf[m])
           /\ \A m, n \in Managers : rbuf[m] # NoMsg /\ rbuf[m] = rbuf[n] => m = n

OutInv == /\ \A m \in Managers : seen[m] <= Len(out[m])
          /\ \A m \in Managers : \A i \in DOMAIN out[m] :
               /\ AheadOfQueue(out[m][i])
               /\ \A n \in Managers : out[m][i] # rbuf[n]
               /\ rbuf[m] # NoMsg /\ out[m][i].from = rbuf[m].from
                    => out[m][i].no < rbuf[m].no

\* No value is in two stages of the relay, and later stages hold earlier values
\* (HandleTCPClient.c:43-64, HandleTCPManager.c:35-46): the induction hypothesis
\* of KursivayaProofs.
RelayInv == /\ TypeOK /\ LinkInv /\ CountersInv /\ QueueInv /\ RbufInv /\ OutInv
            /\ DeliveredOnce /\ SeenInOrder

-----------------------------------------------------------------------------
(* The relay implements its contract.                                      *)

Received(m) == [i \in 1 .. seen[m] |-> out[m][i]]

InFlight(m) == IF peer[m] = "dead" THEN {}
               ELSE {out[m][i] : i \in seen[m] + 1 .. Len(out[m])}

Pending == InServer \cup (UNION {Unread(c) : c \in Clients})
                    \cup (UNION {InFlight(m) : m \in Managers})

Contract == INSTANCE RelayContract WITH
              pending <- Pending,
              received <- [m \in Managers |-> Received(m)]

\* Values are handed over at most once, never invented, and each manager sees
\* each client's in order: every step of the relay is a step of RelayContract
\* (HandleTCPClient.c:19-66, HandleTCPManager.c:17-52).
ImplementsContract == Contract!Spec
=============================================================================
