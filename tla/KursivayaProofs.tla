--------------------------- MODULE KursivayaProofs ---------------------------
(***************************************************************************)
(* Theorems about the programs of C/kursivaya.  About Relay, for any sets  *)
(* of clients and managers, any queue capacity and any of the faults: no   *)
(* duplicates and no reordering, what takes the server down, how many      *)
(* values are lost, and that Relay implements RelayContract.  About        *)
(* FrameStream, for values of every length: what becomes of the frames of  *)
(* one connection.                                                         *)
(***************************************************************************)
EXTENDS Relay, FrameStream, SequenceTheorems, FiniteSetTheorems, TLAPS

-----------------------------------------------------------------------------
(* Types.                                                                  *)

\* Initially every variable has its type and no message exists anywhere.
LEMMA InitEstablishesInv == Init => RelayInv
  BY BoundsAssumption, ChoiceAssumption
  DEF Init, RelayInv, TypeOK, LinkInv, CountersInv, QueueInv, RbufInv, OutInv, DeliveredOnce, SeenInOrder,
      PeerPhase, LinkState, ClientPhase, Ports, Peers

\* Every step of every process preserves the types.  That a message is one
\* needs the rest of the invariant: a value is in sbuf, or in rbuf, when it is sent.
LEMMA TypeStep == RelayInv /\ [Next]_vars => TypeOK'
<1> SUFFICES ASSUME RelayInv, [Next]_vars PROVE TypeOK'
  OBVIOUS
<1>inv. TypeOK /\ CountersInv /\ RbufInv
  BY DEF RelayInv
<1> USE <1>inv, BoundsAssumption DEF TypeOK, Peers, PeerPhase, LinkState, ClientPhase, ManagerPhase, Ports,
        procVars, peerVars, upVars, msqVars, downVars
<1>die. Die => TypeOK'
  BY DEF Die
<1>1. ASSUME NEW port \in Ports, CreateTCPServerSocket(port) \/ BindFails(port) PROVE TypeOK'
  BY <1>1, <1>die DEF CreateTCPServerSocket, BindFails
<1>2. ASSUME NEW p \in Peers, UdpBroadcastSender(p) \/ AcceptTCPConnection(p) \/ Connect(p) \/ Leave(p)
      PROVE TypeOK'
  BY <1>2 DEF UdpBroadcastSender, AcceptTCPConnection, Connect, Leave
<1>3. ASSUME NEW c \in Clients, MsgGetClient(c) \/ RecvEnd(c) \/ RecvFails(c) \/ UnpackFails(c)
                                \/ DereferenceNull(c) \/ ClientSendFails(c) \/ Abort(c)
      PROVE TypeOK'
  BY <1>3, <1>die DEF MsgGetClient, RecvEnd, RecvFails, UnpackFails, DereferenceNull, ClientSendFails, Abort
<1>4. ASSUME NEW c \in Clients, ClientSend(c) \/ ClientSendLost(c) PROVE TypeOK'
  <2>1. sent[c] + 1 \in 0 .. MaxSend
    BY <1>4 DEF ClientSend, ClientSendLost
  <2>2. sent' = [sent EXCEPT ![c] = sent[c] + 1]
    BY <1>4 DEF ClientSend, ClientSendLost
  <2>3. sent' \in [Clients -> 0 .. MaxSend]
    BY <2>1, <2>2
  <2> QED BY <1>4, <2>3 DEF ClientSend, ClientSendLost
<1>5. ASSUME NEW c \in Clients, RecvValue(c) PROVE TypeOK'
  BY <1>5 DEF RecvValue
<1>6. ASSUME NEW c \in Clients, MsgSnd(c) PROVE TypeOK'
  <2>1. [from |-> c, no |-> got[c]] \in Message
    BY <1>6 DEF MsgSnd, Message, CountersInv
  <2>2. queue' \in Seq(Message)
    BY <1>6, <2>1 DEF MsgSnd
  <2> QED BY <1>6, <2>2 DEF MsgSnd
<1>7. ASSUME NEW m \in Managers, MsgGetManager(m) \/ MsgGetFails(m) \/ SendFails(m) \/ ManagerEnd(m)
      PROVE TypeOK'
  BY <1>7, <1>die DEF MsgGetManager, MsgGetFails, SendFails, ManagerEnd
<1>8. ASSUME NEW m \in Managers, MsgRcv(m) PROVE TypeOK'
  BY <1>8 DEF MsgRcv
<1>9. ASSUME NEW m \in Managers, SendValue(m) PROVE TypeOK'
  <2>1. rbuf[m] \in Message
    BY <1>9 DEF SendValue, RbufInv
  <2>2. Append(out[m], rbuf[m]) \in Seq(Message)
    BY <2>1
  <2>3. out' \in [Managers -> Seq(Message)]
    BY <1>9, <2>2 DEF SendValue
  <2> QED BY <1>9, <2>3 DEF SendValue
<1>10. ASSUME NEW m \in Managers, SendLost(m) PROVE TypeOK'
  BY <1>10 DEF SendLost
<1>11. ASSUME NEW m \in Managers, ManagerRecv(m) PROVE TypeOK'
  <2>1. seen' \in [Managers -> Nat]
    BY <1>11 DEF ManagerRecv
  <2> QED BY <1>11, <2>1 DEF ManagerRecv
<1>12. CASE Restart
  <2>1. starts + 1 \in 1 .. MaxStarts
    BY <1>12 DEF Restart
  <2> QED BY <1>12, <2>1 DEF Restart
<1>13. CASE Crash
  BY <1>13, <1>die DEF Crash
<1>14. CASE UNCHANGED vars
  BY <1>14 DEF vars
<1> QED
  BY <1>1, <1>2, <1>3, <1>4, <1>5, <1>6, <1>7, <1>8, <1>9, <1>10, <1>11, <1>12, <1>13, <1>14
  DEF Next, ServerThread, PeerProcess, Environment

\* A process that has yet to connect has no connection.
LEMMA LinkStep == RelayInv /\ [Next]_vars => LinkInv'
<1> SUFFICES ASSUME RelayInv, [Next]_vars PROVE LinkInv'
  OBVIOUS
<1>0. LinkInv /\ peer \in [Peers -> PeerPhase] /\ link \in [Peers -> LinkState]
  BY DEF RelayInv, TypeOK
<1> USE <1>0 DEF LinkInv, procVars, peerVars, upVars, msqVars, downVars
<1>die. Die => LinkInv'
  BY DEF Die
<1>1. ASSUME NEW port \in Ports, CreateTCPServerSocket(port) \/ BindFails(port) PROVE LinkInv'
  BY <1>1, <1>die DEF CreateTCPServerSocket, BindFails
<1>2. ASSUME NEW p \in Peers, UdpBroadcastSender(p) \/ AcceptTCPConnection(p) \/ Connect(p) \/ Leave(p)
      PROVE LinkInv'
  BY <1>2 DEF UdpBroadcastSender, AcceptTCPConnection, Connect, Leave
<1>3. ASSUME NEW c \in Clients, \/ MsgGetClient(c) \/ RecvValue(c) \/ RecvEnd(c) \/ RecvFails(c)
                                \/ UnpackFails(c) \/ DereferenceNull(c) \/ MsgSnd(c)
      PROVE LinkInv'
  BY <1>3, <1>die DEF MsgGetClient, RecvValue, RecvEnd, RecvFails, UnpackFails, DereferenceNull, MsgSnd
<1>4. ASSUME NEW c \in Clients, ClientSend(c) \/ ClientSendLost(c) \/ ClientSendFails(c) \/ Abort(c)
      PROVE LinkInv'
  BY <1>4 DEF ClientSend, ClientSendLost, ClientSendFails, Abort, Peers
<1>5. ASSUME NEW m \in Managers, \/ MsgGetManager(m) \/ MsgGetFails(m) \/ MsgRcv(m) \/ SendValue(m)
                                 \/ SendLost(m) \/ SendFails(m)
      PROVE LinkInv'
  BY <1>5, <1>die DEF MsgGetManager, MsgGetFails, MsgRcv, SendValue, SendLost, SendFails, Peers
<1>6. ASSUME NEW m \in Managers, ManagerRecv(m) \/ ManagerEnd(m) PROVE LinkInv'
  BY <1>6 DEF ManagerRecv, ManagerEnd, Peers
<1>7. Crash \/ Restart \/ UNCHANGED vars => LinkInv'
  BY <1>die DEF Crash, Restart, vars
<1> QED BY <1>1, <1>2, <1>3, <1>4, <1>5, <1>6, <1>7
        DEF Next, ServerThread, PeerProcess, Environment

-----------------------------------------------------------------------------
(* The order of a client's values along the relay.                         *)

\* The parts of the invariant that the types alone do not give.
OrderInv == CountersInv /\ QueueInv /\ RbufInv /\ OutInv /\ DeliveredOnce /\ SeenInOrder

\* A step that moves no value forward: it may drop what threads hold, and
\* clients may send and managers read.
Quiet ==
  /\ UNCHANGED <<got, queue, out>>
  /\ \A c \in Clients : /\ sent'[c] >= sent[c]
                        /\ thread'[c] = "msgsnd" => thread[c] = "msgsnd"
                        /\ link'[c] = "none" => link[c] = "none" /\ sent'[c] = sent[c]
  /\ \A m \in Managers : /\ rbuf'[m] \in {rbuf[m], NoMsg}
                         /\ thread'[m] = "send" <=> rbuf'[m] # NoMsg
                         /\ seen'[m] <= Len(out[m])

\* Whatever stays where it is stays in order.
LEMMA AheadKept ==
  ASSUME RelayInv, UNCHANGED <<got, queue>>,
         \A c \in Clients : thread'[c] = "msgsnd" => thread[c] = "msgsnd",
         NEW msg \in Message, AheadOfQueue(msg)
  PROVE  AheadOfQueue(msg)'
<1>1. got[msg.from] \in Nat
  BY DEF RelayInv, TypeOK, Message
<1>2. Passed(msg.from) \in Int /\ Passed(msg.from)' \in Int /\ Passed(msg.from) <= Passed(msg.from)'
  BY <1>1 DEF Passed, Message
<1>3. msg.no \in Int
  BY DEF Message
<1> QED BY <1>2, <1>3 DEF AheadOfQueue

\* A step that moves no message keeps the order of the messages.
LEMMA QuietStep == RelayInv /\ TypeOK' /\ Quiet => OrderInv'
<1> SUFFICES ASSUME RelayInv, TypeOK', Quiet PROVE OrderInv'
  OBVIOUS
<1> USE DEF Quiet
<1>1. CountersInv'
  BY DEF CountersInv, RelayInv, TypeOK
<1>2. QueueInv'
  <2>1. \A i \in DOMAIN queue : queue[i].no <= Passed(queue[i].from)'
    <3> SUFFICES ASSUME NEW i \in DOMAIN queue PROVE queue[i].no <= Passed(queue[i].from)'
      OBVIOUS
    <3>1. queue[i] \in Message
      BY DEF RelayInv, TypeOK
    <3>2. queue[i].no \in Int /\ got[queue[i].from] \in Int /\ queue[i].no <= Passed(queue[i].from)
      BY <3>1 DEF RelayInv, TypeOK, Message, QueueInv
    <3> QED BY <3>1, <3>2 DEF Passed, Message
  <2> QED BY <2>1 DEF QueueInv, RelayInv
<1>3. RbufInv'
  <2>1. ASSUME NEW m \in Managers, rbuf'[m] # NoMsg PROVE AheadOfQueue(rbuf[m])'
    <3>1. rbuf'[m] = rbuf[m] /\ rbuf[m] \in Message /\ AheadOfQueue(rbuf[m])
      BY <2>1 DEF RelayInv, RbufInv, TypeOK
    <3> QED BY <3>1, AheadKept
  <2> QED BY <2>1 DEF RbufInv, RelayInv
<1>4. OutInv'
  <2>1. ASSUME NEW m \in Managers, NEW i \in DOMAIN out[m]
        PROVE  AheadOfQueue(out[m][i])' /\ \A n \in Managers : out[m][i] # rbuf'[n]
    <3>1. out[m][i] \in Message /\ AheadOfQueue(out[m][i]) /\ \A n \in Managers : out[m][i] # rbuf[n]
      BY DEF RelayInv, OutInv, TypeOK
    <3>2. AheadOfQueue(out[m][i])'
      BY <3>1, AheadKept
    <3> QED BY <3>1, <3>2, NoMsgAssumption
  <2> QED BY <2>1 DEF OutInv, RelayInv
<1>5. DeliveredOnce' /\ SeenInOrder'
  BY DEF DeliveredOnce, SeenInOrder, RelayInv
<1> QED BY <1>1, <1>2, <1>3, <1>4, <1>5 DEF OrderInv

\* A value is read from the connection: it is later than all that was passed on.
LEMMA RecvValueStep ==
  ASSUME RelayInv, TypeOK', NEW c \in Clients, RecvValue(c)
  PROVE  OrderInv'
<1> USE DEF RecvValue, procVars, peerVars, msqVars, downVars
<1>0. c \in Peers /\ TypeOK /\ thread' \in [Peers -> ClientPhase \cup ManagerPhase]
  BY DEF Peers, RelayInv, TypeOK
<1>1. \A d \in Clients : Passed(d)' = Passed(d) /\ Passed(d) \in Int
  BY <1>0 DEF Passed, TypeOK, Peers
<1>2. \A msg \in Message : AheadOfQueue(msg)' <=> AheadOfQueue(msg)
  BY <1>1 DEF AheadOfQueue, Message
<1>3. \A m \in Managers : thread'[m] = thread[m]
  BY <1>0, PeersAssumption DEF Peers, TypeOK
<1>4. CountersInv'
  BY <1>0 DEF CountersInv, RelayInv, TypeOK, Peers
<1>5. QueueInv'
  <2>1. \A i \in DOMAIN queue : queue[i] \in Message
    BY <1>0 DEF TypeOK
  <2>2. \A i \in DOMAIN queue : Passed(queue[i].from)' = Passed(queue[i].from)
    BY <1>1, <2>1 DEF Message
  <2> QED BY <2>2 DEF QueueInv, RelayInv
<1>6. RbufInv'
  BY <1>0, <1>2, <1>3 DEF RbufInv, RelayInv, TypeOK
<1>7. OutInv'
  BY <1>0, <1>2 DEF OutInv, RelayInv, TypeOK
<1>8. DeliveredOnce' /\ SeenInOrder'
  BY DEF DeliveredOnce, SeenInOrder, RelayInv
<1> QED BY <1>4, <1>5, <1>6, <1>7, <1>8 DEF OrderInv

\* msgsnd: the value joins the queue behind all earlier values of its client.
LEMMA MsgSndStep ==
  ASSUME RelayInv, TypeOK', NEW c \in Clients, MsgSnd(c)
  PROVE  OrderInv'
<1> DEFINE new == [from |-> c, no |-> got[c]]
<1> USE DEF MsgSnd, procVars, peerVars, upVars, downVars
<1>0. c \in Peers /\ TypeOK
  BY DEF Peers, RelayInv, TypeOK
<1>1. new \in Message /\ new.from = c /\ new.no = got[c] /\ Passed(c) = got[c] - 1 /\ Passed(c)' = got[c]
  BY <1>0 DEF Message, RelayInv, CountersInv, TypeOK, Passed
<1>2. \A d \in Clients : Passed(d) \in Int /\ Passed(d)' \in Int /\ Passed(d) <= Passed(d)'
  BY <1>0 DEF Passed, TypeOK, Peers
<1>3. /\ DOMAIN queue = 1 .. Len(queue) /\ DOMAIN queue' = 1 .. Len(queue) + 1 /\ Len(queue) \in Nat
      /\ \A i \in 1 .. Len(queue) : queue'[i] = queue[i] /\ queue[i] \in Message
      /\ queue'[Len(queue) + 1] = new
  BY <1>0, <1>1 DEF TypeOK
<1>4. \A msg \in Message : AheadOfQueue(msg) => AheadOfQueue(msg)'
  <2> SUFFICES ASSUME NEW msg \in Message, AheadOfQueue(msg) PROVE AheadOfQueue(msg)'
    OBVIOUS
  <2>1. msg.no \in Nat /\ msg.from \in Clients /\ got[c] \in Nat
    BY <1>0 DEF Message, TypeOK
  <2>2. msg.no <= Passed(msg.from)'
    BY <1>2, <2>1 DEF AheadOfQueue
  <2>3. ASSUME NEW i \in DOMAIN queue', queue'[i].from = msg.from PROVE msg.no < queue'[i].no
    <3>1. CASE i \in DOMAIN queue
      BY <1>3, <2>3, <3>1 DEF AheadOfQueue
    <3>2. CASE i = Len(queue) + 1
      BY <1>1, <1>3, <2>1, <2>3, <3>2 DEF AheadOfQueue
    <3> QED BY <1>3, <3>1, <3>2
  <2> QED BY <2>2, <2>3 DEF AheadOfQueue
<1>5. \A m \in Managers : thread'[m] = thread[m]
  BY <1>0, PeersAssumption DEF Peers, TypeOK
<1>6. CountersInv'
  BY <1>0 DEF CountersInv, RelayInv, TypeOK, Peers
<1>7. QueueInv'
  <2>1. \A i \in 1 .. Len(queue) : queue[i].from \in Clients /\ queue[i].no \in Nat /\ got[c] \in Nat
    BY <1>0, <1>3 DEF Message, TypeOK
  <2>2. ASSUME NEW i \in DOMAIN queue' PROVE (queue[i].no <= Passed(queue[i].from))'
    <3>1. CASE i \in DOMAIN queue
      <4>1. queue[i].no <= Passed(queue[i].from) /\ queue[i].from \in Clients /\ queue'[i] = queue[i]
        BY <1>3, <2>1, <3>1 DEF RelayInv, QueueInv
      <4>2. PICK d \in Clients : d = queue[i].from
        BY <4>1
      <4>3. queue'[i].no = queue[i].no /\ queue'[i].from = d /\ queue[i].no \in Nat
        BY <1>3, <2>1, <3>1, <4>1, <4>2
      <4> QED BY <1>2, <4>1, <4>2, <4>3
    <3>2. CASE i = Len(queue) + 1
      BY <1>1, <1>3, <2>1, <3>2, <1>0 DEF TypeOK
    <3> QED BY <1>3, <3>1, <3>2
  <2>3. ASSUME NEW i \in DOMAIN queue', NEW j \in DOMAIN queue', i < j, queue'[i].from = queue'[j].from
        PROVE  queue'[i].no < queue'[j].no
    <3>1. i \in DOMAIN queue
      BY <1>3, <2>3
    <3>2. CASE j \in DOMAIN queue
      BY <1>3, <2>3, <3>1, <3>2 DEF RelayInv, QueueInv
    <3>3. CASE j = Len(queue) + 1
      <4>1. queue[i].no <= Passed(queue[i].from)
        BY <3>1 DEF RelayInv, QueueInv
      <4>2. queue[i].from = c
        BY <1>1, <1>3, <2>3, <3>1, <3>3
      <4> QED BY <1>1, <1>3, <2>1, <3>1, <3>3, <4>1, <4>2
    <3> QED BY <1>3, <3>2, <3>3
  <2> QED BY <2>2, <2>3 DEF QueueInv
<1>8. RbufInv'
  BY <1>0, <1>4, <1>5 DEF RbufInv, RelayInv, TypeOK
<1>9. OutInv'
  BY <1>0, <1>4 DEF OutInv, RelayInv, TypeOK
<1>10. DeliveredOnce' /\ SeenInOrder'
  BY DEF DeliveredOnce, SeenInOrder, RelayInv
<1> QED BY <1>6, <1>7, <1>8, <1>9, <1>10 DEF OrderInv

\* msgrcv: the head leaves the queue; it precedes what is left and follows all
\* that left before.
LEMMA MsgRcvStep ==
  ASSUME RelayInv, TypeOK', NEW m \in Managers, MsgRcv(m)
  PROVE  OrderInv'
<1> USE DEF MsgRcv, procVars, peerVars, upVars
<1>0. m \in Peers /\ TypeOK
  BY DEF Peers, RelayInv, TypeOK
<1>1. /\ Len(queue) \in Nat /\ Len(queue) > 0 /\ DOMAIN queue = 1 .. Len(queue)
      /\ DOMAIN queue' = 1 .. Len(queue) - 1
      /\ \A i \in DOMAIN queue' : queue'[i] = queue[i + 1] /\ i + 1 \in DOMAIN queue
      /\ \A i \in DOMAIN queue : queue[i] \in Message
      /\ 1 \in DOMAIN queue /\ Head(queue) = queue[1]
  BY <1>0 DEF TypeOK
<1>2. \A d \in Clients : Passed(d)' = Passed(d) /\ thread'[d] = thread[d]
  BY <1>0, PeersAssumption DEF Passed, TypeOK, Peers
<1>3. \A msg \in Message : AheadOfQueue(msg) => AheadOfQueue(msg)'
  BY <1>1, <1>2 DEF AheadOfQueue, Message
<1>h. PICK h \in Message : h = Head(queue)
  BY <1>1
<1>4. AheadOfQueue(h)'
  <2>1. h.no <= Passed(h.from)'
    <3>1. h.no <= Passed(h.from)
      BY <1>1, <1>h DEF RelayInv, QueueInv
    <3> QED BY <1>2, <3>1 DEF Message
  <2>2. ASSUME NEW i \in DOMAIN queue', queue'[i].from = h.from PROVE h.no < queue'[i].no
    <3>1. i + 1 \in DOMAIN queue /\ queue'[i] = queue[i + 1] /\ 1 < i + 1 /\ h = queue[1]
      BY <1>1, <1>h, <2>2
    <3> QED BY <1>1, <2>2, <3>1 DEF RelayInv, QueueInv
  <2> QED BY <2>1, <2>2 DEF AheadOfQueue
<1>5. /\ Head(queue) \in Message /\ Head(queue) # NoMsg
      /\ \A msg \in Message : AheadOfQueue(msg) => msg # Head(queue)
  BY <1>1, NoMsgAssumption DEF AheadOfQueue, Message
<1>6. CountersInv'
  BY <1>2 DEF CountersInv, RelayInv
<1>7. QueueInv'
  <2>1. ASSUME NEW i \in DOMAIN queue' PROVE (queue[i].no <= Passed(queue[i].from))'
    <3>1. PICK msg \in Message : msg = queue[i + 1]
      BY <1>1, <2>1
    <3>2. msg.no <= Passed(msg.from)
      BY <1>1, <2>1, <3>1 DEF QueueInv, RelayInv
    <3>3. msg.no <= Passed(msg.from)'
      BY <1>2, <3>2 DEF Message
    <3> QED BY <1>1, <2>1, <3>1, <3>3
  <2>2. \A i, j \in DOMAIN queue' :
          i < j /\ queue'[i].from = queue'[j].from => queue'[i].no < queue'[j].no
    BY <1>1 DEF QueueInv, RelayInv
  <2> QED BY <2>1, <2>2 DEF QueueInv
<1>8. RbufInv'
  <2>1. rbuf' = [rbuf EXCEPT ![m] = Head(queue)] /\ rbuf'[m] = Head(queue) /\ thread'[m] = "send"
    BY <1>0 DEF TypeOK
  <2>2. \A n \in Managers \ {m} : rbuf'[n] = rbuf[n] /\ thread'[n] = thread[n]
    BY <1>0 DEF TypeOK, Peers
  <2>3. ASSUME NEW n \in Managers
        PROVE  /\ thread'[n] = "send" <=> rbuf'[n] # NoMsg
               /\ rbuf'[n] # NoMsg => AheadOfQueue(rbuf[n])'
    <3>1. CASE n = m
      BY <1>4, <1>5, <1>h, <2>1, <3>1
    <3>2. CASE n # m /\ rbuf[n] # NoMsg
      <4>1. PICK msg \in Message : msg = rbuf[n]
        BY <1>0, <3>2 DEF TypeOK
      <4>2. AheadOfQueue(msg)'
        BY <1>3, <3>2, <4>1 DEF RbufInv, RelayInv
      <4> QED BY <2>2, <3>2, <4>1, <4>2 DEF RbufInv, RelayInv
    <3>3. CASE n # m /\ rbuf[n] = NoMsg
      BY <2>2, <3>3 DEF RbufInv, RelayInv
    <3> QED BY <3>1, <3>2, <3>3
  <2>4. \A n \in Managers \ {m} : rbuf[n] # Head(queue)
    BY <1>0, <1>5 DEF RbufInv, RelayInv, TypeOK
  <2>5. \A n, l \in Managers : rbuf'[n] # NoMsg /\ rbuf'[n] = rbuf'[l] => n = l
    BY <2>1, <2>2, <2>4 DEF RbufInv, RelayInv
  <2> QED BY <2>3, <2>5 DEF RbufInv
<1>9. OutInv'
  <2>1. ASSUME NEW n \in Managers, NEW i \in DOMAIN out[n]
        PROVE  /\ AheadOfQueue(out[n][i])'
               /\ \A l \in Managers : out[n][i] # rbuf'[l]
               /\ rbuf'[n] # NoMsg /\ out[n][i].from = rbuf'[n].from => out[n][i].no < rbuf'[n].no
    <3>1. out[n][i] \in Message /\ AheadOfQueue(out[n][i])
      BY <1>0 DEF OutInv, RelayInv, TypeOK
    <3>2. AheadOfQueue(out[n][i])' /\ out[n][i] # Head(queue)
      BY <1>3, <1>5, <3>1
    <3>3. \A l \in Managers : out[n][i] # rbuf'[l]
      BY <1>0, <3>2 DEF OutInv, RelayInv, TypeOK
    <3>4. out[n][i].from = Head(queue).from => out[n][i].no < Head(queue).no
      BY <1>1, <3>1 DEF AheadOfQueue
    <3> QED BY <1>0, <3>2, <3>3, <3>4 DEF OutInv, RelayInv, TypeOK
  <2> QED BY <2>1 DEF OutInv, RelayInv
<1>10. DeliveredOnce' /\ SeenInOrder'
  BY DEF DeliveredOnce, SeenInOrder, RelayInv
<1> QED BY <1>6, <1>7, <1>8, <1>9, <1>10 DEF OrderInv

\* send: the message moves from rbuf to the end of the manager's stream.
LEMMA SendValueStep ==
  ASSUME RelayInv, TypeOK', NEW m \in Managers, SendValue(m)
  PROVE  OrderInv'
<1> USE DEF SendValue, procVars, peerVars, upVars, msqVars
<1>0. m \in Peers /\ TypeOK
  BY DEF Peers, RelayInv, TypeOK
<1>msg. PICK msg \in Message : msg = rbuf[m]
  BY <1>0 DEF RelayInv, RbufInv, TypeOK
<1>1. msg # NoMsg /\ AheadOfQueue(msg)
  BY <1>msg, NoMsgAssumption DEF RelayInv, RbufInv
<1>2. \A d \in Clients : Passed(d)' = Passed(d) /\ thread'[d] = thread[d]
  BY <1>0, PeersAssumption DEF Passed, TypeOK, Peers
<1>3. \A x \in Message : AheadOfQueue(x) <=> AheadOfQueue(x)'
  BY <1>2 DEF AheadOfQueue, Message
<1>4. /\ \A n \in Managers : DOMAIN out[n] = 1 .. Len(out[n]) /\ Len(out[n]) \in Nat
      /\ DOMAIN out'[m] = 1 .. Len(out[m]) + 1 /\ Len(out'[m]) = Len(out[m]) + 1
      /\ out'[m][Len(out[m]) + 1] = msg
      /\ \A i \in DOMAIN out[m] : out'[m][i] = out[m][i]
      /\ \A n \in Managers \ {m} : out'[n] = out[n] /\ rbuf'[n] = rbuf[n] /\ thread'[n] = thread[n]
      /\ rbuf'[m] = NoMsg /\ thread'[m] = "msgget"
  BY <1>0, <1>msg DEF TypeOK, Peers
<1>5. \A n \in Managers : \A i \in DOMAIN out[n] : out[n][i] \in Message /\ out[n][i] # msg
  BY <1>0, <1>msg DEF RelayInv, OutInv, TypeOK
<1>6. \A n \in Managers : \A i \in DOMAIN out'[n] :
        \/ i \in DOMAIN out[n] /\ out'[n][i] = out[n][i]
        \/ n = m /\ i = Len(out[m]) + 1 /\ out'[n][i] = msg
  BY <1>4
<1>7. CountersInv' /\ QueueInv'
  <2>1. \A i \in DOMAIN queue : queue[i] \in Message
    BY <1>0 DEF TypeOK
  <2>2. \A i \in DOMAIN queue : queue[i].from \in Clients
    BY <2>1 DEF Message
  <2> QED BY <1>2, <2>2 DEF CountersInv, QueueInv, RelayInv
<1>8. RbufInv'
  <2>1. ASSUME NEW n \in Managers, rbuf'[n] # NoMsg PROVE AheadOfQueue(rbuf[n])'
    <3>1. n # m /\ rbuf[n] # NoMsg /\ rbuf'[n] = rbuf[n]
      BY <1>4, <2>1
    <3>2. PICK x \in Message : x = rbuf[n]
      BY <1>0, <3>1 DEF TypeOK
    <3>3. AheadOfQueue(x)'
      BY <1>3, <3>1, <3>2 DEF RbufInv, RelayInv
    <3> QED BY <3>1, <3>2, <3>3
  <2>2. \A n \in Managers : thread'[n] = "send" <=> rbuf'[n] # NoMsg
    BY <1>4 DEF RbufInv, RelayInv
  <2>3. \A n, l \in Managers : rbuf'[n] # NoMsg /\ rbuf'[n] = rbuf'[l] => n = l
    BY <1>4 DEF RbufInv, RelayInv
  <2> QED BY <2>1, <2>2, <2>3 DEF RbufInv
<1>9. OutInv'
  <2>1. \A n \in Managers : seen'[n] <= Len(out'[n])
    BY <1>0, <1>4 DEF OutInv, RelayInv, TypeOK
  <2>2. ASSUME NEW n \in Managers, NEW i \in DOMAIN out'[n]
        PROVE  /\ AheadOfQueue(out[n][i])'
               /\ \A l \in Managers : out'[n][i] # rbuf'[l]
               /\ rbuf'[n] # NoMsg /\ out'[n][i].from = rbuf'[n].from => out'[n][i].no < rbuf'[n].no
    <3>1. CASE i \in DOMAIN out[n] /\ out'[n][i] = out[n][i]
      <4>1. PICK x \in Message : x = out[n][i]
        BY <1>5, <3>1
      <4>2. AheadOfQueue(x)'
        BY <1>3, <3>1, <4>1 DEF OutInv, RelayInv
      <4>3. \A l \in Managers : x # rbuf'[l]
        BY <1>4, <3>1, <4>1, NoMsgAssumption DEF OutInv, RelayInv
      <4> QED BY <1>4, <3>1, <4>1, <4>2, <4>3 DEF OutInv, RelayInv
    <3>2. CASE n = m /\ out'[n][i] = msg
      <4>1. \A l \in Managers \ {m} : rbuf[l] # msg
        BY <1>1, <1>msg DEF RbufInv, RelayInv
      <4> QED BY <1>1, <1>3, <1>4, <3>2, <4>1
    <3> QED BY <1>6, <3>1, <3>2
  <2> QED BY <2>1, <2>2 DEF OutInv
<1>10. DeliveredOnce'
  <2>1. ASSUME NEW n \in Managers, NEW l \in Managers, NEW i \in DOMAIN out'[n], NEW j \in DOMAIN out'[l],
               out'[n][i] = out'[l][j]
        PROVE  n = l /\ i = j
    <3>1. CASE i \in DOMAIN out[n] /\ out'[n][i] = out[n][i]
      BY <1>5, <1>6, <2>1, <3>1 DEF DeliveredOnce, RelayInv
    <3>2. CASE n = m /\ i = Len(out[m]) + 1 /\ out'[n][i] = msg
      BY <1>5, <1>6, <2>1, <3>2
    <3> QED BY <1>6, <3>1, <3>2
  <2> QED BY <2>1 DEF DeliveredOnce
<1>11. SeenInOrder'
  <2>1. ASSUME NEW n \in Managers, NEW i \in DOMAIN out'[n], NEW j \in DOMAIN out'[n],
               i < j, out'[n][i].from = out'[n][j].from
        PROVE  out'[n][i].no < out'[n][j].no
    <3>1. i \in DOMAIN out[n] /\ out'[n][i] = out[n][i]
      BY <1>4, <1>6, <2>1
    <3>2. CASE j \in DOMAIN out[n] /\ out'[n][j] = out[n][j]
      BY <2>1, <3>1, <3>2 DEF SeenInOrder, RelayInv
    <3>3. CASE n = m /\ out'[n][j] = msg
      BY <1>1, <1>msg, <2>1, <3>1, <3>3 DEF OutInv, RelayInv
    <3> QED BY <1>6, <3>2, <3>3
  <2> QED BY <2>1 DEF SeenInOrder
<1> QED BY <1>7, <1>8, <1>9, <1>10, <1>11 DEF OrderInv

-----------------------------------------------------------------------------
(* The invariant and what follows from it.                                 *)

\* Every step keeps the order of the messages.
LEMMA OrderStep == RelayInv /\ TypeOK' /\ [Next]_vars => OrderInv'
<1> SUFFICES ASSUME RelayInv, TypeOK', [Next]_vars PROVE OrderInv'
  OBVIOUS
<1>0. /\ TypeOK /\ \A m \in Managers : thread[m] = "send" <=> rbuf[m] # NoMsg
      /\ \A m \in Managers : seen[m] <= Len(out[m]) /\ seen[m] \in Nat /\ Len(out[m]) \in Nat
      /\ \A c \in Clients : sent[c] \in Nat
  BY DEF RelayInv, RbufInv, OutInv, TypeOK
<1> USE DEF procVars, peerVars, upVars, msqVars, downVars
<1> DEFINE NotUndone == \A c \in Clients : link'[c] = "none" => link[c] = "none"
<1>1. (UNCHANGED <<upVars, thread, queue, rbuf, out, seen>>) /\ NotUndone => Quiet
  BY <1>0 DEF Quiet
<1>2. Die => Quiet
  BY <1>0 DEF Quiet, Die, Peers, TypeOK
<1>3. ASSUME NEW p \in Peers, thread[p] \notin {"msgsnd", "send"}, NEW phase, phase \notin {"msgsnd", "send"},
             thread' = [thread EXCEPT ![p] = phase], UNCHANGED <<link, upVars, queue, downVars>>
      PROVE  Quiet
  BY <1>0, <1>3 DEF Quiet, TypeOK
<1>4. ASSUME NEW port \in Ports, CreateTCPServerSocket(port) \/ BindFails(port) PROVE Quiet
  BY <1>1, <1>2, <1>4 DEF CreateTCPServerSocket, BindFails
<1>5. ASSUME NEW p \in Peers, UdpBroadcastSender(p) \/ Connect(p) \/ Leave(p) PROVE Quiet
  <2>1. NotUndone
    BY <1>0, <1>5 DEF UdpBroadcastSender, Connect, Leave, TypeOK, Peers
  <2> HIDE DEF NotUndone
  <2> QED BY <1>1, <1>5, <2>1 DEF UdpBroadcastSender, Connect, Leave
<1>6. ASSUME NEW p \in Peers, AcceptTCPConnection(p) PROVE Quiet
  BY <1>3, <1>6 DEF AcceptTCPConnection
<1>7. ASSUME NEW c \in Clients, MsgGetClient(c) \/ RecvEnd(c) \/ UnpackFails(c) PROVE Quiet
  BY <1>3, <1>7 DEF MsgGetClient, RecvEnd, UnpackFails, Peers
<1>8. ASSUME NEW c \in Clients, RecvFails(c) \/ DereferenceNull(c) \/ ClientSendFails(c) \/ Abort(c) PROVE Quiet
  <2>1. CASE RecvFails(c) \/ DereferenceNull(c)
    BY <1>2, <2>1 DEF RecvFails, DereferenceNull
  <2>2. CASE ClientSendFails(c) \/ Abort(c)
    <3>1. NotUndone
      BY <1>0, <2>2 DEF ClientSendFails, Abort, TypeOK, Peers
    <3> HIDE DEF NotUndone
    <3> QED BY <1>1, <2>2, <3>1 DEF ClientSendFails, Abort
  <2> QED BY <1>8, <2>1, <2>2
<1>9. ASSUME NEW c \in Clients, ClientSend(c) \/ ClientSendLost(c) PROVE Quiet
  <2>1. /\ sent' = [sent EXCEPT ![c] = sent[c] + 1]
        /\ UNCHANGED <<got, thread, queue, rbuf, out, seen>>
    BY <1>9 DEF ClientSend, ClientSendLost
  <2>2. \A d \in Clients : sent'[d] >= sent[d]
    <3>1. sent \in [Clients -> Int]
      BY <1>0 DEF TypeOK
    <3> QED BY <1>0, <2>1, <3>1
  <2>3. \A d \in Clients : link'[d] = "none" => link[d] = "none" /\ d # c
    BY <1>0, <1>9 DEF ClientSend, ClientSendLost, TypeOK, Peers
  <2>4. \A d \in Clients : d # c => sent'[d] = sent[d]
    BY <1>0, <2>1 DEF TypeOK
  <2> QED BY <1>0, <2>1, <2>2, <2>3, <2>4 DEF Quiet
<1>10. ASSUME NEW m \in Managers, MsgGetManager(m) PROVE Quiet
  BY <1>3, <1>10 DEF MsgGetManager, Peers
<1>11. ASSUME NEW m \in Managers, MsgGetFails(m) \/ SendFails(m) \/ ManagerEnd(m) PROVE Quiet
  BY <1>1, <1>2, <1>11 DEF MsgGetFails, SendFails, ManagerEnd
<1>12. ASSUME NEW m \in Managers, SendLost(m) PROVE Quiet
  BY <1>0, <1>12 DEF SendLost, Quiet, TypeOK, Peers
<1>13. ASSUME NEW m \in Managers, ManagerRecv(m) PROVE Quiet
  BY <1>0, <1>13 DEF ManagerRecv, Quiet, TypeOK
<1>14. Crash \/ Restart \/ UNCHANGED vars => Quiet
  BY <1>1, <1>2 DEF Crash, Restart, vars
<1> QED
  BY <1>4, <1>5, <1>6, <1>7, <1>8, <1>9, <1>10, <1>11, <1>12, <1>13, <1>14,
     QuietStep, RecvValueStep, MsgSndStep, MsgRcvStep, SendValueStep
  DEF Next, ServerThread, PeerProcess, Environment

\* A client's values are in order all the way along the relay, and in one
\* place each, in every reachable state.
THEOREM RelayInvariant == Spec => []RelayInv
<1>1. RelayInv /\ [Next]_vars => RelayInv'
  BY TypeStep, LinkStep, OrderStep DEF OrderInv, RelayInv
<1> QED BY <1>1, InitEstablishesInv, PTL DEF Spec

\* Every variable of the relay keeps its type.
THEOREM TypeCorrect == Spec => []TypeOK
<1>1. RelayInv => TypeOK
  BY DEF RelayInv
<1> QED BY <1>1, RelayInvariant, PTL

\* No value reaches two managers, or one manager twice.
THEOREM AtMostOnce == Spec => []DeliveredOnce
<1>1. RelayInv => DeliveredOnce
  BY DEF RelayInv
<1> QED BY <1>1, RelayInvariant, PTL

\* Each manager is sent each client's values in order.
THEOREM InOrder == Spec => []SeenInOrder
<1>1. RelayInv => SeenInOrder
  BY DEF RelayInv
<1> QED BY <1>1, RelayInvariant, PTL

-----------------------------------------------------------------------------
(* What takes the server down, when nobody kills it or resets connections. *)

\* A failing connection has a cause: the network, or a manager that left.
FailureInv == /\ \A p \in Peers : link[p] = "aborted" => "abort" \in Faults
              /\ \A m \in Managers : link[m] \in {"fin", "reset"} => peer[m] = "dead"

\* Only the network aborts a connection; a manager's is closed by its departure.
LEMMA FailureStep == TypeOK /\ FailureInv /\ [Next]_vars => FailureInv'
<1> SUFFICES ASSUME TypeOK, FailureInv, [Next]_vars PROVE FailureInv'
  OBVIOUS
<1>0. peer \in [Peers -> PeerPhase] /\ link \in [Peers -> LinkState]
  BY DEF TypeOK
<1> USE <1>0, PeersAssumption DEF FailureInv, Peers, procVars, peerVars, upVars, msqVars, downVars
<1>die. Die => FailureInv'
  BY DEF Die
<1>1. ASSUME NEW port \in Ports, CreateTCPServerSocket(port) \/ BindFails(port) PROVE FailureInv'
  BY <1>1, <1>die DEF CreateTCPServerSocket, BindFails
<1>2. ASSUME NEW p \in Peers, UdpBroadcastSender(p) \/ AcceptTCPConnection(p) PROVE FailureInv'
  BY <1>2 DEF UdpBroadcastSender, AcceptTCPConnection
<1>3. ASSUME NEW p \in Peers, Connect(p) PROVE FailureInv'
  BY <1>3 DEF Connect
<1>4. ASSUME NEW p \in Peers, Leave(p) PROVE FailureInv'
  BY <1>4 DEF Leave
<1>5. ASSUME NEW c \in Clients, \/ MsgGetClient(c) \/ RecvValue(c) \/ RecvEnd(c) \/ RecvFails(c)
                                \/ UnpackFails(c) \/ DereferenceNull(c) \/ MsgSnd(c)
      PROVE FailureInv'
  BY <1>5, <1>die DEF MsgGetClient, RecvValue, RecvEnd, RecvFails, UnpackFails, DereferenceNull, MsgSnd
<1>6. ASSUME NEW c \in Clients, ClientSend(c) \/ ClientSendLost(c) \/ ClientSendFails(c) \/ Abort(c)
      PROVE FailureInv'
  BY <1>6 DEF ClientSend, ClientSendLost, ClientSendFails, Abort
<1>7. ASSUME NEW m \in Managers, \/ MsgGetManager(m) \/ MsgGetFails(m) \/ MsgRcv(m) \/ SendValue(m) \/ SendFails(m)
      PROVE FailureInv'
  BY <1>7, <1>die DEF MsgGetManager, MsgGetFails, MsgRcv, SendValue, SendFails
<1>8. ASSUME NEW m \in Managers, SendLost(m) \/ ManagerRecv(m) \/ ManagerEnd(m) PROVE FailureInv'
  BY <1>8 DEF SendLost, ManagerRecv, ManagerEnd
<1>9. Crash \/ Restart \/ UNCHANGED vars => FailureInv'
  BY <1>die DEF Crash, Restart, vars
<1> QED BY <1>1, <1>2, <1>3, <1>4, <1>5, <1>6, <1>7, <1>8, <1>9
        DEF Next, ServerThread, PeerProcess, Environment

\* Whatever clients and managers do, the server goes down only when a manager
\* finds no queue, when one has left, or through the NULL of a failed unpack.
THEOREM StopsAreCaused ==
  ASSUME Faults \subseteq {"leave", "unpack"}
  PROVE  Spec => StopsHaveCauses
<1>1. Init => FailureInv
  BY DEF Init, FailureInv, Peers
<1>2. TypeOK /\ FailureInv /\ [Next]_vars
        => [server = "up" /\ server' = "down"
             => \/ ~created
                \/ \E m \in Managers : peer[m] = "dead" /\ thread[m] = "send"
                \/ \E c \in Clients : thread[c] = "null"]_vars
  <2> SUFFICES ASSUME FailureInv, [Next]_vars, server = "up", server' = "down"
               PROVE  \/ ~created
                      \/ \E m \in Managers : peer[m] = "dead" /\ thread[m] = "send"
                      \/ \E c \in Clients : thread[c] = "null"
    OBVIOUS
  <2> USE DEF procVars
  <2>1. \/ \E c \in Clients : RecvFails(c) \/ DereferenceNull(c)
        \/ \E m \in Managers : MsgGetFails(m) \/ SendFails(m)
        \/ Crash \/ \E port \in Ports : BindFails(port)
    <3>1. ASSUME NEW p \in Peers, UdpBroadcastSender(p) \/ AcceptTCPConnection(p) \/ Connect(p) \/ Leave(p)
          PROVE FALSE
      BY <3>1 DEF UdpBroadcastSender, AcceptTCPConnection, Connect, Leave
    <3>2. ASSUME NEW c \in Clients, MsgGetClient(c) \/ RecvValue(c) \/ RecvEnd(c) \/ UnpackFails(c) \/ MsgSnd(c)
                                    \/ ClientSend(c) \/ ClientSendLost(c) \/ ClientSendFails(c) \/ Abort(c)
          PROVE FALSE
      BY <3>2 DEF MsgGetClient, RecvValue, RecvEnd, UnpackFails, MsgSnd, ClientSend, ClientSendLost, ClientSendFails, Abort
    <3>3. ASSUME NEW m \in Managers, MsgGetManager(m) \/ MsgRcv(m) \/ SendValue(m) \/ SendLost(m)
                                     \/ ManagerRecv(m) \/ ManagerEnd(m)
          PROVE FALSE
      BY <3>3 DEF MsgGetManager, MsgRcv, SendValue, SendLost, ManagerRecv, ManagerEnd
    <3>4. Restart \/ (UNCHANGED vars) \/ (\E port \in Ports : CreateTCPServerSocket(port)) => FALSE
      BY DEF Restart, vars, CreateTCPServerSocket
    <3> QED BY <3>1, <3>2, <3>3, <3>4 DEF Next, ServerThread, PeerProcess, Environment
  <2>2. ~ Crash /\ \A port \in Ports : ~ BindFails(port)
    BY DEF Crash, BindFails
  <2>3. \A c \in Clients : ~ RecvFails(c)
    BY DEF RecvFails, FailureInv, Peers
  <2> QED BY <2>1, <2>2, <2>3 DEF MsgGetFails, SendFails, DereferenceNull, FailureInv
<1> QED BY <1>1, <1>2, FailureStep, TypeCorrect, PTL DEF Spec, StopsHaveCauses

-----------------------------------------------------------------------------
(* How many values can be lost.                                            *)

\* A thread works on a connection that is still there.
ThreadLinkInv ==
  /\ \A c \in Clients : thread[c] # "none" => link[c] \in {"open", "fin", "aborted"}
  /\ \A m \in Managers : thread[m] # "none" => link[m] \in {"open", "fin", "aborted", "reset"}

\* A connection can be blamed for a first value once it is broken, and for a second one if
\* it was a departed manager's and has gone with the server.
Tokens == Peers \X {1, 2}

Used == {t \in Tokens :
           \/ t[2] = 1 /\ link[t[1]] \in {"reset", "gone"}
           \/ t[2] = 2 /\ t[1] \in Managers /\ link[t[1]] = "gone" /\ peer[t[1]] = "dead"}

\* Every lost value has something to blame.
LossInv == \E blame \in [Tokens -> Message \cup {NoMsg}] : \A v \in Lost : \E t \in Used : blame[t] = v

\* The stages of the relay in which a value is known of.
Traced(x) ==
  \/ \E c \in Clients : thread[c] = "msgsnd" /\ x = [from |-> c, no |-> got[c]]
  \/ \E i \in DOMAIN queue : x = queue[i]
  \/ \E m \in Managers : x = rbuf[m] /\ x # NoMsg
  \/ \E m \in Managers : \E i \in DOMAIN out[m] : x = out[m][i]

LEMMA LostIsUntraced ==
  \A v : v \in Lost <=> v \in Message /\ v.no <= MaxSend /\ v.no <= got[v.from] /\ ~ Traced(v)
<1> SUFFICES ASSUME NEW v
             PROVE  v \in Lost <=> v \in Message /\ v.no <= MaxSend /\ v.no <= got[v.from] /\ ~ Traced(v)
  OBVIOUS
<1>1. v \in UNION {Held(c) : c \in Clients}
        <=> \E c \in Clients : thread[c] = "msgsnd" /\ v = [from |-> c, no |-> got[c]]
  BY DEF Held
<1>2. v \in Queued <=> \E i \in DOMAIN queue : v = queue[i]
  BY DEF Queued
<1>3. v \in Taken <=> \E m \in Managers : v = rbuf[m] /\ v # NoMsg
  BY DEF Taken
<1>4. \A m \in Managers : v \in Written(m) <=> \E i \in DOMAIN out[m] : v = out[m][i]
  BY DEF Written
<1>5. v \in InServer <=> v \in UNION {Held(c) : c \in Clients} \/ v \in Queued \/ v \in Taken
  BY Zenon DEF InServer
<1>6. v \in {[from |-> c, no |-> n] : c \in Clients, n \in 1 .. MaxSend} <=> v \in Message /\ v.no <= MaxSend
  BY BoundsAssumption DEF Message
<1>7. Traced(v) <=> v \in InServer \/ \E m \in Managers : v \in Written(m)
  BY <1>1, <1>2, <1>3, <1>4, <1>5, Zenon DEF Traced
<1> QED BY <1>6, <1>7 DEF Lost

LEMMA LostIsUntracedNext ==
  (\A v : v \in Lost <=> v \in Message /\ v.no <= MaxSend /\ v.no <= got[v.from] /\ ~ Traced(v))'
  BY LostIsUntraced, PTL

\* Where a step loses what tokens it takes can be blamed for, everything has its blame.
LEMMA BlameStep ==
  ASSUME LossInv, Used \subseteq Used',
         NEW fresh \in [Tokens -> Message \cup {NoMsg}],
         \A v \in Lost' : v \in Lost \/ \E t \in Used' \ Used : fresh[t] = v
  PROVE  LossInv'
<1>1. PICK blame \in [Tokens -> Message \cup {NoMsg}] : \A v \in Lost : \E t \in Used : blame[t] = v
  BY DEF LossInv
<1> DEFINE both == [t \in Tokens |-> IF t \in Used THEN blame[t] ELSE fresh[t]]
<1>2. both \in [Tokens -> Message \cup {NoMsg}]
  BY <1>1
<1>3. Used' \subseteq Tokens
  BY DEF Used
<1>4. \A v \in Lost' : \E t \in Used' : both[t] = v
  BY <1>1, <1>3
<1> HIDE DEF both
<1> QED BY <1>2, <1>4 DEF LossInv

\* A step that loses nothing.
LEMMA NoLoss ==
  ASSUME LossInv, Used \subseteq Used', UNCHANGED got, \A v \in Message : Traced(v) => Traced(v)'
  PROVE  LossInv'
<1>1. Lost' \subseteq Lost
  BY LostIsUntraced, LostIsUntracedNext
<1>2. [t \in Tokens |-> NoMsg] \in [Tokens -> Message \cup {NoMsg}]
  OBVIOUS
<1> QED BY <1>1, <1>2, BlameStep

\* The end of the server loses what its threads hold: one value for each connection.
LEMMA DieLoss == RelayInv /\ FailureInv /\ ThreadLinkInv /\ LossInv /\ Die => LossInv'
<1> SUFFICES ASSUME RelayInv, FailureInv, ThreadLinkInv, LossInv, Die PROVE LossInv'
  OBVIOUS
<1> USE DEF Die, upVars, msqVars
<1>0. TypeOK /\ \A m \in Managers : thread[m] = "send" <=> rbuf[m] # NoMsg
  BY DEF RelayInv, RbufInv
<1> DEFINE fresh == [t \in Tokens |->
             IF t[1] \in Managers THEN rbuf[t[1]]
             ELSE IF thread[t[1]] = "msgsnd" THEN [from |-> t[1], no |-> got[t[1]]] ELSE NoMsg]
<1>1. \A c \in Clients : thread[c] = "msgsnd" => [from |-> c, no |-> got[c]] \in Message
  BY DEF RelayInv, TypeOK, CountersInv, Message
<1>2. fresh \in [Tokens -> Message \cup {NoMsg}]
  <2> SUFFICES ASSUME NEW t \in Tokens PROVE fresh[t] \in Message \cup {NoMsg}
    OBVIOUS
  <2>1. t[1] \in Clients \cup Managers
    BY DEF Tokens, Peers
  <2> QED BY <1>0, <1>1, <2>1 DEF TypeOK
<1>3. Used \subseteq Used'
  BY DEF Used, Tokens
<1>4. ASSUME NEW c \in Clients, thread[c] = "msgsnd"
      PROVE  <<c, 1>> \in Used' \ Used /\ fresh[<<c, 1>>] = [from |-> c, no |-> got[c]]
  <2>1. <<c, 1>> \in Tokens /\ link[c] \in {"open", "fin", "aborted"} /\ link'[c] = "gone"
    BY <1>0, <1>4 DEF Tokens, Peers, ThreadLinkInv
  <2> QED BY <1>4, <2>1, PeersAssumption DEF Used
<1>5. ASSUME NEW m \in Managers, rbuf[m] # NoMsg
      PROVE  \E t \in Used' \ Used : fresh[t] = rbuf[m]
  <2>1. /\ <<m, 1>> \in Tokens /\ <<m, 2>> \in Tokens /\ link'[m] = "gone" /\ peer'[m] = peer[m]
        /\ link[m] \in {"open", "fin", "aborted", "reset"}
    BY <1>0, <1>5 DEF Tokens, Peers, ThreadLinkInv
  <2>2. fresh[<<m, 1>>] = rbuf[m] /\ fresh[<<m, 2>>] = rbuf[m]
    BY <2>1
  <2>3. CASE link[m] # "reset"
    <3>1. <<m, 1>> \in Used' \ Used
      BY <2>1, <2>3 DEF Used
    <3> QED BY <2>2, <3>1
  <2>4. CASE link[m] = "reset"
    <3>1. <<m, 2>> \in Used' \ Used
      BY <2>1, <2>4 DEF Used, FailureInv
    <3> QED BY <2>2, <3>1
  <2> QED BY <2>3, <2>4
<1> HIDE DEF fresh
<1>6. ASSUME NEW v \in Lost' PROVE v \in Lost \/ \E t \in Used' \ Used : fresh[t] = v
  <2>1. v \in Message /\ v.no <= MaxSend /\ v.no <= got[v.from] /\ ~ Traced(v)'
    BY LostIsUntracedNext
  <2>2. CASE ~ Traced(v)
    BY <2>1, <2>2, LostIsUntraced
  <2>3. CASE Traced(v)
    <3>1. \/ \E c \in Clients : thread[c] = "msgsnd" /\ v = [from |-> c, no |-> got[c]]
          \/ \E m \in Managers : v = rbuf[m] /\ v # NoMsg
      BY <2>1, <2>3 DEF Traced
    <3> QED BY <1>4, <1>5, <3>1
  <2> QED BY <2>2, <2>3
<1> QED BY <1>2, <1>3, <1>6, BlameStep

\* A value sent to a departed manager is the one its reset connection is to blame for.
LEMMA SendLostLoss ==
  ASSUME RelayInv, LossInv, NEW m \in Managers, SendLost(m)
  PROVE  LossInv'
<1> USE DEF SendLost, procVars, upVars, msqVars
<1>0. TypeOK /\ m \in Peers /\ <<m, 1>> \in Tokens
  BY DEF RelayInv, Peers, Tokens
<1> DEFINE fresh == [t \in Tokens |-> rbuf[m]]
<1>1. fresh \in [Tokens -> Message \cup {NoMsg}]
  BY <1>0 DEF TypeOK
<1>2. link' = [link EXCEPT ![m] = "reset"] /\ link \in [Peers -> LinkState] /\ link[m] = "fin" /\ peer' = peer
  BY <1>0 DEF TypeOK
<1>3. <<m, 1>> \in Used' \ Used /\ Used \subseteq Used'
  BY <1>0, <1>2 DEF Used, Tokens
<1>4. ASSUME NEW v \in Lost' PROVE v \in Lost \/ v = rbuf[m]
  <2>1. v \in Message /\ v.no <= MaxSend /\ v.no <= got[v.from] /\ ~ Traced(v)'
    BY LostIsUntracedNext
  <2>2. CASE ~ Traced(v)
    BY <2>1, <2>2, LostIsUntraced
  <2>3. CASE Traced(v)
    <3>1. \A n \in Managers : n # m => rbuf'[n] = rbuf[n]
      BY <1>0 DEF TypeOK
    <3>2. \A c \in Clients : thread'[c] = thread[c]
      BY <1>0, PeersAssumption DEF TypeOK, Peers
    <3> QED BY <2>1, <2>3, <3>1, <3>2 DEF Traced
  <2> QED BY <2>2, <2>3
<1>5. fresh[<<m, 1>>] = rbuf[m]
  BY <1>0
<1> HIDE DEF fresh
<1> QED BY <1>1, <1>3, <1>4, <1>5, BlameStep

\* Only a thread that has accepted a connection works on it.
LEMMA ThreadLinkStep == TypeOK /\ ThreadLinkInv /\ [Next]_vars => ThreadLinkInv'
<1> SUFFICES ASSUME TypeOK, ThreadLinkInv, [Next]_vars PROVE ThreadLinkInv'
  OBVIOUS
<1>0. /\ link \in [Peers -> LinkState]
      /\ thread \in [Peers -> ClientPhase \cup ManagerPhase]
  BY DEF TypeOK
<1> USE <1>0, PeersAssumption DEF ThreadLinkInv, Peers, procVars, peerVars, upVars, msqVars, downVars
<1>die. Die => ThreadLinkInv'
  BY DEF Die
<1>1. ASSUME NEW port \in Ports, CreateTCPServerSocket(port) \/ BindFails(port) PROVE ThreadLinkInv'
  BY <1>1, <1>die DEF CreateTCPServerSocket, BindFails
<1>2. ASSUME NEW p \in Peers, UdpBroadcastSender(p) \/ AcceptTCPConnection(p) PROVE ThreadLinkInv'
  BY <1>2 DEF UdpBroadcastSender, AcceptTCPConnection
<1>3. ASSUME NEW p \in Peers, Connect(p) \/ Leave(p) PROVE ThreadLinkInv'
  BY <1>3 DEF Connect, Leave
<1>4. ASSUME NEW c \in Clients, \/ MsgGetClient(c) \/ RecvValue(c) \/ RecvEnd(c) \/ RecvFails(c)
                                \/ UnpackFails(c) \/ DereferenceNull(c) \/ MsgSnd(c)
      PROVE ThreadLinkInv'
  BY <1>4, <1>die DEF MsgGetClient, RecvValue, RecvEnd, RecvFails, UnpackFails, DereferenceNull, MsgSnd
<1>5. ASSUME NEW c \in Clients, ClientSend(c) \/ ClientSendLost(c) \/ ClientSendFails(c) \/ Abort(c)
      PROVE ThreadLinkInv'
  BY <1>5 DEF ClientSend, ClientSendLost, ClientSendFails, Abort
<1>6. ASSUME NEW m \in Managers, \/ MsgGetManager(m) \/ MsgGetFails(m) \/ MsgRcv(m) \/ SendValue(m) \/ SendFails(m)
      PROVE ThreadLinkInv'
  BY <1>6, <1>die DEF MsgGetManager, MsgGetFails, MsgRcv, SendValue, SendFails
<1>7. ASSUME NEW m \in Managers, SendLost(m) \/ ManagerRecv(m) \/ ManagerEnd(m) PROVE ThreadLinkInv'
  BY <1>7 DEF SendLost, ManagerRecv, ManagerEnd
<1>8. Crash \/ Restart \/ UNCHANGED vars => ThreadLinkInv'
  BY <1>die DEF Crash, Restart, vars
<1> QED BY <1>1, <1>2, <1>3, <1>4, <1>5, <1>6, <1>7, <1>8
        DEF Next, ServerThread, PeerProcess, Environment

\* What has broken stays broken.
LEMMA BrokenForGood == RelayInv /\ [Next]_vars => Used \subseteq Used'
<1> SUFFICES ASSUME RelayInv, [Next]_vars PROVE Used \subseteq Used'
  OBVIOUS
<1>0. /\ link \in [Peers -> LinkState] /\ peer \in [Peers -> PeerPhase]
      /\ \A p \in Peers : peer[p] \in {"discover", "connect"} => link[p] = "none"
  BY DEF RelayInv, TypeOK, LinkInv
<1> DEFINE Stays ==
      \A p \in Peers : /\ link[p] \in {"reset", "gone"} => link'[p] \in {"reset", "gone"}
                       /\ p \in Managers /\ link[p] = "gone" => link'[p] = "gone"
                       /\ peer[p] = "dead" => peer'[p] = "dead"
<1>s. Stays => Used \subseteq Used'
  BY DEF Used, Tokens
<1> USE <1>0, PeersAssumption DEF Peers, procVars, peerVars, upVars, msqVars, downVars
<1>die. Die => Stays
  BY DEF Die
<1>1. ASSUME NEW port \in Ports, CreateTCPServerSocket(port) \/ BindFails(port) PROVE Stays
  BY <1>1, <1>die DEF CreateTCPServerSocket, BindFails
<1>2. ASSUME NEW p \in Peers, UdpBroadcastSender(p) \/ AcceptTCPConnection(p) PROVE Stays
  BY <1>2 DEF UdpBroadcastSender, AcceptTCPConnection
<1>3. ASSUME NEW p \in Peers, Connect(p) \/ Leave(p) PROVE Stays
  BY <1>3 DEF Connect, Leave
<1>4. ASSUME NEW c \in Clients, \/ MsgGetClient(c) \/ RecvValue(c) \/ RecvEnd(c) \/ RecvFails(c)
                                \/ UnpackFails(c) \/ DereferenceNull(c) \/ MsgSnd(c)
      PROVE Stays
  BY <1>4, <1>die DEF MsgGetClient, RecvValue, RecvEnd, RecvFails, UnpackFails, DereferenceNull, MsgSnd
<1>5. ASSUME NEW c \in Clients, ClientSend(c) \/ ClientSendLost(c) \/ ClientSendFails(c) \/ Abort(c)
      PROVE Stays
  BY <1>5 DEF ClientSend, ClientSendLost, ClientSendFails, Abort
<1>6. ASSUME NEW m \in Managers, \/ MsgGetManager(m) \/ MsgGetFails(m) \/ MsgRcv(m) \/ SendValue(m) \/ SendFails(m)
      PROVE Stays
  BY <1>6, <1>die DEF MsgGetManager, MsgGetFails, MsgRcv, SendValue, SendFails
<1>7. ASSUME NEW m \in Managers, SendLost(m) \/ ManagerRecv(m) \/ ManagerEnd(m) PROVE Stays
  BY <1>7 DEF SendLost, ManagerRecv, ManagerEnd
<1>8. Crash \/ Restart \/ UNCHANGED vars => Stays
  BY <1>die DEF Crash, Restart, vars
<1> HIDE DEF Stays
<1> QED BY <1>s, <1>1, <1>2, <1>3, <1>4, <1>5, <1>6, <1>7, <1>8
        DEF Next, ServerThread, PeerProcess, Environment

\* The steps that move a value from one stage of the relay to the next lose none.
LEMMA MoveLoss ==
  ASSUME RelayInv, LossInv, Used \subseteq Used',
         \/ \E c \in Clients : RecvValue(c) \/ MsgSnd(c)
         \/ \E m \in Managers : MsgRcv(m) \/ SendValue(m)
  PROVE  LossInv'
<1>0. TypeOK /\ \A m \in Managers : thread[m] = "send" <=> rbuf[m] # NoMsg
  BY DEF RelayInv, RbufInv
<1> USE DEF procVars, peerVars, upVars, msqVars, downVars
<1>1. ASSUME NEW c \in Clients, RecvValue(c) PROVE LossInv'
  <2>1. /\ c \in Peers /\ got[c] \in Int /\ got'[c] = got[c] + 1 /\ thread'[c] = "msgsnd" /\ thread[c] = "recv"
        /\ \A d \in Clients : d # c => got'[d] = got[d] /\ thread'[d] = thread[d]
        /\ UNCHANGED <<queue, rbuf, out>>
    BY <1>0, <1>1 DEF RecvValue, TypeOK, Peers
  <2>2. ASSUME NEW v, Traced(v) PROVE Traced(v)'
    BY <2>1, <2>2 DEF Traced
  <2>3. ASSUME NEW v \in Lost' PROVE v \in Lost
    <3>1. v \in Message /\ v.no <= MaxSend /\ v.no <= got'[v.from] /\ ~ Traced(v)'
      BY LostIsUntracedNext
    <3>2. v # [from |-> c, no |-> got'[c]]
      BY <2>1, <3>1 DEF Traced
    <3>3. v.from \in Clients /\ v.no \in Nat /\ v = [from |-> v.from, no |-> v.no]
      BY <3>1 DEF Message
    <3>4. v.no <= got[v.from]
      <4>1. CASE v.from = c
        <5>1. v.no # got'[c]
          BY <3>2, <3>3, <4>1
        <5> QED BY <2>1, <3>1, <3>3, <4>1, <5>1
      <4>2. CASE v.from # c
        BY <2>1, <3>1, <3>3, <4>2
      <4> QED BY <4>1, <4>2
    <3> QED BY <2>2, <3>1, <3>4, LostIsUntraced
  <2>4. [t \in Tokens |-> NoMsg] \in [Tokens -> Message \cup {NoMsg}]
    OBVIOUS
  <2> QED BY <2>3, <2>4, BlameStep
<1>2. ASSUME NEW c \in Clients, MsgSnd(c) PROVE LossInv'
  <2>1. [from |-> c, no |-> got[c]] \in Message
    BY <1>0, <1>2 DEF MsgSnd, RelayInv, CountersInv, TypeOK, Message
  <2>2. /\ Len(queue) + 1 \in DOMAIN queue' /\ queue'[Len(queue) + 1] = [from |-> c, no |-> got[c]]
        /\ \A i \in DOMAIN queue : i \in DOMAIN queue' /\ queue'[i] = queue[i]
    BY <1>0, <1>2, <2>1 DEF MsgSnd, TypeOK
  <2>3. UNCHANGED <<got, rbuf, out>> /\ \A d \in Clients : d # c => thread'[d] = thread[d]
    BY <1>0, <1>2 DEF MsgSnd, TypeOK, Peers
  <2>4. ASSUME NEW v, Traced(v) PROVE Traced(v)'
    BY <2>2, <2>3, <2>4 DEF Traced
  <2> QED BY <2>3, <2>4, NoLoss
<1>3. ASSUME NEW m \in Managers, MsgRcv(m) PROVE LossInv'
  <2>1. /\ queue \in Seq(Message) /\ queue # <<>> /\ queue' = Tail(queue) /\ Head(queue) = queue[1]
        /\ rbuf'[m] = queue[1] /\ rbuf[m] = NoMsg /\ queue[1] # NoMsg
        /\ \A n \in Managers : n # m => rbuf'[n] = rbuf[n]
        /\ \A c \in Clients : thread'[c] = thread[c]
        /\ UNCHANGED <<got, out>>
    BY <1>0, <1>3, PeersAssumption, NoMsgAssumption DEF MsgRcv, TypeOK, Peers
  <2>2. \A i \in DOMAIN queue : i = 1 \/ (i - 1 \in DOMAIN queue' /\ queue'[i - 1] = queue[i])
    BY <2>1
  <2>3. ASSUME NEW v, Traced(v) PROVE Traced(v)'
    <3>1. CASE \E i \in DOMAIN queue : v = queue[i]
      <4>1. PICK i \in DOMAIN queue : v = queue[i]
        BY <3>1
      <4>2. CASE i = 1
        <5>1. v = rbuf'[m] /\ v # NoMsg
          BY <2>1, <4>1, <4>2
        <5> QED BY <5>1 DEF Traced
      <4>3. CASE i # 1
        <5>1. \E j \in DOMAIN queue' : v = queue'[j]
          BY <2>2, <4>1, <4>3
        <5> QED BY <5>1 DEF Traced
      <4> QED BY <4>2, <4>3
    <3>2. CASE \E n \in Managers : v = rbuf[n] /\ v # NoMsg
      BY <2>1, <3>2 DEF Traced
    <3> QED BY <2>1, <2>3, <3>1, <3>2 DEF Traced
  <2> QED BY <2>1, <2>3, NoLoss
<1>4. ASSUME NEW m \in Managers, SendValue(m) PROVE LossInv'
  <2>1. /\ rbuf[m] \in Message /\ out[m] \in Seq(Message) /\ out'[m] = Append(out[m], rbuf[m])
        /\ \A n \in Managers : n # m => rbuf'[n] = rbuf[n] /\ out'[n] = out[n]
        /\ \A c \in Clients : thread'[c] = thread[c]
        /\ UNCHANGED <<got, queue>>
    BY <1>0, <1>4, PeersAssumption DEF SendValue, TypeOK, Peers
  <2>2. /\ Len(out[m]) + 1 \in DOMAIN out'[m] /\ out'[m][Len(out[m]) + 1] = rbuf[m]
        /\ \A i \in DOMAIN out[m] : i \in DOMAIN out'[m] /\ out'[m][i] = out[m][i]
    BY <2>1
  <2>3. ASSUME NEW v, Traced(v) PROVE Traced(v)'
    <3>1. CASE \E n \in Managers : v = rbuf[n] /\ v # NoMsg
      <4>1. PICK n \in Managers : v = rbuf[n] /\ v # NoMsg
        BY <3>1
      <4>2. CASE n = m
        BY <2>2, <4>1, <4>2 DEF Traced
      <4>3. CASE n # m
        BY <2>1, <4>1, <4>3 DEF Traced
      <4> QED BY <4>2, <4>3
    <3>2. CASE \E n \in Managers : \E i \in DOMAIN out[n] : v = out[n][i]
      BY <2>1, <2>2, <3>2 DEF Traced
    <3> QED BY <2>1, <2>3, <3>1, <3>2 DEF Traced
  <2> QED BY <2>1, <2>3, NoLoss
<1> QED BY <1>1, <1>2, <1>3, <1>4

\* No step loses more than it breaks.
LEMMA LossStep == RelayInv /\ FailureInv /\ ThreadLinkInv /\ LossInv /\ [Next]_vars => LossInv'
<1> SUFFICES ASSUME RelayInv, FailureInv, ThreadLinkInv, LossInv, [Next]_vars PROVE LossInv'
  OBVIOUS
<1>0. TypeOK /\ Used \subseteq Used'
  BY BrokenForGood DEF RelayInv
<1> USE DEF procVars, peerVars, upVars, msqVars, downVars
<1> DEFINE Holds == /\ UNCHANGED <<got, queue, rbuf, out>>
                    /\ \A c \in Clients : thread[c] = "msgsnd" => thread'[c] = "msgsnd"
<1>h. Holds => LossInv'
  <2> SUFFICES ASSUME Holds PROVE LossInv'
    OBVIOUS
  <2>1. ASSUME NEW v, Traced(v) PROVE Traced(v)'
    BY <2>1 DEF Traced
  <2> QED BY <1>0, <2>1, NoLoss
<1>1. ASSUME NEW port \in Ports, CreateTCPServerSocket(port) \/ BindFails(port) PROVE LossInv'
  BY <1>1, <1>h, DieLoss DEF CreateTCPServerSocket, BindFails
<1>2. ASSUME NEW p \in Peers, UdpBroadcastSender(p) \/ AcceptTCPConnection(p) \/ Connect(p) \/ Leave(p)
      PROVE LossInv'
  <2>1. AcceptTCPConnection(p) => Holds
    <3> SUFFICES ASSUME AcceptTCPConnection(p), NEW c \in Clients, thread[c] = "msgsnd"
                 PROVE  UNCHANGED <<got, queue, rbuf, out>> /\ thread'[c] = "msgsnd"
      BY DEF AcceptTCPConnection
    <3>1. thread[p] = "none" /\ thread' = [thread EXCEPT ![p] = "msgget"] /\ c \in DOMAIN thread
      BY <1>0 DEF AcceptTCPConnection, TypeOK, Peers
    <3>2. thread'[c] = "msgsnd"
      BY <3>1
    <3> QED BY <3>2 DEF AcceptTCPConnection
  <2>2. UdpBroadcastSender(p) \/ Connect(p) \/ Leave(p) => Holds
    BY DEF UdpBroadcastSender, Connect, Leave
  <2> HIDE DEF Holds
  <2> QED BY <1>2, <1>h, <2>1, <2>2
<1>3. ASSUME NEW c \in Clients, MsgGetClient(c) \/ RecvEnd(c) \/ UnpackFails(c) PROVE LossInv'
  <2>1. Holds
    BY <1>0, <1>3 DEF MsgGetClient, RecvEnd, UnpackFails, TypeOK, Peers
  <2> QED BY <1>h, <2>1
<1>4. ASSUME NEW c \in Clients, ClientSend(c) \/ ClientSendLost(c) \/ ClientSendFails(c) \/ Abort(c)
      PROVE LossInv'
  <2>1. Holds
    BY <1>4 DEF ClientSend, ClientSendLost, ClientSendFails, Abort
  <2> QED BY <1>h, <2>1
<1>5. ASSUME NEW m \in Managers, MsgGetManager(m) \/ ManagerRecv(m) \/ ManagerEnd(m) PROVE LossInv'
  <2>1. Holds
    BY <1>0, <1>5, PeersAssumption DEF MsgGetManager, ManagerRecv, ManagerEnd, TypeOK, Peers
  <2> QED BY <1>h, <2>1
<1>6. CASE (\E c \in Clients : RecvFails(c) \/ DereferenceNull(c)) \/ (\E m \in Managers : MsgGetFails(m) \/ SendFails(m)) \/ Crash
  BY <1>6, DieLoss DEF RecvFails, DereferenceNull, MsgGetFails, SendFails, Crash
<1>7. CASE \E m \in Managers : SendLost(m)
  BY <1>7, SendLostLoss
<1>8. CASE Restart \/ UNCHANGED vars
  <2>1. Holds
    BY <1>8 DEF Restart, vars
  <2> QED BY <1>h, <2>1
<1> HIDE DEF Holds
<1> QED BY <1>0, <1>1, <1>2, <1>3, <1>4, <1>5, <1>6, <1>7, <1>8, MoveLoss
        DEF Next, ServerThread, PeerProcess, Environment

\* The tokens in use are no more than LossIsBounded allows for.
LEMMA UsedIsBounded ==
  ASSUME TypeOK
  PROVE  IsFiniteSet(Used) /\ Cardinality(Used) <= Cardinality(Broken) + Cardinality(Departed)
<1> DEFINE First  == {<<p, 1>> : p \in Broken}
           Second == {<<m, 2>> : m \in Departed}
           one == [p \in Broken |-> <<p, 1>>]
           two == [m \in Departed |-> <<m, 2>>]
<1>1. IsFiniteSet(Broken) /\ IsFiniteSet(Departed)
  <2>1. IsFiniteSet(Peers)
    BY FinitePeers, FS_Union DEF Peers
  <2>2. Broken \subseteq Peers /\ Departed \subseteq Peers
    BY DEF Broken, Departed, Peers
  <2> QED BY <2>1, <2>2, FS_Subset
<1>2. one \in Surjection(Broken, First) /\ two \in Surjection(Departed, Second)
  BY DEF Surjection
<1>3. /\ IsFiniteSet(First) /\ Cardinality(First) <= Cardinality(Broken)
      /\ IsFiniteSet(Second) /\ Cardinality(Second) <= Cardinality(Departed)
  BY <1>1, <1>2, FS_Surjection
<1>4. Used \subseteq First \cup Second
  <2> SUFFICES ASSUME NEW t \in Used PROVE t \in First \cup Second
    OBVIOUS
  <2>1. t = <<t[1], t[2]>> /\ t[1] \in Peers
    BY DEF Used, Tokens
  <2>2. CASE t[2] = 1
    BY <2>1, <2>2 DEF Used, Broken
  <2>3. CASE t[2] = 2
    BY <2>1, <2>3 DEF Used, Departed, Broken
  <2> QED BY <2>2, <2>3 DEF Used
<1> HIDE DEF First, Second
<1>5. IsFiniteSet(First \cup Second)
      /\ Cardinality(First \cup Second) = Cardinality(First) + Cardinality(Second) - Cardinality(First \cap Second)
  BY <1>3, FS_Union
<1>6. Cardinality(First \cap Second) \in Nat
  <2>1. First \cap Second \subseteq First
    OBVIOUS
  <2> QED BY <1>3, <2>1, FS_Subset, FS_CardinalityType
<1>7. IsFiniteSet(Used) /\ Cardinality(Used) <= Cardinality(First \cup Second)
  BY <1>4, <1>5, FS_Subset
<1> QED
  BY <1>1, <1>3, <1>5, <1>6, <1>7, FS_CardinalityType

\* Values are lost only with connections: one with each that broke, two with a departed
\* manager's, however often the server crashes and starts again
\* (HandleTCPClient.c:53, HandleTCPManager.c:35-47).
THEOREM LossesAreBounded == Spec => []LossIsBounded
<1>1. Init => FailureInv /\ ThreadLinkInv /\ LossInv
  <2> SUFFICES ASSUME Init PROVE FailureInv /\ ThreadLinkInv /\ LossInv
    OBVIOUS
  <2>1. FailureInv /\ ThreadLinkInv
    BY DEF Init, FailureInv, ThreadLinkInv, Peers
  <2>2. \A v : v \notin Lost
    BY LostIsUntraced DEF Init, Message
  <2>3. [t \in Tokens |-> NoMsg] \in [Tokens -> Message \cup {NoMsg}]
    OBVIOUS
  <2> QED BY <2>1, <2>2, <2>3 DEF LossInv
<1>2. RelayInv /\ FailureInv /\ ThreadLinkInv /\ LossInv /\ [Next]_vars
        => (FailureInv /\ ThreadLinkInv /\ LossInv)'
  BY FailureStep, ThreadLinkStep, LossStep DEF RelayInv
<1>3. RelayInv /\ LossInv => LossIsBounded
  <2> SUFFICES ASSUME RelayInv, LossInv PROVE LossIsBounded
    OBVIOUS
  <2>1. PICK blame \in [Tokens -> Message \cup {NoMsg}] : \A v \in Lost : \E t \in Used : blame[t] = v
    BY DEF LossInv
  <2> DEFINE Blamed == {blame[t] : t \in Used}
             named == [t \in Used |-> blame[t]]
  <2>2. named \in Surjection(Used, Blamed) /\ Lost \subseteq Blamed
    BY <2>1 DEF Surjection
  <2>3. IsFiniteSet(Used) /\ Cardinality(Used) <= Cardinality(Broken) + Cardinality(Departed)
    BY UsedIsBounded DEF RelayInv
  <2> HIDE DEF Blamed, named
  <2>4. IsFiniteSet(Blamed) /\ Cardinality(Blamed) <= Cardinality(Used)
    BY <2>2, <2>3, FS_Surjection
  <2>5. IsFiniteSet(Lost) /\ Cardinality(Lost) <= Cardinality(Blamed)
    BY <2>2, <2>4, FS_Subset
  <2>6. IsFiniteSet(Broken) /\ IsFiniteSet(Departed)
    <3>1. IsFiniteSet(Peers)
      BY FinitePeers, FS_Union DEF Peers
    <3>2. Broken \subseteq Peers /\ Departed \subseteq Peers
      BY DEF Broken, Departed, Peers
    <3> QED BY <3>1, <3>2, FS_Subset
  <2>7. /\ Cardinality(Lost) \in Nat /\ Cardinality(Blamed) \in Nat /\ Cardinality(Used) \in Nat
        /\ Cardinality(Broken) \in Nat /\ Cardinality(Departed) \in Nat
    BY <2>3, <2>4, <2>5, <2>6, FS_CardinalityType
  <2> QED BY <2>3, <2>4, <2>5, <2>7 DEF LossIsBounded
<1> QED BY <1>1, <1>2, <1>3, RelayInvariant, PTL DEF Spec

-----------------------------------------------------------------------------
(* Relay implements RelayContract.                                         *)

\* The stages in which a value is on its way, spelled out.
OnItsWay(x) ==
  \/ \E c \in Clients : thread[c] = "msgsnd" /\ x = [from |-> c, no |-> got[c]]
  \/ \E i \in DOMAIN queue : x = queue[i]
  \/ \E m \in Managers : x = rbuf[m] /\ x # NoMsg
  \/ \E c \in Clients : /\ link[c] \in {"open", "fin"}
                        /\ \E n \in got[c] + 1 .. sent[c] : x = [from |-> c, no |-> n]
  \/ \E m \in Managers : /\ peer[m] # "dead"
                         /\ \E i \in seen[m] + 1 .. Len(out[m]) : x = out[m][i]

\* A message is pending in the contract when it is in one of the stages of the relay.
LEMMA PendingStages == \A x : x \in Pending <=> OnItsWay(x)
<1> SUFFICES ASSUME NEW x PROVE x \in Pending <=> OnItsWay(x)
  OBVIOUS
<1>1. x \in UNION {Held(c) : c \in Clients}
        <=> \E c \in Clients : thread[c] = "msgsnd" /\ x = [from |-> c, no |-> got[c]]
  BY DEF Held
<1>2. x \in Queued <=> \E i \in DOMAIN queue : x = queue[i]
  BY DEF Queued
<1>3. x \in Taken <=> \E m \in Managers : x = rbuf[m] /\ x # NoMsg
  BY DEF Taken
<1>4. x \in UNION {Unread(c) : c \in Clients}
        <=> \E c \in Clients : /\ link[c] \in {"open", "fin"}
                               /\ \E n \in got[c] + 1 .. sent[c] : x = [from |-> c, no |-> n]
  BY DEF Unread
<1>5. x \in UNION {InFlight(m) : m \in Managers}
        <=> \E m \in Managers : /\ peer[m] # "dead"
                                /\ \E i \in seen[m] + 1 .. Len(out[m]) : x = out[m][i]
  BY DEF InFlight
<1>6. x \in Pending <=> \/ x \in UNION {Held(c) : c \in Clients} \/ x \in Queued \/ x \in Taken
                        \/ x \in UNION {Unread(c) : c \in Clients}
                        \/ x \in UNION {InFlight(m) : m \in Managers}
  <2> DEFINE Helds == UNION {Held(c) : c \in Clients}
             Unreads == UNION {Unread(c) : c \in Clients}
             InFlights == UNION {InFlight(m) : m \in Managers}
  <2>1. Pending = ((Helds \cup Queued \cup Taken) \cup Unreads) \cup InFlights
    BY DEF Pending, InServer
  <2> HIDE DEF Helds, Unreads, InFlights
  <2>2. x \in Pending <=> x \in Helds \/ x \in Queued \/ x \in Taken \/ x \in Unreads \/ x \in InFlights
    BY <2>1
  <2> QED BY <2>2 DEF Helds, Unreads, InFlights
<1> QED BY <1>1, <1>2, <1>3, <1>4, <1>5, <1>6, Zenon DEF OnItsWay

\* The same of the next state.
LEMMA PendingStagesNext == (\A x : x \in Pending <=> OnItsWay(x))'
  BY PendingStages, PTL

\* A step that delivers nothing and adds nothing is the contract's Lose.
LEMMA LoseStep ==
  ASSUME UNCHANGED <<sent, out, seen>>, \A x : OnItsWay(x)' => OnItsWay(x)
  PROVE  Contract!Lose
<1>1. Pending' \subseteq Pending
  BY PendingStages, PendingStagesNext
<1> QED BY <1>1 DEF Contract!Lose, Received

\* Nothing is on its way in the beginning.
LEMMA RefinesInit == Init => Contract!Init
<1> SUFFICES ASSUME Init PROVE Contract!Init
  OBVIOUS
<1>1. Pending = {}
  <2>1. \A x : ~ OnItsWay(x)
    BY DEF Init, OnItsWay, Peers
  <2> QED BY <2>1, PendingStages
<1>2. \A m \in Managers : Received(m) = <<>>
  BY DEF Init, Received
<1> QED BY <1>1, <1>2 DEF Init, Contract!Init

\* Reading a client's value moves it from the connection into sbuf.
LEMMA RecvValueLoses == ASSUME RelayInv, NEW c \in Clients, RecvValue(c)
                        PROVE  Contract!Lose
<1> USE DEF RecvValue, procVars, peerVars, msqVars, downVars
<1>1. /\ c \in Peers /\ got'[c] = got[c] + 1 /\ got[c] \in Int /\ sent[c] \in Int
      /\ \A d \in Clients \ {c} : got'[d] = got[d] /\ thread'[d] = thread[d]
  BY DEF RelayInv, TypeOK, Peers
<1>2. ASSUME NEW x, OnItsWay(x)' PROVE OnItsWay(x)
  <2>1. CASE \E d \in Clients : thread'[d] = "msgsnd" /\ x = [from |-> d, no |-> got'[d]]
    <3>1. CASE x = [from |-> c, no |-> got'[c]]
      <4>1. got[c] + 1 \in got[c] + 1 .. sent[c] /\ x = [from |-> c, no |-> got[c] + 1]
        BY <1>1, <3>1
      <4> QED BY <4>1 DEF OnItsWay
    <3> QED BY <1>1, <2>1, <3>1 DEF OnItsWay
  <2>2. CASE \E d \in Clients : /\ link'[d] \in {"open", "fin"}
                                /\ \E n \in got'[d] + 1 .. sent'[d] : x = [from |-> d, no |-> n]
    BY <1>1, <2>2 DEF OnItsWay
  <2> QED BY <1>2, <2>1, <2>2 DEF OnItsWay
<1> QED BY <1>2, LoseStep

\* msgsnd moves the value into the queue.
LEMMA MsgSndLoses == ASSUME RelayInv, NEW c \in Clients, MsgSnd(c)
                     PROVE  Contract!Lose
<1> USE DEF MsgSnd, procVars, peerVars, upVars, downVars
<1>0. [from |-> c, no |-> got[c]] \in Message
  BY DEF RelayInv, CountersInv, TypeOK, Message
<1>1. \A i \in DOMAIN queue' : \/ i \in DOMAIN queue /\ queue'[i] = queue[i]
                               \/ queue'[i] = [from |-> c, no |-> got[c]]
  BY <1>0 DEF RelayInv, TypeOK
<1>2. \A d \in Clients : thread'[d] = "msgsnd" => thread[d] = "msgsnd"
  BY DEF RelayInv, TypeOK, Peers
<1>3. ASSUME NEW x, OnItsWay(x)' PROVE OnItsWay(x)
  BY <1>1, <1>2, <1>3 DEF OnItsWay
<1> QED BY <1>3, LoseStep

\* msgrcv moves it into rbuf.
LEMMA MsgRcvLoses == ASSUME RelayInv, NEW m \in Managers, MsgRcv(m)
                     PROVE  Contract!Lose
<1> USE DEF MsgRcv, procVars, peerVars, upVars
<1>1. /\ \A i \in DOMAIN queue' : i + 1 \in DOMAIN queue /\ queue'[i] = queue[i + 1]
      /\ 1 \in DOMAIN queue /\ Head(queue) = queue[1]
  BY DEF RelayInv, TypeOK
<1>2. /\ \A n \in Managers : rbuf'[n] = rbuf[n] \/ rbuf'[n] = Head(queue)
      /\ \A d \in Clients : thread'[d] = "msgsnd" => thread[d] = "msgsnd"
  BY PeersAssumption DEF RelayInv, TypeOK, Peers
<1>3. ASSUME NEW x, OnItsWay(x)' PROVE OnItsWay(x)
  BY <1>1, <1>2, <1>3 DEF OnItsWay
<1> QED BY <1>3, LoseStep

\* send writes it to the manager's connection (and loses it if nobody reads there).
LEMMA SendValueLoses == ASSUME RelayInv, NEW m \in Managers, SendValue(m)
                        PROVE  Contract!Lose
<1> USE DEF SendValue, procVars, peerVars, upVars, msqVars
<1>0. /\ rbuf[m] \in Message /\ rbuf[m] # NoMsg
      /\ \A n \in Managers : Len(out[n]) \in Nat /\ seen[n] \in Nat /\ seen[n] <= Len(out[n])
  BY DEF RelayInv, RbufInv, OutInv, TypeOK
<1>1. /\ \A n \in Managers \ {m} : out'[n] = out[n] /\ rbuf'[n] = rbuf[n]
      /\ Len(out'[m]) = Len(out[m]) + 1 /\ out'[m][Len(out[m]) + 1] = rbuf[m] /\ rbuf'[m] = NoMsg
      /\ \A i \in 1 .. Len(out[m]) : out'[m][i] = out[m][i]
      /\ \A d \in Clients : thread'[d] = "msgsnd" => thread[d] = "msgsnd"
  BY <1>0, PeersAssumption DEF RelayInv, TypeOK, Peers
<1>2. \A n \in Managers : Received(n)' = Received(n)
  BY <1>0, <1>1 DEF Received
<1>3. ASSUME NEW x, OnItsWay(x)' PROVE OnItsWay(x)
  <2>1. CASE \E n \in Managers : /\ peer'[n] # "dead"
                                 /\ \E i \in seen'[n] + 1 .. Len(out'[n]) : x = out'[n][i]
    <3>1. PICK n \in Managers : /\ peer[n] # "dead"
                                /\ \E i \in seen[n] + 1 .. Len(out'[n]) : x = out'[n][i]
      BY <2>1
    <3>2. PICK i \in seen[n] + 1 .. Len(out'[n]) : x = out'[n][i]
      BY <3>1
    <3>3. CASE i \in seen[n] + 1 .. Len(out[n])
      <4>1. x = out[n][i]
        BY <1>0, <1>1, <3>2, <3>3
      <4> QED BY <3>1, <3>3, <4>1 DEF OnItsWay
    <3>4. CASE n = m /\ x = rbuf[m]
      BY <1>0, <3>4 DEF OnItsWay
    <3> QED BY <1>0, <1>1, <3>2, <3>3, <3>4
  <2>2. CASE \E n \in Managers : x = rbuf'[n] /\ x # NoMsg
    BY <1>1, <2>2 DEF OnItsWay
  <2> QED BY <1>1, <1>3, <2>1, <2>2 DEF OnItsWay
<1>4. Pending' \subseteq Pending
  BY <1>3, PendingStages, PendingStagesNext
<1> QED BY <1>2, <1>4 DEF Contract!Lose

\* Nothing else the server or the environment does moves a value forward.
LEMMA OtherLoses ==
  ASSUME RelayInv, UNCHANGED <<upVars, queue, out, seen>>,
         \A c \in Clients : /\ thread'[c] = "msgsnd" => thread[c] = "msgsnd"
                            /\ link'[c] \in {"open", "fin"} => link[c] \in {"none", "open", "fin"},
         \A m \in Managers : /\ rbuf'[m] \in {rbuf[m], NoMsg}
                             /\ peer[m] = "dead" => peer'[m] = "dead"
  PROVE  Contract!Lose
<1> USE DEF upVars
<1>1. \A c \in Clients : link[c] = "none" => got[c] + 1 .. sent[c] = {}
  BY DEF RelayInv, CountersInv, TypeOK
<1>2. ASSUME NEW x, OnItsWay(x)' PROVE OnItsWay(x)
  BY <1>1, <1>2 DEF OnItsWay
<1> QED BY <1>2, LoseStep

\* A value passed to send() gets under way, unless the server has gone.
LEMMA ClientSendSends ==
  ASSUME RelayInv, NEW c \in Clients, ClientSend(c) \/ ClientSendLost(c)
  PROVE  Contract!Send(c)
<1> USE DEF ClientSend, ClientSendLost, procVars, peerVars, msqVars, downVars
<1>0. /\ c \in Peers /\ sent' = [sent EXCEPT ![c] = sent[c] + 1] /\ sent'[c] = sent[c] + 1
      /\ UNCHANGED <<peer, got, thread, queue, rbuf, out, seen>>
      /\ sent[c] \in Nat /\ got[c] \in Nat /\ got[c] <= sent[c]
      /\ \A d \in Clients \ {c} : sent'[d] = sent[d] /\ link'[d] = link[d]
  BY DEF RelayInv, TypeOK, CountersInv, Peers
<1> DEFINE new == [from |-> c, no |-> sent[c] + 1]
<1>1. \A m \in Managers : Received(m)' = Received(m)
  BY <1>0 DEF Received
<1>2. CASE ClientSend(c)
  <2>1. \A n : n \in got'[c] + 1 .. sent'[c] <=> n \in got[c] + 1 .. sent[c] \/ n = sent[c] + 1
    BY <1>0
  <2>2. ASSUME NEW x PROVE OnItsWay(x)' <=> OnItsWay(x) \/ x = new
    <3>1. OnItsWay(x)' => OnItsWay(x) \/ x = new
      BY <1>0, <1>2, <2>1 DEF OnItsWay
    <3>2. OnItsWay(x) => OnItsWay(x)'
      BY <1>0, <1>2, <2>1 DEF OnItsWay
    <3>3. x = new => OnItsWay(x)'
      BY <1>0, <1>2, <2>1 DEF OnItsWay
    <3> QED BY <3>1, <3>2, <3>3
  <2>3. Pending' = Pending \cup {new}
    BY <2>2, PendingStages, PendingStagesNext
  <2> QED BY <1>0, <1>1, <2>3 DEF Contract!Send
<1>3. CASE ClientSendLost(c)
  <2>1. link[c] \notin {"open", "fin"} /\ link'[c] \notin {"open", "fin"}
    BY <1>0, <1>3 DEF RelayInv, TypeOK
  <2>2. ASSUME NEW x PROVE OnItsWay(x)' <=> OnItsWay(x)
    BY <1>0, <2>1 DEF OnItsWay
  <2>3. Pending' = Pending
    BY <2>2, PendingStages, PendingStagesNext
  <2> QED BY <1>0, <1>1, <2>3 DEF Contract!Send
<1> QED BY <1>2, <1>3

\* A manager reading its connection is the contract's Deliver: the value is in
\* no other stage, and later than all this manager has had from its client.
LEMMA ManagerRecvDelivers ==
  ASSUME RelayInv, NEW m \in Managers, ManagerRecv(m)
  PROVE  Contract!Deliver(m)
<1> USE DEF ManagerRecv, procVars, peerVars, upVars, msqVars
<1>0. /\ m \in Peers /\ seen'[m] = seen[m] + 1 /\ \A n \in Managers \ {m} : seen'[n] = seen[n]
      /\ \A n \in Managers : /\ Len(out[n]) \in Nat /\ seen[n] \in Nat /\ seen[n] <= Len(out[n])
                             /\ DOMAIN out[n] = 1 .. Len(out[n])
      /\ seen[m] + 1 \in DOMAIN out[m] /\ out[m][seen[m] + 1] \in Message
  BY DEF RelayInv, TypeOK, OutInv, Peers
<1>msg. PICK msg \in Message : msg = out[m][seen[m] + 1]
  BY <1>0
<1>1. OnItsWay(msg)
  BY <1>0, <1>msg DEF OnItsWay
<1>2. AheadOfQueue(msg) /\ \A n \in Managers : msg # rbuf[n]
  BY <1>0, <1>msg DEF RelayInv, OutInv
<1>3. ASSUME NEW x PROVE OnItsWay(x)' <=> OnItsWay(x) /\ x # msg
  <2>1. OnItsWay(x)' => OnItsWay(x)
    BY <1>0 DEF OnItsWay
  <2>2. OnItsWay(msg)' => FALSE
    <3>1. ASSUME NEW c \in Clients, thread[c] = "msgsnd", msg = [from |-> c, no |-> got[c]] PROVE FALSE
      <4>1. msg.no <= got[c] - 1 /\ msg.no = got[c] /\ got[c] \in Nat
        BY <1>2, <3>1 DEF AheadOfQueue, Passed, RelayInv, TypeOK
      <4> QED BY <4>1
    <3>2. ASSUME NEW i \in DOMAIN queue, msg = queue[i] PROVE FALSE
      BY <1>2, <3>2 DEF AheadOfQueue, Message
    <3>3. ASSUME NEW c \in Clients, NEW n \in got[c] + 1 .. sent[c], msg = [from |-> c, no |-> n] PROVE FALSE
      <4>1. msg.no <= got[c] /\ msg.no = n /\ got[c] \in Nat /\ n \in Int /\ n >= got[c] + 1
        BY <1>2, <3>3 DEF AheadOfQueue, Passed, RelayInv, TypeOK
      <4> QED BY <4>1
    <3>4. ASSUME NEW n \in Managers, NEW i \in seen'[n] + 1 .. Len(out[n]), msg = out[n][i] PROVE FALSE
      <4>1. i \in DOMAIN out[n]
        BY <1>0, <3>4
      <4>2. DeliveredOnce /\ out[n][i] = out[m][seen[m] + 1]
        BY <1>msg, <3>4 DEF RelayInv
      <4>3. n = m /\ i = seen[m] + 1
        BY <1>0, <4>1, <4>2 DEF DeliveredOnce
      <4> QED BY <1>0, <4>3
    <3> QED BY <1>2, <3>1, <3>2, <3>3, <3>4 DEF OnItsWay
  <2>3. OnItsWay(x) /\ x # msg => OnItsWay(x)'
    <3> SUFFICES ASSUME OnItsWay(x), x # msg PROVE OnItsWay(x)'
      OBVIOUS
    <3>1. CASE \E n \in Managers : /\ peer[n] # "dead"
                                   /\ \E i \in seen[n] + 1 .. Len(out[n]) : x = out[n][i]
      <4>1. PICK n \in Managers : peer[n] # "dead" /\ \E i \in seen[n] + 1 .. Len(out[n]) : x = out[n][i]
        BY <3>1
      <4>2. PICK i \in seen[n] + 1 .. Len(out[n]) : x = out[n][i]
        BY <4>1
      <4>3. i \in seen'[n] + 1 .. Len(out[n])
        BY <1>0, <1>msg, <4>2
      <4> QED BY <4>1, <4>2, <4>3 DEF OnItsWay
    <3> QED BY <3>1 DEF OnItsWay
  <2> QED BY <2>1, <2>2, <2>3
<1>4. msg \in Pending /\ Pending' = Pending \ {msg}
  BY <1>1, <1>3, PendingStages, PendingStagesNext
<1>5. \A i \in 1 .. seen[m] : out[m][i].from = msg.from => out[m][i].no < msg.no
  BY <1>0, <1>msg DEF RelayInv, SeenInOrder
<1>6. Contract!Fresh(msg, m)
  BY <1>5 DEF Contract!Fresh, Received
<1>7. Received(m)' = Append(Received(m), msg)
  <2>1. \A i \in 1 .. seen[m] : out[m][i] \in Message
    BY <1>0 DEF RelayInv, TypeOK
  <2>2. Received(m) \in Seq(Message) /\ Len(Received(m)) = seen[m]
    <3>1. seen[m] \in Nat BY <1>0
    <3>2. Received(m) \in [1 .. seen[m] -> Message] BY <2>1 DEF Received
    <3> QED BY <3>1, <3>2
  <2>3. Append(Received(m), msg) = [i \in 1 .. seen[m] + 1 |-> IF i <= seen[m] THEN out[m][i] ELSE msg]
    BY <1>0, <2>2 DEF Received
  <2>4. Received(m)' = [i \in 1 .. seen[m] + 1 |-> out[m][i]]
    BY <1>0 DEF Received
  <2> QED BY <1>0, <1>msg, <2>3, <2>4
<1>8. \A n \in Managers \ {m} : Received(n)' = Received(n)
  BY <1>0 DEF Received
<1>9. [n \in Managers |-> Received(n)'] = [[n \in Managers |-> Received(n)] EXCEPT ![m] = Append(@, msg)]
  BY <1>7, <1>8
<1> QED BY <1>4, <1>6, <1>9 DEF Contract!Deliver

\* Every step of the relay is a step of its contract.
LEMMA RefinesNext == RelayInv /\ [Next]_vars => [Contract!Next]_(Contract!vars)
<1> SUFFICES ASSUME RelayInv, [Next]_vars PROVE Contract!Next \/ UNCHANGED Contract!vars
  OBVIOUS
<1>0. /\ TypeOK
      /\ \A p \in Peers : link[p] \in LinkState /\ thread[p] \in ClientPhase \cup ManagerPhase
  BY DEF RelayInv, TypeOK
<1> USE DEF procVars, peerVars, upVars, msqVars, downVars
<1>die. Die => Contract!Lose
  <2> SUFFICES ASSUME Die PROVE Contract!Lose
    OBVIOUS
  <2> QED BY OtherLoses, <1>0 DEF Die, Peers, TypeOK
<1>1. ASSUME NEW port \in Ports, CreateTCPServerSocket(port) \/ BindFails(port) PROVE Contract!Lose
  BY <1>1, <1>die, OtherLoses DEF CreateTCPServerSocket, BindFails
<1>2. ASSUME NEW p \in Peers, UdpBroadcastSender(p) \/ AcceptTCPConnection(p) \/ Connect(p) \/ Leave(p)
      PROVE Contract!Lose
  <2>1. \A c \in Clients : /\ thread'[c] = "msgsnd" => thread[c] = "msgsnd"
                           /\ link'[c] \in {"open", "fin"} => link[c] \in {"none", "open", "fin"}
    <3>1. CASE UdpBroadcastSender(p) \/ AcceptTCPConnection(p)
      BY <1>0, <3>1 DEF UdpBroadcastSender, AcceptTCPConnection, TypeOK, Peers, LinkState
    <3>2. CASE Connect(p)
      <4>1. thread' = thread /\ link[p] = "none"
        BY <3>2 DEF Connect, RelayInv, LinkInv
      <4> QED BY <1>0, <3>2, <4>1 DEF Connect, TypeOK, Peers
    <3>3. CASE Leave(p)
      BY <1>0, <3>3 DEF Leave, TypeOK, Peers
    <3> QED BY <1>2, <3>1, <3>2, <3>3
  <2>2. \A m \in Managers : peer[m] = "dead" => peer'[m] = "dead"
    BY <1>0, <1>2 DEF UdpBroadcastSender, AcceptTCPConnection, Connect, Leave, TypeOK, Peers
  <2>3. UNCHANGED <<upVars, queue, out, seen, rbuf>>
    BY <1>2 DEF UdpBroadcastSender, AcceptTCPConnection, Connect, Leave
  <2> QED BY <2>1, <2>2, <2>3, OtherLoses
<1>3. ASSUME NEW c \in Clients, MsgGetClient(c) \/ RecvEnd(c) \/ RecvFails(c) \/ UnpackFails(c)
                                \/ DereferenceNull(c) \/ ClientSendFails(c) \/ Abort(c)
      PROVE Contract!Lose
  <2>1. CASE RecvFails(c) \/ DereferenceNull(c)
    BY <2>1, <1>die DEF RecvFails, DereferenceNull
  <2>2. CASE MsgGetClient(c) \/ RecvEnd(c) \/ UnpackFails(c) \/ ClientSendFails(c) \/ Abort(c)
    <3>1. \A d \in Clients : /\ thread'[d] = "msgsnd" => thread[d] = "msgsnd"
                             /\ link'[d] \in {"open", "fin"} => link[d] \in {"none", "open", "fin"}
      BY <1>0, <2>2 DEF MsgGetClient, RecvEnd, UnpackFails, ClientSendFails, Abort, TypeOK, Peers
    <3>2. \A m \in Managers : peer[m] = "dead" => peer'[m] = "dead"
      BY <1>0, <2>2 DEF MsgGetClient, RecvEnd, UnpackFails, ClientSendFails, Abort, TypeOK, Peers
    <3>3. UNCHANGED <<upVars, queue, out, seen, rbuf>>
      BY <2>2 DEF MsgGetClient, RecvEnd, UnpackFails, ClientSendFails, Abort
    <3> QED BY <3>1, <3>2, <3>3, OtherLoses
  <2> QED BY <1>3, <2>1, <2>2
<1>4. ASSUME NEW m \in Managers, MsgGetManager(m) \/ MsgGetFails(m) \/ SendLost(m) \/ SendFails(m) \/ ManagerEnd(m)
      PROVE Contract!Lose
  <2>1. CASE MsgGetFails(m) \/ SendFails(m)
    BY <2>1, <1>die DEF MsgGetFails, SendFails
  <2>2. CASE MsgGetManager(m) \/ SendLost(m) \/ ManagerEnd(m)
    <3>1. \A d \in Clients : thread'[d] = thread[d] /\ link'[d] = link[d]
      BY <1>0, <2>2, PeersAssumption DEF MsgGetManager, SendLost, ManagerEnd, TypeOK, Peers
    <3>2. \A n \in Managers : (peer[n] = "dead" => peer'[n] = "dead") /\ rbuf'[n] \in {rbuf[n], NoMsg}
      BY <1>0, <2>2 DEF MsgGetManager, SendLost, ManagerEnd, TypeOK, Peers
    <3>3. UNCHANGED <<upVars, queue, out, seen>>
      BY <2>2 DEF MsgGetManager, SendLost, ManagerEnd
    <3>4. \A d \in Clients : link[d] \in LinkState
      BY <1>0 DEF Peers
    <3> QED BY <3>1, <3>2, <3>3, <3>4, OtherLoses DEF LinkState
  <2> QED BY <1>4, <2>1, <2>2
<1>5. Crash \/ Restart => Contract!Lose
  BY <1>die, OtherLoses DEF Crash, Restart
<1>6. UNCHANGED vars => UNCHANGED Contract!vars
  BY DEF vars, Contract!vars, Received, Pending, InServer, Held, Queued, Taken, Unread, InFlight
<1> QED
  BY <1>1, <1>2, <1>3, <1>4, <1>5, <1>6,
     RecvValueLoses, MsgSndLoses, MsgRcvLoses, SendValueLoses, ClientSendSends, ManagerRecvDelivers
  DEF Next, ServerThread, PeerProcess, Environment, Contract!Next

\* The relay implements its contract: values are delivered at most once, each
\* manager sees each client's in order, and none is invented.
THEOREM RelayRefinesContract == Spec => ImplementsContract
<1> QED BY RefinesInit, RefinesNext, RelayInvariant, PTL DEF Spec, ImplementsContract, Contract!Spec
-----------------------------------------------------------------------------
(* Framing.  The invariant says where in the stream the receiver stands:   *)
(* at the end of a frame until a read falls short, and from then on inside *)
(* a frame, with every value forwarded since damaged.  A further read must *)
(* start with a byte 0a of a header, and can only take that one byte;      *)
(* after the third damaged value the header is used up.                    *)

\* Where the bytes in the buffer come from: an earlier connection, or what was read.
BufInv == \A i \in 1 .. RCVBUFSIZE : buf[i].frame = 0 \/ \E m \in 1 .. pos : buf[i] = Stream(m)

\* The receiver stands o bytes behind the end of frame a, n values have been forwarded.
Offset(a, o, n) ==
  /\ pos = a * RCVBUFSIZE + o
  /\ n = a + 1 \/ (n = a + 2 /\ o \in {3, 4}) \/ (n = a + 3 /\ o = 4)

\* The first a values are intact, the others are not.
IntactUpTo(a) ==
  /\ Len(forwarded) <= a + 3
  /\ \A i \in DOMAIN forwarded : Intact(i) <=> i <= a

ShortInv ==
  short => \E a \in 0 .. Len(forwarded) :
    /\ IntactUpTo(a)
    /\ status # "crashed" => \E o \in 1 .. RCVBUFSIZE - 1 : Offset(a, o, Len(forwarded))

StreamInv == StreamTypeOK /\ pos <= written * RCVBUFSIZE /\ BufInv /\ WholeReadsSuffice /\ ShortInv

-----------------------------------------------------------------------------
(* Arithmetic: a place in the stream is a frame and a place in it.         *)

LEMMA Multiples == ASSUME NEW a \in Nat, NEW b \in Nat, a < b, NEW r \in Nat
                   PROVE  a * r + r <= b * r
  <1>1. (b - a - 1) * r >= 0 BY SMT
  <1>2. (b - a - 1) * r = b * r - a * r - r BY SMT
  <1> QED BY <1>1, <1>2

LEMMA Products == ASSUME NEW a \in Nat, NEW b \in Nat, a <= b, NEW r \in Nat
                  PROVE  a * r \in Nat /\ b * r \in Nat /\ a * r <= b * r
  <1>1. a * r \in Nat /\ b * r \in Nat OBVIOUS
  <1>2. a < b => a * r + r <= b * r BY Multiples
  <1>3. a = b \/ a < b OBVIOUS
  <1>4. CASE a = b BY <1>1, <1>4
  <1>5. CASE a < b
    <2> DEFINE x == a * r
               y == b * r
    <2>1. x \in Nat /\ y \in Nat /\ x + r <= y BY <1>1, <1>2, <1>5
    <2> HIDE DEF x, y
    <2>2. x <= y BY <2>1
    <2> QED BY <1>1, <2>2 DEF x, y
  <1> QED BY <1>3, <1>4, <1>5

LEMMA Division ==
  ASSUME NEW r \in Nat \ {0}, NEW m \in Nat
  PROVE  m \div r \in Nat /\ m % r \in 0 .. r - 1 /\ m = (m \div r) * r + (m % r)
  BY SMT

LEMMA DivisionUnique ==
  ASSUME NEW r \in Nat \ {0}, NEW a \in Nat, NEW j \in 0 .. r - 1
  PROVE  (a * r + j) \div r = a /\ (a * r + j) % r = j
  <1> DEFINE m == a * r + j
             q == m \div r
  <1>0. m \in Nat /\ m = a * r + j OBVIOUS
  <1> HIDE DEF m
  <1>1. q \in Nat /\ m % r \in 0 .. r - 1 /\ m = q * r + (m % r) BY <1>0, Division
  <1> HIDE DEF q
  <1>2. ~(q < a) /\ ~(a < q) BY <1>0, <1>1, Multiples
  <1>3. q = a BY <1>1, <1>2
  <1> QED BY <1>0, <1>1, <1>3 DEF m, q

LEMMA Sizes == /\ H = 4 /\ RCVBUFSIZE = 4 + Body /\ RCVBUFSIZE \in Nat /\ RCVBUFSIZE >= 5
               /\ DOMAIN Header = 1 .. 4
               /\ Header[1] = "0a" /\ Header[2] = "0c" /\ Header[3] = "0a" /\ Header[4] = "0a"
  BY FrameAssumption DEF H, RCVBUFSIZE, Header

\* What is at place j of frame a + 1.
LEMMA StreamPlace ==
  ASSUME NEW a \in Nat, NEW j \in 1 .. RCVBUFSIZE, NEW m, m = a * RCVBUFSIZE + j
  PROVE  Stream(m) = [frame |-> a + 1, place |-> j]
  <1> DEFINE r == RCVBUFSIZE
  <1>1. r \in Nat \ {0} /\ j - 1 \in 0 .. r - 1 BY Sizes
  <1>2. (a * r + j) - 1 = a * r + (j - 1) /\ a * r \in Nat BY <1>1
  <1> HIDE DEF r
  <1>3. ((a * r + j) - 1) \div r = a /\ ((a * r + j) - 1) % r = j - 1
    BY <1>1, <1>2, DivisionUnique
  <1>4. Stream(m) = Frame(a + 1)[(j - 1) + 1] BY <1>3 DEF Stream, r
  <1>5. (j - 1) + 1 = j BY <1>1
  <1> QED BY <1>4, <1>5 DEF Frame, r

\* Every byte of the stream is at some place of a frame.
LEMMA StreamIndex ==
  ASSUME NEW m \in Nat \ {0}
  PROVE  \E a \in Nat, j \in 1 .. RCVBUFSIZE : m = a * RCVBUFSIZE + j
  <1> DEFINE r == RCVBUFSIZE
  <1>1. r \in Nat \ {0} /\ m - 1 \in Nat BY Sizes
  <1> HIDE DEF r
  <1>2. PICK a \in Nat, j \in 0 .. r - 1 : m - 1 = a * r + j BY <1>1, Division
  <1>3. a * r \in Nat BY <1>1
  <1>4. j + 1 \in 1 .. r /\ m = a * r + (j + 1) BY <1>1, <1>2, <1>3
  <1> QED BY <1>4 DEF r

\* The byte at the last place of frame a is not read before the frame has been.
LEMMA LastByte ==
  ASSUME NEW m \in Nat \ {0}, NEW a \in Nat \ {0}, Stream(m).frame = a, Stream(m).place = RCVBUFSIZE
  PROVE  m = a * RCVBUFSIZE
  <1>1. PICK b \in Nat, j \in 1 .. RCVBUFSIZE : m = b * RCVBUFSIZE + j BY StreamIndex
  <1>2. Stream(m) = [frame |-> b + 1, place |-> j] BY <1>1, StreamPlace
  <1>3. a = b + 1 /\ j = RCVBUFSIZE BY <1>2
  <1> QED BY <1>1, <1>3, Sizes

\* What has been written consists of bytes of at most MaxFrames frames.
LEMMA StreamBytes ==
  ASSUME NEW m \in Nat \ {0}, m <= MaxFrames * RCVBUFSIZE PROVE Stream(m) \in Byte
  <1>1. PICK a \in Nat, j \in 1 .. RCVBUFSIZE : m = a * RCVBUFSIZE + j BY StreamIndex
  <1>2. ~(MaxFrames <= a)
    <2>1. SUFFICES ASSUME MaxFrames <= a PROVE FALSE OBVIOUS
    <2>2. MaxFrames * RCVBUFSIZE <= a * RCVBUFSIZE
      BY <2>1, Sizes, FrameAssumption, Multiples
    <2> QED BY <1>1, <2>2, Sizes, FrameAssumption
  <1>3. Stream(m) = [frame |-> a + 1, place |-> j] BY <1>1, StreamPlace
  <1> QED BY <1>1, <1>2, <1>3, Sizes, FrameAssumption DEF Byte

-----------------------------------------------------------------------------
(* Buffers and values.                                                     *)

\* The value in a buffer is what follows the header.
LEMMA ValueOf ==
  ASSUME NEW b \in [1 .. RCVBUFSIZE -> [frame : Nat, place : Nat]]
  PROVE  Value(b) = [i \in 1 .. Body |-> b[4 + i]]
  <1> DEFINE S == [frame : Nat, place : Nat]
  <1>1. \A i \in 5 .. RCVBUFSIZE : b[i] \in S BY Sizes
  <1>2. /\ SubSeq(b, 5, RCVBUFSIZE) \in Seq(S) /\ Len(SubSeq(b, 5, RCVBUFSIZE)) = Body
        /\ \A i \in 1 .. Body : SubSeq(b, 5, RCVBUFSIZE)[i] = b[4 + i]
    <2>1. 5 \in Int /\ RCVBUFSIZE \in Int /\ RCVBUFSIZE - 5 + 1 = Body /\ 5 <= RCVBUFSIZE
      BY Sizes, FrameAssumption
    <2> HIDE DEF S
    <2>2. /\ SubSeq(b, 5, RCVBUFSIZE) \in Seq(S) /\ Len(SubSeq(b, 5, RCVBUFSIZE)) = Body
          /\ \A i \in 1 .. Body : SubSeq(b, 5, RCVBUFSIZE)[i] = b[5 + i - 1]
      BY <1>1, <2>1, SubSeqProperties
    <2>3. \A i \in 1 .. Body : 5 + i - 1 = 4 + i OBVIOUS
    <2> QED BY <2>2, <2>3
  <1>3. Value(b) = SubSeq(b, 5, RCVBUFSIZE) BY Sizes DEF Value
  <1> QED BY <1>2, <1>3, FrameAssumption

LEMMA BytesTyped == Byte \subseteq [frame : Nat, place : Nat]
  BY Sizes, FrameAssumption DEF Byte

\* A value is intact only if its last byte is that of its own frame.
LEMMA IntactEndsRight ==
  ASSUME NEW b \in [1 .. RCVBUFSIZE -> Byte], NEW n \in Nat, Value(b) = Value(Frame(n))
  PROVE  b[RCVBUFSIZE].frame = n /\ b[RCVBUFSIZE].place = RCVBUFSIZE
  <1>1. Frame(n) \in [1 .. RCVBUFSIZE -> [frame : Nat, place : Nat]] BY Sizes DEF Frame
  <1>2. b \in [1 .. RCVBUFSIZE -> [frame : Nat, place : Nat]] BY BytesTyped
  <1>3. b[4 + Body] = Frame(n)[4 + Body]
    <2>1. Value(b) = [i \in 1 .. Body |-> b[4 + i]] BY <1>2, ValueOf
    <2>2. Value(Frame(n)) = [i \in 1 .. Body |-> Frame(n)[4 + i]] BY <1>1, ValueOf
    <2>3. Body \in 1 .. Body BY FrameAssumption
    <2>4. Value(b)[Body] = b[4 + Body] /\ Value(Frame(n))[Body] = Frame(n)[4 + Body]
      BY <2>1, <2>2, <2>3, Zenon
    <2> QED BY <2>4
  <1> QED BY <1>3, Sizes, FrameAssumption DEF Frame

\* A buffer that holds a whole frame unpacks.
LEMMA FrameUnpacks ==
  ASSUME NEW n \in Nat PROVE Unpacks(Frame(n))
  BY Sizes DEF Unpacks, Frame, Char

-----------------------------------------------------------------------------
(* The invariant.                                                          *)

LEMMA StreamStarts == StreamInit => StreamInv
  <1> SUFFICES ASSUME StreamInit PROVE StreamInv OBVIOUS
  <1>1. PICK S \in SUBSET (1 .. H) : buf = Leftover(S) BY DEF StreamInit
  <1>2. \A i \in 1 .. RCVBUFSIZE : buf[i].frame = 0 BY <1>1 DEF Leftover
  <1>3. buf \in [1 .. RCVBUFSIZE -> Byte] BY <1>1, Sizes, FrameAssumption DEF Leftover, Byte
  <1>4. StreamTypeOK /\ pos <= written * RCVBUFSIZE
    <2>1. MaxFrames * RCVBUFSIZE \in Nat /\ 0 * RCVBUFSIZE = 0
      BY Sizes, FrameAssumption, Products
    <2>2. forwarded \in Seq([1 .. Body -> Byte]) BY DEF StreamInit
    <2>3. pos <= written * RCVBUFSIZE BY <2>1 DEF StreamInit
    <2>4. pos \in 0 .. MaxFrames * RCVBUFSIZE
      <3> DEFINE most == MaxFrames * RCVBUFSIZE
      <3>1. most \in Nat BY <2>1
      <3> HIDE DEF most
      <3>2. pos \in 0 .. most BY <3>1 DEF StreamInit
      <3> QED BY <3>2 DEF most
    <2>5. closed \in BOOLEAN /\ short \in BOOLEAN BY Zenon DEF StreamInit
    <2>6. written \in 0 .. MaxFrames /\ status = "running" BY FrameAssumption DEF StreamInit
    <2> QED BY <1>3, <2>2, <2>3, <2>4, <2>5, <2>6, Zenon DEF StreamTypeOK
  <1>5. BufInv BY <1>2 DEF BufInv
  <1>6. WholeReadsSuffice /\ ShortInv BY Sizes DEF StreamInit, WholeReadsSuffice, ShortInv
  <1> QED BY <1>4, <1>5, <1>6 DEF StreamInv

\* What a read finds: k bytes that have been written, at most a buffer full.
LEMMA ReadSize ==
  ASSUME StreamInv, NEW k, k \in RecvSizes
  PROVE  k \in 1 .. RCVBUFSIZE /\ pos + k <= written * RCVBUFSIZE
  <1>1. pos \in Nat /\ written \in Nat /\ written * RCVBUFSIZE \in Nat /\ pos <= written * RCVBUFSIZE
    BY Sizes, FrameAssumption DEF StreamInv, StreamTypeOK
  <1>2. StreamUnread \in Nat /\ pos + StreamUnread = written * RCVBUFSIZE BY <1>1 DEF StreamUnread
  <1> HIDE DEF StreamUnread
  <1>3. k \in Nat /\ 1 <= k /\ k <= RCVBUFSIZE /\ k <= StreamUnread
    BY <1>2, Sizes, FrameAssumption DEF RecvSizes
  <1> QED BY <1>1, <1>2, <1>3, Sizes

\* A read leaves bytes in the buffer whose place in the stream is known.
LEMMA ReadFills ==
  ASSUME StreamInv, NEW k, k \in RecvSizes
  PROVE  /\ Filled(k) \in [1 .. RCVBUFSIZE -> Byte]
         /\ \A i \in 1 .. RCVBUFSIZE :
              Filled(k)[i].frame = 0 \/ \E m \in 1 .. pos + k : Filled(k)[i] = Stream(m)
         /\ \A i \in 1 .. k : Filled(k)[i] = Stream(pos + i)
  <1>1. k \in 1 .. RCVBUFSIZE /\ pos + k <= written * RCVBUFSIZE BY ReadSize
  <1>2. pos \in Nat /\ written \in 0 .. MaxFrames /\ buf \in [1 .. RCVBUFSIZE -> Byte]
    BY Sizes, FrameAssumption DEF StreamInv, StreamTypeOK
  <1>3. written * RCVBUFSIZE <= MaxFrames * RCVBUFSIZE
    BY <1>2, Sizes, FrameAssumption, Products
  <1>4. \A i \in 1 .. k : pos + i \in Nat \ {0} /\ pos + i <= MaxFrames * RCVBUFSIZE
    <2>1. written * RCVBUFSIZE \in Nat /\ MaxFrames * RCVBUFSIZE \in Nat
      BY <1>2, Sizes, FrameAssumption, Products
    <2> QED BY <1>1, <1>2, <1>3, <2>1
  <1>5. \A i \in 1 .. k : Stream(pos + i) \in Byte BY <1>4, StreamBytes
  <1>6. \A i \in 1 .. k : Filled(k)[i] = Stream(pos + i) BY <1>1, Sizes DEF Filled
  <1>7. \A i \in 1 .. RCVBUFSIZE : i > k => Filled(k)[i] = buf[i] BY <1>1, Sizes DEF Filled
  <1>8. Filled(k) \in [1 .. RCVBUFSIZE -> Byte]
    <2>1. ASSUME NEW i \in 1 .. RCVBUFSIZE PROVE Filled(k)[i] \in Byte
      <3>1. i \in 1 .. k \/ i > k BY <1>1
      <3>2. i > k => Filled(k)[i] = buf[i] /\ buf[i] \in Byte BY <1>2, <1>7
      <3> QED BY <1>5, <1>6, <3>1, <3>2
    <2> QED BY <2>1 DEF Filled
  <1>9. ASSUME NEW i \in 1 .. RCVBUFSIZE
        PROVE  Filled(k)[i].frame = 0 \/ \E m \in 1 .. pos + k : Filled(k)[i] = Stream(m)
    <2>1. CASE i <= k
      <3>1. pos + i \in 1 .. pos + k /\ i \in 1 .. k BY <1>1, <1>2, <2>1
      <3> QED BY <1>6, <3>1
    <2>2. CASE i > k
      <3>1. \A m \in 1 .. pos : m \in 1 .. pos + k BY <1>1, <1>2
      <3> QED BY <1>7, <2>2, <3>1 DEF StreamInv, BufInv
    <2> QED BY <1>1, <2>1, <2>2, Sizes
  <1> QED BY <1>6, <1>8, <1>9

\* The parts of the invariant that do not speak of values.
LEMMA BytesStep ==
  ASSUME StreamInv, [StreamNext]_streamVars
  PROVE  StreamTypeOK' /\ pos' <= written' * RCVBUFSIZE /\ BufInv'
  <1> USE DEF StreamInv
  <1>0. /\ pos \in Nat /\ written \in 0 .. MaxFrames /\ written \in Nat /\ RCVBUFSIZE \in Nat
        /\ MaxFrames \in Nat
    BY Sizes, FrameAssumption DEF StreamTypeOK
  <1>1. CASE Send
    <2>1. written' \in 0 .. MaxFrames /\ written' \in Nat /\ written <= written'
      BY <1>0, <1>1 DEF Send
    <2>2. written * RCVBUFSIZE \in Nat /\ written' * RCVBUFSIZE \in Nat
          /\ written * RCVBUFSIZE <= written' * RCVBUFSIZE
      <3> HIDE DEF StreamInv
      <3> QED BY <1>0, <2>1, Products
    <2>4. pos <= written' * RCVBUFSIZE BY <1>0, <2>2
    <2>5. BufInv' BY <1>1 DEF Send, BufInv, Stream
    <2> QED BY <1>1, <2>1, <2>4, <2>5 DEF Send, StreamTypeOK
  <1>2. CASE Close \/ EndOfStream \/ UNCHANGED streamVars
    BY <1>2 DEF Close, EndOfStream, streamVars, StreamTypeOK, BufInv, Stream
  <1>3. ASSUME NEW k \in 1 .. RCVBUFSIZE, Recv(k)
        PROVE  StreamTypeOK' /\ pos' <= written' * RCVBUFSIZE /\ BufInv'
    <2>1. /\ k \in RecvSizes /\ pos' = pos + k /\ buf' = Filled(k) /\ UNCHANGED <<written, closed>>
          /\ short' = (short \/ k < RCVBUFSIZE)
      BY <1>3 DEF Recv
    <2>2. pos + k <= written * RCVBUFSIZE BY <2>1, ReadSize
    <2>3. buf' \in [1 .. RCVBUFSIZE -> Byte] BY <2>1, ReadFills
    <2>4. /\ written * RCVBUFSIZE \in Nat /\ MaxFrames * RCVBUFSIZE \in Nat
          /\ written * RCVBUFSIZE <= MaxFrames * RCVBUFSIZE
      BY <1>0, Products
    <2>5. pos' \in 0 .. MaxFrames * RCVBUFSIZE BY <1>0, <2>1, <2>2, <2>4
    <2>6. forwarded' \in Seq([1 .. Body -> Byte])
      <3>1. Value(buf') \in [1 .. Body -> Byte]
        <4>1. buf' \in [1 .. RCVBUFSIZE -> [frame : Nat, place : Nat]] BY <2>3, BytesTyped
        <4>2. Value(buf') = [i \in 1 .. Body |-> buf'[4 + i]] BY <4>1, ValueOf
        <4>3. \A i \in 1 .. Body : 4 + i \in 1 .. RCVBUFSIZE BY Sizes, FrameAssumption
        <4> QED BY <2>3, <4>2, <4>3
      <3>2. forwarded' = forwarded \/ forwarded' = Append(forwarded, Value(buf')) BY <1>3 DEF Recv
      <3> QED BY <3>1, <3>2 DEF StreamTypeOK
    <2>7. status' \in {"running", "returned", "crashed"} /\ short' \in BOOLEAN
      BY <1>3 DEF Recv, StreamTypeOK
    <2>8. StreamTypeOK' BY <2>1, <2>3, <2>5, <2>6, <2>7 DEF StreamTypeOK
    <2>9. BufInv' BY <2>1, ReadFills DEF BufInv, Stream
    <2> QED BY <2>1, <2>2, <2>8, <2>9
  <1> QED BY <1>1, <1>2, <1>3 DEF StreamNext

\* A read that leaves the buffer unpackable starts with 0a, and goes on with 0c.
LEMMA HeaderRead ==
  ASSUME StreamInv, NEW k, k \in RecvSizes, Unpacks(Filled(k))
  PROVE  /\ Char(Stream(pos + 1)) = "0a"
         /\ k >= 2 => Char(Stream(pos + 2)) = "0c"
  <1>1. k \in 1 .. RCVBUFSIZE BY ReadSize
  <1>2. Char(Filled(k)[1]) = "0a" /\ Char(Filled(k)[2]) = "0c" BY Sizes DEF Unpacks
  <1>3. Filled(k)[1] = Stream(pos + 1) /\ (k >= 2 => Filled(k)[2] = Stream(pos + 2))
    BY <1>1, ReadFills
  <1> QED BY <1>2, <1>3

\* A whole read from the end of frame n is frame n + 1.
LEMMA WholeRead ==
  ASSUME StreamInv, NEW n \in Nat, pos = n * RCVBUFSIZE, RCVBUFSIZE \in RecvSizes
  PROVE  Filled(RCVBUFSIZE) = Frame(n + 1)
  <1>1. ASSUME NEW i \in 1 .. RCVBUFSIZE PROVE Filled(RCVBUFSIZE)[i] = Frame(n + 1)[i]
    <2>1. Stream(pos + i) = [frame |-> n + 1, place |-> i] BY StreamPlace
    <2>2. Filled(RCVBUFSIZE)[i] = Stream(pos + i) BY ReadFills
    <2> QED BY <2>1, <2>2 DEF Frame
  <1> QED BY <1>1 DEF Filled, Frame

\* What is forwarded before the receiver has read to the end of its frame is damaged.
LEMMA EarlyIsDamaged ==
  ASSUME StreamInv, NEW k, k \in RecvSizes, NEW n \in Nat \ {0}, pos + k < n * RCVBUFSIZE
  PROVE  Value(Filled(k)) # Value(Frame(n))
  <1> SUFFICES ASSUME Value(Filled(k)) = Value(Frame(n)) PROVE FALSE OBVIOUS
  <1> DEFINE last == Filled(k)[RCVBUFSIZE]
  <1>1. last.frame = n /\ last.place = RCVBUFSIZE BY ReadFills, IntactEndsRight
  <1>2. PICK m \in 1 .. pos + k : last = Stream(m)
    BY <1>1, ReadFills, Sizes
  <1>3. pos + k \in Nat BY ReadSize, Sizes DEF StreamInv, StreamTypeOK
  <1>4. m \in Nat \ {0} BY <1>3
  <1>5. m = n * RCVBUFSIZE
    <2> HIDE DEF last
    <2>1. Stream(m).frame = n /\ Stream(m).place = RCVBUFSIZE BY <1>1, <1>2
    <2> QED BY <1>4, <2>1, LastByte
  <1>6. n * RCVBUFSIZE \in Nat BY Sizes
  <1> QED BY <1>2, <1>3, <1>5, <1>6

\* Once a read has fallen short, only a single byte 0a of a header is taken further.
LEMMA SecondRead ==
  ASSUME StreamInv, NEW k, k \in RecvSizes, Unpacks(Filled(k)),
         NEW a \in Nat, NEW o \in 1 .. RCVBUFSIZE - 1, pos = a * RCVBUFSIZE + o
  PROVE  k = 1 /\ o \in {2, 3}
  <1>1. o + 1 \in 1 .. RCVBUFSIZE /\ k \in 1 .. RCVBUFSIZE BY Sizes, ReadSize
  <1>2. Stream(pos + 1) = [frame |-> a + 1, place |-> o + 1]
    <2>1. pos + 1 = a * RCVBUFSIZE + (o + 1)
      <3>1. a * RCVBUFSIZE \in Nat /\ o \in Nat BY Sizes
      <3> QED BY <3>1
    <2> QED BY <1>1, <2>1, StreamPlace
  <1>3. o \in {2, 3}
    <2>1. Char(Stream(pos + 1)) = "0a" BY HeaderRead
    <2>2. o + 1 \in DOMAIN Header /\ Header[o + 1] = "0a" BY <1>2, <2>1 DEF Char
    <2> QED BY <2>2, Sizes
  <1>4. Stream(pos + 2) = [frame |-> a + 1, place |-> o + 2]
    <2>1. pos + 2 = a * RCVBUFSIZE + (o + 2)
      <3>1. a * RCVBUFSIZE \in Nat /\ o \in Nat BY Sizes
      <3> QED BY <3>1
    <2>2. o + 2 \in 1 .. RCVBUFSIZE BY <1>3, Sizes
    <2> QED BY <2>1, <2>2, StreamPlace
  <1>5. ~(k >= 2)
    <2>1. SUFFICES ASSUME k >= 2 PROVE FALSE OBVIOUS
    <2>2. Char(Stream(pos + 2)) = "0c" BY <2>1, HeaderRead
    <2>3. o + 2 \in DOMAIN Header /\ Header[o + 2] = "0c" BY <1>4, <2>2 DEF Char
    <2> QED BY <1>3, <2>3, Sizes
  <1> QED BY <1>1, <1>3, <1>5, Sizes

\* What a read does to the values: they stay, or one more follows.
LEMMA Forwarding ==
  ASSUME StreamInv, NEW k, Recv(k)
  PROVE  /\ Len(forwarded) \in Nat /\ DOMAIN forwarded = 1 .. Len(forwarded)
         /\ Unpacks(Filled(k)) =>
              /\ forwarded' = Append(forwarded, Value(Filled(k))) /\ status' = "running"
              /\ Len(forwarded') = Len(forwarded) + 1 /\ DOMAIN forwarded' = 1 .. Len(forwarded) + 1
              /\ \A i \in DOMAIN forwarded : forwarded'[i] = forwarded[i]
              /\ forwarded'[Len(forwarded) + 1] = Value(Filled(k))
         /\ ~Unpacks(Filled(k)) => forwarded' = forwarded /\ status' = "crashed"
  <1>1. forwarded \in Seq([1 .. Body -> Byte]) BY DEF StreamInv, StreamTypeOK
  <1>2. Len(forwarded) \in Nat /\ DOMAIN forwarded = 1 .. Len(forwarded) BY <1>1
  <1>3. k \in RecvSizes /\ buf' = Filled(k) /\ status = "running" BY DEF Recv
  <1>4. ASSUME Unpacks(Filled(k))
        PROVE forwarded' = Append(forwarded, Value(Filled(k))) /\ status' = "running"
    BY <1>3, <1>4 DEF Recv
  <1>5. ASSUME ~Unpacks(Filled(k)) PROVE forwarded' = forwarded /\ status' = "crashed"
    BY <1>3, <1>5 DEF Recv
  <1>6. Value(Filled(k)) \in [1 .. Body -> Byte]
    <2>1. Filled(k) \in [1 .. RCVBUFSIZE -> Byte] BY <1>3, ReadFills
    <2>2. Filled(k) \in [1 .. RCVBUFSIZE -> [frame : Nat, place : Nat]] BY <2>1, BytesTyped
    <2>3. Value(Filled(k)) = [i \in 1 .. Body |-> Filled(k)[4 + i]] BY <2>2, ValueOf
    <2>4. \A i \in 1 .. Body : 4 + i \in 1 .. RCVBUFSIZE BY Sizes, FrameAssumption
    <2> QED BY <2>1, <2>3, <2>4
  <1>7. \A v \in [1 .. Body -> Byte] :
          /\ Len(Append(forwarded, v)) = Len(forwarded) + 1
          /\ DOMAIN Append(forwarded, v) = 1 .. Len(forwarded) + 1
          /\ \A i \in DOMAIN forwarded : Append(forwarded, v)[i] = forwarded[i]
          /\ Append(forwarded, v)[Len(forwarded) + 1] = v
    BY <1>1
  <1> QED BY <1>2, <1>4, <1>5, <1>6, <1>7

\* The first short read: the value is damaged, unless the buffer does not unpack at all.
LEMMA FirstShort ==
  ASSUME StreamInv, ~short, NEW k \in 1 .. RCVBUFSIZE - 1, Recv(k)
  PROVE  ShortInv'
  <1>n. PICK n \in Nat : n = Len(forwarded) BY Forwarding
  <1>1. k \in RecvSizes /\ pos' = pos + k BY DEF Recv
  <1>2. pos = n * RCVBUFSIZE /\ DOMAIN forwarded = 1 .. n /\ \A i \in DOMAIN forwarded : Intact(i)
    BY <1>n, Forwarding DEF StreamInv, WholeReadsSuffice
  <1>3. CASE Unpacks(Filled(k))
    <2>1. pos + k < (n + 1) * RCVBUFSIZE
      <3>1. (n + 1) * RCVBUFSIZE = n * RCVBUFSIZE + RCVBUFSIZE /\ n * RCVBUFSIZE \in Nat
        BY <1>2, Sizes
      <3> QED BY <1>2, <3>1, Sizes
    <2>2. n + 1 \in Nat \ {0} BY <1>2
    <2>3. Value(Filled(k)) # Value(Frame(n + 1)) BY <1>1, <2>1, <2>2, EarlyIsDamaged
    <2>4. /\ Len(forwarded') = n + 1 /\ DOMAIN forwarded' = 1 .. n + 1 /\ DOMAIN forwarded = 1 .. n
          /\ \A i \in 1 .. n : forwarded'[i] = forwarded[i]
          /\ forwarded'[n + 1] = Value(Filled(k))
      BY <1>3, <1>n, Forwarding
    <2>5. \A i \in DOMAIN forwarded' : Intact(i)' <=> i <= n
      BY <1>2, <2>3, <2>4 DEF Intact
    <2>6. IntactUpTo(n)' BY <1>2, <2>4, <2>5 DEF IntactUpTo
    <2>7. Offset(n, k, n + 1)' BY <1>1, <1>2 DEF Offset
    <2>8. n \in 0 .. Len(forwarded') /\ Len(forwarded') = n + 1 BY <1>2, <2>4
    <2> QED BY <2>6, <2>7, <2>8 DEF ShortInv
  <1>4. CASE ~Unpacks(Filled(k))
    <2>1. forwarded' = forwarded /\ status' = "crashed" BY <1>4, Forwarding
    <2>2. IntactUpTo(n)' BY <1>n, <1>2, <2>1 DEF IntactUpTo, Intact
    <2>3. n \in 0 .. Len(forwarded') BY <1>n, <2>1
    <2> QED BY <2>1, <2>2, <2>3 DEF ShortInv
  <1> QED BY <1>3, <1>4

\* After that, every further value is damaged too, and there are not many.
LEMMA LaterShort ==
  ASSUME StreamInv, short, NEW k, Recv(k)
  PROVE  ShortInv'
  <1>n. PICK n \in Nat : n = Len(forwarded) BY Forwarding
  <1>1. k \in RecvSizes /\ pos' = pos + k /\ status = "running" BY DEF Recv
  <1>2. DOMAIN forwarded = 1 .. n BY <1>n, Forwarding
  <1>3. PICK a \in 0 .. n, o \in 1 .. RCVBUFSIZE - 1 : IntactUpTo(a) /\ Offset(a, o, n)
    BY <1>1, <1>n DEF StreamInv, ShortInv
  <1>4. a \in Nat /\ o \in Nat /\ pos = a * RCVBUFSIZE + o /\ a * RCVBUFSIZE \in Nat
    BY <1>2, <1>3, Sizes DEF Offset
  <1>5. CASE Unpacks(Filled(k))
    <2>1. k = 1 /\ o \in {2, 3} BY <1>1, <1>3, <1>4, <1>5, SecondRead
    <2>2. n >= a + 1 /\ n + 1 \in Nat \ {0} BY <1>2, <1>3, <1>4 DEF Offset
    <2>3. pos + k < (n + 1) * RCVBUFSIZE
      <3>1. (a + 1) * RCVBUFSIZE <= (n + 1) * RCVBUFSIZE /\ (n + 1) * RCVBUFSIZE \in Nat
        <4>1. a + 1 \in Nat /\ n + 1 \in Nat /\ a + 1 <= n + 1 BY <1>4, <2>2
        <4> QED BY <4>1, Sizes, Products
      <3>2. (a + 1) * RCVBUFSIZE = a * RCVBUFSIZE + RCVBUFSIZE BY <1>4, Sizes
      <3> QED BY <1>4, <2>1, <3>1, <3>2, Sizes
    <2>4. Value(Filled(k)) # Value(Frame(n + 1)) BY <1>1, <2>2, <2>3, EarlyIsDamaged
    <2>5. /\ Len(forwarded') = n + 1 /\ DOMAIN forwarded' = 1 .. n + 1
          /\ \A i \in 1 .. n : forwarded'[i] = forwarded[i]
          /\ forwarded'[n + 1] = Value(Filled(k))
      BY <1>n, <1>2, <1>5, Forwarding
    <2>6. \A i \in DOMAIN forwarded' : Intact(i)' <=> i <= a
      BY <1>2, <1>3, <1>4, <2>2, <2>4, <2>5 DEF IntactUpTo, Intact
    <2>7. o + 1 \in 1 .. RCVBUFSIZE - 1 /\ Offset(a, o + 1, n + 1)'
      <3>1. pos' = a * RCVBUFSIZE + (o + 1) BY <1>1, <1>4, <2>1
      <3>2. n = a + 1 \/ (n = a + 2 /\ o = 3) BY <1>3, <2>1 DEF Offset
      <3> QED BY <1>4, <2>1, <3>1, <3>2, Sizes DEF Offset
    <2>8. n + 1 <= a + 3 BY <1>2, <1>4, <2>7 DEF Offset
    <2>9. IntactUpTo(a)' BY <2>5, <2>6, <2>8 DEF IntactUpTo
    <2>10. a \in 0 .. Len(forwarded') BY <1>2, <1>4, <2>2, <2>5
    <2> QED BY <2>5, <2>7, <2>9, <2>10 DEF ShortInv
  <1>6. CASE ~Unpacks(Filled(k))
    <2>1. forwarded' = forwarded /\ status' = "crashed" BY <1>6, Forwarding
    <2>2. IntactUpTo(a)' BY <1>3, <2>1 DEF IntactUpTo, Intact
    <2> QED BY <1>n, <1>3, <2>1, <2>2 DEF ShortInv
  <1> QED BY <1>5, <1>6

\* A whole read after whole reads forwards the next value, unharmed.
LEMMA NextWhole ==
  ASSUME StreamInv, ~short, Recv(RCVBUFSIZE)
  PROVE  WholeReadsSuffice'
  <1>n. PICK n \in Nat : n = Len(forwarded) BY Forwarding
  <1>1. RCVBUFSIZE \in RecvSizes /\ pos' = pos + RCVBUFSIZE BY DEF Recv
  <1>2. pos = n * RCVBUFSIZE /\ DOMAIN forwarded = 1 .. n /\ \A i \in DOMAIN forwarded : Intact(i)
    BY <1>n, Forwarding DEF StreamInv, WholeReadsSuffice
  <1>3. Filled(RCVBUFSIZE) = Frame(n + 1) BY <1>1, <1>2, WholeRead
  <1>4. Unpacks(Filled(RCVBUFSIZE)) BY <1>3, FrameUnpacks
  <1>5. /\ Len(forwarded') = n + 1 /\ DOMAIN forwarded' = 1 .. n + 1 /\ status' = "running"
        /\ \A i \in 1 .. n : forwarded'[i] = forwarded[i]
        /\ forwarded'[n + 1] = Value(Frame(n + 1))
    BY <1>n, <1>2, <1>3, <1>4, Forwarding
  <1>6. \A i \in DOMAIN forwarded' : Intact(i)' BY <1>2, <1>5 DEF Intact
  <1>7. pos' = (n + 1) * RCVBUFSIZE
    <2>1. (n + 1) * RCVBUFSIZE = n * RCVBUFSIZE + RCVBUFSIZE BY Sizes
    <2> QED BY <1>1, <1>2, <2>1
  <1> QED BY <1>5, <1>6, <1>7 DEF WholeReadsSuffice

LEMMA ValuesStep ==
  ASSUME StreamInv, [StreamNext]_streamVars PROVE WholeReadsSuffice' /\ ShortInv'
  <1> SUFFICES (WholeReadsSuffice /\ ShortInv)' OBVIOUS
  <1>1. CASE Send \/ Close \/ UNCHANGED streamVars
    BY <1>1 DEF Send, Close, streamVars, StreamInv, WholeReadsSuffice, ShortInv, IntactUpTo, Intact, Offset
  <1>2. CASE EndOfStream
    BY <1>2 DEF EndOfStream, StreamInv, WholeReadsSuffice, ShortInv, IntactUpTo, Intact, Offset
  <1>3. ASSUME NEW k \in 1 .. RCVBUFSIZE, Recv(k) PROVE WholeReadsSuffice' /\ ShortInv'
    <2>1. short' = (short \/ k < RCVBUFSIZE) BY <1>3 DEF Recv
    <2>2. CASE short BY <1>3, <2>1, <2>2, LaterShort DEF WholeReadsSuffice
    <2>3. CASE ~short /\ k < RCVBUFSIZE
      <3>1. k \in 1 .. RCVBUFSIZE - 1 BY <2>3, Sizes
      <3> QED BY <1>3, <2>1, <2>3, <3>1, FirstShort DEF WholeReadsSuffice
    <2>4. CASE ~short /\ k = RCVBUFSIZE
      <3>0. ~(k < RCVBUFSIZE) BY <2>4, Sizes
      <3>1. ~short' BY <2>1, <2>4, <3>0, Zenon
      <3> QED BY <1>3, <2>4, <3>1, NextWhole DEF ShortInv
    <2> QED BY <2>2, <2>3, <2>4, Sizes
  <1> QED BY <1>1, <1>2, <1>3 DEF StreamNext

\* The strengthened invariant holds in every reachable state.
THEOREM StreamInvariant == StreamSpec => []StreamInv
  <1>1. StreamInv /\ [StreamNext]_streamVars => StreamInv' BY BytesStep, ValuesStep DEF StreamInv
  <1> QED BY <1>1, StreamStarts, PTL DEF StreamSpec

-----------------------------------------------------------------------------
\* For values of every length and any number of frames the receiver stays within what
\* was written and keeps a buffer of its size.
THEOREM StreamTyped == StreamSpec => []StreamTypeOK
  <1>1. StreamInv => StreamTypeOK BY DEF StreamInv
  <1> QED BY <1>1, StreamInvariant, PTL

\* For values of every length, whole reads deliver every value unharmed and in its place,
\* whatever the buffer held at first (HandleTCPClient.c:40-64, manager.c:80-99).
THEOREM WholeReadsDeliver == StreamSpec => []WholeReadsSuffice
  <1>1. StreamInv => WholeReadsSuffice BY DEF StreamInv
  <1> QED BY <1>1, StreamInvariant, PTL

\* For values of every length, no intact value follows a damaged one
\* (HandleTCPClient.c:45, manager.c:86).
THEOREM NeverAlignedAgain == StreamSpec => []NeverRealigned
  <1>1. StreamInv => NeverRealigned
    <2> SUFFICES ASSUME StreamInv, NEW i \in DOMAIN forwarded, NEW j \in DOMAIN forwarded,
                        i < j, ~Intact(i), Intact(j)
                 PROVE  FALSE
      BY DEF NeverRealigned
    <2>1. short BY DEF StreamInv, WholeReadsSuffice
    <2>2. PICK a \in 0 .. Len(forwarded) : IntactUpTo(a) BY <2>1 DEF StreamInv, ShortInv
    <2>3. ~(i <= a) /\ j <= a BY <2>2 DEF IntactUpTo
    <2>4. Len(forwarded) \in Nat /\ DOMAIN forwarded = 1 .. Len(forwarded) BY DEF StreamInv, StreamTypeOK
    <2> QED BY <2>2, <2>3, <2>4
  <1> QED BY <1>1, StreamInvariant, PTL

\* For values of every length, at most three damaged values are passed on, although a frame
\* may be as long as one likes: the header alone sets the bound (HandleTCPClient.c:45, manager.c:86).
THEOREM AtMostThreeDamaged == StreamSpec => []DamageIsBounded
  <1>1. StreamInv => DamageIsBounded
    <2> SUFFICES ASSUME StreamInv PROVE DamageIsBounded OBVIOUS
    <2> DEFINE damaged == {i \in DOMAIN forwarded : ~Intact(i)}
    <2>n. PICK n \in Nat : n = Len(forwarded) /\ DOMAIN forwarded = 1 .. n BY DEF StreamInv, StreamTypeOK
    <2>1. PICK a \in 0 .. n : n <= a + 3 /\ damaged \subseteq a + 1 .. n
      <3>1. CASE ~short
        <4>1. damaged = {} BY <3>1 DEF StreamInv, WholeReadsSuffice
        <4> QED BY <2>n, <4>1
      <3>2. CASE short
        <4>1. PICK a \in 0 .. n : IntactUpTo(a) BY <2>n, <3>2 DEF StreamInv, ShortInv
        <4>2. \A i \in damaged : i \in 1 .. n /\ ~(i <= a) BY <2>n, <4>1 DEF IntactUpTo
        <4>3. \A i \in damaged : i \in a + 1 .. n BY <2>n, <4>2
        <4>4. n <= a + 3 BY <2>n, <4>1 DEF IntactUpTo
        <4> QED BY <4>3, <4>4
      <3> QED BY <3>1, <3>2
    <2> HIDE DEF damaged
    <2>2. IsFiniteSet(a + 1 .. n) /\ Cardinality(a + 1 .. n) <= 3 /\ Cardinality(a + 1 .. n) \in Nat
      <3>1. a + 1 \in Int /\ n \in Int BY <2>n
      <3>2. /\ IsFiniteSet(a + 1 .. n)
            /\ Cardinality(a + 1 .. n) = IF a + 1 > n THEN 0 ELSE n - (a + 1) + 1
        BY <3>1, FS_Interval
      <3> QED BY <2>1, <3>2
    <2>3. Cardinality(damaged) <= Cardinality(a + 1 .. n) BY <2>1, <2>2, FS_Subset
    <2>4. Cardinality(damaged) \in Nat BY <2>1, <2>2, FS_Subset, FS_CardinalityType
    <2>5. Cardinality(damaged) <= H - 1 BY <2>2, <2>3, <2>4, Sizes
    <2> QED BY <2>5 DEF DamageIsBounded, damaged
  <1> QED BY <1>1, StreamInvariant, PTL
=============================================================================
