----------------------------- MODULE IgmpServer -----------------------------
(***************************************************************************)
(* The IGMP server prototype of Trash/IGMP_server.c and the hosts of its   *)
(* network.  The main thread counts reports and leaves; while the count is *)
(* not zero a second thread sends a general query every two seconds, which *)
(* every member answers with one more report.  The thread is cancelled     *)
(* when the count returns to zero, and is never joined.  igmpv2_query      *)
(* never sets sin_addr (63-66), so a query follows the route to whatever   *)
(* address the stack holds: it reaches any of the members, or sendto fails.*)
(***************************************************************************)
EXTENDS Integers, Sequences, FiniteSets

CONSTANTS Hosts,        \* hosts, each a member of one group of its own
          Lossy,        \* whether a report or leave may be lost on the network
          ThreadLimit,  \* threads, ended ones included, that pthread_create allows
          MaxPackets    \* bound: reports and leaves that hosts send

ASSUME ServerAssumption == /\ Lossy \in BOOLEAN
                           /\ ThreadLimit \in Nat \ {0} /\ MaxPackets \in Nat

VARIABLES
  members,         \* the hosts that are members
  asked,           \* history: those that have seen a query since they joined
  due,             \* those that have a query to answer
  socket, packets,  \* packets waiting in the server's socket; how many were sent
  lost,            \* history: whether any packet of a host has been lost
  missed,          \* history: whether any query has failed or missed a member
  clients,         \* the server's count
  threads,         \* every query thread ever created, the newest last
  thread_started,  \* whether the newest has not been cancelled
  process           \* "running", or "exited" when pthread_create has failed

hostVars   == <<members, asked, due>>
netVars    == <<socket, packets, lost, missed>>
serverVars == <<clients, threads, thread_started, process>>
igmpVars == <<hostVars, netVars, serverVars>>

\* A thread is asleep or inside sendto, past the point where it can be cancelled.
Thread == [pc : {"sleep", "sending", "ended"}, cancelled : BOOLEAN,
           late : Nat]  \* history: queries it sent after it was cancelled

ServerTypeOK ==
  /\ members \in SUBSET Hosts /\ asked \in SUBSET members /\ due \in SUBSET Hosts
  /\ socket \in Seq({"report", "leave"}) /\ packets \in 0 .. MaxPackets
  /\ lost \in BOOLEAN /\ missed \in BOOLEAN
  /\ clients \in Int /\ thread_started \in BOOLEAN
  /\ threads \in Seq(Thread) /\ Len(threads) <= ThreadLimit
  /\ process \in {"running", "exited"}

ServerInit ==
  /\ members = {} /\ asked = {} /\ due = {}
  /\ socket = <<>> /\ packets = 0 /\ lost = FALSE /\ missed = FALSE
  /\ clients = 0 /\ threads = <<>> /\ thread_started = FALSE /\ process = "running"

-----------------------------------------------------------------------------
(* The hosts.                                                              *)

Transmit(packet) ==
  /\ packets < MaxPackets /\ packets' = packets + 1
  /\ \/ socket' = Append(socket, packet) /\ UNCHANGED lost
     \/ Lossy /\ lost' = TRUE /\ UNCHANGED socket

Join(h) ==
  /\ h \notin members /\ Transmit("report")
  /\ members' = members \cup {h}
  /\ UNCHANGED <<asked, due, missed, serverVars>>

\* The host's listener finds the slot cleared, or has looked at it before and will still
\* report: an answer may follow the leave.
Leave(h) ==
  /\ h \in members /\ Transmit("leave")
  /\ members' = members \ {h} /\ asked' = asked \ {h} /\ due' \in {due, due \ {h}}
  /\ UNCHANGED <<missed, serverVars>>

Answer(h) ==
  /\ h \in due /\ Transmit("report")
  /\ due' = due \ {h}
  /\ UNCHANGED <<members, asked, missed, serverVars>>

-----------------------------------------------------------------------------
(* The server.                                                             *)

\* A variant with a bug, not used below: every report finds a thread missing.
CreateAgain ==
  IF Len(threads) < ThreadLimit
  THEN /\ threads' = Append(threads, [pc |-> "sleep", cancelled |-> FALSE, late |-> 0])
       /\ UNCHANGED <<thread_started, process>>
  ELSE process' = "exited" /\ UNCHANGED <<threads, thread_started>>

\* pthread_create; its failure ends the process.
Create ==
  IF Len(threads) < ThreadLimit
  THEN /\ threads' = Append(threads, [pc |-> "sleep", cancelled |-> FALSE, late |-> 0])
       /\ thread_started' = TRUE /\ UNCHANGED process
  ELSE process' = "exited" /\ UNCHANGED <<threads, thread_started>>

\* pthread_cancel only asks the thread to end.
Cancel ==
  /\ threads' = [threads EXCEPT ![Len(threads)].cancelled = TRUE]
  /\ thread_started' = FALSE /\ UNCHANGED process

\* A variant with a bug, not used below: the count stops at one.
CountedUpToOne == IF Head(socket) = "report" THEN 1 ELSE clients - 1

Counted == IF Head(socket) = "report" THEN clients + 1 ELSE clients - 1

\* One turn of main's loop: listener, the count, and what follows from it.
Main ==
  /\ process = "running" /\ socket # <<>>
  /\ socket' = Tail(socket) /\ clients' = Counted
  /\ \/ clients' # 0 /\ ~thread_started /\ Create
     \/ clients' = 0 /\ thread_started /\ Cancel
     \/ (clients' = 0) = ~thread_started /\ UNCHANGED <<threads, thread_started, process>>
  /\ UNCHANGED <<hostVars, packets, lost, missed>>

\* A variant with a bug, not used below: cancellation is disabled in the thread.
EnterAnyway(t) ==
  /\ threads[t].pc = "sleep"
  /\ threads' = [threads EXCEPT ![t].pc = "sending"]
  /\ UNCHANGED <<hostVars, netVars, clients, thread_started, process>>

Enter(t) ==
  /\ threads[t].pc = "sleep" /\ ~threads[t].cancelled
  /\ threads' = [threads EXCEPT ![t].pc = "sending"]
  /\ UNCHANGED <<hostVars, netVars, clients, thread_started, process>>

\* The sleep of a cancelled thread, or its next one, is where it ends.
End(t) ==
  /\ threads[t].pc = "sleep" /\ threads[t].cancelled
  /\ threads' = [threads EXCEPT ![t].pc = "ended"]
  /\ UNCHANGED <<hostVars, netVars, clients, thread_started, process>>

\* sendto has succeeded, or has failed with only a message: back to sleep.
Sent(t, late) ==
  /\ threads[t].pc = "sending"
  /\ threads' = [threads EXCEPT ![t] = [threads[t] EXCEPT !.pc = "sleep", !.late = threads[t].late + late]]
  /\ UNCHANGED <<members, socket, packets, lost, clients, thread_started, process>>

\* A variant with a bug, not used below: hosts do not look for 0.0.0.0 in their table
\* (client.c:279), so those that are no members have a query to answer too.
SendQueryToAll(t) ==
  /\ Sent(t, IF threads[t].cancelled THEN 1 ELSE 0)
  /\ asked' = Hosts /\ due' = Hosts /\ UNCHANGED missed

\* The query goes out to every member, or to some.
SendQuery(t) ==
  /\ Sent(t, IF threads[t].cancelled THEN 1 ELSE 0)
  /\ \E S \in SUBSET members :
       asked' = asked \cup S /\ due' = due \cup S /\ missed' = (missed \/ S # members)

SendFails(t) ==
  /\ Sent(t, 0)
  /\ missed' = TRUE /\ UNCHANGED <<asked, due>>

Querry(t) == process = "running" /\ (Enter(t) \/ End(t) \/ SendQuery(t) \/ SendFails(t))

ServerNext ==
  \/ \E h \in Hosts : Join(h) \/ Leave(h) \/ Answer(h)
  \/ Main
  \/ \E t \in 1 .. ThreadLimit : t \in DOMAIN threads /\ Querry(t)

ServerSpec == ServerInit /\ [][ServerNext]_igmpVars

\* Both threads of the server run; hosts join, leave and answer as they like.
FairServerSpec == ServerSpec /\ WF_igmpVars(Main) /\ \A t \in 1 .. ThreadLimit : WF_igmpVars(t \in DOMAIN threads /\ Querry(t))

-----------------------------------------------------------------------------
Live == {t \in DOMAIN threads : ~threads[t].cancelled}

\* There is a query thread exactly while the count is not zero, and never two,
\* however often the count passes zero (IGMP_server.c:196-224).
OneQuerier ==
  process = "running" => Live = IF clients # 0 THEN {Len(threads)} ELSE {}

\* A cancelled thread may be caught inside sendto, but sends nothing more after
\* that one query, even if its successor is already at work (IGMP_server.c:144-154, 216).
SilentAfterCancel == \A t \in DOMAIN threads : threads[t].late <= 1

Waiting(packet) == Cardinality({k \in DOMAIN socket : socket[k] = packet})

\* Until a report or leave is lost the count, together with what is still in the socket,
\* never falls below the number of members: answers, late ones included, only add to it
\* (IGMP_server.c:185-194).
CountCoversMembers ==
  ~lost => clients + Waiting("report") - Waiting("leave") >= Cardinality(members)

\* A member that stays is asked sooner or later, unless a report or leave is lost, a query
\* goes astray, or the process has run out of threads, of which each cancelled one keeps
\* its place
\* (IGMP_server.c:144-154, 196-209).
MembersAreAsked ==
  \A h \in Hosts : h \in members ~> h \in asked \/ h \notin members \/ lost \/ missed \/ process = "exited"
=============================================================================
