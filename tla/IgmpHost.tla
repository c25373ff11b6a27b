------------------------------ MODULE IgmpHost ------------------------------
(***************************************************************************)
(* The IGMPv2 host of Igmp/client.c: the main thread answers membership    *)
(* queries (listener) while a second thread adds and deletes groups        *)
(* (commands).  They share the table rngip and its length rngiplen, with   *)
(* no lock.  Time is abstracted: the sleeps are where the threads meet.    *)
(***************************************************************************)
EXTENDS Integers, Sequences, FiniteSets

CONSTANTS Groups,           \* multicast group addresses
          NoGroup,          \* "0.0.0.0": a deleted slot, or a general query
          Unset,            \* the null pointer of a slot that was never filled
          Initial,          \* the groups of option -a
          Codes,            \* values of the query's code, in tenths of a second
          DuplicateAdds,    \* whether the user may add a group twice
          MAXCOUNTGROUPIP,  \* slots of rngip
          MaxQueries,       \* bound: queries received
          MaxCommands       \* bound: commands typed

ASSUME IgmpAssumption == /\ NoGroup \notin Groups /\ Unset \notin Groups \cup {NoGroup}
                         /\ Codes \subseteq Nat /\ Codes # {}
                         /\ DuplicateAdds \in BOOLEAN
                         /\ MAXCOUNTGROUPIP \in Nat /\ MaxQueries \in Nat /\ MaxCommands \in Nat

\* -a names one address or a range of different ones, and the table has room for them.
ASSUME InitialAssumption == /\ Initial \in Seq(Groups)
                            /\ Len(Initial) \in 1 .. MAXCOUNTGROUPIP
                            /\ \A k, l \in DOMAIN Initial : Initial[k] = Initial[l] => k = l

Slots == 0 .. MAXCOUNTGROUPIP - 1

Query == [group : Groups \cup {NoGroup}, code : Codes]

VARIABLES
  rngip, rngiplen,   \* the shared table and its length
  inbox, queries,    \* queries waiting in the socket; how many have arrived
  lpc, query,        \* listener: the statement it is at, the query in buf
  i, j, size, timer, \* its loop variables, the length of the array timer, and timer
  cpc, slot,         \* commands: the statement it is at, the slot it deletes
  typed,             \* how many commands were typed
  onWire,            \* the last packet either thread sent
  wanted,            \* history: the groups the user asked for: -a and add, without del
  stable, tally,     \* history: slots the query asks about that are left alone
                     \* while it is answered; the reports sent for each slot
  status             \* "running", "crashed", or "undefined" after an access out of bounds

tableVars    == <<rngip, rngiplen>>
socketVars   == <<inbox, queries>>
listenerVars == <<lpc, query, i, j, size, timer>>
commandVars  == <<cpc, slot, typed>>
historyVars  == <<stable, tally>>
vars == <<tableVars, socketVars, listenerVars, commandVars, onWire, wanted, historyVars, status>>

\* A variant with a bug, not used below: the last second is dropped.
LastRoundExclusive == (query.code \div 10) - 1

\* Rounds of one second each, counted from 0, in which a general query is answered.
LastRound == query.code \div 10

\* As far as its length says, the table is filled: the loops of listener follow no null
\* pointer (client.c:238-239, 269, 279, 316-320).
TypeOK ==
  /\ rngip \in [Slots -> Groups \cup {NoGroup, Unset}] /\ rngiplen \in 0 .. MAXCOUNTGROUPIP
  /\ \A s \in 0 .. rngiplen - 1 : rngip[s] # Unset
  /\ inbox \in Seq(Query) /\ queries \in 0 .. MaxQueries
  /\ lpc \in {"recv", "match", "sleep", "delays", "rounds", "report", "answered"}
  /\ query \in Query
  /\ i \in 0 .. LastRound + 1 /\ j \in 0 .. MAXCOUNTGROUPIP /\ size \in 0 .. MAXCOUNTGROUPIP
  /\ timer \in [Slots -> 0 .. LastRound]
  /\ cpc \in {"stdin", "publish", "clear"} /\ slot \in Slots /\ typed \in 0 .. MaxCommands
  /\ onWire \in [type : {"report", "leave"}, group : Groups \cup {NoGroup}]
  /\ wanted \in SUBSET Groups
  /\ stable \in SUBSET Slots /\ tally \in [Slots -> Nat]
  /\ status \in {"running", "crashed", "undefined"}

\* main has reported the groups of -a and is about to start both threads.
Init ==
  /\ rngip = [s \in Slots |-> IF s < Len(Initial) THEN Initial[s + 1] ELSE Unset]
  /\ rngiplen = Len(Initial)
  /\ inbox = <<>> /\ queries = 0
  /\ lpc = "recv" /\ query \in [group : {NoGroup}, code : Codes]
  /\ i = 0 /\ j = 0 /\ size = 0 /\ timer = [s \in Slots |-> 0]
  /\ cpc = "stdin" /\ slot = 0 /\ typed = 0
  /\ onWire = [type |-> "report", group |-> Initial[Len(Initial)]]
  /\ wanted = {Initial[k] : k \in DOMAIN Initial}
  /\ stable = {} /\ tally = [s \in Slots |-> 0]
  /\ status = "running"

\* A querier's packet arrives in the raw socket; it waits there while listener is busy.
QueryArrives(q) ==
  /\ status = "running" /\ queries < MaxQueries
  /\ inbox' = Append(inbox, q) /\ queries' = queries + 1
  /\ UNCHANGED <<tableVars, listenerVars, commandVars, onWire, wanted, historyVars, status>>

-----------------------------------------------------------------------------
(* listener.                                                               *)

AskedAbout(q) == {s \in 0 .. rngiplen - 1 : /\ rngip[s] # NoGroup
                                            /\ q.group \in {NoGroup, rngip[s]}}

\* recvfrom, and the choice between a specific and a general query.  The array
\* of a general query is as long as the table is now.
Recv ==
  /\ status = "running" /\ lpc = "recv" /\ inbox # <<>>
  /\ query' = Head(inbox) /\ inbox' = Tail(inbox)
  /\ IF query'.group # NoGroup
     THEN lpc' = "match" /\ UNCHANGED size
     ELSE lpc' = "delays" /\ size' = rngiplen
  /\ i' = 0 /\ j' = 0 /\ timer' = [s \in Slots |-> 0]
  /\ stable' = AskedAbout(query') \ (IF cpc = "clear" THEN {slot} ELSE {})
  /\ tally' = [s \in Slots |-> 0]
  /\ UNCHANGED <<tableVars, queries, commandVars, onWire, wanted, status>>

\* rand() % igmph->code raises SIGFPE when the code is 0: the process ends.
DivideByZero ==
  /\ status = "running" /\ query.code = 0 /\ j < rngiplen
  /\ lpc = "delays" \/ (lpc = "match" /\ rngip[j] = query.group)
  /\ status' = "crashed"
  /\ UNCHANGED <<tableVars, socketVars, listenerVars, commandVars, onWire, wanted, historyVars>>

\* Specific query, one turn of the loop: compare slot j and sleep, or go on.
MatchSlot ==
  /\ status = "running" /\ lpc = "match" /\ j < rngiplen
  /\ IF rngip[j] = query.group
     THEN query.code > 0 /\ lpc' = "sleep" /\ UNCHANGED j
     ELSE j' = j + 1 /\ UNCHANGED lpc
  /\ UNCHANGED <<tableVars, socketVars, query, i, size, timer, commandVars, onWire, wanted,
                 historyVars, status>>

\* igmpv2_report(ss, rngip[j], rngip[j]): the slot is read again.
SendReport ==
  /\ onWire' = [type |-> "report", group |-> rngip[j]]
  /\ tally' = [tally EXCEPT ![j] = @ + 1]
  /\ j' = j + 1

ReportSpecific ==
  /\ status = "running" /\ lpc = "sleep"
  /\ SendReport /\ lpc' = "match"
  /\ UNCHANGED <<tableVars, socketVars, query, i, size, timer, commandVars, wanted, stable, status>>

\* General query: each group is given a delay, in whole seconds below code / 10.
\* A group published since Recv lies outside the array.
SetDelay ==
  /\ status = "running" /\ lpc = "delays" /\ j < rngiplen /\ query.code > 0
  /\ IF j < size
     THEN \E r \in 0 .. query.code - 1 : timer' = [timer EXCEPT ![j] = r \div 10] /\ UNCHANGED status
     ELSE status' = "undefined" /\ UNCHANGED timer
  /\ j' = j + 1
  /\ UNCHANGED <<tableVars, socketVars, lpc, query, i, size, commandVars, onWire, wanted, historyVars>>

DelaysSet ==
  /\ status = "running" /\ lpc = "delays" /\ j >= rngiplen
  /\ lpc' = "rounds" /\ j' = 0
  /\ UNCHANGED <<tableVars, socketVars, query, i, size, timer, commandVars, onWire, wanted,
                 historyVars, status>>

\* Is timer[j] == i?  Beyond the array the answer is whatever the stack holds.
Due == IF j < size THEN {timer[j] = i} ELSE BOOLEAN

\* Round i, slot j: report, or go on.
CheckSlot ==
  /\ status = "running" /\ lpc = "rounds" /\ i <= LastRound /\ j < rngiplen
  /\ \E due \in Due : IF rngip[j] # NoGroup /\ due
                      THEN lpc' = "report" /\ UNCHANGED j
                      ELSE j' = j + 1 /\ UNCHANGED lpc
  /\ UNCHANGED <<tableVars, socketVars, query, i, size, timer, commandVars, onWire, wanted,
                 historyVars, status>>

\* A variant with a bug, not used below: after a report the slot is looked at again.
ReportGeneralStays ==
  /\ status = "running" /\ lpc = "report"
  /\ onWire' = [type |-> "report", group |-> rngip[j]]
  /\ tally' = [tally EXCEPT ![j] = @ + 1]
  /\ lpc' = "rounds" /\ j' = IF tally[j] = 0 THEN j ELSE j + 1
  /\ UNCHANGED <<tableVars, socketVars, query, i, size, timer, commandVars, wanted, stable, status>>

ReportGeneral ==
  /\ status = "running" /\ lpc = "report"
  /\ SendReport /\ lpc' = "rounds"
  /\ UNCHANGED <<tableVars, socketVars, query, i, size, timer, commandVars, wanted, stable, status>>

\* sleep(1)
NextRound ==
  /\ status = "running" /\ lpc = "rounds" /\ i <= LastRound /\ j >= rngiplen
  /\ i' = i + 1 /\ j' = 0
  /\ UNCHANGED <<tableVars, socketVars, lpc, query, size, timer, commandVars, onWire, wanted,
                 historyVars, status>>

\* Either loop is over: print and return to main, which calls listener again.
Answered ==
  /\ status = "running"
  /\ (lpc = "match" /\ j >= rngiplen) \/ (lpc = "rounds" /\ i > LastRound)
  /\ lpc' = "answered"
  /\ UNCHANGED <<tableVars, socketVars, query, i, j, size, timer, commandVars, onWire, wanted,
                 historyVars, status>>

Return ==
  /\ status = "running" /\ lpc = "answered"
  /\ lpc' = "recv"
  /\ UNCHANGED <<tableVars, socketVars, query, i, j, size, timer, commandVars, onWire, wanted,
                 historyVars, status>>

Listener == \/ Recv \/ DivideByZero \/ MatchSlot \/ ReportSpecific \/ SetDelay \/ DelaysSet
            \/ CheckSlot \/ ReportGeneral \/ NextRound \/ Answered \/ Return

-----------------------------------------------------------------------------
(* commands.                                                               *)

Held == {rngip[s] : s \in 0 .. rngiplen - 1}

\* A variant with a bug, not used below: the length is raised before the slot is filled.
AddLengthFirst(g) ==
  /\ status = "running" /\ cpc = "stdin" /\ typed < MaxCommands /\ rngiplen < MAXCOUNTGROUPIP
  /\ DuplicateAdds \/ g \notin Held
  /\ typed' = typed + 1
  /\ wanted' = wanted \cup {g}
  /\ rngiplen' = rngiplen + 1 /\ cpc' = "publish"
  /\ UNCHANGED <<rngip, socketVars, listenerVars, slot, onWire, historyVars, status>>

\* add: fill the next slot and report; nobody sees the slot before Publish.
\* Nothing stops the user at the end of the table.
Add(g) ==
  /\ status = "running" /\ cpc = "stdin" /\ typed < MaxCommands
  /\ DuplicateAdds \/ g \notin Held
  /\ typed' = typed + 1
  /\ wanted' = wanted \cup {g}
  /\ IF rngiplen < MAXCOUNTGROUPIP
     THEN /\ rngip' = [rngip EXCEPT ![rngiplen] = g]
          /\ onWire' = [type |-> "report", group |-> g]
          /\ cpc' = "publish"
          /\ UNCHANGED status
     ELSE status' = "undefined" /\ UNCHANGED <<rngip, onWire, cpc>>
  /\ UNCHANGED <<rngiplen, socketVars, listenerVars, slot, historyVars>>

\* rngiplen++
Publish ==
  /\ status = "running" /\ cpc = "publish"
  /\ rngiplen' = rngiplen + 1 /\ cpc' = "stdin"
  /\ UNCHANGED <<rngip, socketVars, listenerVars, slot, typed, onWire, wanted, historyVars, status>>

\* A variant with a bug, not used below: the search skips slot 0.
FirstWithSkipping(g) == {s \in 1 .. rngiplen - 1 : rngip[s] = g /\ \A r \in 1 .. s - 1 : rngip[r] # g}

\* The first slot that holds g, if any.
FirstWith(g) == {s \in 0 .. rngiplen - 1 : rngip[s] = g /\ \A r \in 0 .. s - 1 : rngip[r] # g}

\* del: send the leave for the first match ...
Del(g) ==
  /\ status = "running" /\ cpc = "stdin" /\ typed < MaxCommands
  /\ typed' = typed + 1
  /\ wanted' = wanted \ {g}
  /\ IF FirstWith(g) = {}
     THEN UNCHANGED <<cpc, slot, onWire, stable>>
     ELSE /\ slot' \in FirstWith(g)
          /\ onWire' = [type |-> "leave", group |-> g]
          /\ stable' = stable \ {slot'}
          /\ cpc' = "clear"
  /\ UNCHANGED <<tableVars, socketVars, listenerVars, tally, status>>

\* ... and then mark the slot deleted.
Clear ==
  /\ status = "running" /\ cpc = "clear"
  /\ rngip' = [rngip EXCEPT ![slot] = NoGroup]
  /\ cpc' = "stdin"
  /\ UNCHANGED <<rngiplen, socketVars, listenerVars, slot, typed, onWire, wanted, historyVars, status>>

\* A line that is no command changes nothing.  One that is too long for wordstdin (fgets
\* takes nineteen characters into sixteen bytes, so an address of eleven is too long) ends
\* in undefined behaviour; where the address is missing, or the input ends after a
\* command, strtok returns null and the process crashes.
BadLine ==
  /\ status = "running" /\ cpc = "stdin" /\ typed < MaxCommands
  /\ typed' = typed + 1 /\ status' \in {"crashed", "undefined"}
  /\ UNCHANGED <<tableVars, socketVars, listenerVars, cpc, slot, onWire, wanted, historyVars>>

Commands == Publish \/ Clear \/ BadLine \/ \E g \in Groups : Add(g) \/ Del(g)

-----------------------------------------------------------------------------
Next == (\E q \in Query : QueryArrives(q)) \/ Listener \/ Commands

Spec == Init /\ [][Next]_vars

\* Both threads keep running; a user need not type and a querier need not ask.
FairSpec == Spec /\ WF_vars(Listener) /\ WF_vars(Publish) /\ WF_vars(Clear)

\* When a query has been dealt with, each group it asked about and that was not
\* deleted meanwhile has been reported exactly once, whatever was added or
\* deleted around it (client.c:237-248, 264-288).
AnsweredOnce == lpc = "answered" => \A s \in stable : tally[s] = 1

\* Between commands the table holds the groups the user asked for, no more and
\* no fewer, as long as no group is added twice (client.c:311-336).
TableMatchesCommands ==
  cpc = "stdin" /\ status # "undefined" => Held \ {NoGroup} = wanted

\* A group that a query asks about is reported, unless it is deleted first or
\* the process has come to harm (client.c:222-297).
QueryAnswered ==
  \A s \in Slots :
    (s \in stable /\ tally[s] = 0) ~> (s \notin stable \/ tally[s] > 0 \/ status # "running")

\* "Send report to all actual group" (client.c:275): a report names a group.
OnlyActualGroups == onWire.type = "report" => onWire.group # NoGroup
=============================================================================
