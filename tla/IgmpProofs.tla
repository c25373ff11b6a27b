----------------------------- MODULE IgmpProofs -----------------------------
(***************************************************************************)
(* Proofs about the two IGMP programs.  The host, for any groups, codes,   *)
(* commands and table size: a slot that is left alone has been reported    *)
(* exactly when the loops have passed it: before j for a specific query,   *)
(* before (i, j) in the order of rounds and slots for a general one.  No   *)
(* lock is needed for that.  The server, for any hosts, any loss and any   *)
(* limit: thread_started follows the count, only the newest thread can be  *)
(* without a cancellation, and a cancelled one sends from one place.       *)
(***************************************************************************)
EXTENDS IgmpHost, IgmpServer, FiniteSetTheorems, SequenceTheorems, TLAPS

\* How far each loop can be, and what commands has under way.
LoopInv ==
  /\ lpc = "match" => j <= rngiplen
  /\ lpc \in {"sleep", "report"} => j < rngiplen
  /\ cpc = "publish" => rngiplen < MAXCOUNTGROUPIP /\ rngip[rngiplen] # Unset
  /\ cpc = "clear" => slot < rngiplen

\* A slot of stable holds a group that the query asks about.
StableInv ==
  /\ cpc = "clear" => slot \notin stable
  /\ \A s \in stable : s < rngiplen /\ rngip[s] # NoGroup /\ query.group \in {NoGroup, rngip[s]}

\* Which of the slots of stable have been reported.
ReportInv ==
  /\ lpc \in {"match", "sleep"} => query.group # NoGroup
  /\ lpc = "delays" => i = 0
  /\ \A s \in stable :
       /\ lpc \in {"match", "sleep"} => tally[s] = IF s < j THEN 1 ELSE 0
       /\ lpc = "delays" => tally[s] = 0
       /\ lpc \in {"delays", "rounds", "report"} => s < size
       /\ lpc \in {"rounds", "report"} =>
            tally[s] = IF timer[s] < i \/ (timer[s] = i /\ s < j) THEN 1 ELSE 0
       /\ lpc = "report" /\ s = j => timer[s] = i
       /\ lpc = "answered" => tally[s] = 1

HostInv == TypeOK /\ LoopInv /\ StableInv /\ ReportInv

-----------------------------------------------------------------------------
\* Division by ten keeps the order of numbers.
LEMMA Tenths == \A c \in Nat : c \div 10 \in Nat /\ \A r \in 0 .. c - 1 : r \div 10 \in 0 .. c \div 10
  <1>1. \A c \in Nat : c \div 10 \in Nat OBVIOUS
  <1>2. \A c, r \in Nat : r < c => r \div 10 <= c \div 10 OBVIOUS
  <1>3. ASSUME NEW c \in Nat, NEW r \in 0 .. c - 1 PROVE r \div 10 \in 0 .. c \div 10
    <2>1. r \in Nat /\ r < c BY <1>3
    <2>2. r \div 10 \in Nat /\ c \div 10 \in Nat BY <1>1, <2>1
    <2>3. r \div 10 <= c \div 10 BY <1>2, <2>1
    <2> QED BY <2>2, <2>3
  <1> QED BY <1>1, <1>3

\* Slots are numbers, and a slot below the length of the table is one of them.
LEMMA SlotFacts == /\ Slots \subseteq Nat /\ 0 \in Slots /\ MAXCOUNTGROUPIP \in Nat
                   /\ \A s \in Nat : s \in Slots <=> s < MAXCOUNTGROUPIP
  BY IgmpAssumption, InitialAssumption DEF Slots

\* The last round of a general query is a round of its code, in any state with a query.
LEMMA RoundFacts == query \in Query => /\ query.code \in Nat /\ LastRound \in Nat
                                       /\ query.group \in Groups \cup {NoGroup}
                                       /\ \A r \in 0 .. query.code - 1 : r \div 10 \in 0 .. LastRound
  <1> SUFFICES ASSUME query \in Query
               PROVE  /\ query.code \in Nat /\ LastRound \in Nat
                      /\ query.group \in Groups \cup {NoGroup}
                      /\ \A r \in 0 .. query.code - 1 : r \div 10 \in 0 .. LastRound
    OBVIOUS
  <1>1. query.code \in Nat /\ query.group \in Groups \cup {NoGroup} BY IgmpAssumption DEF Query
  <1> QED BY <1>1, Tenths DEF LastRound

\* The invariant holds when main starts the two threads.
LEMMA HostInit == Init => HostInv
  <1> SUFFICES ASSUME Init PROVE HostInv OBVIOUS
  <1> USE IgmpAssumption, InitialAssumption, SlotFacts DEF Init
  <1>1. query \in Query BY DEF Query
  <1>2. LastRound \in Nat BY <1>1, RoundFacts
  <1>3. rngip \in [Slots -> Groups \cup {NoGroup, Unset}] /\ rngiplen \in 0 .. MAXCOUNTGROUPIP OBVIOUS
  <1>9. \A s \in 0 .. rngiplen - 1 : rngip[s] # Unset OBVIOUS
  <1>4. timer \in [Slots -> 0 .. LastRound] /\ i \in 0 .. LastRound + 1 BY <1>2
  <1>5. wanted \in SUBSET Groups OBVIOUS
  <1>6. onWire \in [type : {"report", "leave"}, group : Groups \cup {NoGroup}] OBVIOUS
  <1>7. TypeOK BY <1>1, <1>3, <1>4, <1>5, <1>6, <1>9 DEF TypeOK
  <1>8. LoopInv /\ StableInv /\ ReportInv BY DEF LoopInv, StableInv, ReportInv
  <1> QED BY <1>7, <1>8 DEF HostInv

\* Sending a report keeps the types of what it changes.
LEMMA ReportTypes ==
  ASSUME TypeOK, SendReport, j < rngiplen
  PROVE  /\ onWire' \in [type : {"report", "leave"}, group : Groups \cup {NoGroup}]
         /\ tally' \in [Slots -> Nat] /\ j' \in 0 .. MAXCOUNTGROUPIP /\ j' = j + 1
  <1>1. j \in Slots /\ j \in Nat /\ j < MAXCOUNTGROUPIP BY SlotFacts DEF TypeOK
  <1> QED BY <1>1, SlotFacts DEF TypeOK, SendReport

\* Every step keeps the types.
LEMMA TypeStep == ASSUME HostInv, [Next]_vars PROVE TypeOK'
  <1> USE DEF HostInv
  <1>q. query \in Query /\ query.code \in Nat /\ LastRound \in Nat
        /\ \A r \in 0 .. query.code - 1 : r \div 10 \in 0 .. LastRound
    BY RoundFacts DEF TypeOK
  <1>s. LastRound' = LastRound \/ query' # query BY DEF LastRound
  <1> USE SlotFacts, <1>q, <1>s
  <1>1. ASSUME NEW q \in Query, QueryArrives(q) PROVE TypeOK'
    <2>1. inbox' \in Seq(Query) /\ queries' \in 0 .. MaxQueries
      BY <1>1, IgmpAssumption DEF QueryArrives, TypeOK
    <2> QED BY <1>1, <2>1 DEF QueryArrives, TypeOK, tableVars, listenerVars, commandVars, historyVars
  <1>2. CASE Recv
    <2>1. query' \in Query /\ inbox' \in Seq(Query) BY <1>2 DEF Recv, TypeOK
    <2>2. LastRound' \in Nat BY <2>1, IgmpAssumption, Tenths DEF LastRound, Query
    <2>3. stable' \in SUBSET Slots BY <1>2 DEF Recv, AskedAbout, TypeOK
    <2>4. (timer \in [Slots -> 0 .. LastRound])' /\ (i \in 0 .. LastRound + 1)'
      <3>1. \A n \in Nat : 0 \in 0 .. n /\ 0 \in 0 .. n + 1 OBVIOUS
      <3>2. timer' = [s \in Slots |-> 0] /\ i' = 0 BY <1>2 DEF Recv
      <3> QED BY <2>2, <3>1, <3>2
    <2>5. tally' \in [Slots -> Nat] /\ j' \in 0 .. MAXCOUNTGROUPIP BY <1>2 DEF Recv
    <2>6. size' \in 0 .. MAXCOUNTGROUPIP /\ lpc' \in {"match", "delays"} BY <1>2 DEF Recv, TypeOK
    <2> QED BY <1>2, <2>1, <2>3, <2>4, <2>5, <2>6 DEF Recv, TypeOK, tableVars, commandVars
  <1>3. CASE DivideByZero
    BY <1>3 DEF DivideByZero, TypeOK, tableVars, socketVars, listenerVars, commandVars, historyVars
  <1>4. CASE MatchSlot
    <2>1. j' \in 0 .. MAXCOUNTGROUPIP /\ lpc' \in {"match", "sleep"} BY <1>4 DEF MatchSlot, TypeOK
    <2> QED BY <1>4, <2>1 DEF MatchSlot, TypeOK, tableVars, socketVars, commandVars, historyVars
  <1>5. CASE ReportSpecific
    <2>1. j < rngiplen /\ SendReport BY <1>5 DEF ReportSpecific, LoopInv
    <2> QED BY <1>5, <2>1, ReportTypes DEF ReportSpecific, TypeOK, tableVars, socketVars, commandVars
  <1>6. CASE SetDelay
    <2>1. j' \in 0 .. MAXCOUNTGROUPIP /\ j \in Slots BY <1>6 DEF SetDelay, TypeOK
    <2>2. timer' \in [Slots -> 0 .. LastRound] /\ status' \in {"running", "undefined"}
      <3>1. CASE j < size
        <4>1. PICK r \in 0 .. query.code - 1 : timer' = [timer EXCEPT ![j] = r \div 10]
          BY <1>6, <3>1 DEF SetDelay
        <4>2. r \div 10 \in 0 .. LastRound OBVIOUS
        <4> QED BY <1>6, <2>1, <3>1, <4>1, <4>2 DEF SetDelay, TypeOK
      <3>2. CASE ~(j < size) BY <1>6, <3>2 DEF SetDelay, TypeOK
      <3> QED BY <3>1, <3>2
    <2> QED BY <1>6, <2>1, <2>2 DEF SetDelay, TypeOK, tableVars, socketVars, commandVars, historyVars
  <1>7. CASE DelaysSet
    BY <1>7 DEF DelaysSet, TypeOK, tableVars, socketVars, commandVars, historyVars
  <1>8. CASE CheckSlot
    <2>1. j' \in 0 .. MAXCOUNTGROUPIP /\ lpc' \in {"report", "rounds"} BY <1>8 DEF CheckSlot, TypeOK
    <2> QED BY <1>8, <2>1 DEF CheckSlot, TypeOK, tableVars, socketVars, commandVars, historyVars
  <1>9. CASE ReportGeneral
    <2>1. j < rngiplen /\ SendReport BY <1>9 DEF ReportGeneral, LoopInv
    <2> QED BY <1>9, <2>1, ReportTypes DEF ReportGeneral, TypeOK, tableVars, socketVars, commandVars
  <1>10. CASE NextRound
    <2>1. i' \in 0 .. LastRound + 1 /\ j' \in 0 .. MAXCOUNTGROUPIP BY <1>10 DEF NextRound, TypeOK
    <2> QED BY <1>10, <2>1 DEF NextRound, TypeOK, tableVars, socketVars, commandVars, historyVars
  <1>11. CASE Answered \/ Return
    BY <1>11 DEF Answered, Return, TypeOK, tableVars, socketVars, commandVars, historyVars
  <1>12. ASSUME NEW g \in Groups, Add(g) PROVE TypeOK'
    <2>1. typed' \in 0 .. MaxCommands /\ wanted' \in SUBSET Groups
      BY <1>12, IgmpAssumption DEF Add, TypeOK
    <2>2. rngip' \in [Slots -> Groups \cup {NoGroup, Unset}]
          /\ rngiplen' = rngiplen /\ \A s \in 0 .. rngiplen - 1 : rngip'[s] # Unset
      <3>1. rngiplen' = rngiplen /\ rngip' \in {rngip, [rngip EXCEPT ![rngiplen] = g]}
        BY <1>12 DEF Add
      <3>2. \A s \in 0 .. rngiplen - 1 : s \in Slots /\ s # rngiplen BY DEF TypeOK
      <3> QED BY <3>1, <3>2 DEF TypeOK
    <2>3. onWire' \in [type : {"report", "leave"}, group : Groups \cup {NoGroup}]
      BY <1>12 DEF Add, TypeOK
    <2>4. cpc' \in {"stdin", "publish"} /\ status' \in {"running", "undefined"}
      BY <1>12 DEF Add, TypeOK
    <2> QED BY <1>12, <2>1, <2>2, <2>3, <2>4 DEF Add, TypeOK, socketVars, listenerVars, historyVars
  <1>13. CASE Publish
    <2>1. rngiplen' \in 0 .. MAXCOUNTGROUPIP /\ \A s \in 0 .. rngiplen' - 1 : rngip'[s] # Unset
      BY <1>13 DEF Publish, LoopInv, TypeOK
    <2> QED BY <1>13, <2>1 DEF Publish, TypeOK, socketVars, listenerVars, historyVars
  <1>14. ASSUME NEW g \in Groups, Del(g) PROVE TypeOK'
    <2>1. typed' \in 0 .. MaxCommands /\ wanted' \in SUBSET Groups
      BY <1>14, IgmpAssumption DEF Del, TypeOK
    <2>2. slot' \in Slots BY <1>14 DEF Del, FirstWith, TypeOK
    <2>3. onWire' \in [type : {"report", "leave"}, group : Groups \cup {NoGroup}]
      BY <1>14 DEF Del, TypeOK
    <2>4. cpc' \in {"stdin", "clear"} /\ stable' \in SUBSET Slots BY <1>14 DEF Del, TypeOK
    <2> QED BY <1>14, <2>1, <2>2, <2>3, <2>4 DEF Del, TypeOK, tableVars, socketVars, listenerVars
  <1>15. CASE Clear
    BY <1>15, IgmpAssumption DEF Clear, TypeOK, socketVars, listenerVars, historyVars
  <1>17. CASE BadLine
    <2>1. typed' \in 0 .. MaxCommands /\ status' \in {"crashed", "undefined"}
      BY <1>17, IgmpAssumption DEF BadLine, TypeOK
    <2> QED BY <1>17, <2>1 DEF BadLine, TypeOK, tableVars, socketVars, listenerVars, historyVars
  <1>16. CASE UNCHANGED vars
    BY <1>16 DEF vars, TypeOK, tableVars, socketVars, listenerVars, commandVars, historyVars
  <1> QED BY <1>1, <1>2, <1>3, <1>4, <1>5, <1>6, <1>7, <1>8, <1>9, <1>10, <1>11, <1>12, <1>13,
             <1>14, <1>15, <1>16, <1>17 DEF Next, Listener, Commands

\* Every step keeps the bounds of the loops: the table never shrinks.
LEMMA LoopStep == ASSUME HostInv, [Next]_vars PROVE LoopInv'
  <1> USE SlotFacts DEF HostInv, LoopInv, TypeOK
  <1>1. ASSUME NEW q \in Query, QueryArrives(q) PROVE LoopInv'
    BY <1>1 DEF QueryArrives, tableVars, listenerVars, commandVars
  <1>2. CASE Recv BY <1>2 DEF Recv, tableVars, commandVars
  <1>3. CASE DivideByZero BY <1>3 DEF DivideByZero, tableVars, listenerVars, commandVars
  <1>4. CASE MatchSlot BY <1>4 DEF MatchSlot, tableVars, commandVars
  <1>5. CASE ReportSpecific BY <1>5 DEF ReportSpecific, SendReport, tableVars, commandVars
  <1>6. CASE SetDelay BY <1>6 DEF SetDelay, tableVars, commandVars
  <1>7. CASE DelaysSet BY <1>7 DEF DelaysSet, tableVars, commandVars
  <1>8. CASE CheckSlot BY <1>8 DEF CheckSlot, tableVars, commandVars
  <1>9. CASE ReportGeneral BY <1>9 DEF ReportGeneral, SendReport, tableVars, commandVars
  <1>10. CASE NextRound BY <1>10 DEF NextRound, tableVars, commandVars
  <1>11. CASE Answered \/ Return BY <1>11 DEF Answered, Return, tableVars, commandVars
  <1>12. ASSUME NEW g \in Groups, Add(g) PROVE LoopInv'
    BY <1>12, IgmpAssumption DEF Add, listenerVars
  <1>17. CASE BadLine BY <1>17 DEF BadLine, tableVars, listenerVars
  <1>13. CASE Publish BY <1>13 DEF Publish, listenerVars
  <1>14. ASSUME NEW g \in Groups, Del(g) PROVE LoopInv'
    BY <1>14 DEF Del, FirstWith, tableVars, listenerVars
  <1>15. CASE Clear BY <1>15 DEF Clear, listenerVars
  <1>16. CASE UNCHANGED vars BY <1>16 DEF vars, tableVars, listenerVars, commandVars
  <1> QED BY <1>1, <1>2, <1>3, <1>4, <1>5, <1>6, <1>7, <1>8, <1>9, <1>10, <1>11, <1>12, <1>13,
             <1>14, <1>15, <1>16, <1>17 DEF Next, Listener, Commands

\* Every step keeps stable a set of slots that the query asks about: the thread
\* that deletes a slot has taken it out of stable before.
LEMMA StableStep == ASSUME HostInv, [Next]_vars PROVE StableInv'
  <1> USE SlotFacts DEF HostInv, LoopInv, TypeOK, StableInv
  <1>1. ASSUME NEW q \in Query, QueryArrives(q) PROVE StableInv'
    BY <1>1 DEF QueryArrives, tableVars, listenerVars, commandVars, historyVars
  <1>2. CASE Recv
    <2>1. stable' \subseteq AskedAbout(query') BY <1>2 DEF Recv, AskedAbout
    <2>2. cpc' = "clear" => slot' \notin stable' BY <1>2 DEF Recv, commandVars
    <2>3. rngip' = rngip /\ rngiplen' = rngiplen BY <1>2 DEF Recv, tableVars
    <2> QED BY <2>1, <2>2, <2>3 DEF AskedAbout
  <1>3. CASE \/ DivideByZero \/ MatchSlot \/ ReportSpecific \/ SetDelay \/ DelaysSet
             \/ CheckSlot \/ ReportGeneral \/ NextRound \/ Answered \/ Return
    <2>1. UNCHANGED <<tableVars, query, commandVars, stable>>
      BY <1>3 DEF DivideByZero, MatchSlot, ReportSpecific, SetDelay, DelaysSet, CheckSlot,
                  ReportGeneral, NextRound, Answered, Return, listenerVars, historyVars
    <2> QED BY <2>1 DEF tableVars, commandVars
  <1>4. ASSUME NEW g \in Groups, Add(g) PROVE StableInv'
    <2>1. \A s \in Slots : s < rngiplen => rngip'[s] = rngip[s] BY <1>4 DEF Add
    <2>2. rngiplen' = rngiplen /\ query' = query /\ stable' = stable /\ slot' = slot
      BY <1>4 DEF Add, listenerVars, historyVars
    <2>3. cpc' # "clear" BY <1>4 DEF Add
    <2> QED BY <2>1, <2>2, <2>3
  <1>5. CASE Publish BY <1>5 DEF Publish, listenerVars, historyVars
  <1>6. ASSUME NEW g \in Groups, Del(g) PROVE StableInv'
    BY <1>6 DEF Del, tableVars, listenerVars
  <1>7. CASE Clear
    <2>1. \A s \in stable : rngip'[s] = rngip[s] BY <1>7 DEF Clear
    <2> QED BY <1>7, <2>1 DEF Clear, listenerVars, historyVars
  <1>9. CASE BadLine BY <1>9 DEF BadLine, tableVars, listenerVars, historyVars
  <1>8. CASE UNCHANGED vars
    BY <1>8 DEF vars, tableVars, listenerVars, commandVars, historyVars
  <1> QED BY <1>1, <1>2, <1>3, <1>4, <1>5, <1>6, <1>7, <1>8, <1>9 DEF Next, Listener, Commands

\* Every step keeps the record of which slots have been reported.
LEMMA ReportStep == ASSUME HostInv, [Next]_vars PROVE ReportInv'
  <1>t. /\ i \in Nat /\ j \in Nat /\ size \in Nat /\ rngiplen \in 0 .. MAXCOUNTGROUPIP
        /\ stable \subseteq Slots /\ tally \in [Slots -> Nat] /\ timer \in [Slots -> Nat]
        /\ \A s \in Slots : timer[s] <= LastRound /\ s \in Nat
        /\ LastRound \in Nat /\ NoGroup \notin Groups
    <2>1. TypeOK /\ LastRound \in Nat BY RoundFacts DEF HostInv, TypeOK
    <2> QED BY <2>1, SlotFacts, IgmpAssumption DEF TypeOK
  <1> HIDE DEF HostInv
  <1>l. LoopInv /\ StableInv /\ ReportInv BY DEF HostInv
  <1> USE <1>t, <1>l DEF LoopInv, StableInv, ReportInv
  <1>1. ASSUME NEW q \in Query, QueryArrives(q) PROVE ReportInv'
    BY <1>1 DEF QueryArrives, listenerVars, historyVars
  <1>2. CASE Recv
    <2>1. stable' \subseteq AskedAbout(query') /\ tally' = [s \in Slots |-> 0] BY <1>2 DEF Recv
    <2>2. \A s \in AskedAbout(query') : s \in Slots /\ s \in Nat /\ s < rngiplen
      BY SlotFacts DEF AskedAbout
    <2>3. \A s \in stable' : tally'[s] = 0 /\ s \in Nat /\ s < rngiplen BY <2>1, <2>2
    <2>4. CASE query'.group # NoGroup
      <3>1. lpc' = "match" /\ j' = 0 BY <1>2, <2>4 DEF Recv
      <3> QED BY <2>3, <2>4, <3>1
    <2>5. CASE query'.group = NoGroup
      <3>1. lpc' = "delays" /\ i' = 0 /\ size' = rngiplen BY <1>2, <2>5 DEF Recv
      <3> QED BY <2>3, <3>1
    <2> QED BY <2>4, <2>5
  <1>3. CASE DivideByZero BY <1>3 DEF DivideByZero, listenerVars, historyVars
  <1>4. CASE MatchSlot
    <2>1. \A s \in stable : rngip[s] = query.group BY <1>4 DEF MatchSlot
    <2>2. rngip[j] # query.group => j \notin stable BY <2>1
    <2> QED BY <1>4, <2>2 DEF MatchSlot, historyVars
  <1>5. CASE ReportSpecific
    <2>1. \A s \in Slots : tally'[s] = IF s = j THEN tally[s] + 1 ELSE tally[s]
      BY <1>5 DEF ReportSpecific, SendReport
    <2> QED BY <1>5, <2>1 DEF ReportSpecific, SendReport
  <1>6. CASE SetDelay BY <1>6 DEF SetDelay, historyVars
  <1>7. CASE DelaysSet
    <2>1. \A s \in stable : timer[s] \in Nat /\ s \in Nat BY RoundFacts
    <2> QED BY <1>7, <2>1 DEF DelaysSet, historyVars
  <1>8. CASE CheckSlot
    <2>1. PICK dueNow \in Due : IF rngip[j] # NoGroup /\ dueNow
                             THEN lpc' = "report" /\ UNCHANGED j
                             ELSE j' = j + 1 /\ UNCHANGED lpc
      BY <1>8 DEF CheckSlot
    <2>2. j \in stable => (dueNow <=> timer[j] = i) BY <1>8, <2>1 DEF CheckSlot, Due
    <2>3. j \in stable => rngip[j] # NoGroup BY <1>8
    <2>4. CASE lpc' = "report"
      <3>1. (j \in stable => timer[j] = i) /\ UNCHANGED j BY <1>8, <2>1, <2>2, <2>4 DEF CheckSlot
      <3> QED BY <1>8, <2>4, <3>1 DEF CheckSlot, historyVars
    <2>5. CASE lpc' # "report"
      <3>1. (j \in stable => timer[j] # i) /\ j' = j + 1 /\ UNCHANGED lpc
        BY <2>1, <2>2, <2>3, <2>5, Zenon
      <3> QED BY <1>8, <3>1 DEF CheckSlot, historyVars
    <2> QED BY <2>4, <2>5
  <1>9. CASE ReportGeneral
    <2>1. \A s \in Slots : tally'[s] = IF s = j THEN tally[s] + 1 ELSE tally[s]
      BY <1>9 DEF ReportGeneral, SendReport
    <2> QED BY <1>9, <2>1 DEF ReportGeneral, SendReport
  <1>10. CASE NextRound
    <2>1. \A s \in stable : s < j BY <1>10 DEF NextRound
    <2>2. \A s \in stable : timer[s] \in Nat /\ i \in Nat BY RoundFacts
    <2> QED BY <1>10, <2>1, <2>2 DEF NextRound, historyVars
  <1>11. CASE Answered
    <2>1. CASE lpc = "match" BY <1>11, <2>1 DEF Answered, historyVars
    <2>2. CASE lpc = "rounds"
      <3>1. \A s \in stable : timer[s] < i BY <1>11, <2>2, RoundFacts DEF Answered
      <3> QED BY <1>11, <2>2, <3>1 DEF Answered, historyVars
    <2> QED BY <1>11, <2>1, <2>2 DEF Answered
  <1>12. CASE Return BY <1>12 DEF Return, historyVars
  <1>13. CASE Publish BY <1>13 DEF Publish, listenerVars, historyVars
  <1>14. ASSUME NEW g \in Groups, Add(g) PROVE ReportInv' BY <1>14 DEF Add, listenerVars, historyVars
  <1>15. ASSUME NEW g \in Groups, Del(g) PROVE ReportInv' BY <1>15 DEF Del, listenerVars
  <1>16. CASE Clear BY <1>16 DEF Clear, listenerVars, historyVars
  <1>18. CASE BadLine BY <1>18 DEF BadLine, listenerVars, historyVars
  <1>17. CASE UNCHANGED vars BY <1>17 DEF vars, listenerVars, historyVars
  <1> QED BY <1>1, <1>2, <1>3, <1>4, <1>5, <1>6, <1>7, <1>8, <1>9, <1>10, <1>11, <1>12, <1>13,
             <1>14, <1>15, <1>16, <1>17, <1>18 DEF Next, Listener, Commands

-----------------------------------------------------------------------------
\* The strengthened invariant holds in every reachable state.
THEOREM HostInvariant == Spec => []HostInv
  <1>1. ASSUME HostInv, [Next]_vars PROVE HostInv'
    BY <1>1, TypeStep, LoopStep, StableStep, ReportStep DEF HostInv
  <1> QED BY HostInit, <1>1, PTL DEF Spec

\* Without a lock, whatever the user adds and deletes while a query is being
\* answered, each group the query asks about and that is left alone is reported
\* exactly once (client.c:237-248, 264-288), for any table, groups and codes.
THEOREM EachGroupAnsweredOnce == Spec => []AnsweredOnce
  <1>1. HostInv => AnsweredOnce BY DEF HostInv, ReportInv, AnsweredOnce
  <1> QED BY HostInvariant, <1>1, PTL

\* The loop variables, the table and its length keep their ranges whenever memory
\* has not been overrun: nothing but the steps that end in status "undefined" can leave
\* the table, and the loops of listener never meet a slot that is not filled yet
\* (client.c:237-323).
THEOREM HostTypes == Spec => []TypeOK
  <1>1. HostInv => TypeOK BY DEF HostInv
  <1> QED BY HostInvariant, <1>1, PTL

-----------------------------------------------------------------------------
\* What the table holds while a command is under way, when no group is added twice.
TableInv ==
  /\ \A s, t \in Slots : s < rngiplen /\ t < rngiplen /\ rngip[s] = rngip[t] /\ rngip[s] # NoGroup
                           => s = t
  /\ cpc = "stdin" /\ status # "undefined" => Held \ {NoGroup} = wanted
  /\ cpc = "publish" => /\ rngip[rngiplen] \in Groups \ Held
                        /\ wanted = (Held \ {NoGroup}) \cup {rngip[rngiplen]}
  /\ cpc = "clear" => /\ rngip[slot] # NoGroup
                      /\ wanted = Held \ {NoGroup, rngip[slot]}

\* The table matches the options when main starts the two threads.
LEMMA TableInit == Init => TableInv
  <1> SUFFICES ASSUME Init PROVE TableInv OBVIOUS
  <1>1. rngiplen = Len(Initial) /\ rngiplen \in 1 .. MAXCOUNTGROUPIP /\ cpc = "stdin"
        /\ Initial \in Seq(Groups)
    BY InitialAssumption DEF Init
  <1>2. \A s \in 0 .. rngiplen - 1 : s \in Slots /\ s + 1 \in DOMAIN Initial /\ rngip[s] = Initial[s + 1]
    BY <1>1, SlotFacts DEF Init
  <1>3. ASSUME NEW s \in Slots, NEW t \in Slots, s < rngiplen, t < rngiplen, rngip[s] = rngip[t]
        PROVE  s = t
    <2>1. s \in 0 .. rngiplen - 1 /\ t \in 0 .. rngiplen - 1 /\ s \in Int /\ t \in Int
      BY <1>1, <1>3, SlotFacts
    <2>2. s + 1 \in DOMAIN Initial /\ t + 1 \in DOMAIN Initial /\ Initial[s + 1] = Initial[t + 1]
      BY <1>2, <1>3, <2>1
    <2>3. s + 1 = t + 1 BY <2>2, InitialAssumption, Zenon
    <2> QED BY <2>1, <2>3
  <1>4. Held = {Initial[k] : k \in DOMAIN Initial}
    <2>1. ASSUME NEW k \in DOMAIN Initial PROVE Initial[k] \in Held
      <3>1. k - 1 \in 0 .. rngiplen - 1 /\ k - 1 + 1 = k BY <1>1
      <3> QED BY <1>2, <3>1 DEF Held
    <2> QED BY <1>2, <2>1 DEF Held
  <1>5. Held \ {NoGroup} = wanted BY <1>1, <1>4, IgmpAssumption DEF Init
  <1> QED BY <1>1, <1>3, <1>5 DEF TableInv

\* Every step keeps it: a new group goes to a free slot beyond the table, and the
\* slot that is cleared is the only one with its group.
LEMMA TableStep == ASSUME ~DuplicateAdds, HostInv, TableInv, [Next]_vars PROVE TableInv'
  <1>t. /\ rngip \in [Slots -> Groups \cup {NoGroup, Unset}] /\ rngiplen \in 0 .. MAXCOUNTGROUPIP
        /\ slot \in Slots /\ NoGroup \notin Groups
        /\ cpc = "publish" => rngiplen < MAXCOUNTGROUPIP
        /\ cpc = "clear" => slot < rngiplen
    BY IgmpAssumption DEF HostInv, TypeOK, LoopInv
  <1> USE <1>t, SlotFacts DEF TableInv
  <1>1. CASE UNCHANGED <<tableVars, cpc, slot, wanted>> /\ (status' = status \/ status = "running")
    BY <1>1 DEF tableVars, Held
  <1>2. ASSUME NEW g \in Groups, Add(g) PROVE TableInv'
    <2>1. cpc = "stdin" /\ g \notin Held /\ status = "running" /\ rngiplen' = rngiplen /\ wanted' = wanted \cup {g}
      BY <1>2 DEF Add
    <2>2. CASE rngiplen < MAXCOUNTGROUPIP
      <3>1. rngip' = [rngip EXCEPT ![rngiplen] = g] /\ cpc' = "publish" BY <1>2, <2>2 DEF Add
      <3>2. rngip'[rngiplen] = g /\ \A s \in 0 .. rngiplen - 1 : rngip'[s] = rngip[s]
        BY <2>2, <3>1
      <3>3. Held' = Held BY <2>1, <3>2 DEF Held
      <3>4. wanted' = (Held \ {NoGroup}) \cup {g} BY <2>1
      <3>5. \A s \in Slots : s < rngiplen => rngip'[s] = rngip[s] BY <3>2
      <3> QED BY <2>1, <3>1, <3>2, <3>3, <3>4, <3>5
    <2>3. CASE ~(rngiplen < MAXCOUNTGROUPIP)
      <3>1. status' = "undefined" /\ UNCHANGED <<rngip, cpc>> BY <1>2, <2>3 DEF Add
      <3> QED BY <2>1, <3>1 DEF Held
    <2> QED BY <2>2, <2>3
  <1>3. CASE Publish
    <2>1. /\ cpc = "publish" /\ cpc' = "stdin" /\ rngiplen' = rngiplen + 1
          /\ rngip' = rngip /\ wanted' = wanted
      BY <1>3 DEF Publish
    <2>2. Held' = Held \cup {rngip[rngiplen]} BY <2>1 DEF Held
    <2>3. \A s \in Slots : s < rngiplen => rngip[s] \in Held BY DEF Held
    <2>4. \A s \in Slots : s < rngiplen' => s < rngiplen \/ s = rngiplen BY <2>1
    <2> QED BY <2>1, <2>2, <2>3, <2>4
  <1>4. ASSUME NEW g \in Groups, Del(g) PROVE TableInv'
    <2>1. /\ cpc = "stdin" /\ status = "running" /\ status' = status /\ UNCHANGED tableVars
          /\ wanted' = wanted \ {g} /\ wanted = Held \ {NoGroup}
      BY <1>4 DEF Del
    <2>2. Held' = Held BY <2>1 DEF tableVars, Held
    <2>3. CASE FirstWith(g) = {}
      <3>1. g \notin Held
        <4>1. SUFFICES ASSUME NEW s \in 0 .. rngiplen - 1, rngip[s] = g PROVE FALSE
          BY DEF Held
        <4>2. \A r \in 0 .. s - 1 : rngip[r] # g BY <4>1
        <4> QED BY <2>3, <4>1, <4>2 DEF FirstWith
      <3>2. cpc' = cpc BY <1>4, <2>3 DEF Del
      <3> QED BY <2>1, <2>2, <3>1, <3>2 DEF tableVars
    <2>4. CASE FirstWith(g) # {}
      <3>1. slot' \in FirstWith(g) /\ cpc' = "clear" BY <1>4, <2>4 DEF Del
      <3>2. rngip[slot'] = g BY <3>1 DEF FirstWith
      <3> QED BY <2>1, <2>2, <3>1, <3>2 DEF tableVars
    <2> QED BY <2>3, <2>4
  <1>5. CASE Clear
    <2>1. /\ cpc = "clear" /\ cpc' = "stdin" /\ rngip' = [rngip EXCEPT ![slot] = NoGroup]
          /\ UNCHANGED <<rngiplen, wanted>>
      BY <1>5 DEF Clear
    <2>2. \A s \in Slots : rngip'[s] = IF s = slot THEN NoGroup ELSE rngip[s] BY <2>1
    <2>3. \A s \in Slots : s < rngiplen /\ s # slot => rngip[s] # rngip[slot] BY <2>1
    <2>4. Held' \ {NoGroup} = Held \ {NoGroup, rngip[slot]}
      <3>1. \A s \in 0 .. rngiplen - 1 : s \in Slots OBVIOUS
      <3> QED BY <2>1, <2>2, <2>3, <3>1 DEF Held
    <2> QED BY <2>1, <2>2, <2>4
  <1>6. CASE \/ \E q \in Query : QueryArrives(q)
             \/ Listener \/ BadLine \/ UNCHANGED vars
    <2>1. UNCHANGED <<tableVars, cpc, slot, wanted>> /\ (status' = status \/ status = "running")
      BY <1>6 DEF QueryArrives, BadLine, Listener, Recv, DivideByZero, MatchSlot, ReportSpecific, SetDelay,
                  DelaysSet, CheckSlot, ReportGeneral, NextRound, Answered, Return, SendReport, vars,
                  tableVars, commandVars
    <2> QED BY <1>1, <2>1
  <1> QED BY <1>2, <1>3, <1>4, <1>5, <1>6 DEF Next, Commands

\* When no group is added twice, the table and the commands agree after every
\* command for any size of the table, also while a query is being answered
\* (client.c:311-336).
THEOREM TableFollowsCommands == ASSUME ~DuplicateAdds PROVE Spec => []TableMatchesCommands
  <1>1. ASSUME HostInv, TableInv, [Next]_vars PROVE TableInv' BY <1>1, TableStep
  <1>2. TableInv => TableMatchesCommands BY DEF TableInv, TableMatchesCommands
  <1> QED BY HostInvariant, TableInit, <1>1, <1>2, PTL DEF Spec

-----------------------------------------------------------------------------
(* The server.                                                             *)

\* thread_started tells whether the newest thread, and no other, is live.
StartedInv ==
  /\ process = "running" => (thread_started <=> clients # 0)
  /\ thread_started => Len(threads) > 0
  /\ \A t \in DOMAIN threads : ~threads[t].cancelled <=> thread_started /\ t = Len(threads)

\* A query is late only when its sender was cancelled inside sendto.
LateInv ==
  \A t \in DOMAIN threads :
    /\ threads[t].late <= 1
    /\ ~threads[t].cancelled \/ threads[t].pc = "sending" => threads[t].late = 0

ServerVarsTyped ==
  /\ socket \in Seq({"report", "leave"}) /\ clients \in Int /\ thread_started \in BOOLEAN
  /\ threads \in Seq(Thread) /\ Len(threads) <= ThreadLimit
  /\ process \in {"running", "exited"}

MembersTyped ==
  /\ members \in SUBSET Hosts /\ asked \in SUBSET members /\ due \in SUBSET Hosts
  /\ packets \in 0 .. MaxPackets /\ lost \in BOOLEAN /\ missed \in BOOLEAN /\ IsFiniteSet(members)

ServerInv == ServerVarsTyped /\ StartedInv /\ LateInv

-----------------------------------------------------------------------------
\* Sequences of threads change by a record put at the end or in one place.
LEMMA Threads ==
  ASSUME NEW s \in Seq(Thread)
  PROVE  /\ Len(s) \in Nat /\ DOMAIN s = 1 .. Len(s)
         /\ \A k \in DOMAIN s : s[k] \in Thread
         /\ \A x \in Thread : /\ Append(s, x) \in Seq(Thread) /\ Len(Append(s, x)) = Len(s) + 1
                              /\ Append(s, x)[Len(s) + 1] = x
                              /\ \A k \in DOMAIN s : Append(s, x)[k] = s[k]
         /\ \A x \in Thread, k \in DOMAIN s :
              [s EXCEPT ![k] = x] \in Seq(Thread) /\ Len([s EXCEPT ![k] = x]) = Len(s)
  OBVIOUS

\* The invariant holds when main starts.
LEMMA ServerStarts == ServerInit => ServerInv
  <1> SUFFICES ASSUME ServerInit PROVE ServerInv OBVIOUS
  <1> USE ServerAssumption DEF ServerInit
  <1>1. thread_started \in BOOLEAN BY Zenon
  <1>2. ServerVarsTyped BY <1>1 DEF ServerVarsTyped
  <1>3. StartedInv /\ LateInv BY DEF StartedInv, LateInv
  <1> QED BY <1>2, <1>3 DEF ServerInv

\* The hosts only touch the socket.
LEMMA HostStep ==
  ASSUME ServerInv, NEW h \in Hosts, Join(h) \/ Leave(h) \/ Answer(h)
  PROVE  ServerInv'
  <1> USE DEF ServerInv, serverVars
  <1>0. PICK packet \in {"report", "leave"} : Transmit(packet) BY DEF Join, Leave, Answer
  <1>1. socket' \in Seq({"report", "leave"}) BY <1>0 DEF Transmit, ServerVarsTyped
  <1>2. UNCHANGED serverVars BY DEF Join, Leave, Answer
  <1>3. ServerVarsTyped' BY <1>1, <1>2 DEF ServerVarsTyped
  <1>4. StartedInv' /\ LateInv' BY <1>2 DEF StartedInv, LateInv
  <1> QED BY <1>3, <1>4

\* The main thread keeps it: it creates a thread only after it has cancelled the last.
LEMMA MainStep == ASSUME ServerInv, Main PROVE ServerInv'
  <1> USE ServerAssumption DEF ServerInv, ServerVarsTyped
  <1>0. socket' \in Seq({"report", "leave"}) /\ clients' \in Int
    BY DEF Main, Counted
  <1>1. CASE clients' # 0 /\ ~thread_started /\ Create
    <2>1. CASE Len(threads) < ThreadLimit
      <3> DEFINE new == [pc |-> "sleep", cancelled |-> FALSE, late |-> 0]
      <3>1. new \in Thread BY DEF Thread
      <3>2. threads' = Append(threads, new) /\ thread_started' = TRUE /\ process' = process
        BY <1>1, <2>1 DEF Create
      <3>3. ServerVarsTyped' BY <1>0, <3>1, <3>2, <2>1, Threads
      <3>4. StartedInv' BY <1>1, <3>1, <3>2, Threads DEF StartedInv
      <3>5. LateInv' BY <3>1, <3>2, Threads DEF LateInv
      <3> QED BY <3>3, <3>4, <3>5
    <2>2. CASE Len(threads) >= ThreadLimit
      <3>1. process' = "exited" /\ UNCHANGED <<threads, thread_started>>
        BY <1>1, <2>2 DEF Create
      <3> QED BY <1>0, <3>1 DEF StartedInv, LateInv
    <2> QED BY <2>1, <2>2
  <1>2. CASE clients' = 0 /\ thread_started /\ Cancel
    <2> DEFINE n == Len(threads)
               new == [threads[n] EXCEPT !.cancelled = TRUE]
    <2>1. n \in DOMAIN threads /\ threads[n] \in Thread BY <1>2 DEF StartedInv
    <2>2. new \in Thread /\ new.cancelled /\ new.pc = threads[n].pc /\ new.late = threads[n].late
      BY <2>1 DEF Thread
    <2>3. /\ threads' = [threads EXCEPT ![n] = new]
          /\ thread_started' = FALSE /\ process' = process
      BY <1>2 DEF Cancel
    <2>4. ServerVarsTyped' BY <1>0, <2>1, <2>2, <2>3, Threads
    <2>5. StartedInv' BY <1>2, <2>1, <2>2, <2>3, Threads DEF StartedInv
    <2>6. LateInv' BY <1>2, <2>1, <2>2, <2>3, Threads DEF LateInv, StartedInv
    <2> QED BY <2>4, <2>5, <2>6
  <1>3. CASE (clients' = 0) = ~thread_started /\ UNCHANGED <<threads, thread_started, process>>
    BY <1>0, <1>3 DEF StartedInv, LateInv
  <1> QED BY <1>1, <1>2, <1>3 DEF Main

\* A step of a query thread changes where that thread is, and its lateness.
LEMMA QuerryStep ==
  ASSUME ServerInv, NEW t \in DOMAIN threads, Querry(t) PROVE ServerInv'
  <1> USE DEF ServerInv, ServerVarsTyped
  <1>0. threads[t] \in Thread BY Threads
  <1> SUFFICES ASSUME NEW new \in Thread, new.cancelled = threads[t].cancelled,
                      threads' = [threads EXCEPT ![t] = new],
                      new.late <= 1,
                      ~new.cancelled \/ new.pc = "sending" => new.late = 0,
                      UNCHANGED <<socket, clients, thread_started, process>>
               PROVE  ServerInv'
    <2>1. CASE Enter(t)
      <3> DEFINE new == [threads[t] EXCEPT !.pc = "sending"]
      <3>1. new \in Thread /\ new.cancelled = threads[t].cancelled /\ new.late = threads[t].late
        BY <1>0 DEF Thread
      <3> QED BY <2>1, <3>1 DEF Enter, LateInv, netVars
    <2>2. CASE End(t)
      <3> DEFINE new == [threads[t] EXCEPT !.pc = "ended"]
      <3>1. /\ new \in Thread /\ new.cancelled = threads[t].cancelled
            /\ new.late = threads[t].late /\ new.pc = "ended"
        BY <1>0 DEF Thread
      <3> QED BY <2>2, <3>1 DEF End, LateInv, netVars
    <2>3. CASE SendQuery(t) \/ SendFails(t)
      <3>1. PICK more \in {0, IF threads[t].cancelled THEN 1 ELSE 0} : Sent(t, more)
        BY <2>3 DEF SendQuery, SendFails
      <3> DEFINE new == [threads[t] EXCEPT !.pc = "sleep", !.late = threads[t].late + more]
      <3>2. threads[t].late \in Nat /\ threads[t].cancelled \in BOOLEAN BY <1>0 DEF Thread
      <3>3. new.late = threads[t].late + more /\ new.late \in Nat BY <1>0, <3>2 DEF Thread
      <3>4. /\ new \in Thread /\ new.cancelled = threads[t].cancelled /\ new.pc = "sleep"
        BY <1>0, <3>2, <3>3 DEF Thread
      <3>5. threads' = [threads EXCEPT ![t] = new] BY <3>1 DEF Sent
      <3>6. new.late <= 1 /\ (~new.cancelled => new.late = 0)
        BY <3>1, <3>2, <3>3, <3>4 DEF Sent, LateInv
      <3>7. UNCHANGED <<socket, clients, thread_started, process>> BY <3>1 DEF Sent
      <3> HIDE DEF new
      <3> QED BY <3>4, <3>5, <3>6, <3>7
    <2> QED BY <2>1, <2>2, <2>3 DEF Querry
  <1>1. ServerVarsTyped' BY Threads
  <1>2. StartedInv' BY Threads DEF StartedInv
  <1>3. LateInv' BY Threads DEF LateInv
  <1> QED BY <1>1, <1>2, <1>3

\* The invariant holds in every reachable state.
LEMMA ServerInvariant == ServerSpec => []ServerInv
  <1>1. ServerInv /\ [ServerNext]_igmpVars => ServerInv'
    <2> SUFFICES ASSUME ServerInv, [ServerNext]_igmpVars PROVE ServerInv' OBVIOUS
    <2>1. CASE UNCHANGED igmpVars
      BY <2>1 DEF igmpVars, netVars, serverVars, ServerInv, ServerVarsTyped, StartedInv, LateInv
    <2> QED BY <2>1, HostStep, MainStep, QuerryStep DEF ServerNext
  <1> QED BY <1>1, ServerStarts, PTL DEF ServerSpec

-----------------------------------------------------------------------------
\* However often the count passes zero and whatever the network loses, there is a
\* query thread exactly while it is not zero, and one only (IGMP_server.c:196-224).
THEOREM ExactlyOneQuerier == ServerSpec => []OneQuerier
  <1>1. ServerInv => OneQuerier
    BY Threads DEF ServerInv, ServerVarsTyped, StartedInv, OneQuerier, Live
  <1> QED BY <1>1, ServerInvariant, PTL

\* A cancelled thread sends at most the query it was already sending
\* (IGMP_server.c:144-154, 216).
THEOREM CancelledFallSilent == ServerSpec => []SilentAfterCancel
  <1>1. ServerInv => SilentAfterCancel
    BY DEF ServerInv, LateInv, SilentAfterCancel
  <1> QED BY <1>1, ServerInvariant, PTL

-----------------------------------------------------------------------------
(* The count and the packets in the socket.                                *)

Packets == {"report", "leave"}

Places(s, packet) == {k \in DOMAIN s : s[k] = packet}

LEMMA PlacesFinite ==
  ASSUME NEW s \in Seq(Packets), NEW packet
  PROVE  IsFiniteSet(Places(s, packet)) /\ Cardinality(Places(s, packet)) \in Nat
  <1>1. DOMAIN s = 1 .. Len(s) /\ Len(s) \in Nat OBVIOUS
  <1>2. IsFiniteSet(1 .. Len(s)) BY <1>1, FS_Interval
  <1>3. Places(s, packet) \subseteq 1 .. Len(s) BY <1>1 DEF Places
  <1> QED BY <1>2, <1>3, FS_Subset, FS_CardinalityType

\* A packet that arrives is one more of its kind.
LEMMA Arrival ==
  ASSUME NEW s \in Seq(Packets), NEW x \in Packets, NEW packet
  PROVE  Cardinality(Places(Append(s, x), packet))
           = Cardinality(Places(s, packet)) + (IF x = packet THEN 1 ELSE 0)
  <1>1. /\ Len(s) \in Nat /\ DOMAIN s = 1 .. Len(s)
        /\ DOMAIN Append(s, x) = 1 .. Len(s) + 1 /\ Append(s, x)[Len(s) + 1] = x
        /\ \A k \in 1 .. Len(s) : Append(s, x)[k] = s[k]
    OBVIOUS
  <1>2. IsFiniteSet(Places(s, packet)) /\ Cardinality(Places(s, packet)) \in Nat BY PlacesFinite
  <1>n. Len(s) + 1 \notin Places(s, packet) BY <1>1 DEF Places
  <1>3. CASE x = packet
    <2>1. Places(Append(s, x), packet) = Places(s, packet) \cup {Len(s) + 1}
      BY <1>1, <1>3 DEF Places
    <2> QED BY <1>2, <1>n, <1>3, <2>1, FS_AddElement
  <1>4. CASE x # packet
    <2>1. Places(Append(s, x), packet) = Places(s, packet) BY <1>1, <1>4 DEF Places
    <2> QED BY <1>2, <1>4, <2>1
  <1> QED BY <1>3, <1>4

\* The packet that is taken out is one less of its kind.
LEMMA Departure ==
  ASSUME NEW s \in Seq(Packets), s # <<>>, NEW packet
  PROVE  Cardinality(Places(s, packet))
           = Cardinality(Places(Tail(s), packet)) + (IF Head(s) = packet THEN 1 ELSE 0)
  <1> DEFINE rest == Places(Tail(s), packet)
             Later == Places(s, packet) \ {1}
             shift == [k \in rest |-> k + 1]
  <1>1. /\ Len(s) \in Nat \ {0} /\ DOMAIN s = 1 .. Len(s) /\ Tail(s) \in Seq(Packets)
        /\ DOMAIN Tail(s) = 1 .. Len(s) - 1 /\ Head(s) = s[1]
        /\ \A k \in 1 .. Len(s) - 1 : Tail(s)[k] = s[k + 1]
    OBVIOUS
  <1>2. /\ \A k \in rest : k \in Nat /\ k + 1 \in Later
        /\ \A m \in Later : m \in Nat /\ m - 1 \in rest /\ (m - 1) + 1 = m
    <2>1. \A k \in 1 .. Len(s) - 1 : k \in Nat /\ k + 1 \in 1 .. Len(s) /\ k + 1 # 1 BY <1>1
    <2>2. \A m \in 1 .. Len(s) : m # 1 => m \in Nat /\ m - 1 \in 1 .. Len(s) - 1 /\ (m - 1) + 1 = m BY <1>1
    <2>3. \A k \in rest : k \in 1 .. Len(s) - 1 /\ s[k + 1] = packet BY <1>1 DEF Places
    <2>4. \A m \in Later : m \in 1 .. Len(s) /\ m # 1 /\ s[m] = packet BY <1>1 DEF Places
    <2>5. ASSUME NEW k \in rest PROVE k \in Nat /\ k + 1 \in Later BY <1>1, <2>1, <2>3 DEF Places
    <2>6. ASSUME NEW m \in Later PROVE m \in Nat /\ m - 1 \in rest /\ (m - 1) + 1 = m
      <3>1. m - 1 \in 1 .. Len(s) - 1 /\ (m - 1) + 1 = m /\ m \in Nat BY <2>2, <2>4
      <3>2. Tail(s)[m - 1] = packet BY <1>1, <2>4, <3>1
      <3> QED BY <1>1, <3>1, <3>2 DEF Places
    <2> QED BY <2>5, <2>6
  <1>3. shift \in Bijection(rest, Later)
    <2> HIDE DEF rest, Later
    <2> QED BY <1>2 DEF Bijection, Injection, Surjection, IsInjective
  <1>4. IsFiniteSet(rest) /\ Cardinality(rest) \in Nat BY <1>1, PlacesFinite
  <1>5. IsFiniteSet(Later) /\ Cardinality(Later) = Cardinality(rest)
    <2> HIDE DEF rest, Later, shift
    <2> QED BY <1>3, <1>4, FS_Bijection DEF ExistsBijection
  <1>6. CASE Head(s) = packet
    <2>1. 1 \in Places(s, packet) BY <1>1, <1>6 DEF Places
    <2>2. Cardinality(Later) = Cardinality(Places(s, packet)) - 1
      BY <2>1, PlacesFinite, FS_RemoveElement
    <2> QED BY <1>4, <1>5, <1>6, <2>2, PlacesFinite
  <1>7. CASE Head(s) # packet
    <2>1. Later = Places(s, packet) BY <1>1, <1>7 DEF Places
    <2> QED BY <1>4, <1>5, <1>7, <2>1
  <1> QED BY <1>6, <1>7

\* What the hosts and the network keep.
LEMMA MembersTypedInvariant == ServerSpec => []MembersTyped
  <1>1. ServerInit => MembersTyped
    <2> SUFFICES ASSUME ServerInit PROVE MembersTyped OBVIOUS
    <2>1. lost \in BOOLEAN /\ missed \in BOOLEAN BY Zenon DEF ServerInit
    <2>2. packets \in 0 .. MaxPackets BY ServerAssumption DEF ServerInit
    <2>3. members = {} /\ asked = {} /\ due = {} BY DEF ServerInit
    <2> QED BY <2>1, <2>2, <2>3, FS_EmptySet DEF MembersTyped
  <1>2. MembersTyped /\ [ServerNext]_igmpVars => MembersTyped'
    <2> SUFFICES ASSUME MembersTyped, [ServerNext]_igmpVars PROVE MembersTyped' OBVIOUS
    <2>1. ASSUME NEW packet, Transmit(packet)
          PROVE  packets' \in 0 .. MaxPackets /\ lost' \in BOOLEAN
      <3>1. packets' \in 0 .. MaxPackets BY <2>1, ServerAssumption DEF Transmit, MembersTyped
      <3>2. lost' \in BOOLEAN BY <2>1, Zenon DEF Transmit, MembersTyped
      <3> QED BY <3>1, <3>2
    <2>2. ASSUME NEW h \in Hosts, Join(h) PROVE MembersTyped'
      <3>1. IsFiniteSet(members') BY <2>2, FS_AddElement DEF Join, MembersTyped
      <3> QED BY <2>1, <2>2, <3>1 DEF Join, MembersTyped
    <2>3. ASSUME NEW h \in Hosts, Leave(h) PROVE MembersTyped'
      <3>1. IsFiniteSet(members') BY <2>3, FS_RemoveElement DEF Leave, MembersTyped
      <3> QED BY <2>1, <2>3, <3>1 DEF Leave, MembersTyped
    <2>4. ASSUME NEW h \in Hosts, Answer(h) PROVE MembersTyped'
      BY <2>1, <2>4 DEF Answer, MembersTyped
    <2>5. CASE Main BY <2>5 DEF Main, MembersTyped, hostVars
    <2>6. ASSUME NEW t \in DOMAIN threads, Enter(t) \/ End(t) PROVE MembersTyped'
      BY <2>6 DEF Enter, End, MembersTyped, hostVars, netVars
    <2>7. ASSUME NEW t \in DOMAIN threads, SendQuery(t) PROVE MembersTyped'
      <3>1. PICK S \in SUBSET members :
              asked' = asked \cup S /\ due' = due \cup S /\ missed' = (missed \/ S # members)
        BY <2>7 DEF SendQuery
      <3>2. UNCHANGED <<members, packets, lost>> BY <2>7 DEF SendQuery, Sent
      <3>3. missed' \in BOOLEAN BY <3>1, Zenon DEF MembersTyped
      <3> QED BY <3>1, <3>2, <3>3 DEF MembersTyped
    <2>9. ASSUME NEW t \in DOMAIN threads, SendFails(t) PROVE MembersTyped'
      BY <2>9 DEF SendFails, Sent, MembersTyped
    <2>8. CASE UNCHANGED igmpVars BY <2>8 DEF igmpVars, hostVars, netVars, MembersTyped
    <2> QED BY <2>2, <2>3, <2>4, <2>5, <2>6, <2>7, <2>8, <2>9 DEF ServerNext, Querry
  <1> QED BY <1>1, <1>2, PTL DEF ServerSpec

\* For any hosts, any loss and any limit the variables stay within their types.
THEOREM ServerTyped == ServerSpec => []ServerTypeOK
  <1>1. ServerInv /\ MembersTyped => ServerTypeOK BY DEF ServerInv, ServerVarsTyped, MembersTyped, ServerTypeOK
  <1> QED BY <1>1, ServerInvariant, MembersTypedInvariant, PTL

\* Until a report or leave is lost, the count and what is still in the socket cover the members,
\* however reports, leaves and answers interleave (IGMP_server.c:185-194).
THEOREM CountCovers == ServerSpec => []CountCoversMembers
  <1> DEFINE Reports == Cardinality(Places(socket, "report"))
             Leaves == Cardinality(Places(socket, "leave"))
             Size == Cardinality(members)
  <1>w. Waiting("report") = Reports /\ Waiting("leave") = Leaves BY DEF Waiting, Places
  <1>v. (CountCoversMembers <=> (~lost => clients + Reports - Leaves >= Size))'
    BY DEF CountCoversMembers, Waiting, Places
  <1>1. ServerInit => CountCoversMembers
    <2> SUFFICES ASSUME ServerInit PROVE CountCoversMembers OBVIOUS
    <2>1. Places(socket, "report") = {} /\ Places(socket, "leave") = {} /\ members = {} /\ clients = 0
      BY DEF ServerInit, Places
    <2>2. Reports = 0 /\ Leaves = 0 /\ Size = 0 BY <2>1, FS_EmptySet
    <2> QED BY <1>w, <2>1, <2>2 DEF CountCoversMembers
  <1>2. ServerInv /\ MembersTyped /\ CountCoversMembers /\ [ServerNext]_igmpVars => CountCoversMembers'
    <2> SUFFICES ASSUME ServerInv, MembersTyped, CountCoversMembers, [ServerNext]_igmpVars, ~lost'
                 PROVE  clients' + Reports' - Leaves' >= Size'
      BY <1>v
    <2>t. socket \in Seq(Packets) /\ clients \in Int /\ IsFiniteSet(members)
      BY DEF ServerInv, ServerVarsTyped, MembersTyped, Packets
    <2>n. Reports \in Nat /\ Leaves \in Nat /\ Size \in Nat
      BY <2>t, PlacesFinite, FS_CardinalityType
    <2>c. ~lost => clients + Reports - Leaves >= Size BY <1>w DEF CountCoversMembers
    <2>a. ASSUME NEW packet \in Packets, Transmit(packet)
          PROVE  /\ ~lost
                 /\ Reports' = Reports + (IF packet = "report" THEN 1 ELSE 0)
                 /\ Leaves' = Leaves + (IF packet = "leave" THEN 1 ELSE 0)
      <3>1. socket' = Append(socket, packet) /\ ~lost BY <2>a DEF Transmit
      <3> QED BY <2>t, <3>1, Arrival
    <2> HIDE DEF Reports, Leaves, Size
    <2>1. ASSUME NEW h \in Hosts, Join(h) PROVE clients' + Reports' - Leaves' >= Size'
      <3>1. ~lost /\ Reports' = Reports + 1 /\ Leaves' = Leaves
        BY <2>1, <2>a, <2>n DEF Join, Packets
      <3>2. Size' = Size + 1 BY <2>1, <2>t, FS_AddElement DEF Join, Size
      <3>3. clients' = clients BY <2>1 DEF Join, serverVars
      <3> QED BY <2>c, <2>n, <2>t, <3>1, <3>2, <3>3
    <2>2. ASSUME NEW h \in Hosts, Leave(h) PROVE clients' + Reports' - Leaves' >= Size'
      <3>1. ~lost /\ Reports' = Reports /\ Leaves' = Leaves + 1
        BY <2>2, <2>a, <2>n DEF Leave, Packets
      <3>2. Size' = Size - 1 BY <2>2, <2>t, FS_RemoveElement DEF Leave, Size
      <3>3. clients' = clients BY <2>2 DEF Leave, serverVars
      <3> QED BY <2>c, <2>n, <2>t, <3>1, <3>2, <3>3
    <2>3. ASSUME NEW h \in Hosts, Answer(h) PROVE clients' + Reports' - Leaves' >= Size'
      <3>1. ~lost /\ Reports' = Reports + 1 /\ Leaves' = Leaves
        BY <2>3, <2>a, <2>n DEF Answer, Packets
      <3>2. Size' = Size /\ clients' = clients BY <2>3 DEF Answer, serverVars, Size
      <3> QED BY <2>c, <2>n, <2>t, <3>1, <3>2
    <2>4. CASE Main
      <3>1. /\ socket # <<>> /\ socket' = Tail(socket) /\ clients' = Counted
            /\ members' = members /\ lost' = lost
        BY <2>4 DEF Main, hostVars
      <3>2. /\ Reports = Reports' + (IF Head(socket) = "report" THEN 1 ELSE 0)
            /\ Leaves = Leaves' + (IF Head(socket) = "leave" THEN 1 ELSE 0)
        BY <2>t, <3>1, Departure DEF Reports, Leaves
      <3>3. Head(socket) \in Packets /\ socket' \in Seq(Packets) BY <2>t, <3>1
      <3>4. PICK r \in Nat, l \in Nat : r = Reports' /\ l = Leaves'
        BY <3>3, PlacesFinite DEF Reports, Leaves
      <3>5. Size' = Size BY <3>1 DEF Size
      <3>6. PICK r0 \in Int, l0 \in Int, c0 \in Int, size0 \in Int :
              r0 = Reports /\ l0 = Leaves /\ c0 = clients /\ size0 = Size
        BY <2>n, <2>t
      <3>7. c0 + r0 - l0 >= size0 BY <2>c, <3>1, <3>6
      <3>8. CASE Head(socket) = "report"
        <4>1. r0 = r + 1 /\ l0 = l + 0 BY <3>2, <3>4, <3>6, <3>8
        <4>2. clients' = c0 + 1 BY <3>1, <3>6, <3>8 DEF Counted
        <4>3. (c0 + 1) + r - l >= size0 BY <3>7, <4>1
        <4> QED BY <3>4, <3>5, <3>6, <4>2, <4>3
      <3>9. CASE Head(socket) = "leave"
        <4>1. r0 = r + 0 /\ l0 = l + 1 BY <3>2, <3>4, <3>6, <3>9
        <4>2. clients' = c0 - 1 BY <3>1, <3>6, <3>9 DEF Counted
        <4>3. (c0 - 1) + r - l >= size0 BY <3>7, <4>1
        <4> QED BY <3>4, <3>5, <3>6, <4>2, <4>3
      <3> QED BY <3>3, <3>8, <3>9 DEF Packets
    <2>5. CASE UNCHANGED <<members, socket, clients>> /\ (~lost' => ~lost)
      BY <2>5, <2>c DEF Reports, Leaves, Size
    <2>6. ASSUME NEW t \in DOMAIN threads, Querry(t)
          PROVE  UNCHANGED <<members, socket, clients>> /\ (~lost' => ~lost)
      <3>1. CASE Enter(t) \/ End(t) BY <3>1 DEF Enter, End, hostVars, netVars
      <3>2. CASE SendQuery(t) \/ SendFails(t) BY <3>2 DEF SendQuery, SendFails, Sent
      <3> QED BY <2>6, <3>1, <3>2 DEF Querry
    <2>7. UNCHANGED igmpVars => UNCHANGED <<members, socket, clients>> /\ (~lost' => ~lost)
      BY DEF igmpVars, hostVars, netVars, serverVars
    <2> QED BY <2>1, <2>2, <2>3, <2>4, <2>5, <2>6, <2>7 DEF ServerNext
  <1> HIDE DEF Reports, Leaves, Size
  <1> QED BY <1>1, <1>2, ServerInvariant, MembersTypedInvariant, PTL DEF ServerSpec
=============================================================================
