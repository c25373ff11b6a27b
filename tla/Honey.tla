------------------------------- MODULE Honey --------------------------------
(***************************************************************************)
(* Winnie and the bees of C/Vinny/main.c.  The honey is one byte of a file *)
(* that Winnie and each bee read, change and write back, without a lock.   *)
(* Winnie lives as long as each meal finds enough; a bee comes once.       *)
(***************************************************************************)
EXTENDS Integers

CONSTANTS Food,    \* the honey at first, and the number of processes forked (64 in the code)
          Meals,   \* what the user may enter for a meal
          Modulus  \* values of a byte (256)

ASSUME HoneyAssumption ==
  /\ Food \in Nat \ {0} /\ Meals \subseteq Nat \ {0}
  /\ Modulus \in Nat /\ Modulus >= 2 * Food

Winnie == 0
Bees   == 1 .. Food - 1
Procs  == 0 .. Food - 1

VARIABLES
  vieat,    \* the size of a meal
  pot,      \* the byte in tmp.txt
  i,        \* the loop counter of the parent
  pc, food, \* the statement of each process, and what it has read last
  eaten,    \* history: honey Winnie has eaten
  brought,  \* history: how many bees have written
  stale     \* history: some process has written over a value it had not read

vars == <<vieat, pot, i, pc, food, eaten, brought, stale>>

TypeOK ==
  /\ vieat \in Meals /\ pot \in 0 .. Modulus - 1 /\ i \in 0 .. Food
  /\ pc \in [Procs -> {"none", "look", "taste", "eat", "come", "bring", "home", "dead"}]
  /\ food \in [Procs -> 0 .. Modulus - 1]
  /\ eaten \in Nat /\ brought \in 0 .. Food /\ stale \in BOOLEAN

\* After writefile(64) and the two scanf.
Init ==
  /\ vieat \in Meals /\ pot = Food /\ i = 0
  /\ pc = [p \in Procs |-> "none"] /\ food = [p \in Procs |-> Food]
  /\ eaten = 0 /\ brought = 0 /\ stale = FALSE

Goto(p, label) == pc' = [pc EXCEPT ![p] = label]

-----------------------------------------------------------------------------
\* The parent forks Winnie first; it leaves when fork fails.
Fork ==
  /\ i < Food
  /\ \/ Goto(i, IF i = Winnie THEN "look" ELSE "come") /\ i' = i + 1
     \/ i' = Food /\ UNCHANGED pc
  /\ UNCHANGED <<vieat, pot, food, eaten, brought, stale>>

ReadFile(p, label, next) ==
  /\ pc[p] = label /\ Goto(p, next)
  /\ food' = [food EXCEPT ![p] = pot]
  /\ UNCHANGED <<vieat, pot, i, eaten, brought, stale>>

\* fputc keeps the low eight bits.
WriteFile(p, ch) ==
  /\ pot' = ch % Modulus
  /\ stale' = (stale \/ food[p] # pot)

\* The loop is entered if the first look finds honey; otherwise Winnie goes on as a bee.
Look == ReadFile(Winnie, "look", IF pot > 0 THEN "taste" ELSE "come")

Taste == ReadFile(Winnie, "taste", "eat")

\* A variant with a bug, not used below: the loop asks for what is left, not for what was there.
EatWhileLeft ==
  /\ pc[Winnie] = "eat"
  /\ WriteFile(Winnie, food[Winnie] - vieat) /\ eaten' = eaten + vieat
  /\ Goto(Winnie, CASE food[Winnie] < vieat -> "dead"
                    [] food[Winnie] = vieat -> "come"
                    [] OTHER -> "taste")
  /\ UNCHANGED <<vieat, i, food, brought>>

\* The meal is taken before Winnie looks, a delay later, whether there was enough.  Who has
\* had enough has found more than nothing: the loop goes on.
Eat ==
  /\ pc[Winnie] = "eat"
  /\ WriteFile(Winnie, food[Winnie] - vieat) /\ eaten' = eaten + vieat
  /\ Goto(Winnie, IF food[Winnie] < vieat THEN "dead" ELSE "taste")
  /\ UNCHANGED <<vieat, i, food, brought>>

Come(p) == ReadFile(p, "come", "bring")

\* A variant with a bug, not used below: the bee brings a meal, not a portion.
BringMeal(p) ==
  /\ pc[p] = "bring" /\ Goto(p, "home")
  /\ WriteFile(p, food[p] + vieat) /\ brought' = brought + 1
  /\ UNCHANGED <<vieat, i, food, eaten>>

Bring(p) ==
  /\ pc[p] = "bring" /\ Goto(p, "home")
  /\ WriteFile(p, food[p] + 1) /\ brought' = brought + 1
  /\ UNCHANGED <<vieat, i, food, eaten>>

WinnieStep == Look \/ Taste \/ Eat

Next == Fork \/ WinnieStep \/ \E p \in Procs : Come(p) \/ Bring(p)

Spec == Init /\ [][Next]_vars

\* Each process is scheduled and each sleep ends.
FairSpec ==
  /\ Spec /\ WF_vars(Fork) /\ WF_vars(WinnieStep)
  /\ \A p \in Procs : WF_vars(Come(p) \/ Bring(p))

-----------------------------------------------------------------------------
\* Until the meal that kills Winnie the pot is never emptier than if no bee had come, nor
\* fuller than if nothing had been eaten: updates get lost, but none is made twice and no
\* byte overflows.  It is exactly right until a value is written over unread
\* (Vinny/main.c:42, 55-57, 74-76).
PotBounded ==
  pc[Winnie] # "dead" =>
    /\ Food - eaten <= pot /\ pot <= Food + brought
    /\ ~stale => pot = Food - eaten + brought

\* The bees come once each, so however many meals their late writing undoes, Winnie
\* dies in the end (Vinny/main.c:54-64).
WinnieDies == pc[Winnie] = "look" ~> pc[Winnie] = "dead"
=============================================================================
