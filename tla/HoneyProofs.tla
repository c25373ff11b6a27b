---------------------------- MODULE HoneyProofs -----------------------------
(***************************************************************************)
(* For every number of processes and every size of a meal: as long as      *)
(* Winnie lives, the honey in the pot, and what any process has read of it *)
(* and is about to write back, lies between what would be left without the *)
(* bees and what would be there without Winnie.  An update that gets lost  *)
(* only moves the pot inside these bounds, since both only widen.          *)
(***************************************************************************)
EXTENDS Honey, FiniteSets, FiniteSetTheorems, TLAPS

Home == {p \in Procs : pc[p] = "home"}

Within(n) == Food - eaten <= n /\ n <= Food + brought

Inv ==
  /\ TypeOK
  /\ pc[Winnie] \in {"none", "look", "taste", "eat", "dead"}
  /\ \A p \in Bees : pc[p] \in {"none", "come", "bring", "home"}
  /\ \A p \in Procs : p >= i => pc[p] = "none"
  /\ pc[Winnie] \in {"none", "look"} => eaten = 0
  /\ brought = Cardinality(Home)
  /\ pc[Winnie] # "dead" =>
       /\ Within(pot)
       /\ \A p \in Procs : pc[p] \in {"eat", "bring"} => Within(food[p])
       /\ ~stale => pot = Food - eaten + brought

-----------------------------------------------------------------------------
\* A value that fits into the byte is written as it is.
LEMMA Fits ==
  ASSUME NEW n \in Nat, n < Modulus
  PROVE  n % Modulus = n
BY HoneyAssumption

\* A written value is a value of the byte.
LEMMA IsByte ==
  ASSUME NEW n \in Int
  PROVE  n % Modulus \in 0 .. Modulus - 1
BY HoneyAssumption

LEMMA ProcsFinite ==
  /\ IsFiniteSet(Bees) /\ Cardinality(Bees) = Food - 1
  /\ Winnie \in Procs /\ Winnie \notin Bees /\ Procs = Bees \cup {Winnie}
<1>1. IsFiniteSet(Bees) /\ Cardinality(Bees) = Food - 1
  BY FS_Interval, HoneyAssumption DEF Bees
<1>2. Winnie \in Procs /\ Winnie \notin Bees /\ Procs = Bees \cup {Winnie}
  BY HoneyAssumption DEF Procs, Bees, Winnie
<1> QED BY <1>1, <1>2

\* Whoever is home is a bee, and while a bee is out there is room for it.
LEMMA HomeBees ==
  ASSUME Inv
  PROVE  /\ IsFiniteSet(Home) /\ Home \subseteq Bees /\ Cardinality(Home) \in Nat
         /\ brought <= Food - 1
         /\ \A p \in Procs : p \notin Home /\ p # Winnie => brought + 1 <= Food - 1
<1>1. Home \subseteq Bees
  BY ProcsFinite DEF Home, Inv
<1>2. IsFiniteSet(Home) /\ Cardinality(Home) \in Nat /\ Cardinality(Home) <= Food - 1
  BY <1>1, ProcsFinite, FS_Subset, FS_CardinalityType
<1>3. ASSUME NEW p \in Procs, p \notin Home, p # Winnie
      PROVE  brought + 1 <= Food - 1
  <2>1. Home \cup {p} \subseteq Bees
    BY <1>1, <1>3, ProcsFinite
  <2>2. Cardinality(Home \cup {p}) = Cardinality(Home) + 1
    BY <1>2, <1>3, FS_AddElement
  <2> QED BY <2>1, <2>2, ProcsFinite, FS_Subset DEF Inv
<1> QED BY <1>1, <1>2, <1>3 DEF Inv

-----------------------------------------------------------------------------
LEMMA InvInit == Init => Inv
<1> SUFFICES ASSUME Init PROVE Inv
  OBVIOUS
<1>1. Home = {} /\ Cardinality(Home) = 0
  BY FS_EmptySet DEF Home, Init
<1>2. TypeOK
  <2>1. Food \in 0 .. Modulus - 1
    BY HoneyAssumption
  <2>2. /\ pc \in [Procs -> {"none", "look", "taste", "eat", "come", "bring", "home", "dead"}]
        /\ food \in [Procs -> 0 .. Modulus - 1]
    BY <2>1 DEF Init
  <2>3. stale \in BOOLEAN
    BY DEF Init
  <2> QED BY <2>1, <2>2, <2>3, HoneyAssumption DEF Init, TypeOK
<1> QED BY <1>1, <1>2, ProcsFinite, HoneyAssumption DEF Init, Inv, Within, Bees, Procs, Winnie

\* The parent adds a process that was not there; nothing else changes.
LEMMA InvFork ==
  ASSUME Inv, Fork PROVE Inv'
<1> USE HoneyAssumption
<1>1. /\ i \in Procs /\ pc[i] = "none" /\ i # Winnie => i \in Bees
  BY DEF Inv, TypeOK, Fork, Procs, Bees, Winnie
<1>2. Home' = Home
  BY <1>1 DEF Home, Inv, TypeOK, Fork, Goto
<1>3. TypeOK'
  BY <1>1 DEF Inv, TypeOK, Fork, Goto
<1>4. /\ (pc[Winnie] \in {"none", "look", "taste", "eat", "dead"})'
      /\ (\A p \in Bees : pc[p] \in {"none", "come", "bring", "home"})'
  BY <1>1, ProcsFinite DEF Inv, TypeOK, Fork, Goto
<1>5. (\A p \in Procs : p >= i => pc[p] = "none")'
  BY <1>1 DEF Inv, TypeOK, Fork, Goto, Procs
<1>6. (pc[Winnie] \in {"none", "look"} => eaten = 0)'
  BY <1>1, ProcsFinite DEF Inv, TypeOK, Fork, Goto
<1>7. \A p \in Procs : pc'[p] \in {"eat", "bring"} => pc[p] \in {"eat", "bring"}
  BY <1>1 DEF Inv, TypeOK, Fork, Goto
<1>8. pc'[Winnie] # "dead" => pc[Winnie] # "dead"
  BY <1>1, ProcsFinite DEF Inv, TypeOK, Fork, Goto
<1> QED BY <1>2, <1>3, <1>4, <1>5, <1>6, <1>7, <1>8 DEF Inv, Within, Fork

\* Whoever reads gets a value within the bounds; who has read the pot is not home.
LEMMA InvRead ==
  ASSUME Inv, NEW p \in Procs, NEW label, NEW next, ReadFile(p, label, next),
         label # "none", label # "home", label # "dead",
         p = Winnie => next \in {"taste", "eat"} /\ label \in {"look", "taste"}
                       /\ (label = "look" => next = "taste"),
         p # Winnie => next = "bring"
  PROVE  Inv'
<1> USE HoneyAssumption
<1>1. pc[p] = label /\ pc' = [pc EXCEPT ![p] = next] /\ food' = [food EXCEPT ![p] = pot]
      /\ UNCHANGED <<vieat, pot, i, eaten, brought, stale>>
  BY DEF ReadFile, Goto
<1>2. Home' = Home
  BY <1>1 DEF Home, Inv, TypeOK
<1>3. TypeOK'
  BY <1>1 DEF Inv, TypeOK
<1>4. /\ (pc[Winnie] \in {"none", "look", "taste", "eat", "dead"})'
      /\ (\A q \in Bees : pc[q] \in {"none", "come", "bring", "home"})'
  BY <1>1, ProcsFinite DEF Inv, TypeOK
<1>5. (\A q \in Procs : q >= i => pc[q] = "none")'
  BY <1>1 DEF Inv, TypeOK, Procs
<1>6. (pc[Winnie] \in {"none", "look"} => eaten = 0)'
  BY <1>1, ProcsFinite DEF Inv, TypeOK
<1>7. pc'[Winnie] # "dead" => pc[Winnie] # "dead"
  BY <1>1, ProcsFinite DEF Inv, TypeOK
<1>8. \A q \in Procs : pc'[q] \in {"eat", "bring"} =>
        food'[q] = pot \/ (food'[q] = food[q] /\ pc[q] \in {"eat", "bring"})
  BY <1>1 DEF Inv, TypeOK
<1> QED BY <1>1, <1>2, <1>3, <1>4, <1>5, <1>6, <1>7, <1>8 DEF Inv, Within

\* A meal that finds enough takes as much as it adds to the bound; one that does not is the last.
LEMMA InvEat ==
  ASSUME Inv, Eat PROVE Inv'
<1> USE HoneyAssumption
<1>1. /\ pc[Winnie] = "eat" /\ Winnie \in Procs
      /\ pc' = [pc EXCEPT ![Winnie] = IF food[Winnie] < vieat THEN "dead" ELSE "taste"]
      /\ pot' = (food[Winnie] - vieat) % Modulus /\ eaten' = eaten + vieat
      /\ stale' = (stale \/ food[Winnie] # pot)
      /\ UNCHANGED <<vieat, i, food, brought>>
  BY ProcsFinite DEF Eat, WriteFile, Goto
<1>2. /\ food[Winnie] \in 0 .. Modulus - 1 /\ vieat \in Nat \ {0} /\ eaten \in Nat /\ pot \in Nat
      /\ brought \in Nat
  BY <1>1 DEF Inv, TypeOK
<1>3. Home' = Home
  BY <1>1 DEF Home, Inv, TypeOK
<1>4. pot' \in 0 .. Modulus - 1
  BY <1>1, <1>2, IsByte
<1>5. TypeOK'
  BY <1>1, <1>2, <1>4 DEF Inv, TypeOK
<1>6. /\ (pc[Winnie] \in {"none", "look", "taste", "eat", "dead"})'
      /\ (\A q \in Bees : pc[q] \in {"none", "come", "bring", "home"})'
      /\ (pc[Winnie] \in {"none", "look"} => eaten = 0)'
  BY <1>1, ProcsFinite DEF Inv, TypeOK
<1>7. (\A q \in Procs : q >= i => pc[q] = "none")'
  BY <1>1 DEF Inv, TypeOK, Procs, Winnie
<1>8. ASSUME pc'[Winnie] # "dead"
      PROVE  /\ Within(pot)'
             /\ (\A q \in Procs : pc[q] \in {"eat", "bring"} => Within(food[q]))'
             /\ (~stale => pot = Food - eaten + brought)'
  <2>1. food[Winnie] >= vieat
    BY <1>1, <1>2, <1>8 DEF Inv, TypeOK
  <2>2. pot' = food[Winnie] - vieat
    <3>1. food[Winnie] - vieat \in Nat /\ food[Winnie] - vieat < Modulus
      BY <1>2, <2>1
    <3> QED BY <3>1, <1>1, Fits
  <2>3. Within(food[Winnie])
    BY <1>1 DEF Inv
  <2>4. Within(pot)'
    BY <1>1, <1>2, <2>2, <2>3 DEF Within
  <2>5. \A q \in Procs : pc'[q] \in {"eat", "bring"} => pc[q] \in {"eat", "bring"} /\ food'[q] = food[q]
    BY <1>1 DEF Inv, TypeOK
  <2>6. \A q \in Procs : food[q] \in Nat
    BY DEF Inv, TypeOK
  <2>7. \A n \in Nat : Within(n) => Within(n)'
    BY <1>1, <1>2 DEF Within
  <2>8. (\A q \in Procs : pc[q] \in {"eat", "bring"} => Within(food[q]))'
    <3> SUFFICES ASSUME NEW q \in Procs, pc'[q] \in {"eat", "bring"} PROVE Within(food[q])'
      OBVIOUS
    <3>1. Within(food[q]) /\ food'[q] = food[q] /\ food[q] \in Nat
      BY <2>5, <2>6, <1>1 DEF Inv
    <3> QED BY <3>1, <1>1, <1>2 DEF Within
  <2>9. (~stale => pot = Food - eaten + brought)'
    <3>1. ~stale' => ~stale /\ food[Winnie] = pot
      BY <1>1, Zenon
    <3>2. ~stale => pot = Food - eaten + brought
      BY <1>1 DEF Inv
    <3> QED BY <3>1, <3>2, <1>1, <1>2, <2>2
  <2> QED BY <2>4, <2>8, <2>9
<1>9. (brought = Cardinality(Home))'
  BY <1>1, <1>3 DEF Inv
<1> QED BY <1>5, <1>6, <1>7, <1>8, <1>9 DEF Inv

\* A bee adds one to what it has read and is one more that has come home.
LEMMA InvBring ==
  ASSUME Inv, NEW p \in Procs, Bring(p) PROVE Inv'
<1> USE HoneyAssumption
<1>1. /\ pc[p] = "bring" /\ pc' = [pc EXCEPT ![p] = "home"]
      /\ pot' = (food[p] + 1) % Modulus /\ brought' = brought + 1
      /\ stale' = (stale \/ food[p] # pot)
      /\ UNCHANGED <<vieat, i, food, eaten>>
  BY DEF Bring, WriteFile, Goto
<1>2. p # Winnie /\ p \in Bees /\ p \notin Home
  BY <1>1, ProcsFinite DEF Inv, Home
<1>3. /\ food[p] \in 0 .. Modulus - 1 /\ eaten \in Nat /\ pot \in Nat /\ brought \in Nat
  BY DEF Inv, TypeOK
<1>4. brought + 1 <= Food - 1 /\ IsFiniteSet(Home)
  BY <1>2, HomeBees
<1>5. Home' = Home \cup {p}
  BY <1>1 DEF Home, Inv, TypeOK
<1>6. (brought = Cardinality(Home))'
  BY <1>1, <1>2, <1>4, <1>5, FS_AddElement DEF Inv
<1>7. pot' \in 0 .. Modulus - 1
  BY <1>1, <1>3, IsByte
<1>8. TypeOK'
  BY <1>1, <1>3, <1>4, <1>7 DEF Inv, TypeOK
<1>9. /\ (pc[Winnie] \in {"none", "look", "taste", "eat", "dead"})'
      /\ (\A q \in Bees : pc[q] \in {"none", "come", "bring", "home"})'
      /\ (pc[Winnie] \in {"none", "look"} => eaten = 0)'
      /\ pc'[Winnie] = pc[Winnie]
  BY <1>1, <1>2, ProcsFinite DEF Inv, TypeOK
<1>10. (\A q \in Procs : q >= i => pc[q] = "none")'
  BY <1>1 DEF Inv, TypeOK, Procs
<1>11. ASSUME pc'[Winnie] # "dead"
       PROVE  /\ Within(pot)'
              /\ (\A q \in Procs : pc[q] \in {"eat", "bring"} => Within(food[q]))'
              /\ (~stale => pot = Food - eaten + brought)'
  <2>1. Within(food[p])
    BY <1>1, <1>9, <1>11 DEF Inv
  <2>2. pot' = food[p] + 1
    <3>1. food[p] + 1 \in Nat /\ food[p] + 1 < Modulus
      BY <1>3, <1>4, <2>1 DEF Within
    <3> QED BY <3>1, <1>1, Fits
  <2>3. Within(pot)'
    BY <1>1, <1>3, <2>1, <2>2 DEF Within
  <2>4. (\A q \in Procs : pc[q] \in {"eat", "bring"} => Within(food[q]))'
    <3> SUFFICES ASSUME NEW q \in Procs, pc'[q] \in {"eat", "bring"} PROVE Within(food[q])'
      OBVIOUS
    <3>1. pc[q] \in {"eat", "bring"}
      BY <1>1 DEF Inv, TypeOK
    <3>2. Within(food[q]) /\ food'[q] = food[q] /\ food[q] \in Nat
      BY <3>1, <1>1, <1>9, <1>11 DEF Inv, TypeOK
    <3> QED BY <3>2, <1>1, <1>3 DEF Within
  <2>5. (~stale => pot = Food - eaten + brought)'
    <3>1. ~stale' => ~stale /\ food[p] = pot
      BY <1>1, Zenon
    <3>2. ~stale => pot = Food - eaten + brought
      BY <1>9, <1>11 DEF Inv
    <3> QED BY <3>1, <3>2, <1>1, <1>3, <2>2
  <2> QED BY <2>3, <2>4, <2>5
<1> QED BY <1>6, <1>8, <1>9, <1>10, <1>11 DEF Inv

-----------------------------------------------------------------------------
LEMMA InvNext == Inv /\ [Next]_vars => Inv'
<1> SUFFICES ASSUME Inv, [Next]_vars PROVE Inv'
  OBVIOUS
<1>1. CASE Fork
  BY <1>1, InvFork
<1>2. CASE Look
  <2>1. pc[Winnie] = "look" /\ pot > 0
    BY <1>2, HoneyAssumption, ProcsFinite DEF Look, ReadFile, Inv, Within, TypeOK
  <2>2. ReadFile(Winnie, "look", "taste")
    BY <1>2, <2>1 DEF Look
  <2> QED BY <2>2, InvRead, ProcsFinite
<1>3. CASE Taste
  BY <1>3, InvRead, ProcsFinite DEF Taste
<1>4. CASE Eat
  BY <1>4, InvEat
<1>5. ASSUME NEW p \in Procs, Come(p) PROVE Inv'
  <2>1. p # Winnie
    BY <1>5 DEF Come, ReadFile, Inv
  <2> QED BY <1>5, <2>1, InvRead DEF Come
<1>6. ASSUME NEW p \in Procs, Bring(p) PROVE Inv'
  BY <1>6, InvBring
<1>7. CASE UNCHANGED vars
  BY <1>7 DEF vars, Inv, TypeOK, Within, Home
<1> QED BY <1>1, <1>2, <1>3, <1>4, <1>5, <1>6, <1>7 DEF Next, WinnieStep

\* The invariant holds always.
THEOREM HoneyInvariant == Spec => []Inv
<1> QED BY InvInit, InvNext, PTL DEF Spec

\* For any number of bees and any meal the pot stays within its bounds until the meal that
\* kills Winnie, and is exact as long as no update has been lost (Vinny/main.c:55-57, 74-76).
THEOREM PotIsBounded == Spec => []PotBounded
<1>1. Inv => PotBounded
  BY DEF Inv, PotBounded, Within
<1> QED BY <1>1, HoneyInvariant, PTL

\* No value but one of a byte is ever in the file or in a variable read from it, and Winnie
\* never joins the bees (Vinny/main.c:16, 53-54).
THEOREM HoneyTyped == Spec => [](TypeOK /\ pc[Winnie] \notin {"come", "bring", "home"})
<1>1. Inv => TypeOK /\ pc[Winnie] \notin {"come", "bring", "home"}
  BY DEF Inv
<1> QED BY <1>1, HoneyInvariant, PTL
=============================================================================
