------------------------- MODULE SpawnCounterProofs -------------------------
(***************************************************************************)
(* For any number of turns and starts the counters never exceed the        *)
(* entries, and are exact as long as nobody has counted beside another.    *)
(* Three inductive invariants build on each other: Names (a process is     *)
(* forked once, so no fork overwrites another), Amounts (a counter is      *)
(* behind the entries by those about to store it), and Exact (what the     *)
(* one process inside has done of its counting).                           *)
(***************************************************************************)
EXTENDS SpawnCounter, FiniteSetTheorems, TLAPS

Entered == {"lock"} \cup Counting

\* The process that forks p, if m is the last turn in its name.
ParentOf(p, m) == <<p[1], p[2] \ {m}>>

Names ==
  /\ \A p \in Procs : pc[p] = "none" => i[p] = 0
  /\ \A p \in Procs : pc[p] \in Entered => i[p] < Count /\ \A t \in p[2] : t <= i[p]
  /\ \A p \in Procs : pc[p] = "loop" => \A t \in p[2] : t < i[p]
  /\ \A p \in Procs : \A m \in p[2] :
       pc[p] # "none" /\ (\A t \in p[2] : t <= m) => i[ParentOf(p, m)] > m

\* The processes whose statement under f is one of labels, and those that have yet to
\* store into array[k].
Labelled(f, labels) == {p \in Procs : f[p] \in labels}
Before1 == {"init1", "load1", "store1"}
Before2 == {"init1", "init2", "load1", "store1", "load2", "store2"}

Amounts ==
  /\ entries + sem <= setvals
  /\ IsFiniteSet(Labelled(pc, Before1)) /\ IsFiniteSet(Labelled(pc, Before2))
  /\ array[1] + Cardinality(Labelled(pc, Before1)) <= entries
  /\ array[2] + Cardinality(Labelled(pc, Before2)) <= entries
  /\ \A p \in Procs : pc[p] = "store1" => temp[p] + Cardinality(Labelled(pc, Before1)) <= entries
  /\ \A p \in Procs : pc[p] = "store2" => temp[p] + Cardinality(Labelled(pc, Before2)) <= entries

\* How far the counters are while p counts.
ExactAt(p) ==
  /\ pc[p] = "init1" => since = 1
  /\ pc[p] = "init2" => since = 1 /\ array[1] = 1
  /\ pc[p] = "load1" => array[1] = since - 1 /\ array[2] = since - 1
  /\ pc[p] = "store1" => array[1] = since - 1 /\ array[2] = since - 1 /\ temp[p] = since - 1
  /\ pc[p] = "load2" => array[1] = since /\ array[2] = since - 1
  /\ pc[p] = "store2" => array[1] = since /\ array[2] = since - 1 /\ temp[p] = since - 1
  /\ pc[p] = "print" => array[1] = since /\ array[2] = since

Exact ==
  ~crowded =>
    /\ \A p, q \in Procs : Inside(p) /\ Inside(q) => p = q
    /\ \A p \in Procs : ExactAt(p)
    /\ (\A p \in Procs : ~Inside(p)) => array[1] = since /\ array[2] = since

Inv == TypeOK /\ Names /\ Amounts /\ Exact

-----------------------------------------------------------------------------
(* Names.                                                                  *)

LEMMA ProcFacts ==
  /\ \A s \in Starts : Main(s) \in Procs /\ Main(s)[2] = {}
  /\ \A p \in Procs : p[2] \subseteq Turns /\ p = <<p[1], p[2]>>
  /\ \A p \in Procs : \A m \in p[2] : ParentOf(p, m) \in Procs
  /\ \A p \in Procs : i[p] \in Turns => Child(p) \in Procs
BY DEF Procs, Main, ParentOf, Child

\* A fork makes a process that was not there.
LEMMA ForkIsNew ==
  ASSUME TypeOK, Names, NEW p \in Procs, Fork(p)
  PROVE  /\ i[p] \in Turns /\ Child(p) \in Procs /\ Child(p) # p /\ pc[Child(p)] = "none"
         /\ \A t \in Child(p)[2] : t <= i[p]
         /\ i[p] \in Child(p)[2] /\ ParentOf(Child(p), i[p]) = p
<1>1. i[p] \in Turns
  BY SpawnAssumption DEF TypeOK, Fork, Turns
<1>2. \A t \in p[2] : t < i[p]
  BY DEF Fork, Names
<1>3. i[p] \notin p[2]
  BY <1>1, <1>2 DEF Turns
<1>4. /\ Child(p) \in Procs /\ Child(p)[1] = p[1] /\ Child(p)[2] = p[2] \cup {i[p]}
      /\ p = <<p[1], p[2]>> /\ p[2] \subseteq Turns
  BY <1>1, ProcFacts DEF Child
<1>5. ParentOf(Child(p), i[p]) = p /\ Child(p) # p
  BY <1>3, <1>4 DEF ParentOf
<1>6. \A t \in Child(p)[2] : t <= i[p]
  BY <1>1, <1>2, <1>4 DEF Turns
<1>7. pc[Child(p)] = "none"
  <2> SUFFICES ASSUME pc[Child(p)] # "none" PROVE FALSE
    OBVIOUS
  <2>1. i[ParentOf(Child(p), i[p])] > i[p]
    BY <1>4, <1>6 DEF Names
  <2> QED BY <2>1, <1>1, <1>5 DEF Turns
<1> QED BY <1>1, <1>4, <1>5, <1>6, <1>7

LEMMA NamesFork ==
  ASSUME TypeOK, Names, NEW p \in Procs, Fork(p)
  PROVE  TypeOK' /\ Names'
<1>1. /\ i[p] \in Turns /\ Child(p) \in Procs /\ Child(p) # p /\ pc[Child(p)] = "none"
      /\ \A t \in Child(p)[2] : t <= i[p]
      /\ i[p] \in Child(p)[2] /\ ParentOf(Child(p), i[p]) = p
  BY ForkIsNew
<1> DEFINE c == Child(p)
<1>2. /\ pc[p] = "loop" /\ pc' = [pc EXCEPT ![c] = "lock"]
      /\ i' = [i EXCEPT ![p] = i[p] + 1, ![c] = i[p]]
      /\ UNCHANGED <<shm, new, sem, array, temp, setvals, entries, since, crowded>>
  BY DEF Fork, histVars
<1>3. c \in Procs /\ c # p /\ pc[c] = "none" /\ i[p] \in Nat /\ i[p] < Count
  BY <1>1, SpawnAssumption DEF Turns
<1> HIDE DEF c
<1>4. TypeOK'
  BY <1>2, <1>3, SpawnAssumption DEF TypeOK
<1>5. /\ pc'[c] = "lock" /\ i'[c] = i[p] /\ i'[p] = i[p] + 1 /\ pc'[p] = "loop"
      /\ \A q \in Procs \ {p, c} : pc'[q] = pc[q] /\ i'[q] = i[q]
  BY <1>2, <1>3 DEF TypeOK
<1>6. \A q \in Procs : i'[q] >= i[q]
  BY <1>3, <1>5 DEF TypeOK, Names
<1>7. \A q \in Procs : i[q] \in Nat /\ i'[q] \in Nat
  BY <1>4, SpawnAssumption DEF TypeOK
<1>8. (\A q \in Procs : pc[q] = "none" => i[q] = 0)'
  BY <1>3, <1>5 DEF Names
<1>9. (\A q \in Procs : pc[q] \in Entered => i[q] < Count /\ \A t \in q[2] : t <= i[q])'
  BY <1>1, <1>3, <1>5 DEF Names, Entered, Counting, c
<1>10. (\A q \in Procs : pc[q] = "loop" => \A t \in q[2] : t < i[q])'
  <2>1. \A t \in p[2] : t \in Nat /\ t < i[p]
    BY <1>2, ProcFacts DEF Names, Turns
  <2> QED BY <2>1, <1>3, <1>5 DEF Names
<1>11. ASSUME NEW q \in Procs, NEW m \in q[2], pc'[q] # "none", \A t \in q[2] : t <= m
       PROVE  i'[ParentOf(q, m)] > m
  <2>1. ParentOf(q, m) \in Procs /\ m \in Nat
    BY ProcFacts DEF Turns
  <2>2. CASE q = c
    <3>1. m = i[p]
      BY <2>1, <2>2, <1>1, <1>3, <1>11 DEF c
    <3> QED BY <3>1, <2>2, <1>1, <1>3, <1>5 DEF c
  <2>3. CASE q # c
    <3>1. i[ParentOf(q, m)] > m
      BY <2>3, <1>2, <1>5, <1>11 DEF Names
    <3> QED BY <3>1, <2>1, <1>6, <1>7
  <2> QED BY <2>2, <2>3
<1> QED BY <1>4, <1>8, <1>9, <1>10, <1>11 DEF Names

\* A step of one process that keeps its counter.
LEMMA NamesMove ==
  ASSUME TypeOK, Names, NEW p \in Procs, NEW next, pc[p] # "none", next # "none",
         pc' = [pc EXCEPT ![p] = next], i' = i,
         next = "loop" => p[2] = {},
         next \in Entered => pc[p] \in Entered
  PROVE  Names'
BY DEF TypeOK, Names

LEMMA NamesPrint ==
  ASSUME TypeOK, Names, NEW p \in Procs, PrintCount(p)
  PROVE  TypeOK' /\ Names'
<1>1. /\ pc[p] = "print" /\ pc' = [pc EXCEPT ![p] = "loop"] /\ i' = [i EXCEPT ![p] = i[p] + 1]
      /\ UNCHANGED <<shm, new, sem, array, temp, setvals, entries, since, crowded>>
  BY DEF PrintCount, Goto, histVars
<1>2. i[p] \in Nat /\ i[p] < Count /\ \A t \in p[2] : t \in Nat /\ t <= i[p]
  BY <1>1, ProcFacts, SpawnAssumption DEF Names, TypeOK, Entered, Counting, Turns
<1>3. TypeOK'
  BY <1>1, <1>2, SpawnAssumption DEF TypeOK
<1>4. \A q \in Procs : i[q] \in Nat /\ i'[q] \in Nat /\ i'[q] >= i[q]
  BY <1>1, <1>3, SpawnAssumption DEF TypeOK
<1>5. (\A q \in Procs : pc[q] = "none" => i[q] = 0)'
  BY <1>1 DEF Names, TypeOK
<1>6. (\A q \in Procs : pc[q] \in Entered => i[q] < Count /\ \A t \in q[2] : t <= i[q])'
  BY <1>1 DEF Names, TypeOK, Entered, Counting
<1>7. (\A q \in Procs : pc[q] = "loop" => \A t \in q[2] : t < i[q])'
  BY <1>1, <1>2 DEF Names, TypeOK
<1>8. ASSUME NEW q \in Procs, NEW m \in q[2], pc'[q] # "none", \A t \in q[2] : t <= m
      PROVE  i'[ParentOf(q, m)] > m
  <2>1. ParentOf(q, m) \in Procs /\ m \in Nat
    BY ProcFacts DEF Turns
  <2>2. i[ParentOf(q, m)] > m
    BY <1>1, <1>8 DEF Names, TypeOK
  <2> QED BY <2>1, <2>2, <1>4
<1> QED BY <1>3, <1>5, <1>6, <1>7, <1>8 DEF Names

-----------------------------------------------------------------------------
(* Amounts.                                                                *)

\* What a step of one process does to a set of labelled processes: nothing, if both its
\* statements have such labels or neither;
LEMMA LabelledSame ==
  ASSUME TypeOK, NEW p \in Procs, NEW next, NEW labels,
         pc' = [pc EXCEPT ![p] = next], next \in labels <=> pc[p] \in labels
  PROVE  Labelled(pc', labels) = Labelled(pc, labels)
BY DEF Labelled, TypeOK

\* it is one more, if it comes to such a label;
LEMMA LabelledIn ==
  ASSUME TypeOK, NEW p \in Procs, NEW next, NEW labels,
         pc' = [pc EXCEPT ![p] = next], next \in labels, pc[p] \notin labels,
         IsFiniteSet(Labelled(pc, labels))
  PROVE  /\ IsFiniteSet(Labelled(pc', labels))
         /\ Cardinality(Labelled(pc', labels)) = Cardinality(Labelled(pc, labels)) + 1
<1>1. Labelled(pc', labels) = Labelled(pc, labels) \cup {p} /\ p \notin Labelled(pc, labels)
  BY DEF Labelled, TypeOK
<1> QED BY <1>1, FS_AddElement

\* and one less, if it leaves one.
LEMMA LabelledOut ==
  ASSUME TypeOK, NEW p \in Procs, NEW next, NEW labels,
         pc' = [pc EXCEPT ![p] = next], next \notin labels, pc[p] \in labels,
         IsFiniteSet(Labelled(pc, labels))
  PROVE  /\ IsFiniteSet(Labelled(pc', labels))
         /\ Cardinality(Labelled(pc', labels)) = Cardinality(Labelled(pc, labels)) - 1
<1>1. Labelled(pc', labels) = Labelled(pc, labels) \ {p} /\ p \in Labelled(pc, labels)
  BY DEF Labelled, TypeOK
<1> QED BY <1>1, FS_RemoveElement

\* A step outside the counting that adds no entry.
LEMMA AmountsQuiet ==
  ASSUME TypeOK, Amounts, NEW p \in Procs, NEW next,
         pc' = [pc EXCEPT ![p] = next], pc[p] \notin Before2, next \notin Before2,
         UNCHANGED <<array, temp, entries>>, entries' + sem' <= setvals'
  PROVE  Amounts'
<1>1. Before1 \subseteq Before2 /\ "store1" \in Before1 /\ "store2" \in Before2
  BY DEF Before1, Before2
<1>2. Labelled(pc', Before1) = Labelled(pc, Before1)
  BY <1>1, LabelledSame
<1>3. Labelled(pc', Before2) = Labelled(pc, Before2)
  BY LabelledSame
<1>4. \A q \in Procs : pc'[q] \in {"store1", "store2"} => pc'[q] = pc[q]
  BY <1>1 DEF TypeOK
<1> QED BY <1>2, <1>3, <1>4 DEF Amounts

\* Whoever is let in is one more entry, and one more that has not stored yet.
LEMMA AmountsLock ==
  ASSUME TypeOK, Amounts, NEW p \in Procs, Lock(p)
  PROVE  Amounts'
<1> DEFINE next == IF new[p[1]] THEN "init1" ELSE "load1"
<1>1. /\ pc[p] = "lock" /\ sem > 0 /\ sem' = sem - 1 /\ pc' = [pc EXCEPT ![p] = next]
      /\ entries' = entries + 1 /\ UNCHANGED <<array, temp, setvals>>
  BY DEF Lock, Goto
<1>2. next \in Before1 /\ next \in Before2 /\ next \notin {"store1", "store2"}
      /\ pc[p] \notin Before1 /\ pc[p] \notin Before2
  BY <1>1 DEF Before1, Before2
<1> HIDE DEF next
<1>3. /\ IsFiniteSet(Labelled(pc', Before1)) /\ Cardinality(Labelled(pc, Before1)) \in Nat
      /\ Cardinality(Labelled(pc', Before1)) = Cardinality(Labelled(pc, Before1)) + 1
  BY <1>1, <1>2, LabelledIn, FS_CardinalityType DEF Amounts
<1>4. /\ IsFiniteSet(Labelled(pc', Before2)) /\ Cardinality(Labelled(pc, Before2)) \in Nat
      /\ Cardinality(Labelled(pc', Before2)) = Cardinality(Labelled(pc, Before2)) + 1
  BY <1>1, <1>2, LabelledIn, FS_CardinalityType DEF Amounts
<1>5. \A q \in Procs : pc'[q] \in {"store1", "store2"} => pc'[q] = pc[q]
  BY <1>1, <1>2 DEF TypeOK
<1>6. /\ entries \in Nat /\ sem \in {0, 1} /\ setvals \in Nat /\ array[1] \in Nat /\ array[2] \in Nat
      /\ \A q \in Procs : temp[q] \in Nat
  BY DEF TypeOK
<1>7. entries' + sem' <= setvals'
  BY <1>1, <1>6 DEF Amounts
<1>8. /\ array'[1] + Cardinality(Labelled(pc', Before1)) <= entries'
      /\ array'[2] + Cardinality(Labelled(pc', Before2)) <= entries'
  BY <1>1, <1>3, <1>4, <1>6 DEF Amounts
<1>9. ASSUME NEW q \in Procs, pc'[q] = "store1"
      PROVE  temp'[q] + Cardinality(Labelled(pc', Before1)) <= entries'
  <2>1. temp[q] + Cardinality(Labelled(pc, Before1)) <= entries /\ temp'[q] = temp[q]
    BY <1>1, <1>5, <1>9 DEF Amounts
  <2> QED BY <2>1, <1>1, <1>3, <1>6
<1>10. ASSUME NEW q \in Procs, pc'[q] = "store2"
      PROVE  temp'[q] + Cardinality(Labelled(pc', Before2)) <= entries'
  <2>1. temp[q] + Cardinality(Labelled(pc, Before2)) <= entries /\ temp'[q] = temp[q]
    BY <1>1, <1>5, <1>10 DEF Amounts
  <2> QED BY <2>1, <1>1, <1>4, <1>6
<1> QED BY <1>3, <1>4, <1>7, <1>8, <1>9, <1>10 DEF Amounts

\* A step of the counting itself, which may only store what leaves the others their room.
LEMMA AmountsCount ==
  ASSUME TypeOK, Amounts, NEW p \in Procs, CountItself(p)
  PROVE  TypeOK' /\ Amounts'
<1> DEFINE n1 == Cardinality(Labelled(pc, Before1))
           n2 == Cardinality(Labelled(pc, Before2))
           m1 == Cardinality(Labelled(pc', Before1))
           m2 == Cardinality(Labelled(pc', Before2))
<1>1. UNCHANGED <<shm, new, sem, i, setvals, entries, since, crowded>>
  BY DEF CountItself, Initialise, Load, Store, histVars
<1>2. /\ entries \in Nat /\ array \in [1 .. 2 -> Nat] /\ temp \in [Procs -> Nat]
      /\ pc \in [Procs -> {"none", "shmget", "setval", "loop", "lock", "done"} \cup Counting]
  BY DEF TypeOK
<1>3. /\ IsFiniteSet(Labelled(pc, Before1)) /\ IsFiniteSet(Labelled(pc, Before2))
      /\ n1 \in Nat /\ n2 \in Nat
  BY FS_CardinalityType DEF Amounts
<1>4. /\ array[1] + n1 <= entries /\ array[2] + n2 <= entries
      /\ \A q \in Procs : pc[q] = "store1" => temp[q] + n1 <= entries
      /\ \A q \in Procs : pc[q] = "store2" => temp[q] + n2 <= entries
      /\ entries' + sem' <= setvals'
  BY <1>1 DEF Amounts
<1>5. ASSUME /\ array' \in [1 .. 2 -> Nat] /\ temp' \in [Procs -> Nat]
             /\ pc' \in [Procs -> {"none", "shmget", "setval", "loop", "lock", "done"} \cup Counting]
      PROVE  TypeOK'
  BY <1>1, <1>5 DEF TypeOK
<1>6. ASSUME IsFiniteSet(Labelled(pc', Before1)), IsFiniteSet(Labelled(pc', Before2)),
             array'[1] + m1 <= entries, array'[2] + m2 <= entries,
             \A q \in Procs : pc'[q] = "store1" => temp'[q] + m1 <= entries,
             \A q \in Procs : pc'[q] = "store2" => temp'[q] + m2 <= entries
      PROVE  Amounts'
  BY <1>1, <1>4, <1>6 DEF Amounts
<1>7. CASE Initialise(p, 1, "init1", "init2")
  <2>1. /\ pc[p] = "init1" /\ pc' = [pc EXCEPT ![p] = "init2"]
        /\ temp' = temp /\ array' = [array EXCEPT ![1] = 1]
    BY <1>7 DEF Initialise, Goto
  <2>2. IsFiniteSet(Labelled(pc', Before1)) /\ m1 = n1 - 1
    <3>1. "init2" \notin Before1 /\ "init1" \in Before1
      BY DEF Before1
    <3> QED BY <2>1, <3>1, <1>3, LabelledOut
  <2>3. IsFiniteSet(Labelled(pc', Before2)) /\ m2 = n2
    <3>1. "init2" \in Before2 <=> "init1" \in Before2
      BY DEF Before2
    <3>2. Labelled(pc', Before2) = Labelled(pc, Before2)
      BY <2>1, <3>1, LabelledSame
    <3> QED BY <3>2, <1>3
  <2>4. TypeOK'
    BY <2>1, <1>2, <1>5 DEF Counting
  <2>5. Amounts'
    <3> HIDE DEF n1, n2, m1, m2
    <3>1. /\ array'[1] + m1 <= entries /\ array'[2] + m2 <= entries
          /\ \A q \in Procs : pc'[q] = "store1" => temp'[q] + m1 <= entries
          /\ \A q \in Procs : pc'[q] = "store2" => temp'[q] + m2 <= entries
      BY <2>1, <2>2, <2>3, <1>2, <1>3, <1>4
    <3> QED BY <3>1, <2>2, <2>3, <1>6
  <2> QED BY <2>4, <2>5
<1>8. CASE Initialise(p, 2, "init2", "print")
  <2>1. /\ pc[p] = "init2" /\ pc' = [pc EXCEPT ![p] = "print"]
        /\ temp' = temp /\ array' = [array EXCEPT ![2] = 1]
    BY <1>8 DEF Initialise, Goto
  <2>2. IsFiniteSet(Labelled(pc', Before1)) /\ m1 = n1
    <3>1. "print" \in Before1 <=> "init2" \in Before1
      BY DEF Before1
    <3>2. Labelled(pc', Before1) = Labelled(pc, Before1)
      BY <2>1, <3>1, LabelledSame
    <3> QED BY <3>2, <1>3
  <2>3. IsFiniteSet(Labelled(pc', Before2)) /\ m2 = n2 - 1
    <3>1. "print" \notin Before2 /\ "init2" \in Before2
      BY DEF Before2
    <3> QED BY <2>1, <3>1, <1>3, LabelledOut
  <2>4. TypeOK'
    BY <2>1, <1>2, <1>5 DEF Counting
  <2>5. Amounts'
    <3> HIDE DEF n1, n2, m1, m2
    <3>1. /\ array'[1] + m1 <= entries /\ array'[2] + m2 <= entries
          /\ \A q \in Procs : pc'[q] = "store1" => temp'[q] + m1 <= entries
          /\ \A q \in Procs : pc'[q] = "store2" => temp'[q] + m2 <= entries
      BY <2>1, <2>2, <2>3, <1>2, <1>3, <1>4
    <3> QED BY <3>1, <2>2, <2>3, <1>6
  <2> QED BY <2>4, <2>5
<1>9. CASE Load(p, 1, "load1", "store1")
  <2>1. /\ pc[p] = "load1" /\ pc' = [pc EXCEPT ![p] = "store1"]
        /\ array' = array /\ temp' = [temp EXCEPT ![p] = array[1]]
    BY <1>9 DEF Load, Goto
  <2>2. IsFiniteSet(Labelled(pc', Before1)) /\ m1 = n1
    <3>1. "store1" \in Before1 <=> "load1" \in Before1
      BY DEF Before1
    <3>2. Labelled(pc', Before1) = Labelled(pc, Before1)
      BY <2>1, <3>1, LabelledSame
    <3> QED BY <3>2, <1>3
  <2>3. IsFiniteSet(Labelled(pc', Before2)) /\ m2 = n2
    <3>1. "store1" \in Before2 <=> "load1" \in Before2
      BY DEF Before2
    <3>2. Labelled(pc', Before2) = Labelled(pc, Before2)
      BY <2>1, <3>1, LabelledSame
    <3> QED BY <3>2, <1>3
  <2>4. TypeOK'
    BY <2>1, <1>2, <1>5 DEF Counting
  <2>5. Amounts'
    <3> HIDE DEF n1, n2, m1, m2
    <3>1. /\ array'[1] + m1 <= entries /\ array'[2] + m2 <= entries
          /\ \A q \in Procs : pc'[q] = "store1" => temp'[q] + m1 <= entries
          /\ \A q \in Procs : pc'[q] = "store2" => temp'[q] + m2 <= entries
      BY <2>1, <2>2, <2>3, <1>2, <1>3, <1>4
    <3> QED BY <3>1, <2>2, <2>3, <1>6
  <2> QED BY <2>4, <2>5
<1>10. CASE Store(p, 1, "store1", "load2")
  <2>1. /\ pc[p] = "store1" /\ pc' = [pc EXCEPT ![p] = "load2"]
        /\ temp' = temp /\ array' = [array EXCEPT ![1] = temp[p] + 1]
    BY <1>10 DEF Store, Goto
  <2>2. IsFiniteSet(Labelled(pc', Before1)) /\ m1 = n1 - 1
    <3>1. "load2" \notin Before1 /\ "store1" \in Before1
      BY DEF Before1
    <3> QED BY <2>1, <3>1, <1>3, LabelledOut
  <2>3. IsFiniteSet(Labelled(pc', Before2)) /\ m2 = n2
    <3>1. "load2" \in Before2 <=> "store1" \in Before2
      BY DEF Before2
    <3>2. Labelled(pc', Before2) = Labelled(pc, Before2)
      BY <2>1, <3>1, LabelledSame
    <3> QED BY <3>2, <1>3
  <2>4. TypeOK'
    BY <2>1, <1>2, <1>5 DEF Counting
  <2>5. Amounts'
    <3> HIDE DEF n1, n2, m1, m2
    <3>1. /\ array'[1] + m1 <= entries /\ array'[2] + m2 <= entries
          /\ \A q \in Procs : pc'[q] = "store1" => temp'[q] + m1 <= entries
          /\ \A q \in Procs : pc'[q] = "store2" => temp'[q] + m2 <= entries
      BY <2>1, <2>2, <2>3, <1>2, <1>3, <1>4
    <3> QED BY <3>1, <2>2, <2>3, <1>6
  <2> QED BY <2>4, <2>5
<1>11. CASE Load(p, 2, "load2", "store2")
  <2>1. /\ pc[p] = "load2" /\ pc' = [pc EXCEPT ![p] = "store2"]
        /\ array' = array /\ temp' = [temp EXCEPT ![p] = array[2]]
    BY <1>11 DEF Load, Goto
  <2>2. IsFiniteSet(Labelled(pc', Before1)) /\ m1 = n1
    <3>1. "store2" \in Before1 <=> "load2" \in Before1
      BY DEF Before1
    <3>2. Labelled(pc', Before1) = Labelled(pc, Before1)
      BY <2>1, <3>1, LabelledSame
    <3> QED BY <3>2, <1>3
  <2>3. IsFiniteSet(Labelled(pc', Before2)) /\ m2 = n2
    <3>1. "store2" \in Before2 <=> "load2" \in Before2
      BY DEF Before2
    <3>2. Labelled(pc', Before2) = Labelled(pc, Before2)
      BY <2>1, <3>1, LabelledSame
    <3> QED BY <3>2, <1>3
  <2>4. TypeOK'
    BY <2>1, <1>2, <1>5 DEF Counting
  <2>5. Amounts'
    <3> HIDE DEF n1, n2, m1, m2
    <3>1. /\ array'[1] + m1 <= entries /\ array'[2] + m2 <= entries
          /\ \A q \in Procs : pc'[q] = "store1" => temp'[q] + m1 <= entries
          /\ \A q \in Procs : pc'[q] = "store2" => temp'[q] + m2 <= entries
      BY <2>1, <2>2, <2>3, <1>2, <1>3, <1>4
    <3> QED BY <3>1, <2>2, <2>3, <1>6
  <2> QED BY <2>4, <2>5
<1>12. CASE Store(p, 2, "store2", "print")
  <2>1. /\ pc[p] = "store2" /\ pc' = [pc EXCEPT ![p] = "print"]
        /\ temp' = temp /\ array' = [array EXCEPT ![2] = temp[p] + 1]
    BY <1>12 DEF Store, Goto
  <2>2. IsFiniteSet(Labelled(pc', Before1)) /\ m1 = n1
    <3>1. "print" \in Before1 <=> "store2" \in Before1
      BY DEF Before1
    <3>2. Labelled(pc', Before1) = Labelled(pc, Before1)
      BY <2>1, <3>1, LabelledSame
    <3> QED BY <3>2, <1>3
  <2>3. IsFiniteSet(Labelled(pc', Before2)) /\ m2 = n2 - 1
    <3>1. "print" \notin Before2 /\ "store2" \in Before2
      BY DEF Before2
    <3> QED BY <2>1, <3>1, <1>3, LabelledOut
  <2>4. TypeOK'
    BY <2>1, <1>2, <1>5 DEF Counting
  <2>5. Amounts'
    <3> HIDE DEF n1, n2, m1, m2
    <3>1. /\ array'[1] + m1 <= entries /\ array'[2] + m2 <= entries
          /\ \A q \in Procs : pc'[q] = "store1" => temp'[q] + m1 <= entries
          /\ \A q \in Procs : pc'[q] = "store2" => temp'[q] + m2 <= entries
      BY <2>1, <2>2, <2>3, <1>2, <1>3, <1>4
    <3> QED BY <3>1, <2>2, <2>3, <1>6
  <2> QED BY <2>4, <2>5
<1> QED BY <1>7, <1>8, <1>9, <1>10, <1>11, <1>12 DEF CountItself

-----------------------------------------------------------------------------
(* Exact.                                                                  *)

\* A step that nobody inside takes and that lets nobody in.
LEMMA ExactQuiet ==
  ASSUME TypeOK, Exact, NEW p \in Procs, NEW next,
         pc' = [pc EXCEPT ![p] = next], pc[p] \notin Counting, next \notin Counting,
         UNCHANGED <<array, temp, since, crowded>>
  PROVE  Exact'
<1>1. \A q \in Procs : pc'[q] \in Counting \/ pc[q] \in Counting => pc'[q] = pc[q]
  BY DEF TypeOK
<1>2. \A q \in Procs : Inside(q)' <=> Inside(q)
  BY <1>1 DEF Inside
<1>3. \A q \in Procs : ExactAt(q) => ExactAt(q)'
  BY <1>1 DEF ExactAt, Counting
<1> QED BY <1>2, <1>3 DEF Exact

\* Whoever is let in while nobody counts finds the counters exact, or starts them anew.
LEMMA ExactLock ==
  ASSUME TypeOK, Exact, NEW p \in Procs, Lock(p)
  PROVE  Exact'
<1> DEFINE next == IF new[p[1]] THEN "init1" ELSE "load1"
<1>1. /\ pc[p] = "lock" /\ pc' = [pc EXCEPT ![p] = next] /\ UNCHANGED <<array, temp>>
      /\ since' = IF new[p[1]] THEN 1 ELSE since + 1
  BY DEF Lock, Goto
<1>2. ~crowded' => ~crowded /\ \A q \in Procs : ~Inside(q)
  BY Zenon DEF Lock
<1> SUFFICES ASSUME ~crowded' PROVE /\ \A q, r \in Procs : Inside(q)' /\ Inside(r)' => q = r
                                    /\ \A q \in Procs : ExactAt(q)'
                                    /\ (\A q \in Procs : ~Inside(q)') => array'[1] = since' /\ array'[2] = since'
  BY DEF Exact
<1>3. array[1] = since /\ array[2] = since /\ since \in Nat
  BY <1>2 DEF Exact, TypeOK
<1>4. \A q \in Procs : pc'[q] = IF q = p THEN next ELSE pc[q]
  BY <1>1 DEF TypeOK
<1>5. \A q \in Procs : q # p => pc'[q] \notin Counting
  BY <1>2, <1>4 DEF Inside
<1>6. pc'[p] = next /\ next \in Counting
  BY <1>4 DEF Counting
<1>7. \A q, r \in Procs : Inside(q)' /\ Inside(r)' => q = r
  BY <1>5 DEF Inside
<1>8. ExactAt(p)'
  BY <1>1, <1>3, <1>6 DEF ExactAt
<1>9. \A q \in Procs : q # p => ExactAt(q)'
  BY <1>5 DEF ExactAt, Counting
<1> QED BY <1>6, <1>7, <1>8, <1>9 DEF Inside

\* A step of the one inside.
LEMMA ExactCount ==
  ASSUME TypeOK, Exact, NEW p \in Procs, CountItself(p)
  PROVE  Exact'
<1>1. UNCHANGED <<since, crowded>>
  BY DEF CountItself, Initialise, Load, Store, histVars
<1> SUFFICES ASSUME ~crowded PROVE /\ \A q, r \in Procs : Inside(q)' /\ Inside(r)' => q = r
                                   /\ \A q \in Procs : ExactAt(q)'
                                   /\ (\A q \in Procs : ~Inside(q)') => array'[1] = since' /\ array'[2] = since'
  BY <1>1 DEF Exact
<1>2. /\ pc[p] \in Counting /\ pc'[p] \in Counting
      /\ \A q \in Procs : q # p => pc'[q] = pc[q]
  BY DEF CountItself, Initialise, Load, Store, Goto, TypeOK, Counting
<1>3. \A q \in Procs : q # p => pc[q] \notin Counting
  BY <1>2 DEF Exact, Inside
<1>4. \A q \in Procs : q # p => ExactAt(q)'
  BY <1>2, <1>3 DEF ExactAt, Counting
<1>5. ExactAt(p)'
  <2>1. ExactAt(p) /\ since \in Nat
    BY DEF Exact, TypeOK
  <2>2. CASE Initialise(p, 1, "init1", "init2") \/ Initialise(p, 2, "init2", "print")
    BY <2>1, <2>2, <1>1 DEF Initialise, Goto, ExactAt, TypeOK
  <2>3. CASE Load(p, 1, "load1", "store1") \/ Load(p, 2, "load2", "store2")
    BY <2>1, <2>3, <1>1 DEF Load, Goto, ExactAt, TypeOK
  <2>4. CASE Store(p, 1, "store1", "load2") \/ Store(p, 2, "store2", "print")
    BY <2>1, <2>4, <1>1 DEF Store, Goto, ExactAt, TypeOK
  <2> QED BY <2>2, <2>3, <2>4 DEF CountItself
<1>6. \A q, r \in Procs : Inside(q)' /\ Inside(r)' => q = r
  BY <1>2, <1>3 DEF Inside
<1> QED BY <1>2, <1>4, <1>5, <1>6 DEF Inside

\* Whoever leaves has counted itself in both.
LEMMA ExactPrint ==
  ASSUME TypeOK, Exact, NEW p \in Procs, PrintCount(p)
  PROVE  Exact'
<1>1. /\ pc[p] = "print" /\ pc' = [pc EXCEPT ![p] = "loop"]
      /\ UNCHANGED <<array, temp, since, crowded>>
  BY DEF PrintCount, Goto, histVars
<1> SUFFICES ASSUME ~crowded PROVE /\ \A q, r \in Procs : Inside(q)' /\ Inside(r)' => q = r
                                   /\ \A q \in Procs : ExactAt(q)'
                                   /\ (\A q \in Procs : ~Inside(q)') => array'[1] = since' /\ array'[2] = since'
  BY <1>1 DEF Exact
<1>2. \A q \in Procs : pc'[q] = IF q = p THEN "loop" ELSE pc[q]
  BY <1>1 DEF TypeOK
<1>3. \A q \in Procs : pc'[q] \notin Counting
  BY <1>1, <1>2 DEF Exact, Inside, Counting
<1>4. array[1] = since /\ array[2] = since
  BY <1>1 DEF Exact, ExactAt
<1>5. \A q \in Procs : ExactAt(q)'
  BY <1>3 DEF ExactAt, Counting
<1> QED BY <1>1, <1>3, <1>4, <1>5 DEF Inside

-----------------------------------------------------------------------------
LEMMA InvInit == Init => Inv
<1> SUFFICES ASSUME Init PROVE Inv
  OBVIOUS
<1>1. TypeOK
  <2>1. new \in [Starts -> BOOLEAN] /\ shm \in BOOLEAN /\ crowded \in BOOLEAN
    BY Zenon DEF Init
  <2>2. /\ pc \in [Procs -> {"none", "shmget", "setval", "loop", "lock", "done"} \cup Counting]
        /\ i \in [Procs -> 0 .. Count]
        /\ array \in [1 .. 2 -> Nat] /\ temp \in [Procs -> Nat]
    BY SpawnAssumption DEF Init
  <2> QED BY <2>1, <2>2 DEF Init, TypeOK
<1>2. \A p \in Procs : pc[p] \in {"shmget", "none"} /\ i[p] = 0 /\ (pc[p] = "shmget" => p[2] = {})
  BY DEF Init
<1>3. Names
  BY <1>2 DEF Names, Entered, Counting
<1>4. Labelled(pc, Before1) = {} /\ Labelled(pc, Before2) = {}
  BY <1>2 DEF Labelled, Before1, Before2
<1>5. Amounts
  <2>1. /\ IsFiniteSet({}) /\ Cardinality({}) = 0 /\ array[1] = 0 /\ array[2] = 0
        /\ entries = 0 /\ sem = 0 /\ setvals = 0
    BY FS_EmptySet DEF Init
  <2> QED BY <1>2, <1>4, <2>1 DEF Amounts
<1>6. Exact
  BY <1>2 DEF Exact, ExactAt, Inside, Counting, Init
<1> QED BY <1>1, <1>3, <1>5, <1>6 DEF Inv

\* The steps outside the loop body: of the first process of a start.
LEMMA InvStart ==
  ASSUME Inv, NEW s \in Starts, ShmGet(s) \/ SetVal(s)
  PROVE  Inv'
<1>1. Main(s) \in Procs /\ Main(s)[2] = {}
  BY ProcFacts
<1> USE DEF Inv
<1>2. CASE ShmGet(s)
  <2>1. /\ pc[Main(s)] = "shmget" /\ pc' = [pc EXCEPT ![Main(s)] = "setval"]
        /\ UNCHANGED <<sem, i, array, temp, setvals, entries, since, crowded>>
        /\ new' = [new EXCEPT ![s] = ~shm] /\ shm' = TRUE
    BY <1>2 DEF ShmGet, Goto, histVars
  <2>2. TypeOK'
    <3>1. new' \in [Starts -> BOOLEAN] /\ shm' \in BOOLEAN
      BY <2>1, Zenon DEF TypeOK
    <3>2. pc' \in [Procs -> {"none", "shmget", "setval", "loop", "lock", "done"} \cup Counting]
      BY <2>1, <1>1 DEF TypeOK
    <3> QED BY <3>1, <3>2, <2>1 DEF TypeOK
  <2>3. Names'
    BY <2>1, <1>1, NamesMove DEF Entered, Counting
  <2>4. Amounts'
    BY <2>1, <1>1, AmountsQuiet DEF Before2, Amounts
  <2>5. Exact'
    BY <2>1, <1>1, ExactQuiet DEF Counting
  <2> QED BY <2>2, <2>3, <2>4, <2>5
<1>3. CASE SetVal(s)
  <2>1. /\ pc[Main(s)] = "setval" /\ pc' = [pc EXCEPT ![Main(s)] = "loop"]
        /\ sem' = 1 /\ setvals' = setvals + 1
        /\ UNCHANGED <<shm, new, i, array, temp, entries, since, crowded>>
    BY <1>3 DEF SetVal, Goto
  <2>2. TypeOK'
    BY <2>1, <1>1 DEF TypeOK
  <2>3. Names'
    BY <2>1, <1>1, NamesMove DEF Entered, Counting
  <2>4. entries' + sem' <= setvals'
    BY <2>1 DEF Amounts, TypeOK
  <2>5. Amounts'
    BY <2>1, <2>4, <1>1, AmountsQuiet DEF Before2
  <2>6. Exact'
    BY <2>1, <1>1, ExactQuiet DEF Counting
  <2> QED BY <2>2, <2>3, <2>5, <2>6
<1> QED BY <1>2, <1>3

LEMMA InvProcess ==
  ASSUME Inv, NEW p \in Procs, Process(p)
  PROVE  Inv'
<1> USE DEF Inv
<1>1. CASE Fork(p)
  <2>1. Child(p) \in Procs /\ pc[Child(p)] = "none"
    BY <1>1, ForkIsNew
  <2>2. pc' = [pc EXCEPT ![Child(p)] = "lock"]
        /\ UNCHANGED <<sem, array, temp, setvals, entries, since, crowded>>
    BY <1>1 DEF Fork, histVars
  <2>3. TypeOK' /\ Names'
    BY <1>1, NamesFork
  <2>4. Amounts'
    BY <2>1, <2>2, AmountsQuiet DEF Before2, Amounts
  <2>5. Exact'
    BY <2>1, <2>2, ExactQuiet DEF Counting
  <2> QED BY <2>3, <2>4, <2>5
<1>2. CASE Return(p)
  <2>1. /\ pc[p] = "loop" /\ pc' = [pc EXCEPT ![p] = "done"]
        /\ UNCHANGED <<shm, new, sem, i, array, temp, setvals, entries, since, crowded>>
    BY <1>2 DEF Return, Goto, histVars
  <2>2. TypeOK'
    BY <2>1 DEF TypeOK
  <2>3. Names'
    BY <2>1, NamesMove DEF Entered, Counting
  <2>4. Amounts'
    BY <2>1, AmountsQuiet DEF Before2, Amounts
  <2>5. Exact'
    BY <2>1, ExactQuiet DEF Counting
  <2> QED BY <2>2, <2>3, <2>4, <2>5
<1>3. CASE Lock(p)
  <2> DEFINE next == IF new[p[1]] THEN "init1" ELSE "load1"
  <2>1. /\ pc[p] = "lock" /\ pc' = [pc EXCEPT ![p] = next] /\ sem > 0 /\ sem' = sem - 1
        /\ entries' = entries + 1 /\ since' = IF new[p[1]] THEN 1 ELSE since + 1
        /\ UNCHANGED <<shm, new, i, array, temp, setvals>>
    BY <1>3 DEF Lock, Goto
  <2>2. crowded' \in BOOLEAN
    BY <1>3, Zenon DEF Lock, TypeOK
  <2>3. next \in Counting
    BY DEF Counting
  <2>4. since' \in 0 .. entries'
    BY <2>1 DEF TypeOK
  <2>5. TypeOK'
    BY <2>1, <2>2, <2>3, <2>4 DEF TypeOK
  <2>6. Names'
    BY <2>1, <2>3, NamesMove DEF Entered, Counting
  <2> QED BY <2>5, <2>6, <1>3, AmountsLock, ExactLock
<1>4. CASE CountItself(p)
  <2>1. PICK next \in Counting : pc[p] \in Counting /\ pc' = [pc EXCEPT ![p] = next] /\ i' = i
    BY <1>4 DEF CountItself, Initialise, Load, Store, Goto, Counting
  <2>2. Names'
    BY <2>1, NamesMove DEF Entered, Counting
  <2> QED BY <2>2, <1>4, AmountsCount, ExactCount
<1>5. CASE PrintCount(p)
  <2>1. /\ pc[p] = "print" /\ pc' = [pc EXCEPT ![p] = "loop"]
        /\ UNCHANGED <<sem, array, temp, setvals, entries>>
    BY <1>5 DEF PrintCount, Goto, histVars
  <2>2. Amounts'
    BY <2>1, AmountsQuiet DEF Before2, Amounts
  <2> QED BY <2>2, <1>5, NamesPrint, ExactPrint
<1> QED BY <1>1, <1>2, <1>3, <1>4, <1>5 DEF Process

LEMMA InvNext == Inv /\ [Next]_vars => Inv'
<1> SUFFICES ASSUME Inv, [Next]_vars PROVE Inv'
  OBVIOUS
<1>1. CASE UNCHANGED vars
  BY <1>1 DEF vars, histVars, Inv, TypeOK, Names, Amounts, Labelled, Exact, ExactAt, Inside
<1>2. CASE Next
  BY <1>2, InvStart, InvProcess DEF Next
<1> QED BY <1>1, <1>2

-----------------------------------------------------------------------------
\* The invariant holds always.
THEOREM SpawnInvariant == Spec => []Inv
<1> QED BY InvInit, InvNext, PTL DEF Spec

\* The counters never exceed the number of entries, and while nobody has counted beside
\* another they are what has been counted since the last start that found the array new
\* (06-1a.c:50, 57, 77-84).
THEOREM CountersCountEntries == Spec => []CountsEntries
<1>1. ASSUME Inv PROVE CountsEntries
  <2>1. ~crowded /\ ~(\E p \in Procs : Inside(p)) => array[1] = since /\ array[2] = since
    BY <1>1 DEF Inv, Exact
  <2>2. /\ array[1] \in Nat /\ array[2] \in Nat /\ entries \in Nat
        /\ Cardinality(Labelled(pc, Before1)) \in Nat /\ Cardinality(Labelled(pc, Before2)) \in Nat
    BY <1>1, FS_CardinalityType DEF Inv, Amounts, TypeOK
  <2>3. array[1] <= entries /\ array[2] <= entries
    BY <1>1, <2>2 DEF Inv, Amounts
  <2> QED BY <2>1, <2>3 DEF CountsEntries
<1> QED BY <1>1, SpawnInvariant, PTL
=============================================================================
