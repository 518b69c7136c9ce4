---------------------------- MODULE FleetProofs ----------------------------
(* Proofs about Fleet, for every fleet size, queue set and depth. *)
EXTENDS Fleet, FiniteSetTheorems, TLAPS

-----------------------------------------------------------------------------
(* Sizing. *)

LEMMA MaxOfTwo ==
    ASSUME NEW a \in Int, NEW b \in Int
    PROVE  Max({a, b}) \in Int /\ Max({a, b}) = IF a >= b THEN a ELSE b
  <1>1. \E x \in {a, b} : \A y \in {a, b} : x >= y
    OBVIOUS
  <1> QED
    BY <1>1 DEF Max

LEMMA MinOfTwo ==
    ASSUME NEW a \in Int, NEW b \in Int
    PROVE  Min({a, b}) \in Int /\ Min({a, b}) = IF a <= b THEN a ELSE b
  <1>1. \E x \in {a, b} : \A y \in {a, b} : x <= y
    OBVIOUS
  <1> QED
    BY <1>1 DEF Min

LEMMA TotalIsNat ==
    ASSUME NEW d \in [Queues -> 0..MaxDepth] PROVE Total(d) \in Nat
  <1> DEFINE M == UNION {{q} \X (1..d[q]) : q \in DOMAIN d}
  <1>1. IsFiniteSet(Queues \X (1..MaxDepth))
    <2>1. IsFiniteSet(1..MaxDepth)
      BY BoundAssumption, FS_Interval, 1 \in Int, MaxDepth \in Int
    <2> QED
      BY <2>1, QueuesAssumption, FS_Product
  <1>2. M \subseteq Queues \X (1..MaxDepth)
    BY BoundAssumption
  <1>3. IsFiniteSet(M)
    BY <1>1, <1>2, FS_Subset
  <1> QED
    BY <1>3, FS_CardinalityType DEF Total

LEMMA DesiredBounds ==
    ASSUME NEW total \in Nat
    PROVE  Desired(total) \in Nat /\ Desired(total) <= MAX_VMS
  <1> DEFINE n == (total + DEPTH_PER_VM - 1) \div DEPTH_PER_VM
             m == Min({MAX_VMS, n})
  <1>1. n \in Int
    BY SizeAssumption
  <1>2. m \in Int /\ m <= MAX_VMS
    BY <1>1, SizeAssumption, MinOfTwo
  <1> HIDE DEF m
  <1>3. Max({MIN_VMS, m}) = IF MIN_VMS >= m THEN MIN_VMS ELSE m
    BY <1>2, SizeAssumption, MaxOfTwo
  <1> QED
    BY <1>2, <1>3, SizeAssumption DEF Desired, m

-----------------------------------------------------------------------------
(* Victims. *)

\* A set of ids has a smallest one.
LEMMA MinOfIds ==
    ASSUME NEW S \in SUBSET Nat, S # {} PROVE Min(S) \in S
  <1> DEFINE R == {ss \in Nat \X Nat : ss[1] < ss[2]}
  <1>1. IsWellFoundedOn(R, Nat)
    BY NatLessThanWellFounded, Zenon DEF OpToRel
  <1>2. \E x \in S : \A y \in S : ~(<<y, x>> \in R)
    BY <1>1, WFMin, Zenon
  <1>3. \E x \in S : \A y \in S : x <= y
    <2>1. PICK x \in S : \A y \in S : ~(<<y, x>> \in R)
      BY <1>2
    <2>2. ASSUME NEW y \in S PROVE x <= y
      <3>1. <<y, x>> \in Nat \X Nat => ~(y < x)
        BY <2>1
      <3> QED
        BY <3>1
    <2> QED
      BY <2>2
  <1> QED
    BY <1>3 DEF Min

Ids(C) == {c.id : c \in C}
Distinct(C) == \A c, d \in C : c.id = d.id => c = d

LEMMA CountBelow ==
    ASSUME NEW n \in Nat
    PROVE  IsFiniteSet(0..(n-1)) /\ Cardinality(0..(n-1)) = n
  <1>1. 0 \in Int /\ n - 1 \in Int
    OBVIOUS
  <1>2. /\ IsFiniteSet(0..(n-1))
        /\ Cardinality(0..(n-1)) = IF 0 > n - 1 THEN 0 ELSE (n - 1) - 0 + 1
    BY <1>1, FS_Interval, Zenon
  <1>3. (IF 0 > n - 1 THEN 0 ELSE (n - 1) - 0 + 1) = n
    OBVIOUS
  <1> QED
    BY <1>2, <1>3

\* terminate_vms stops no more workers than it is asked to: the number of older
\* ones tells them apart.
LEMMA OldestIsBounded ==
    ASSUME NEW n \in Nat, IsFiniteSet(containers), Distinct(containers),
           \A c \in containers : c.id \in Nat
    PROVE  /\ IsFiniteSet(Oldest(n)) /\ Cardinality(Oldest(n)) <= n
           /\ Oldest(n) \subseteq Ids(Running)
  <1> DEFINE auto == {c \in Running : c.auto}
             older(i) == {o \in auto : o.id < i}
             V == Oldest(n)
             f == [i \in V |-> Cardinality(older(i))]
  <1>1. \A i : IsFiniteSet(older(i)) /\ Cardinality(older(i)) \in Nat
    <2> TAKE i
    <2>1. older(i) \in SUBSET containers
      BY DEF Running
    <2> QED
      BY <2>1, FS_Subset, FS_CardinalityType
  <1>2. \A i \in V : Cardinality(older(i)) < n /\ \E c \in auto : c.id = i
    BY DEF Oldest
  <1>3. f \in [V -> 0..(n-1)]
    <2>1. \A i \in V : Cardinality(older(i)) \in 0..(n-1)
      <3> TAKE i \in V
      <3>1. Cardinality(older(i)) \in Nat /\ Cardinality(older(i)) < n
        BY <1>1, <1>2
      <3> HIDE DEF older
      <3> QED
        BY <3>1
    <2> QED
      BY <2>1
  <1>4. ASSUME NEW i \in V, NEW k \in V, i < k PROVE f[i] < f[k]
    <2>1. PICK c \in auto : c.id = i
      BY <1>2
    <2>2. c.id \in Nat /\ i \in Nat /\ k \in Nat
      BY <1>2, <2>1 DEF Running
    <2>3. older(i) \subseteq older(k)
      BY <1>2, <1>4, <2>2 DEF Running
    <2>4. c \in older(k) /\ c \notin older(i)
      BY <1>4, <2>1, <2>2
    <2>5. Cardinality(older(i)) <= Cardinality(older(k)) /\ Cardinality(older(i)) # Cardinality(older(k))
      BY <1>1, <2>3, <2>4, FS_Subset
    <2> QED
      BY <1>1, <2>5
  <1>5. \A i \in V : i \in Nat
    BY <1>2 DEF Running
  <1>6. f \in Injection(V, 0..(n-1))
    <2>1. ASSUME NEW i \in V, NEW k \in V, f[i] = f[k] PROVE i = k
      <3>1. f[i] \in Nat /\ ~(f[i] < f[k]) /\ ~(f[k] < f[i])
        BY <1>1, <2>1
      <3>2. ~(i < k) /\ ~(k < i)
        BY <1>4, <3>1
      <3> QED
        BY <1>5, <3>2
    <2> QED
      BY <1>3, <2>1 DEF Injection, IsInjective
  <1>7. IsFiniteSet(0..(n-1)) /\ Cardinality(0..(n-1)) = n
    BY CountBelow
  <1>8. IsFiniteSet(V) /\ Cardinality(V) <= n
    BY <1>6, <1>7, FS_Injection
  <1> QED
    BY <1>2, <1>8 DEF Ids

-----------------------------------------------------------------------------
(***************************************************************************)
(* The inductive invariant: what a cycle still means to start fits under   *)
(* MAX_VMS and the extra workers beside those that run, and without those  *)
(* it still means to stop, listed or not yet, there are as many as it      *)
(* decided on, which is no less than what the backlog it read needs.       *)
(***************************************************************************)

Resizing ==
    /\ pc # "resize" => starts = 0 /\ victims = {}
    /\ pc # "list" => surplus = 0

Sized ==
    /\ IsFiniteSet(containers) /\ born \in Nat
    /\ desired <= MAX_VMS /\ (~misread => need <= desired)

RoomToStart == Cardinality(Running) + starts <= MAX_VMS + extra

EnoughLeft ==
    /\ pc = "list" => Cardinality(Running) - surplus >= desired
    /\ victims # {} => Cardinality(Running) - Cardinality(victims) >= desired

FleetInv == TypeOK /\ Resizing /\ Sized /\ RoomToStart /\ EnoughLeft

LEMMA RunningIsFinite ==
    ASSUME IsFiniteSet(containers)
    PROVE  IsFiniteSet(Running) /\ Cardinality(Running) \in Nat
  <1>1. Running \in SUBSET containers
    BY DEF Running
  <1> QED
    BY <1>1, FS_Subset, FS_CardinalityType

LEMMA RunningIsFiniteNext ==
    ASSUME IsFiniteSet(containers')
    PROVE  IsFiniteSet(Running') /\ Cardinality(Running') \in Nat
  <1>1. Running' \in SUBSET containers'
    BY DEF Running
  <1> QED
    BY <1>1, FS_Subset, FS_CardinalityType

LEMMA FleetInit == Init => FleetInv
  <1> SUFFICES ASSUME Init PROVE FleetInv
    OBVIOUS
  <1>1. containers = {[id |-> i, auto |-> FALSE, up |-> TRUE] : i \in 1..Baseline}
    BY DEF Init
  <1>2. IsFiniteSet(1..Baseline) /\ Cardinality(1..Baseline) = Baseline
    BY SizeAssumption, FS_Interval, 1 \in Int, Baseline \in Int
  <1> DEFINE f == [i \in 1..Baseline |-> [id |-> i, auto |-> FALSE, up |-> TRUE]]
  <1>3. f \in Surjection(1..Baseline, containers)
    <2>1. f \in [1..Baseline -> containers]
      BY <1>1
    <2>2. \A c \in containers : \E i \in 1..Baseline : f[i] = c
      BY <1>1
    <2> QED
      BY <2>1, <2>2 DEF Surjection
  <1>4. IsFiniteSet(containers) /\ Cardinality(containers) <= Baseline
    BY <1>2, <1>3, FS_Surjection
  <1>5. Running = containers
    BY <1>1 DEF Running
  <1>6. Cardinality(Running) \in Nat
    BY <1>4, RunningIsFinite
  <1>7. misread \in BOOLEAN
    BY Zenon DEF Init
  <1>8. depth \in [Queues -> 0..MaxDepth]
    BY BoundAssumption DEF Init
  <1>9. containers \subseteq [id : 1..born, auto : BOOLEAN, up : BOOLEAN]
    <2> SUFFICES ASSUME NEW c \in containers
                 PROVE  c \in [id : 1..born, auto : BOOLEAN, up : BOOLEAN]
      OBVIOUS
    <2>1. PICK i \in 1..born : c = [id |-> i, auto |-> FALSE, up |-> TRUE]
      BY <1>1 DEF Init
    <2>2. FALSE \in BOOLEAN /\ TRUE \in BOOLEAN
      OBVIOUS
    <2> QED
      BY <2>1, <2>2, Zenon
  <1>10. TypeOK
    BY <1>1, <1>7, <1>8, <1>9 DEF Init, TypeOK
  <1>11. Sized
    BY <1>4, SizeAssumption DEF Init, Sized
  <1>12. RoomToStart
    BY <1>4, <1>5, <1>6, SizeAssumption DEF Init, RoomToStart
  <1> QED
    BY <1>10, <1>11, <1>12 DEF Init, FleetInv, Resizing, EnoughLeft

-----------------------------------------------------------------------------
(* The steps of a cycle. *)

LEMMA DecideStep == FleetInv /\ Decide => FleetInv'
  <1> SUFFICES ASSUME FleetInv, Decide PROVE FleetInv'
    OBVIOUS
  <1> USE DEF FleetInv
  <1>1. PICK bad \in SUBSET Queues :
          /\ desired' = Desired(Total([q \in Queues |-> IF q \in bad THEN 0 ELSE depth[q]]))
          /\ need' = Desired(Total(depth)) /\ misread' = (bad # {})
    BY DEF Decide
  <1> DEFINE d == [q \in Queues |-> IF q \in bad THEN 0 ELSE depth[q]]
  <1>2. d \in [Queues -> 0..MaxDepth] /\ (bad = {} => d = depth)
    BY BoundAssumption DEF TypeOK
  <1> HIDE DEF d
  <1>3. desired' = Desired(Total(d)) /\ desired' \in Nat /\ desired' <= MAX_VMS
    BY <1>1, <1>2, TotalIsNat, DesiredBounds DEF d
  <1>4. misread' \in BOOLEAN /\ (~misread' => bad = {})
    BY <1>1, Zenon
  <1>5. need' \in Nat /\ (~misread' => need' = desired')
    <2>1. need' \in Nat
      BY <1>1, TotalIsNat, DesiredBounds DEF TypeOK
    <2>2. bad = {} => need' = desired'
      BY <1>1, <1>2, <1>3
    <2> QED
      BY <1>4, <2>1, <2>2
  <1>6. /\ pc' = "count" /\ starts = 0 /\ surplus = 0 /\ victims = {}
        /\ UNCHANGED <<depth, containers, born, starts, surplus, victims, extra>>
    BY DEF Decide, Resizing
  <1>7. Running' = Running
    BY <1>6 DEF Running
  <1> QED
    BY <1>3, <1>4, <1>5, <1>6, <1>7 DEF TypeOK, Resizing, Sized, RoomToStart, EnoughLeft

LEMMA MissingType ==
    ASSUME TypeOK, NEW current \in Nat
    PROVE  /\ Missing(current) \in Nat
           /\ Missing(current) <= IF desired >= current THEN desired - current ELSE 0
  <1>1. Max({0, desired - current}) = IF 0 >= desired - current THEN 0 ELSE desired - current
    BY MaxOfTwo DEF TypeOK
  <1> QED
    BY <1>1 DEF Missing, TypeOK

LEMMA CountStep == FleetInv /\ Count => FleetInv'
  <1> SUFFICES ASSUME FleetInv, Count PROVE FleetInv'
    OBVIOUS
  <1> USE DEF FleetInv
  <1> DEFINE n == Cardinality(Running)
  <1>1. /\ pc' = (IF desired < n THEN "list" ELSE "resize") /\ starts' = Missing(n)
        /\ surplus' = IF desired < n THEN n - desired ELSE 0
        /\ starts = 0 /\ victims = {}
        /\ extra' = IF n <= MAX_VMS THEN 0 ELSE extra
        /\ UNCHANGED <<depth, containers, born, desired, victims, need, misread>>
    BY DEF Count, Scale, ActiveVms, Resizing
  <1>2. Running' = Running
    BY <1>1 DEF Running
  <1>3. n \in Nat
    BY RunningIsFinite DEF Sized
  <1>4. n <= MAX_VMS + extra
    BY <1>1, <1>3 DEF RoomToStart
  <1>5. Cardinality(Running') = n
    BY <1>2
  <1> HIDE DEF n
  <1>6. starts' \in Nat /\ starts' <= IF desired >= n THEN desired - n ELSE 0
    BY <1>1, <1>3, MissingType
  <1>7. RoomToStart'
    BY <1>1, <1>3, <1>4, <1>5, <1>6, SizeAssumption DEF RoomToStart, TypeOK, Sized
  <1>8. EnoughLeft'
    BY <1>1, <1>3, <1>5 DEF EnoughLeft, TypeOK
  <1>9. Resizing'
    BY <1>1, <1>3, <1>6 DEF Resizing, TypeOK
  <1> QED
    BY <1>1, <1>2, <1>3, <1>6, <1>7, <1>8, <1>9 DEF TypeOK, Sized

\* A cycle that is over leaves the containers to the next one.
LEMMA OverKeeps ==
    ASSUME FleetInv, Over, UNCHANGED <<depth, extra>>,
           IsFiniteSet(containers'), born' \in Nat, Distinct(containers'),
           containers' \subseteq [id : 1..born', auto : BOOLEAN, up : BOOLEAN],
           Cardinality(Running') <= Cardinality(Running) + starts
    PROVE  FleetInv'
  <1> USE DEF FleetInv
  <1>1. misread' \in BOOLEAN
    BY Zenon DEF Over
  <1>2. Cardinality(Running) \in Nat /\ Cardinality(Running') \in Nat
    BY RunningIsFinite, RunningIsFiniteNext DEF Sized
  <1>3. RoomToStart'
    BY <1>2, SizeAssumption DEF RoomToStart, TypeOK, Over
  <1>4. TypeOK'
    BY <1>1 DEF TypeOK, Over, Distinct
  <1> QED
    BY <1>3, <1>4, SizeAssumption DEF Resizing, Sized, EnoughLeft, Over

LEMMA CountFailsStep == FleetInv /\ CountFails => FleetInv'
  <1> SUFFICES ASSUME FleetInv, CountFails PROVE FleetInv'
    OBVIOUS
  <1> USE DEF FleetInv
  <1>1. pc = "count" /\ UNCHANGED <<depth, containers, born>>
    BY DEF CountFails
  <1>2. Running' = Running
    BY <1>1 DEF Running
  <1>3. Cardinality(Running) \in Nat /\ starts \in Nat /\ MAX_VMS \in Nat
    BY RunningIsFinite, SizeAssumption DEF Sized, TypeOK
  <1>4. CASE Scale(0) /\ extra' = extra + ActiveVms
    <2>1. /\ starts' \in Nat /\ starts' <= desired
          /\ UNCHANGED <<desired, victims, need, misread>> /\ victims = {}
          /\ pc' = "resize" /\ surplus' = 0
      BY <1>1, <1>4, MissingType DEF Scale, TypeOK, Resizing
    <2>2. RoomToStart'
      BY <1>1, <1>2, <1>3, <1>4, <2>1 DEF RoomToStart, ActiveVms, TypeOK, Sized, Resizing
    <2>3. extra' \in Nat
      BY <1>3, <1>4 DEF ActiveVms, TypeOK
    <2> QED
      BY <1>1, <1>2, <2>1, <2>2, <2>3 DEF TypeOK, Resizing, Sized, EnoughLeft
  <1>5. CASE Over /\ UNCHANGED extra
    <2>1. Cardinality(Running') <= Cardinality(Running) + starts
      BY <1>2, <1>3
    <2>2. IsFiniteSet(containers') /\ born' \in Nat /\ Distinct(containers')
          /\ containers' \subseteq [id : 1..born', auto : BOOLEAN, up : BOOLEAN]
      BY <1>1 DEF TypeOK, Sized, Distinct
    <2> QED
      BY <1>1, <1>5, <2>1, <2>2, OverKeeps
  <1> QED
    BY <1>4, <1>5 DEF CountFails

\* Whatever was started since the count, no more are listed than it left over.
LEMMA ListVictimsStep == FleetInv /\ ListVictims => FleetInv'
  <1> SUFFICES ASSUME FleetInv, ListVictims PROVE FleetInv'
    OBVIOUS
  <1> USE DEF FleetInv
  <1>1. /\ pc = "list" /\ pc' = "resize" /\ surplus' = 0 /\ victims' = Oldest(surplus)
        /\ starts = 0
        /\ UNCHANGED <<depth, containers, born, desired, starts, need, misread, extra>>
    BY DEF ListVictims, Resizing
  <1>2. Running' = Running
    BY <1>1 DEF Running
  <1>3. IsFiniteSet(containers) /\ Distinct(containers) /\ \A c \in containers : c.id \in Nat
    BY DEF TypeOK, Sized, Distinct
  <1>4. /\ victims' \subseteq Ids(Running) /\ Cardinality(victims') \in Nat
        /\ Cardinality(victims') <= surplus
    <2>1. surplus \in Nat
      BY DEF TypeOK
    <2> QED
      BY <1>1, <1>3, <2>1, OldestIsBounded, FS_CardinalityType
  <1>5. Cardinality(Running) \in Nat
    BY RunningIsFinite DEF Sized
  <1>6. EnoughLeft'
    BY <1>1, <1>2, <1>4, <1>5 DEF EnoughLeft, TypeOK
  <1> QED
    BY <1>1, <1>2, <1>4, <1>6 DEF TypeOK, Resizing, Sized, RoomToStart, Ids

LEMMA ListFailsStep == FleetInv /\ ListFails => FleetInv'
  <1> SUFFICES ASSUME FleetInv, ListFails PROVE FleetInv'
    OBVIOUS
  <1> USE DEF FleetInv
  <1>1. Over /\ UNCHANGED <<depth, containers, born, extra>>
    BY DEF ListFails
  <1>2. Running' = Running
    BY <1>1 DEF Running
  <1>3. Cardinality(Running) \in Nat /\ starts \in Nat
    BY RunningIsFinite DEF Sized, TypeOK
  <1>4. Cardinality(Running') <= Cardinality(Running) + starts
    BY <1>2, <1>3
  <1>5. IsFiniteSet(containers') /\ born' \in Nat /\ Distinct(containers')
        /\ containers' \subseteq [id : 1..born', auto : BOOLEAN, up : BOOLEAN]
    BY <1>1 DEF TypeOK, Sized, Distinct
  <1> QED
    BY <1>1, <1>4, <1>5, OverKeeps

-----------------------------------------------------------------------------
(* Containers come and go. *)

LEMMA VictimsAreFinite ==
    ASSUME TypeOK, Sized
    PROVE  IsFiniteSet(victims) /\ Cardinality(victims) \in Nat /\ victims \subseteq Nat
  <1>1. victims \in SUBSET (1..born)
    BY DEF TypeOK, Running
  <1>2. IsFiniteSet(1..born) /\ 1..born \subseteq Nat
    BY FS_Interval, 1 \in Int, born \in Int DEF Sized
  <1>3. IsFiniteSet(victims)
    BY <1>1, <1>2, FS_Subset
  <1> QED
    BY <1>1, <1>2, <1>3, FS_CardinalityType

\* A created container is a new one, whether it runs or not.
LEMMA StartedIsNew ==
    ASSUME TypeOK, Sized, NEW up \in BOOLEAN,
           containers' = containers \cup {Started(up)}, born' = born + 1
    PROVE  /\ IsFiniteSet(containers') /\ born' \in Nat
           /\ containers' \subseteq [id : 1..born', auto : BOOLEAN, up : BOOLEAN]
           /\ Distinct(containers') /\ Running \subseteq Running'
           /\ Running' = IF up THEN Running \cup {Started(up)} ELSE Running
           /\ Started(up) \notin Running
  <1> DEFINE new == Started(up)
  <1>1. born \in Nat /\ new.id = born + 1 /\ new.up = up
    BY DEF Sized, Started
  <1>2. new \in [id : 1..born', auto : BOOLEAN, up : BOOLEAN]
    <2>1. TRUE \in BOOLEAN /\ born + 1 \in 1..born'
      BY <1>1
    <2> QED
      BY <2>1, Zenon DEF Started
  <1>3. \A c \in containers : c \in [id : 1..born', auto : BOOLEAN, up : BOOLEAN]
                              /\ c.id # born + 1
    <2> TAKE c \in containers
    <2>1. c \in [id : 1..born, auto : BOOLEAN, up : BOOLEAN]
      BY DEF TypeOK
    <2>2. 1..born \subseteq 1..born' /\ born + 1 \notin 1..born
      BY <1>1
    <2> QED
      BY <2>1, <2>2
  <1> HIDE DEF new
  <1>4. containers' = containers \cup {new}
    BY DEF new
  <1>5. Distinct(containers')
    <2>1. Distinct(containers)
      BY DEF TypeOK, Distinct
    <2>2. ASSUME NEW c \in containers', NEW d \in containers', c.id = d.id PROVE c = d
      BY <1>1, <1>3, <1>4, <2>1, <2>2 DEF Distinct
    <2> QED
      BY <2>2 DEF Distinct
  <1>6. Running' = (IF up THEN Running \cup {new} ELSE Running) /\ new \notin Running
    BY <1>1, <1>3, <1>4 DEF Running
  <1>7. IsFiniteSet(containers')
    BY <1>4, FS_AddElement DEF Sized
  <1> QED
    BY <1>1, <1>2, <1>3, <1>4, <1>5, <1>6, <1>7 DEF new

LEMMA StartedCounts ==
    ASSUME TypeOK, Sized, NEW up \in BOOLEAN,
           containers' = containers \cup {Started(up)}, born' = born + 1
    PROVE  /\ Cardinality(Running) \in Nat
           /\ Cardinality(Running') = IF up THEN Cardinality(Running) + 1
                                      ELSE Cardinality(Running)
  <1>1. IsFiniteSet(Running) /\ Cardinality(Running) \in Nat
    BY RunningIsFinite DEF Sized
  <1>2. CASE up
    <2>1. Running' = Running \cup {Started(up)} /\ Started(up) \notin Running
      BY <1>2, StartedIsNew
    <2> QED
      BY <1>1, <1>2, <2>1, FS_AddElement
  <1>3. CASE ~up
    BY <1>1, <1>3, StartedIsNew
  <1> QED
    BY <1>2, <1>3

LEMMA StartOneStep == FleetInv /\ StartOne => FleetInv'
  <1> SUFFICES ASSUME FleetInv, StartOne PROVE FleetInv'
    OBVIOUS
  <1> USE DEF FleetInv
  <1>1. /\ pc = "resize" /\ starts > 0 /\ starts' = starts - 1
        /\ containers' = containers \cup {Started(TRUE)} /\ born' = born + 1
        /\ UNCHANGED <<depth, pc, desired, surplus, victims, need, misread, extra>>
    BY DEF StartOne
  <1>2. victims = {} /\ starts' \in Nat
    BY <1>1 DEF TypeOK
  <1>3. /\ IsFiniteSet(containers') /\ born' \in Nat /\ Distinct(containers')
        /\ containers' \subseteq [id : 1..born', auto : BOOLEAN, up : BOOLEAN]
    BY <1>1, TRUE \in BOOLEAN, StartedIsNew, Zenon
  <1>4. Cardinality(Running) \in Nat /\ Cardinality(Running') = Cardinality(Running) + 1
    BY <1>1, TRUE \in BOOLEAN, StartedCounts, Zenon
  <1>5. RoomToStart'
    BY <1>1, <1>4, SizeAssumption DEF RoomToStart, TypeOK
  <1> QED
    BY <1>1, <1>2, <1>3, <1>5 DEF TypeOK, Resizing, Sized, EnoughLeft, Distinct

\* A start that fails has at most one more worker running than before.
LEMMA StartFailsStep == FleetInv /\ StartFails => FleetInv'
  <1> SUFFICES ASSUME FleetInv, StartFails PROVE FleetInv'
    OBVIOUS
  <1> USE DEF FleetInv
  <1>1. /\ pc = "resize" /\ starts > 0 /\ UNCHANGED <<depth, extra>>
    BY DEF StartFails
  <1>2. /\ IsFiniteSet(containers') /\ born' \in Nat /\ Distinct(containers')
        /\ containers' \subseteq [id : 1..born', auto : BOOLEAN, up : BOOLEAN]
        /\ Cardinality(Running) \in Nat /\ Cardinality(Running') \in Nat
        /\ Cardinality(Running') <= Cardinality(Running) + 1
    <2>1. CASE UNCHANGED <<containers, born>>
      <3>1. Running' = Running /\ IsFiniteSet(containers)
        BY <2>1 DEF Running, Sized
      <3>2. Cardinality(Running) \in Nat
        BY <3>1, RunningIsFinite
      <3> QED
        BY <2>1, <3>1, <3>2 DEF TypeOK, Sized, Distinct
    <2>2. CASE /\ \E up \in BOOLEAN : containers' = containers \cup {Started(up)}
               /\ born' = born + 1
      <3> PICK up \in BOOLEAN : containers' = containers \cup {Started(up)}
        BY <2>2
      <3>1. /\ IsFiniteSet(containers') /\ born' \in Nat /\ Distinct(containers')
            /\ containers' \subseteq [id : 1..born', auto : BOOLEAN, up : BOOLEAN]
        BY <2>2, StartedIsNew
      <3>2. /\ Cardinality(Running) \in Nat
            /\ Cardinality(Running') = IF up THEN Cardinality(Running) + 1
                                       ELSE Cardinality(Running)
        BY <2>2, StartedCounts
      <3> QED
        BY <3>1, <3>2
    <2> QED
      BY <2>1, <2>2 DEF StartFails
  <1>3. CASE /\ starts' = starts - 1
             /\ UNCHANGED <<pc, desired, surplus, victims, need, misread>>
    <2>1. victims = {} /\ starts' \in Nat
      BY <1>1, <1>3 DEF TypeOK
    <2>2. RoomToStart'
      BY <1>1, <1>2, <1>3, SizeAssumption DEF RoomToStart, TypeOK
    <2> QED
      BY <1>1, <1>2, <1>3, <2>1, <2>2 DEF TypeOK, Resizing, Sized, EnoughLeft, Distinct
  <1>4. CASE Over
    <2>1. Cardinality(Running') <= Cardinality(Running) + starts
      BY <1>1, <1>2 DEF TypeOK
    <2> QED
      BY <1>1, <1>2, <1>4, <2>1, OverKeeps
  <1> QED
    BY <1>3, <1>4 DEF StartFails

LEMMA CreateByHandStep == FleetInv /\ CreateByHand => FleetInv'
  <1> SUFFICES ASSUME FleetInv, CreateByHand PROVE FleetInv'
    OBVIOUS
  <1> USE DEF FleetInv
  <1>1. /\ extra' = extra + 1 /\ containers' = containers \cup {Started(TRUE)}
        /\ born' = born + 1
        /\ UNCHANGED <<depth, pc, desired, starts, surplus, victims, need, misread>>
    BY DEF CreateByHand, cycle
  <1>2. /\ IsFiniteSet(containers') /\ born' \in Nat /\ Distinct(containers')
        /\ containers' \subseteq [id : 1..born', auto : BOOLEAN, up : BOOLEAN]
        /\ Running \subseteq Running'
    BY <1>1, TRUE \in BOOLEAN, StartedIsNew, Zenon
  <1>3. Cardinality(Running) \in Nat /\ Cardinality(Running') = Cardinality(Running) + 1
    BY <1>1, TRUE \in BOOLEAN, StartedCounts, Zenon
  <1>4. Cardinality(victims) \in Nat
    BY VictimsAreFinite
  <1>5. EnoughLeft'
    BY <1>1, <1>3, <1>4 DEF EnoughLeft, TypeOK
  <1>6. RoomToStart'
    BY <1>1, <1>3, SizeAssumption DEF RoomToStart, TypeOK
  <1>7. misread' \in BOOLEAN /\ extra' \in Nat
    BY <1>1 DEF TypeOK
  <1>8. victims' \subseteq {c.id : c \in Running'}
    BY <1>1, <1>2 DEF TypeOK
  <1>9. TypeOK'
    BY <1>1, <1>2, <1>7, <1>8 DEF TypeOK, Distinct
  <1> QED
    BY <1>1, <1>2, <1>5, <1>6, <1>9 DEF Resizing, Sized

-----------------------------------------------------------------------------
(* Stopping. *)

\* The worker to be stopped is running and is the only one with its id.
LEMMA LeavingIsOne ==
    ASSUME TypeOK, Sized, victims # {}
    PROVE  /\ Min(victims) \in victims
           /\ \E c \in Running : c.id = Min(victims) /\ Leaving = {c}
  <1>1. Min(victims) \in victims
    BY VictimsAreFinite, MinOfIds
  <1>2. PICK c \in Running : c.id = Min(victims)
    BY <1>1 DEF TypeOK
  <1> QED
    BY <1>1, <1>2 DEF TypeOK, Running, Leaving

Stopped == {[c EXCEPT !.up = FALSE] : c \in Leaving}

\* What a stop does to the containers, whether it succeeds or fails half-way.
LEMMA StopEffect ==
    ASSUME TypeOK, Sized, victims # {}, UNCHANGED born,
           containers' \in {containers, containers \ Leaving,
                           (containers \ Leaving) \cup Stopped}
    PROVE  /\ IsFiniteSet(containers') /\ born' \in Nat /\ Distinct(containers')
           /\ containers' \subseteq [id : 1..born', auto : BOOLEAN, up : BOOLEAN]
           /\ Running' \in {Running, Running \ Leaving}
  <1>1. PICK c \in Running : c.id = Min(victims) /\ Leaving = {c}
    BY LeavingIsOne
  <1> DEFINE down == [c EXCEPT !.up = FALSE]
  <1>2. c \in containers /\ c \in [id : 1..born, auto : BOOLEAN, up : BOOLEAN]
    BY DEF TypeOK, Running
  <1>3. down \in [id : 1..born, auto : BOOLEAN, up : BOOLEAN] /\ down.id = c.id /\ ~down.up
    <2>1. down \in [id : 1..born, auto : BOOLEAN, up : BOOLEAN]
      BY <1>2, Zenon
    <2>2. down.id = c.id /\ ~down.up
      BY <1>2
    <2> QED
      BY <2>1, <2>2
  <1>4. Stopped = {down}
    BY <1>1 DEF Stopped
  <1> HIDE DEF down
  <1>5. containers' \in {containers, containers \ {c}, (containers \ {c}) \cup {down}}
    BY <1>1, <1>4
  <1>6. Running' \in {Running, Running \ {c}}
    BY <1>3, <1>5 DEF Running
  <1>7. IsFiniteSet(containers')
    <2>1. IsFiniteSet(containers \ {c}) /\ IsFiniteSet(containers)
      BY FS_RemoveElement DEF Sized
    <2>2. IsFiniteSet((containers \ {c}) \cup {down})
      BY <2>1, FS_AddElement
    <2> QED
      BY <1>5, <2>1, <2>2
  <1>8. Distinct(containers')
    <2>1. \A a, b \in containers : a.id = b.id => a = b
      BY DEF TypeOK
    <2> QED
      BY <1>2, <1>3, <1>5, <2>1 DEF Distinct
  <1>9. containers' \subseteq [id : 1..born, auto : BOOLEAN, up : BOOLEAN]
    BY <1>3, <1>5 DEF TypeOK
  <1> QED
    BY <1>1, <1>6, <1>7, <1>8, <1>9 DEF Sized

\* One worker less on the list, and one less or none in the fleet.
LEMMA VictimLeaves ==
    ASSUME FleetInv, pc = "resize", victims # {}, victims' = victims \ {Min(victims)},
           IsFiniteSet(containers'), born' \in Nat, Distinct(containers'),
           containers' \subseteq [id : 1..born', auto : BOOLEAN, up : BOOLEAN],
           Running' \in {Running, Running \ Leaving},
           UNCHANGED <<depth, pc, desired, starts, surplus, need, misread, extra>>
    PROVE  FleetInv'
  <1> USE DEF FleetInv
  <1>1. PICK c \in Running : c.id = Min(victims) /\ Leaving = {c}
    BY LeavingIsOne
  <1>2. c.id \in victims /\ victims' = victims \ {c.id}
    BY <1>1, LeavingIsOne
  <1>3. victims' \subseteq Ids(Running')
    <2> SUFFICES ASSUME NEW i \in victims' PROVE i \in Ids(Running')
      OBVIOUS
    <2>1. i \in victims /\ i # c.id
      BY <1>2
    <2>2. PICK v \in Running : v.id = i
      BY <2>1 DEF TypeOK
    <2> QED
      BY <1>1, <2>1, <2>2 DEF Ids
  <1>4. /\ Cardinality(Running) \in Nat /\ Cardinality(victims) \in Nat
        /\ Cardinality(victims') = Cardinality(victims) - 1
        /\ Cardinality(Running \ {c}) = Cardinality(Running) - 1
    <2>1. IsFiniteSet(Running) /\ Cardinality(Running) \in Nat
      BY RunningIsFinite DEF Sized
    <2>2. IsFiniteSet(victims) /\ Cardinality(victims) \in Nat
      BY VictimsAreFinite
    <2>3. Cardinality(Running \ {c}) = Cardinality(Running) - 1
      BY <2>1, FS_RemoveElement
    <2>4. Cardinality(victims \ {c.id}) = Cardinality(victims) - 1
      BY <1>2, <2>2, FS_RemoveElement
    <2> QED
      BY <1>2, <2>1, <2>2, <2>3, <2>4
  <1>5. Cardinality(Running') \in {Cardinality(Running), Cardinality(Running) - 1}
    BY <1>1, <1>4
  <1>6. EnoughLeft'
    BY <1>4, <1>5 DEF EnoughLeft, TypeOK
  <1>7. RoomToStart'
    BY <1>4, <1>5, SizeAssumption DEF RoomToStart, TypeOK
  <1>8. TypeOK'
    BY <1>3 DEF TypeOK, Distinct, Ids
  <1> QED
    BY <1>6, <1>7, <1>8 DEF Resizing, Sized

LEMMA StopOneStep == FleetInv /\ StopOne => FleetInv'
  <1> SUFFICES ASSUME FleetInv, StopOne PROVE FleetInv'
    OBVIOUS
  <1>1. /\ pc = "resize" /\ victims # {} /\ victims' = victims \ {Min(victims)}
        /\ containers' = containers \ Leaving
        /\ UNCHANGED <<depth, born, pc, desired, starts, surplus, need, misread, extra>>
    BY DEF StopOne
  <1>2. /\ IsFiniteSet(containers') /\ born' \in Nat /\ Distinct(containers')
        /\ containers' \subseteq [id : 1..born', auto : BOOLEAN, up : BOOLEAN]
        /\ Running' \in {Running, Running \ Leaving}
    BY <1>1, StopEffect DEF FleetInv
  <1> QED
    BY <1>1, <1>2, VictimLeaves

LEMMA StopFailsStep == FleetInv /\ StopFails => FleetInv'
  <1> SUFFICES ASSUME FleetInv, StopFails PROVE FleetInv'
    OBVIOUS
  <1>1. /\ pc = "resize" /\ victims # {} /\ UNCHANGED <<depth, born, extra>>
        /\ containers' \in {containers, (containers \ Leaving) \cup Stopped}
    BY DEF StopFails, Stopped
  <1>2. /\ IsFiniteSet(containers') /\ born' \in Nat /\ Distinct(containers')
        /\ containers' \subseteq [id : 1..born', auto : BOOLEAN, up : BOOLEAN]
        /\ Running' \in {Running, Running \ Leaving}
    BY <1>1, StopEffect DEF FleetInv
  <1>3. CASE /\ victims' = victims \ {Min(victims)}
             /\ UNCHANGED <<pc, desired, starts, surplus, need, misread>>
    BY <1>1, <1>2, <1>3, VictimLeaves
  <1>4. CASE Over
    <2>1. IsFiniteSet(Running) /\ Cardinality(Running) \in Nat /\ Running' \subseteq Running
      BY <1>2, RunningIsFinite DEF FleetInv, Sized
    <2>2. Cardinality(Running') <= Cardinality(Running) /\ Cardinality(Running') \in Nat
      BY <2>1, FS_Subset, FS_CardinalityType
    <2>3. Cardinality(Running') <= Cardinality(Running) + starts
      BY <2>1, <2>2 DEF FleetInv, TypeOK
    <2> QED
      BY <1>1, <1>2, <1>4, <2>3, OverKeeps
  <1> QED
    BY <1>3, <1>4 DEF StopFails

LEMMA FleetInductive == FleetInv /\ [Next]_vars => FleetInv'
  <1> SUFFICES ASSUME FleetInv, [Next]_vars PROVE FleetInv'
    OBVIOUS
  <1> USE DEF FleetInv
  <1>1. CASE EndCycle
    <2>1. Over /\ UNCHANGED <<depth, containers, born, extra>>
      BY <1>1 DEF EndCycle
    <2>2. Running' = Running
      BY <2>1 DEF Running
    <2>3. Cardinality(Running) \in Nat /\ starts \in Nat
      BY RunningIsFinite DEF Sized, TypeOK
    <2>4. Cardinality(Running') <= Cardinality(Running) + starts
      BY <2>2, <2>3
    <2>5. IsFiniteSet(containers') /\ born' \in Nat /\ Distinct(containers')
          /\ containers' \subseteq [id : 1..born', auto : BOOLEAN, up : BOOLEAN]
      BY <2>1 DEF TypeOK, Sized, Distinct
    <2> QED
      BY <2>1, <2>4, <2>5, OverKeeps
  <1>2. ASSUME NEW q \in Queues, NEW n \in 0..MaxDepth, Backlog(q, n) PROVE FleetInv'
    <2>1. Running' = Running
      BY <1>2 DEF Backlog, Running
    <2>2. depth' \in [Queues -> 0..MaxDepth]
      BY <1>2 DEF Backlog, TypeOK
    <2> QED
      BY <1>2, <2>1, <2>2
         DEF Backlog, cycle, TypeOK, Resizing, Sized, RoomToStart, EnoughLeft
  <1>3. CASE UNCHANGED vars
    <2>1. Running' = Running
      BY <1>3 DEF vars, Running
    <2> QED
      BY <1>3, <2>1 DEF vars, cycle, TypeOK, Resizing, Sized, RoomToStart, EnoughLeft
  <1> QED
    BY <1>1, <1>2, <1>3, DecideStep, CountStep, CountFailsStep, ListVictimsStep,
       ListFailsStep, StartOneStep, StartFailsStep, StopOneStep, StopFailsStep,
       CreateByHandStep DEF Next, Cycle

-----------------------------------------------------------------------------

\* The containers and the cycle's locals keep their shape; what apply still means to
\* stop is running, and it never both starts and stops workers in a cycle.
THEOREM FleetTypeCorrect == Spec => []TypeOK
  <1>1. FleetInv => TypeOK
    BY DEF FleetInv
  <1> QED
    BY <1>1, FleetInit, FleetInductive, PTL DEF Spec

\* The autoscaler never takes the fleet above MAX_VMS and the workers that failed
\* listings hid or that were started by hand, of which nothing is left once a count
\* has found MAX_VMS or less.
THEOREM FleetStaysWithinMax == Spec => []WithinMax
  <1>1. FleetInv => WithinMax
    BY RunningIsFinite, SizeAssumption DEF FleetInv, TypeOK, Sized, RoomToStart, WithinMax
  <1> QED
    BY <1>1, FleetInit, FleetInductive, PTL DEF Spec

\* apply never stops a worker that the backlog it read needs.
THEOREM FleetCoversNeed == Spec => []NeverBelowNeed
  <1>1. FleetInv => NeverBelowNeed
    BY RunningIsFinite, VictimsAreFinite
       DEF FleetInv, TypeOK, Sized, EnoughLeft, NeverBelowNeed
  <1> QED
    BY <1>1, FleetInit, FleetInductive, PTL DEF Spec

=============================================================================
