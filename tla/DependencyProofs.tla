-------------------------- MODULE DependencyProofs --------------------------
(***************************************************************************)
(* Proofs about DependencyScheduler, for every set of dependency graphs,   *)
(* batch size and number of triggers, updates and faults.                  *)
(***************************************************************************)
EXTENDS DependencyScheduler, FiniteSetTheorems, TLAPS

-----------------------------------------------------------------------------
(***************************************************************************)
(* The inductive invariant.                                                *)
(***************************************************************************)

Rows == \A i \in DOMAIN tasks :
    /\ tasks[i].status = "success" => tasks[i].finished # 0
    /\ tasks[i].status = "pending" => tasks[i].finished = 0 /\ ~tasks[i].processed
    /\ tasks[i].ready <= tasks[i].created /\ 1..tasks[i].read \subseteq DOMAIN tasks

\* created_at tells the tasks of one job apart.
Distinct == \A i, k \in DOMAIN tasks :
    tasks[i].job = tasks[k].job /\ tasks[i].created = tasks[k].created => i = k

\* What the cycle read is still in the table: a success as it was, any other
\* task perhaps finished since.  Nothing that was there then is newer.
Snapshot == \A j \in Jobs : \A t \in latest[j] :
    /\ t.created <= CompletedAt(t)
    /\ txn # 0 => CompletedAt(t) <= txn
    /\ \E i \in DOMAIN tasks :
         /\ tasks[i].job = j /\ CompletedAt(t) <= CompletedAt(tasks[i])
         /\ t.status = "success" =>
              tasks[i].status = "success" /\ tasks[i].finished = t.finished
         /\ \A m \in 1..read : tasks[m].job = j => tasks[m].created <= tasks[i].created

\* The candidates the cycle has yet to evaluate against what it read.
ToCome == CASE pc = "dispatch" -> candidates
            [] pc = "send" -> candidates \ {tasks[made].job}
            [] OTHER -> {}

\* The table has no run of such a job that is newer than what was read, except
\* those that were triggered since.
Seen == \A c \in ToCome : \A i \in DOMAIN tasks : tasks[i].job = c =>
    \/ \E t \in latest[c] : tasks[i].created <= t.created
    \/ tasks[i].ready = 0 /\ tasks[i].created > txn

IsLatest(i, u) ==
    /\ i \in DOMAIN tasks /\ tasks[i].job = u
    /\ \A k \in DOMAIN tasks : tasks[k].job = u => tasks[k].created <= tasks[i].created

\* A success that made an upstream the latest since is still to be observed.
Followed == \A c \in ToCome : \A u \in ups[c] : \A i \in DOMAIN tasks :
    IsLatest(i, u) /\ tasks[i].status = "success" =>
        \/ ~tasks[i].processed
        \/ \E t \in latest[u] : t.status = "success" /\ t.finished = tasks[i].finished

\* The tasks to be marked are successes whose downstream jobs will be evaluated, in
\* a transaction that is not open yet.
Batched ==
    /\ pc \in {"mark", "latest"} => txn = 0
    /\ pc # "mark" => batch = {}
    /\ \A i \in batch :
         /\ tasks[i].status = "success"
         /\ Downstream(tasks[i].job) \cap enabled \subseteq candidates \cup dropped

\* The upstreams of a candidate are those the cycle loaded, unless it was linked
\* anew since.
Linked == \A c \in candidates : ups[c] = upstreams[c] \/ c \in dropped

\* An upstream of c has succeeded and no cycle has looked at it.
Owed(c) == \E i \in Unprocessed : tasks[i].job \in upstreams[c]

Evaluating == IF pc \in {"mark", "latest"} THEN candidates ELSE ToCome

NoneForgotten == \A c \in Jobs : Waiting(c) =>
    \/ c \in dropped \/ Owed(c) \/ c \in Evaluating

\* The run that was just created is later than every upstream success that is not
\* still to be observed.
MadeCovers == pc = "send" =>
    \A u \in ups[tasks[made].job] : \A i \in DOMAIN tasks :
        IsLatest(i, u) /\ tasks[i].status = "success" /\ tasks[i].processed
          => CompletedAt(tasks[i]) <= CompletedAt(tasks[made])

Table == TypeOK /\ Rows /\ Distinct
Reading == Snapshot /\ Seen /\ Followed /\ Batched /\ Linked
Chaining == NoneForgotten /\ MadeCovers

DependencyInv ==
    Table /\ Reading /\ Chaining /\ OncePerGeneration /\ RunsAfterAllUpstreams

-----------------------------------------------------------------------------
(* Latest tasks. *)

LEMMA LeastNat ==
    ASSUME NEW S \in SUBSET Nat, S # {} PROVE \E x \in S : \A y \in S : x <= y
  <1> DEFINE R == {ss \in Nat \X Nat : ss[1] < ss[2]}
  <1>1. IsWellFoundedOn(R, Nat)
    BY NatLessThanWellFounded, Zenon DEF OpToRel
  <1>2. \E x \in S : \A y \in S : ~(<<y, x>> \in R)
    BY <1>1, WFMin, Zenon
  <1>3. PICK x \in S : \A y \in S : ~(<<y, x>> \in R)
    BY <1>2
  <1>4. ASSUME NEW y \in S PROVE x <= y
    <2>1. <<y, x>> \in Nat \X Nat => ~(y < x)
      BY <1>3
    <2> QED
      BY <2>1
  <1> QED
    BY <1>4

\* A bounded set of stamps has a latest one.
LEMMA MaxOfStamps ==
    ASSUME NEW S \in SUBSET Nat, S # {}, NEW n \in Nat, \A x \in S : x <= n
    PROVE  Max(S) \in S /\ \A x \in S : x <= Max(S)
  <1> DEFINE B == {m \in Nat : \A x \in S : x <= m}
  <1>1. PICK m \in B : \A b \in B : m <= b
    BY LeastNat, n \in B
  <1>2. m \in S
    <2> SUFFICES ASSUME m \notin S PROVE FALSE
      OBVIOUS
    <2>1. PICK y \in S : TRUE
      OBVIOUS
    <2>2. y < m /\ m - 1 \in Nat
      BY <1>1, <2>1
    <2>3. \A x \in S : x <= m - 1
      BY <1>1, <2>2
    <2> QED
      BY <1>1, <2>2, <2>3
  <1>3. \E x \in S : \A y \in S : x >= y
    BY <1>1, <1>2
  <1>4. Max(S) \in S /\ \A y \in S : Max(S) >= y
    BY <1>3 DEF Max
  <1> QED
    BY <1>4

LEMMA TaskRow ==
    ASSUME TypeOK, NEW i \in DOMAIN tasks
    PROVE  /\ tasks[i] \in Task /\ tasks[i].job \in Jobs
           /\ tasks[i].created \in Nat /\ tasks[i].finished \in Nat /\ tasks[i].ready \in Nat
           /\ tasks[i].after \subseteq Jobs /\ tasks[i].read \in Nat
           /\ CompletedAt(tasks[i]) \in Nat
           /\ tasks[i].created <= CompletedAt(tasks[i]) /\ CompletedAt(tasks[i]) <= now
  <1>1. tasks[i] \in Task
    BY DEF TypeOK
  <1>2. /\ tasks[i].job \in Jobs /\ tasks[i].created \in Nat
        /\ tasks[i].finished \in Nat /\ tasks[i].ready \in Nat
        /\ tasks[i].after \subseteq Jobs /\ tasks[i].read \in Nat
    BY <1>1 DEF Task
  <1>3. CompletedAt(tasks[i]) \in tasks[i].created..now /\ now \in Nat
    BY DEF TypeOK
  <1> QED
    BY <1>1, <1>2, <1>3

\* The positions the cycle keeps are positions of the table.
LEMMA Positions ==
    ASSUME TypeOK
    PROVE  /\ now \in Nat /\ txn \in 0..now
           /\ Len(tasks) \in Nat /\ DOMAIN tasks = 1..Len(tasks)
           /\ made \in 0..Len(tasks) /\ read \in 0..Len(tasks) /\ read \in Nat
           /\ 1..read \subseteq DOMAIN tasks
  <1>1. /\ now \in Nat /\ txn \in 0..now /\ tasks \in Seq(Task)
        /\ made \in 0..Len(tasks) /\ read \in 0..Len(tasks)
    BY Zenon DEF TypeOK
  <1>2. Len(tasks) \in Nat /\ DOMAIN tasks = 1..Len(tasks)
    BY <1>1
  <1>3. read \in Nat /\ 1..read \subseteq DOMAIN tasks
    BY <1>1, <1>2
  <1> QED
    BY <1>1, <1>2, <1>3

LEMMA LatestOf ==
    ASSUME NEW u, NEW t
    PROVE  t \in LatestTask(u) <=> \E i \in DOMAIN tasks : IsLatest(i, u) /\ t = tasks[i]
  BY DEF LatestTask, Mine, IsLatest

\* A job that ever ran has a latest task.
LEMMA LatestExists ==
    ASSUME TypeOK, NEW i \in DOMAIN tasks
    PROVE  \E k \in DOMAIN tasks : IsLatest(k, tasks[i].job)
  <1> DEFINE S == {tasks[k].created : k \in {m \in DOMAIN tasks : tasks[m].job = tasks[i].job}}
  <1>1. now \in Nat
    BY DEF TypeOK
  <1>3. \A k \in DOMAIN tasks : tasks[k].created \in Nat /\ tasks[k].created <= now
    BY <1>1, TaskRow
  <1>4. S \in SUBSET Nat /\ S # {} /\ \A x \in S : x <= now
    BY <1>3
  <1>2. Max(S) \in S /\ \A x \in S : x <= Max(S)
    BY <1>1, <1>4, MaxOfStamps
  <1> QED
    BY <1>2 DEF IsLatest

LEMMA OneLatest ==
    ASSUME TypeOK, Distinct, NEW u, NEW i, NEW k, IsLatest(i, u), IsLatest(k, u)
    PROVE  i = k
  BY TaskRow DEF IsLatest, Distinct

LEMMA LatestIsSmall ==
    ASSUME TypeOK, Distinct, NEW u PROVE Cardinality(LatestTask(u)) <= 1
  <1>1. \A x, y \in LatestTask(u) : x = y
    BY OneLatest, LatestOf
  <1>2. CASE LatestTask(u) = {}
    BY <1>2, FS_EmptySet
  <1>3. CASE LatestTask(u) # {}
    <2>1. PICK x : LatestTask(u) = {x}
      BY <1>1, <1>3
    <2>2. Cardinality({x}) = 1
      BY FS_Singleton
    <2> QED
      BY <2>1, <2>2
  <1> QED
    BY <1>2, <1>3

\* The generation of the list U, as the stamps it is the latest of.
LEMMA ReadyAtMax ==
    ASSUME NEW U, NEW last, NEW n \in Nat, \E u \in U : last[u] # {},
           \A u \in U : \A t \in last[u] :
               CompletedAt(t) \in Nat /\ CompletedAt(t) <= n
    PROVE  /\ ReadyAt(U, last) \in Nat /\ ReadyAt(U, last) <= n
           /\ \A u \in U : \A t \in last[u] : CompletedAt(t) <= ReadyAt(U, last)
           /\ \E u \in U : \E t \in last[u] : CompletedAt(t) = ReadyAt(U, last)
  <1> DEFINE S == {CompletedAt(t) : t \in UNION {last[u] : u \in U}}
  <1>1. S \in SUBSET Nat /\ S # {} /\ \A x \in S : x <= n
    OBVIOUS
  <1>2. Max(S) \in S /\ \A x \in S : x <= Max(S)
    BY <1>1, MaxOfStamps
  <1>3. ReadyAt(U, last) = Max(S)
    BY DEF ReadyAt
  <1> HIDE DEF S
  <1>4. ReadyAt(U, last) \in S /\ \A x \in S : x <= ReadyAt(U, last)
    BY <1>2, <1>3
  <1>5. ReadyAt(U, last) \in Nat /\ ReadyAt(U, last) <= n
    BY <1>1, <1>4
  <1> QED
    BY <1>4, <1>5 DEF S

\* A job waits when all its upstreams' latest tasks are successes and each of its
\* own runs is older than one of them.
Outrun(c) ==
    /\ c \in enabled /\ upstreams[c] # {}
    /\ \A u \in upstreams[c] : \E i \in DOMAIN tasks :
         IsLatest(i, u) /\ tasks[i].status = "success"
    /\ \A k \in DOMAIN tasks : tasks[k].job = c =>
         \E u \in upstreams[c] : \E i \in DOMAIN tasks :
             IsLatest(i, u) /\ CompletedAt(tasks[k]) < CompletedAt(tasks[i])

LEMMA WaitingMeans == TypeOK /\ Distinct => \A c \in Jobs : Waiting(c) <=> Outrun(c)
  <1> SUFFICES ASSUME TypeOK, Distinct, NEW c \in Jobs
               PROVE  Waiting(c) <=> Outrun(c)
    OBVIOUS
  <1>1. upstreams[c] \subseteq Jobs
    BY GraphAssumption DEF TypeOK
  <1>2. \A u \in upstreams[c] : Current[u] = LatestTask(u)
    BY <1>1 DEF Current
  <1>3. AllSucceeded(upstreams[c], Current) <=>
          /\ upstreams[c] # {}
          /\ \A u \in upstreams[c] : \E i \in DOMAIN tasks :
               IsLatest(i, u) /\ tasks[i].status = "success"
    BY <1>2, LatestOf DEF AllSucceeded
  <1>4. ASSUME AllSucceeded(upstreams[c], Current), NEW k \in DOMAIN tasks
        PROVE  CompletedAt(tasks[k]) < ReadyAt(upstreams[c], Current) <=>
                 \E u \in upstreams[c] : \E i \in DOMAIN tasks :
                     IsLatest(i, u) /\ CompletedAt(tasks[k]) < CompletedAt(tasks[i])
    <2>1. \E u \in upstreams[c] : Current[u] # {}
      BY <1>4 DEF AllSucceeded
    <2>2. now \in Nat /\ \A u \in upstreams[c] : \A t \in Current[u] :
            CompletedAt(t) \in Nat /\ CompletedAt(t) <= now
      BY <1>2, LatestOf, TaskRow DEF TypeOK
    <2>3. /\ ReadyAt(upstreams[c], Current) \in Nat
          /\ \A u \in upstreams[c] : \A t \in Current[u] : CompletedAt(t) <= ReadyAt(upstreams[c], Current)
          /\ \E u \in upstreams[c] : \E t \in Current[u] : CompletedAt(t) = ReadyAt(upstreams[c], Current)
      BY <2>1, <2>2, ReadyAtMax
    <2>4. CompletedAt(tasks[k]) \in Nat
      BY TaskRow
    <2> QED
      BY <1>2, <2>2, <2>3, <2>4, LatestOf
  <1>5. (\A t \in Mine(c) : CompletedAt(t) < ReadyAt(upstreams[c], Current)) <=>
        (\A k \in DOMAIN tasks : tasks[k].job = c =>
            CompletedAt(tasks[k]) < ReadyAt(upstreams[c], Current))
    BY DEF Mine
  <1> QED
    BY <1>3, <1>4, <1>5 DEF Waiting, Outrun

\* The same of the next state.
LEMMA WaitingMeansNext ==
    TypeOK' /\ Distinct' => \A c \in Jobs : Waiting(c)' <=> Outrun(c)'
  <1>1. (TypeOK /\ Distinct => \A c \in Jobs : Waiting(c) <=> Outrun(c))'
    BY WaitingMeans, PTL
  <1> QED
    BY <1>1

-----------------------------------------------------------------------------
(***************************************************************************)
(* What every step does to the table: stamps stay, only a pending task     *)
(* becomes a success, and then nobody has marked it.                       *)
(***************************************************************************)

Evolves ==
    /\ DOMAIN tasks \subseteq DOMAIN tasks' /\ now <= now'
    /\ \A i \in DOMAIN tasks :
         /\ tasks'[i].job = tasks[i].job /\ tasks'[i].created = tasks[i].created
         /\ tasks'[i].ready = tasks[i].ready /\ tasks'[i].after = tasks[i].after
         /\ tasks'[i].read = tasks[i].read
         /\ CompletedAt(tasks[i]) <= CompletedAt(tasks'[i])
         /\ tasks[i].status = "success" =>
              tasks'[i].status = "success" /\ tasks'[i].finished = tasks[i].finished
         /\ tasks'[i].status = "success" => tasks[i].status = "success" \/ ~tasks'[i].processed
    /\ \A i \in DOMAIN tasks' \ DOMAIN tasks : tasks'[i].status = "pending"

MarksNothing == \A i \in DOMAIN tasks : tasks'[i].processed => tasks[i].processed

TableStep == Table /\ Table' /\ Evolves

\* A job that was enabled or linked anew is named as dropped.
EditsAreDropped == \A c \in Jobs \ dropped' :
    upstreams'[c] = upstreams[c] /\ (c \in enabled' => c \in enabled)

LEMMA TaskRowNext ==
    ASSUME TypeOK', NEW i \in DOMAIN tasks'
    PROVE  /\ tasks'[i].job \in Jobs /\ tasks'[i].created \in Nat
           /\ CompletedAt(tasks'[i]) \in Nat
  <1>1. tasks'[i] \in Task
    BY DEF TypeOK
  <1>2. tasks'[i].job \in Jobs /\ tasks'[i].created \in Nat /\ tasks'[i].finished \in Nat
    BY <1>1 DEF Task
  <1> QED
    BY <1>2 DEF CompletedAt

LEMMA SameTable ==
    ASSUME TypeOK, tasks' = tasks, now' = now PROVE Evolves /\ MarksNothing
  <1>1. \A i \in DOMAIN tasks : CompletedAt(tasks[i]) <= CompletedAt(tasks[i])
    BY TaskRow
  <1>2. now <= now
    BY DEF TypeOK
  <1> QED
    BY <1>1, <1>2 DEF Evolves, MarksNothing

\* A success that is the latest of its job was there, and was the latest, before.
LEMMA LatestWas ==
    ASSUME TableStep, NEW u, NEW i \in DOMAIN tasks', IsLatest(i, u)',
           tasks'[i].status = "success"
    PROVE  i \in DOMAIN tasks /\ IsLatest(i, u)
  <1>1. i \in DOMAIN tasks
    BY DEF TableStep, Evolves
  <1> QED
    BY <1>1 DEF TableStep, Evolves, IsLatest

\* A step leaves a job waiting that was not only with an upstream's success still
\* to be observed.
LEMMA WaitStep ==
    ASSUME TableStep, NEW c \in Jobs, upstreams'[c] = upstreams[c],
           c \in enabled' => c \in enabled, Waiting(c)', ~Owed(c)'
    PROVE  Waiting(c)
  <1>1. Outrun(c)'
    BY WaitingMeansNext DEF TableStep, Table
  <1>2. ASSUME NEW u \in upstreams[c]
        PROVE  \E i \in DOMAIN tasks :
                 /\ i \in DOMAIN tasks' /\ IsLatest(i, u) /\ IsLatest(i, u)'
                 /\ tasks[i].status = "success"
                 /\ CompletedAt(tasks'[i]) = CompletedAt(tasks[i])
    <2>1. PICK i \in DOMAIN tasks' : IsLatest(i, u)' /\ tasks'[i].status = "success"
      BY <1>1 DEF Outrun
    <2>2. i \in DOMAIN tasks /\ IsLatest(i, u)
      BY <2>1, LatestWas
    <2>3. tasks'[i].job = u
      BY <2>1 DEF IsLatest
    <2>4. tasks'[i].processed
      BY <2>1, <2>3 DEF Owed, Unprocessed
    <2>5. tasks[i].status = "success"
      BY <2>1, <2>2, <2>4 DEF TableStep, Evolves
    <2>6. CompletedAt(tasks'[i]) = CompletedAt(tasks[i])
      BY <2>2, <2>5 DEF TableStep, Evolves, CompletedAt
    <2> QED
      BY <2>1, <2>2, <2>5, <2>6
  <1>3. ASSUME NEW k \in DOMAIN tasks, tasks[k].job = c
        PROVE  \E u \in upstreams[c] : \E i \in DOMAIN tasks :
                 IsLatest(i, u) /\ CompletedAt(tasks[k]) < CompletedAt(tasks[i])
    <2>1. /\ k \in DOMAIN tasks' /\ tasks'[k].job = c
          /\ CompletedAt(tasks[k]) <= CompletedAt(tasks'[k])
      BY <1>3 DEF TableStep, Evolves
    <2>2. PICK u \in upstreams[c], m \in DOMAIN tasks' :
            IsLatest(m, u)' /\ CompletedAt(tasks'[k]) < CompletedAt(tasks'[m])
      BY <1>1, <2>1 DEF Outrun
    <2>3. PICK i \in DOMAIN tasks :
                 /\ i \in DOMAIN tasks' /\ IsLatest(i, u) /\ IsLatest(i, u)'
                 /\ CompletedAt(tasks'[i]) = CompletedAt(tasks[i])
      BY <1>2
    <2>4. /\ tasks'[i].job = u /\ tasks'[m].job = u
          /\ tasks'[i].created <= tasks'[m].created /\ tasks'[m].created <= tasks'[i].created
      BY <2>2, <2>3 DEF IsLatest
    <2>5. tasks'[i].created \in Nat /\ tasks'[m].created \in Nat
      BY <2>3, TaskRowNext DEF TableStep, Table
    <2>6. m = i
      BY <2>3, <2>4, <2>5 DEF TableStep, Table, Distinct
    <2>7. CompletedAt(tasks[k]) \in Nat /\ CompletedAt(tasks'[k]) \in Nat /\ CompletedAt(tasks[i]) \in Nat
      BY <2>1, TaskRow, TaskRowNext DEF TableStep, Table
    <2> QED
      BY <2>1, <2>2, <2>3, <2>6, <2>7
  <1>4. Outrun(c)
    BY <1>1, <1>2, <1>3 DEF Outrun, TableStep
  <1> QED
    BY <1>4, WaitingMeans DEF TableStep, Table

LEMMA OwedStays ==
    ASSUME Evolves, MarksNothing, NEW c, upstreams'[c] = upstreams[c], Owed(c)
    PROVE  Owed(c)'
  BY DEF Evolves, MarksNothing, Owed, Unprocessed

LEMMA SnapshotStays ==
    ASSUME Snapshot, TypeOK, Evolves, TypeOK', latest' = latest, txn' \in {txn, 0},
           read' = read
    PROVE  Snapshot'
  <1> SUFFICES ASSUME NEW j \in Jobs, NEW t \in latest[j]
               PROVE  /\ t.created <= CompletedAt(t)
                      /\ txn' # 0 => CompletedAt(t) <= txn'
                      /\ \E i \in DOMAIN tasks' :
                           /\ tasks'[i].job = j /\ CompletedAt(t) <= CompletedAt(tasks'[i])
                           /\ t.status = "success" => /\ tasks'[i].status = "success"
                                                       /\ tasks'[i].finished = t.finished
                           /\ \A m \in 1..read : tasks'[m].job = j =>
                                tasks'[m].created <= tasks'[i].created
    BY DEF Snapshot, CompletedAt
  <1>1. PICK i \in DOMAIN tasks :
          /\ tasks[i].job = j /\ CompletedAt(t) <= CompletedAt(tasks[i])
          /\ t.status = "success" =>
               tasks[i].status = "success" /\ tasks[i].finished = t.finished
          /\ \A m \in 1..read : tasks[m].job = j => tasks[m].created <= tasks[i].created
    BY DEF Snapshot
  <1>2. /\ i \in DOMAIN tasks' /\ tasks'[i].job = j
        /\ CompletedAt(tasks[i]) <= CompletedAt(tasks'[i])
        /\ t.status = "success" => /\ tasks'[i].status = "success"
                                    /\ tasks'[i].finished = t.finished
    BY <1>1 DEF Evolves
  <1>3. /\ CompletedAt(t) \in Nat /\ CompletedAt(tasks[i]) \in Nat
        /\ CompletedAt(tasks'[i]) \in Nat
    <2>1. t \in Task
      BY DEF TypeOK
    <2> QED
      BY <1>2, <2>1, TaskRow, TaskRowNext DEF Task, CompletedAt
  <1>4. CompletedAt(t) <= CompletedAt(tasks'[i])
    BY <1>1, <1>2, <1>3
  <1>5. 1..read \subseteq DOMAIN tasks
    BY Positions
  <1>6. \A m \in 1..read : tasks'[m].job = j => tasks'[m].created <= tasks'[i].created
    BY <1>1, <1>5 DEF Evolves
  <1> QED
    BY <1>2, <1>4, <1>6 DEF Snapshot

LEMMA FollowedStays ==
    ASSUME Followed, TableStep, MarksNothing, latest' = latest, ToCome' \subseteq ToCome,
           \A c \in ToCome' : ups'[c] = ups[c]
    PROVE  Followed'
  <1> SUFFICES ASSUME NEW c \in ToCome', NEW u \in ups[c], NEW i \in DOMAIN tasks',
                      IsLatest(i, u)', tasks'[i].status = "success", tasks'[i].processed
               PROVE  \E t \in latest[u] :
                        t.status = "success" /\ t.finished = tasks'[i].finished
    BY DEF Followed
  <1>1. i \in DOMAIN tasks /\ IsLatest(i, u)
    BY LatestWas
  <1>2. tasks[i].status = "success" /\ tasks[i].processed /\ tasks'[i].finished = tasks[i].finished
    BY <1>1 DEF TableStep, Evolves, MarksNothing
  <1> QED
    BY <1>1, <1>2 DEF Followed

\* A waiting job is forgotten by no step that evaluates only jobs that are owed an
\* evaluation anyway.
LEMMA NoneForgottenStays ==
    ASSUME NoneForgotten, TableStep, MarksNothing, EditsAreDropped,
           \A c \in (dropped \cup Evaluating) \ (dropped' \cup Evaluating') :
               Waiting(c) => Owed(c)
    PROVE  NoneForgotten'
  <1> SUFFICES ASSUME NEW c \in Jobs \ dropped', Waiting(c)', ~Owed(c)'
               PROVE  c \in Evaluating'
    BY DEF NoneForgotten
  <1>1. Waiting(c)
    BY WaitStep DEF EditsAreDropped
  <1>2. ~Owed(c)
    BY OwedStays DEF TableStep, EditsAreDropped
  <1> QED
    BY <1>1, <1>2 DEF NoneForgotten

\* Runs that were not created for a generation leave the generations alone.
LEMMA GenerationsStay ==
    ASSUME OncePerGeneration, RunsAfterAllUpstreams, TypeOK, Rows, Evolves,
           \A i \in DOMAIN tasks' \ DOMAIN tasks : tasks'[i].ready = 0
    PROVE  OncePerGeneration' /\ RunsAfterAllUpstreams'
  <1>1. OncePerGeneration'
    BY DEF OncePerGeneration, Evolves
  <1>2. RunsAfterAllUpstreams'
    <2> SUFFICES ASSUME NEW k \in DOMAIN tasks', tasks'[k].ready # 0,
                        NEW u \in tasks'[k].after
                 PROVE  \E i \in DOMAIN tasks' :
                          /\ tasks'[i].job = u /\ tasks'[i].status = "success"
                          /\ tasks'[i].finished <= tasks'[k].ready
                          /\ \A m \in 1 .. tasks'[k].read :
                               tasks'[m].job = u => tasks'[m].created <= tasks'[i].created
      BY DEF RunsAfterAllUpstreams
    <2>1. /\ k \in DOMAIN tasks /\ tasks'[k].ready = tasks[k].ready
          /\ tasks'[k].after = tasks[k].after /\ tasks'[k].read = tasks[k].read
          /\ 1..tasks[k].read \subseteq DOMAIN tasks
      BY DEF Evolves, Rows
    <2>2. PICK i \in DOMAIN tasks :
            /\ tasks[i].job = u /\ tasks[i].status = "success"
            /\ tasks[i].finished <= tasks[k].ready
            /\ \A m \in 1 .. tasks[k].read :
                 tasks[m].job = u => tasks[m].created <= tasks[i].created
      BY <2>1 DEF RunsAfterAllUpstreams
    <2> QED
      BY <2>1, <2>2 DEF Evolves
  <1> QED
    BY <1>1, <1>2

-----------------------------------------------------------------------------
(* The jobs' other runs. *)

LEMMA AppendShape ==
    ASSUME TypeOK, NEW t \in Task, tasks' = Append(tasks, t)
    PROVE  /\ tasks' \in Seq(Task) /\ DOMAIN tasks' = DOMAIN tasks \cup {Len(tasks')}
           /\ Len(tasks') = Len(tasks) + 1 /\ Len(tasks) \in Nat
           /\ DOMAIN tasks = 1..Len(tasks) /\ Len(tasks') \notin DOMAIN tasks
           /\ tasks'[Len(tasks')] = t /\ \A i \in DOMAIN tasks : tasks'[i] = tasks[i]
  BY DEF TypeOK

LEMMA UpdateShape ==
    ASSUME TypeOK, NEW i \in DOMAIN tasks, NEW r \in Task, tasks' = [tasks EXCEPT ![i] = r]
    PROVE  /\ tasks' \in Seq(Task) /\ Len(tasks') = Len(tasks)
           /\ DOMAIN tasks' = DOMAIN tasks /\ tasks'[i] = r
           /\ \A k \in DOMAIN tasks : k # i => tasks'[k] = tasks[k]
  <1>1. tasks \in Seq(Task) /\ DOMAIN tasks' = DOMAIN tasks
    BY DEF TypeOK
  <1>2. tasks' \in Seq(Task)
    BY <1>1
  <1> QED
    BY <1>1, <1>2

\* Appending a pending task.
LEMMA AppendEvolves ==
    ASSUME Table, NEW t \in Task, t.status = "pending", t.finished = 0, ~t.processed,
           t.ready <= t.created, t.created <= now', tasks' = Append(tasks, t),
           now' \in Nat, now <= now', 1..t.read \subseteq DOMAIN tasks,
           \A i \in DOMAIN tasks : tasks[i].job = t.job => tasks[i].created # t.created
    PROVE  /\ Evolves /\ MarksNothing /\ Rows' /\ Distinct'
           /\ \A i \in DOMAIN tasks' : CompletedAt(tasks'[i]) \in tasks'[i].created..now'
  <1>1. /\ DOMAIN tasks' = DOMAIN tasks \cup {Len(tasks')}
        /\ Len(tasks') \notin DOMAIN tasks
        /\ tasks'[Len(tasks')] = t /\ \A i \in DOMAIN tasks : tasks'[i] = tasks[i]
    BY AppendShape DEF Table
  <1>2. \A i \in DOMAIN tasks : /\ CompletedAt(tasks[i]) \in Nat /\ tasks[i].created \in Nat
                                /\ CompletedAt(tasks[i]) <= CompletedAt(tasks[i])
                                /\ tasks[i].created <= CompletedAt(tasks[i])
                                /\ CompletedAt(tasks[i]) <= now'
    BY TaskRow DEF Table, TypeOK
  <1>3. Evolves /\ MarksNothing
    BY <1>1, <1>2 DEF Evolves, MarksNothing
  <1>4. Rows'
    BY <1>1 DEF Rows, Table
  <1>5. Distinct'
    BY <1>1 DEF Distinct, Table
  <1>6. CompletedAt(t) = t.created /\ t.created \in Nat
    BY DEF CompletedAt, Task
  <1>7. \A i \in DOMAIN tasks' : CompletedAt(tasks'[i]) \in tasks'[i].created..now'
    BY <1>1, <1>2, <1>6
  <1> QED
    BY <1>3, <1>4, <1>5, <1>7

\* Steps beside the cycle.
LEMMA BesideStep ==
    ASSUME DependencyInv, Table', Evolves, MarksNothing, EditsAreDropped,
           UNCHANGED cycleVars, dropped \subseteq dropped',
           \A i \in DOMAIN tasks' \ DOMAIN tasks :
               tasks'[i].ready = 0 /\ tasks'[i].created > now
    PROVE  DependencyInv'
  <1> USE DEF cycleVars
  <1>1. TableStep
    BY DEF TableStep, DependencyInv
  <1>2. pc = "send" => made \in DOMAIN tasks /\ tasks'[made].job = tasks[made].job
    BY DEF DependencyInv, Table, TypeOK, Evolves
  <1>3. ToCome' = ToCome /\ Evaluating' = Evaluating
    BY <1>2 DEF ToCome, Evaluating
  <1>4. Snapshot'
    BY SnapshotStays DEF DependencyInv, Reading, Table
  <1>5. Seen'
    <2> SUFFICES ASSUME NEW c \in ToCome, NEW i \in DOMAIN tasks', tasks'[i].job = c
                 PROVE  \/ \E t \in latest[c] : tasks'[i].created <= t.created
                        \/ tasks'[i].ready = 0 /\ tasks'[i].created > txn
      BY <1>3 DEF Seen
    <2>1. CASE i \in DOMAIN tasks
      BY <2>1 DEF Seen, DependencyInv, Reading, Evolves
    <2>2. CASE i \notin DOMAIN tasks
      <3>1. tasks'[i].created \in Nat /\ now \in Nat /\ txn \in Nat /\ txn <= now
        BY TaskRowNext DEF DependencyInv, Table, TypeOK
      <3> QED
        BY <2>2, <3>1
    <2> QED
      BY <2>1, <2>2
  <1>6. Followed'
    BY <1>1, <1>3, FollowedStays DEF DependencyInv, Reading
  <1>7. Batched' /\ Linked'
    <2>1. Linked'
      BY DEF DependencyInv, Reading, Linked, Table, TypeOK, EditsAreDropped
    <2>2. ASSUME NEW i \in batch
          PROVE  /\ tasks'[i].status = "success"
                 /\ Downstream(tasks[i].job)' \cap enabled' \subseteq candidates \cup dropped'
      <3>1. /\ i \in DOMAIN tasks /\ tasks[i].status = "success"
            /\ Downstream(tasks[i].job) \cap enabled \subseteq candidates \cup dropped
        BY DEF DependencyInv, Reading, Batched, Table, TypeOK
      <3>2. tasks'[i].status = "success" /\ tasks'[i].job = tasks[i].job
        BY <3>1 DEF Evolves
      <3>3. ASSUME NEW c \in Jobs \ dropped', c \in enabled', tasks[i].job \in upstreams'[c]
            PROVE  c \in candidates
        BY <3>1, <3>3 DEF Downstream, EditsAreDropped
      <3> QED
        BY <3>2, <3>3 DEF Downstream
    <2> QED
      BY <2>1, <2>2 DEF DependencyInv, Reading, Batched
  <1>8. NoneForgotten'
    BY <1>1, <1>3, NoneForgottenStays DEF DependencyInv, Chaining
  <1>9. MadeCovers'
    <2> SUFFICES ASSUME pc = "send", NEW u \in ups[tasks[made].job], NEW i \in DOMAIN tasks',
                        IsLatest(i, u)', tasks'[i].status = "success", tasks'[i].processed
                 PROVE  CompletedAt(tasks'[i]) <= CompletedAt(tasks'[made])
      BY <1>2 DEF MadeCovers, CompletedAt
    <2>1. i \in DOMAIN tasks /\ IsLatest(i, u)
      BY <1>1, LatestWas
    <2>2. tasks[i].status = "success" /\ tasks[i].processed /\ tasks'[i].finished = tasks[i].finished
      BY <2>1 DEF Evolves, MarksNothing
    <2>3. CompletedAt(tasks'[i]) = CompletedAt(tasks[i])
      BY <2>1, <2>2 DEF Evolves, CompletedAt
    <2>4. CompletedAt(tasks[i]) <= CompletedAt(tasks[made])
      BY <2>1, <2>2 DEF DependencyInv, Chaining, MadeCovers
    <2>5. CompletedAt(tasks[made]) <= CompletedAt(tasks'[made]) /\ made \in DOMAIN tasks'
      BY <1>2 DEF Evolves
    <2>6. /\ CompletedAt(tasks[i]) \in Nat /\ CompletedAt(tasks[made]) \in Nat
          /\ CompletedAt(tasks'[made]) \in Nat
      BY <1>2, <2>1, <2>5, TaskRow, TaskRowNext DEF DependencyInv, Table
    <2> QED
      BY <2>3, <2>4, <2>5, <2>6
  <1>10. OncePerGeneration' /\ RunsAfterAllUpstreams'
    BY GenerationsStay DEF DependencyInv, Table
  <1> QED
    BY <1>4, <1>5, <1>6, <1>7, <1>8, <1>9, <1>10 DEF DependencyInv, Reading, Chaining

LEMMA NewTaskRow ==
    ASSUME NEW j \in Jobs, NEW n \in Nat, NEW r \in Nat, NEW U \in SUBSET Jobs, NEW k \in Nat
    PROVE  LET t == NewTask(j, n, r, U, k)
           IN  /\ t \in Task /\ t.job = j /\ t.status = "pending" /\ t.created = n
               /\ t.finished = 0 /\ ~t.processed /\ t.ready = r /\ t.after = U /\ t.read = k
  <1>1. FALSE \in BOOLEAN /\ 0 \in Nat
    OBVIOUS
  <1>2. NewTask(j, n, r, U, k) \in Task
    BY <1>1, Zenon DEF NewTask, Task
  <1> QED
    BY <1>2 DEF NewTask

\* A run that is started beside the cycle, by itself or with an update.
LEMMA StartStep ==
    ASSUME DependencyInv, NEW j \in Jobs, Start(j), EditsAreDropped,
           UNCHANGED <<cycleVars, faults>>, dropped \subseteq dropped', dropped' \subseteq Jobs,
           enabled' \subseteq Jobs, upstreams' \in Graphs, updates' \in 0..MaxUpdates
    PROVE  DependencyInv'
  <1> DEFINE new == NewTask(j, now + 1, 0, {}, 0)
             t == [new EXCEPT !.sent = TRUE]
  <1>1. now \in Nat /\ now' = now + 1 /\ tasks' = Append(tasks, t)
    BY DEF Start, DependencyInv, Table, TypeOK
  <1>2. /\ new \in Task /\ new.job = j /\ new.status = "pending" /\ new.created = now + 1
        /\ new.finished = 0 /\ ~new.processed /\ new.ready = 0 /\ new.read = 0
    BY <1>1, NewTaskRow
  <1> HIDE DEF new
  <1>3. t \in Task
    <2>1. TRUE \in BOOLEAN
      OBVIOUS
    <2> QED
      BY <1>2, <2>1, Zenon DEF Task
  <1>4. /\ t.job = j /\ t.status = "pending" /\ t.created = now + 1
        /\ t.finished = 0 /\ ~t.processed /\ t.ready = 0 /\ 1..t.read \subseteq DOMAIN tasks
    BY <1>2 DEF Task
  <1> HIDE DEF t
  <1>5. \A i \in DOMAIN tasks : tasks[i].created # now + 1
    BY <1>1, TaskRow DEF DependencyInv, Table
  <1>6. /\ Evolves /\ MarksNothing /\ Rows' /\ Distinct'
        /\ \A i \in DOMAIN tasks' : CompletedAt(tasks'[i]) \in tasks'[i].created..now'
    BY <1>1, <1>3, <1>4, <1>5, AppendEvolves DEF DependencyInv
  <1>7. /\ tasks' \in Seq(Task) /\ DOMAIN tasks' = DOMAIN tasks \cup {Len(tasks')}
        /\ Len(tasks') = Len(tasks) + 1 /\ Len(tasks) \in Nat
        /\ tasks'[Len(tasks')] = t /\ \A i \in DOMAIN tasks : tasks'[i] = tasks[i]
    BY <1>1, <1>3, AppendShape DEF DependencyInv, Table
  <1>8. triggers' \in 0..MaxTriggers
    BY BoundAssumption DEF Start, DependencyInv, Table, TypeOK
  <1>9. txn' \in 0..now' /\ made' \in 0..Len(tasks') /\ read' \in 0..Len(tasks')
    <2>1. txn' = txn /\ made' = made /\ read' = read
      BY DEF cycleVars
    <2>2. txn \in 0..now /\ made \in 0..Len(tasks) /\ read \in 0..Len(tasks)
      BY Positions DEF DependencyInv, Table
    <2> QED
      BY <1>1, <1>7, <2>1, <2>2
  <1>10. TypeOK'
    <2>1. TypeOK /\ cycleVars' = cycleVars /\ faults' = faults
      BY Zenon DEF DependencyInv, Table
    <2>2. /\ batch' \subseteq DOMAIN tasks' /\ candidates' \subseteq Jobs
          /\ pc' \in {"idle", "mark", "latest", "dispatch", "send"}
          /\ ups' \in [Jobs -> SUBSET Jobs] /\ latest' \in [Jobs -> SUBSET Task]
          /\ \A u \in Jobs : Cardinality(latest'[u]) <= 1
          /\ pc' = "idle" => batch' = {} /\ candidates' = {} /\ txn' = 0
          /\ faults' \in 0..MaxFaults
      BY <1>7, <2>1 DEF cycleVars, TypeOK
    <2>3. pc' = "send" => made' \in DOMAIN tasks' /\ tasks'[made'].job \in candidates'
      BY <1>7, <2>1 DEF cycleVars, TypeOK
    <2>4. now' \in Nat
      BY <1>1
    <2> QED
      BY <1>6, <1>7, <1>8, <1>9, <2>2, <2>3, <2>4, Zenon DEF TypeOK
  <1>11. \A i \in DOMAIN tasks' \ DOMAIN tasks : tasks'[i].ready = 0 /\ tasks'[i].created > now
    BY <1>1, <1>4, <1>7
  <1> QED
    BY <1>6, <1>10, <1>11, BesideStep DEF Table

LEMMA TriggerStep ==
    ASSUME DependencyInv, NEW j \in Jobs, Trigger(j) PROVE DependencyInv'
  <1>1. Start(j) /\ UNCHANGED <<enabled, upstreams, updates, cycleVars, faults, dropped>>
    BY DEF Trigger
  <1>2. EditsAreDropped
    BY <1>1 DEF EditsAreDropped
  <1> QED
    BY <1>1, <1>2, StartStep DEF DependencyInv, Table, TypeOK

\* An update names the jobs that it enables or links anew as dropped.
LEMMA UpdateStep ==
    ASSUME DependencyInv, NEW j \in Jobs, NEW on \in BOOLEAN, NEW g \in Graphs,
           UpdateJob(j, on, g)
    PROVE  DependencyInv'
  <1>1. /\ UNCHANGED <<cycleVars, faults>> /\ upstreams' = g
        /\ enabled' = IF on THEN enabled \cup {j} ELSE enabled \ {j}
        /\ dropped' = dropped \cup (enabled' \ enabled) \cup {c \in Jobs : g[c] # upstreams[c]}
        /\ Start(j) \/ UNCHANGED <<now, tasks, triggers>>
    BY DEF UpdateJob
  <1>2. updates' \in 0..MaxUpdates
    BY BoundAssumption DEF UpdateJob, DependencyInv, Table, TypeOK
  <1>3. EditsAreDropped
    BY <1>1 DEF EditsAreDropped
  <1>4. /\ enabled' \subseteq Jobs /\ dropped \subseteq dropped' /\ dropped' \subseteq Jobs
        /\ upstreams' \in Graphs
    BY <1>1 DEF DependencyInv, Table, TypeOK
  <1>5. CASE Start(j)
    BY <1>1, <1>2, <1>3, <1>4, <1>5, StartStep
  <1>6. CASE UNCHANGED <<now, tasks, triggers>>
    <2>1. Evolves /\ MarksNothing
      BY <1>6, SameTable DEF DependencyInv, Table
    <2>2. TypeOK'
      BY <1>1, <1>2, <1>4, <1>6 DEF cycleVars, DependencyInv, Table, TypeOK
    <2>3. Table'
      BY <1>6, <2>2 DEF DependencyInv, Table, Rows, Distinct
    <2> QED
      BY <1>1, <1>3, <1>4, <1>6, <2>1, <2>3, BesideStep
  <1> QED
    BY <1>1, <1>5, <1>6

LEMMA FinishStep ==
    ASSUME DependencyInv, NEW i \in DOMAIN tasks, NEW s \in {"success", "failed"}, Finish(i, s)
    PROVE  DependencyInv'
  <1>1. /\ now \in Nat /\ now' = now + 1 /\ tasks[i].status = "pending"
        /\ tasks' = [tasks EXCEPT ![i].status = s, ![i].finished = now + 1]
        /\ UNCHANGED <<envVars, cycleVars, faults, dropped>>
    BY DEF Finish, DependencyInv, Table, TypeOK
  <1> DEFINE r == [[tasks[i] EXCEPT !.status = s] EXCEPT !.finished = now + 1]
  <1>2. tasks[i] \in Task
    BY TaskRow DEF DependencyInv, Table
  <1>3. r \in Task
    <2>1. now + 1 \in Nat /\ s \in {"pending", "success", "failed"}
      BY <1>1
    <2> QED
      BY <1>2, <2>1, Zenon DEF Task
  <1>4. /\ r.job = tasks[i].job /\ r.status = s /\ r.created = tasks[i].created
        /\ r.finished = now + 1 /\ r.ready = tasks[i].ready
        /\ r.processed = tasks[i].processed
        /\ r.after = tasks[i].after /\ r.read = tasks[i].read
    BY <1>2 DEF Task
  <1>5. tasks' = [tasks EXCEPT ![i] = r]
    BY <1>1
  <1> HIDE DEF r
  <1>6. /\ tasks' \in Seq(Task) /\ Len(tasks') = Len(tasks)
        /\ DOMAIN tasks' = DOMAIN tasks /\ tasks'[i] = r
        /\ \A k \in DOMAIN tasks : k # i => tasks'[k] = tasks[k]
    BY <1>3, <1>5, UpdateShape DEF DependencyInv, Table
  <1>7. tasks[i].finished = 0 /\ ~tasks[i].processed
    BY <1>1 DEF DependencyInv, Table, Rows
  <1>8. \A k \in DOMAIN tasks : /\ tasks[k].created \in Nat /\ CompletedAt(tasks[k]) \in Nat
                                /\ tasks[k].created <= CompletedAt(tasks[k])
                                /\ CompletedAt(tasks[k]) <= now
    BY TaskRow DEF DependencyInv, Table
  <1>9. CompletedAt(r) = now + 1
    BY <1>1, <1>4 DEF CompletedAt
  <1>10. Evolves /\ MarksNothing
    <2>1. \A k \in DOMAIN tasks : CompletedAt(tasks[k]) <= CompletedAt(tasks'[k])
      BY <1>1, <1>6, <1>8, <1>9
    <2>2. now <= now'
      BY <1>1
    <2> QED
      BY <1>1, <1>6, <1>4, <1>7, <2>1, <2>2 DEF Evolves, MarksNothing
  <1>11. Rows' /\ Distinct'
    <2>1. Rows'
      BY <1>1, <1>6, <1>4, <1>7 DEF DependencyInv, Table, Rows
    <2>2. Distinct'
      BY <1>6, <1>4 DEF DependencyInv, Table, Distinct
    <2> QED
      BY <2>1, <2>2
  <1>12. \A k \in DOMAIN tasks' : CompletedAt(tasks'[k]) \in tasks'[k].created..now'
    <2> SUFFICES ASSUME NEW k \in DOMAIN tasks
                 PROVE  CompletedAt(tasks'[k]) \in tasks'[k].created..now'
      BY <1>6
    <2>1. CASE k = i
      BY <1>1, <1>6, <1>4, <1>8, <1>9, <2>1
    <2>2. CASE k # i
      BY <1>1, <1>6, <1>8, <2>2
    <2> QED
      BY <2>1, <2>2
  <1>13. txn' \in 0..now' /\ made' \in 0..Len(tasks') /\ read' \in 0..Len(tasks')
    BY <1>1, <1>6 DEF cycleVars, DependencyInv, Table, TypeOK
  <1>14. pc' = "send" => made' \in DOMAIN tasks' /\ tasks'[made'].job \in candidates'
    BY <1>1, <1>10 DEF cycleVars, DependencyInv, Table, TypeOK, Evolves
  <1>15. TypeOK'
    <2>1. UNCHANGED <<enabled, upstreams, pc, batch, candidates, ups, latest, txn, triggers,
                      updates, faults, dropped>>
      BY <1>1 DEF cycleVars, envVars
    <2>2. now' \in Nat /\ batch' \subseteq DOMAIN tasks'
      BY <1>1, <1>6, <2>1 DEF DependencyInv, Table, TypeOK
    <2> QED
      BY <1>6, <1>12, <1>13, <1>14, <2>1, <2>2 DEF DependencyInv, Table, TypeOK
  <1>16. EditsAreDropped
    BY <1>1 DEF EditsAreDropped, envVars
  <1> QED
    BY <1>1, <1>6, <1>10, <1>11, <1>15, <1>16, BesideStep DEF Table

-----------------------------------------------------------------------------
(* The cycle up to the snapshot. *)

LEMMA LoadStep ==
    ASSUME DependencyInv, pc = "idle",
           NEW S \in SUBSET {i \in DOMAIN tasks : tasks[i].status = "success"}, Load(S),
           UNCHANGED <<now, tasks, envVars, latest, made, txn, read, dropped>>,
           faults' \in 0..MaxFaults
    PROVE  DependencyInv'
  <1> USE DEF envVars
  <1>1. /\ batch' \subseteq S /\ pc' = "mark" /\ candidates' \subseteq Jobs
        /\ ups' \in [Jobs -> SUBSET Jobs] /\ \A c \in candidates' : ups'[c] = upstreams[c]
    <2>1. upstreams \in [Jobs -> SUBSET Jobs]
      BY GraphAssumption DEF DependencyInv, Table, TypeOK
    <2> QED
      BY <2>1 DEF Load, Oldest, Downstream
  <1>2. \A i \in batch' : Downstream(tasks[i].job) \cap enabled \subseteq candidates'
    BY DEF Load
  <1>3. TypeOK'
    BY <1>1 DEF DependencyInv, Table, TypeOK
  <1>4. Table'
    BY <1>3 DEF DependencyInv, Table, Rows, Distinct
  <1>5. Evolves /\ MarksNothing
    BY SameTable DEF DependencyInv, Table
  <1>6. TableStep
    BY <1>4, <1>5 DEF TableStep, DependencyInv
  <1>7. ToCome = {} /\ ToCome' = {} /\ Evaluating = {}
    BY <1>1 DEF ToCome, Evaluating
  <1>8. Snapshot'
    BY <1>3, <1>5, SnapshotStays DEF DependencyInv, Reading, Table
  <1>9. Seen' /\ Followed' /\ MadeCovers'
    BY <1>1, <1>7 DEF Seen, Followed, MadeCovers
  <1>10. Batched' /\ Linked'
    BY <1>1, <1>2 DEF DependencyInv, Table, TypeOK, Batched, Downstream, Linked
  <1>11. NoneForgotten'
    BY <1>5, <1>6, <1>7, NoneForgottenStays DEF DependencyInv, Chaining, EditsAreDropped
  <1>12. OncePerGeneration' /\ RunsAfterAllUpstreams'
    BY <1>5, GenerationsStay DEF DependencyInv, Table
  <1> QED
    BY <1>4, <1>8, <1>9, <1>10, <1>11, <1>12 DEF DependencyInv, Reading, Chaining

\* A job is waiting for the evaluation of this cycle when the success it was owed
\* is marked.
LEMMA MarkStep ==
    ASSUME DependencyInv, NEW i \in DOMAIN tasks, MarkProcessed(i) PROVE DependencyInv'
  <1> DEFINE r == [tasks[i] EXCEPT !.processed = TRUE]
  <1>1. /\ pc = "mark" /\ i \in batch /\ batch' = batch \ {i}
        /\ pc' = IF batch' # {} THEN "mark" ELSE IF candidates = {} THEN "idle" ELSE "latest"
        /\ tasks' = [tasks EXCEPT ![i] = r]
        /\ UNCHANGED <<now, envVars, candidates, ups, latest, made, txn, read, faults, dropped>>
    BY DEF MarkProcessed
  <1>2. tasks[i] \in Task /\ tasks[i].status = "success"
    BY <1>1, TaskRow DEF DependencyInv, Table, Reading, Batched
  <1>3. r \in Task
    <2>1. TRUE \in BOOLEAN
      OBVIOUS
    <2> QED
      BY <1>2, <2>1, Zenon DEF Task
  <1>4. /\ r.job = tasks[i].job /\ r.status = "success" /\ r.created = tasks[i].created
        /\ r.finished = tasks[i].finished /\ r.ready = tasks[i].ready
        /\ r.after = tasks[i].after /\ r.read = tasks[i].read
    BY <1>2 DEF Task
  <1> HIDE DEF r
  <1>5. /\ tasks' \in Seq(Task) /\ Len(tasks') = Len(tasks)
        /\ DOMAIN tasks' = DOMAIN tasks /\ tasks'[i] = r
        /\ \A k \in DOMAIN tasks : k # i => tasks'[k] = tasks[k]
    BY <1>1, <1>3, UpdateShape DEF DependencyInv, Table
  <1>6. \A k \in DOMAIN tasks :
          /\ tasks'[k].job = tasks[k].job /\ tasks'[k].status = tasks[k].status
          /\ tasks'[k].created = tasks[k].created /\ tasks'[k].ready = tasks[k].ready
          /\ tasks'[k].after = tasks[k].after /\ tasks'[k].read = tasks[k].read
          /\ tasks'[k].finished = tasks[k].finished
          /\ CompletedAt(tasks'[k]) = CompletedAt(tasks[k])
    BY <1>2, <1>4, <1>5 DEF CompletedAt
  <1>7. Evolves
    <2>1. \A k \in DOMAIN tasks : CompletedAt(tasks[k]) <= CompletedAt(tasks'[k])
      BY <1>6, TaskRow DEF DependencyInv, Table
    <2>2. now <= now'
      BY <1>1 DEF DependencyInv, Table, TypeOK
    <2> QED
      BY <1>5, <1>6, <2>1, <2>2 DEF Evolves
  <1>8. Rows' /\ Distinct'
    <2>1. Rows'
      BY <1>2, <1>5, <1>6 DEF DependencyInv, Table, Rows
    <2>2. Distinct'
      BY <1>5, <1>6 DEF DependencyInv, Table, Distinct
    <2> QED
      BY <2>1, <2>2
  <1>9. TypeOK'
    <2>1. pc' # "send" /\ batch' \subseteq DOMAIN tasks' /\ (pc' = "idle" => batch' = {} /\ candidates' = {})
          /\ pc' \in {"idle", "mark", "latest", "dispatch", "send"}
      BY <1>1, <1>5 DEF DependencyInv, Table, TypeOK
    <2>2. \A k \in DOMAIN tasks' : CompletedAt(tasks'[k]) \in tasks'[k].created..now'
      BY <1>1, <1>5, <1>6 DEF DependencyInv, Table, TypeOK
    <2>3. txn' = txn /\ txn = 0
      BY <1>1 DEF DependencyInv, Reading, Batched
    <2> QED
      BY <1>1, <1>5, <2>1, <2>2, <2>3 DEF envVars, DependencyInv, Table, TypeOK
  <1>10. ToCome = {} /\ ToCome' = {} /\ Evaluating = candidates
    BY <1>1 DEF ToCome, Evaluating
  <1>11. Snapshot'
    BY <1>1, <1>7, <1>9, SnapshotStays DEF DependencyInv, Reading, Table
  <1>12. Seen' /\ Followed' /\ MadeCovers'
    BY <1>1, <1>10 DEF Seen, Followed, MadeCovers
  <1>13. Batched' /\ Linked'
    <2>1. pc' # "mark" => batch' = {}
      BY <1>1
    <2>2. Batched'
      BY <1>1, <1>5, <1>6, <2>1
         DEF envVars, DependencyInv, Table, TypeOK, Reading, Batched, Downstream
    <2> QED
      BY <1>1, <2>2 DEF envVars, DependencyInv, Reading, Linked
  <1>14. NoneForgotten'
    <2> SUFFICES ASSUME NEW c \in Jobs, Waiting(c)', ~Owed(c)'
                 PROVE  c \in dropped' \cup Evaluating'
      BY DEF NoneForgotten
    <2>1. TableStep
      BY <1>1, <1>7, <1>8, <1>9 DEF TableStep, DependencyInv, Table
    <2>2. Waiting(c)
      BY <1>1, <2>1, WaitStep DEF envVars
    <2>3. CASE Owed(c)
      <3>1. PICK k \in Unprocessed : tasks[k].job \in upstreams[c]
        BY <2>3 DEF Owed
      <3>2. k = i
        BY <1>1, <1>5, <3>1 DEF Owed, Unprocessed, envVars
      <3>3. c \in candidates \cup dropped
        BY <1>1, <2>2, <3>1, <3>2 DEF DependencyInv, Reading, Batched, Downstream, Waiting
      <3> QED
        BY <1>1, <3>3 DEF Evaluating
    <2>4. CASE c \in candidates
      BY <1>1, <2>4 DEF Evaluating
    <2>5. CASE c \in dropped
      BY <1>1, <2>5
    <2> QED
      BY <1>10, <2>2, <2>3, <2>4, <2>5 DEF DependencyInv, Chaining, NoneForgotten
  <1>15. OncePerGeneration' /\ RunsAfterAllUpstreams'
    BY <1>5, <1>7, GenerationsStay DEF DependencyInv, Table
  <1> QED
    BY <1>8, <1>9, <1>11, <1>12, <1>13, <1>14, <1>15
       DEF DependencyInv, Table, Reading, Chaining

LEMMA ReadLatestStep == DependencyInv /\ ReadLatest => DependencyInv'
  <1> SUFFICES ASSUME DependencyInv, ReadLatest PROVE DependencyInv'
    OBVIOUS
  <1> DEFINE wanted == candidates \cup UNION {ups[c] : c \in candidates}
  <1>1. /\ pc = "latest" /\ pc' = "dispatch" /\ txn' = now /\ read' = Len(tasks)
        /\ latest' = [j \in Jobs |-> IF j \in wanted THEN LatestTask(j) ELSE {}]
        /\ UNCHANGED <<now, tasks, envVars, batch, candidates, ups, made, faults, dropped>>
    BY DEF ReadLatest
  <1>2. /\ \A c \in candidates : c \in wanted /\ c \in Jobs
        /\ \A c \in candidates : \A u \in ups[c] : u \in wanted /\ u \in Jobs
    BY DEF DependencyInv, Table, TypeOK
  <1> HIDE DEF wanted
  <1>3. ASSUME NEW j \in Jobs
        PROVE  latest'[j] \subseteq LatestTask(j) /\ Cardinality(latest'[j]) <= 1
    <2>1. CASE j \in wanted
      BY <1>1, <2>1, LatestIsSmall DEF DependencyInv, Table
    <2>2. CASE j \notin wanted
      BY <1>1, <2>2, FS_EmptySet
    <2> QED
      BY <2>1, <2>2
  <1>4. \A j \in Jobs : \A t \in latest'[j] : \E i \in DOMAIN tasks : t = tasks[i] /\ IsLatest(i, j)
    BY <1>3, LatestOf
  <1>5. TypeOK'
    <2>1. latest' \in [Jobs -> SUBSET Task]
      BY <1>1, <1>4, TaskRow DEF DependencyInv, Table
    <2>2. txn' \in 0..now' /\ read' \in 0..Len(tasks')
      BY <1>1 DEF DependencyInv, Table, TypeOK
    <2> QED
      BY <1>1, <1>3, <2>1, <2>2 DEF envVars, DependencyInv, Table, TypeOK
  <1>6. Table'
    BY <1>1, <1>5 DEF DependencyInv, Table, Rows, Distinct
  <1>7. Evolves /\ MarksNothing /\ TableStep
    BY <1>1, <1>6, SameTable DEF DependencyInv, Table, TableStep, envVars
  <1>8. ToCome' = candidates /\ Evaluating = candidates /\ Evaluating' = candidates
    BY <1>1 DEF ToCome, Evaluating
  <1>9. Snapshot'
    <2> SUFFICES ASSUME NEW j \in Jobs, NEW t \in latest'[j]
                 PROVE  /\ t.created <= CompletedAt(t) /\ CompletedAt(t) <= now
                        /\ \E i \in DOMAIN tasks :
                             /\ t = tasks[i] /\ tasks[i].job = j /\ CompletedAt(t) <= CompletedAt(t)
                             /\ \A m \in 1..Len(tasks) : tasks[m].job = j =>
                                  tasks[m].created <= tasks[i].created
      BY <1>1 DEF Snapshot, CompletedAt
    <2>1. PICK i \in DOMAIN tasks : t = tasks[i] /\ IsLatest(i, j)
      BY <1>4
    <2>2. 1..Len(tasks) = DOMAIN tasks
      BY DEF DependencyInv, Table, TypeOK
    <2> QED
      BY <2>1, <2>2, TaskRow DEF DependencyInv, Table, IsLatest
  <1>10. Seen'
    <2> SUFFICES ASSUME NEW c \in candidates, NEW i \in DOMAIN tasks, tasks[i].job = c
                 PROVE  \E t \in latest'[c] : tasks[i].created <= t.created
      BY <1>1, <1>8 DEF Seen
    <2>1. PICK k \in DOMAIN tasks : IsLatest(k, c)
      BY LatestExists DEF DependencyInv, Table
    <2>2. tasks[k] \in latest'[c]
      BY <1>1, <1>2, <2>1, LatestOf
    <2> QED
      BY <2>1, <2>2 DEF IsLatest
  <1>11. Followed'
    <2> SUFFICES ASSUME NEW c \in candidates, NEW u \in ups[c], NEW i \in DOMAIN tasks,
                        IsLatest(i, u)
                 PROVE  tasks[i] \in latest'[u]
      BY <1>1, <1>8 DEF Followed, IsLatest
    <2> QED
      BY <1>1, <1>2, LatestOf
  <1>12. Batched' /\ Linked' /\ MadeCovers'
    BY <1>1 DEF envVars, DependencyInv, Reading, Batched, Linked, MadeCovers
  <1>13. NoneForgotten'
    BY <1>1, <1>7, <1>8, NoneForgottenStays
       DEF DependencyInv, Chaining, EditsAreDropped, envVars
  <1>14. OncePerGeneration' /\ RunsAfterAllUpstreams'
    BY <1>1, <1>7, GenerationsStay DEF DependencyInv, Table
  <1> QED
    BY <1>6, <1>9, <1>10, <1>11, <1>12, <1>13, <1>14 DEF DependencyInv, Reading, Chaining

-----------------------------------------------------------------------------
(* The evaluation of a candidate. *)

\* What was read of the upstreams of a job that is owed nothing is what there is.
LEMMA SnapshotIsCurrent ==
    ASSUME DependencyInv, NEW c \in ToCome, ups[c] = upstreams[c], ~Owed(c), NEW u \in ups[c],
           NEW i \in DOMAIN tasks, IsLatest(i, u), tasks[i].status = "success"
    PROVE  \E t \in latest[u] : t.status = "success" /\ CompletedAt(t) = CompletedAt(tasks[i])
  <1>1. tasks[i].job = u
    BY DEF IsLatest
  <1>2. tasks[i].processed
    BY <1>1 DEF Owed, Unprocessed
  <1>3. PICK t \in latest[u] : t.status = "success" /\ t.finished = tasks[i].finished
    BY <1>2 DEF DependencyInv, Reading, Followed
  <1>4. tasks[i].finished # 0
    BY DEF DependencyInv, Table, Rows
  <1> QED
    BY <1>3, <1>4 DEF CompletedAt

\* The stamps the cycle read.
LEMMA StampsRead ==
    ASSUME DependencyInv, NEW j \in Jobs, NEW t \in latest[j]
    PROVE  /\ CompletedAt(t) \in Nat /\ t.created \in Nat /\ t.created <= CompletedAt(t)
           /\ CompletedAt(t) <= IF txn = 0 THEN now ELSE txn
  <1>1. t \in Task
    BY DEF DependencyInv, Table, TypeOK
  <1>2. CompletedAt(t) \in Nat /\ t.created \in Nat
    BY <1>1 DEF Task, CompletedAt
  <1>3. PICK i \in DOMAIN tasks : CompletedAt(t) <= CompletedAt(tasks[i])
    BY DEF DependencyInv, Reading, Snapshot
  <1>4. CompletedAt(tasks[i]) \in Nat /\ CompletedAt(tasks[i]) <= now /\ now \in Nat
    BY TaskRow DEF DependencyInv, Table, TypeOK
  <1>5. t.created <= CompletedAt(t) /\ (txn # 0 => CompletedAt(t) <= txn)
    BY DEF DependencyInv, Reading, Snapshot
  <1> QED
    BY <1>2, <1>3, <1>4, <1>5

LEMMA GenerationRead ==
    ASSUME DependencyInv, NEW c \in Jobs, AllSucceeded(ups[c], latest)
    PROVE  /\ ReadyAt(ups[c], latest) \in Nat
           /\ ReadyAt(ups[c], latest) <= IF txn = 0 THEN now ELSE txn
           /\ \A u \in ups[c] : \A t \in latest[u] : CompletedAt(t) <= ReadyAt(ups[c], latest)
  <1> DEFINE n == IF txn = 0 THEN now ELSE txn
  <1>1. n \in Nat
    BY Positions DEF DependencyInv, Table
  <1>2. \A u \in ups[c] : \A t \in latest[u] : CompletedAt(t) \in Nat /\ CompletedAt(t) <= n
    BY StampsRead DEF DependencyInv, Table, TypeOK
  <1>3. \E u \in ups[c] : latest[u] # {}
    BY DEF AllSucceeded
  <1> HIDE DEF n
  <1>4. /\ ReadyAt(ups[c], latest) \in Nat /\ ReadyAt(ups[c], latest) <= n
        /\ \A u \in ups[c] : \A t \in latest[u] : CompletedAt(t) <= ReadyAt(ups[c], latest)
    BY <1>1, <1>2, <1>3, ReadyAtMax
  <1> QED
    BY <1>4 DEF n

\* A job that _dispatch_if_ready skips is not waiting, or is owed another look.
LEMMA SkipIsRight ==
    ASSUME DependencyInv, NEW c \in ToCome, c \in Jobs, ups[c] = upstreams[c],
           ~IsReady(c, ups[c], latest), Waiting(c)
    PROVE  Owed(c)
  <1> SUFFICES ASSUME ~Owed(c) PROVE FALSE
    OBVIOUS
  <1>1. Outrun(c)
    BY WaitingMeans DEF DependencyInv, Table
  <1>2. AllSucceeded(ups[c], latest)
    BY <1>1, SnapshotIsCurrent DEF Outrun, AllSucceeded
  <1>3. PICK t \in latest[c] : CompletedAt(t) >= ReadyAt(ups[c], latest)
    BY <1>2 DEF IsReady, AlreadyChained
  <1>4. PICK k \in DOMAIN tasks : tasks[k].job = c /\ CompletedAt(t) <= CompletedAt(tasks[k])
    BY DEF DependencyInv, Reading, Snapshot
  <1>5. PICK u \in ups[c], i \in DOMAIN tasks :
          IsLatest(i, u) /\ CompletedAt(tasks[k]) < CompletedAt(tasks[i])
    BY <1>1, <1>4 DEF Outrun
  <1>6. tasks[i].status = "success"
    BY <1>1, <1>5, OneLatest DEF Outrun, DependencyInv, Table
  <1>7. PICK o \in latest[u] : CompletedAt(o) = CompletedAt(tasks[i])
    BY <1>5, <1>6, SnapshotIsCurrent
  <1>8. CompletedAt(o) <= ReadyAt(ups[c], latest) /\ ReadyAt(ups[c], latest) \in Nat
    BY <1>2, GenerationRead
  <1>9. CompletedAt(t) \in Nat /\ CompletedAt(tasks[k]) \in Nat /\ CompletedAt(tasks[i]) \in Nat
    BY StampsRead, TaskRow DEF DependencyInv, Table
  <1> QED
    BY <1>3, <1>4, <1>5, <1>7, <1>8, <1>9

\* Candidate c is done and needs no other look, unless it was linked anew.
LEMMA EvaluatedStep ==
    ASSUME DependencyInv, Table', Evolves, MarksNothing, DOMAIN tasks' = DOMAIN tasks,
           envVars' = envVars, batch' = batch, pc \in {"dispatch", "send"},
           NEW c \in candidates, Evaluated(c), ToCome \in {candidates, candidates \ {c}},
           ups[c] = upstreams[c] /\ Waiting(c) => Owed(c)
    PROVE  DependencyInv'
  <1>1. /\ candidates' = candidates \ {c} /\ pc' \in {"idle", "dispatch"}
        /\ pc' = "idle" => candidates' = {}
        /\ \A d \in candidates' : ups'[d] = ups[d]
        /\ dropped' = IF ups[c] = upstreams[c] THEN dropped \ {c} ELSE dropped
    BY DEF Evaluated, DependencyInv, Table, TypeOK
  <1>2. ToCome' = candidates \ {c} /\ Evaluating = ToCome /\ Evaluating' = ToCome'
    BY <1>1 DEF ToCome, Evaluating
  <1>3. TableStep
    BY DEF TableStep, DependencyInv
  <1>4. Batched' /\ Linked' /\ MadeCovers'
    BY <1>1 DEF envVars, DependencyInv, Reading, Batched, Linked, MadeCovers
  <1>5. NoneForgotten'
    <2>1. EditsAreDropped
      BY DEF envVars, EditsAreDropped
    <2>2. \A d \in (dropped \cup Evaluating) \ (dropped' \cup Evaluating') : d = c /\ ups[c] = upstreams[c]
      BY <1>1, <1>2 DEF DependencyInv, Reading, Linked
    <2> QED
      BY <1>3, <2>1, <2>2, NoneForgottenStays DEF DependencyInv, Chaining
  <1>6. OncePerGeneration' /\ RunsAfterAllUpstreams'
    BY GenerationsStay DEF DependencyInv, Table
  <1>7. Snapshot' /\ Seen' /\ Followed'
    <2>1. CASE candidates' = {}
      <3>1. latest' = [j \in Jobs |-> {}] /\ ToCome' = {}
        BY <1>1, <1>2, <2>1 DEF Evaluated
      <3> QED
        BY <3>1 DEF Snapshot, Seen, Followed
    <2>2. CASE candidates' # {}
      <3>1. /\ latest' = latest /\ txn' = txn /\ read' = read /\ ToCome' \subseteq ToCome
            /\ \A d \in ToCome' : ups'[d] = ups[d]
        BY <1>1, <1>2, <2>2 DEF Evaluated
      <3>2. Snapshot'
        BY <3>1, SnapshotStays DEF DependencyInv, Reading, Table
      <3>3. Followed'
        BY <1>3, <3>1, FollowedStays DEF DependencyInv, Reading
      <3>4. Seen'
        BY <3>1 DEF DependencyInv, Reading, Seen, Evolves
      <3> QED
        BY <3>2, <3>3, <3>4
    <2> QED
      BY <2>1, <2>2
  <1> QED
    BY <1>4, <1>5, <1>6, <1>7 DEF DependencyInv, Reading, Chaining

LEMMA EvaluatedType ==
    ASSUME DependencyInv, NEW c, Evaluated(c), now' = now, Len(tasks') = Len(tasks)
    PROVE  /\ candidates' \subseteq Jobs /\ dropped' \subseteq Jobs
           /\ pc' \in {"idle", "dispatch"} /\ txn' \in 0..now' /\ read' \in 0..Len(tasks')
           /\ ups' \in [Jobs -> SUBSET Jobs]
           /\ pc' = "idle" => candidates' = {} /\ txn' = 0
           /\ latest' \in [Jobs -> SUBSET Task]
           /\ \A j \in Jobs : Cardinality(latest'[j]) <= 1
  <1>1. /\ latest' \in [Jobs -> SUBSET Task]
        /\ \A j \in Jobs : Cardinality(latest'[j]) <= 1
    BY FS_EmptySet DEF Evaluated, DependencyInv, Table, TypeOK
  <1>2. txn' \in 0..now' /\ read' \in 0..Len(tasks')
    BY DEF Evaluated, DependencyInv, Table, TypeOK
  <1>3. ups' \in [Jobs -> SUBSET Jobs]
    BY DEF Evaluated, DependencyInv, Table, TypeOK
  <1> QED
    BY <1>1, <1>2, <1>3 DEF Evaluated, DependencyInv, Table, TypeOK

LEMMA SkipStep ==
    ASSUME DependencyInv, NEW c \in Jobs, Skip(c) PROVE DependencyInv'
  <1>1. /\ pc = "dispatch" /\ c \in candidates /\ ~IsReady(c, ups[c], latest) /\ Evaluated(c)
        /\ UNCHANGED <<now, tasks, envVars, batch, made, faults>>
    BY DEF Skip
  <1>2. ToCome = candidates /\ batch = {}
    BY <1>1 DEF ToCome, DependencyInv, Reading, Batched
  <1>3. ups[c] = upstreams[c] /\ Waiting(c) => Owed(c)
    BY <1>1, <1>2, SkipIsRight
  <1>4. TypeOK'
    BY <1>1, <1>2, EvaluatedType DEF envVars, DependencyInv, Table, TypeOK
  <1>5. Table'
    BY <1>1, <1>4 DEF DependencyInv, Table, Rows, Distinct
  <1>6. Evolves /\ MarksNothing
    BY <1>1, SameTable DEF DependencyInv, Table
  <1> QED
    BY <1>1, <1>2, <1>3, <1>5, <1>6, EvaluatedStep

LEMMA SendStep == DependencyInv /\ SendTask => DependencyInv'
  <1> SUFFICES ASSUME DependencyInv, SendTask PROVE DependencyInv'
    OBVIOUS
  <1>1. PICK c \in candidates : c = tasks[made].job /\ made \in DOMAIN tasks
    BY TaskRow DEF SendTask, DependencyInv, Table, TypeOK
  <1> DEFINE r == [tasks[made] EXCEPT !.sent = TRUE]
  <1>2. /\ pc = "send" /\ made' = 0 /\ Evaluated(c) /\ tasks' = [tasks EXCEPT ![made] = r]
        /\ UNCHANGED <<now, envVars, batch, faults>>
    BY <1>1 DEF SendTask
  <1>3. tasks[made] \in Task
    BY <1>1, TaskRow DEF DependencyInv, Table
  <1>4. r \in Task
    <2>1. TRUE \in BOOLEAN
      OBVIOUS
    <2> QED
      BY <1>3, <2>1, Zenon DEF Task
  <1>5. /\ r.job = tasks[made].job /\ r.status = tasks[made].status
        /\ r.created = tasks[made].created /\ r.finished = tasks[made].finished
        /\ r.ready = tasks[made].ready /\ r.processed = tasks[made].processed
        /\ r.after = tasks[made].after /\ r.read = tasks[made].read
    BY <1>3 DEF Task
  <1> HIDE DEF r
  <1>6. /\ tasks' \in Seq(Task) /\ Len(tasks') = Len(tasks) /\ DOMAIN tasks' = DOMAIN tasks
        /\ tasks'[made] = r /\ \A k \in DOMAIN tasks : k # made => tasks'[k] = tasks[k]
    BY <1>1, <1>2, <1>4, UpdateShape DEF DependencyInv, Table
  <1>7. \A k \in DOMAIN tasks :
          /\ tasks'[k].job = tasks[k].job /\ tasks'[k].status = tasks[k].status
          /\ tasks'[k].created = tasks[k].created /\ tasks'[k].ready = tasks[k].ready
          /\ tasks'[k].after = tasks[k].after /\ tasks'[k].read = tasks[k].read
          /\ tasks'[k].finished = tasks[k].finished
          /\ tasks'[k].processed = tasks[k].processed
          /\ CompletedAt(tasks'[k]) = CompletedAt(tasks[k])
    BY <1>5, <1>6 DEF CompletedAt
  <1>8. Evolves /\ MarksNothing
    <2>1. \A k \in DOMAIN tasks : CompletedAt(tasks[k]) <= CompletedAt(tasks'[k])
      BY <1>7, TaskRow DEF DependencyInv, Table
    <2>2. now <= now'
      BY <1>2 DEF DependencyInv, Table, TypeOK
    <2> QED
      BY <1>6, <1>7, <2>1, <2>2 DEF Evolves, MarksNothing
  <1>9. Rows' /\ Distinct'
    <2>1. Rows'
      BY <1>6, <1>7 DEF DependencyInv, Table, Rows
    <2>2. Distinct'
      BY <1>6, <1>7 DEF DependencyInv, Table, Distinct
    <2> QED
      BY <2>1, <2>2
  <1>10. batch = {}
    BY <1>2 DEF DependencyInv, Reading, Batched
  <1>11. TypeOK'
    <2>1. \A k \in DOMAIN tasks' : CompletedAt(tasks'[k]) \in tasks'[k].created..now'
      BY <1>2, <1>6, <1>7 DEF DependencyInv, Table, TypeOK
    <2>2. made' \in 0..Len(tasks')
      BY <1>2, <1>6 DEF DependencyInv, Table, TypeOK
    <2> QED
      BY <1>2, <1>6, <1>10, <2>1, <2>2, EvaluatedType DEF envVars, DependencyInv, Table, TypeOK
  <1>12. ToCome = candidates \ {c}
    BY <1>1, <1>2 DEF ToCome
  <1>13. ASSUME ups[c] = upstreams[c], Waiting(c), ~Owed(c) PROVE FALSE
    <2>1. Outrun(c)
      BY <1>1, <1>13, WaitingMeans DEF DependencyInv, Table, TypeOK
    <2>2. PICK u \in ups[c], i \in DOMAIN tasks :
            IsLatest(i, u) /\ CompletedAt(tasks[made]) < CompletedAt(tasks[i])
      BY <1>1, <1>13, <2>1 DEF Outrun
    <2>3. tasks[i].status = "success"
      BY <1>13, <2>1, <2>2, OneLatest DEF Outrun, DependencyInv, Table
    <2>4. tasks[i].processed
      BY <1>13, <2>2, <2>3 DEF Owed, Unprocessed, IsLatest
    <2>5. CompletedAt(tasks[i]) <= CompletedAt(tasks[made])
      BY <1>1, <1>2, <2>2, <2>3, <2>4 DEF DependencyInv, Chaining, MadeCovers
    <2>6. CompletedAt(tasks[i]) \in Nat /\ CompletedAt(tasks[made]) \in Nat
      BY <1>1, TaskRow DEF DependencyInv, Table
    <2> QED
      BY <2>2, <2>5, <2>6
  <1> QED
    BY <1>2, <1>6, <1>8, <1>9, <1>11, <1>12, <1>13, EvaluatedStep DEF Table

\* A dependency run is later, and of a later generation, than every run before it.
LEMMA CreatedLater ==
    ASSUME DependencyInv, NEW c \in ToCome, c \in Jobs, IsReady(c, ups[c], latest),
           NEW i \in DOMAIN tasks, tasks[i].job = c
    PROVE  /\ tasks[i].created # IF txn = 0 THEN now + 1 ELSE txn
           /\ tasks[i].ready # 0 => tasks[i].ready < ReadyAt(ups[c], latest)
  <1> DEFINE R == ReadyAt(ups[c], latest)
  <1>1. R \in Nat /\ R <= IF txn = 0 THEN now ELSE txn
    BY GenerationRead DEF IsReady
  <1> HIDE DEF R
  <1>2. /\ tasks[i].created \in Nat /\ tasks[i].ready \in Nat /\ tasks[i].created <= now
        /\ tasks[i].ready <= tasks[i].created /\ now \in Nat /\ txn \in Nat
    BY TaskRow DEF DependencyInv, Table, TypeOK, Rows
  <1>3. ASSUME NEW t \in latest[c], tasks[i].created <= t.created PROVE tasks[i].created < R
    <2>1. ~(CompletedAt(t) >= R)
      BY DEF IsReady, AlreadyChained, R
    <2>2. CompletedAt(t) \in Nat /\ t.created \in Nat /\ t.created <= CompletedAt(t)
      BY StampsRead
    <2> QED
      BY <1>1, <1>2, <1>3, <2>1, <2>2
  <1>4. tasks[i].created < R \/ (tasks[i].ready = 0 /\ tasks[i].created > txn)
    BY <1>3 DEF DependencyInv, Reading, Seen
  <1> QED
    BY <1>1, <1>2, <1>4 DEF R

LEMMA CreateTaskStep ==
    ASSUME DependencyInv, NEW c \in Jobs, CreateTask(c) PROVE DependencyInv'
  <1>1. PICK R, n : R = ReadyAt(ups[c], latest) /\ n = IF txn = 0 THEN now + 1 ELSE txn
    OBVIOUS
  <1>2. /\ pc = "dispatch" /\ c \in candidates /\ IsReady(c, ups[c], latest)
        /\ now' = IF txn = 0 THEN now + 1 ELSE now
        /\ tasks' = Append(tasks, NewTask(c, n, R, ups[c], read))
        /\ pc' = "send" /\ made' = Len(tasks') /\ txn' = 0
        /\ UNCHANGED <<envVars, batch, candidates, ups, latest, read, faults, dropped>>
    BY <1>1, Zenon DEF CreateTask
  <1>3. ToCome = candidates /\ AllSucceeded(ups[c], latest)
    BY <1>2 DEF ToCome, IsReady
  <1>4. /\ now \in Nat /\ txn \in 0..now /\ ups[c] \subseteq Jobs
        /\ read \in Nat /\ 1..read \subseteq DOMAIN tasks
    <2>1. TypeOK /\ ups \in [Jobs -> SUBSET Jobs]
      BY Zenon DEF DependencyInv, Table, TypeOK
    <2> QED
      BY <2>1, Positions
  <1>5. /\ R \in Nat /\ n \in Nat /\ R <= n /\ now' \in Nat /\ now <= now' /\ n <= now'
        /\ \A u \in ups[c] : \A t \in latest[u] : CompletedAt(t) <= R
    BY <1>1, <1>2, <1>3, <1>4, GenerationRead
  <1>6. \A i \in DOMAIN tasks : tasks[i].job = c =>
          tasks[i].created # n /\ (tasks[i].ready # 0 => tasks[i].ready < R)
    BY <1>1, <1>2, <1>3, CreatedLater
  <1>7. PICK t \in Task : /\ t = NewTask(c, n, R, ups[c], read) /\ t.job = c
                         /\ t.status = "pending" /\ t.created = n /\ t.finished = 0
                         /\ ~t.processed /\ t.ready = R /\ t.after = ups[c] /\ t.read = read
    <2> DEFINE t == NewTask(c, n, R, ups[c], read)
    <2>1. ups[c] \in SUBSET Jobs /\ n \in Nat /\ R \in Nat /\ read \in Nat
      BY <1>4, <1>5
    <2>2. /\ t \in Task /\ t.job = c /\ t.status = "pending" /\ t.created = n
          /\ t.finished = 0 /\ ~t.processed /\ t.ready = R /\ t.after = ups[c]
          /\ t.read = read
      BY <2>1, NewTaskRow
    <2> HIDE DEF t
    <2>3. t = NewTask(c, n, R, ups[c], read)
      BY DEF t
    <2> QED
      BY <2>2, <2>3, Zenon
  <1>8. /\ tasks' \in Seq(Task) /\ DOMAIN tasks' = DOMAIN tasks \cup {made'}
        /\ Len(tasks') = Len(tasks) + 1 /\ Len(tasks) \in Nat /\ DOMAIN tasks = 1..Len(tasks)
        /\ made' \notin DOMAIN tasks
        /\ tasks'[made'] = t /\ \A i \in DOMAIN tasks : tasks'[i] = tasks[i]
    BY <1>2, <1>7, AppendShape DEF DependencyInv, Table
  <1>9. /\ Evolves /\ MarksNothing /\ Rows' /\ Distinct'
        /\ \A i \in DOMAIN tasks' : CompletedAt(tasks'[i]) \in tasks'[i].created..now'
    BY <1>2, <1>4, <1>5, <1>6, <1>7, AppendEvolves DEF DependencyInv
  <1>10. TypeOK'
    <2>1. /\ made' \in 0..Len(tasks') /\ txn' \in 0..now' /\ batch' \subseteq DOMAIN tasks'
          /\ read' \in 0..Len(tasks')
      BY <1>2, <1>4, <1>5, <1>8, Positions DEF DependencyInv, Table, TypeOK
    <2>2. made' \in DOMAIN tasks' /\ tasks'[made'].job \in candidates'
      BY <1>2, <1>7, <1>8
    <2> QED
      BY <1>2, <1>5, <1>8, <1>9, <2>1, <2>2 DEF envVars, DependencyInv, Table, TypeOK
  <1>11. TableStep
    BY <1>2, <1>9, <1>10 DEF TableStep, DependencyInv, Table
  <1>12. ToCome' = candidates \ {c} /\ Evaluating = candidates /\ Evaluating' = ToCome'
    BY <1>2, <1>7, <1>8 DEF ToCome, Evaluating
  <1>13. Snapshot'
    BY <1>2, <1>9, <1>10, SnapshotStays DEF DependencyInv, Reading, Table
  <1>14. Followed'
    BY <1>2, <1>3, <1>9, <1>11, <1>12, FollowedStays DEF DependencyInv, Reading
  <1>15. Seen'
    <2> SUFFICES ASSUME NEW b \in candidates \ {c}, NEW i \in DOMAIN tasks', tasks'[i].job = b
                 PROVE  \/ \E o \in latest[b] : tasks'[i].created <= o.created
                        \/ tasks'[i].ready = 0 /\ tasks'[i].created > 0
      BY <1>2, <1>12 DEF Seen
    <2>1. i \in DOMAIN tasks /\ tasks'[i] = tasks[i]
      BY <1>7, <1>8
    <2>2. tasks[i].created \in Nat /\ txn \in Nat
      BY <1>4, <2>1, TaskRow DEF DependencyInv, Table
    <2>3. \/ \E o \in latest[b] : tasks[i].created <= o.created
          \/ tasks[i].ready = 0 /\ tasks[i].created > txn
      BY <1>3, <2>1 DEF DependencyInv, Reading, Seen
    <2> QED
      BY <2>1, <2>2, <2>3
  <1>16. Batched' /\ Linked'
    BY <1>2, <1>8 DEF envVars, DependencyInv, Reading, Batched, Linked
  <1>17. MadeCovers'
    <2> SUFFICES ASSUME NEW u \in ups[c], NEW i \in DOMAIN tasks', IsLatest(i, u)',
                        tasks'[i].status = "success", tasks'[i].processed
                 PROVE  CompletedAt(tasks'[i]) <= n
      BY <1>2, <1>7, <1>8 DEF MadeCovers, CompletedAt
    <2>1. i \in DOMAIN tasks /\ IsLatest(i, u) /\ tasks'[i] = tasks[i]
      BY <1>8, <1>11, LatestWas
    <2>2. PICK o \in latest[u] : o.status = "success" /\ o.finished = tasks[i].finished
      BY <1>2, <1>3, <2>1 DEF DependencyInv, Reading, Followed
    <2>3. tasks[i].finished # 0 /\ tasks[i].finished \in Nat
      BY <2>1, TaskRow DEF DependencyInv, Table, Rows
    <2>4. CompletedAt(o) = tasks[i].finished /\ CompletedAt(tasks'[i]) = tasks[i].finished
      BY <2>1, <2>2, <2>3 DEF CompletedAt
    <2> QED
      BY <1>5, <2>2, <2>3, <2>4
  <1>18. ASSUME ups[c] = upstreams[c], Waiting(c)', ~Owed(c)' PROVE FALSE
    <2>1. Outrun(c)' /\ upstreams' = upstreams
      BY <1>2, <1>9, <1>10, <1>18, WaitingMeansNext DEF envVars
    <2>2. PICK u \in ups[c], m \in DOMAIN tasks' :
            IsLatest(m, u)' /\ CompletedAt(tasks'[made']) < CompletedAt(tasks'[m])
      BY <1>7, <1>8, <1>18, <2>1 DEF Outrun
    <2>3. PICK i \in DOMAIN tasks' : IsLatest(i, u)' /\ tasks'[i].status = "success"
      BY <1>18, <2>1 DEF Outrun
    <2>4. m = i
      <3>1. tasks'[m].created \in Nat /\ tasks'[i].created \in Nat
        BY <1>10, TaskRowNext
      <3> QED
        BY <1>9, <2>2, <2>3, <3>1 DEF IsLatest, Distinct
    <2>5. tasks'[i].processed
      BY <1>18, <2>1, <2>3 DEF Owed, Unprocessed, IsLatest
    <2>6. CompletedAt(tasks'[i]) <= CompletedAt(tasks'[made'])
      <3>1. tasks'[made'].job = c /\ ups'[c] = ups[c] /\ pc' = "send"
        BY <1>2, <1>7, <1>8
      <3>2. \A d \in ups'[tasks'[made'].job] : \A k \in DOMAIN tasks' :
              IsLatest(k, d)' /\ tasks'[k].status = "success" /\ tasks'[k].processed
                => CompletedAt(tasks'[k]) <= CompletedAt(tasks'[made'])
        BY <1>17, <3>1, Zenon DEF MadeCovers, CompletedAt
      <3> QED
        BY <2>3, <2>5, <3>1, <3>2
    <2>7. CompletedAt(tasks'[i]) \in Nat /\ CompletedAt(tasks'[made']) \in Nat
      BY <1>8, <1>10, TaskRowNext
    <2> QED
      BY <2>2, <2>4, <2>6, <2>7
  <1>19. NoneForgotten'
    <2> SUFFICES ASSUME NEW b \in Jobs, Waiting(b)', ~Owed(b)'
                 PROVE  b \in dropped' \cup Evaluating'
      BY DEF NoneForgotten
    <2>1. Waiting(b) /\ ~Owed(b)
      BY <1>2, <1>9, <1>11, WaitStep, OwedStays DEF envVars
    <2>2. b \in dropped \cup candidates
      BY <1>12, <2>1 DEF DependencyInv, Chaining, NoneForgotten
    <2>3. b = c => c \in dropped
      BY <1>2, <1>18 DEF DependencyInv, Reading, Linked
    <2> QED
      BY <1>2, <1>12, <2>2, <2>3
  <1>20. OncePerGeneration'
    BY <1>6, <1>7, <1>8 DEF DependencyInv, OncePerGeneration
  <1>21. RunsAfterAllUpstreams'
    <2> DEFINE Follows(k, u) == \E i \in DOMAIN tasks' :
                 /\ tasks'[i].job = u /\ tasks'[i].status = "success"
                 /\ tasks'[i].finished <= tasks'[k].ready
                 /\ \A m \in 1 .. tasks'[k].read :
                      tasks'[m].job = u => tasks'[m].created <= tasks'[i].created
    <2>1. ASSUME NEW u \in ups[c] PROVE Follows(made', u)
      <3>1. PICK o \in latest[u] : o.status = "success"
        BY <1>3 DEF AllSucceeded
      <3>2. PICK i \in DOMAIN tasks :
              /\ tasks[i].job = u /\ tasks[i].status = "success"
              /\ tasks[i].finished = o.finished
              /\ \A m \in 1..read : tasks[m].job = u => tasks[m].created <= tasks[i].created
        BY <1>4, <3>1 DEF DependencyInv, Reading, Snapshot
      <3>3. CompletedAt(o) = tasks[i].finished
        BY <3>2 DEF DependencyInv, Table, Rows, CompletedAt
      <3>4. i \in DOMAIN tasks' /\ tasks'[i] = tasks[i] /\ tasks[i].finished <= R
        BY <1>5, <1>8, <3>3
      <3>5. \A m \in 1..read : tasks'[m] = tasks[m]
        BY <1>4, <1>8
      <3>6. tasks'[made'].ready = R /\ tasks'[made'].read = read
        BY <1>7, <1>8
      <3> QED
        BY <3>2, <3>4, <3>5, <3>6
    <2>2. ASSUME NEW k \in DOMAIN tasks, tasks[k].ready # 0, NEW u \in tasks[k].after
          PROVE  Follows(k, u)
      <3>1. tasks'[k] = tasks[k] /\ \A m \in 1..tasks[k].read : tasks'[m] = tasks[m]
        BY <1>8 DEF DependencyInv, Table, Rows
      <3>2. PICK i \in DOMAIN tasks :
              /\ tasks[i].job = u /\ tasks[i].status = "success"
              /\ tasks[i].finished <= tasks[k].ready
              /\ \A m \in 1 .. tasks[k].read :
                   tasks[m].job = u => tasks[m].created <= tasks[i].created
        BY <2>2 DEF DependencyInv, RunsAfterAllUpstreams
      <3>3. i \in DOMAIN tasks' /\ tasks'[i] = tasks[i]
        BY <1>8, <3>2
      <3> QED
        BY <3>1, <3>2, <3>3
    <2>3. ASSUME NEW k \in DOMAIN tasks', tasks'[k].ready # 0, NEW u \in tasks'[k].after
          PROVE  Follows(k, u)
      <3>1. CASE k = made'
        BY <1>7, <1>8, <2>1, <2>3, <3>1
      <3>2. CASE k \in DOMAIN tasks
        BY <1>8, <2>2, <2>3, <3>2
      <3> QED
        BY <1>8, <3>1, <3>2
    <2> QED
      BY <2>3 DEF RunsAfterAllUpstreams
  <1> QED
    BY <1>9, <1>10, <1>13, <1>14, <1>15, <1>16, <1>17, <1>19, <1>20, <1>21
       DEF DependencyInv, Table, Reading, Chaining

LEMMA AbortStep == DependencyInv /\ Abort => DependencyInv'
  <1> SUFFICES ASSUME DependencyInv, Abort PROVE DependencyInv'
    OBVIOUS
  <1>1. /\ faults' \in 0..MaxFaults /\ dropped' = dropped \cup candidates
        /\ pc' = "idle" /\ batch' = {} /\ candidates' = {} /\ made' = 0 /\ txn' = 0
        /\ read' = 0 /\ ups' = [j \in Jobs |-> {}] /\ latest' = [j \in Jobs |-> {}]
        /\ UNCHANGED <<now, tasks, envVars>>
    BY BoundAssumption DEF Abort, DependencyInv, Table, TypeOK
  <1>2. TypeOK'
    <2>1. \A j \in Jobs : Cardinality(latest'[j]) <= 1
      BY <1>1, FS_EmptySet
    <2>2. made' \in 0..Len(tasks') /\ txn' \in 0..now' /\ read' \in 0..Len(tasks')
      BY <1>1 DEF DependencyInv, Table, TypeOK
    <2> QED
      BY <1>1, <2>1, <2>2 DEF envVars, DependencyInv, Table, TypeOK
  <1>3. Table'
    BY <1>1, <1>2 DEF DependencyInv, Table, Rows, Distinct
  <1>4. Evolves /\ MarksNothing /\ TableStep
    BY <1>1, <1>3, SameTable DEF DependencyInv, Table, TableStep, envVars
  <1>5. ToCome' = {} /\ Evaluating \subseteq candidates
    BY <1>1 DEF ToCome, Evaluating
  <1>6. Snapshot' /\ Seen' /\ Followed' /\ Batched' /\ Linked' /\ MadeCovers'
    BY <1>1, <1>5 DEF Snapshot, Seen, Followed, Batched, Linked, MadeCovers
  <1>7. NoneForgotten'
    BY <1>1, <1>4, <1>5, NoneForgottenStays DEF DependencyInv, Chaining, EditsAreDropped, envVars
  <1>8. OncePerGeneration' /\ RunsAfterAllUpstreams'
    BY <1>1, <1>4, GenerationsStay DEF DependencyInv, Table
  <1> QED
    BY <1>3, <1>6, <1>7, <1>8 DEF DependencyInv, Reading, Chaining

-----------------------------------------------------------------------------

LEMMA DependencyInit == Init => DependencyInv
  <1> SUFFICES ASSUME Init PROVE DependencyInv
    OBVIOUS
  <1>1. /\ now = 0 /\ tasks = <<>> /\ enabled \subseteq Jobs /\ upstreams \in Graphs
        /\ pc = "idle" /\ batch = {} /\ candidates = {} /\ made = 0 /\ txn = 0 /\ read = 0
        /\ ups = [j \in Jobs |-> {}] /\ latest = [j \in Jobs |-> {}]
        /\ triggers = 0 /\ updates = 0 /\ faults = 0 /\ dropped = {}
    BY DEF Init
  <1>2. DOMAIN tasks = {} /\ tasks \in Seq(Task) /\ Len(tasks) = 0
    BY <1>1
  <1>3. TypeOK
    <2>1. \A j \in Jobs : Cardinality(latest[j]) <= 1
      BY <1>1, FS_EmptySet
    <2> QED
      BY <1>1, <1>2, <2>1, BoundAssumption DEF TypeOK
  <1>4. Rows /\ Distinct /\ OncePerGeneration /\ RunsAfterAllUpstreams
    BY <1>2 DEF Rows, Distinct, OncePerGeneration, RunsAfterAllUpstreams
  <1>5. ToCome = {}
    BY <1>1 DEF ToCome
  <1>6. Snapshot /\ Seen /\ Followed /\ Batched /\ Linked /\ MadeCovers
    BY <1>1, <1>5 DEF Snapshot, Seen, Followed, Batched, Linked, MadeCovers
  <1>7. NoneForgotten
    BY <1>2, <1>3, <1>4, WaitingMeans DEF Outrun, NoneForgotten
  <1> QED
    BY <1>3, <1>4, <1>6, <1>7 DEF DependencyInv, Table, Reading, Chaining

LEMMA DependencyInductive == DependencyInv /\ [Next]_vars => DependencyInv'
  <1> SUFFICES ASSUME DependencyInv, [Next]_vars PROVE DependencyInv'
    OBVIOUS
  <1>1. CASE Observe
    <2>1. Unprocessed \in SUBSET {i \in DOMAIN tasks : tasks[i].status = "success"}
      BY DEF Unprocessed
    <2>2. faults' \in 0..MaxFaults
      BY <1>1 DEF Observe, DependencyInv, Table, TypeOK
    <2> QED
      BY <1>1, <2>1, <2>2, LoadStep DEF Observe
  <1>2. CASE ObserveStale
    <2>1. faults' \in 0..MaxFaults
      BY <1>2, BoundAssumption DEF ObserveStale, DependencyInv, Table, TypeOK
    <2> QED
      BY <1>2, <2>1, LoadStep DEF ObserveStale
  <1>3. CASE UNCHANGED vars
    <2>1. UNCHANGED <<now, tasks, envVars, cycleVars, faults, dropped>>
      BY <1>3 DEF vars
    <2>2. Evolves /\ MarksNothing
      BY <2>1, SameTable DEF DependencyInv, Table
    <2>3. TypeOK'
      BY <2>1 DEF envVars, cycleVars, DependencyInv, Table, TypeOK
    <2>4. Table'
      BY <2>1, <2>3 DEF DependencyInv, Table, Rows, Distinct
    <2>5. EditsAreDropped
      BY <2>1 DEF EditsAreDropped, envVars
    <2> QED
      BY <2>1, <2>2, <2>4, <2>5, BesideStep
  <1>4. CASE Cycle
    BY <1>1, <1>4, ReadLatestStep, SendStep, MarkStep, SkipStep, CreateTaskStep DEF Cycle
  <1> QED
    BY <1>2, <1>3, <1>4, AbortStep, TriggerStep, UpdateStep, FinishStep DEF Next

\* Types: the task table and the cycle's locals keep their shape, a snapshot holds
\* at most one latest task per job, and no completion is stamped before its creation.
THEOREM DependencyTypeCorrect == Spec => []TypeOK
  <1>1. DependencyInv => TypeOK
    BY DEF DependencyInv, Table
  <1> QED
    BY <1>1, DependencyInit, DependencyInductive, PTL DEF Spec

\* _dispatch_if_ready creates at most one run per generation of completions, in
\* every graph and however cycles are cut short or read a lagging replica.
THEOREM GenerationRunsOnce == Spec => []OncePerGeneration
  <1>1. DependencyInv => OncePerGeneration
    BY DEF DependencyInv
  <1> QED
    BY <1>1, DependencyInit, DependencyInductive, PTL DEF Spec

\* A dependency run is created only after a success of each of the upstreams its
\* job had, one that is part of its generation and that no newer run of that
\* upstream had replaced when the latest tasks were looked up.
THEOREM UpstreamsComeFirst == Spec => []RunsAfterAllUpstreams
  <1>1. DependencyInv => RunsAfterAllUpstreams
    BY DEF DependencyInv
  <1> QED
    BY <1>1, DependencyInit, DependencyInductive, PTL DEF Spec

\* trigger_dependent_jobs skips no job, however jobs are enabled, disabled and linked
\* meanwhile: when nothing is left to observe, the only jobs still waiting are those
\* an aborted cycle has dropped and those enabled or linked anew since they were
\* evaluated.
THEOREM NoJobIsForgotten == Spec => []NothingLeftWaiting
  <1>1. DependencyInv => NothingLeftWaiting
    BY DEF DependencyInv, Chaining, NoneForgotten, NothingLeftWaiting, Owed, Evaluating, ToCome
  <1> QED
    BY <1>1, DependencyInit, DependencyInductive, PTL DEF Spec

=============================================================================
