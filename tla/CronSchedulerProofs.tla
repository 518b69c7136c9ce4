------------------------ MODULE CronSchedulerProofs ------------------------
(***************************************************************************)
(* What holds of the cron scheduler for any number of jobs, schedulers,    *)
(* edits and faults.                                                       *)
(***************************************************************************)
EXTENDS CronScheduler, TLAPS

USE DEF apiVars, copyVars, Working, Rest

-----------------------------------------------------------------------------
(* Facts about the helpers. *)

LEMMA NextCronTimeType ==
  ASSUME NEW c \in Periods, NEW t \in Nat
  PROVE  NextCronTime(c, t) \in Nat
<1>1. c \in Nat /\ c > 0
  BY CronConstants
<1>2. t \div c \in Nat
  BY <1>1
<1>3. \A a, b \in Nat : a * b \in Nat
  OBVIOUS
<1> QED
  BY <1>1, <1>2, <1>3 DEF NextCronTime

LEMMA RemoveFromBag ==
  ASSUME NEW B, NEW x
  PROVE  BagToSet(BagRemove(B, x)) \subseteq BagToSet(B)
  BY DEF BagToSet, BagRemove

LEMMA AddToBag ==
  ASSUME NEW B, NEW x
  PROVE  BagToSet(BagAdd(B, x)) \subseteq BagToSet(B) \cup {x}
  BY DEF BagToSet, BagAdd

LEMMA JoinBag ==
  ASSUME NEW B, NEW S
  PROVE  BagToSet(B (+) SetToBag(S)) = BagToSet(B) \cup S
  BY DEF BagToSet, SetToBag, (+)

LEMMA FlushType ==
  ASSUME NEW r \in Row \cup {None}, NEW u,
         u.loaded \in Row \cup {None}, u.new \in Row \cup {None}, u.at \in Nat,
         u.new # None /\ u.loaded # None => r # None
  PROVE  /\ Flush(r, u) \in Row \cup {None}
         /\ u.new # None => Flush(r, u) # None
<1>1. CASE u.loaded = None \/ u.new = None
  BY <1>1 DEF Flush
<1>2. CASE ~(u.loaded = None \/ u.new = None)
  <2>1. r \in Row /\ u.loaded \in Row /\ u.new \in Row
    BY <1>2
  <2>2. Flush(r, u) \in Row
    BY <1>2, <2>1 DEF Flush, Row
  <2> QED
    BY <2>2, CronConstants
<1> QED
  BY <1>1, <1>2

LEMMA EditedType ==
  ASSUME NEW kind \in Edits, NEW c \in Periods, NEW r \in Row \cup {None},
         NEW t \in Nat, (kind = "create") <=> (r = None)
  PROVE  /\ Edited(kind, c, r, t) \in Row \cup {None}
         /\ r = None => Edited(kind, c, r, t).updated_at = t
         /\ r # None /\ Edited(kind, c, r, t) # None
               => Edited(kind, c, r, t).updated_at = r.updated_at
<1>1. kind \in EditKinds /\ NextCronTime(c, t) \in Nat
  BY CronConstants, NextCronTimeType
<1>2. CASE kind = "create"
  BY <1>1, <1>2 DEF Edited, Row
<1>3. CASE kind # "create"
  <2>1. r \in Row
    BY <1>3
  <2>2. CASE kind = "cron"
    BY <1>1, <2>1, <2>2 DEF Edited, Row
  <2>3. CASE kind = "one_time"
    BY <2>1, <2>3 DEF Edited, Row, NoCron, Never
  <2>4. CASE kind \in {"enable", "disable"}
    BY <2>1, <2>4 DEF Edited, Row
  <2>5. CASE kind = "delete"
    BY <1>3, <2>5 DEF Edited
  <2> QED
    BY <1>1, <1>3, <2>2, <2>3, <2>4, <2>5 DEF EditKinds
<1> QED
  BY <1>2, <1>3

-----------------------------------------------------------------------------
(* Types. *)

LEMMA TypeInit == Init => TypeOK
<1> SUFFICES ASSUME Init PROVE TypeOK
  OBVIOUS
<1>1. \A c \in Periods : Edited("create", c, None, 0) \in Row
  <2> SUFFICES ASSUME NEW c \in Periods PROVE Edited("create", c, None, 0) \in Row
    OBVIOUS
  <2>1. NextCronTime(c, 0) \in Nat
    BY NextCronTimeType
  <2> QED
    BY <2>1 DEF Edited, Row
<1>2. row \in [Jobs -> Row \cup {None}]
  BY <1>1 DEF Init
<1>3. \A s \in Schedulers : BagToSet(heap[s]) \subseteq Nat \X Jobs
  BY DEF Init, BagToSet, EmptyBag, SetToBag
<1> QED
  BY <1>2, <1>3, CronConstants DEF Init, TypeOK, Places

\* What a session reads first is a row or none.
LEMMA TablesType ==
  ASSUME TypeOK, NEW table \in Tables
  PROVE  table \in [Jobs -> Row \cup {None}]
  BY DEF TypeOK, Tables

LEMMA EditKeepsType ==
  ASSUME TypeOK, NEW j \in Jobs, NEW kind \in Edits, NEW c \in Periods,
         NEW r \in Row \cup {None}, EditBegin(j, kind, c, r)
  PROVE  TypeOK'
<1> USE DEF EditBegin, leaderVars, schedVars
<1>1. edit' \in Change
  <2>1. Edited(kind, c, r, clock) \in Row \cup {None}
    BY EditedType DEF TypeOK
  <2> QED
    BY <2>1 DEF Change, TypeOK
<1>2. edits' \in 0..MaxEdits
  BY CronConstants DEF TypeOK
<1> QED
  BY <1>1, <1>2 DEF TypeOK

\* The firing a commit leaves on record is not later than the last one.
LEMMA AskedType ==
  ASSUME NEW r \in Row \cup {None}, NEW f \in Nat
  PROVE  /\ Asked(r, f) \in Nat /\ Asked(r, f) <= f
         /\ r # None /\ r.next_fire # Never => r.next_fire > Asked(r, f)
<1>1. r # None => r.next_fire \in Nat
  BY DEF Row
<1> QED
  BY <1>1 DEF Asked, Never

LEMMA CommitKeepsType ==
  ASSUME TypeOK, EditCommit
  PROVE  TypeOK'
<1> USE DEF EditCommit, leaderVars, schedVars
<1> DEFINE j == edit.job
           r == Flush(row[j], edit)
<1>1. edit \in Change /\ j \in Jobs
  BY DEF TypeOK, Change
<1>2. r \in Row \cup {None}
  <2>1. /\ row[j] \in Row \cup {None} /\ edit.loaded \in Row \cup {None}
        /\ edit.new \in Row \cup {None} /\ edit.at \in Nat
        /\ edit.new # None /\ edit.loaded # None => row[j] # None
    BY <1>1 DEF TypeOK, Change, FlushOk
  <2> QED
    BY <2>1, FlushType
<1>3. row' \in [Jobs -> Row \cup {None}] /\ wanted' \in [Jobs -> Row \cup {None}]
  BY <1>1, <1>2 DEF TypeOK
<1>4. deleted' \in SUBSET Jobs
  BY <1>1 DEF TypeOK
<1>5. unseen' \in [Schedulers -> SUBSET Jobs]
  BY <1>1 DEF TypeOK
<1>6. fired' \in [Jobs -> Nat]
  <2>1. fired[j] \in Nat /\ Asked(r, fired[j]) \in Nat
    BY <1>1, <1>2, AskedType DEF TypeOK
  <2>2. fired' = [fired EXCEPT ![j] = Asked(r, fired[j])]
    OBVIOUS
  <2> HIDE DEF r, EditCommit
  <2> QED
    BY <1>1, <2>1, <2>2 DEF TypeOK
<1> QED
  BY <1>3, <1>4, <1>5, <1>6 DEF TypeOK

LEMMA SyncKeepsType ==
  ASSUME TypeOK, NEW s \in Schedulers, NEW table \in [Jobs -> Row \cup {None}],
         SyncJobs(s, table)
  PROVE  TypeOK'
<1> USE DEF SyncJobs, tableVars, leaderVars
<1> DEFINE read == UpdatedSince(table, last_sync[s])
           push == {j \in read \ {k \in read : ~table[k].enabled} :
                       /\ table[j].next_fire # Never
                       /\ IsNewFiring(s, j, table[j].next_fire)}
<1>1. \A j \in push : table[j] \in Row /\ j \in Jobs
  BY DEF UpdatedSince
<1>2. {<<table[j].next_fire, j>> : j \in push} \subseteq Nat \X Jobs
  BY <1>1 DEF Row
<1>3. heap'[s] = heap[s] (+) SetToBag({<<table[j].next_fire, j>> : j \in push})
  BY DEF TypeOK
<1>4. BagToSet(heap'[s]) \subseteq Nat \X Jobs
  BY <1>2, <1>3, JoinBag DEF TypeOK
<1>5. DOMAIN heap' = Schedulers
      /\ \A t \in Schedulers : BagToSet(heap'[t]) \subseteq Nat \X Jobs
  BY <1>4 DEF TypeOK
<1>6. cache' \in [Schedulers -> [Jobs -> Row \cup {None}]]
  BY DEF TypeOK
<1>7. last_sync' \in [Schedulers -> Int]
  BY CronConstants DEF TypeOK, Rewound
<1>8. pc' \in [Schedulers -> Places] /\ unseen' \in [Schedulers -> SUBSET Jobs]
  BY DEF TypeOK, Places
<1>9. \A t \in Schedulers : cur'[t] # None <=> pc'[t] \in Working
  BY DEF TypeOK
<1> QED
  BY <1>5, <1>6, <1>7, <1>8, <1>9 DEF TypeOK

\* What the three ways to take an entry off the heap share.
LEMMA PopKeepsHeap ==
  ASSUME TypeOK, NEW s \in Schedulers, NEW e,
         heap' = [heap EXCEPT ![s] = BagRemove(@, e)]
  PROVE  /\ DOMAIN heap' = Schedulers
         /\ \A t \in Schedulers : BagToSet(heap'[t]) \subseteq Nat \X Jobs
<1>1. BagToSet(heap'[s]) \subseteq BagToSet(heap[s])
  BY RemoveFromBag DEF TypeOK
<1> QED
  BY <1>1 DEF TypeOK

LEMMA MergeKeepsType ==
  ASSUME TypeOK, NEW s \in Schedulers, NEW e \in DueEntries(s),
         NEW r \in Row \cup {None}, PopMerge(s, e, r)
  PROVE  TypeOK'
<1> USE DEF PopMerge, tableVars, leaderVars
<1>1. e \in Nat \X Jobs
  BY DEF DueEntries, TypeOK
<1> DEFINE c == cache[s][e[2]]
<1>2. c \in Row /\ e[1] \in Nat /\ e[2] \in Jobs
  BY <1>1 DEF TypeOK
<1>3. c.cron \in Periods
  BY <1>2 DEF IsBroken, Row
<1>4. NextCronTime(c.cron, at[s]) \in Nat
  BY <1>3, NextCronTimeType DEF TypeOK
<1>5. Advanced(s, c) \in Row
  BY <1>2, <1>4 DEF Advanced, Row
<1>6. cur' \in [Schedulers -> Work \cup {None}] /\ cur'[s] \in Work
  BY <1>2, <1>5 DEF TypeOK, Work
<1>7. cur'[s] # None
  BY <1>6, CronConstants
<1>8. \A t \in Schedulers : cur'[t] # None <=> pc'[t] \in Working
  BY <1>7 DEF TypeOK
<1>9. pc' \in [Schedulers -> Places]
  BY DEF TypeOK, Places
<1> QED
  BY <1>6, <1>8, <1>9, PopKeepsHeap DEF TypeOK

\* What an advance writes.
LEMMA AdvancedRow ==
  ASSUME TypeOK, NEW s \in Schedulers, Advance(s)
  PROVE  /\ cur[s] \in Work /\ cur[s].job \in Jobs
         /\ Flush(row[cur[s].job], cur[s]) \in Row
         /\ Flush(row[cur[s].job], cur[s]) # None
<1> DEFINE u == cur[s]
           j == u.job
<1>1. u \in Work /\ j \in Jobs /\ pc[s] = "merged" /\ FlushOk(row[j], u)
  BY DEF TypeOK, Work, Advance
<1>2. u.loaded \in Row \cup {None} /\ u.new \in Row /\ u.at \in Nat
  BY <1>1 DEF Work
<1>3. u.new # None
  BY <1>2, CronConstants
<1>4. row[j] \in Row \cup {None} /\ (u.loaded # None => row[j] # None)
  BY <1>1, <1>3 DEF TypeOK, FlushOk
<1> QED
  BY <1>1, <1>2, <1>3, <1>4, FlushType

LEMMA AdvanceKeepsType ==
  ASSUME TypeOK, NEW s \in Schedulers, Advance(s)
  PROVE  TypeOK'
<1> DEFINE u == cur[s]
           j == u.job
           r == Flush(row[j], u)
<1>1. u \in Work /\ j \in Jobs /\ r \in Row
  BY AdvancedRow
<1>2. /\ row' = [row EXCEPT ![j] = r] /\ pc' = [pc EXCEPT ![s] = "committed"]
      /\ fired' = [fired EXCEPT ![j] = IF KeepsTime(u) THEN Asked(r, u.ts) ELSE u.ts]
      /\ unseen' = [t \in Schedulers |->
                      IF Backdates(u) THEN unseen[t] \ {j} ELSE unseen[t]]
      /\ pc[s] = "merged"
      /\ UNCHANGED <<clock, apiVars, copyVars, leaderVars, sleep, at, last_sync,
                     cache, heap, cur, faults>>
  BY DEF Advance
<1>3. u.ts \in Nat /\ Asked(r, u.ts) \in Nat
  BY <1>1, AskedType DEF Work
<1> HIDE DEF r
<1>4. row' \in [Jobs -> Row \cup {None}] /\ fired' \in [Jobs -> Nat]
  BY <1>1, <1>2, <1>3 DEF TypeOK
<1>5. /\ pc' \in [Schedulers -> Places] /\ unseen' \in [Schedulers -> SUBSET Jobs]
      /\ \A t \in Schedulers : cur'[t] # None <=> pc'[t] \in Working
  BY <1>2 DEF TypeOK, Places
<1> QED
  BY <1>2, <1>4, <1>5 DEF TypeOK, leaderVars

LEMMA RefreshKeepsType ==
  ASSUME TypeOK, NEW s \in Schedulers, Refresh(s)
  PROVE  TypeOK'
<1> USE DEF Refresh, tableVars, leaderVars
<1>1. cur[s] \in Work /\ cur[s].job \in Jobs
  BY DEF TypeOK, Work
<1>2. row[cur[s].job] \in Row
  BY <1>1 DEF TypeOK
<1>3. cur'[s] = [cur[s] EXCEPT !.new = row[cur[s].job]] /\ cur'[s] \in Work
  BY <1>1, <1>2 DEF TypeOK, Work
<1>4. cur' \in [Schedulers -> Work \cup {None}] /\ cur'[s] # None
  BY <1>3, CronConstants DEF TypeOK
<1>5. /\ pc' \in [Schedulers -> Places]
      /\ \A t \in Schedulers : cur'[t] # None <=> pc'[t] \in Working
  BY <1>4 DEF TypeOK, Places
<1> QED
  BY <1>4, <1>5 DEF TypeOK

LEMMA RescheduleKeepsType ==
  ASSUME TypeOK, NEW s \in Schedulers, SkipForbidden(s) \/ SendTask(s)
  PROVE  TypeOK'
<1> USE DEF SkipForbidden, SendTask, Reschedule, tableVars, leaderVars
<1>1. cur[s] \in Work
  BY DEF TypeOK
<1>2. cur[s].job \in Jobs /\ cur[s].new \in Row /\ cur[s].new.next_fire \in Nat
  BY <1>1 DEF Work, Row
<1>3. BagToSet(heap'[s]) \subseteq Nat \X Jobs
  BY <1>2, AddToBag DEF TypeOK
<1>4. DOMAIN heap' = Schedulers
      /\ \A t \in Schedulers : BagToSet(heap'[t]) \subseteq Nat \X Jobs
  BY <1>3 DEF TypeOK
<1>5. cache' \in [Schedulers -> [Jobs -> Row \cup {None}]]
  <2>1. cache' = [cache EXCEPT ![s] = [cache[s] EXCEPT ![cur[s].job] = cur[s].new]]
    OBVIOUS
  <2>2. [cache[s] EXCEPT ![cur[s].job] = cur[s].new] \in [Jobs -> Row \cup {None}]
    BY <1>2 DEF TypeOK
  <2> QED
    BY <2>1, <2>2 DEF TypeOK
<1>6. /\ pc' \in [Schedulers -> Places] /\ cur' \in [Schedulers -> Work \cup {None}]
      /\ \A t \in Schedulers :
            cur'[t] # None <=> pc'[t] \in Working
  BY DEF TypeOK, Places
<1> QED
  BY <1>4, <1>5, <1>6 DEF TypeOK

\* A cycle that ends, and one that raises.
LEMMA RestKeepsType ==
  ASSUME TypeOK, NEW s \in Schedulers, Rest(s)
  PROVE  pc' \in [Schedulers -> Places] /\ sleep' \in [Schedulers -> 0 .. Interval]
  BY CronConstants DEF TypeOK, Places

LEMMA AbortKeepsType ==
  ASSUME TypeOK, NEW s \in Schedulers, Abort(s)
  PROVE  /\ pc' \in [Schedulers -> Places] /\ sleep' \in [Schedulers -> 0 .. Interval]
         /\ cur' \in [Schedulers -> Work \cup {None}]
         /\ \A t \in Schedulers : cur'[t] # None <=> pc'[t] \in Working
<1>1. pc' \in [Schedulers -> Places] /\ sleep' \in [Schedulers -> 0 .. Interval]
  BY RestKeepsType DEF Abort
<1> QED
  BY <1>1 DEF TypeOK, Abort, Places

LEMMA CycleKeepsType ==
  ASSUME TypeOK, NEW s \in Schedulers, Cycle(s)
  PROVE  TypeOK'
<1> USE DEF tableVars, leaderVars, schedVars
<1>1. CASE BeginCycle(s)
  BY <1>1 DEF BeginCycle, TypeOK, Places
<1>2. CASE StandDown(s)
  BY <1>2, CronConstants DEF StandDown, TypeOK
<1>3. ASSUME NEW table \in Tables, SyncJobs(s, table) PROVE TypeOK'
  BY <1>3, TablesType, SyncKeepsType
<1>4. CASE BeginDispatch(s)
  BY <1>4 DEF BeginDispatch, TypeOK, Places
<1>5. ASSUME NEW e \in DueEntries(s),
             \/ PopSkip(s, e) \/ PopBroken(s, e)
             \/ \E table \in Tables : PopMerge(s, e, table[e[2]])
      PROVE  TypeOK'
  <2>1. CASE PopSkip(s, e)
    BY <2>1, PopKeepsHeap DEF PopSkip, TypeOK
  <2>2. CASE PopBroken(s, e)
    <3>1. sleep' \in [Schedulers -> 0 .. Interval] /\ pc' \in [Schedulers -> Places]
      BY <2>2, RestKeepsType DEF PopBroken
    <3> QED
      BY <2>2, <3>1, PopKeepsHeap DEF PopBroken, TypeOK
  <2>3. ASSUME NEW table \in Tables, PopMerge(s, e, table[e[2]]) PROVE TypeOK'
    <3>1. table[e[2]] \in Row \cup {None}
      BY TablesType DEF DueEntries, TypeOK
    <3> QED
      BY <2>3, <3>1, MergeKeepsType
  <2> QED
    BY <1>5, <2>1, <2>2, <2>3
<1>6. CASE Advance(s)
  BY <1>6, AdvanceKeepsType
<1>7. CASE Refresh(s)
  BY <1>7, RefreshKeepsType
<1>8. CASE AdvanceRaises(s)
  BY <1>8, AbortKeepsType DEF AdvanceRaises, TypeOK
<1>9. CASE SkipForbidden(s) \/ SendTask(s)
  BY <1>9, RescheduleKeepsType
<1>10. CASE CreateTask(s)
  BY <1>10 DEF CreateTask, TypeOK, Places
<1>11. CASE EndDispatch(s)
  <2>1. sleep' \in [Schedulers -> 0 .. Interval] /\ pc' \in [Schedulers -> Places]
    BY <1>11, RestKeepsType DEF EndDispatch
  <2> QED
    BY <1>11, <2>1 DEF EndDispatch, TypeOK
<1> QED
  BY <1>1, <1>2, <1>3, <1>4, <1>5, <1>6, <1>7, <1>8, <1>9, <1>10, <1>11 DEF Cycle

LEMMA FaultsKeepType ==
  ASSUME TypeOK, NEW s \in Schedulers,
         CallFails(s) \/ UpdateFails(s) \/ Crash(s) \/ SessionDies(s)
  PROVE  TypeOK'
<1> USE CronConstants DEF tableVars, leaderVars, schedVars, Fault
<1>1. CASE CallFails(s) \/ UpdateFails(s)
  BY <1>1, AbortKeepsType DEF CallFails, UpdateFails, TypeOK
<1>2. CASE Crash(s)
  <2>1. BagToSet(heap'[s]) \subseteq Nat \X Jobs
    BY <1>2 DEF Crash, TypeOK, BagToSet, EmptyBag, SetToBag
  <2>2. DOMAIN heap' = Schedulers
        /\ \A t \in Schedulers : BagToSet(heap'[t]) \subseteq Nat \X Jobs
    BY <1>2, <2>1 DEF Crash, TypeOK
  <2>3. cache' \in [Schedulers -> [Jobs -> Row \cup {None}]]
    BY <1>2 DEF Crash, TypeOK
  <2>4. /\ pc' \in [Schedulers -> Places] /\ sleep' \in [Schedulers -> 0 .. Interval]
        /\ cur' \in [Schedulers -> Work \cup {None}]
        /\ \A t \in Schedulers : cur'[t] # None <=> pc'[t] \in Working
    BY <1>2 DEF Crash, TypeOK, Places
  <2> QED
    BY <1>2, <2>2, <2>3, <2>4 DEF Crash, TypeOK
<1>3. CASE SessionDies(s)
  BY <1>3 DEF SessionDies, TypeOK
<1> QED
  BY <1>1, <1>2, <1>3

LEMMA TypeStep == TypeOK /\ [Next]_vars => TypeOK'
<1> SUFFICES ASSUME TypeOK, [Next]_vars PROVE TypeOK'
  OBVIOUS
<1> USE DEF tableVars, leaderVars, schedVars
<1>1. ASSUME NEW s \in Schedulers, Cycle(s) PROVE TypeOK'
  BY <1>1, CycleKeepsType
<1>2. ASSUME NEW j \in Jobs, NEW kind \in Edits, NEW c \in Periods, NEW table \in Tables,
             EditBegin(j, kind, c, table[j])
      PROVE  TypeOK'
  <2>1. table[j] \in Row \cup {None}
    BY TablesType
  <2> QED
    BY <1>2, <2>1, EditKeepsType
<1>3. CASE EditFails
  BY <1>3 DEF EditFails, TypeOK
<1>4. CASE Faults
  BY <1>4, FaultsKeepType DEF Faults
<1>5. CASE Replicate
  BY <1>5, CronConstants DEF Replicate, TypeOK
<1>6. CASE Tick
  <2>1. sleep' \in [Schedulers -> 0 .. Interval]
    BY <1>6, CronConstants DEF Tick, TypeOK
  <2>2. clock' \in Nat /\ lag' \in 0 .. MaxLag
    BY <1>6, CronConstants DEF Tick, TypeOK
  <2> QED
    BY <1>6, <2>1, <2>2 DEF Tick, TypeOK
<1>7. CASE UNCHANGED vars
  BY <1>7 DEF vars, TypeOK
<1> QED
  BY <1>1, <1>2, <1>3, <1>4, <1>5, <1>6, <1>7, CommitKeepsType DEF Next, Api

\* Types: whatever the API and the faults do, the rows, the cache, the heap and
\* the transactions of every scheduler keep their types.
THEOREM CronTypeCorrect == Spec => []TypeOK
  BY TypeInit, TypeStep, PTL DEF Spec

-----------------------------------------------------------------------------
(* The sync cursor. *)

\* What an edit leaves to the database to stamp, and how old it can be.
EditIsRecent ==
    edit # None =>
        /\ clock <= edit.at + TxnTime
        /\ edit.loaded = None => edit.new.updated_at = edit.at
        /\ edit.loaded # None /\ edit.new # None
              => edit.new.updated_at = edit.loaded.updated_at

WorkIsRecent ==
    \A s \in Schedulers : pc[s] = "merged" => clock <= cur[s].at + TxnTime

\* A cursor lies at least an overlap behind the clock, or before every stamp.
CursorIsBehind ==
    \A s \in Schedulers :
        /\ at[s] <= clock
        /\ last_sync[s] <= 0 \/ last_sync[s] <= clock - Overlap

\* What the replica has not got is no older than its lag and a transaction.
ReplicaIsRecent ==
    \A s \in Schedulers : \A j \in unseen[s] :
        HasReplica /\ row[j] # None /\ replica[j] # row[j]
            => row[j].updated_at >= clock - lag - TxnTime

Cursor == /\ EditIsRecent /\ WorkIsRecent /\ CursorIsBehind
          /\ ReplicaIsRecent /\ ChangesStayVisible
SyncInv == TypeOK /\ Cursor

LEMMA SyncInit == Init => Cursor
  BY CronConstants DEF Init, Cursor, EditIsRecent, WorkIsRecent, CursorIsBehind,
     ReplicaIsRecent, ChangesStayVisible

\* The steps that touch neither the table nor a cursor nor the time.
LEMMA OtherKeepsSync ==
  ASSUME SyncInv, UNCHANGED <<clock, row, replica, lag, edit, last_sync, unseen>>,
         \/ UNCHANGED at
         \/ \E s \in Schedulers : at' = [at EXCEPT ![s] = clock],
         \A s \in Schedulers : pc'[s] = "merged" =>
            (pc[s] = "merged" /\ cur'[s] = cur[s]) \/ cur'[s].at = clock
  PROVE  Cursor'
<1>1. EditIsRecent' /\ ReplicaIsRecent' /\ ChangesStayVisible'
  BY DEF SyncInv, Cursor, EditIsRecent, ReplicaIsRecent, ChangesStayVisible
<1>2. CursorIsBehind'
  BY DEF SyncInv, Cursor, CursorIsBehind, TypeOK
<1>3. WorkIsRecent'
  BY CronConstants DEF SyncInv, Cursor, WorkIsRecent, TypeOK
<1> QED
  BY <1>1, <1>2, <1>3 DEF Cursor

LEMMA BeginKeepsSync ==
  ASSUME SyncInv, NEW j \in Jobs, NEW kind \in Edits, NEW c \in Periods,
         NEW r \in Row \cup {None}, EditBegin(j, kind, c, r)
  PROVE  Cursor'
<1>1. /\ UNCHANGED <<clock, row, replica, lag, at, last_sync, unseen, pc, cur>>
      /\ edit'.at = clock /\ edit'.loaded = r /\ edit'.new = Edited(kind, c, r, clock)
      /\ (kind = "create") <=> (r = None)
  BY DEF EditBegin, schedVars
<1>2. WorkIsRecent' /\ CursorIsBehind' /\ ReplicaIsRecent' /\ ChangesStayVisible'
  BY <1>1 DEF SyncInv, Cursor, WorkIsRecent, CursorIsBehind, ReplicaIsRecent,
     ChangesStayVisible
<1>3. clock \in Nat
  BY DEF SyncInv, TypeOK
<1>4. /\ edit'.loaded = None => edit'.new.updated_at = edit'.at
      /\ edit'.loaded # None /\ edit'.new # None
            => edit'.new.updated_at = edit'.loaded.updated_at
  BY <1>1, <1>3, EditedType
<1>5. clock' <= edit'.at + TxnTime
  BY <1>1, <1>3, CronConstants
<1> QED
  BY <1>2, <1>4, <1>5 DEF Cursor, EditIsRecent

\* The step the overlap is for: the stamp of a commit is at most TxnTime old.
LEMMA CommitKeepsSync ==
  ASSUME SyncInv, EditCommit
  PROVE  Cursor'
<1> USE DEF EditCommit, leaderVars, schedVars
<1> DEFINE j == edit.job
           r == Flush(row[j], edit)
<1>1. edit.at \in Nat /\ j \in Jobs /\ clock \in Nat /\ lag \in Nat /\ TxnTime \in Nat
  BY CronConstants DEF SyncInv, TypeOK, Change
<1>2. r # None => r.updated_at = edit.at
  BY DEF Flush, SyncInv, Cursor, EditIsRecent
<1>3. clock <= edit.at + TxnTime
  BY DEF SyncInv, Cursor, EditIsRecent
<1>4. r # None => \A s \in Schedulers : r.updated_at >= last_sync[s]
  <2>1. TxnTime <= Overlap /\ Overlap \in Nat
    BY CronConstants
  <2> HIDE DEF r, EditCommit
  <2>2. ASSUME NEW s \in Schedulers PROVE edit.at >= last_sync[s]
    <3>1. /\ last_sync[s] \in Int
          /\ last_sync[s] <= 0 \/ last_sync[s] <= clock - Overlap
      BY DEF SyncInv, Cursor, CursorIsBehind, TypeOK
    <3> QED
      BY <1>1, <1>3, <2>1, <3>1
  <2> QED
    BY <1>2, <2>2
<1>5. EditIsRecent' /\ WorkIsRecent' /\ CursorIsBehind'
  BY DEF SyncInv, Cursor, EditIsRecent, WorkIsRecent, CursorIsBehind
<1>6. /\ row'[j] = r /\ \A k \in Jobs \ {j} : row'[k] = row[k]
      /\ \A s \in Schedulers : unseen'[s] = unseen[s] \cup {j} /\ unseen[s] \subseteq Jobs
      /\ UNCHANGED <<clock, replica, lag, last_sync>>
  BY <1>1 DEF SyncInv, TypeOK
<1> HIDE DEF r, EditCommit
<1>7. ReplicaIsRecent'
  BY <1>1, <1>2, <1>3, <1>6 DEF SyncInv, Cursor, ReplicaIsRecent
<1>8. ChangesStayVisible'
  BY <1>4, <1>6 DEF SyncInv, Cursor, ChangesStayVisible
<1> QED
  BY <1>5, <1>7, <1>8 DEF Cursor

\* What a sync does not read, or reads in an outdated copy, it leaves within
\* reach of the next one.
LEMMA SyncKeepsSync ==
  ASSUME SyncInv, NEW s \in Schedulers, NEW table \in Tables, SyncJobs(s, table)
  PROVE  Cursor'
<1> DEFINE read == UpdatedSince(table, last_sync[s])
<1>1. /\ UNCHANGED <<clock, row, replica, lag, edit, at, cur>>
      /\ last_sync'[s] = at[s] - Overlap
      /\ unseen'[s] = unseen[s] \ {j \in read : table[j] = row[j]}
      /\ unseen[s] \subseteq Jobs /\ pc'[s] = "recover"
      /\ \A t \in Schedulers \ {s} : /\ last_sync'[t] = last_sync[t] /\ pc'[t] = pc[t]
                                     /\ unseen'[t] = unseen[t]
  BY DEF SyncJobs, tableVars, SyncInv, TypeOK, Rewound
<1>2. /\ clock \in Nat /\ lag \in 0 .. MaxLag /\ TxnTime \in Nat /\ Overlap \in Nat
      /\ MaxLag \in Nat /\ at[s] \in Nat
      /\ HasReplica => TxnTime + MaxLag <= Overlap
  BY CronConstants DEF SyncInv, TypeOK
<1> HIDE DEF read
<1>3. EditIsRecent' /\ WorkIsRecent' /\ ReplicaIsRecent'
  BY <1>1 DEF SyncInv, Cursor, EditIsRecent, WorkIsRecent, ReplicaIsRecent
<1>4. CursorIsBehind'
  BY <1>1, <1>2 DEF SyncInv, Cursor, CursorIsBehind
<1>5. ChangesStayVisible'
  <2> SUFFICES ASSUME NEW k \in unseen'[s], row[k] # None, row[k].cron # NoCron
               PROVE  row[k].updated_at >= at[s] - Overlap
    BY <1>1 DEF SyncInv, Cursor, ChangesStayVisible
  <2>1. k \in unseen[s] /\ k \in Jobs /\ ~(k \in read /\ table[k] = row[k])
    BY <1>1
  <2>2. row[k].updated_at >= last_sync[s]
    BY <2>1 DEF SyncInv, Cursor, ChangesStayVisible
  <2>3. table[k] # row[k]
    BY <2>1, <2>2 DEF read, UpdatedSince
  <2>4. HasReplica /\ replica[k] # row[k]
    BY <2>3 DEF Tables
  <2>5. row[k].updated_at >= clock - lag - TxnTime /\ row[k].updated_at \in Nat
    BY <2>1, <2>4 DEF SyncInv, Cursor, ReplicaIsRecent, TypeOK, Row
  <2>6. at[s] <= clock
    BY DEF SyncInv, Cursor, CursorIsBehind
  <2> QED
    BY <1>2, <2>4, <2>5, <2>6
<1> QED
  BY <1>3, <1>4, <1>5 DEF Cursor

\* A firing stamps the row with the time of its own transaction, or else the row
\* is no edit's any more.
LEMMA AdvanceKeepsSync ==
  ASSUME SyncInv, NEW s \in Schedulers, Advance(s)
  PROVE  Cursor'
<1> DEFINE u == cur[s]
           j == u.job
           r == Flush(row[j], u)
<1>1. u \in Work /\ j \in Jobs /\ u.at \in Nat /\ u.new # None
  BY AdvancedRow, CronConstants DEF SyncInv, Work
<1>2. /\ UNCHANGED <<clock, replica, lag, edit, at, last_sync, cur>>
      /\ pc[s] = "merged" /\ pc'[s] = "committed"
      /\ \A t \in Schedulers \ {s} : pc'[t] = pc[t]
      /\ row'[j] = r /\ \A k \in Jobs \ {j} : row'[k] = row[k]
      /\ \A t \in Schedulers : /\ unseen[t] \subseteq Jobs
                               /\ unseen'[t] = IF Backdates(u) THEN unseen[t] \ {j}
                                               ELSE unseen[t]
  BY <1>1 DEF Advance, SyncInv, TypeOK
<1>3. EditIsRecent' /\ WorkIsRecent' /\ CursorIsBehind'
  BY <1>2 DEF SyncInv, Cursor, EditIsRecent, WorkIsRecent, CursorIsBehind
<1>4. ~Backdates(u) => r.updated_at = u.at
  BY <1>1 DEF Backdates, Flush
<1>5. /\ clock <= u.at + TxnTime
      /\ clock \in Nat /\ lag \in Nat /\ TxnTime \in Nat
      /\ TxnTime <= Overlap /\ Overlap \in Nat
  BY <1>2, CronConstants DEF SyncInv, Cursor, WorkIsRecent, TypeOK
<1> HIDE DEF r
<1>6. ReplicaIsRecent'
  <2> SUFFICES ASSUME NEW t \in Schedulers, NEW k \in unseen'[t], HasReplica,
                      row'[k] # None, replica[k] # row'[k]
               PROVE  row'[k].updated_at >= clock - lag - TxnTime
    BY <1>2 DEF ReplicaIsRecent
  <2>1. CASE k = j
    <3>1. row'[k].updated_at = u.at
      BY <1>2, <1>4, <2>1
    <3> QED
      BY <1>1, <1>5, <3>1
  <2>2. CASE k # j
    BY <1>2, <2>2 DEF SyncInv, Cursor, ReplicaIsRecent
  <2> QED
    BY <2>1, <2>2
<1>7. ~Backdates(u) => \A t \in Schedulers : r.updated_at >= last_sync[t]
  BY <1>1, <1>4, <1>5 DEF SyncInv, Cursor, CursorIsBehind, TypeOK
<1>8. ChangesStayVisible'
  BY <1>2, <1>7 DEF SyncInv, Cursor, ChangesStayVisible
<1> QED
  BY <1>3, <1>6, <1>8 DEF Cursor

LEMMA CrashKeepsSync ==
  ASSUME SyncInv, NEW s \in Schedulers, Crash(s)
  PROVE  Cursor'
<1>1. /\ UNCHANGED <<clock, row, replica, lag, edit, at, unseen>>
      /\ last_sync'[s] = 0 /\ pc'[s] = "sleep"
      /\ \A t \in Schedulers \ {s} :
            last_sync'[t] = last_sync[t] /\ pc'[t] = pc[t] /\ cur'[t] = cur[t]
  BY DEF Crash, tableVars, SyncInv, TypeOK
<1>2. EditIsRecent' /\ WorkIsRecent' /\ CursorIsBehind' /\ ReplicaIsRecent'
  BY <1>1 DEF SyncInv, Cursor, EditIsRecent, WorkIsRecent, CursorIsBehind,
     ReplicaIsRecent
<1>3. ChangesStayVisible'
  <2> SUFFICES ASSUME NEW t \in Schedulers, NEW k \in unseen[t],
                      row[k] # None, row[k].cron # NoCron
               PROVE  row[k].updated_at >= last_sync'[t]
    BY <1>1 DEF ChangesStayVisible
  <2>1. row[k].updated_at \in Nat
    BY DEF SyncInv, TypeOK, Row
  <2> QED
    BY <1>1, <2>1 DEF SyncInv, Cursor, ChangesStayVisible
<1> QED
  BY <1>2, <1>3 DEF Cursor

LEMMA TimeKeepsSync ==
  ASSUME SyncInv, Replicate \/ Tick
  PROVE  Cursor'
<1>1. CASE Replicate
  BY <1>1 DEF Replicate, schedVars, SyncInv, Cursor, EditIsRecent, WorkIsRecent,
     CursorIsBehind, ReplicaIsRecent, ChangesStayVisible
<1>2. CASE Tick
  <2>1. /\ UNCHANGED <<row, replica, edit, at, last_sync, pc, cur, unseen>>
        /\ clock' \in {clock, clock + 1} /\ clock \in Nat /\ lag \in Nat
        /\ HasReplica /\ replica # row => lag' = lag + 1
        /\ edit # None => clock < edit.at + TxnTime
        /\ \A s \in Schedulers : pc[s] = "merged" => clock < cur[s].at + TxnTime
    BY <1>2, CronConstants DEF Tick, SyncInv, TypeOK
  <2>2. TxnTime \in Nat /\ Overlap \in Nat
    BY CronConstants
  <2>3. EditIsRecent'
    BY <2>1, <2>2 DEF SyncInv, Cursor, EditIsRecent, TypeOK, Change
  <2>4. WorkIsRecent'
    BY <2>1, <2>2 DEF SyncInv, Cursor, WorkIsRecent, TypeOK, Work
  <2>5. CursorIsBehind'
    BY <2>1, <2>2 DEF SyncInv, Cursor, CursorIsBehind, TypeOK
  <2>6. ReplicaIsRecent'
    <3> SUFFICES ASSUME NEW s \in Schedulers, NEW j \in unseen[s], HasReplica,
                        row[j] # None, replica[j] # row[j]
                 PROVE  row[j].updated_at >= clock' - lag' - TxnTime
      BY <2>1 DEF ReplicaIsRecent
    <3>1. lag' = lag + 1
      BY <2>1
    <3>2. row[j].updated_at >= clock - lag - TxnTime /\ row[j].updated_at \in Nat
      BY DEF SyncInv, Cursor, ReplicaIsRecent, TypeOK, Row
    <3> QED
      BY <2>1, <2>2, <3>1, <3>2
  <2>7. ChangesStayVisible'
    BY <2>1 DEF SyncInv, Cursor, ChangesStayVisible
  <2> QED
    BY <2>3, <2>4, <2>5, <2>6, <2>7 DEF Cursor
<1> QED
  BY <1>1, <1>2

LEMMA CycleKeepsSync ==
  ASSUME SyncInv, NEW s \in Schedulers, Cycle(s)
  PROVE  Cursor'
<1> USE DEF tableVars, leaderVars, schedVars
<1>1. CASE BeginCycle(s) \/ StandDown(s) \/ BeginDispatch(s)
  BY <1>1, OtherKeepsSync DEF BeginCycle, StandDown, BeginDispatch, SyncInv, TypeOK
<1>2. ASSUME NEW table \in Tables, SyncJobs(s, table) PROVE Cursor'
  BY <1>2, SyncKeepsSync
<1>3. ASSUME NEW e \in DueEntries(s),
             \/ PopSkip(s, e) \/ PopBroken(s, e)
             \/ \E table \in Tables : PopMerge(s, e, table[e[2]])
      PROVE  Cursor'
  BY <1>3, OtherKeepsSync DEF PopSkip, PopBroken, PopMerge, SyncInv, TypeOK
<1>4. CASE Advance(s)
  BY <1>4, AdvanceKeepsSync
<1>5. CASE Refresh(s) \/ AdvanceRaises(s) \/ EndDispatch(s) \/ CreateTask(s)
  BY <1>5, OtherKeepsSync DEF Refresh, AdvanceRaises, EndDispatch, CreateTask, Abort,
     SyncInv, TypeOK
<1>6. CASE SkipForbidden(s) \/ SendTask(s)
  BY <1>6, OtherKeepsSync DEF SkipForbidden, SendTask, Reschedule, SyncInv, TypeOK
<1> QED
  BY <1>1, <1>2, <1>3, <1>4, <1>5, <1>6 DEF Cycle

LEMMA SyncStep == SyncInv /\ [Next]_vars => SyncInv'
<1> SUFFICES ASSUME SyncInv, [Next]_vars PROVE SyncInv'
  OBVIOUS
<1>1. TypeOK'
  BY TypeStep DEF SyncInv
<1>2. Cursor'
  <2> USE DEF tableVars, leaderVars, schedVars
  <2>1. ASSUME NEW s \in Schedulers, Cycle(s) PROVE Cursor'
    BY <2>1, CycleKeepsSync
  <2>2. ASSUME NEW j \in Jobs, NEW kind \in Edits, NEW c \in Periods,
               NEW table \in Tables, EditBegin(j, kind, c, table[j])
        PROVE  Cursor'
    <3>1. table[j] \in Row \cup {None}
      BY TablesType DEF SyncInv
    <3> QED
      BY <2>2, <3>1, BeginKeepsSync
  <2>3. CASE EditFails
    BY <2>3 DEF EditFails, SyncInv, Cursor, EditIsRecent, WorkIsRecent,
       CursorIsBehind, ReplicaIsRecent, ChangesStayVisible
  <2>4. ASSUME NEW s \in Schedulers, Crash(s) PROVE Cursor'
    BY <2>4, CrashKeepsSync
  <2>5. ASSUME NEW s \in Schedulers,
               CallFails(s) \/ UpdateFails(s) \/ SessionDies(s)
        PROVE  Cursor'
    BY <2>5, OtherKeepsSync DEF CallFails, UpdateFails, SessionDies, Abort, SyncInv,
       TypeOK
  <2>6. CASE UNCHANGED vars
    BY <2>6, OtherKeepsSync DEF vars
  <2> QED
    BY <2>1, <2>2, <2>3, <2>4, <2>5, <2>6, CommitKeepsSync, TimeKeepsSync
       DEF Next, Api, Faults
<1> QED
  BY <1>1, <1>2 DEF SyncInv

\* No edit is lost between two syncs: for every overlap that is at least as
\* long as a transaction and the replica's lag together, whatever is committed,
\* read from either database or restarted in between, an edit of a scheduled job
\* stays within reach of the cursor until it is read.
THEOREM CursorLosesNoEdit == Spec => []ChangesStayVisible
<1>1. Init => SyncInv
  BY TypeInit, SyncInit DEF SyncInv
<1>2. SyncInv => ChangesStayVisible
  BY DEF SyncInv, Cursor
<1> QED
  BY <1>1, <1>2, SyncStep, PTL DEF Spec

-----------------------------------------------------------------------------
(* The leader lock. *)

\* A scheduler in a cycle holds the lock.
ActiveHoldsLock ==
    /\ pc \in [Schedulers -> Places]
    /\ \A s \in Schedulers : pc[s] # "sleep" => lock = s

LEMMA ActiveInit == Init => ActiveHoldsLock
  BY DEF Init, ActiveHoldsLock, Places

LEMMA ActiveStep ==
  ASSUME "session_in_cycle" \notin FaultKinds
  PROVE  ActiveHoldsLock /\ [Next]_vars => ActiveHoldsLock'
<1> SUFFICES ASSUME ActiveHoldsLock, [Next]_vars PROVE ActiveHoldsLock'
  OBVIOUS
<1> USE DEF ActiveHoldsLock, Places, tableVars, leaderVars, schedVars
<1>1. ASSUME NEW s \in Schedulers, Cycle(s) PROVE ActiveHoldsLock'
  <2>1. CASE BeginCycle(s)
    BY <2>1, CronConstants DEF BeginCycle, MayLead
  <2>2. CASE StandDown(s)
    BY <2>2 DEF StandDown
  <2>3. ASSUME NEW table \in Tables, SyncJobs(s, table) PROVE ActiveHoldsLock'
    BY <2>3 DEF SyncJobs
  <2>4. CASE BeginDispatch(s)
    BY <2>4 DEF BeginDispatch
  <2>5. ASSUME NEW e \in DueEntries(s),
               \/ PopSkip(s, e) \/ PopBroken(s, e)
               \/ \E table \in Tables : PopMerge(s, e, table[e[2]])
        PROVE  ActiveHoldsLock'
    BY <2>5 DEF PopSkip, PopBroken, PopMerge
  <2>6. CASE Advance(s) \/ Refresh(s) \/ CreateTask(s)
    BY <2>6 DEF Advance, Refresh, CreateTask
  <2>7. CASE AdvanceRaises(s) \/ EndDispatch(s)
    BY <2>7 DEF AdvanceRaises, EndDispatch, Abort
  <2>8. CASE SkipForbidden(s) \/ SendTask(s)
    BY <2>8 DEF SkipForbidden, SendTask, Reschedule
  <2> QED
    BY <1>1, <2>1, <2>2, <2>3, <2>4, <2>5, <2>6, <2>7, <2>8 DEF Cycle
<1>2. CASE Api
  BY <1>2 DEF Api, EditBegin, EditCommit, EditFails
<1>3. ASSUME NEW s \in Schedulers, CallFails(s) \/ UpdateFails(s)
      PROVE  ActiveHoldsLock'
  BY <1>3 DEF CallFails, UpdateFails, Abort
<1>4. ASSUME NEW s \in Schedulers, Crash(s) PROVE ActiveHoldsLock'
  BY <1>4 DEF Crash, Abort
<1>5. ASSUME NEW s \in Schedulers, SessionDies(s) PROVE ActiveHoldsLock'
  BY <1>5 DEF SessionDies, Fault
<1>6. CASE Replicate \/ Tick
  BY <1>6 DEF Replicate, Tick
<1>7. CASE UNCHANGED vars
  BY <1>7 DEF vars
<1> QED
  BY <1>1, <1>2, <1>3, <1>4, <1>5, <1>6, <1>7 DEF Next, Faults

\* As long as no session dies under a running cycle, a single scheduler
\* dispatches: the lock is checked when a cycle starts, and everything else that
\* releases it (a crash, a session that dies between two cycles) ends the cycle.
THEOREM SingleLeader ==
  ASSUME "session_in_cycle" \notin FaultKinds
  PROVE  Spec => []OneActiveScheduler
<1>1. ActiveHoldsLock => OneActiveScheduler
  BY DEF ActiveHoldsLock, OneActiveScheduler
<1> QED
  BY <1>1, ActiveInit, ActiveStep, PTL DEF Spec

-----------------------------------------------------------------------------
(***************************************************************************)
(* Firings.  The row of a job and every copy of it a scheduler may pop are *)
(* ahead of the job's last firing.  A copy falls behind when its job is    *)
(* fired, until it is replaced by the row: at once by Reschedule, or after *)
(* a cycle that was cut short by a sync that reads the row.  The replica   *)
(* falls behind too, and catches up while the scheduler sleeps.            *)
(***************************************************************************)

LEMMA DivisionRoundsDown ==
  ASSUME NEW c \in Nat, c > 0, NEW t \in Nat
  PROVE  (t \div c + 1) * c > t
  OBVIOUS

\* next_cron_time is strictly later than the time it is given.
LEMMA NextCronTimeLater ==
  ASSUME NEW c \in Periods, NEW t \in Nat
  PROVE  NextCronTime(c, t) \in Nat /\ NextCronTime(c, t) > t
<1>1. c \in Nat /\ c > 0
  BY CronConstants
<1> QED
  BY <1>1, DivisionRoundsDown, NextCronTimeType DEF NextCronTime

\* Scheduler s has fired j and not put it back into its cache yet.
InFlight(s, j) == pc[s] \in {"committed", "advanced", "created"} /\ cur[s].job = j

Ahead(r, j) == r # None /\ r.next_fire # Never => r.next_fire > fired[j]

RowIsAhead ==
    \A j \in Jobs : Ahead(row[j], j) /\ (row[j] = None => fired[j] = 0)

CacheIsAhead ==
    \A s \in Schedulers, j \in Jobs : ~InFlight(s, j) => Ahead(cache[s][j], j)

WorkIsAhead ==
    \A s \in Schedulers :
        /\ pc[s] = "merged" => /\ cur[s].ts > fired[cur[s].job]
                               /\ cur[s].new.next_fire > cur[s].ts
        /\ pc[s] \in {"advanced", "created"} => Ahead(cur[s].new, cur[s].job)

\* A replica without the last firing is younger than the sleep that follows it.
ReplicaIsAhead ==
    HasReplica => \A s \in Schedulers, j \in Jobs :
        \/ Ahead(replica[j], j)
        \/ replica # row /\ pc[s] # "sync" /\ (pc[s] = "sleep" => sleep[s] + lag >= Interval)

Forward == RowIsAhead /\ CacheIsAhead /\ WorkIsAhead /\ ReplicaIsAhead

LEMMA ForwardInit == Init => Forward
<1> SUFFICES ASSUME Init PROVE Forward
  OBVIOUS
<1>1. RowIsAhead
  <2> SUFFICES ASSUME NEW j \in Jobs, row[j] # None, row[j].next_fire # Never
               PROVE  row[j].next_fire > fired[j]
    BY DEF RowIsAhead, Ahead, Init
  <2>1. fired[j] = 0 /\ row[j] \in Row
    BY TypeInit DEF Init, TypeOK
  <2> QED
    BY <2>1 DEF Row, Never
<1>2. CacheIsAhead /\ WorkIsAhead
  BY DEF Init, CacheIsAhead, WorkIsAhead, Ahead
<1>3. ReplicaIsAhead
  BY <1>1 DEF Init, ReplicaIsAhead, RowIsAhead
<1> QED
  BY <1>1, <1>2, <1>3 DEF Forward

\* A step that moves neither firings nor copies nor work.
LEMMA OtherKeepsForward ==
  ASSUME TypeOK, Forward, UNCHANGED <<row, fired, cache, replica, lag>>,
         \A s \in Schedulers :
            \/ pc'[s] = pc[s] /\ cur'[s] = cur[s]
            \/ /\ pc[s] \notin {"committed", "advanced", "created"}
               /\ pc'[s] \in {"sleep", "sync", "recover", "pop"}
            \/ pc[s] = "advanced" /\ pc'[s] = "created" /\ cur'[s] = cur[s],
         \A s \in Schedulers :
            \/ sleep'[s] = sleep[s] /\ pc'[s] = pc[s]
            \/ sleep'[s] = Interval /\ pc'[s] = "sleep"
            \/ pc'[s] \notin {"sleep", "sync"}
            \/ pc'[s] = "sync" /\ (HasReplica => \A j \in Jobs : Ahead(replica[j], j))
  PROVE  Forward'
<1>1. RowIsAhead'
  BY DEF Forward, RowIsAhead, Ahead
<1>2. CacheIsAhead'
  <2> SUFFICES ASSUME NEW s \in Schedulers, NEW j \in Jobs, ~InFlight(s, j)'
               PROVE  Ahead(cache[s][j], j)
    BY DEF CacheIsAhead, Ahead
  <2>1. ~InFlight(s, j)
    BY DEF InFlight
  <2> QED
    BY <2>1 DEF Forward, CacheIsAhead
<1>3. WorkIsAhead'
  BY DEF Forward, WorkIsAhead, Ahead
<1>4. ReplicaIsAhead'
  <2> SUFFICES ASSUME HasReplica, NEW s \in Schedulers, NEW j \in Jobs, ~Ahead(replica[j], j)
               PROVE  /\ replica # row /\ pc'[s] # "sync"
                      /\ pc'[s] = "sleep" => sleep'[s] + lag >= Interval
    BY DEF ReplicaIsAhead, Ahead
  <2>1. /\ replica # row /\ pc[s] # "sync"
        /\ pc[s] = "sleep" => sleep[s] + lag >= Interval
    BY DEF Forward, ReplicaIsAhead
  <2>2. lag \in Nat /\ Interval \in Nat
    BY CronConstants DEF TypeOK
  <2> QED
    BY <2>1, <2>2
<1> QED
  BY <1>1, <1>2, <1>3, <1>4 DEF Forward

\* A cycle begins after a sleep that was longer than the lag.
LEMMA BeginKeepsForward ==
  ASSUME HasReplica => MaxLag < Interval,
         TypeOK, Forward, NEW s \in Schedulers, BeginCycle(s)
  PROVE  Forward'
<1>1. HasReplica => \A j \in Jobs : Ahead(replica[j], j)
  <2> SUFFICES ASSUME HasReplica, NEW j \in Jobs, ~Ahead(replica[j], j) PROVE FALSE
    OBVIOUS
  <2>1. sleep[s] + lag >= Interval /\ sleep[s] = 0
    BY DEF BeginCycle, Forward, ReplicaIsAhead
  <2>2. lag \in 0 .. MaxLag /\ Interval \in Nat /\ MaxLag \in Nat /\ MaxLag < Interval
    BY CronConstants DEF TypeOK
  <2> QED
    BY <2>1, <2>2
<1>2. /\ UNCHANGED <<row, fired, cache, replica, lag, sleep, cur>>
      /\ pc[s] = "sleep" /\ pc'[s] = "sync" /\ \A t \in Schedulers \ {s} : pc'[t] = pc[t]
  BY DEF BeginCycle, tableVars, TypeOK
<1> QED
  BY <1>1, <1>2, OtherKeepsForward

LEMMA SyncKeepsForward ==
  ASSUME TypeOK, Forward, NEW s \in Schedulers, NEW table \in Tables, SyncJobs(s, table)
  PROVE  Forward'
<1>1. /\ UNCHANGED <<row, fired, replica, lag, sleep, cur>>
      /\ pc[s] = "sync" /\ pc'[s] = "recover"
      /\ \A t \in Schedulers \ {s} : pc'[t] = pc[t] /\ cache'[t] = cache[t]
      /\ \A j \in Jobs : cache'[s][j] \in {None, table[j], cache[s][j]}
  BY DEF SyncJobs, tableVars, TypeOK
<1>2. RowIsAhead' /\ WorkIsAhead' /\ ReplicaIsAhead'
  BY <1>1 DEF Forward, RowIsAhead, WorkIsAhead, ReplicaIsAhead, Ahead
<1>3. \A j \in Jobs : Ahead(table[j], j)
  BY <1>1 DEF Tables, Forward, RowIsAhead, ReplicaIsAhead
<1>4. CacheIsAhead'
  <2> SUFFICES ASSUME NEW t \in Schedulers, NEW j \in Jobs, ~InFlight(t, j)'
               PROVE  Ahead(cache[t][j], j)'
    BY DEF CacheIsAhead
  <2>1. ~InFlight(t, j)
    BY <1>1 DEF InFlight
  <2>2. Ahead(cache[t][j], j)
    BY <2>1 DEF Forward, CacheIsAhead
  <2> QED
    BY <1>1, <1>3, <2>2 DEF Ahead
<1> QED
  BY <1>2, <1>4 DEF Forward

LEMMA MergeKeepsForward ==
  ASSUME TypeOK, Forward, NEW s \in Schedulers, NEW e \in DueEntries(s), NEW r,
         PopMerge(s, e, r)
  PROVE  Forward'
<1> USE DEF PopMerge, tableVars, leaderVars
<1> DEFINE c == cache[s][e[2]]
<1>1. e[1] \in Nat /\ e[2] \in Jobs /\ e[1] <= at[s] /\ at[s] \in Nat
  BY DEF DueEntries, TypeOK
<1>2. c \in Row /\ c.cron \in Periods /\ c.next_fire = e[1] /\ e[1] # Never
  BY <1>1 DEF IsBroken, IsStale, Row, TypeOK
<1>3. e[1] > fired[e[2]]
  BY <1>1, <1>2 DEF Forward, CacheIsAhead, InFlight, Ahead
<1>4. Advanced(s, c).next_fire = NextCronTime(c.cron, at[s])
  BY <1>2 DEF Advanced, Row
<1>5. Advanced(s, c).next_fire > e[1]
  BY <1>1, <1>2, <1>4, NextCronTimeLater
<1>6. /\ cur'[s].job = e[2] /\ cur'[s].ts = e[1] /\ cur'[s].new = Advanced(s, c)
      /\ pc[s] = "pop" /\ pc'[s] = "merged"
      /\ UNCHANGED <<row, fired, cache, replica, lag, sleep>>
      /\ \A t \in Schedulers \ {s} : cur'[t] = cur[t] /\ pc'[t] = pc[t]
  BY DEF TypeOK
<1> HIDE DEF PopMerge
<1>7. RowIsAhead' /\ ReplicaIsAhead'
  BY <1>6 DEF Forward, RowIsAhead, ReplicaIsAhead, Ahead
<1>8. CacheIsAhead'
  BY <1>6 DEF Forward, CacheIsAhead, InFlight, Ahead
<1>9. WorkIsAhead'
  BY <1>3, <1>5, <1>6 DEF Forward, WorkIsAhead, Ahead
<1> QED
  BY <1>7, <1>8, <1>9 DEF Forward

\* The row an advance leaves is ahead of the firing it made, and of the firing
\* an edit asked for when one has moved the schedule meanwhile.
LEMMA AdvancedIsAhead ==
  ASSUME TypeOK, WorkIsAhead, NEW s \in Schedulers, Advance(s)
  PROVE  /\ cur[s].job \in Jobs
         /\ \A k \in Jobs \ {cur[s].job} : fired'[k] = fired[k] /\ row'[k] = row[k]
         /\ row'[cur[s].job] # None
         /\ row'[cur[s].job].next_fire # Never
              => row'[cur[s].job].next_fire > fired'[cur[s].job]
<1> DEFINE j == cur[s].job
           u == cur[s]
           r == Flush(row[j], u)
<1>1. u \in Work /\ j \in Jobs /\ r \in Row /\ r # None
  BY AdvancedRow
<1>2. /\ u.ts \in Nat /\ u.new \in Row /\ u.new # None /\ u.new.next_fire \in Nat
      /\ u.loaded \in Row \cup {None} /\ u.new.next_fire > u.ts /\ pc[s] = "merged"
  BY <1>1, CronConstants DEF Work, Row, WorkIsAhead, Advance
<1>3. /\ row'[j] = r /\ fired'[j] = IF KeepsTime(u) THEN Asked(r, u.ts) ELSE u.ts
      /\ \A k \in Jobs \ {j} : fired'[k] = fired[k] /\ row'[k] = row[k]
  BY <1>1 DEF Advance, TypeOK
<1>4. CASE KeepsTime(u)
  BY <1>1, <1>2, <1>3, <1>4, AskedType
<1>5. CASE ~KeepsTime(u)
  <2>1. r.next_fire = u.new.next_fire
    BY <1>2, <1>5 DEF Flush, KeepsTime
  <2> QED
    BY <1>1, <1>2, <1>3, <1>5, <2>1
<1> QED
  BY <1>4, <1>5

LEMMA AdvanceKeepsForward ==
  ASSUME \A a, b \in Schedulers : a = b,
         TypeOK, Forward, NEW s \in Schedulers, Advance(s)
  PROVE  Forward'
<1> DEFINE j == cur[s].job
<1>1. /\ j \in Jobs
      /\ \A k \in Jobs \ {j} : fired'[k] = fired[k] /\ row'[k] = row[k]
      /\ row'[j] # None
      /\ row'[j].next_fire # Never => row'[j].next_fire > fired'[j]
  BY AdvancedIsAhead DEF Forward
<1>2. /\ pc[s] = "merged" /\ pc'[s] = "committed"
      /\ UNCHANGED <<cache, cur, replica, lag, sleep>>
  BY DEF Advance, TypeOK
<1>3. RowIsAhead'
  BY <1>1 DEF Forward, RowIsAhead, Ahead
<1>4. CacheIsAhead'
  <2> SUFFICES ASSUME NEW k \in Jobs, ~InFlight(s, k)'
               PROVE  Ahead(cache[s][k], k)'
    BY DEF CacheIsAhead
  <2>1. k # j /\ ~InFlight(s, k)
    BY <1>2 DEF InFlight
  <2> QED
    BY <1>1, <1>2, <2>1 DEF Forward, CacheIsAhead, Ahead
<1>5. WorkIsAhead'
  BY <1>2 DEF WorkIsAhead
<1>6. ReplicaIsAhead'
  <2> SUFFICES ASSUME NEW k \in Jobs, ~Ahead(replica[k], k)' PROVE replica # row'
    BY <1>2 DEF ReplicaIsAhead
  <2> QED
    BY <1>2, <1>3 DEF RowIsAhead, Ahead
<1> QED
  BY <1>3, <1>4, <1>5, <1>6 DEF Forward

\* The refresh returns the row, whatever an edit has made of it meanwhile.
LEMMA RefreshKeepsForward ==
  ASSUME TypeOK, Forward, NEW s \in Schedulers, Refresh(s)
  PROVE  Forward'
<1>1. /\ pc[s] = "committed" /\ pc'[s] = "advanced" /\ cur[s].job \in Jobs
      /\ cur'[s].job = cur[s].job /\ cur'[s].new = row[cur[s].job]
      /\ \A t \in Schedulers \ {s} : cur'[t] = cur[t] /\ pc'[t] = pc[t]
      /\ UNCHANGED <<row, fired, cache, replica, lag, sleep>>
  BY DEF Refresh, tableVars, TypeOK, Work
<1>2. RowIsAhead' /\ ReplicaIsAhead'
  BY <1>1 DEF Forward, RowIsAhead, ReplicaIsAhead, Ahead
<1>3. CacheIsAhead'
  BY <1>1 DEF Forward, CacheIsAhead, InFlight, Ahead
<1>4. WorkIsAhead'
  BY <1>1 DEF Forward, WorkIsAhead, RowIsAhead, Ahead
<1> QED
  BY <1>2, <1>3, <1>4 DEF Forward

LEMMA RescheduleKeepsForward ==
  ASSUME TypeOK, Forward, NEW s \in Schedulers, SkipForbidden(s) \/ SendTask(s)
  PROVE  Forward'
<1> USE DEF SkipForbidden, SendTask, Reschedule, tableVars
<1>1. /\ pc[s] \in {"advanced", "created"} /\ cur[s].job \in Jobs
      /\ cache'[s] = [cache[s] EXCEPT ![cur[s].job] = cur[s].new]
      /\ pc'[s] = "pop" /\ cache[s] \in [Jobs -> Row \cup {None}]
      /\ \A t \in Schedulers \ {s} :
            cur'[t] = cur[t] /\ pc'[t] = pc[t] /\ cache'[t] = cache[t]
      /\ UNCHANGED <<row, fired, replica, lag, sleep>>
  BY DEF TypeOK, Work
<1> HIDE DEF SkipForbidden, SendTask, Reschedule
<1>2. RowIsAhead' /\ WorkIsAhead' /\ ReplicaIsAhead'
  BY <1>1 DEF Forward, RowIsAhead, WorkIsAhead, ReplicaIsAhead, Ahead
<1>3. CacheIsAhead'
  <2> SUFFICES ASSUME NEW t \in Schedulers, NEW k \in Jobs, ~InFlight(t, k)'
               PROVE  Ahead(cache[t][k], k)'
    BY DEF CacheIsAhead
  <2>1. CASE t = s /\ k = cur[s].job
    BY <1>1, <2>1 DEF Forward, WorkIsAhead, Ahead
  <2>2. CASE t = s /\ k # cur[s].job
    BY <1>1, <2>2 DEF Forward, CacheIsAhead, InFlight, Ahead
  <2>3. CASE t # s
    BY <1>1, <2>3 DEF Forward, CacheIsAhead, InFlight, Ahead
  <2> QED
    BY <2>1, <2>2, <2>3
<1> QED
  BY <1>2, <1>3 DEF Forward

\* A deleted job has no firing on record that a copy left behind could repeat.
LEMMA RaiseKeepsForward ==
  ASSUME TypeOK, Forward, NEW s \in Schedulers, AdvanceRaises(s)
  PROVE  Forward'
<1>1. /\ UNCHANGED <<row, fired, cache, replica, lag>>
      /\ pc'[s] = "sleep" /\ sleep'[s] = Interval
      /\ \A t \in Schedulers \ {s} :
            cur'[t] = cur[t] /\ pc'[t] = pc[t] /\ sleep'[t] = sleep[t]
  BY DEF AdvanceRaises, Abort, tableVars, TypeOK
<1>2. CASE pc[s] = "merged"
  BY <1>1, <1>2, OtherKeepsForward
<1>3. CASE pc[s] # "merged"
  <2>1. pc[s] = "committed" /\ row[cur[s].job] = None /\ cur[s].job \in Jobs
    BY <1>3 DEF AdvanceRaises, TypeOK, Work
  <2>2. RowIsAhead' /\ WorkIsAhead'
    BY <1>1 DEF Forward, RowIsAhead, WorkIsAhead, Ahead
  <2>3. CacheIsAhead'
    <3> SUFFICES ASSUME NEW t \in Schedulers, NEW k \in Jobs, ~InFlight(t, k)'
                 PROVE  Ahead(cache[t][k], k)
      BY <1>1 DEF CacheIsAhead, Ahead
    <3>1. CASE ~InFlight(t, k)
      BY <3>1 DEF Forward, CacheIsAhead
    <3>2. CASE InFlight(t, k)
      <4>1. t = s /\ fired[k] = 0
        BY <1>1, <2>1, <3>2 DEF InFlight, Forward, RowIsAhead
      <4>2. cache[t][k] # None => cache[t][k].next_fire \in Nat
        BY DEF TypeOK, Row
      <4> QED
        BY <4>1, <4>2 DEF Ahead, Never
    <3> QED
      BY <3>1, <3>2
  <2>4. ReplicaIsAhead'
    <3>1. lag \in Nat /\ Interval \in Nat
      BY CronConstants DEF TypeOK
    <3> QED
      BY <1>1, <2>1, <3>1 DEF Forward, ReplicaIsAhead, Ahead
  <2> QED
    BY <2>2, <2>3, <2>4 DEF Forward
<1> QED
  BY <1>2, <1>3

\* An edit takes firings back and makes none.
LEMMA CommitKeepsForward ==
  ASSUME TypeOK, Forward, EditCommit
  PROVE  Forward'
<1>0. PICK j : j = edit.job
  OBVIOUS
<1> DEFINE r == Flush(row[j], edit)
<1>1. j \in Jobs /\ edit \in Change
  BY <1>0 DEF EditCommit, TypeOK, Change
<1>2. r \in Row \cup {None}
  <2>1. TypeOK' /\ row'[j] = r
    BY <1>0, <1>1, CommitKeepsType DEF EditCommit, TypeOK
  <2> QED
    BY <1>1, <2>1 DEF TypeOK
<1>3. /\ row'[j] = r /\ \A k \in Jobs \ {j} : row'[k] = row[k] /\ fired'[k] = fired[k]
      /\ fired'[j] = Asked(r, fired[j])
      /\ UNCHANGED <<cache, cur, pc, sleep, replica, lag>>
  BY <1>0, <1>1 DEF EditCommit, schedVars, TypeOK
<1> HIDE DEF r
<1>4. \A k \in Jobs : fired[k] \in Nat /\ fired'[k] \in Nat /\ fired'[k] <= fired[k]
  <2>1. \A k \in Jobs : fired[k] \in Nat
    BY DEF TypeOK
  <2>2. fired'[j] \in Nat /\ fired'[j] <= fired[j]
    BY <1>1, <1>2, <1>3, <2>1, AskedType
  <2> QED
    BY <1>3, <2>1, <2>2
<1>5. \A x \in Row \cup {None}, k \in Jobs : Ahead(x, k) => (x # None /\ x.next_fire # Never
                                                              => x.next_fire > fired'[k])
  <2> SUFFICES ASSUME NEW x \in Row, NEW k \in Jobs, x.next_fire > fired[k]
               PROVE  x.next_fire > fired'[k]
    BY DEF Ahead
  <2>1. x.next_fire \in Nat
    BY DEF Row
  <2> QED
    BY <1>4, <2>1
<1>6. RowIsAhead'
  <2>1. Ahead(row[j], j)' /\ (row'[j] = None => fired'[j] = 0)
    <3>1. r # None /\ r.next_fire # Never => r.next_fire > Asked(r, fired[j])
      BY <1>1, <1>2, <1>4, AskedType
    <3>2. r = None => Asked(r, fired[j]) = 0
      BY DEF Asked
    <3> QED
      BY <1>3, <3>1, <3>2 DEF Ahead
  <2>2. \A k \in Jobs \ {j} : Ahead(row[k], k)' /\ (row'[k] = None => fired'[k] = 0)
    BY <1>3 DEF Forward, RowIsAhead, Ahead
  <2> QED
    BY <1>1, <2>1, <2>2 DEF RowIsAhead
<1>7. CacheIsAhead'
  BY <1>3, <1>5 DEF Forward, CacheIsAhead, InFlight, Ahead, TypeOK
<1>8. WorkIsAhead'
  <2> SUFFICES ASSUME NEW s \in Schedulers, cur[s] # None
               PROVE  /\ pc[s] = "merged" => /\ cur[s].ts > fired'[cur[s].job]
                                             /\ cur[s].new.next_fire > cur[s].ts
                      /\ pc[s] \in {"advanced", "created"} => Ahead(cur[s].new, cur[s].job)'
    BY <1>3 DEF WorkIsAhead, TypeOK
  <2>1. cur[s].job \in Jobs /\ cur[s].ts \in Nat /\ cur[s].new.next_fire \in Nat
    BY DEF TypeOK, Work, Row
  <2> QED
    BY <1>3, <1>4, <2>1 DEF Forward, WorkIsAhead, Ahead
<1>9. ReplicaIsAhead'
  <2> SUFFICES ASSUME HasReplica, NEW s \in Schedulers, NEW k \in Jobs,
                      ~Ahead(replica[k], k)'
               PROVE  /\ replica # row' /\ pc[s] # "sync"
                      /\ pc[s] = "sleep" => sleep[s] + lag >= Interval
    BY <1>3 DEF ReplicaIsAhead
  <2>1. ~Ahead(replica[k], k)
    BY <1>3, <1>5 DEF Ahead, TypeOK
  <2>2. replica # row'
    BY <1>3, <1>6 DEF RowIsAhead, Ahead
  <2> QED
    BY <2>1, <2>2 DEF Forward, ReplicaIsAhead
<1> QED
  BY <1>6, <1>7, <1>8, <1>9 DEF Forward

\* A process that starts anew does not wait: it may be faster than the replica.
LEMMA CrashKeepsForward ==
  ASSUME ~HasReplica, TypeOK, Forward, NEW s \in Schedulers, Crash(s)
  PROVE  Forward'
<1>1. /\ pc'[s] = "sleep" /\ \A j \in Jobs : cache'[s][j] = None
      /\ \A t \in Schedulers \ {s} :
            cur'[t] = cur[t] /\ pc'[t] = pc[t] /\ cache'[t] = cache[t]
      /\ UNCHANGED <<row, fired>>
  BY DEF Crash, tableVars, TypeOK
<1>2. RowIsAhead' /\ WorkIsAhead' /\ ReplicaIsAhead'
  BY <1>1 DEF Forward, RowIsAhead, WorkIsAhead, ReplicaIsAhead, Ahead
<1>3. CacheIsAhead'
  BY <1>1 DEF Forward, CacheIsAhead, InFlight, Ahead
<1> QED
  BY <1>2, <1>3 DEF Forward

LEMMA TimeKeepsForward ==
  ASSUME TypeOK, Forward, Replicate \/ Tick
  PROVE  Forward'
<1>1. UNCHANGED <<row, fired, cache, cur, pc>>
  BY DEF Replicate, Tick, schedVars
<1>2. RowIsAhead' /\ WorkIsAhead' /\ CacheIsAhead'
  BY <1>1 DEF Forward, RowIsAhead, WorkIsAhead, CacheIsAhead, InFlight, Ahead
<1>3. CASE Replicate
  <2>1. ReplicaIsAhead'
    BY <1>1, <1>3 DEF Replicate, Forward, RowIsAhead, ReplicaIsAhead, Ahead
  <2> QED
    BY <1>2, <2>1 DEF Forward
<1>4. CASE Tick
  <2> SUFFICES ASSUME HasReplica, NEW s \in Schedulers, NEW j \in Jobs, ~Ahead(replica[j], j)
               PROVE  /\ replica # row /\ pc[s] # "sync"
                      /\ pc[s] = "sleep" => sleep'[s] + lag' >= Interval
    BY <1>1, <1>2, <1>4 DEF Tick, Forward, ReplicaIsAhead, Ahead
  <2>1. /\ replica # row /\ pc[s] # "sync"
        /\ pc[s] = "sleep" => sleep[s] + lag >= Interval
    BY DEF Forward, ReplicaIsAhead
  <2>2. /\ lag' = lag + 1 /\ lag \in Nat /\ sleep[s] \in Nat /\ Interval \in Nat
        /\ sleep'[s] = IF sleep[s] = 0 THEN 0 ELSE sleep[s] - 1
    BY <1>4, <2>1, CronConstants DEF Tick, TypeOK
  <2> QED
    BY <2>1, <2>2
<1> QED
  BY <1>3, <1>4

LEMMA ForwardStep ==
  ASSUME \A a, b \in Schedulers : a = b, "call" \notin FaultKinds,
         HasReplica => MaxLag < Interval /\ "crash" \notin FaultKinds,
         TypeOK, Forward, [Next]_vars
  PROVE  Forward'
<1> USE DEF tableVars, leaderVars, schedVars
<1>1. ASSUME NEW s \in Schedulers, Cycle(s) PROVE Forward'
  <2>1. CASE StandDown(s) \/ BeginDispatch(s)
    BY <2>1, OtherKeepsForward DEF StandDown, BeginDispatch, TypeOK
  <2>2. ASSUME NEW table \in Tables, SyncJobs(s, table) PROVE Forward'
    BY <2>2, SyncKeepsForward
  <2>3. ASSUME NEW e \in DueEntries(s),
               \/ PopSkip(s, e) \/ PopBroken(s, e)
               \/ \E table \in Tables : PopMerge(s, e, table[e[2]])
        PROVE  Forward'
    <3>1. CASE PopSkip(s, e)
      BY <3>1, OtherKeepsForward DEF PopSkip
    <3>2. CASE PopBroken(s, e)
      BY <3>2, OtherKeepsForward DEF PopBroken, TypeOK
    <3> QED
      BY <2>3, <3>1, <3>2, MergeKeepsForward
  <2>4. CASE EndDispatch(s) \/ CreateTask(s)
    BY <2>4, OtherKeepsForward DEF EndDispatch, CreateTask, TypeOK
  <2> QED
    BY <1>1, <2>1, <2>2, <2>3, <2>4, BeginKeepsForward, AdvanceKeepsForward,
       RefreshKeepsForward, RaiseKeepsForward, RescheduleKeepsForward DEF Cycle
<1>2. CASE Api
  <2>1. ASSUME NEW j \in Jobs, NEW kind \in Edits, NEW c \in Periods, NEW table \in Tables,
               EditBegin(j, kind, c, table[j])
        PROVE  Forward'
    BY <2>1, OtherKeepsForward DEF EditBegin
  <2>2. CASE EditFails
    BY <2>2, OtherKeepsForward DEF EditFails
  <2> QED
    BY <1>2, <2>1, <2>2, CommitKeepsForward DEF Api
<1>3. ASSUME NEW s \in Schedulers, UpdateFails(s) \/ SessionDies(s)
      PROVE  Forward'
  BY <1>3, OtherKeepsForward DEF UpdateFails, SessionDies, Abort, TypeOK
<1>4. ASSUME NEW s \in Schedulers, CallFails(s) \/ Crash(s) PROVE Forward'
  <2>1. Crash(s) /\ ~HasReplica
    BY <1>4 DEF CallFails, Crash, Fault
  <2> QED
    BY <2>1, CrashKeepsForward
<1>5. CASE UNCHANGED vars
  BY <1>5, OtherKeepsForward DEF vars
<1> QED
  BY <1>1, <1>2, <1>3, <1>4, <1>5, TimeKeepsForward DEF Next, Faults

\* One scheduler fires no firing twice, whatever edits overlap its cycles, its
\* heap holds and crashes and failing commits do, as long as no call raises
\* between the commit of the schedule and the return of _dispatch.  With a read
\* replica it also takes a lag below scheduler_interval_seconds, and a process
\* that does not start anew within the lag.
THEOREM SchedulerFiresForward ==
  ASSUME \A a, b \in Schedulers : a = b, "call" \notin FaultKinds,
         HasReplica => MaxLag < Interval /\ "crash" \notin FaultKinds
  PROVE  Spec => []FiresForward
<1>1. TypeOK /\ Forward => FiresForward
  BY DEF Forward, WorkIsAhead, FiresForward
<1>2. TypeOK /\ Forward /\ [Next]_vars => TypeOK' /\ Forward'
  BY TypeStep, ForwardStep
<1> QED
  BY <1>1, <1>2, TypeInit, ForwardInit, PTL DEF Spec

-----------------------------------------------------------------------------
(***************************************************************************)
(* Failover.  Without edits a cached job is the row or an earlier state of *)
(* it that the next sync replaces, because a firing stamps the row within  *)
(* reach of every cursor; past its sync the one active scheduler has only  *)
(* rows in its cache.  A replica would undo this: the sync of a successor  *)
(* could read the job as it was before its last firing.                    *)
(***************************************************************************)

Scheduled ==
    /\ edit = None
    /\ \A j \in Jobs : row[j] # None =>
          row[j].cron \in Periods /\ row[j].enabled /\ row[j].next_fire > fired[j]

\* An outdated copy is behind the row, and the row within reach of the cursor.
Outdated(s, j) ==
    /\ cache[s][j].next_fire < row[j].next_fire
    /\ row[j].updated_at >= last_sync[s]

Mirrored ==
    \A s \in Schedulers, j \in Jobs : cache[s][j] # None =>
        /\ row[j] # None
        /\ cache[s][j] = row[j] \/ Outdated(s, j)
        /\ pc[s] \notin {"sleep", "sync"} /\ ~InFlight(s, j) => cache[s][j] = row[j]

\* The firing under way, before and after the schedule is advanced.
Firing(s, j) ==
    /\ j \in Jobs /\ row[j] # None /\ cache[s][j] # None
    /\ pc[s] = "merged" =>
          /\ cur[s].loaded = row[j]
          /\ cur[s].ts = row[j].next_fire /\ cur[s].ts <= at[s]
          /\ cur[s].new = [row[j] EXCEPT !.next_fire = NextCronTime(row[j].cron, at[s])]
    /\ pc[s] \in {"committed", "advanced", "created"} =>
          cache[s][j].next_fire < row[j].next_fire
    /\ pc[s] \in {"advanced", "created"} => cur[s].new = row[j]

AllFirings ==
    \A s \in Schedulers :
        pc[s] \in Working => Firing(s, cur[s].job)

Failover == Scheduled /\ Mirrored /\ AllFirings
FailoverInv == SyncInv /\ ActiveHoldsLock /\ Failover

LEMMA FailoverInit == Init => Failover
<1> SUFFICES ASSUME Init PROVE Failover
  OBVIOUS
<1>1. Scheduled
  <2> SUFFICES ASSUME NEW j \in Jobs, row[j] # None
               PROVE  /\ row[j].cron \in Periods /\ row[j].enabled
                      /\ row[j].next_fire > fired[j]
    BY DEF Scheduled, Init
  <2>1. PICK c \in Periods : row[j] = Edited("create", c, None, 0)
    BY DEF Init
  <2>2. NextCronTime(c, 0) > 0
    BY NextCronTimeLater
  <2> QED
    BY <2>1, <2>2 DEF Init, Edited
<1>2. Mirrored /\ AllFirings
  BY DEF Init, Mirrored, AllFirings
<1> QED
  BY <1>1, <1>2 DEF Failover

\* The steps that leave the table and the caches alone.
LEMMA OtherKeepsFailover ==
  ASSUME Failover, UNCHANGED <<clock, row, edit, fired, cache, last_sync>>,
         \A t \in Schedulers :
            \/ pc'[t] = pc[t] /\ cur'[t] = cur[t] /\ at'[t] = at[t]
            \/ pc'[t] \in {"sleep", "sync"}
            \/ pc[t] = "recover" /\ pc'[t] = "pop"
            \/ pc[t] = "advanced" /\ pc'[t] = "created" /\ cur'[t] = cur[t]
  PROVE  Failover'
<1>1. Scheduled'
  BY DEF Failover, Scheduled
<1>2. Mirrored'
  <2> SUFFICES ASSUME NEW t \in Schedulers, NEW j \in Jobs, cache[t][j] # None
               PROVE  /\ row[j] # None
                      /\ cache[t][j] = row[j] \/ Outdated(t, j)
                      /\ pc'[t] \notin {"sleep", "sync"} /\ ~InFlight(t, j)'
                            => cache[t][j] = row[j]
    BY DEF Mirrored, Outdated
  <2> QED
    BY DEF Failover, Mirrored, InFlight
<1>3. AllFirings'
  <2> SUFFICES ASSUME NEW t \in Schedulers, pc'[t] \in Working
               PROVE  Firing(t, cur[t].job)'
    BY DEF AllFirings
  <2>1. /\ pc[t] \in Working /\ cur'[t] = cur[t]
        /\ \/ pc'[t] = pc[t] /\ at'[t] = at[t]
           \/ pc[t] = "advanced" /\ pc'[t] = "created"
    OBVIOUS
  <2>2. Firing(t, cur[t].job)
    BY <2>1 DEF Failover, AllFirings
  <2> QED
    BY <2>1, <2>2 DEF Firing
<1> QED
  BY <1>1, <1>2, <1>3 DEF Failover

\* A sync leaves no outdated copy.
LEMMA SyncKeepsFailover ==
  ASSUME FailoverInv, NEW s \in Schedulers, SyncJobs(s, row)
  PROVE  /\ Failover'
         /\ \A j \in Jobs : cache'[s][j] =
              IF j \in UpdatedSince(row, last_sync[s]) THEN row[j] ELSE cache[s][j]
<1> USE DEF SyncJobs, tableVars, leaderVars
<1> DEFINE read == UpdatedSince(row, last_sync[s])
<1>1. \A j \in read : row[j] # None /\ row[j].enabled
  BY DEF UpdatedSince, FailoverInv, Failover, Scheduled
<1>2. \A j \in Jobs : cache'[s][j] = IF j \in read THEN row[j] ELSE cache[s][j]
  BY <1>1 DEF FailoverInv, SyncInv, TypeOK
<1>3. /\ \A t \in Schedulers \ {s} : /\ cache'[t] = cache[t] /\ last_sync'[t] = last_sync[t]
                                     /\ pc'[t] = pc[t]
      /\ pc[s] = "sync" /\ pc'[s] = "recover"
      /\ UNCHANGED <<clock, row, edit, fired, cur, at>>
  BY DEF FailoverInv, SyncInv, TypeOK
<1> HIDE DEF SyncJobs, read
<1>4. \A j \in Jobs : cache'[s][j] # None => row[j] # None /\ cache'[s][j] = row[j]
  <2> SUFFICES ASSUME NEW j \in Jobs, cache[s][j] # None, j \notin read
               PROVE  row[j] # None /\ cache[s][j] = row[j]
    BY <1>1, <1>2
  <2>1. row[j] # None /\ (cache[s][j] = row[j] \/ Outdated(s, j))
    BY DEF FailoverInv, Failover, Mirrored
  <2>2. row[j].cron # NoCron
    BY <2>1, CronConstants DEF FailoverInv, Failover, Scheduled, NoCron
  <2> QED
    BY <2>1, <2>2 DEF read, UpdatedSince, Outdated
<1>5. Scheduled'
  BY <1>3 DEF FailoverInv, Failover, Scheduled
<1>6. Mirrored'
  <2> SUFFICES ASSUME NEW t \in Schedulers, t # s, NEW j \in Jobs, cache[t][j] # None
               PROVE  /\ row[j] # None
                      /\ cache[t][j] = row[j] \/ Outdated(t, j)'
                      /\ pc[t] \notin {"sleep", "sync"} /\ ~InFlight(t, j)
                            => cache[t][j] = row[j]
    BY <1>3, <1>4 DEF Mirrored, InFlight
  <2> QED
    BY <1>3 DEF FailoverInv, Failover, Mirrored, Outdated
<1>7. AllFirings'
  BY <1>3 DEF FailoverInv, Failover, AllFirings, Firing
<1> QED
  BY <1>2, <1>5, <1>6, <1>7 DEF Failover, read

LEMMA MergeKeepsFailover ==
  ASSUME FailoverInv, NEW s \in Schedulers, NEW e \in DueEntries(s),
         PopMerge(s, e, row[e[2]])
  PROVE  Failover'
<1> USE DEF PopMerge, tableVars, leaderVars
<1> DEFINE j == e[2]
<1>1. e[1] \in Nat /\ j \in Jobs /\ e[1] <= at[s] /\ clock \in Nat
  BY DEF DueEntries, FailoverInv, SyncInv, TypeOK
<1>2. cache[s][j] = row[j] /\ row[j] # None
  BY <1>1 DEF FailoverInv, Failover, Mirrored, InFlight
<1>3. row[j].next_fire = e[1]
  BY <1>2 DEF IsStale
<1>4. /\ cur'[s] = [job |-> j, ts |-> e[1], at |-> clock, loaded |-> row[j],
                    new |-> Advanced(s, row[j])]
      /\ pc[s] = "pop" /\ pc'[s] = "merged"
      /\ \A t \in Schedulers \ {s} : cur'[t] = cur[t] /\ pc'[t] = pc[t]
      /\ UNCHANGED <<clock, row, edit, fired, cache, last_sync, at>>
  BY <1>2 DEF FailoverInv, SyncInv, TypeOK
<1> HIDE DEF PopMerge
<1>5. Scheduled'
  BY <1>4 DEF FailoverInv, Failover, Scheduled
<1>6. Mirrored'
  <2> SUFFICES ASSUME NEW t \in Schedulers, NEW k \in Jobs, cache[t][k] # None
               PROVE  /\ row[k] # None
                      /\ cache[t][k] = row[k] \/ Outdated(t, k)
                      /\ pc'[t] \notin {"sleep", "sync"} /\ ~InFlight(t, k)'
                            => cache[t][k] = row[k]
    BY <1>4 DEF Mirrored, Outdated
  <2> QED
    BY <1>4 DEF FailoverInv, Failover, Mirrored, InFlight
<1>7. Firing(s, cur[s].job)'
  BY <1>1, <1>2, <1>3, <1>4 DEF Firing, Advanced
<1>8. AllFirings'
  <2> SUFFICES ASSUME NEW t \in Schedulers \ {s},
                      pc[t] \in Working
               PROVE  Firing(t, cur[t].job)'
    BY <1>4, <1>7 DEF AllFirings
  <2>1. Firing(t, cur[t].job)
    BY DEF FailoverInv, Failover, AllFirings
  <2> QED
    BY <1>4, <2>1 DEF Firing
<1> QED
  BY <1>5, <1>6, <1>8 DEF Failover

\* The firing moves the row ahead of every copy and within reach of every cursor.
LEMMA FiringAdvances ==
  ASSUME FailoverInv, NEW s \in Schedulers, Advance(s), NEW j, j = cur[s].job
  PROVE  /\ j \in Jobs /\ row[j] \in Row /\ row'[j] \in Row
         /\ row'[j].cron \in Periods /\ row'[j].enabled
         /\ fired'[j] = row[j].next_fire /\ row'[j].next_fire > row[j].next_fire
         /\ \A t \in Schedulers : row'[j].updated_at >= last_sync[t]
         /\ \A k \in Jobs \ {j} : row'[k] = row[k] /\ fired'[k] = fired[k]
         /\ cur' = cur /\ row'[j] # None
<1> DEFINE u == cur[s]
           r == Flush(row[j], u)
<1>1. /\ j \in Jobs /\ u \in Work /\ u.at \in Nat /\ clock \in Nat /\ at[s] \in Nat
      /\ row[j] \in Row \cup {None} /\ pc[s] = "merged"
  BY DEF Advance, FailoverInv, SyncInv, TypeOK, Work
<1>2. /\ row[j] # None /\ u.loaded = row[j] /\ u.ts = row[j].next_fire /\ u.ts <= at[s]
      /\ u.new = [row[j] EXCEPT !.next_fire = NextCronTime(row[j].cron, at[s])]
      /\ clock <= u.at + TxnTime
  BY <1>1 DEF FailoverInv, Failover, AllFirings, Firing, SyncInv, Cursor, WorkIsRecent
<1>3. /\ row[j] \in Row /\ row[j].cron \in Periods
      /\ row[j].enabled /\ row[j].next_fire \in Nat
  BY <1>1, <1>2 DEF FailoverInv, Failover, Scheduled, Row
<1>4. /\ NextCronTime(row[j].cron, at[s]) \in Nat
      /\ NextCronTime(row[j].cron, at[s]) > row[j].next_fire
  BY <1>1, <1>2, <1>3, NextCronTimeLater
<1>5. r = [enabled |-> row[j].enabled, cron |-> row[j].cron,
           next_fire |-> NextCronTime(row[j].cron, at[s]), updated_at |-> u.at]
  <2>1. u.new \in Row /\ u.new # None
    BY <1>1, CronConstants DEF Work
  <2>2. /\ u.new.enabled = row[j].enabled /\ u.new.cron = row[j].cron
        /\ u.new.next_fire = NextCronTime(row[j].cron, at[s])
        /\ u.new.updated_at = row[j].updated_at
    BY <1>2, <1>3 DEF Row
  <2> QED
    BY <1>2, <1>3, <1>4, <2>1, <2>2 DEF Flush
<1>6. r \in Row /\ r # None
  <2>1. row[j].enabled \in BOOLEAN /\ row[j].cron \in Periods \cup {NoCron}
    BY <1>3 DEF Row
  <2>2. r \in Row
    BY <1>1, <1>4, <1>5, <2>1 DEF Row
  <2> QED
    BY <2>2, CronConstants
<1>7. /\ row'[j] = r /\ \A k \in Jobs \ {j} : row'[k] = row[k] /\ fired'[k] = fired[k]
      /\ cur' = cur /\ fired'[j] = u.ts
  <2>1. ~KeepsTime(u)
    BY <1>2, <1>3, <1>4 DEF KeepsTime, Row
  <2> QED
    BY <1>1, <2>1 DEF Advance, FailoverInv, SyncInv, TypeOK
<1>8. ASSUME NEW t \in Schedulers PROVE u.at >= last_sync[t]
  <2>1. /\ last_sync[t] \in Int
        /\ last_sync[t] <= 0 \/ last_sync[t] <= clock - Overlap
    BY DEF FailoverInv, SyncInv, Cursor, CursorIsBehind, TypeOK
  <2>2. Overlap \in Nat /\ TxnTime \in Nat /\ TxnTime <= Overlap
    BY CronConstants
  <2> QED
    BY <1>1, <1>2, <2>1, <2>2
<1> QED
  BY <1>1, <1>2, <1>3, <1>4, <1>5, <1>6, <1>7, <1>8

LEMMA AdvanceKeepsFailover ==
  ASSUME FailoverInv, NEW s \in Schedulers, Advance(s)
  PROVE  Failover'
<1>1. PICK j : j = cur[s].job
  OBVIOUS
<1>2. /\ j \in Jobs /\ row[j] \in Row /\ row'[j] \in Row
      /\ row'[j].cron \in Periods /\ row'[j].enabled
      /\ fired'[j] = row[j].next_fire /\ row'[j].next_fire > row[j].next_fire
      /\ \A t \in Schedulers : row'[j].updated_at >= last_sync[t]
      /\ \A k \in Jobs \ {j} : row'[k] = row[k] /\ fired'[k] = fired[k]
      /\ cur' = cur /\ row'[j] # None
  BY <1>1, FiringAdvances
<1>3. /\ pc[s] = "merged" /\ pc'[s] = "committed"
      /\ \A t \in Schedulers \ {s} : pc'[t] = pc[t]
      /\ UNCHANGED <<clock, edit, cache, last_sync, at>>
  BY DEF Advance, FailoverInv, SyncInv, TypeOK
<1>4. \A t \in Schedulers \ {s} : pc[t] = "sleep"
  BY <1>3 DEF FailoverInv, ActiveHoldsLock
<1>5. Scheduled'
  BY <1>2, <1>3 DEF FailoverInv, Failover, Scheduled
<1>6. \A t \in Schedulers : cache[t][j] # None => cache[t][j].next_fire < row'[j].next_fire
  <2> SUFFICES ASSUME NEW t \in Schedulers, cache[t][j] # None
               PROVE  cache[t][j].next_fire < row'[j].next_fire
    OBVIOUS
  <2>1. /\ row[j].next_fire \in Nat /\ row'[j].next_fire \in Nat
        /\ cache[t][j].next_fire \in Nat
    BY <1>2 DEF Row, FailoverInv, SyncInv, TypeOK
  <2>2. cache[t][j].next_fire <= row[j].next_fire
    BY <1>2, <2>1 DEF FailoverInv, Failover, Mirrored, Outdated
  <2> QED
    BY <1>2, <2>1, <2>2
<1>7. Mirrored'
  <2> SUFFICES ASSUME NEW t \in Schedulers, NEW k \in Jobs, cache[t][k] # None
               PROVE  /\ row'[k] # None
                      /\ cache[t][k] = row'[k] \/ Outdated(t, k)'
                      /\ pc'[t] \notin {"sleep", "sync"} /\ ~InFlight(t, k)'
                            => cache[t][k] = row'[k]
    BY <1>3 DEF Mirrored
  <2>1. CASE k = j
    BY <1>1, <1>2, <1>3, <1>4, <1>6, <2>1 DEF Outdated, InFlight
  <2>2. CASE k # j
    <3>1. row'[k] = row[k]
      BY <1>2, <2>2
    <3>2. pc'[t] \notin {"sleep", "sync"} => t = s /\ ~InFlight(s, k)
      BY <1>3, <1>4 DEF InFlight
    <3> QED
      BY <1>3, <3>1, <3>2 DEF FailoverInv, Failover, Mirrored, Outdated
  <2> QED
    BY <2>1, <2>2
<1>8. AllFirings'
  <2>1. cache[s][j] # None
    BY <1>1, <1>3 DEF FailoverInv, Failover, AllFirings, Firing
  <2>2. Firing(s, cur[s].job)'
    BY <1>1, <1>2, <1>3, <1>6, <2>1 DEF Firing
  <2> QED
    BY <1>3, <1>4, <2>2 DEF AllFirings
<1> QED
  BY <1>5, <1>7, <1>8 DEF Failover

LEMMA RefreshKeepsFailover ==
  ASSUME FailoverInv, NEW s \in Schedulers, Refresh(s)
  PROVE  Failover'
<1>1. PICK j : j = cur[s].job
  OBVIOUS
<1>2. /\ pc[s] = "committed" /\ pc'[s] = "advanced" /\ j \in Jobs
      /\ cur'[s].job = j /\ cur'[s].new = row[j]
      /\ \A t \in Schedulers \ {s} : cur'[t] = cur[t] /\ pc'[t] = pc[t]
      /\ UNCHANGED <<clock, row, edit, fired, cache, last_sync, at>>
  BY <1>1 DEF Refresh, tableVars, FailoverInv, SyncInv, TypeOK, Work
<1>3. Scheduled'
  BY <1>2 DEF FailoverInv, Failover, Scheduled
<1>4. Mirrored'
  BY <1>1, <1>2 DEF FailoverInv, Failover, Mirrored, Outdated, InFlight
<1>5. AllFirings'
  <2>1. Firing(s, j)
    BY <1>1, <1>2 DEF FailoverInv, Failover, AllFirings
  <2>2. Firing(s, cur[s].job)'
    BY <1>2, <2>1 DEF Firing
  <2>3. ASSUME NEW t \in Schedulers \ {s}, pc[t] \in Working
        PROVE  Firing(t, cur[t].job)'
    BY <1>2, <2>3 DEF FailoverInv, Failover, AllFirings, Firing
  <2> QED
    BY <1>2, <2>2, <2>3 DEF AllFirings
<1> QED
  BY <1>3, <1>4, <1>5 DEF Failover

LEMMA RescheduleKeepsFailover ==
  ASSUME FailoverInv, NEW s \in Schedulers, SkipForbidden(s) \/ SendTask(s)
  PROVE  Failover'
<1>1. PICK j : j = cur[s].job
  OBVIOUS
<1>2. /\ pc[s] \in {"advanced", "created"} /\ j \in Jobs /\ pc'[s] = "pop"
      /\ cache'[s] = [cache[s] EXCEPT ![j] = cur[s].new]
      /\ cache[s] \in [Jobs -> Row \cup {None}]
      /\ \A t \in Schedulers \ {s} :
            cur'[t] = cur[t] /\ pc'[t] = pc[t] /\ cache'[t] = cache[t]
      /\ UNCHANGED <<clock, row, edit, fired, last_sync, at>>
  BY <1>1 DEF SkipForbidden, SendTask, Reschedule, tableVars, FailoverInv, SyncInv,
     TypeOK, Work
<1>3. cur[s].new = row[j] /\ row[j] # None
  BY <1>1, <1>2 DEF FailoverInv, Failover, AllFirings, Firing
<1>4. Scheduled'
  BY <1>2 DEF FailoverInv, Failover, Scheduled
<1>5. Mirrored'
  <2> SUFFICES ASSUME NEW t \in Schedulers, NEW k \in Jobs, cache'[t][k] # None
               PROVE  /\ row[k] # None
                      /\ cache'[t][k] = row[k] \/ Outdated(t, k)'
                      /\ pc'[t] \notin {"sleep", "sync"} /\ ~InFlight(t, k)'
                            => cache'[t][k] = row[k]
    BY <1>2 DEF Mirrored
  <2>1. CASE t = s /\ k = j
    BY <1>2, <1>3, <2>1
  <2>2. CASE t = s /\ k # j
    <3>1. cache'[s][k] = cache[s][k] /\ ~InFlight(s, k)
      BY <1>1, <1>2, <2>2 DEF InFlight
    <3> QED
      BY <1>2, <2>2, <3>1 DEF FailoverInv, Failover, Mirrored
  <2>3. CASE t # s
    BY <1>2, <2>3 DEF FailoverInv, Failover, Mirrored, Outdated, InFlight
  <2> QED
    BY <2>1, <2>2, <2>3
<1>6. AllFirings'
  <2> SUFFICES ASSUME NEW t \in Schedulers \ {s},
                      pc[t] \in Working
               PROVE  Firing(t, cur[t].job)'
    BY <1>2 DEF AllFirings
  <2>1. Firing(t, cur[t].job)
    BY DEF FailoverInv, Failover, AllFirings
  <2> QED
    BY <1>2, <2>1 DEF Firing
<1> QED
  BY <1>4, <1>5, <1>6 DEF Failover

LEMMA CrashKeepsFailover ==
  ASSUME FailoverInv, NEW s \in Schedulers, Crash(s)
  PROVE  Failover'
<1>1. /\ pc'[s] = "sleep" /\ \A j \in Jobs : cache'[s][j] = None
      /\ \A t \in Schedulers \ {s} :
            /\ cur'[t] = cur[t] /\ pc'[t] = pc[t] /\ cache'[t] = cache[t]
            /\ last_sync'[t] = last_sync[t]
      /\ UNCHANGED <<clock, row, edit, fired, at>>
  BY DEF Crash, tableVars, FailoverInv, SyncInv, TypeOK
<1>2. Scheduled'
  BY <1>1 DEF FailoverInv, Failover, Scheduled
<1>3. Mirrored'
  <2> SUFFICES ASSUME NEW t \in Schedulers \ {s}, NEW k \in Jobs, cache[t][k] # None
               PROVE  /\ row[k] # None
                      /\ cache[t][k] = row[k] \/ Outdated(t, k)'
                      /\ pc[t] \notin {"sleep", "sync"} /\ ~InFlight(t, k)
                            => cache[t][k] = row[k]
    BY <1>1 DEF Mirrored, InFlight
  <2> QED
    BY <1>1 DEF FailoverInv, Failover, Mirrored, Outdated
<1>4. AllFirings'
  <2> SUFFICES ASSUME NEW t \in Schedulers \ {s},
                      pc[t] \in Working
               PROVE  Firing(t, cur[t].job)'
    BY <1>1 DEF AllFirings
  <2>1. Firing(t, cur[t].job)
    BY DEF FailoverInv, Failover, AllFirings
  <2> QED
    BY <1>1, <2>1 DEF Firing
<1> QED
  BY <1>2, <1>3, <1>4 DEF Failover

LEMMA TickKeepsFailover ==
  ASSUME FailoverInv, Tick
  PROVE  Failover'
<1>1. UNCHANGED <<row, edit, fired, cache, last_sync, at, cur, pc>>
  BY DEF Tick
<1> QED
  BY <1>1 DEF FailoverInv, Failover, Scheduled, Mirrored, Outdated, InFlight, AllFirings,
     Firing

LEMMA FailoverStep ==
  ASSUME Edits = {}, ~HasReplica, "session_in_cycle" \notin FaultKinds,
         FailoverInv, [Next]_vars
  PROVE  FailoverInv'
<1> USE DEF tableVars, leaderVars, schedVars
<1>1. SyncInv' /\ ActiveHoldsLock'
  BY SyncStep, ActiveStep DEF FailoverInv
<1>2. ASSUME NEW s \in Schedulers, Cycle(s) PROVE Failover'
  <2> USE DEF FailoverInv, SyncInv, TypeOK
  <2>1. CASE BeginCycle(s) \/ StandDown(s) \/ BeginDispatch(s)
    BY <2>1, OtherKeepsFailover DEF BeginCycle, StandDown, BeginDispatch
  <2>2. CASE EndDispatch(s) \/ CreateTask(s) \/ AdvanceRaises(s)
    BY <2>2, OtherKeepsFailover DEF EndDispatch, CreateTask, AdvanceRaises, Abort
  <2>3. ASSUME NEW e \in DueEntries(s),
               \/ PopSkip(s, e) \/ PopBroken(s, e)
               \/ \E table \in Tables : PopMerge(s, e, table[e[2]])
        PROVE  Failover'
    <3>1. CASE PopSkip(s, e)
      BY <3>1, OtherKeepsFailover DEF PopSkip
    <3>2. CASE PopBroken(s, e)
      BY <3>2, OtherKeepsFailover DEF PopBroken
    <3>3. CASE PopMerge(s, e, row[e[2]])
      BY <3>3, MergeKeepsFailover
    <3> QED
      BY <2>3, <3>1, <3>2, <3>3 DEF Tables
  <2>4. ASSUME NEW table \in Tables, SyncJobs(s, table) PROVE Failover'
    <3>1. SyncJobs(s, row)
      BY <2>4 DEF Tables
    <3> QED
      BY <3>1, SyncKeepsFailover
  <2> QED
    BY <1>2, <2>1, <2>2, <2>3, <2>4, AdvanceKeepsFailover, RefreshKeepsFailover,
       RescheduleKeepsFailover DEF Cycle
<1>3. ~Api /\ ~Replicate
  BY DEF Api, EditCommit, EditFails, Replicate, FailoverInv, Failover, Scheduled
<1>4. ASSUME NEW s \in Schedulers, CallFails(s) \/ UpdateFails(s) \/ SessionDies(s)
      PROVE  Failover'
  BY <1>4, OtherKeepsFailover DEF CallFails, UpdateFails, SessionDies, Abort,
     FailoverInv, SyncInv, TypeOK
<1>5. CASE UNCHANGED vars
  BY <1>1, <1>5, OtherKeepsFailover DEF vars, FailoverInv
<1> QED
  BY <1>1, <1>2, <1>3, <1>4, <1>5, CrashKeepsFailover, TickKeepsFailover
     DEF Next, Faults, FailoverInv

LEMMA FailoverHolds ==
  ASSUME Edits = {}, ~HasReplica, "session_in_cycle" \notin FaultKinds
  PROVE  Spec => []FailoverInv
<1>1. Init => FailoverInv
  BY TypeInit, SyncInit, ActiveInit, FailoverInit DEF FailoverInv, SyncInv
<1>2. FailoverInv /\ [Next]_vars => FailoverInv'
  BY FailoverStep
<1> QED
  BY <1>1, <1>2, PTL DEF Spec

\* Failover makes no firing twice when every read is of the primary, as it is
\* without DASS_REPLICA_DATABASE_URL: while jobs are not edited, any number of
\* schedulers that crash, lose their sessions between cycles or fail in any call
\* never dispatch a firing the job has had.
THEOREM FailoverFiresForward ==
  ASSUME Edits = {}, ~HasReplica, "session_in_cycle" \notin FaultKinds
  PROVE  Spec => []FiresForward
<1>1. FailoverInv => FiresForward
  BY DEF FailoverInv, Failover, AllFirings, Firing, Scheduled, FiresForward
<1> QED
  BY <1>1, FailoverHolds, PTL

-----------------------------------------------------------------------------
(***************************************************************************)
(* The heap.  A cached job whose firing is not under way has its entry, or *)
(* is behind its row and gets the entry with the sync that replaces it.    *)
(***************************************************************************)

Holds(s, j) == pc[s] \in Working /\ cur[s].job = j

HasEntry(s, j) == <<cache[s][j].next_fire, j>> \in BagToSet(heap[s])

Queued ==
    \A s \in Schedulers, j \in Jobs : cache[s][j] # None /\ ~Holds(s, j) =>
        HasEntry(s, j) \/ cache[s][j].next_fire < row[j].next_fire

LEMMA OthersStayInBag ==
  ASSUME NEW B, NEW x, NEW y, y # x
  PROVE  y \in BagToSet(B) => y \in BagToSet(BagRemove(B, x))
  BY DEF BagToSet, BagRemove

LEMMA AddedToBag ==
  ASSUME NEW B, NEW x
  PROVE  BagToSet(BagAdd(B, x)) = BagToSet(B) \cup {x}
  BY DEF BagToSet, BagAdd

\* The steps that leave caches and heaps alone and end no firing.
LEMMA OtherKeepsQueued ==
  ASSUME Queued, UNCHANGED <<row, cache, heap>>,
         \A s \in Schedulers, j \in Jobs : Holds(s, j) => Holds(s, j)'
  PROVE  Queued'
  BY DEF Queued, HasEntry

LEMMA SyncKeepsQueued ==
  ASSUME FailoverInv, Queued, NEW s \in Schedulers, SyncJobs(s, row)
  PROVE  Queued'
<1> DEFINE read == UpdatedSince(row, last_sync[s])
           push == {j \in read \ {k \in read : ~row[k].enabled} :
                      /\ row[j].next_fire # Never
                      /\ IsNewFiring(s, j, row[j].next_fire)}
<1>1. \A j \in Jobs : cache'[s][j] = IF j \in read THEN row[j] ELSE cache[s][j]
  BY SyncKeepsFailover
<1>2. BagToSet(heap'[s]) = BagToSet(heap[s]) \cup {<<row[j].next_fire, j>> : j \in push}
  <2>1. heap'[s] = heap[s] (+) SetToBag({<<row[j].next_fire, j>> : j \in push})
    BY DEF SyncJobs, FailoverInv, SyncInv, TypeOK
  <2> QED
    BY <2>1, JoinBag
<1>3. /\ pc[s] = "sync" /\ UNCHANGED <<row, cur>>
      /\ \A t \in Schedulers \ {s} :
            pc'[t] = pc[t] /\ cache'[t] = cache[t] /\ heap'[t] = heap[t]
  BY DEF SyncJobs, tableVars, FailoverInv, SyncInv, TypeOK
<1> SUFFICES ASSUME NEW t \in Schedulers, NEW j \in Jobs, cache'[t][j] # None, ~Holds(t, j)'
             PROVE  HasEntry(t, j)' \/ cache'[t][j].next_fire < row'[j].next_fire
  BY DEF Queued
<1>4. CASE t # s
  BY <1>3, <1>4 DEF Queued, HasEntry, Holds
<1>5. CASE t = s /\ j \notin read
  <2>1. cache'[s][j] = cache[s][j] /\ ~Holds(s, j)
    BY <1>1, <1>3, <1>5 DEF Holds
  <2> QED
    BY <1>2, <1>3, <1>5, <2>1 DEF Queued, HasEntry
<1>6. CASE t = s /\ j \in read
  <2>1. cache'[s][j] = row[j] /\ row[j] # None
    BY <1>1, <1>6
  <2>2. row[j].enabled /\ row[j].next_fire # Never
    BY <2>1 DEF FailoverInv, SyncInv, TypeOK, Failover, Scheduled, Never
  <2>3. CASE IsNewFiring(s, j, row[j].next_fire)
    <3>1. j \in push
      BY <1>6, <2>2, <2>3
    <3> HIDE DEF push
    <3> QED
      BY <1>2, <1>6, <2>1, <3>1 DEF HasEntry
  <2>4. CASE ~IsNewFiring(s, j, row[j].next_fire)
    <3>1. cache[s][j] # None /\ cache[s][j].next_fire = row[j].next_fire /\ ~Holds(s, j)
      BY <1>3, <2>4 DEF IsNewFiring, Holds
    <3>2. row[j].next_fire \in Nat
      BY <2>1 DEF FailoverInv, SyncInv, TypeOK, Row
    <3>3. HasEntry(s, j)
      BY <3>1, <3>2 DEF Queued
    <3> QED
      BY <1>2, <1>6, <2>1, <3>1, <3>3 DEF HasEntry
  <2> QED
    BY <2>3, <2>4
<1> QED
  BY <1>4, <1>5, <1>6

\* An entry is taken off the heap only if it is outdated or its firing begins.
LEMMA PopKeepsQueued ==
  ASSUME FailoverInv, Queued, NEW s \in Schedulers, NEW e \in DueEntries(s),
         PopSkip(s, e) \/ PopBroken(s, e) \/ PopMerge(s, e, row[e[2]])
  PROVE  Queued'
<1>1. e = <<e[1], e[2]>> /\ e[2] \in Jobs /\ pc[s] = "pop"
  BY DEF DueEntries, FailoverInv, SyncInv, TypeOK, PopSkip, PopBroken, PopMerge
<1>2. ~PopBroken(s, e)
  <2> SUFFICES ASSUME cache[s][e[2]] # None PROVE ~IsBroken(s, e)
    BY DEF PopBroken
  <2>1. cache[s][e[2]] = row[e[2]] /\ row[e[2]] # None
    BY <1>1 DEF FailoverInv, Failover, Mirrored, InFlight
  <2>2. /\ row[e[2]].cron \in Periods
        /\ row[e[2]].next_fire > fired[e[2]] /\ fired[e[2]] \in Nat
    BY <1>1, <2>1 DEF FailoverInv, SyncInv, TypeOK, Failover, Scheduled
  <2> QED
    BY <2>1, <2>2, CronConstants DEF IsBroken, Never, NoCron
<1>3. /\ heap'[s] = BagRemove(heap[s], e) /\ UNCHANGED <<row, cache>>
      /\ \A t \in Schedulers \ {s} :
            heap'[t] = heap[t] /\ cur'[t] = cur[t] /\ pc'[t] = pc[t]
  BY <1>2 DEF PopSkip, PopMerge, tableVars, FailoverInv, SyncInv, TypeOK
<1>4. cache[s][e[2]] # None /\ ~IsStale(s, e) => Holds(s, e[2])'
  BY <1>1, <1>2 DEF PopSkip, PopMerge, Holds, FailoverInv, SyncInv, TypeOK
<1> SUFFICES ASSUME NEW t \in Schedulers, NEW j \in Jobs, cache[t][j] # None, ~Holds(t, j)'
             PROVE  HasEntry(t, j)' \/ cache[t][j].next_fire < row[j].next_fire
  BY <1>3 DEF Queued
<1>5. CASE t # s
  BY <1>3, <1>5 DEF Queued, HasEntry, Holds
<1>6. CASE t = s
  <2>1. <<cache[s][j].next_fire, j>> # e
    BY <1>1, <1>4, <1>6 DEF IsStale
  <2>2. HasEntry(s, j) \/ cache[s][j].next_fire < row[j].next_fire
    BY <1>1, <1>6 DEF Queued, Holds
  <2> QED
    BY <1>3, <1>6, <2>1, <2>2, OthersStayInBag DEF HasEntry
<1> QED
  BY <1>5, <1>6

LEMMA AdvanceKeepsQueued ==
  ASSUME FailoverInv, Queued, NEW s \in Schedulers, Advance(s)
  PROVE  Queued'
<1>1. PICK j : j = cur[s].job
  OBVIOUS
<1>2. /\ j \in Jobs /\ row[j] \in Row /\ row'[j] \in Row
      /\ row'[j].next_fire > row[j].next_fire
      /\ \A k \in Jobs \ {j} : row'[k] = row[k]
      /\ cur' = cur
  BY <1>1, FiringAdvances
<1>3. /\ pc[s] = "merged" /\ pc'[s] = "committed" /\ UNCHANGED <<cache, heap>>
      /\ \A t \in Schedulers \ {s} : pc'[t] = pc[t]
  BY DEF Advance, FailoverInv, SyncInv, TypeOK
<1> SUFFICES ASSUME NEW t \in Schedulers, NEW k \in Jobs, cache[t][k] # None, ~Holds(t, k)'
             PROVE  HasEntry(t, k) \/ cache[t][k].next_fire < row'[k].next_fire
  BY <1>3 DEF Queued, HasEntry
<1>4. HasEntry(t, k) \/ cache[t][k].next_fire < row[k].next_fire
  BY <1>1, <1>2, <1>3 DEF Queued, Holds
<1>5. cache[t][k].next_fire \in Nat /\ row[j].next_fire \in Nat /\ row'[j].next_fire \in Nat
  BY <1>2 DEF FailoverInv, SyncInv, TypeOK, Row
<1> QED
  BY <1>2, <1>4, <1>5

LEMMA RescheduleKeepsQueued ==
  ASSUME FailoverInv, Queued, NEW s \in Schedulers, SkipForbidden(s) \/ SendTask(s)
  PROVE  Queued'
<1>1. PICK j : j = cur[s].job
  OBVIOUS
<1>2. /\ pc[s] \in {"advanced", "created"} /\ j \in Jobs
      /\ cache'[s] = [cache[s] EXCEPT ![j] = cur[s].new]
      /\ cache[s] \in [Jobs -> Row \cup {None}]
      /\ heap'[s] = IF cur[s].new.next_fire = Never THEN heap[s]
                    ELSE BagAdd(heap[s], <<cur[s].new.next_fire, j>>)
      /\ \A t \in Schedulers \ {s} : /\ cur'[t] = cur[t] /\ pc'[t] = pc[t]
                                     /\ cache'[t] = cache[t] /\ heap'[t] = heap[t]
      /\ UNCHANGED row
  BY <1>1 DEF SkipForbidden, SendTask, Reschedule, tableVars, FailoverInv, SyncInv,
     TypeOK, Work
<1>3. cur[s].new = row[j] /\ row[j] # None
  BY <1>1, <1>2 DEF FailoverInv, Failover, AllFirings, Firing
<1>4. row[j].next_fire # Never
  BY <1>2, <1>3 DEF FailoverInv, SyncInv, TypeOK, Failover, Scheduled, Never
<1>5. BagToSet(heap'[s]) = BagToSet(heap[s]) \cup {<<row[j].next_fire, j>>}
  BY <1>2, <1>3, <1>4, AddedToBag
<1> SUFFICES ASSUME NEW t \in Schedulers, NEW k \in Jobs, cache'[t][k] # None, ~Holds(t, k)'
             PROVE  HasEntry(t, k)' \/ cache'[t][k].next_fire < row'[k].next_fire
  BY DEF Queued
<1>6. CASE t # s
  BY <1>2, <1>6 DEF Queued, HasEntry, Holds
<1>7. CASE t = s /\ k = j
  BY <1>2, <1>3, <1>5, <1>7 DEF HasEntry
<1>8. CASE t = s /\ k # j
  <2>1. cache'[s][k] = cache[s][k] /\ ~Holds(s, k)
    BY <1>1, <1>2, <1>8 DEF Holds
  <2> QED
    BY <1>2, <1>5, <1>8, <2>1 DEF Queued, HasEntry
<1> QED
  BY <1>6, <1>7, <1>8

\* A cycle that raises after the schedule is advanced leaves its copy behind.
LEMMA FailKeepsQueued ==
  ASSUME FailoverInv, Queued, NEW s \in Schedulers,
         CallFails(s) \/ AdvanceRaises(s) \/ Crash(s)
  PROVE  Queued'
<1>1. ~AdvanceRaises(s)
  BY DEF AdvanceRaises, FlushOk, FailoverInv, Failover, AllFirings, Firing
<1>2. /\ \A t \in Schedulers \ {s} : /\ cur'[t] = cur[t] /\ pc'[t] = pc[t]
                                     /\ cache'[t] = cache[t] /\ heap'[t] = heap[t]
      /\ UNCHANGED row
      /\ \/ /\ cache'[s] = cache[s] /\ heap'[s] = heap[s]
            /\ pc[s] \in {"sync", "recover", "committed", "advanced", "created"}
         \/ \A j \in Jobs : cache'[s][j] = None
  BY <1>1 DEF CallFails, Crash, Abort, tableVars, FailoverInv, SyncInv, TypeOK
<1> SUFFICES ASSUME NEW t \in Schedulers, NEW k \in Jobs, cache'[t][k] # None, ~Holds(t, k)'
             PROVE  HasEntry(t, k)' \/ cache'[t][k].next_fire < row'[k].next_fire
  BY DEF Queued
<1>3. CASE t # s
  BY <1>2, <1>3 DEF Queued, HasEntry, Holds
<1>4. CASE t = s /\ ~Holds(s, k)
  BY <1>2, <1>4 DEF Queued, HasEntry
<1>5. CASE t = s /\ Holds(s, k)
  BY <1>2, <1>5 DEF Holds, FailoverInv, Failover, AllFirings, Firing
<1> QED
  BY <1>3, <1>4, <1>5

LEMMA QueuedStep ==
  ASSUME Edits = {}, ~HasReplica, "update" \notin FaultKinds, FailoverInv, Queued,
         [Next]_vars
  PROVE  Queued'
<1> USE DEF tableVars, leaderVars, schedVars
<1>1. ASSUME NEW s \in Schedulers, Cycle(s) PROVE Queued'
  <2>1. CASE BeginCycle(s) \/ StandDown(s) \/ BeginDispatch(s) \/ EndDispatch(s)
             \/ CreateTask(s)
    BY <2>1, OtherKeepsQueued DEF BeginCycle, StandDown, BeginDispatch, EndDispatch,
       CreateTask, Holds, FailoverInv, SyncInv, TypeOK
  <2>2. CASE Refresh(s)
    <3>1. cur[s].job = cur'[s].job
      BY <2>2 DEF Refresh, FailoverInv, SyncInv, TypeOK, Work
    <3> QED
      BY <2>2, <3>1, OtherKeepsQueued DEF Refresh, Holds, FailoverInv, SyncInv, TypeOK
  <2>3. ASSUME NEW table \in Tables, SyncJobs(s, table) PROVE Queued'
    <3>1. SyncJobs(s, row)
      BY <2>3 DEF Tables
    <3> QED
      BY <3>1, SyncKeepsQueued
  <2>4. ASSUME NEW e \in DueEntries(s),
               \/ PopSkip(s, e) \/ PopBroken(s, e)
               \/ \E table \in Tables : PopMerge(s, e, table[e[2]])
        PROVE  Queued'
    <3>1. PopSkip(s, e) \/ PopBroken(s, e) \/ PopMerge(s, e, row[e[2]])
      BY <2>4 DEF Tables
    <3> QED
      BY <3>1, PopKeepsQueued
  <2> QED
    BY <1>1, <2>1, <2>2, <2>3, <2>4, AdvanceKeepsQueued, RescheduleKeepsQueued,
       FailKeepsQueued DEF Cycle
<1>2. ~Api /\ ~Replicate
  BY DEF Api, EditCommit, EditFails, Replicate, FailoverInv, Failover, Scheduled
<1>3. ASSUME NEW s \in Schedulers,
             CallFails(s) \/ UpdateFails(s) \/ Crash(s) \/ SessionDies(s)
      PROVE  Queued'
  <2>1. CASE SessionDies(s)
    BY <2>1, OtherKeepsQueued DEF SessionDies, Holds
  <2>2. ~UpdateFails(s)
    BY DEF UpdateFails, Fault
  <2> QED
    BY <1>3, <2>1, <2>2, FailKeepsQueued
<1>4. CASE Tick \/ UNCHANGED vars
  BY <1>4, OtherKeepsQueued DEF Tick, vars, Holds
<1> QED
  BY <1>1, <1>2, <1>3, <1>4 DEF Next, Faults

\* The heap forgets no job: while jobs are not edited, every read is of the primary
\* and no commit of an advanced schedule fails, a cached job has its next firing on
\* the heap after every sync, also after a cycle that raised half-way or a change
\* of leader.
THEOREM FailoverKeepsHeap ==
  ASSUME Edits = {}, ~HasReplica, FaultKinds \cap {"session_in_cycle", "update"} = {}
  PROVE  Spec => []CachedIsQueued
<1>1. "session_in_cycle" \notin FaultKinds /\ "update" \notin FaultKinds
  OBVIOUS
<1>2. Init => Queued
  BY DEF Init, Queued
<1>3. FailoverInv /\ Queued /\ [Next]_vars => Queued'
  BY <1>1, QueuedStep
<1>4. Spec => []FailoverInv
  BY <1>1, FailoverHolds
<1>5. FailoverInv /\ Queued => CachedIsQueued
  <2> SUFFICES ASSUME FailoverInv, Queued, NEW s \in Schedulers, NEW j \in Jobs,
                      pc[s] \in {"recover", "pop"}, cache[s][j] # None, row[j] # None
               PROVE  <<cache[s][j].next_fire, j>> \in BagToSet(heap[s])
    BY DEF CachedIsQueued
  <2>1. cache[s][j] = row[j]
    BY DEF FailoverInv, Failover, Mirrored, InFlight
  <2>2. row[j].next_fire \in Nat
    BY DEF FailoverInv, SyncInv, TypeOK, Row
  <2> QED
    BY <2>1, <2>2 DEF Queued, HasEntry, Holds
<1> QED
  BY <1>2, <1>3, <1>4, <1>5, PTL DEF Spec

=============================================================================
