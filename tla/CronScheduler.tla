--------------------------- MODULE CronScheduler ---------------------------
(***************************************************************************)
(* The cron scheduler: replicas of run_scheduler that elect a leader, keep *)
(* a cache and a heap of firing times over the job table, and fire what is *)
(* due, while the API edits the same rows.                                 *)
(*                                                                         *)
(* Every write to a row goes through SQLAlchemy's unit of work: it loads   *)
(* the row, and at the commit writes only the columns whose value differs  *)
(* from the loaded one.  A transaction's `at` is its start, which is what  *)
(* now() returns and what the column updated_at is stamped with.           *)
(*                                                                         *)
(* The first SELECT of a session goes to the read replica, if there is one *)
(* and it answers (RoutingSession): sync_jobs, the load of db.merge and    *)
(* the API's get_job may all see the table as it was up to MaxLag ago.     *)
(* The refresh after a commit, in a session that holds rows, and all that  *)
(* is written go to the primary.                                           *)
(*                                                                         *)
(* Each action of a scheduler is the code between two points at which the  *)
(* table can change under it.  Time is counted in ticks; a cron expression *)
(* is its period.                                                          *)
(***************************************************************************)
EXTENDS Integers, FiniteSets, Bags, BagsExt

CONSTANTS
    Jobs,          \* job ids (uuid4, never reused)
    Periods,       \* cron expressions
    Forbid,        \* jobs with concurrency_policy = "forbid"
    Schedulers,    \* scheduler processes
    Overlap,       \* _SYNC_OVERLAP_SECONDS
    Interval,      \* scheduler_interval_seconds
    HasReplica,    \* _HAS_REPLICA
    TxnTime,       \* bound: how long a transaction may stay open
    MaxLag,        \* bound: how far the replica is behind
    Edits,         \* kinds of edits the API makes
    FaultKinds,    \* kinds of faults that happen
    MaxTime,       \* bound on the clock
    MaxEdits,      \* bound on the edits
    MaxFaults,     \* bound on the faults
    None

\* Encodings: a column that is NULL is 0, which is no period and no time.
NoCron == 0
Never == 0

Row == [enabled : BOOLEAN, cron : Periods \cup {NoCron},
        next_fire : Nat, updated_at : Nat]

\* A scheduler's and the API's unit of work on a row.
Work == [job : Jobs, ts : Nat, at : Nat, loaded : Row \cup {None}, new : Row]

Change == [job : Jobs, at : Nat,
           loaded : Row \cup {None}, new : Row \cup {None}]

EditKinds == {"create", "cron", "one_time", "enable", "disable", "delete"}

ASSUME CronConstants ==
    /\ Edits \subseteq EditKinds
    /\ Periods \subseteq Nat \ {0} /\ Periods # {}
    /\ Forbid \subseteq Jobs
    /\ Overlap \in Nat /\ Interval \in Nat /\ HasReplica \in BOOLEAN
    \* The overlap covers a transaction and the lag of what it committed.
    /\ TxnTime \in Nat /\ MaxLag \in Nat
    /\ TxnTime + (IF HasReplica THEN MaxLag ELSE 0) <= Overlap
    /\ MaxTime \in Nat /\ MaxEdits \in Nat /\ MaxFaults \in Nat
    /\ None \notin Row \cup Work \cup Change \cup Schedulers

VARIABLES
    clock,
    row,           \* the job table; None is no row
    replica,       \* the table as the replica has it
    lag,           \* ticks since the replica fell behind
    edit,          \* the API's open transaction, or None
    edits,         \* edits so far
    lock,          \* the scheduler whose session holds the advisory lock
    is_leader,     \* LeaderLock._is_leader
    pc,            \* where a scheduler is in its cycle
    sleep,         \* ticks left of its sleep between two cycles
    at,            \* started_at of sync_jobs, then now of dispatch_due_jobs
    last_sync,     \* last_sync_at; 0, before every stamp, for None
    cache,         \* _job_cache
    heap,          \* _heap, a bag of <<time, job>>
    cur,           \* the entry being dispatched and its transaction, or None
    faults,        \* faults so far
    fired,         \* history: a job's last firing no edit has asked for again
    wanted,        \* history: the row as the API left it
    deleted,       \* history: jobs the API has deleted
    unseen         \* history: jobs edited since a scheduler last read them

apiVars == <<edit, edits, wanted, deleted>>
copyVars == <<replica, lag>>
tableVars == <<row, apiVars, copyVars>>
leaderVars == <<lock, is_leader>>
schedVars == <<pc, sleep, at, last_sync, cache, heap, cur>>
vars == <<clock, tableVars, leaderVars, schedVars, faults, fired, unseen>>

Places == {"sleep", "sync", "recover", "pop",
           "merged", "committed", "advanced", "created"}
Working == {"merged", "committed", "advanced", "created"}

TypeOK ==
    /\ clock \in Nat
    /\ row \in [Jobs -> Row \cup {None}]
    /\ replica \in [Jobs -> Row \cup {None}]
    /\ lag \in 0 .. MaxLag
    /\ edit \in Change \cup {None}
    /\ edits \in 0..MaxEdits
    /\ lock \in Schedulers \cup {None}
    /\ is_leader \in [Schedulers -> BOOLEAN]
    /\ pc \in [Schedulers -> Places]
    /\ sleep \in [Schedulers -> 0 .. Interval]
    /\ at \in [Schedulers -> Nat]
    /\ last_sync \in [Schedulers -> Int]
    /\ cache \in [Schedulers -> [Jobs -> Row \cup {None}]]
    /\ DOMAIN heap = Schedulers
    /\ \A s \in Schedulers : BagToSet(heap[s]) \subseteq Nat \X Jobs
    /\ cur \in [Schedulers -> Work \cup {None}]
    /\ \A s \in Schedulers : cur[s] # None <=> pc[s] \in Working
    /\ faults \in 0..MaxFaults
    /\ fired \in [Jobs -> Nat]
    /\ wanted \in [Jobs -> Row \cup {None}]
    /\ deleted \in SUBSET Jobs
    /\ unseen \in [Schedulers -> SUBSET Jobs]

-----------------------------------------------------------------------------
(* What the code computes. *)

\* next_cron_time: the first firing strictly after t.
NextCronTime(c, t) == (t \div c + 1) * c

\* What the first SELECT of a session may read.
Tables == IF HasReplica THEN {row, replica} ELSE {row}

\* A commit can be applied: an INSERT finds no row, an UPDATE finds one; a
\* DELETE that finds none only warns.
FlushOk(r, u) == u.new # None => ((u.loaded = None) <=> (r = None))

\* The unit of work u is committed on top of the row r.
Flush(r, u) ==
    IF u.loaded = None \/ u.new = None THEN u.new
    ELSE [enabled |-> IF u.new.enabled # u.loaded.enabled
                      THEN u.new.enabled ELSE r.enabled,
          cron |-> IF u.new.cron # u.loaded.cron THEN u.new.cron ELSE r.cron,
          next_fire |-> IF u.new.next_fire # u.loaded.next_fire
                        THEN u.new.next_fire ELSE r.next_fire,
          \* onupdate=now(), unless the program set the column itself
          updated_at |-> IF u.new.updated_at # u.loaded.updated_at
                         THEN u.new.updated_at ELSE u.at]

\* list_updated_since.
UpdatedSince(table, t) ==
    {j \in Jobs : /\ table[j] # None /\ table[j].cron # NoCron
                  /\ table[j].updated_at >= t}

\* A bug to be caught: a job that is in the cache is never pushed again.
IsNewFiringCached(s, j, t) == cache[s][j] = None

\* _is_new_firing.
IsNewFiring(s, j, t) == cache[s][j] = None \/ cache[s][j].next_fire # t

\* A bug to be caught: stale entries fire.
IsStaleNever(s, e) == FALSE

\* dispatch_due_jobs: the entry no longer is the cached job's next firing.
IsStale(s, e) == cache[s][e[2]].next_fire # e[1]

\* The pop raises: next_fire_at is None, or there is no cron expression.
IsBroken(s, e) ==
    \/ cache[s][e[2]].next_fire = Never
    \/ ~IsStale(s, e) /\ cache[s][e[2]].cron = NoCron

\* The entries heappop may return: due, and none is earlier.
DueEntries(s) ==
    {e \in BagToSet(heap[s]) :
        e[1] <= at[s] /\ \A f \in BagToSet(heap[s]) : e[1] <= f[1]}

-----------------------------------------------------------------------------
(* The API's transactions on a job row, one open at a time. *)

\* The effect of an edit on the row r it loaded at time t.  Only a schedule
\* that is set is computed anew: enabling a job leaves next_fire_at alone.
Edited(kind, c, r, t) ==
    CASE kind = "create"   -> [enabled |-> TRUE, cron |-> c, updated_at |-> t,
                               next_fire |-> NextCronTime(c, t)]
      [] kind = "cron"     -> [r EXCEPT !.cron = c,
                                        !.next_fire = NextCronTime(c, t)]
      [] kind = "one_time" -> [r EXCEPT !.cron = NoCron, !.next_fire = Never]
      [] kind = "enable"   -> [r EXCEPT !.enabled = TRUE]
      [] kind = "disable"  -> [r EXCEPT !.enabled = FALSE]
      [] kind = "delete"   -> None

\* create_job, update_job or delete_job reads the row and decides.  A job that
\* was deleted never comes back through the API: ids are not reused.
EditBegin(j, kind, c, r) ==
    /\ edit = None /\ edits < MaxEdits
    /\ (kind = "create") <=> (r = None)
    /\ kind = "create" => row[j] = None /\ j \notin deleted
    /\ edit' = [job |-> j, at |-> clock, loaded |-> r,
                new |-> Edited(kind, c, r, clock)]
    /\ edit'.new # r
    /\ edits' = edits + 1
    /\ UNCHANGED <<clock, row, copyVars, wanted, deleted, leaderVars, schedVars,
                   faults, fired, unseen>>

\* The last firing f of a job, when a commit leaves it with the row r.  A
\* transaction that computed next_fire_at before a firing and is committed after
\* it asks for that firing once more; a deleted job has no firings.
Asked(r, f) ==
    IF r = None THEN 0
    ELSE IF r.next_fire \in 1 .. f THEN r.next_fire - 1 ELSE f

\* The commit.
EditCommit ==
    /\ edit # None /\ FlushOk(row[edit.job], edit)
    /\ LET j == edit.job
           r == Flush(row[j], edit)
       IN /\ row' = [row EXCEPT ![j] = r]
          /\ wanted' = [wanted EXCEPT ![j] = r]
          /\ deleted' = IF r = None THEN deleted \cup {j} ELSE deleted
          /\ unseen' = [s \in Schedulers |-> unseen[s] \cup {j}]
          /\ fired' = [fired EXCEPT ![j] = Asked(r, @)]
    /\ edit' = None
    /\ UNCHANGED <<clock, copyVars, edits, leaderVars, schedVars, faults>>

\* The UPDATE of a row that was read from the replica finds it gone.
EditFails ==
    /\ edit # None /\ ~FlushOk(row[edit.job], edit)
    /\ edit' = None
    /\ UNCHANGED <<clock, row, copyVars, edits, wanted, deleted, leaderVars,
                   schedVars, faults, fired, unseen>>

-----------------------------------------------------------------------------
(* LeaderLock and the cycle of run_scheduler. *)

\* A bug to be caught: a leader once is a leader for ever.
MayLeadUnverified(s) == is_leader[s] \/ lock = None

\* is_leader returns TRUE: the session of the leader is up ("SELECT 1"), or
\* pg_try_advisory_lock gets the lock.
MayLead(s) == IF is_leader[s] THEN lock = s ELSE lock = None

\* The leader starts a cycle: sync_jobs captures started_at.
BeginCycle(s) ==
    /\ pc[s] = "sleep" /\ sleep[s] = 0 /\ MayLead(s)
    /\ lock' = s
    /\ is_leader' = [is_leader EXCEPT ![s] = TRUE]
    /\ pc' = [pc EXCEPT ![s] = "sync"]
    /\ at' = [at EXCEPT ![s] = clock]
    /\ UNCHANGED <<clock, tableVars, sleep, last_sync, cache, heap, cur, faults,
                   fired, unseen>>

\* is_leader finds its session dead: the leader stands down for this cycle.  A
\* standby that does not get the lock sleeps on as well, which changes nothing.
StandDown(s) ==
    /\ pc[s] = "sleep" /\ sleep[s] = 0 /\ is_leader[s] /\ lock # s
    /\ is_leader' = [is_leader EXCEPT ![s] = FALSE]
    /\ sleep' = [sleep EXCEPT ![s] = Interval]
    /\ UNCHANGED <<clock, tableVars, lock, pc, at, last_sync, cache, heap, cur,
                   faults, fired, unseen>>

\* The cycle is over: run_scheduler sleeps.
Rest(s) ==
    /\ pc' = [pc EXCEPT ![s] = "sleep"]
    /\ sleep' = [sleep EXCEPT ![s] = Interval]

\* A bug to be caught: the cursor is not rewound.
RewoundExact(t) == t

\* last_sync_at = started_at - _SYNC_OVERLAP_SECONDS
Rewound(t) == t - Overlap

\* sync_jobs reads the changed rows and brings the cache and the heap up to date.
SyncJobs(s, table) ==
    LET read == UpdatedSince(table, last_sync[s])
        off == {j \in read : ~table[j].enabled}
        push == {j \in read \ off : /\ table[j].next_fire # Never
                                    /\ IsNewFiring(s, j, table[j].next_fire)}
    IN /\ pc[s] = "sync"
       /\ cache' = [cache EXCEPT ![s] =
                      [j \in Jobs |-> CASE j \in off -> None
                                        [] j \in read \ off -> table[j]
                                        [] OTHER -> cache[s][j]]]
       /\ heap' = [heap EXCEPT ![s] =
                     @ (+) SetToBag({<<table[j].next_fire, j>> : j \in push})]
       /\ last_sync' = [last_sync EXCEPT ![s] = Rewound(at[s])]
       /\ unseen' = [unseen EXCEPT ![s] = @ \ {j \in read : table[j] = row[j]}]
       /\ pc' = [pc EXCEPT ![s] = "recover"]
       /\ UNCHANGED <<clock, tableVars, leaderVars, sleep, at, cur, faults, fired>>

\* recover_orphans (module TaskLifecycle) has returned; dispatch_due_jobs
\* reads the clock.
BeginDispatch(s) ==
    /\ pc[s] = "recover"
    /\ pc' = [pc EXCEPT ![s] = "pop"]
    /\ at' = [at EXCEPT ![s] = clock]
    /\ UNCHANGED <<clock, tableVars, leaderVars, sleep, last_sync, cache, heap,
                   cur, faults, fired, unseen>>

\* An entry is due, and its job is gone from the cache or the entry is stale.
PopSkip(s, e) ==
    /\ pc[s] = "pop" /\ e \in DueEntries(s)
    /\ \/ cache[s][e[2]] = None
       \/ /\ cache[s][e[2]] # None /\ ~IsBroken(s, e)
          /\ IsStale(s, e)
    /\ heap' = [heap EXCEPT ![s] = BagRemove(@, e)]
    /\ UNCHANGED <<clock, tableVars, leaderVars, pc, sleep, at, last_sync, cache,
                   cur, faults, fired, unseen>>

\* The pop raises and ends the cycle.
PopBroken(s, e) ==
    /\ pc[s] = "pop" /\ e \in DueEntries(s)
    /\ cache[s][e[2]] # None /\ IsBroken(s, e)
    /\ heap' = [heap EXCEPT ![s] = BagRemove(@, e)]
    /\ Rest(s)
    /\ UNCHANGED <<clock, tableVars, leaderVars, at, last_sync, cache, cur,
                   faults, fired, unseen>>

\* _dispatch: job.next_fire_at = next_cron_time(job.cron_expression, now).
Advanced(s, c) == [c EXCEPT !.next_fire = NextCronTime(c.cron, at[s])]

\* The entry is the job's next firing: db.merge loads the row r and copies every
\* column of the cached job onto it.
PopMerge(s, e, r) ==
    /\ pc[s] = "pop" /\ e \in DueEntries(s)
    /\ cache[s][e[2]] # None /\ ~IsBroken(s, e) /\ ~IsStale(s, e)
    /\ heap' = [heap EXCEPT ![s] = BagRemove(@, e)]
    /\ cur' = [cur EXCEPT ![s] =
                 [job |-> e[2], ts |-> e[1], at |-> clock, loaded |-> r,
                  new |-> Advanced(s, cache[s][e[2]])]]
    /\ pc' = [pc EXCEPT ![s] = "merged"]
    /\ UNCHANGED <<clock, tableVars, leaderVars, sleep, at, last_sync, cache,
                   faults, fired, unseen>>

\* The merge writes the stamp of the cached copy and not the time of the commit.
Backdates(u) == u.loaded = None \/ u.new.updated_at # u.loaded.updated_at

\* The UPDATE leaves next_fire_at to the row: the load returned the new value.
KeepsTime(u) == u.loaded # None /\ u.new.next_fire = u.loaded.next_fire

\* jobs.update commits the advanced schedule.
Advance(s) ==
    LET u == cur[s]
        j == u.job
        r == Flush(row[j], u)
    IN /\ pc[s] = "merged" /\ FlushOk(row[j], u)
       /\ row' = [row EXCEPT ![j] = r]
       /\ unseen' = [t \in Schedulers |->
                        IF Backdates(u) THEN unseen[t] \ {j} ELSE unseen[t]]
       /\ fired' = [fired EXCEPT ![j] = IF KeepsTime(u) THEN Asked(r, u.ts) ELSE u.ts]
       /\ pc' = [pc EXCEPT ![s] = "committed"]
       /\ UNCHANGED <<clock, apiVars, copyVars, leaderVars, sleep, at, last_sync,
                      cache, heap, cur, faults>>

\* jobs.update refreshes the job.
Refresh(s) ==
    /\ pc[s] = "committed" /\ row[cur[s].job] # None
    /\ cur' = [cur EXCEPT ![s].new = row[cur[s].job]]
    /\ pc' = [pc EXCEPT ![s] = "advanced"]
    /\ UNCHANGED <<clock, tableVars, leaderVars, sleep, at, last_sync, cache, heap,
                   faults, fired, unseen>>

\* A bug to be caught: the work of a cycle that raised is kept.
AbortKeepsWork(s) == Rest(s) /\ UNCHANGED cur

\* A cycle that raises ends here; run_scheduler logs it and sleeps.
Abort(s) ==
    /\ Rest(s)
    /\ cur' = [cur EXCEPT ![s] = None]

\* The row went away, or came back, between the load and the commit, or went away
\* between the commit and the refresh.
AdvanceRaises(s) ==
    /\ \/ pc[s] = "merged" /\ ~FlushOk(row[cur[s].job], cur[s])
       \/ pc[s] = "committed" /\ row[cur[s].job] = None
    /\ Abort(s)
    /\ UNCHANGED <<clock, tableVars, leaderVars, at, last_sync, cache, heap,
                   faults, fired, unseen>>

\* The job, refreshed by jobs.update, goes back to the cache and the heap.
Reschedule(s) ==
    LET j == cur[s].job
        r == cur[s].new
    IN /\ cache' = [cache EXCEPT ![s][j] = r]
       /\ heap' = [heap EXCEPT ![s] = IF r.next_fire = Never THEN @
                                      ELSE BagAdd(@, <<r.next_fire, j>>)]
       /\ pc' = [pc EXCEPT ![s] = "pop"]
       /\ cur' = [cur EXCEPT ![s] = None]

\* The policy is "forbid" and a task of the job is running: no task, but the
\* job is rescheduled.  Which tasks run is the workers' business.
SkipForbidden(s) ==
    /\ pc[s] = "advanced" /\ cur[s].job \in Forbid
    /\ Reschedule(s)
    /\ UNCHANGED <<clock, tableVars, leaderVars, sleep, at, last_sync, faults,
                   fired, unseen>>

\* The firing's task is created.
CreateTask(s) ==
    /\ pc[s] = "advanced"
    /\ pc' = [pc EXCEPT ![s] = "created"]
    /\ UNCHANGED <<clock, tableVars, leaderVars, sleep, at, last_sync, cache, heap,
                   cur, faults, fired, unseen>>

\* The task's message is sent and the job rescheduled.
SendTask(s) ==
    /\ pc[s] = "created"
    /\ Reschedule(s)
    /\ UNCHANGED <<clock, tableVars, leaderVars, sleep, at, last_sync, faults,
                   fired, unseen>>

\* Nothing is due any more: the cycle ends.
EndDispatch(s) ==
    /\ pc[s] = "pop" /\ DueEntries(s) = {}
    /\ Rest(s)
    /\ UNCHANGED <<clock, tableVars, leaderVars, at, last_sync, cache, heap, cur,
                   faults, fired, unseen>>

-----------------------------------------------------------------------------
(* Faults and time. *)

Fault(kind) ==
    /\ kind \in FaultKinds
    /\ faults < MaxFaults
    /\ faults' = faults + 1

\* A call of the database or the queue raises and ends the cycle: a read of
\* sync_jobs or recover_orphans, the refresh, the query or the commit of _dispatch
\* after the schedule is advanced, send_task.
CallFails(s) ==
    /\ Fault("call")
    /\ pc[s] \in {"sync", "recover", "committed", "advanced", "created"}
    /\ Abort(s)
    /\ UNCHANGED <<clock, tableVars, leaderVars, at, last_sync, cache, heap,
                   fired, unseen>>

\* The commit that advances the schedule raises: the entry is off the heap and
\* the row is as it was.
UpdateFails(s) ==
    /\ Fault("update")
    /\ pc[s] = "merged"
    /\ Abort(s)
    /\ UNCHANGED <<clock, tableVars, leaderVars, at, last_sync, cache, heap,
                   fired, unseen>>

\* The process dies, and its session with it, and is started again.
Crash(s) ==
    /\ Fault("crash")
    /\ lock' = IF lock = s THEN None ELSE lock
    /\ is_leader' = [is_leader EXCEPT ![s] = FALSE]
    /\ pc' = [pc EXCEPT ![s] = "sleep"]
    /\ sleep' = [sleep EXCEPT ![s] = 0]
    /\ cur' = [cur EXCEPT ![s] = None]
    /\ last_sync' = [last_sync EXCEPT ![s] = 0]
    /\ cache' = [cache EXCEPT ![s] = [j \in Jobs |-> None]]
    /\ heap' = [heap EXCEPT ![s] = EmptyBag]
    /\ UNCHANGED <<clock, tableVars, at, fired, unseen>>

\* The leader's session dies while the process sleeps ("session"), or while it
\* is in a cycle ("session_in_cycle").
SessionDies(s) ==
    /\ lock = s
    /\ Fault(IF pc[s] = "sleep" THEN "session" ELSE "session_in_cycle")
    /\ lock' = None
    /\ UNCHANGED <<clock, tableVars, is_leader, schedVars, fired, unseen>>

\* The replica catches up with the primary.
Replicate ==
    /\ HasReplica /\ replica # row
    /\ replica' = row
    /\ lag' = 0
    /\ UNCHANGED <<clock, row, apiVars, leaderVars, schedVars, faults, fired, unseen>>

\* Time passes; no transaction stays open longer than TxnTime, and nothing is
\* committed longer than MaxLag before it reaches the replica.  When the clock has
\* reached its bound it stands, and what is left of a sleep still passes.
Tick ==
    /\ clock < MaxTime \/ \E s \in Schedulers : sleep[s] > 0
    /\ edit # None => clock < edit.at + TxnTime
    /\ \A s \in Schedulers : pc[s] = "merged" => clock < cur[s].at + TxnTime
    /\ HasReplica /\ replica # row => lag < MaxLag
    /\ clock' = IF clock < MaxTime THEN clock + 1 ELSE clock
    /\ lag' = IF HasReplica /\ replica # row THEN lag + 1 ELSE 0
    /\ sleep' = [s \in Schedulers |-> IF sleep[s] = 0 THEN 0 ELSE sleep[s] - 1]
    /\ UNCHANGED <<row, replica, apiVars, leaderVars, pc, at, last_sync, cache,
                   heap, cur, faults, fired, unseen>>

-----------------------------------------------------------------------------
Init ==
    /\ clock = 1
    /\ row \in [Jobs -> {None} \cup {Edited("create", c, None, 0) : c \in Periods}]
    /\ replica = row /\ lag = 0
    /\ wanted = row
    /\ deleted = {}
    /\ edit = None /\ edits = 0
    /\ lock = None
    /\ is_leader = [s \in Schedulers |-> FALSE]
    /\ pc = [s \in Schedulers |-> "sleep"]
    /\ sleep = [s \in Schedulers |-> 0]
    /\ at = [s \in Schedulers |-> 0]
    /\ last_sync = [s \in Schedulers |-> 0]
    /\ cache = [s \in Schedulers |-> [j \in Jobs |-> None]]
    /\ heap = [s \in Schedulers |-> EmptyBag]
    /\ cur = [s \in Schedulers |-> None]
    /\ faults = 0
    /\ fired = [j \in Jobs |-> 0]
    /\ unseen = [s \in Schedulers |-> {}]

Cycle(s) ==
    \/ BeginCycle(s) \/ StandDown(s)
    \/ \E table \in Tables : SyncJobs(s, table)
    \/ BeginDispatch(s)
    \/ \E e \in DueEntries(s) :
          \/ PopSkip(s, e) \/ PopBroken(s, e)
          \/ \E table \in Tables : PopMerge(s, e, table[e[2]])
    \/ Advance(s) \/ Refresh(s) \/ AdvanceRaises(s)
    \/ SkipForbidden(s) \/ CreateTask(s) \/ SendTask(s)
    \/ EndDispatch(s)

Api ==
    \/ \E j \in Jobs, kind \in Edits, c \in Periods, table \in Tables :
          EditBegin(j, kind, c, table[j])
    \/ EditCommit \/ EditFails

Faults ==
    \E s \in Schedulers : CallFails(s) \/ UpdateFails(s) \/ Crash(s) \/ SessionDies(s)

Next ==
    \/ \E s \in Schedulers : Cycle(s)
    \/ Api
    \/ Faults
    \/ Replicate
    \/ Tick

Spec == Init /\ [][Next]_vars

\* run_scheduler is an endless loop of every process, open transactions end, and
\* the replica goes on replaying what the primary commits.
FairSpec ==
    /\ Spec
    /\ \A s \in Schedulers : WF_vars(Cycle(s))
    /\ WF_vars(EditCommit \/ EditFails)
    /\ WF_vars(Replicate)
    /\ WF_vars(Tick)

-----------------------------------------------------------------------------
(* Properties. *)

\* The rewound cursor of sync_jobs loses no edit: as long as a scheduler has not
\* read a committed edit of a scheduled job, its next sync still will, although
\* updated_at is the time the edit's transaction started and not the time it
\* became visible on the replica.  (A firing that merges an outdated copy of the
\* job overwrites its stamp; that edit is EditsStick's.)
ChangesStayVisible ==
    \A s \in Schedulers : \A j \in unseen[s] :
        row[j] # None /\ row[j].cron # NoCron
            => row[j].updated_at >= last_sync[s]

\* No firing is made twice: whatever duplicate or outdated entries the heap
\* holds, wherever an earlier leader stopped and however the API moves the
\* schedule, the firing that _dispatch is about to make is later than every
\* firing of the job before, except for firings an edit has asked for again and
\* for jobs that were deleted.  With a replica this takes a lag below the sleep
\* between two cycles and the same process in both.
FiresForward ==
    \A s \in Schedulers :
        pc[s] = "merged" => cur[s].ts > fired[cur[s].job]

\* No cached job is forgotten: once a sync has run, a job in the cache has its
\* next firing on the heap, also after a cycle that raised anywhere but in the
\* commit of an advanced schedule (DueJobAdvances says what that one does).
CachedIsQueued ==
    \A s \in Schedulers, j \in Jobs :
        /\ pc[s] \in {"recover", "pop"}
        /\ cache[s][j] # None /\ row[j] # None
        /\ cache[s][j].cron # NoCron
        => <<cache[s][j].next_fire, j>> \in BagToSet(heap[s])

\* LeaderLock elects a single leader: two schedulers are never in a cycle of
\* run_scheduler at the same time, provided no session dies within a cycle.
OneActiveScheduler ==
    \A r, s \in Schedulers : pc[r] # "sleep" /\ pc[s] # "sleep" => r = s

IsDue(j) ==
    /\ row[j] # None
    /\ row[j].enabled /\ row[j].next_fire \in 1 .. clock

\* A firing is not lost: an enabled job whose time has come is advanced beyond
\* it (fired, or skipped by its policy), through crashes, changes of leader and
\* every failing call but one: when the commit that advances the schedule fails,
\* the job is off the heap and nothing puts it back.
DueJobAdvances == \A j \in Jobs : IsDue(j) ~> ~IsDue(j)

\* What the API last committed is what the table holds: the scheduler, which only
\* moves next_fire_at, neither brings a deleted job back nor undoes a change of
\* the enabled flag or the cron expression, although it merges a cached copy.
EditsStick ==
    \A j \in Jobs :
        /\ wanted[j] = None => row[j] = None
        /\ wanted[j] # None /\ row[j] # None =>
               row[j].enabled = wanted[j].enabled /\ row[j].cron = wanted[j].cron

=============================================================================
