------------------------ MODULE DependencyScheduler ------------------------
(***************************************************************************)
(* The dependency scheduler: a cycle reads the successful tasks no cycle   *)
(* has looked at, marks them processed one commit at a time, and then runs *)
(* every job downstream of them whose upstreams have all succeeded.  Jobs  *)
(* are triggered, enabled, disabled and linked anew and tasks finish at    *)
(* any moment of a cycle, the first read may come from a read replica that *)
(* lags, and a failing call or a crash ends a cycle anywhere.              *)
(*                                                                         *)
(* A job that is created later is disabled and unlinked at first.  Which   *)
(* graphs the API accepts is the subject of JobEdits; jobs are not deleted *)
(* here.                                                                   *)
(***************************************************************************)
EXTENDS Integers, Sequences, FiniteSets, FiniteSetsExt

CONSTANTS
    Jobs,         \* the jobs
    Graphs,       \* the acyclic graphs of the instance, each [Jobs -> SUBSET Jobs]
    Later,        \* jobs that may be disabled at the start
    Batch,        \* how many tasks a cycle reads at most (100 in the code)
    MaxTriggers,  \* bound: tasks created by the API, the cron scheduler, retries
    MaxUpdates,   \* bound: updates of jobs
    MaxFaults     \* bound: stale reads and aborted cycles

ASSUME GraphAssumption == Graphs \subseteq [Jobs -> SUBSET Jobs]
ASSUME BatchAssumption == Batch \in Nat \ {0}
ASSUME BoundAssumption ==
    MaxTriggers \in Nat /\ MaxUpdates \in Nat /\ MaxFaults \in Nat

VARIABLES
    now,        \* the clock; it moves with every time stamp the tasks get
    tasks,      \* the task table, in the order of insertion
    enabled,    \* the enabled jobs
    upstreams,  \* per job its upstream jobs
    pc,         \* where the cycle is
    batch,      \* the observed tasks that are still to be marked
    candidates, \* downstream jobs still to be evaluated
    ups,        \* their upstream jobs, as the cycle loaded them
    latest,     \* per job its latest task as the cycle read it ({} = none)
    made,       \* the task created and not sent yet, 0 = none
    txn,        \* start of the scheduler's open transaction, 0 = none
    read,       \* history: how many tasks there were when latest was read
    triggers, updates, faults,  \* bounds
    dropped     \* history: jobs that an aborted cycle left unevaluated, or that
                \* were enabled or linked anew since they were evaluated

envVars == <<enabled, upstreams, triggers, updates>>
cycleVars == <<pc, batch, candidates, ups, latest, made, txn, read>>
vars == <<now, tasks, envVars, cycleVars, faults, dropped>>

\* started_at and the lock are TaskLifecycle's.  The last three are history: the
\* ready_at a dependency run was created for (0 for any other task), the upstreams
\* it waited for, and how many tasks there were when these were looked up.
Task == [job : Jobs, status : {"pending", "success", "failed"}, created : Nat,
         finished : Nat, processed : BOOLEAN, sent : BOOLEAN,
         ready : Nat, after : SUBSET Jobs, read : Nat]

NewTask(j, created, ready, after, seen) ==
    [job |-> j, status |-> "pending", created |-> created, finished |-> 0,
     processed |-> FALSE, sent |-> FALSE,
     ready |-> ready, after |-> after, read |-> seen]

-----------------------------------------------------------------------------
(* What the code reads and compares. *)

CompletedAt(t) == IF t.finished # 0 THEN t.finished ELSE t.created

Downstream(j) == {c \in Jobs : j \in upstreams[c]}

\* A success no cycle has marked.
Unprocessed == {i \in DOMAIN tasks :
                  tasks[i].status = "success" /\ ~tasks[i].processed}

\* The limit oldest tasks of S, oldest first.
Oldest(S) == {i \in S : Cardinality({k \in S : tasks[k].created < tasks[i].created})
                          < Batch}

Mine(j) == {tasks[i] : i \in {k \in DOMAIN tasks : tasks[k].job = j}}

\* A bug to be caught: the latest success counts, not the latest task.
LatestSuccess(j) ==
    LET S == {t \in Mine(j) : t.status = "success"}
    IN {t \in S : \A o \in S : o.created <= t.created}

\* The one task of j that was created last, as a set: empty if j never ran.
LatestTask(j) == {t \in Mine(j) : \A o \in Mine(j) : o.created <= t.created}

\* Every job of the list U has a latest task, and it is a success.
AllSucceeded(U, last) ==
    /\ U # {}
    /\ \A u \in U : \E t \in last[u] : t.status = "success"

ReadyAt(U, last) == Max({CompletedAt(t) : t \in UNION {last[u] : u \in U}})

\* A bug to be caught: only a finished run counts, not one that is pending.
AlreadyChainedFinished(c, U, last) ==
    \E t \in last[c] : t.finished # 0 /\ t.finished >= ReadyAt(U, last)

\* A bug to be caught: any earlier run of the job counts.
AlreadyChainedEver(c, U, last) == last[c] # {}

\* The idempotency guard.
AlreadyChained(c, U, last) ==
    \E t \in last[c] : CompletedAt(t) >= ReadyAt(U, last)

IsReady(c, U, last) == AllSucceeded(U, last) /\ ~AlreadyChained(c, U, last)

-----------------------------------------------------------------------------
(* The jobs' other runs. *)

\* A manual, scheduled or retried run: created and sent by its own component.
Start(j) ==
    /\ triggers < MaxTriggers
    /\ triggers' = triggers + 1
    /\ now' = now + 1
    /\ tasks' = Append(tasks, [NewTask(j, now', 0, {}, 0) EXCEPT !.sent = TRUE])

Trigger(j) ==
    /\ Start(j)
    /\ UNCHANGED <<enabled, upstreams, updates, cycleVars, faults, dropped>>

\* A worker ends a task it received from the queue.
Finish(i, status) ==
    /\ tasks[i].status = "pending" /\ tasks[i].sent
    /\ now' = now + 1
    /\ tasks' = [tasks EXCEPT ![i].status = status, ![i].finished = now']
    /\ UNCHANGED <<envVars, cycleVars, faults, dropped>>

\* create_job or update_job sets the enabled flag of j and the edges at j.  A
\* one-time job that is enabled and has no upstreams is started at once; a job
\* with upstreams, or with a schedule, is not.
UpdateJob(j, on, g) ==
    /\ updates < MaxUpdates /\ updates' = updates + 1
    /\ \A c \in Jobs \ {j} : g[c] \ {j} = upstreams[c] \ {j}
    /\ enabled' = IF on THEN enabled \cup {j} ELSE enabled \ {j}
    /\ upstreams' = g
    /\ dropped' = dropped \cup (enabled' \ enabled)
                         \cup {c \in Jobs : g[c] # upstreams[c]}
    /\ \/ j \in enabled' \ enabled /\ g[j] = {} /\ Start(j)
       \/ UNCHANGED <<now, tasks, triggers>>
    /\ UNCHANGED <<cycleVars, faults>>

-----------------------------------------------------------------------------
(* The cycle. *)

\* The tasks are read and then, in the session that now holds rows and so reads
\* the primary, their jobs with the downstream jobs and these jobs' upstreams.
Load(S) ==
    /\ pc' = "mark" /\ batch' = Oldest(S)
    /\ candidates' = (UNION {Downstream(tasks[i].job) : i \in batch'}) \cap enabled
    /\ ups' = [c \in Jobs |-> IF c \in candidates' THEN upstreams[c] ELSE {}]

\* With nothing to observe the cycle is over.
Observe ==
    /\ pc = "idle" /\ Unprocessed # {}
    /\ Load(Unprocessed)
    /\ UNCHANGED <<now, tasks, envVars, latest, made, txn, read, faults, dropped>>

\* The session is fresh, so the first read may go to a replica: it misses
\* successes the primary has and shows marked tasks as still unmarked.
ObserveStale ==
    /\ pc = "idle" /\ faults < MaxFaults /\ faults' = faults + 1
    /\ \E S \in SUBSET {i \in DOMAIN tasks : tasks[i].status = "success"} :
         S # {} /\ Load(S)
    /\ UNCHANGED <<now, tasks, envVars, latest, made, txn, read, dropped>>

\* Each mark is a commit of its own.
MarkProcessed(i) ==
    /\ pc = "mark" /\ i \in batch
    /\ tasks' = [tasks EXCEPT ![i].processed = TRUE]
    /\ batch' = batch \ {i}
    /\ pc' = IF batch' # {} THEN "mark"
             ELSE IF candidates = {} THEN "idle" ELSE "latest"
    /\ UNCHANGED <<now, envVars, candidates, ups, latest, made, txn, read, faults,
                   dropped>>

\* A bug to be caught: only the candidates are looked up, not their upstreams.
ReadLatestOfCandidates ==
    /\ pc = "latest"
    /\ pc' = "dispatch"
    /\ latest' = [j \in Jobs |-> IF j \in candidates THEN LatestTask(j) ELSE {}]
    /\ txn' = now /\ read' = Len(tasks)
    /\ UNCHANGED <<now, tasks, envVars, batch, candidates, ups, made, faults, dropped>>

\* The query opens the transaction in which the first new task is inserted.
ReadLatest ==
    /\ pc = "latest"
    /\ pc' = "dispatch"
    /\ latest' = LET wanted == candidates \cup UNION {ups[c] : c \in candidates}
                IN  [j \in Jobs |-> IF j \in wanted THEN LatestTask(j) ELSE {}]
    /\ txn' = now /\ read' = Len(tasks)
    /\ UNCHANGED <<now, tasks, envVars, batch, candidates, ups, made, faults, dropped>>

\* Candidate c is done; the cycle ends with the last one.
Evaluated(c) ==
    /\ candidates' = candidates \ {c}
    /\ pc' = IF candidates' = {} THEN "idle" ELSE "dispatch"
    /\ txn' = IF candidates' = {} THEN 0 ELSE txn
    /\ read' = IF candidates' = {} THEN 0 ELSE read
    /\ latest' = IF candidates' = {} THEN [j \in Jobs |-> {}] ELSE latest
    /\ ups' = [ups EXCEPT ![c] = {}]
    /\ dropped' = IF ups[c] = upstreams[c] THEN dropped \ {c} ELSE dropped

Skip(c) ==
    /\ pc = "dispatch" /\ c \in candidates
    /\ ~IsReady(c, ups[c], latest)
    /\ Evaluated(c)
    /\ UNCHANGED <<now, tasks, envVars, batch, made, faults>>

\* created_at is the start of the inserting transaction.
CreateTask(c) ==
    /\ pc = "dispatch" /\ c \in candidates
    /\ IsReady(c, ups[c], latest)
    /\ now' = IF txn = 0 THEN now + 1 ELSE now
    /\ tasks' = Append(tasks, NewTask(c, IF txn = 0 THEN now' ELSE txn,
                                      ReadyAt(ups[c], latest), ups[c], read))
    /\ pc' = "send" /\ made' = Len(tasks') /\ txn' = 0
    /\ UNCHANGED <<envVars, batch, candidates, ups, latest, read, faults, dropped>>

SendTask ==
    /\ pc = "send"
    /\ tasks' = [tasks EXCEPT ![made].sent = TRUE]
    /\ made' = 0
    /\ Evaluated(tasks[made].job)
    /\ UNCHANGED <<now, envVars, batch, faults>>

\* A bug to be caught: the next cycle starts with what this one has left.
AbortKeepsCandidates ==
    /\ pc # "idle" /\ faults < MaxFaults /\ faults' = faults + 1
    /\ pc' = "idle"
    /\ UNCHANGED <<now, tasks, envVars, batch, candidates, ups, latest, made, txn,
                   read, dropped>>

\* A call raises or the process dies: what is not committed is forgotten.  The
\* loop starts the next cycle from the beginning.
Abort ==
    /\ pc # "idle" /\ faults < MaxFaults /\ faults' = faults + 1
    /\ dropped' = dropped \cup candidates
    /\ pc' = "idle" /\ batch' = {} /\ candidates' = {}
    /\ ups' = [j \in Jobs |-> {}] /\ latest' = [j \in Jobs |-> {}]
    /\ made' = 0 /\ txn' = 0 /\ read' = 0
    /\ UNCHANGED <<now, tasks, envVars>>

-----------------------------------------------------------------------------

Init ==
    /\ now = 0 /\ tasks = <<>>
    /\ \E S \in SUBSET Later : enabled = Jobs \ S
    /\ upstreams \in Graphs
    /\ pc = "idle" /\ batch = {} /\ candidates = {}
    /\ ups = [j \in Jobs |-> {}] /\ latest = [j \in Jobs |-> {}]
    /\ made = 0 /\ txn = 0 /\ read = 0
    /\ triggers = 0 /\ updates = 0 /\ faults = 0 /\ dropped = {}

Cycle ==
    \/ Observe \/ ReadLatest \/ SendTask
    \/ \E i \in DOMAIN tasks : MarkProcessed(i)
    \/ \E c \in Jobs : Skip(c) \/ CreateTask(c)

Next ==
    \/ Cycle
    \/ ObserveStale
    \/ Abort
    \/ \E j \in Jobs : Trigger(j)
    \/ \E j \in Jobs, on \in BOOLEAN, g \in Graphs : UpdateJob(j, on, g)
    \/ \E i \in DOMAIN tasks, s \in {"success", "failed"} : Finish(i, s)

\* run_scheduler calls the cycle again and again; nothing else is promised.
Spec == Init /\ [][Next]_vars /\ WF_vars(Cycle)

-----------------------------------------------------------------------------
(* Properties. *)

\* The state has the shape of the tables and of the cycle's locals, and a
\* completed task never carries a stamp older than its creation.
TypeOK ==
    /\ now \in Nat /\ tasks \in Seq(Task) /\ enabled \subseteq Jobs
    /\ upstreams \in Graphs
    /\ pc \in {"idle", "mark", "latest", "dispatch", "send"}
    /\ batch \subseteq DOMAIN tasks /\ candidates \subseteq Jobs
    /\ ups \in [Jobs -> SUBSET Jobs]
    /\ latest \in [Jobs -> SUBSET Task] /\ txn \in 0..now
    /\ \A j \in Jobs : Cardinality(latest[j]) <= 1
    /\ pc = "idle" => batch = {} /\ candidates = {} /\ txn = 0
    /\ made \in 0..Len(tasks) /\ read \in 0..Len(tasks)
    /\ triggers \in 0..MaxTriggers /\ updates \in 0..MaxUpdates
    /\ faults \in 0..MaxFaults
    /\ dropped \subseteq Jobs
    /\ pc = "send" => made \in DOMAIN tasks /\ tasks[made].job \in candidates
    /\ \A i \in DOMAIN tasks : CompletedAt(tasks[i]) \in tasks[i].created..now

\* Two dependency runs of one job are never created for the same generation
\* of upstream completions, although the upstreams of a diamond are observed
\* in different cycles, a lagging replica shows marked tasks again and a cycle
\* is cut short: the guard of _dispatch_if_ready is exact about that.
OncePerGeneration ==
    \A i, k \in DOMAIN tasks :
        i < k /\ tasks[i].job = tasks[k].job /\ tasks[i].ready # 0 /\ tasks[k].ready # 0
          => tasks[i].ready < tasks[k].ready

\* A dependency run is created only when every upstream its job had has succeeded
\* last: of each one it follows a success that is part of its generation, and at
\* the time the latest tasks were looked up that upstream had no newer run, neither
\* pending nor failed.
RunsAfterAllUpstreams ==
    \A k \in DOMAIN tasks : tasks[k].ready # 0 =>
        \A u \in tasks[k].after : \E i \in DOMAIN tasks :
            /\ tasks[i].job = u /\ tasks[i].status = "success"
            /\ tasks[i].finished <= tasks[k].ready
            /\ \A m \in 1 .. tasks[k].read :
                 tasks[m].job = u => tasks[m].created <= tasks[i].created

Current == [j \in Jobs |-> LatestTask(j)]
Waiting(c) ==
    /\ c \in enabled /\ AllSucceeded(upstreams[c], Current)
    /\ \A t \in Mine(c) : CompletedAt(t) < ReadyAt(upstreams[c], Current)

\* When a cycle is over and nothing is left to observe, no enabled job is
\* waiting: each one whose upstreams have all succeeded has been running since.
\* Processing marks, batches and the snapshot of the latest tasks together skip no
\* job.  Exempt, until a cycle evaluates them again, are the jobs of an aborted
\* cycle that had already marked their upstreams, and jobs that were enabled or
\* linked anew: no cycle looks at them for that.
NothingLeftWaiting ==
    pc = "idle" /\ Unprocessed = {} =>
        \A c \in Jobs : Waiting(c) => c \in dropped

\* A job whose upstreams have all succeeded is chained, as long as cycles go
\* on: it stops waiting, with the exemptions of NothingLeftWaiting.  A job that no
\* graph gives an upstream never waits.
WaitingJobIsChained ==
    \A c \in {j \in Jobs : \E g \in Graphs : g[j] # {}} :
        (Waiting(c) /\ c \notin dropped) ~> (~Waiting(c) \/ c \in dropped)

\* README: "A downstream job runs once all of its upstreams have succeeded": the
\* same without exemptions.
ReadyJobsRun ==
    pc = "idle" /\ Unprocessed = {} => \A c \in Jobs : ~Waiting(c)

\* What the documentation promises: once nothing is left to observe, every
\* generation of upstream completions has had a run created after it.  The
\* guard takes the finish of an older run for such a run.
EveryGenerationRuns ==
    pc = "idle" /\ Unprocessed = {} =>
        \A c \in enabled : AllSucceeded(upstreams[c], Current) =>
            \E i \in DOMAIN tasks :
                /\ tasks[i].job = c
                /\ tasks[i].created >= ReadyAt(upstreams[c], Current)

=============================================================================
