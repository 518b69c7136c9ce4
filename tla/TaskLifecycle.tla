--------------------------- MODULE TaskLifecycle ---------------------------
(***************************************************************************)
(* The life of a DASS task: the row in the task table, the queue message   *)
(* that carries its id, the worker handlers that claim and run it, and the *)
(* scheduler's orphan recovery.                                            *)
(*                                                                         *)
(* A handler is one run of `handle` in cli._run_queue_pool with its own    *)
(* WorkerService.  Each action is the code between two points at which     *)
(* another process can get in: a commit, an await or a call to the queue.  *)
(* Time is counted in ticks: a deadline is the number of ticks left to it, *)
(* so that "locked_until < now" is "lock_left = 0".                        *)
(*                                                                         *)
(* Which of the three queues carries a message is left out: every pool     *)
(* runs the same code, and no property here depends on the queue's name.   *)
(***************************************************************************)
EXTENDS Integers, FiniteSets

CONSTANTS
    Jobs,            \* job ids
    Tasks,           \* task ids (uuid4, never reused)
    Handlers,        \* runs of `handle`, over all worker processes
    Schedulers,      \* scheduler processes that run recover_orphans
    WorkerIds,       \* values of settings.worker_id
    WorkerIdOf,      \* the worker_id a handler's process was started with
    MaxRetries,      \* job.max_retries
    ClaimSeconds,    \* claim_seconds, in ticks
    LookupAttempts,  \* _LOOKUP_ATTEMPTS
    MaxEnqueued,     \* bound: tasks that are not retries
    MaxFaults,       \* bound: crashes, failed calls and duplicate deliveries
    Timely,          \* TRUE: a live worker heartbeats before its lock runs out
    BeatsFail,       \* TRUE: the UPDATE of a heartbeat may fail
    None

ASSUME ConstantsAssumption ==
    /\ ClaimSeconds \in Nat /\ ClaimSeconds >= 2
    /\ LookupAttempts \in Nat \ {0}
    /\ MaxFaults \in Nat
    /\ Timely \in BOOLEAN
    /\ MaxRetries \in [Jobs -> Nat]
    /\ WorkerIdOf \in [Handlers -> WorkerIds]
    /\ None \notin Tasks /\ None \notin WorkerIds /\ None \notin Handlers
    /\ None \notin Jobs

ASSUME InstanceAssumption == MaxEnqueued \in Nat /\ BeatsFail \in BOOLEAN

VARIABLES
    jobs,            \* rows of the job table
    status,          \* task.status, with "absent" and "deleted" for no row
    job_id,          \* task.job_id
    retry_count,     \* task.retry_count
    locked_by,       \* task.locked_by
    lock_left,       \* ticks until task.locked_until
    auto_retry_of,   \* history: the failed task that _handle_failure retried
    msg,             \* the task's message
    visible_in,      \* ticks until the message is visible again
    receipt,         \* the handler that holds the newest receipt handle
    pc,              \* where a handler is in process_task_id_async
    cur,             \* the task a handler works on
    attempts,        \* its loop counter in _claim_with_retry
    beat_in,         \* ticks until its next heartbeat
    child,           \* the retry it created and has not sent
    expired,         \* recover_orphans: rows listed and not yet marked
    faults           \* faults so far

taskVars == <<status, job_id, retry_count, locked_by, lock_left, auto_retry_of>>
queueVars == <<msg, visible_in, receipt>>
handlerVars == <<pc, cur, attempts, beat_in, child>>
vars == <<jobs, taskVars, queueVars, handlerVars, expired, faults>>

Statuses == {"absent", "pending", "running", "success", "failed",
             "final_failed", "deleted"}
Terminal == {"success", "failed", "final_failed"}
Places == {"idle", "claiming", "recheck", "lost", "claimed", "executing",
           "mkRetry", "sendRetry", "deleting"}
Messages == {"none", "sending", "queued", "deleted"}

TypeOK ==
    /\ jobs \subseteq Jobs
    /\ status \in [Tasks -> Statuses]
    /\ job_id \in [Tasks -> Jobs \cup {None}]
    /\ retry_count \in [Tasks -> Nat]
    /\ locked_by \in [Tasks -> WorkerIds \cup {None}]
    /\ lock_left \in [Tasks -> 0..ClaimSeconds]
    /\ auto_retry_of \in [Tasks -> Tasks \cup {None}]
    /\ msg \in [Tasks -> Messages]
    /\ visible_in \in [Tasks -> 0..ClaimSeconds]
    /\ receipt \in [Tasks -> Handlers \cup {None}]
    /\ pc \in [Handlers -> Places]
    /\ cur \in [Handlers -> Tasks \cup {None}]
    /\ \A h \in Handlers : (cur[h] = None) <=> (pc[h] = "idle")
    /\ attempts \in [Handlers -> 0..LookupAttempts]
    /\ \A h \in Handlers : pc[h] \in {"idle", "claiming", "recheck"}
                             => attempts[h] < LookupAttempts
    /\ beat_in \in [Handlers -> 0..ClaimSeconds]
    /\ child \in [Handlers -> Tasks \cup {None}]
    /\ \A h \in Handlers : (child[h] # None) <=> (pc[h] = "sendRetry")
    /\ expired \in [Schedulers -> SUBSET Tasks]
    /\ faults \in 0..MaxFaults

-----------------------------------------------------------------------------
(* The tests and constants the code is built from. *)

\* A bug to be caught: heartbeat once per claim, not ahead of its end.
HeartbeatIntervalFull == ClaimSeconds

\* interval = max(1, int(claim_seconds * 0.6))
HeartbeatInterval ==
    IF (ClaimSeconds * 6) \div 10 < 1 THEN 1 ELSE (ClaimSeconds * 6) \div 10

Exists(t) == status[t] \notin {"absent", "deleted"}

\* A bug to be caught: the claim accepts a row that is already running.
ClaimableAlsoRunning(t) == status[t] \in {"pending", "running"}

\* claim_task: UPDATE ... WHERE status = 'pending'.
Claimable(t) == status[t] = "pending"

\* A bug to be caught: the query forgets the deadline.
IsExpiredAnyTime(t) == status[t] = "running"

\* A bug to be caught: the query forgets the status.
IsExpiredAnyStatus(t) == Exists(t) /\ lock_left[t] = 0

\* A bug to be caught: the deadline is compared the wrong way round.
IsExpiredInverted(t) == status[t] = "running" /\ lock_left[t] > 0

\* list_expired_running.
IsExpired(t) == status[t] = "running" /\ lock_left[t] = 0

\* A bug to be caught: a task somebody else runs is taken for finished.
MessageIsSpentIfRunning(t) == ~Exists(t) \/ status[t] # "pending"

\* process_task_id_async, claim lost: nobody will process the message any more.
MessageIsSpent(t) == ~Exists(t) \/ status[t] \in Terminal

\* A bug to be caught: the budget is compared with > in place of >=.
RetriesLeftAtLimit(t) == retry_count[t] <= MaxRetries[job_id[t]]

\* _handle_failure: not (retry_count >= max_retries).
RetriesLeft(t) == retry_count[t] < MaxRetries[job_id[t]]

\* A bug to be caught: the retry does not count.
CarriedRetryCountSame(t) == retry_count[t]

\* retry_count=task.retry_count + 1
CarriedRetryCount(t) == retry_count[t] + 1

\* A bug to be caught: the loop runs once too often.
LastAttemptLate(h) == attempts[h] = LookupAttempts

\* The last round of `for attempt in range(_LOOKUP_ATTEMPTS)`.
LastAttempt(h) == attempts[h] + 1 = LookupAttempts

Free(t) == status[t] = "absent"

\* Bound: a new task is made only while ids remain for it and for the retries
\* that handlers have already committed to, so that no handler blocks.
IdsLeft ==
    Cardinality({t \in Tasks : Free(t)})
        > Cardinality({h \in Handlers : pc[h] = "mkRetry"})

Fault == faults < MaxFaults /\ faults' = faults + 1

-----------------------------------------------------------------------------
(* Producers: the API, the cron scheduler and the dependency scheduler.    *)
(* All of them commit a pending row and then send its id.                  *)

\* TaskRepository.create: the row; the caller then sends the message.
InsertTask(t, j, retries) ==
    /\ Free(t)
    /\ status' = [status EXCEPT ![t] = "pending"]
    /\ job_id' = [job_id EXCEPT ![t] = j]
    /\ retry_count' = [retry_count EXCEPT ![t] = retries]
    /\ UNCHANGED <<locked_by, lock_left>>

EnqueueTask(t, j) ==
    /\ IdsLeft
    /\ Cardinality({u \in Tasks : ~Free(u) /\ retry_count[u] = 0}) < MaxEnqueued
    /\ j \in jobs
    /\ InsertTask(t, j, 0)
    /\ msg' = [msg EXCEPT ![t] = "sending"]
    /\ UNCHANGED <<jobs, auto_retry_of, visible_in, receipt, handlerVars,
                   expired, faults>>

\* POST /tasks/{id}/retry.
RetryTask(p, t) ==
    /\ IdsLeft
    /\ status[p] \in {"failed", "final_failed"}
    /\ InsertTask(t, job_id[p], CarriedRetryCount(p))
    /\ msg' = [msg EXCEPT ![t] = "sending"]
    /\ UNCHANGED <<jobs, auto_retry_of, visible_in, receipt, handlerVars,
                   expired, faults>>

SendTask(t) ==
    /\ msg[t] = "sending"
    /\ msg' = [msg EXCEPT ![t] = "queued"]
    /\ UNCHANGED <<jobs, taskVars, visible_in, receipt, handlerVars, expired,
                   faults>>

\* The producer dies, or send_message raises, after the row was committed.
SendTaskFails(t) ==
    /\ msg[t] = "sending"
    /\ Fault
    /\ msg' = [msg EXCEPT ![t] = "none"]
    /\ UNCHANGED <<jobs, taskVars, visible_in, receipt, handlerVars, expired>>

\* DELETE /jobs/{id}: the task rows go with the job (ondelete CASCADE).
DeleteJob(j) ==
    /\ j \in jobs
    /\ jobs' = jobs \ {j}
    /\ LET gone == {t \in Tasks : Exists(t) /\ job_id[t] = j} IN
       /\ status' = [t \in Tasks |-> IF t \in gone THEN "deleted" ELSE status[t]]
       /\ locked_by' = [t \in Tasks |-> IF t \in gone THEN None ELSE locked_by[t]]
       /\ lock_left' = [t \in Tasks |-> IF t \in gone THEN 0 ELSE lock_left[t]]
    /\ UNCHANGED <<job_id, retry_count, auto_retry_of, queueVars, handlerVars,
                   expired, faults>>

-----------------------------------------------------------------------------
(* The worker. *)

Goto(h, place) == pc' = [pc EXCEPT ![h] = place]

\* `handle` ends: normally, or by the exception it logs.  Its locals go.
Return(h) ==
    /\ Goto(h, "idle")
    /\ cur' = [cur EXCEPT ![h] = None]
    /\ attempts' = [attempts EXCEPT ![h] = 0]
    /\ beat_in' = [beat_in EXCEPT ![h] = 0]
    /\ child' = [child EXCEPT ![h] = None]

\* receive_tasks hides the message for the visibility timeout.
TakeMessage(h, t) ==
    /\ pc[h] = "idle"
    /\ msg[t] = "queued"
    /\ visible_in' = [visible_in EXCEPT ![t] = ClaimSeconds]
    /\ receipt' = [receipt EXCEPT ![t] = h]
    /\ Goto(h, "claiming")
    /\ cur' = [cur EXCEPT ![h] = t]
    /\ UNCHANGED <<jobs, taskVars, msg, attempts, beat_in, child, expired>>

Receive(h, t) ==
    /\ visible_in[t] = 0
    /\ TakeMessage(h, t)
    /\ UNCHANGED faults

\* An at-least-once queue delivers a message that is still hidden.
ReceiveDuplicate(h, t) ==
    /\ visible_in[t] > 0
    /\ Fault
    /\ TakeMessage(h, t)

Claim(h) ==
    LET t == cur[h] IN
    /\ pc[h] = "claiming"
    /\ \/ /\ Claimable(t)
          /\ status' = [status EXCEPT ![t] = "running"]
          /\ locked_by' = [locked_by EXCEPT ![t] = WorkerIdOf[h]]
          /\ lock_left' = [lock_left EXCEPT ![t] = ClaimSeconds]
          /\ Goto(h, "claimed")
       \/ /\ ~Claimable(t)
          /\ Goto(h, "recheck")
          /\ UNCHANGED <<status, locked_by, lock_left>>
    /\ UNCHANGED <<jobs, job_id, retry_count, auto_retry_of, queueVars, cur,
                   attempts, beat_in, child, expired, faults>>

\* _claim_with_retry after a lost claim: try again, after a backoff, only
\* while the row is missing or pending.
Recheck(h) ==
    LET t == cur[h] IN
    /\ pc[h] = "recheck"
    /\ attempts' = [attempts EXCEPT ![h] = @ + 1]
    /\ IF (Exists(t) /\ status[t] # "pending") \/ LastAttempt(h)
       THEN Goto(h, "lost")
       ELSE Goto(h, "claiming")
    /\ UNCHANGED <<jobs, taskVars, queueVars, cur, beat_in, child, expired,
                   faults>>

\* process_task_id_async without a claim: drop the message or keep it.
DecideLost(h) ==
    /\ pc[h] = "lost"
    /\ IF MessageIsSpent(cur[h])
       THEN Goto(h, "deleting") /\ UNCHANGED <<cur, attempts, beat_in, child>>
       ELSE Return(h)
    /\ UNCHANGED <<jobs, taskVars, queueVars, expired, faults>>

\* TaskRepository._finish: an UPDATE by id alone.  It fails on a row that is
\* gone (StaleDataError), and the handler then gives up.
Finish(h, outcome, place) ==
    LET t == cur[h] IN
    /\ IF Exists(t)
       THEN /\ status' = [status EXCEPT ![t] = outcome]
            /\ locked_by' = [locked_by EXCEPT ![t] = None]
            /\ lock_left' = [lock_left EXCEPT ![t] = 0]
            /\ Goto(h, place)
            /\ beat_in' = [beat_in EXCEPT ![h] = 0]
            /\ UNCHANGED <<cur, attempts, child>>
       ELSE /\ Return(h)
            /\ UNCHANGED <<status, locked_by, lock_left>>
    /\ UNCHANGED <<jobs, job_id, retry_count, auto_retry_of, queueVars, expired,
                   faults>>

\* _get_job_with_retry finds the job; _execute starts the container and the
\* heartbeat.
LoadJob(h) ==
    /\ pc[h] = "claimed"
    /\ job_id[cur[h]] \in jobs
    /\ Goto(h, "executing")
    /\ beat_in' = [beat_in EXCEPT ![h] = HeartbeatInterval]
    /\ UNCHANGED <<jobs, taskVars, queueVars, cur, attempts, child, expired,
                   faults>>

\* "Job not found".
LoadJobMissing(h) ==
    /\ pc[h] = "claimed"
    /\ job_id[cur[h]] \notin jobs
    /\ Finish(h, "final_failed", "deleting")

\* The lock's UPDATE ... WHERE id AND locked_by: not the status.
ExtendLock(h) ==
    LET t == cur[h] IN
    lock_left' = IF locked_by[t] = WorkerIdOf[h]
                 THEN [lock_left EXCEPT ![t] = ClaimSeconds] ELSE lock_left

\* change_message_visibility: a message that was received again may or may
\* not still accept the older receipt handle.
ExtendVisibility(h) ==
    LET t == cur[h] IN
    \/ /\ msg[t] = "queued"
       /\ visible_in' = [visible_in EXCEPT ![t] = ClaimSeconds]
    \/ /\ msg[t] # "queued" \/ receipt[t] # h
       /\ UNCHANGED visible_in

BeatDue(h) == pc[h] = "executing" /\ beat_in[h] = 0

Heartbeat(h) ==
    /\ BeatDue(h)
    /\ ExtendLock(h)
    /\ ExtendVisibility(h)
    /\ beat_in' = [beat_in EXCEPT ![h] = HeartbeatInterval]
    /\ UNCHANGED <<jobs, status, job_id, retry_count, locked_by, auto_retry_of,
                   msg, receipt, pc, cur, attempts, child, expired, faults>>

\* The queue call fails; the exception is logged.
HeartbeatQueueFails(h) ==
    /\ BeatDue(h)
    /\ Fault
    /\ ExtendLock(h)
    /\ beat_in' = [beat_in EXCEPT ![h] = HeartbeatInterval]
    /\ UNCHANGED <<jobs, status, job_id, retry_count, locked_by, auto_retry_of,
                   queueVars, pc, cur, attempts, child, expired>>

\* The database call fails; the exception is logged and the loop sleeps
\* another interval.
HeartbeatDbFails(h) ==
    /\ BeatsFail
    /\ BeatDue(h)
    /\ Fault
    /\ ExtendVisibility(h)
    /\ beat_in' = [beat_in EXCEPT ![h] = HeartbeatInterval]
    /\ UNCHANGED <<jobs, taskVars, msg, receipt, pc, cur, attempts, child,
                   expired>>

\* The container exits; mark_success.
FinishSuccess(h) ==
    /\ pc[h] = "executing"
    /\ Finish(h, "success", "deleting")

\* The container fails; _handle_failure up to the commit of mark_failed.
FinishFinalFailed(h) ==
    /\ pc[h] = "executing"
    /\ ~RetriesLeft(cur[h])
    /\ Finish(h, "final_failed", "deleting")

FinishFailed(h) ==
    /\ pc[h] = "executing"
    /\ RetriesLeft(cur[h])
    /\ IdsLeft
    /\ Finish(h, "failed", "mkRetry")

\* _handle_failure: the retry's row.  Without the job the INSERT violates the
\* foreign key, and the handler gives up.
MakeRetry(h, c) ==
    LET t == cur[h] IN
    /\ pc[h] = "mkRetry"
    /\ job_id[t] \in jobs
    /\ InsertTask(c, job_id[t], CarriedRetryCount(t))
    /\ auto_retry_of' = [auto_retry_of EXCEPT ![c] = t]
    /\ child' = [child EXCEPT ![h] = c]
    /\ Goto(h, "sendRetry")
    /\ UNCHANGED <<jobs, queueVars, cur, attempts, beat_in, expired, faults>>

MakeRetryFails(h) ==
    /\ pc[h] = "mkRetry"
    /\ job_id[cur[h]] \notin jobs
    /\ Return(h)
    /\ UNCHANGED <<jobs, taskVars, queueVars, expired, faults>>

SendRetry(h) ==
    /\ pc[h] = "sendRetry"
    /\ msg' = [msg EXCEPT ![child[h]] = "queued"]
    /\ child' = [child EXCEPT ![h] = None]
    /\ Goto(h, "deleting")
    /\ UNCHANGED <<jobs, taskVars, visible_in, receipt, cur, attempts, beat_in,
                   expired, faults>>

\* delete_message; an older receipt handle may have no effect.
DeleteMessage(h) ==
    LET t == cur[h] IN
    /\ pc[h] = "deleting"
    /\ \/ msg' = [msg EXCEPT ![t] = "deleted"]
       \/ receipt[t] # h /\ UNCHANGED msg
    /\ Return(h)
    /\ UNCHANGED <<jobs, taskVars, visible_in, receipt, expired, faults>>

\* The process dies, or a database or queue call raises in `handle`.
Crash(h) ==
    /\ pc[h] # "idle"
    /\ Fault
    /\ Return(h)
    /\ UNCHANGED <<jobs, taskVars, queueVars, expired>>

-----------------------------------------------------------------------------
(* recover_orphans: list the expired rows, then write them back one by one. *)

RecoverList(s) ==
    /\ expired[s] = {}
    /\ \E t \in Tasks : IsExpired(t)
    /\ expired' = [expired EXCEPT ![s] = {t \in Tasks : IsExpired(t)}]
    /\ UNCHANGED <<jobs, taskVars, queueVars, handlerVars, faults>>

\* mark_running_expired_pending: an UPDATE by id alone; a row that is gone
\* raises, and the rest of the list is left for the next cycle.
RecoverMark(s, t) ==
    /\ t \in expired[s]
    /\ IF Exists(t)
       THEN /\ status' = [status EXCEPT ![t] = "pending"]
            /\ locked_by' = [locked_by EXCEPT ![t] = None]
            /\ lock_left' = [lock_left EXCEPT ![t] = 0]
            /\ expired' = [expired EXCEPT ![s] = @ \ {t}]
       ELSE /\ expired' = [expired EXCEPT ![s] = {}]
            /\ UNCHANGED <<status, locked_by, lock_left>>
    /\ UNCHANGED <<jobs, job_id, retry_count, auto_retry_of, queueVars,
                   handlerVars, faults>>

SchedulerCrash(s) ==
    /\ expired[s] # {}
    /\ Fault
    /\ expired' = [expired EXCEPT ![s] = {}]
    /\ UNCHANGED <<jobs, taskVars, queueVars, handlerVars>>

-----------------------------------------------------------------------------
(* Time. *)

Minus1(n) == IF n = 0 THEN 0 ELSE n - 1

\* Timely: a worker that is alive neither sits between its claim and its
\* first heartbeat interval nor oversleeps a heartbeat for a whole tick.
OnTime(h) == pc[h] # "claimed" /\ ~BeatDue(h)

Tick ==
    /\ \/ \E t \in Tasks : lock_left[t] > 0 \/ visible_in[t] > 0
       \/ \E h \in Handlers : pc[h] = "executing" /\ beat_in[h] > 0
    /\ Timely => \A h \in Handlers : OnTime(h)
    /\ lock_left' = [t \in Tasks |-> Minus1(lock_left[t])]
    /\ visible_in' = [t \in Tasks |-> Minus1(visible_in[t])]
    /\ beat_in' = [h \in Handlers |-> Minus1(beat_in[h])]
    /\ UNCHANGED <<jobs, status, job_id, retry_count, locked_by, auto_retry_of,
                   msg, receipt, pc, cur, attempts, child, expired, faults>>

-----------------------------------------------------------------------------

Init ==
    /\ jobs = Jobs
    /\ status = [t \in Tasks |-> "absent"]
    /\ job_id = [t \in Tasks |-> None]
    /\ retry_count = [t \in Tasks |-> 0]
    /\ locked_by = [t \in Tasks |-> None]
    /\ lock_left = [t \in Tasks |-> 0]
    /\ auto_retry_of = [t \in Tasks |-> None]
    /\ msg = [t \in Tasks |-> "none"]
    /\ visible_in = [t \in Tasks |-> 0]
    /\ receipt = [t \in Tasks |-> None]
    /\ pc = [h \in Handlers |-> "idle"]
    /\ cur = [h \in Handlers |-> None]
    /\ attempts = [h \in Handlers |-> 0]
    /\ beat_in = [h \in Handlers |-> 0]
    /\ child = [h \in Handlers |-> None]
    /\ expired = [s \in Schedulers |-> {}]
    /\ faults = 0

Produce ==
    \/ \E t \in Tasks, j \in Jobs : EnqueueTask(t, j)
    \/ \E p \in Tasks, t \in Tasks : RetryTask(p, t)
    \/ \E t \in Tasks : SendTask(t)
    \/ \E t \in Tasks : SendTaskFails(t)
    \/ \E j \in Jobs : DeleteJob(j)

Work(h) ==
    \/ \E t \in Tasks : Receive(h, t)
    \/ \E t \in Tasks : ReceiveDuplicate(h, t)
    \/ Claim(h)
    \/ Recheck(h)
    \/ DecideLost(h)
    \/ LoadJob(h)
    \/ LoadJobMissing(h)
    \/ Heartbeat(h)
    \/ HeartbeatQueueFails(h)
    \/ HeartbeatDbFails(h)
    \/ FinishSuccess(h)
    \/ FinishFinalFailed(h)
    \/ FinishFailed(h)
    \/ \E c \in Tasks : MakeRetry(h, c)
    \/ MakeRetryFails(h)
    \/ SendRetry(h)
    \/ DeleteMessage(h)
    \/ Crash(h)

Recover(s) ==
    \/ RecoverList(s)
    \/ \E t \in Tasks : RecoverMark(s, t)
    \/ SchedulerCrash(s)

Next ==
    \/ Produce
    \/ \E h \in Handlers : Work(h)
    \/ \E s \in Schedulers : Recover(s)
    \/ Tick

Spec == Init /\ [][Next]_vars

\* What keeps going by itself: a producer that is not interrupted sends, a
\* handler runs on to its next await, an executor's timeout ends a container,
\* the event loop wakes the heartbeat, the leader runs recover_orphans in every
\* cycle, and clocks advance.
Advance(h) ==
    \/ Claim(h) \/ Recheck(h) \/ DecideLost(h) \/ LoadJob(h) \/ LoadJobMissing(h)
    \/ (\E c \in Tasks : MakeRetry(h, c)) \/ MakeRetryFails(h) \/ SendRetry(h)
    \/ DeleteMessage(h)

ContainerEnds(h) == FinishSuccess(h) \/ FinishFinalFailed(h) \/ FinishFailed(h)

\* Strong fairness only for the queue: a message that is visible again and
\* again, to pools with a free slot, is delivered at last.
Fairness ==
    /\ \A t \in Tasks : WF_vars(SendTask(t))
    /\ \A t \in Tasks : SF_vars(\E h \in Handlers : Receive(h, t))
    /\ \A h \in Handlers : WF_vars(Advance(h))
    /\ \A h \in Handlers : WF_vars(Heartbeat(h))
    /\ \A h \in Handlers : WF_vars(ContainerEnds(h))
    /\ \A s \in Schedulers : WF_vars(RecoverList(s))
    /\ \A s \in Schedulers : WF_vars(\E t \in Tasks : RecoverMark(s, t))
    /\ WF_vars(Tick)

FairSpec == Spec /\ Fairness

-----------------------------------------------------------------------------
(* What the code promises. *)

Owns(h, t) == pc[h] \in {"claimed", "executing"} /\ cur[h] = t

\* Nobody has to work on the task any more.
Settled(t) == status[t] \in Terminal \cup {"deleted"}

\* Two workers never run the same task: at most one handler is between its
\* claim of a row and the commit of that row's outcome, whatever the queue
\* delivers twice and whatever orphan recovery returns to pending.
NoDoubleExecution ==
    \A t \in Tasks, h1, h2 \in Handlers :
        Owns(h1, t) /\ Owns(h2, t) => h1 = h2

\* A handler that runs a task holds the row's lock, with enough time left on
\* it for its next heartbeat to come first, unless the job was deleted under
\* it.
OwnerHoldsLock ==
    \A h \in Handlers, t \in Tasks : Owns(h, t) /\ status[t] # "deleted" =>
        /\ status[t] = "running"
        /\ locked_by[t] = WorkerIdOf[h]
        /\ pc[h] = "claimed" => lock_left[t] = ClaimSeconds
        /\ pc[h] = "executing" =>
              lock_left[t] >= beat_in[h] + (ClaimSeconds - HeartbeatInterval)

\* recover_orphans writes rows that it read earlier: whatever happens in
\* between, a listed row is still running with an expired lock when it is
\* returned to pending, or it is gone.
ListedStaysExpired ==
    \A s \in Schedulers, t \in Tasks :
        t \in expired[s] /\ status[t] # "deleted" => IsExpired(t)

\* The message is the only thing that brings a task back to a worker: it is
\* deleted only once the task is terminal or gone.
MessageOutlivesWork ==
    \A t \in Tasks : msg[t] = "deleted" => Settled(t)

\* A retry made by _handle_failure counts one more than the task it retries
\* and never exceeds the job's budget, through a chain of retries by hand and
\* automatic ones and however often one of their tasks was run.
RetryWithinBudget ==
    \A c \in Tasks : auto_retry_of[c] # None =>
        /\ retry_count[c] = retry_count[auto_retry_of[c]] + 1
        /\ retry_count[c] <= MaxRetries[job_id[c]]

\* _handle_failure makes one retry of a task at most: a task that is delivered
\* again, or that recovery returned to pending, does not multiply.
RetriedOnce ==
    \A c, d \in Tasks :
        auto_retry_of[c] # None /\ auto_retry_of[d] = auto_retry_of[c] => c = d

\* docs/diagrams/task-states.puml: "The only legal task transitions."
LegalEdges ==
    {<<"pending", "running">>, <<"running", "pending">>,
     <<"running", "success">>, <<"running", "failed">>,
     <<"running", "final_failed">>}

\* Every step changes a task's status along a legal edge, creates it as
\* pending or deletes it; in particular no terminal task is reopened by a
\* slow worker or by a scheduler with an old list.
LegalTransitions ==
    [][\A t \in Tasks : status'[t] # status[t] =>
          \/ <<status[t], status'[t]>> \in LegalEdges
          \/ status[t] = "absent" /\ status'[t] = "pending"
          \/ Exists(t) /\ status'[t] = "deleted"]_vars

\* The handlers that run a task.
running == [t \in Tasks |-> {h \in Handlers : Owns(h, t)}]

Promise == INSTANCE TaskPromise WITH status <- status, runs <- running

\* The queue, the locks, the heartbeats and the recovery together implement
\* the promise: one worker at a time, one outcome, by the worker that ran it,
\* and no task taken from a worker that still runs it.
KeepsPromise == Promise!Spec

\* README: "losing a message costs a delay, not a record".  A message that
\* reached the queue is worked off through crashes, duplicate deliveries and
\* heartbeats that fail or come late: its task gets an outcome, or the message
\* is deleted, which by MessageOutlivesWork is the same if heartbeats are timely.
QueuedTaskSettles ==
    \A t \in Tasks : msg[t] = "queued" ~> (Settled(t) \/ msg[t] = "deleted")

=============================================================================
