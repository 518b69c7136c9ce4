---------------------------- MODULE TaskPromise ----------------------------
(***************************************************************************)
(* What DASS promises about a task, without queues, locks and clocks: it   *)
(* is created once, run by one worker at a time, given one outcome by the  *)
(* worker that runs it, and handed to another only once that worker is     *)
(* lost.  Each action is the effect on one row of one write that the       *)
(* backend makes to the task table.                                        *)
(***************************************************************************)
CONSTANTS Tasks, Handlers

VARIABLES
    status,   \* the row's status; "absent" before and "deleted" after
    runs      \* the handlers that are running the task

promiseVars == <<status, runs>>

Outcomes == {"success", "failed", "final_failed"}

Init ==
    /\ status = [t \in Tasks |-> "absent"]
    /\ runs = [t \in Tasks |-> {}]

Create(t) ==
    /\ status[t] = "absent"
    /\ status' = [status EXCEPT ![t] = "pending"]
    /\ UNCHANGED runs

Start(h, t) ==
    /\ status[t] = "pending"
    /\ runs[t] = {}
    /\ status' = [status EXCEPT ![t] = "running"]
    /\ runs' = [runs EXCEPT ![t] = {h}]

Complete(h, t, outcome) ==
    /\ status[t] = "running"
    /\ runs[t] = {h}
    /\ status' = [status EXCEPT ![t] = outcome]
    /\ runs' = [runs EXCEPT ![t] = {}]

\* The worker is lost, or finds that the row is gone.
Lose(h, t) ==
    /\ runs[t] = {h}
    /\ runs' = [runs EXCEPT ![t] = {}]
    /\ UNCHANGED status

Reclaim(t) ==
    /\ status[t] = "running"
    /\ runs[t] = {}
    /\ status' = [status EXCEPT ![t] = "pending"]
    /\ UNCHANGED runs

\* A job goes with all its tasks.
Delete(gone) ==
    /\ \A t \in gone : status[t] \notin {"absent", "deleted"}
    /\ status' = [t \in Tasks |-> IF t \in gone THEN "deleted" ELSE status[t]]
    /\ UNCHANGED runs

Next ==
    \/ \E t \in Tasks : Create(t)
    \/ \E h \in Handlers, t \in Tasks : Start(h, t)
    \/ \E h \in Handlers, t \in Tasks, o \in Outcomes : Complete(h, t, o)
    \/ \E h \in Handlers, t \in Tasks : Lose(h, t)
    \/ \E t \in Tasks : Reclaim(t)
    \/ \E gone \in SUBSET Tasks : Delete(gone)

Spec == Init /\ [][Next]_promiseVars

=============================================================================
