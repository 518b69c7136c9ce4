----------------------------- MODULE Execution -----------------------------
(***************************************************************************)
(* One execution of a task's container by run_async, on the Docker backend *)
(* (a docker client that is waited for) or on Kubernetes (a Job whose      *)
(* status is polled), with the container's own life beside it: it may run  *)
(* past the timeout, and every call to Docker or Kubernetes may fail.      *)
(* TaskLifecycle takes from here that an execution ends with a result.     *)
(***************************************************************************)
EXTENDS Integers

CONSTANTS
    Backends,      \* the configured backend is one of these
    Timeout,       \* timeout_seconds of the runtime spec
    Grace,         \* what the Kubernetes wait adds to it (30 s)
    PollInterval,  \* k8s_poll_interval_seconds
    MaxDelay,      \* longest time from creating a Job to its start
    TermGrace      \* what a pod gets between SIGTERM and SIGKILL: the manifest sets
                   \* no terminationGracePeriodSeconds, so Kubernetes takes 30 s

ASSUME BackendAssumption == Backends \subseteq {"docker", "kubernetes"}
ASSUME TimeAssumption ==
    /\ Timeout \in Nat \ {0} /\ PollInterval \in Nat \ {0}
    /\ MaxDelay \in Nat /\ Grace \in Nat /\ TermGrace \in Nat /\ MaxDelay < Grace

VARIABLES
    backend,    \* fixed when the process starts
    call,       \* run_async: "idle", "waiting" or "done"
    result,     \* what it returned
    cause,      \* history: why it returned
    container,  \* the container, or the Job's pod
    age,        \* time since the container or the Job started
    overtime,   \* history: time the container has lived on after the result
    waited,     \* time run_async has been waiting
    poll_in     \* time to the next status read

vars == <<backend, call, result, cause, container, age, overtime, waited, poll_in>>

Ended == {"exit0", "exit1", "killed"}
\* Its processes may be running; a Job that exists will have them.
Alive == {"created", "running", "terminating"}
\* ExecutionResult, before there is one.
NoResult == [success |-> FALSE, stdout |-> "empty"]

Return(success, stdout, why) ==
    /\ call' = "done" /\ cause' = why
    /\ result' = [success |-> success, stdout |-> stdout]

-----------------------------------------------------------------------------
(* The call. *)

\* returncode == 0, or a Job that counts a succeeded pod.
Succeeded(c) == c = "exit0"

\* docker run is spawned.
RunContainer ==
    /\ backend = "docker" /\ call = "idle"
    /\ call' = "waiting" /\ container' = "running"
    /\ UNCHANGED <<backend, result, cause, age, overtime, waited, poll_in>>

\* The spec has an invalid environment key, or the client cannot be spawned.
Refused ==
    /\ backend = "docker" /\ call = "idle"
    /\ Return(FALSE, "empty", "error")
    /\ UNCHANGED <<backend, container, age, overtime, waited, poll_in>>

CreateJob ==
    /\ backend = "kubernetes" /\ call = "idle"
    /\ call' = "waiting" /\ container' = "created"
    /\ UNCHANGED <<backend, result, cause, age, overtime, waited, poll_in>>

\* No client, or a creation that raises, which may have taken place all the same.
CreateJobFails ==
    /\ backend = "kubernetes" /\ call = "idle"
    /\ Return(FALSE, "empty", "error")
    /\ container' \in {"none", "created"}
    /\ UNCHANGED <<backend, age, overtime, waited, poll_in>>

Start == RunContainer \/ Refused \/ CreateJob \/ CreateJobFails

\* The docker client ends with the container's exit status.
DockerReturns ==
    /\ backend = "docker" /\ call = "waiting" /\ container \in Ended
    /\ Return(Succeeded(container), "log", "exit")
    /\ UNCHANGED <<backend, container, age, overtime, waited, poll_in>>

\* asyncio.wait_for, or the deadline of the polling loop, which looks at the clock
\* between two sleeps.
WaitExpired ==
    IF backend = "docker" THEN waited >= Timeout
    ELSE poll_in = 0 /\ waited >= Timeout + Grace

\* A bug to be caught: giving up waits for the container to end.
TimesOutWhenEnded ==
    /\ call = "waiting" /\ WaitExpired /\ container \in Ended
    /\ Return(FALSE, "empty", "timeout")
    /\ UNCHANGED <<backend, container, age, overtime, waited, poll_in>>

\* The docker client is killed, or the loop is over; the container is not told.
TimesOut ==
    /\ call = "waiting" /\ WaitExpired
    /\ Return(FALSE, "empty", "timeout")
    /\ UNCHANGED <<backend, container, age, overtime, waited, poll_in>>

\* _get_pod_logs: a log that cannot be read is empty.
PodLog == {"log", "empty"}

\* What a Job's status may say: a pod that is being terminated may count as failed
\* before its processes have ended.
Failed(c) == IF c = "terminating" THEN BOOLEAN ELSE {c \in {"exit1", "killed"}}

\* One round of the loop.
Poll ==
    /\ backend = "kubernetes" /\ call = "waiting" /\ poll_in = 0
    /\ ~WaitExpired
    /\ \E failed \in Failed(container) :
         IF Succeeded(container) \/ failed
           THEN /\ \E out \in PodLog : Return(Succeeded(container), out, "exit")
                /\ UNCHANGED poll_in
           ELSE poll_in' = PollInterval /\ UNCHANGED <<call, result, cause>>
    /\ UNCHANGED <<backend, container, age, overtime, waited>>

\* The docker client loses the daemon and exits nonzero, or waiting for it raises.
ClientFails ==
    /\ backend = "docker" /\ call = "waiting"
    /\ \E out \in {"log", "empty"} : Return(FALSE, out, "error")
    /\ UNCHANGED <<backend, container, age, overtime, waited, poll_in>>

\* run turns whatever _run_k8s_job raises, a failing status read for one, into
\* a failure.
StatusReadFails ==
    /\ backend = "kubernetes" /\ call = "waiting" /\ poll_in = 0
    /\ ~WaitExpired
    /\ Return(FALSE, "empty", "error")
    /\ UNCHANGED <<backend, container, age, overtime, waited, poll_in>>

-----------------------------------------------------------------------------
(* The container. *)

JobStarts ==
    /\ container = "created" /\ container' = "running"
    /\ UNCHANGED <<backend, call, result, cause, age, overtime, waited, poll_in>>

Exits(status) ==
    /\ container = "running" /\ container' = status
    /\ UNCHANGED <<backend, call, result, cause, age, overtime, waited, poll_in>>

\* A bug to be caught: the manifest sets no deadline.
DeadlineReachedNever == FALSE

\* active_deadline_seconds of the Job.
DeadlineReached == backend = "kubernetes" /\ age >= Timeout

\* The Job controller deletes the pod, and its container is sent SIGTERM.
JobTerminates ==
    /\ container = "running" /\ DeadlineReached
    /\ container' = "terminating"
    /\ UNCHANGED <<backend, call, result, cause, age, overtime, waited, poll_in>>

\* It ends when it heeds that, and is killed when the pod's grace is over.
JobKilled ==
    /\ container = "terminating"
    /\ container' = "killed"
    /\ UNCHANGED <<backend, call, result, cause, age, overtime, waited, poll_in>>

\* Time passes while someone waits for it; what is due happens first.
Tick ==
    /\ call = "waiting" \/ (container \in Alive /\ age < Timeout + TermGrace)
    /\ ~(call = "waiting" /\ WaitExpired)
    /\ ~(backend = "kubernetes" /\ call = "waiting" /\ poll_in = 0)
    /\ ~(container = "running" /\ DeadlineReached)
    /\ ~(container = "terminating" /\ age >= Timeout + TermGrace)
    /\ ~(container = "created" /\ (call # "waiting" \/ waited >= MaxDelay))
    /\ waited' = IF call = "waiting" THEN waited + 1 ELSE waited
    /\ poll_in' = IF call = "waiting" /\ poll_in > 0 THEN poll_in - 1 ELSE poll_in
    /\ age' = IF container \in {"running", "terminating"} THEN age + 1 ELSE age
    /\ overtime' = IF call = "done" THEN overtime + 1 ELSE overtime
    /\ UNCHANGED <<backend, call, result, cause, container>>

-----------------------------------------------------------------------------

Init ==
    /\ backend \in Backends
    /\ call = "idle" /\ result = NoResult /\ cause = "none"
    /\ container = "none" /\ age = 0 /\ overtime = 0 /\ waited = 0 /\ poll_in = 0

Next ==
    \/ Start \/ DockerReturns \/ TimesOut \/ Poll \/ ClientFails \/ StatusReadFails
    \/ JobStarts \/ JobTerminates \/ JobKilled \/ Tick
    \/ \E status \in {"exit0", "exit1"} : Exits(status)

\* The event loop runs what is ready, time passes, and Kubernetes starts and
\* ends Jobs; no container has to end by itself, before its deadline or at SIGTERM.
\* WF of Poll takes for granted that a status read returns or raises: the client
\* sets no request timeout.
Spec ==
    /\ Init /\ [][Next]_vars
    /\ WF_vars(Start) /\ WF_vars(DockerReturns) /\ WF_vars(TimesOut) /\ WF_vars(Poll)
    /\ WF_vars(JobStarts) /\ WF_vars(JobTerminates) /\ WF_vars(Tick)
    /\ WF_vars(JobKilled /\ age >= Timeout + TermGrace)

-----------------------------------------------------------------------------
(* Properties. *)

\* What a result leaves behind, to run beside a retry of the task.  On Docker a
\* timeout leaves the container to itself.  On Kubernetes the Job's own deadline
\* has been reached: a pod that counted as failed lives on for the pod's grace at
\* most, and one the wait gave up on for what the Job's late start takes from the
\* 30 s of the wait.  Otherwise only an error leaves anything.
LeftoverIsDoomed ==
    call = "done" /\ container \in Alive =>
        \/ cause = "error" \/ (backend = "docker" /\ cause = "timeout")
        \/ /\ container = "terminating"
           /\ overtime <= TermGrace
           /\ cause = "timeout" => overtime + Grace <= TermGrace + MaxDelay

\* run_async returns even if the container never ends, so a worker's handler
\* is never held for ever.
CallReturns == <>(call = "done")

=============================================================================
