-------------------------- MODULE ExecutionProofs --------------------------
(***************************************************************************)
(* Proofs about Execution, for every timeout, poll interval, grace of the  *)
(* pod and delay of a Job's start that the grace of the wait exceeds.      *)
(***************************************************************************)
EXTENDS Execution, TLAPS

\* What the arithmetic needs to know of the state.
Shape ==
    /\ backend \in {"docker", "kubernetes"} /\ call \in {"idle", "waiting", "done"}
    /\ container \in {"none"} \cup Alive \cup Ended
    /\ age \in Nat /\ overtime \in Nat /\ waited \in Nat /\ poll_in \in Nat

\* Only a Job has a start and a deadline of its own; the deadline has passed
\* exactly when its pod is being terminated, for the pod's grace at most.
Deadline ==
    /\ backend = "docker" => container \notin {"created", "terminating"}
    /\ container = "created" => age = 0
    /\ backend = "kubernetes" /\ container = "running" => age <= Timeout
    /\ container = "terminating" => Timeout <= age /\ age <= Timeout + TermGrace

\* How far the call's clock can be ahead of the Job's: by the Job's start.
JobIsOnTime ==
    backend = "kubernetes" /\ call = "waiting" =>
        /\ container = "created" => waited <= MaxDelay
        /\ container \in {"running", "terminating"} => waited <= age + MaxDelay

\* A pod outlives the result only past its deadline, and past the end of the wait
\* if that gave up: all of its overtime comes out of the pod's grace.
Overdue ==
    call = "done" /\ cause # "error" /\ container = "terminating" =>
        /\ overtime + Timeout <= age
        /\ cause = "timeout" => overtime + Timeout + Grace <= age + MaxDelay

\* Before the call there is no container, and before its end no overtime.
NotYet ==
    /\ call = "idle" => container = "none" /\ age = 0 /\ waited = 0
    /\ call # "done" => overtime = 0

Outcome == Shape /\ Deadline /\ JobIsOnTime /\ Overdue /\ NotYet /\ LeftoverIsDoomed

LEMMA OutcomeInit == Init => Outcome
  BY BackendAssumption
     DEF Init, Outcome, Shape, Deadline, JobIsOnTime, Overdue, NotYet, LeftoverIsDoomed,
         Alive, Ended

\* When the wait for a Job is over, the Job has passed its deadline.
LEMMA ExpiredJobIsOver ==
    ASSUME Outcome, call = "waiting", WaitExpired, backend = "kubernetes",
           container \in Alive
    PROVE  /\ container = "terminating" /\ overtime = 0
           /\ Timeout + Grace <= age + MaxDelay
  BY TimeAssumption DEF Outcome, Shape, Deadline, JobIsOnTime, NotYet, WaitExpired, Alive

LEMMA OutcomeNext == Outcome /\ [Next]_vars => Outcome'
  <1> SUFFICES ASSUME Outcome, [Next]_vars PROVE Outcome'
    OBVIOUS
  <1> USE TimeAssumption
      DEF Outcome, Shape, Deadline, JobIsOnTime, Overdue, NotYet, LeftoverIsDoomed,
          Return, Alive, Ended
  <1>1. CASE RunContainer
    BY <1>1 DEF RunContainer
  <1>2. CASE Refused
    BY <1>2 DEF Refused
  <1>3. CASE CreateJob
    BY <1>3 DEF CreateJob
  <1>4. CASE CreateJobFails
    BY <1>4 DEF CreateJobFails
  <1>5. CASE DockerReturns
    BY <1>5 DEF DockerReturns
  <1>6. CASE TimesOut
    <2>1. CASE backend = "docker"
      BY <1>6, <2>1 DEF TimesOut
    <2>2. CASE backend = "kubernetes"
      BY <1>6, <2>2, ExpiredJobIsOver DEF TimesOut
    <2> QED
      BY <2>1, <2>2
  <1>7. CASE Poll
    <2>1. PICK failed \in Failed(container) :
            \/ /\ Succeeded(container) \/ failed
               /\ call' = "done" /\ cause' = "exit" /\ UNCHANGED poll_in
            \/ poll_in' = PollInterval /\ UNCHANGED <<call, cause>>
      BY <1>7 DEF Poll
    <2>2. UNCHANGED <<backend, container, age, overtime, waited>>
          /\ backend = "kubernetes" /\ call = "waiting"
      BY <1>7 DEF Poll
    <2>3. CASE call' = "done" /\ cause' = "exit" /\ (Succeeded(container) \/ failed)
      <3>1. container \in {"terminating"} \cup Ended
        BY <2>3 DEF Succeeded, Failed
      <3> QED
        BY <2>1, <2>2, <2>3, <3>1
    <2>4. CASE poll_in' = PollInterval /\ UNCHANGED <<call, cause>>
      BY <2>2, <2>4
    <2> QED
      BY <2>1, <2>3, <2>4
  <1>8. CASE ClientFails
    BY <1>8 DEF ClientFails
  <1>9. CASE StatusReadFails
    BY <1>9 DEF StatusReadFails
  <1>10. CASE JobStarts
    BY <1>10 DEF JobStarts
  <1>11. CASE JobTerminates
    BY <1>11 DEF JobTerminates, DeadlineReached
  <1>12. CASE JobKilled
    BY <1>12 DEF JobKilled
  <1>13. CASE Tick
    BY <1>13 DEF Tick, WaitExpired, DeadlineReached
  <1>14. ASSUME NEW status \in {"exit0", "exit1"}, Exits(status)
         PROVE  Outcome'
    BY <1>14 DEF Exits
  <1>15. CASE UNCHANGED vars
    BY <1>15 DEF vars
  <1> QED
    BY <1>1, <1>2, <1>3, <1>4, <1>5, <1>6, <1>7, <1>8, <1>9, <1>10, <1>11,
       <1>12, <1>13, <1>14, <1>15 DEF Next, Start

LEMMA OutcomeInvariant == Spec => []Outcome
  BY OutcomeInit, OutcomeNext, PTL DEF Spec

\* When run_async has returned without an error, a container is left running only
\* by a timeout on Docker or in the termination of a Job's pod: for the pod's grace
\* at most, and if the wait gave up for MaxDelay + TermGrace - Grace at most, with
\* Kubernetes' and the code's 30 s for no longer than the Job took to start.
THEOREM LeftoversAreNamed == Spec => []LeftoverIsDoomed
  <1>1. Outcome => LeftoverIsDoomed
    BY DEF Outcome
  <1> QED
    BY <1>1, OutcomeInvariant, PTL

=============================================================================
