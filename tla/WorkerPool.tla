----------------------------- MODULE WorkerPool -----------------------------
(***************************************************************************)
(* cli._run_queue_pool: one queue's polling loop and the `handle`          *)
(* coroutines it starts, on one event loop.                                *)
(*                                                                         *)
(* A coroutine runs alone from one await to the next, so each action is    *)
(* the code between two awaits.  asyncio.create_task only schedules a      *)
(* coroutine: it starts once the loop's own coroutine awaits, and, since   *)
(* ready coroutines run in the order they were scheduled, before that      *)
(* await can return.                                                       *)
(***************************************************************************)
EXTENDS Integers

CONSTANT MaxConcurrent   \* MAX_CONCURRENT_PER_QUEUE

ASSUME MaxConcurrentAssumption == MaxConcurrent \in Nat \ {0}

VARIABLES
    loop,         \* where the polling loop waits
    asked,        \* max_messages of the receive_tasks call under way
    unstarted,    \* handle coroutines created and not yet started
    processing,   \* handle coroutines inside process_task_id_async
    deleting,     \* handle coroutines waiting for delete_message
    in_flight     \* the counter `in_flight`

vars == <<loop, asked, unstarted, processing, deleting, in_flight>>

TypeOK ==
    /\ loop \in {"receiving", "sleeping"}
    /\ asked \in 0..MaxConcurrent
    /\ (loop = "sleeping") <=> (asked = 0)
    /\ unstarted \in Nat
    /\ processing \in Nat
    /\ deleting \in Nat
    /\ in_flight \in Nat

-----------------------------------------------------------------------------
(* The loop. *)

\* A bug to be caught: the slots are counted as if all were free.
AvailableAll(n) == MaxConcurrent

\* available = MAX_CONCURRENT_PER_QUEUE - in_flight
Available(n) == MaxConcurrent - n

\* The top of the loop, up to its next await.
Poll ==
    IF Available(in_flight) <= 0
    THEN loop' = "sleeping" /\ asked' = 0
    ELSE loop' = "receiving" /\ asked' = Available(in_flight)

\* receive_tasks returns: the coroutines are created and the loop starts over
\* without an await in between.
Received(n) ==
    /\ loop = "receiving"
    /\ unstarted = 0
    /\ unstarted' = n
    /\ Poll
    /\ UNCHANGED <<processing, deleting, in_flight>>

\* receive_tasks raises: the loop sleeps five seconds.
ReceiveFails ==
    /\ loop = "receiving"
    /\ unstarted = 0
    /\ loop' = "sleeping"
    /\ asked' = 0
    /\ UNCHANGED <<unstarted, processing, deleting, in_flight>>

\* A sleep ends.
Wake ==
    /\ loop = "sleeping"
    /\ unstarted = 0
    /\ Poll
    /\ UNCHANGED <<unstarted, processing, deleting, in_flight>>

-----------------------------------------------------------------------------
(* handle(message). *)

HandleStarts ==
    /\ unstarted > 0
    /\ unstarted' = unstarted - 1
    /\ in_flight' = in_flight + 1

\* The body names a task.
StartTask ==
    /\ HandleStarts
    /\ processing' = processing + 1
    /\ UNCHANGED <<loop, asked, deleting>>

\* The body names none: the message is deleted.
StartJunk ==
    /\ HandleStarts
    /\ deleting' = deleting + 1
    /\ UNCHANGED <<loop, asked, processing>>

\* process_task_id_async returns True.
Processed ==
    /\ processing > 0
    /\ processing' = processing - 1
    /\ deleting' = deleting + 1
    /\ UNCHANGED <<loop, asked, unstarted, in_flight>>

\* A bug to be caught: an exception skips the decrement.
ProcessingEndsUncounted ==
    /\ processing > 0
    /\ processing' = processing - 1
    /\ UNCHANGED <<loop, asked, unstarted, deleting, in_flight>>

\* It returns False, or raises: the message is kept; `finally` counts down.
ProcessingEnds ==
    /\ processing > 0
    /\ processing' = processing - 1
    /\ in_flight' = in_flight - 1
    /\ UNCHANGED <<loop, asked, unstarted, deleting>>

\* delete_message returns or raises.
DeleteEnds ==
    /\ deleting > 0
    /\ deleting' = deleting - 1
    /\ in_flight' = in_flight - 1
    /\ UNCHANGED <<loop, asked, unstarted, processing>>

-----------------------------------------------------------------------------

\* The loop has reached its first await.
Init ==
    /\ loop = "receiving"
    /\ asked = MaxConcurrent
    /\ unstarted = 0
    /\ processing = 0
    /\ deleting = 0
    /\ in_flight = 0

Next ==
    \/ \E n \in 0..asked : Received(n)
    \/ ReceiveFails
    \/ Wake
    \/ StartTask
    \/ StartJunk
    \/ Processed
    \/ ProcessingEnds
    \/ DeleteEnds

Spec == Init /\ [][Next]_vars

\* Sleeps and long polls end, a scheduled coroutine starts, an executor's
\* timeout ends the longest container, and a queue call returns or raises.
FairSpec ==
    /\ Spec
    /\ WF_vars(\E n \in 0..asked : Received(n))
    /\ WF_vars(Wake)
    /\ WF_vars(StartTask \/ StartJunk)
    /\ WF_vars(Processed \/ ProcessingEnds)
    /\ WF_vars(DeleteEnds)

-----------------------------------------------------------------------------

\* in_flight counts the handle coroutines that have started, through every
\* early return and exception in `handle`.
CounterIsExact == in_flight = processing + deleting

\* The loop computes `available` before the coroutines it has just created
\* have counted themselves, so it can hand out each slot twice, never more.
AtMostTwice == in_flight + unstarted <= 2 * MaxConcurrent

\* _run_queue_pool's docstring: "running up to MAX_CONCURRENT_PER_QUEUE tasks
\* at a time".
WithinLimit == processing <= MaxConcurrent

\* The pool never stops taking work: it polls again and again.
KeepsPolling == []<>(loop = "receiving")

=============================================================================
