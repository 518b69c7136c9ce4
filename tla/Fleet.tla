------------------------------- MODULE Fleet -------------------------------
(***************************************************************************)
(* The autoscaler and the VM service: a cycle reads the depth of the       *)
(* queues, counts the running workers and starts worker containers, or     *)
(* lists the workers again and stops some, one by one.  Every call to SQS  *)
(* and Docker may fail, with an exception that is caught where it occurs   *)
(* or with one that ends the cycle; the backlog moves during a cycle, and  *)
(* the API starts workers by hand.                                         *)
(* The in-memory fleet used when Docker is absent is left out.             *)
(***************************************************************************)
EXTENDS Integers, FiniteSets, FiniteSetsExt

CONSTANTS
    Queues,        \* the queues whose depth counts
    MIN_VMS, MAX_VMS, DEPTH_PER_VM,
    Baseline,      \* workers started by Compose
    MaxDepth,      \* bound: messages in a queue
    MaxChanges,    \* bound: changes of the backlog, workers started by hand
    MaxFaults      \* bound: failing calls

ASSUME SizeAssumption ==
    /\ MIN_VMS \in Nat /\ MAX_VMS \in Nat /\ MIN_VMS <= MAX_VMS
    /\ DEPTH_PER_VM \in Nat \ {0} /\ Baseline \in Nat /\ Baseline <= MAX_VMS
ASSUME QueuesAssumption == IsFiniteSet(Queues)
ASSUME BoundAssumption == MaxDepth \in Nat /\ MaxChanges \in Nat /\ MaxFaults \in Nat

VARIABLES
    depth,       \* messages in each queue, waiting or in flight
    containers,  \* the workers' containers: [id, auto, up]; ids in order of creation
    born,        \* ids given so far
    pc,          \* where the cycle is
    desired,     \* the fleet size it decided on
    starts,      \* containers still to be started
    surplus,     \* how many workers terminate_vms is to stop
    victims,     \* ids still to be stopped and removed
    need,        \* history: the size the backlog needed when it was read
    misread,     \* history: a depth could not be read in this cycle
    extra,       \* history: workers that failed listings did not see or that were
                 \* started by hand, since a count last found MAX_VMS or less
    changes, faults

cycle == <<pc, desired, starts, surplus, victims, need, misread>>
vars == <<depth, containers, born, cycle, extra, changes, faults>>

Running == {c \in containers : c.up}
ActiveVms == Cardinality(Running)
Fault == faults < MaxFaults /\ faults' = faults + 1

-----------------------------------------------------------------------------
(* Sizing. *)

\* The sum over the queues: as many as there are messages in all of them.
Total(d) == Cardinality(UNION {{q} \X (1..d[q]) : q \in DOMAIN d})

\* A bug to be caught: no upper bound.
DesiredUncapped(total) ==
    Max({MIN_VMS, (total + DEPTH_PER_VM - 1) \div DEPTH_PER_VM})

\* decide: the backlog in units of what one worker absorbs, rounded up.
Desired(total) ==
    Max({MIN_VMS, Min({MAX_VMS, (total + DEPTH_PER_VM - 1) \div DEPTH_PER_VM})})

\* terminate_vms: the n oldest workers that carry the autoscaled label.
Oldest(n) ==
    LET auto == {c \in Running : c.auto}
    IN  {c.id : c \in {v \in auto : Cardinality({o \in auto : o.id < v.id}) < n}}

-----------------------------------------------------------------------------
(* The cycle. *)

\* apply has returned, or raised what nobody before the loop catches.
Over ==
    /\ pc' = "idle" /\ desired' = 0 /\ need' = 0 /\ misread' = FALSE
    /\ starts' = 0 /\ surplus' = 0 /\ victims' = {}

\* A depth that cannot be read counts as 0.
Decide ==
    /\ pc = "idle"
    /\ \E bad \in SUBSET Queues :
         /\ IF bad = {} THEN UNCHANGED faults ELSE Fault
         /\ desired' = Desired(Total([q \in Queues |-> IF q \in bad THEN 0 ELSE depth[q]]))
         /\ need' = Desired(Total(depth)) /\ misread' = (bad # {})
    /\ pc' = "count"
    /\ UNCHANGED <<depth, containers, born, starts, surplus, victims, extra, changes>>

\* Nothing can be started without a worker to clone.
Missing(current) == IF Running = {} THEN 0 ELSE Max({0, desired - current})

\* A bug to be caught: one worker more than the surplus is stopped.
ScaleByOneMore(current) ==
    /\ starts' = Missing(current)
    /\ surplus' = IF desired < current THEN current - desired + 1 ELSE 0
    /\ pc' = IF desired < current THEN "list" ELSE "resize"
    /\ UNCHANGED <<desired, victims, need, misread>>

\* A bug to be caught: the fleet only grows.
ScaleUpOnly(current) ==
    /\ starts' = Missing(current) /\ pc' = "resize"
    /\ UNCHANGED <<desired, surplus, victims, need, misread>>

\* apply: start what is missing, or stop the surplus.
Scale(current) ==
    /\ starts' = Missing(current)
    /\ surplus' = IF desired < current THEN current - desired ELSE 0
    /\ pc' = IF desired < current THEN "list" ELSE "resize"
    /\ UNCHANGED <<desired, victims, need, misread>>

Count ==
    /\ pc = "count"
    /\ Scale(ActiveVms)
    /\ extra' = IF ActiveVms <= MAX_VMS THEN 0 ELSE extra
    /\ UNCHANGED <<depth, containers, born, changes, faults>>

\* A failed listing is an empty fleet, which is started anew beside the old one.
CountFails ==
    /\ pc = "count" /\ Fault
    /\ \/ Scale(0) /\ extra' = extra + ActiveVms
       \/ Over /\ UNCHANGED extra
    /\ UNCHANGED <<depth, containers, born, changes>>

\* terminate_vms lists the workers for itself.
ListVictims ==
    /\ pc = "list"
    /\ victims' = Oldest(surplus) /\ surplus' = 0 /\ pc' = "resize"
    /\ UNCHANGED <<depth, containers, born, desired, starts, need, misread, extra,
                   changes, faults>>

\* A failed listing gives nobody to stop.
ListFails ==
    /\ pc = "list" /\ Fault
    /\ Over
    /\ UNCHANGED <<depth, containers, born, extra, changes>>

\* A new autoscaled container.
Started(up) == [id |-> born + 1, auto |-> TRUE, up |-> up]

StartOne ==
    /\ pc = "resize" /\ starts > 0
    /\ starts' = starts - 1
    /\ containers' = containers \cup {Started(TRUE)} /\ born' = born + 1
    /\ UNCHANGED <<depth, pc, desired, surplus, victims, need, misread, extra,
                   changes, faults>>

\* It may have been created and even started all the same.
StartFails ==
    /\ pc = "resize" /\ starts > 0 /\ Fault
    /\ \/ UNCHANGED <<containers, born>>
       \/ /\ \E up \in BOOLEAN : containers' = containers \cup {Started(up)}
          /\ born' = born + 1
    /\ \/ starts' = starts - 1 /\ UNCHANGED <<pc, desired, surplus, victims, need, misread>>
       \/ Over
    /\ UNCHANGED <<depth, extra, changes>>

\* The one on the list that was created first.
Leaving == {c \in containers : c.id = Min(victims)}

\* A bug to be caught: a worker stays on the list after it is gone.
StopOneKeepsVictim ==
    /\ pc = "resize" /\ victims # {}
    /\ containers' = containers \ Leaving
    /\ UNCHANGED <<depth, born, cycle, extra, changes, faults>>

StopOne ==
    /\ pc = "resize" /\ victims # {}
    /\ containers' = containers \ Leaving
    /\ victims' = victims \ {Min(victims)}
    /\ UNCHANGED <<depth, born, pc, desired, starts, surplus, need, misread, extra,
                   changes, faults>>

\* stop, then remove: a container that was stopped but not removed stays without
\* ever being listed again.
StopFails ==
    /\ pc = "resize" /\ victims # {} /\ Fault
    /\ \/ UNCHANGED containers
       \/ containers' = (containers \ Leaving) \cup {[c EXCEPT !.up = FALSE] : c \in Leaving}
    /\ \/ /\ victims' = victims \ {Min(victims)}
          /\ UNCHANGED <<pc, desired, starts, surplus, need, misread>>
       \/ Over
    /\ UNCHANGED <<depth, born, extra, changes>>

EndCycle ==
    /\ pc = "resize" /\ starts = 0 /\ victims = {}
    /\ Over
    /\ UNCHANGED <<depth, containers, born, extra, changes, faults>>

-----------------------------------------------------------------------------
(* What goes on beside it. *)

Backlog(q, n) ==
    /\ changes < MaxChanges /\ changes' = changes + 1
    /\ n # depth[q] /\ depth' = [depth EXCEPT ![q] = n]
    /\ UNCHANGED <<containers, born, cycle, extra, faults>>

\* POST /vms calls create_vms in the API's process.
CreateByHand ==
    /\ changes < MaxChanges /\ changes' = changes + 1
    /\ Running # {}
    /\ containers' = containers \cup {Started(TRUE)} /\ born' = born + 1
    /\ extra' = extra + 1
    /\ UNCHANGED <<depth, cycle, faults>>

Init ==
    /\ depth \in [Queues -> {0}]
    /\ containers = {[id |-> i, auto |-> FALSE, up |-> TRUE] : i \in 1..Baseline}
    /\ born = Baseline
    /\ pc = "idle" /\ desired = 0 /\ starts = 0 /\ surplus = 0 /\ victims = {}
    /\ need = 0 /\ misread = FALSE /\ extra = 0 /\ changes = 0 /\ faults = 0

Cycle == Decide \/ Count \/ ListVictims \/ StartOne \/ StopOne \/ EndCycle

Next ==
    \/ Cycle
    \/ CountFails \/ ListFails \/ StartFails \/ StopFails
    \/ \E q \in Queues, n \in 0..MaxDepth : Backlog(q, n)
    \/ CreateByHand

\* The loop of run_autoscaler goes on whatever a cycle raises.
Spec == Init /\ [][Next]_vars /\ WF_vars(Cycle)

-----------------------------------------------------------------------------
(* Properties. *)

\* The state has the shape of the containers and of the cycle's locals, and the
\* workers still to be stopped are running.
TypeOK ==
    /\ depth \in [Queues -> 0..MaxDepth]
    /\ containers \subseteq [id : 1..born, auto : BOOLEAN, up : BOOLEAN]
    /\ \A c, d \in containers : c.id = d.id => c = d
    /\ pc \in {"idle", "count", "list", "resize"}
    /\ desired \in Nat /\ starts \in Nat /\ surplus \in Nat
    /\ victims \subseteq {c.id : c \in Running} /\ (starts = 0 \/ victims = {})
    /\ need \in Nat /\ misread \in BOOLEAN /\ extra \in Nat

\* The fleet stays within MAX_VMS while containers are started one by one, some of
\* them failing.  What goes beyond are the workers a failed listing hid, which the
\* cycle started anew, and those started by hand, and only until the fleet has been
\* counted at MAX_VMS or less again.
WithinMax == Cardinality(Running) <= MAX_VMS + extra

\* A cycle that read every queue never stops a worker the backlog it read needs:
\* without those it still means to stop, enough of them are running, whatever
\* stops, removals and earlier cycles failed and whatever was started between the
\* count and the second listing.
NeverBelowNeed ==
    victims # {} /\ ~misread => Cardinality(Running) - Cardinality(victims) >= need

\* "Returns 0 on error rather than letting one bad read resize the fleet"
\* (autoscaler_service.py:51): the same of every cycle.  It does not hold: 0 is the
\* depth of an idle queue, and the cycle stops the workers that the rest needs.
BadReadKeepsFleet ==
    victims # {} => Cardinality(Running) - Cardinality(victims) >= need

\* Once the backlog settles and calls stop failing, the fleet reaches the size
\* the backlog asks for, or the baseline if that is larger, and stays there.
FleetConverges ==
    <>[](Cardinality(Running) = Max({Desired(Total(depth)), Baseline}))

=============================================================================
