---------------------------- MODULE ReadReplica ----------------------------
(***************************************************************************)
(* The routing session and what orphan recovery reads through it.  A fresh *)
(* session's SELECT goes to a replica that lags, unless a cached probe     *)
(* says that it is down; a session that holds rows or is pinned reads the  *)
(* primary, and every write goes there.  The worker of one task claims,    *)
(* heartbeats and finishes it on the primary; recover_orphans lists the    *)
(* row in one step and writes it back in another.                          *)
(***************************************************************************)
EXTENDS Integers

CONSTANTS
    ClaimSeconds,       \* length of a claim
    HeartbeatInterval,  \* max(1, int(0.6 * claim_seconds))
    Interval,           \* scheduler_interval_seconds
    HealthTTL,          \* _REPLICA_HEALTH_TTL_SECONDS
    MaxLag,             \* how far the replica may lag behind
    MaxOutages          \* bound: outages of the replica

ASSUME ClockAssumption ==
    /\ ClaimSeconds \in Nat /\ HeartbeatInterval \in 1..ClaimSeconds
    /\ Interval \in Nat \ {0} /\ HealthTTL \in Nat \ {0}
ASSUME LagAssumption ==
    /\ MaxLag \in Nat
    /\ MaxLag < Interval /\ MaxLag < ClaimSeconds - HeartbeatInterval
ASSUME OutageAssumption == MaxOutages \in Nat

VARIABLES
    row,       \* the task on the primary: [status, left], left = 0 when the lock is over
    beat_in,   \* time to the worker's next heartbeat
    alive,     \* a worker is executing the task
    replica,   \* the task on the replica
    lag,       \* how long the replica's row has differed from the primary's
    up,        \* the replica accepts connections
    outages,   \* bound
    health,    \* _replica_health: [ok, left], left = 0 when a probe is due
    pc,        \* recover_orphans: "idle", "mark"
    sleep,     \* time to the next scheduler cycle
    down       \* history: how long the replica has been down, at most HealthTTL

workerVars == <<beat_in, alive>>
replicaVars == <<replica, lag, up, outages, down>>
vars == <<row, workerVars, replicaVars, health, pc, sleep>>

Row == [status : {"pending", "running", "done"}, left : 0..ClaimSeconds]
Pending == [status |-> "pending", left |-> 0]
Done == [status |-> "done", left |-> 0]

\* A bug to be caught: the claim is as long as a claim and a heartbeat.
ClaimedLonger == [status |-> "running", left |-> ClaimSeconds + HeartbeatInterval]

Claimed == [status |-> "running", left |-> ClaimSeconds]

Expired(r) == r.status = "running" /\ r.left = 0
Dec(n) == IF n > 0 THEN n - 1 ELSE 0
Aged(r) == [r EXCEPT !.left = Dec(@)]

-----------------------------------------------------------------------------
(* Routing. *)

\* A bug to be caught: a replica that was up once is never probed again.
CheckedOnce(h) == IF h.left > 0 \/ h.ok THEN h ELSE [ok |-> up, left |-> HealthTTL]

\* _replica_available: the cached answer, or a probe when it is too old.
Checked(h) == IF h.left > 0 THEN h ELSE [ok |-> up, left |-> HealthTTL]

\* get_bind, for a SELECT of a session that is not pinned and holds no rows.
FromReplica == Checked(health).ok

-----------------------------------------------------------------------------
(* The worker, pinned to the primary, and its heartbeat on an engine of its own. *)

Claim ==
    /\ row.status = "pending"
    /\ row' = Claimed /\ alive' = TRUE /\ beat_in' = HeartbeatInterval
    /\ UNCHANGED <<replicaVars, health, pc, sleep>>

\* A bug to be caught: the heartbeat lets the lock run on.
HeartbeatWithoutExtension ==
    /\ alive /\ beat_in = 0
    /\ beat_in' = HeartbeatInterval
    /\ UNCHANGED <<row, alive, replicaVars, health, pc, sleep>>

Heartbeat ==
    /\ alive /\ beat_in = 0
    /\ row' = [row EXCEPT !.left = ClaimSeconds]
    /\ beat_in' = HeartbeatInterval
    /\ UNCHANGED <<alive, replicaVars, health, pc, sleep>>

Finish ==
    /\ alive
    /\ row' = Done /\ alive' = FALSE /\ beat_in' = 0
    /\ UNCHANGED <<replicaVars, health, pc, sleep>>

\* A task that is done makes room for another one, new on both databases.
NextTask ==
    /\ row = Done /\ replica = row
    /\ row' = Pending /\ replica' = Pending
    /\ UNCHANGED <<workerVars, lag, up, outages, down, health, pc, sleep>>

WorkerDies ==
    /\ alive
    /\ alive' = FALSE /\ beat_in' = 0
    /\ UNCHANGED <<row, replicaVars, health, pc, sleep>>

-----------------------------------------------------------------------------
(* recover_orphans. *)

\* list_expired_running, the first statement of a fresh session.  A replica that
\* went down after the last probe makes it raise, which ends the cycle.
ListExpired ==
    /\ pc = "idle" /\ sleep = 0
    /\ LET raises == FromReplica /\ ~up
           table == IF FromReplica THEN replica ELSE row
           found == ~raises /\ Expired(table)
       IN  /\ pc' = IF found THEN "mark" ELSE "idle"
           /\ sleep' = IF found THEN 0 ELSE Interval
    /\ health' = Checked(health)
    /\ UNCHANGED <<row, workerVars, replicaVars>>

\* mark_running_expired_pending: the row is written by its key, whatever it holds
\* now.
Mark ==
    /\ pc = "mark"
    /\ row' = Pending
    /\ pc' = "idle" /\ sleep' = Interval
    /\ UNCHANGED <<workerVars, replicaVars, health>>

-----------------------------------------------------------------------------
(* The replica and the clock. *)

Replicate ==
    /\ up /\ replica # row
    /\ replica' = row /\ lag' = 0
    /\ UNCHANGED <<row, workerVars, up, outages, down, health, pc, sleep>>

ReplicaFails ==
    /\ up /\ outages < MaxOutages
    /\ up' = FALSE /\ outages' = outages + 1 /\ down' = 0
    /\ UNCHANGED <<row, workerVars, replica, lag, health, pc, sleep>>

\* A replica accepts connections again when it has caught up.
ReplicaReturns ==
    /\ ~up
    /\ up' = TRUE /\ replica' = row /\ lag' = 0 /\ down' = 0
    /\ UNCHANGED <<row, workerVars, outages, health, pc, sleep>>

\* Time passes; heartbeats and cycles are on time, and the lag keeps its bound.
Tick ==
    /\ ~(alive /\ beat_in = 0) /\ pc = "idle" /\ sleep > 0
    /\ up /\ replica # row => lag < MaxLag
    /\ row' = Aged(row) /\ replica' = Aged(replica)
    /\ lag' = IF ~up \/ replica = row THEN 0 ELSE lag + 1
    /\ beat_in' = Dec(beat_in) /\ sleep' = sleep - 1
    /\ health' = [health EXCEPT !.left = Dec(@)]
    /\ down' = IF ~up /\ down < HealthTTL THEN down + 1 ELSE down
    /\ UNCHANGED <<alive, up, outages, pc>>

Init ==
    /\ row = Pending /\ beat_in = 0 /\ alive = FALSE
    /\ replica = row /\ lag = 0 /\ up = TRUE /\ outages = 0
    /\ health = [ok |-> TRUE, left |-> 0]
    /\ pc = "idle" /\ sleep = 0 /\ down = 0

Next ==
    \/ Claim \/ Heartbeat \/ Finish \/ NextTask \/ WorkerDies
    \/ ListExpired \/ Mark
    \/ Replicate \/ ReplicaFails \/ ReplicaReturns \/ Tick

\* The scheduler's loop, the heartbeat of a live worker, replication and time
\* go on; no worker has to finish and no outage has to end.
Spec ==
    /\ Init /\ [][Next]_vars
    /\ WF_vars(ListExpired) /\ WF_vars(Mark) /\ WF_vars(Heartbeat)
    /\ WF_vars(Replicate) /\ WF_vars(Tick)

-----------------------------------------------------------------------------
(* Properties. *)

\* The rows, the health cache and the counters keep their shape.
TypeOK ==
    /\ row \in Row /\ replica \in Row
    /\ beat_in \in 0..HeartbeatInterval /\ alive \in BOOLEAN
    /\ lag \in 0..MaxLag /\ up \in BOOLEAN /\ outages \in 0..MaxOutages
    /\ health \in [ok : BOOLEAN, left : 0..HealthTTL]
    /\ pc \in {"idle", "mark"} /\ sleep \in 0..Interval
    /\ down \in 0..HealthTTL

\* The row recover_orphans is about to reset is an orphan on the primary too,
\* although it was found on the replica: no live claim and no finished task is
\* thrown back to pending, if the lag stays below both the slack of a heartbeat
\* and the scheduler's interval.
RecoversOnlyOrphans == pc = "mark" => Expired(row) /\ ~alive

\* Reads are sent to a replica that is down for less than the life of a probe's
\* answer, also when it comes and goes between two probes: after that they fall
\* back to the primary.
DeadReplicaIsLeft == ~up /\ FromReplica => down < HealthTTL

\* A task whose worker died returns to pending, also when the replica goes down
\* behind the cached probe and stays down.
OrphanIsRecovered ==
    (row.status = "running" /\ ~alive) ~> (row.status # "running")

=============================================================================
