------------------------- MODULE ReadReplicaProofs -------------------------
(***************************************************************************)
(* Proofs about ReadReplica, for every length of the claim, the heartbeat, *)
(* the scheduler's interval and the health cache, and for every lag below  *)
(* the heartbeat's slack and the interval.                                 *)
(***************************************************************************)
EXTENDS ReadReplica, TLAPS

LEMMA TypeInit == Init => TypeOK
  <1>1. Init => alive \in BOOLEAN /\ up \in BOOLEAN
    BY Zenon DEF Init
  <1> QED
    BY <1>1, ClockAssumption, LagAssumption, OutageAssumption
       DEF Init, TypeOK, Row, Pending

\* Ageing a row keeps its status and its type.
LEMMA AgedRow ==
    ASSUME NEW r \in Row
    PROVE  /\ Aged(r) \in Row /\ Aged(r).status = r.status
           /\ Aged(r).left = Dec(r.left)
  BY ClockAssumption DEF Row, Aged, Dec

LEMMA TypeNext == TypeOK /\ [Next]_vars => TypeOK'
  <1> SUFFICES ASSUME TypeOK, [Next]_vars PROVE TypeOK'
    OBVIOUS
  <1> USE ClockAssumption, LagAssumption, OutageAssumption
      DEF TypeOK, workerVars, replicaVars
  <1>1. CASE Claim
    BY <1>1 DEF Claim, Claimed, Row
  <1>2. CASE Heartbeat
    BY <1>2 DEF Heartbeat, Row
  <1>3. CASE Finish
    <2>1. alive' \in BOOLEAN
      BY <1>3, Zenon DEF Finish
    <2> QED
      BY <1>3, <2>1 DEF Finish, Done, Row
  <1>4. CASE NextTask
    BY <1>4 DEF NextTask, Pending, Row
  <1>5. CASE WorkerDies
    <2>1. alive' \in BOOLEAN
      BY <1>5, Zenon DEF WorkerDies
    <2> QED
      BY <1>5, <2>1 DEF WorkerDies
  <1>6. CASE ListExpired
    <2>1. health' \in [ok : BOOLEAN, left : 0..HealthTTL]
      BY <1>6 DEF ListExpired, Checked
    <2> QED
      BY <1>6, <2>1 DEF ListExpired
  <1>7. CASE Mark
    BY <1>7 DEF Mark, Pending, Row
  <1>8. CASE Replicate
    BY <1>8 DEF Replicate
  <1>9. CASE ReplicaFails
    <2>1. up' \in BOOLEAN
      BY <1>9, Zenon DEF ReplicaFails
    <2> QED
      BY <1>9, <2>1 DEF ReplicaFails
  <1>10. CASE ReplicaReturns
    BY <1>10 DEF ReplicaReturns
  <1>11. CASE Tick
    <2>1. row' \in Row /\ replica' \in Row
      BY <1>11, AgedRow DEF Tick
    <2>2. health' \in [ok : BOOLEAN, left : 0..HealthTTL]
      BY <1>11 DEF Tick, Dec
    <2>3. lag' \in 0..MaxLag
      BY <1>11 DEF Tick
    <2>4. down' \in 0..HealthTTL
      BY <1>11 DEF Tick
    <2> QED
      BY <1>11, <2>1, <2>2, <2>3, <2>4 DEF Tick, Dec
  <1>12. CASE UNCHANGED vars
    BY <1>12 DEF vars
  <1> QED
    BY <1>1, <1>2, <1>3, <1>4, <1>5, <1>6, <1>7, <1>8, <1>9, <1>10, <1>11,
       <1>12 DEF Next

\* Rows, counters and the health cache keep their types.
THEOREM ReplicaTypeCorrect == Spec => []TypeOK
  BY TypeInit, TypeNext, PTL DEF Spec

-----------------------------------------------------------------------------
(***************************************************************************)
(* RecoversOnlyOrphans is about the primary's row, and ListExpired looks   *)
(* at the replica's.  What relates them is time: a live worker's lock has  *)
(* the heartbeat's slack left at every write, so the lock of a row the     *)
(* replica has not seen overwritten has not run out within the lag; and    *)
(* the reset of an orphan reaches the replica before the next cycle.       *)
(***************************************************************************)

\* The worker that executes the task holds the row's lock, and its heartbeat
\* comes at least the slack ahead of the lock's end.
LiveHoldsLock ==
    alive => /\ row.status = "running"
             /\ row.left >= beat_in + (ClaimSeconds - HeartbeatInterval)

\* An outdated running row on a replica that is up either had the slack left
\* when it was overwritten, or was reset in this cycle.
OutdatedIsRecent ==
    up /\ replica # row /\ replica.status = "running" =>
        \/ replica.left + lag >= ClaimSeconds - HeartbeatInterval
        \/ sleep + lag >= Interval

Recovery == LiveHoldsLock /\ OutdatedIsRecent /\ RecoversOnlyOrphans

LEMMA RecoveryInit == Init => Recovery
  BY DEF Init, Recovery, LiveHoldsLock, OutdatedIsRecent, RecoversOnlyOrphans

\* What the listing finds is an orphan, wherever it looked.
LEMMA FoundIsOrphan ==
    ASSUME TypeOK, Recovery, sleep = 0, up, Expired(replica)
    PROVE  Expired(row) /\ ~alive
  <1>1. replica = row
    BY ClockAssumption, LagAssumption
       DEF TypeOK, Row, Recovery, OutdatedIsRecent, Expired
  <1> QED
    BY <1>1, ClockAssumption, LagAssumption
       DEF TypeOK, Row, Recovery, LiveHoldsLock, Expired

LEMMA RecoveryNext == TypeOK /\ Recovery /\ [Next]_vars => Recovery'
  <1> SUFFICES ASSUME TypeOK, Recovery, [Next]_vars PROVE Recovery'
    OBVIOUS
  <1> USE ClockAssumption, LagAssumption
      DEF TypeOK, Row, workerVars, replicaVars, Recovery, LiveHoldsLock,
          OutdatedIsRecent, RecoversOnlyOrphans, Expired
  <1>1. CASE Claim
    BY <1>1 DEF Claim, Claimed
  <1>2. CASE Heartbeat
    BY <1>2 DEF Heartbeat
  <1>3. CASE Finish
    BY <1>3 DEF Finish, Done
  <1>4. CASE NextTask
    BY <1>4 DEF NextTask, Pending, Done
  <1>5. CASE WorkerDies
    BY <1>5 DEF WorkerDies
  <1>6. CASE ListExpired
    <2>1. /\ sleep = 0 /\ sleep' \in {0, Interval}
          /\ UNCHANGED <<row, beat_in, alive, replica, lag, up>>
      BY <1>6 DEF ListExpired
    <2>2. pc' = "mark" => Expired(row) \/ (up /\ Expired(replica))
      BY <1>6, Zenon DEF ListExpired
    <2>3. pc' = "mark" => Expired(row) /\ ~alive
      BY <2>1, <2>2, FoundIsOrphan
    <2>4. LiveHoldsLock'
      BY <2>1
    <2>5. sleep + lag >= Interval => sleep' + lag' >= Interval
      BY <2>1
    <2>6. OutdatedIsRecent'
      BY <2>1, <2>5
    <2> QED
      BY <2>1, <2>3, <2>4, <2>6
  <1>7. CASE Mark
    BY <1>7 DEF Mark, Pending
  <1>8. CASE Replicate
    BY <1>8 DEF Replicate
  <1>9. CASE ReplicaFails
    BY <1>9 DEF ReplicaFails
  <1>10. CASE ReplicaReturns
    BY <1>10 DEF ReplicaReturns
  <1>11. CASE Tick
    <2>1. /\ row'.status = row.status /\ row'.left = Dec(row.left)
          /\ replica'.status = replica.status /\ replica'.left = Dec(replica.left)
      BY <1>11, AgedRow DEF Tick
    <2>2. replica = row => replica' = row'
      BY <1>11 DEF Tick
    <2> QED
      BY <1>11, <2>1, <2>2 DEF Tick, Dec
  <1>12. CASE UNCHANGED vars
    BY <1>12 DEF vars
  <1> QED
    BY <1>1, <1>2, <1>3, <1>4, <1>5, <1>6, <1>7, <1>8, <1>9, <1>10, <1>11,
       <1>12 DEF Next

\* recover_orphans, listing from a replica that lags, fails and returns, never
\* resets a task that is being executed or was finished, as long as the lag is
\* below the heartbeat's slack and the scheduler's interval.
THEOREM RecoveryIsSafe == Spec => []RecoversOnlyOrphans
  <1>1. Recovery => RecoversOnlyOrphans
    BY DEF Recovery
  <1> QED
    BY <1>1, RecoveryInit, RecoveryNext, ReplicaTypeCorrect, PTL DEF Spec

-----------------------------------------------------------------------------
(***************************************************************************)
(* DeadReplicaIsLeft says how long an outage may go unnoticed; inductive   *)
(* is that the outage and the rest of the answer's life add up to at most  *)
(* that life.                                                              *)
(***************************************************************************)

AnswerRunsOut ==
    ~up /\ health.ok /\ health.left > 0 => down + health.left <= HealthTTL

LEMMA AnswerNext == TypeOK /\ AnswerRunsOut /\ [Next]_vars => AnswerRunsOut'
  <1> SUFFICES ASSUME TypeOK, AnswerRunsOut, [Next]_vars PROVE AnswerRunsOut'
    OBVIOUS
  <1> USE ClockAssumption DEF TypeOK, AnswerRunsOut
  <1>1. CASE ListExpired
    BY <1>1 DEF ListExpired, Checked, replicaVars
  <1>2. CASE ReplicaFails
    BY <1>2 DEF ReplicaFails
  <1>3. CASE ReplicaReturns
    BY <1>3 DEF ReplicaReturns
  <1>4. CASE Tick
    <2>1. health'.ok = health.ok /\ health'.left = Dec(health.left) /\ up' = up
      BY <1>4 DEF Tick
    <2> QED
      BY <1>4, <2>1 DEF Tick, Dec
  <1>5. CASE Claim \/ Heartbeat \/ Finish \/ NextTask \/ WorkerDies \/ Mark \/ Replicate
    BY <1>5 DEF Claim, Heartbeat, Finish, NextTask, WorkerDies, Mark, Replicate, replicaVars
  <1>6. CASE UNCHANGED vars
    BY <1>6 DEF vars, replicaVars
  <1> QED
    BY <1>1, <1>2, <1>3, <1>4, <1>5, <1>6 DEF Next

\* _replica_available sends reads to a replica that is down for less than the life of
\* one cached answer, however often it comes and goes.
THEOREM OutageIsNoticed == Spec => []DeadReplicaIsLeft
  <1>1. Init => AnswerRunsOut
    BY DEF Init, AnswerRunsOut
  <1>2. TypeOK /\ AnswerRunsOut => DeadReplicaIsLeft
    BY ClockAssumption DEF TypeOK, AnswerRunsOut, DeadReplicaIsLeft, FromReplica, Checked
  <1> QED
    BY <1>1, <1>2, AnswerNext, ReplicaTypeCorrect, PTL DEF Spec

=============================================================================
