------------------------ MODULE TaskLifecycleProofs ------------------------
(***************************************************************************)
(* Proofs about TaskLifecycle, for any number of jobs, tasks, handlers and *)
(* faults.                                                                 *)
(***************************************************************************)
EXTENDS TaskLifecycle, TLAPS

\* The heartbeat comes at least one tick before the lock it extends runs out.
LEMMA HeartbeatBeforeExpiry ==
    /\ HeartbeatInterval \in Nat
    /\ 0 < HeartbeatInterval
    /\ HeartbeatInterval < ClaimSeconds
  BY ConstantsAssumption, SMTT(30) DEF HeartbeatInterval

LEMMA TypeInit == Init => TypeOK
  BY ConstantsAssumption DEF Init, TypeOK, Statuses, Places, Messages

\* What the two writers of a row do to the types.
LEMMA TypeProduce == TypeOK /\ Produce => TypeOK'
  <1> SUFFICES ASSUME TypeOK, Produce PROVE TypeOK'
    OBVIOUS
  <1> USE ConstantsAssumption DEF TypeOK, Statuses, Places, Messages,
          handlerVars, queueVars, taskVars, InsertTask, CarriedRetryCount, Fault
  <1>1. ASSUME NEW t \in Tasks, NEW j \in Jobs, EnqueueTask(t, j) PROVE TypeOK'
    BY <1>1 DEF EnqueueTask
  <1>2. ASSUME NEW p \in Tasks, NEW t \in Tasks, RetryTask(p, t) PROVE TypeOK'
    BY <1>2 DEF RetryTask
  <1>3. ASSUME NEW t \in Tasks, SendTask(t) PROVE TypeOK'
    BY <1>3 DEF SendTask
  <1>4. ASSUME NEW t \in Tasks, SendTaskFails(t) PROVE TypeOK'
    BY <1>4 DEF SendTaskFails
  <1>5. ASSUME NEW j \in Jobs, DeleteJob(j) PROVE TypeOK'
    BY <1>5 DEF DeleteJob
  <1> QED
    BY <1>1, <1>2, <1>3, <1>4, <1>5 DEF Produce

LEMMA TypeFinish ==
    ASSUME TypeOK, NEW h \in Handlers, cur[h] # None,
           NEW outcome \in Terminal, NEW place \in {"deleting", "mkRetry"},
           child[h] = None, Finish(h, outcome, place)
    PROVE  TypeOK'
  BY ConstantsAssumption DEF TypeOK, Statuses, Terminal, Places, Messages,
     queueVars, Finish, Return, Goto, Exists

LEMMA TypeWork == ASSUME TypeOK, NEW h \in Handlers, Work(h) PROVE TypeOK'
  <1> USE ConstantsAssumption, HeartbeatBeforeExpiry
      DEF TypeOK, Statuses, Places, Messages, handlerVars, queueVars, taskVars,
          Goto, Return, Fault
  <1>1. ASSUME NEW t \in Tasks, Receive(h, t) PROVE TypeOK'
    BY <1>1 DEF Receive, TakeMessage
  <1>2. ASSUME NEW t \in Tasks, ReceiveDuplicate(h, t) PROVE TypeOK'
    BY <1>2 DEF ReceiveDuplicate, TakeMessage
  <1>3. CASE Claim(h)
    BY <1>3 DEF Claim
  <1>4. CASE Recheck(h)
    BY <1>4 DEF Recheck, LastAttempt
  <1>5. CASE DecideLost(h)
    BY <1>5 DEF DecideLost
  <1>6. CASE LoadJob(h)
    BY <1>6 DEF LoadJob
  <1>7. CASE LoadJobMissing(h)
    BY <1>7, TypeFinish DEF LoadJobMissing, Terminal
  <1>8. CASE Heartbeat(h)
    BY <1>8 DEF Heartbeat, BeatDue, ExtendLock, ExtendVisibility
  <1>9. CASE HeartbeatQueueFails(h)
    BY <1>9 DEF HeartbeatQueueFails, BeatDue, ExtendLock
  <1>10. CASE HeartbeatDbFails(h)
    BY <1>10 DEF HeartbeatDbFails, BeatDue, ExtendVisibility
  <1>11. CASE FinishSuccess(h)
    BY <1>11, TypeFinish DEF FinishSuccess, Terminal
  <1>12. CASE FinishFinalFailed(h)
    BY <1>12, TypeFinish DEF FinishFinalFailed, Terminal
  <1>13. CASE FinishFailed(h)
    BY <1>13, TypeFinish DEF FinishFailed, Terminal
  <1>14. ASSUME NEW c \in Tasks, MakeRetry(h, c) PROVE TypeOK'
    BY <1>14 DEF MakeRetry, InsertTask, CarriedRetryCount
  <1>15. CASE MakeRetryFails(h)
    BY <1>15 DEF MakeRetryFails
  <1>16. CASE SendRetry(h)
    BY <1>16 DEF SendRetry
  <1>17. CASE DeleteMessage(h)
    BY <1>17 DEF DeleteMessage
  <1>18. CASE Crash(h)
    BY <1>18 DEF Crash
  <1> QED
    BY <1>1, <1>2, <1>3, <1>4, <1>5, <1>6, <1>7, <1>8, <1>9, <1>10, <1>11,
       <1>12, <1>13, <1>14, <1>15, <1>16, <1>17, <1>18 DEF Work

LEMMA TypeRecover ==
    ASSUME TypeOK, NEW s \in Schedulers, Recover(s) PROVE TypeOK'
  <1> USE ConstantsAssumption
      DEF TypeOK, Statuses, Places, Messages, handlerVars, queueVars, taskVars,
          Fault
  <1>1. CASE RecoverList(s)
    BY <1>1 DEF RecoverList
  <1>2. ASSUME NEW t \in Tasks, RecoverMark(s, t) PROVE TypeOK'
    BY <1>2 DEF RecoverMark
  <1>3. CASE SchedulerCrash(s)
    BY <1>3 DEF SchedulerCrash
  <1> QED
    BY <1>1, <1>2, <1>3 DEF Recover

LEMMA TypeTick == TypeOK /\ Tick => TypeOK'
  BY ConstantsAssumption, SMTT(30) DEF TypeOK, Tick, Minus1

\* Every reachable state is well typed; in particular a handler works on a
\* task exactly while it is not idle and holds an unsent retry exactly between
\* its INSERT and its send.
THEOREM TypeCorrect == Spec => []TypeOK
  <1>1. TypeOK /\ [Next]_vars => TypeOK'
    <2> SUFFICES ASSUME TypeOK, [Next]_vars PROVE TypeOK'
      OBVIOUS
    <2>1. CASE Next
      BY <2>1, TypeProduce, TypeWork, TypeRecover, TypeTick DEF Next
    <2>2. CASE UNCHANGED vars
      BY <2>2 DEF vars, taskVars, queueVars, handlerVars, TypeOK
    <2> QED
      BY <2>1, <2>2
  <1> QED
    BY TypeInit, <1>1, PTL DEF Spec

-----------------------------------------------------------------------------
(***************************************************************************)
(* Retries, whatever the timing.  RetryWithinBudget relates a retry to the *)
(* row it was made from, so the induction has to know that both rows exist *)
(* (an id is never inserted twice) and that a handler about to insert has  *)
(* passed the test on retry_count.                                         *)
(***************************************************************************)

RetryHistory ==
    /\ \A t \in Tasks : status[t] = "absent" => msg[t] = "none"
    /\ \A t \in Tasks : status[t] # "absent" => job_id[t] \in Jobs
    /\ \A h \in Handlers : cur[h] # None => status[cur[h]] # "absent"
    /\ \A h \in Handlers : child[h] # None => status[child[h]] # "absent"
    /\ \A h \in Handlers : pc[h] = "mkRetry" => RetriesLeft(cur[h])
    /\ \A c \in Tasks : auto_retry_of[c] # None =>
          /\ status[c] # "absent"
          /\ status[auto_retry_of[c]] # "absent"
          /\ job_id[c] = job_id[auto_retry_of[c]]
          /\ retry_count[c] = retry_count[auto_retry_of[c]] + 1
          /\ retry_count[c] <= MaxRetries[job_id[c]]

LEMMA HistoryProduce ==
    TypeOK /\ RetryHistory /\ Produce => RetryHistory'
  <1> SUFFICES ASSUME TypeOK, RetryHistory, Produce PROVE RetryHistory'
    OBVIOUS
  <1> USE ConstantsAssumption
      DEF TypeOK, Statuses, RetryHistory, RetriesLeft, handlerVars, queueVars,
          taskVars, InsertTask, CarriedRetryCount, Free, Fault
  <1>1. ASSUME NEW t \in Tasks, NEW j \in Jobs, EnqueueTask(t, j)
        PROVE  RetryHistory'
    BY <1>1 DEF EnqueueTask
  <1>2. ASSUME NEW p \in Tasks, NEW t \in Tasks, RetryTask(p, t)
        PROVE  RetryHistory'
    BY <1>2 DEF RetryTask
  <1>3. ASSUME NEW t \in Tasks, SendTask(t) PROVE RetryHistory'
    BY <1>3 DEF SendTask
  <1>4. ASSUME NEW t \in Tasks, SendTaskFails(t) PROVE RetryHistory'
    BY <1>4 DEF SendTaskFails
  <1>5. ASSUME NEW j \in Jobs, DeleteJob(j) PROVE RetryHistory'
    BY <1>5 DEF DeleteJob, Exists
  <1> QED
    BY <1>1, <1>2, <1>3, <1>4, <1>5 DEF Produce

LEMMA HistoryFinish ==
    ASSUME TypeOK, RetryHistory, NEW h \in Handlers, cur[h] # None,
           NEW outcome \in Terminal, NEW place \in {"deleting", "mkRetry"},
           place = "mkRetry" => RetriesLeft(cur[h]), Finish(h, outcome, place)
    PROVE  RetryHistory'
  <1> USE ConstantsAssumption
      DEF TypeOK, RetryHistory, RetriesLeft, Terminal, queueVars, Finish
  <1>1. CASE Exists(cur[h])
    BY <1>1, SMTT(30) DEF Goto, Exists
  <1>2. CASE ~Exists(cur[h])
    BY <1>2, SMTT(30) DEF Return, Goto
  <1> QED
    BY <1>1, <1>2

LEMMA HistoryWork ==
    ASSUME TypeOK, RetryHistory, NEW h \in Handlers, Work(h)
    PROVE  RetryHistory'
  <1> USE ConstantsAssumption
      DEF TypeOK, Statuses, RetryHistory, RetriesLeft, handlerVars, queueVars,
          taskVars, Goto, Return, Fault
  <1>1. ASSUME NEW t \in Tasks, Receive(h, t) PROVE RetryHistory'
    BY <1>1 DEF Receive, TakeMessage
  <1>2. ASSUME NEW t \in Tasks, ReceiveDuplicate(h, t) PROVE RetryHistory'
    BY <1>2 DEF ReceiveDuplicate, TakeMessage
  <1>3. CASE Claim(h)
    BY <1>3 DEF Claim, Claimable
  <1>4. CASE Recheck(h)
    BY <1>4 DEF Recheck
  <1>5. CASE DecideLost(h)
    <2>1. CASE MessageIsSpent(cur[h])
      BY <1>5, <2>1 DEF DecideLost
    <2>2. CASE ~MessageIsSpent(cur[h])
      BY <1>5, <2>2, SMTT(30) DEF DecideLost
    <2> QED
      BY <2>1, <2>2
  <1>6. CASE LoadJob(h)
    BY <1>6 DEF LoadJob
  <1>7. CASE LoadJobMissing(h)
    BY <1>7, HistoryFinish DEF LoadJobMissing, Terminal
  <1>8. CASE Heartbeat(h)
    BY <1>8 DEF Heartbeat
  <1>9. CASE HeartbeatQueueFails(h)
    BY <1>9 DEF HeartbeatQueueFails
  <1>10. CASE HeartbeatDbFails(h)
    BY <1>10 DEF HeartbeatDbFails
  <1>11. CASE FinishSuccess(h)
    BY <1>11, HistoryFinish DEF FinishSuccess, Terminal
  <1>12. CASE FinishFinalFailed(h)
    BY <1>12, HistoryFinish DEF FinishFinalFailed, Terminal
  <1>13. CASE FinishFailed(h)
    BY <1>13, HistoryFinish DEF FinishFailed, Terminal
  <1>14. ASSUME NEW c \in Tasks, MakeRetry(h, c) PROVE RetryHistory'
    BY <1>14 DEF MakeRetry, InsertTask, CarriedRetryCount, Free
  <1>15. CASE MakeRetryFails(h)
    BY <1>15 DEF MakeRetryFails
  <1>16. CASE SendRetry(h)
    BY <1>16 DEF SendRetry
  <1>17. CASE DeleteMessage(h)
    BY <1>17 DEF DeleteMessage
  <1>18. CASE Crash(h)
    BY <1>18 DEF Crash
  <1> QED
    BY <1>1, <1>2, <1>3, <1>4, <1>5, <1>6, <1>7, <1>8, <1>9, <1>10, <1>11,
       <1>12, <1>13, <1>14, <1>15, <1>16, <1>17, <1>18 DEF Work

LEMMA HistoryOthers ==
    ASSUME TypeOK, RetryHistory,
           Tick \/ (\E s \in Schedulers : Recover(s)) \/ UNCHANGED vars
    PROVE  RetryHistory'
  <1> USE DEF TypeOK, RetryHistory, RetriesLeft, vars, handlerVars, queueVars,
              taskVars
  <1>1. CASE Tick
    BY <1>1 DEF Tick
  <1>2. ASSUME NEW s \in Schedulers, RecoverList(s) \/ SchedulerCrash(s)
        PROVE  RetryHistory'
    BY <1>2 DEF RecoverList, SchedulerCrash
  <1>3. ASSUME NEW s \in Schedulers, NEW t \in Tasks, RecoverMark(s, t)
        PROVE  RetryHistory'
    BY <1>3 DEF RecoverMark, Exists
  <1>4. CASE UNCHANGED vars
    BY <1>4
  <1> QED
    BY <1>1, <1>2, <1>3, <1>4 DEF Recover

\* _handle_failure never exceeds the job's retry budget, whatever the timing,
\* the crashes and the number of times that one task was run.
THEOREM RetryBudgetKept == Spec => []RetryWithinBudget
  <1>1. Init => RetryHistory
    BY DEF Init, RetryHistory
  <1>2. TypeOK /\ RetryHistory /\ [Next]_vars => RetryHistory'
    BY HistoryProduce, HistoryWork, HistoryOthers DEF Next
  <1>3. RetryHistory => RetryWithinBudget
    BY DEF RetryHistory, RetryWithinBudget
  <1> QED
    BY <1>1, <1>2, <1>3, TypeCorrect, PTL DEF Spec

-----------------------------------------------------------------------------
(***************************************************************************)
(* Ownership, for workers that heartbeat on time and one scheduler.        *)
(*                                                                         *)
(* NoDoubleExecution is not inductive: that recovery returns no owned row  *)
(* to pending follows from OwnerHoldsLock and ListedStaysExpired together. *)
(* The other conjuncts follow the row past its outcome: the handler that   *)
(* wrote it and the message that brought it stay on a settled task, and    *)
(* no second handler is about to retry it.                                 *)
(***************************************************************************)

OneScheduler == \A s1, s2 \in Schedulers : s1 = s2

ReleasedIsSettled ==
    \A h \in Handlers : pc[h] \in {"sendRetry", "deleting"} => Settled(cur[h])

AboutToRetry ==
    /\ \A h \in Handlers : pc[h] = "mkRetry" =>
          /\ status[cur[h]] \in {"failed", "deleted"}
          /\ \A c \in Tasks : auto_retry_of[c] # cur[h]
    /\ \A h1, h2 \in Handlers :
          pc[h1] = "mkRetry" /\ pc[h2] = "mkRetry" /\ cur[h1] = cur[h2] => h1 = h2

\* RetriedOnce, with the reason for it: a retried task is never run again.
FailedIsRetried ==
    \A c \in Tasks : auto_retry_of[c] # None =>
        /\ status[auto_retry_of[c]] \in {"failed", "deleted"}
        /\ \A d \in Tasks : auto_retry_of[d] = auto_retry_of[c] => d = c

Ownership ==
    /\ OwnerHoldsLock
    /\ NoDoubleExecution
    /\ ListedStaysExpired
    /\ ReleasedIsSettled
    /\ MessageOutlivesWork
    /\ AboutToRetry
    /\ FailedIsRetried

LEMMA OwnershipInit == Init => Ownership
  BY ConstantsAssumption DEF Init, Ownership, OwnerHoldsLock, NoDoubleExecution,
     ListedStaysExpired, ReleasedIsSettled, MessageOutlivesWork, AboutToRetry,
     FailedIsRetried, Owns

LEMMA OwnershipProduce ==
    TypeOK /\ RetryHistory /\ Ownership /\ Produce => Ownership'
  <1> SUFFICES ASSUME TypeOK, RetryHistory, Ownership, Produce PROVE Ownership'
    OBVIOUS
  <1> USE ConstantsAssumption
      DEF TypeOK, RetryHistory, Ownership, OwnerHoldsLock, NoDoubleExecution,
          ListedStaysExpired, ReleasedIsSettled, MessageOutlivesWork,
          AboutToRetry, FailedIsRetried, Owns, IsExpired, Settled, Terminal,
          handlerVars, queueVars, taskVars, InsertTask, CarriedRetryCount, Free, Fault
  <1>1. ASSUME NEW t \in Tasks, NEW j \in Jobs, EnqueueTask(t, j)
        PROVE  Ownership'
    BY <1>1 DEF EnqueueTask
  <1>2. ASSUME NEW p \in Tasks, NEW t \in Tasks, RetryTask(p, t)
        PROVE  Ownership'
    BY <1>2 DEF RetryTask
  <1>3. ASSUME NEW t \in Tasks, SendTask(t) PROVE Ownership'
    BY <1>3 DEF SendTask
  <1>4. ASSUME NEW t \in Tasks, SendTaskFails(t) PROVE Ownership'
    BY <1>4 DEF SendTaskFails
  <1>5. ASSUME NEW j \in Jobs, DeleteJob(j) PROVE Ownership'
    BY <1>5 DEF DeleteJob, Exists
  <1> QED
    BY <1>1, <1>2, <1>3, <1>4, <1>5 DEF Produce

\* A handler that leaves the rows alone and goes to a place where it owns
\* nothing takes nothing away from the others.
LEMMA OwnershipLetGo ==
    ASSUME TypeOK, Ownership, NEW h \in Handlers,
           NEW place \in {"idle", "claiming", "recheck", "lost", "deleting"},
           UNCHANGED <<status, locked_by, lock_left, auto_retry_of, msg, expired>>,
           Goto(h, place),
           \A g \in Handlers \ {h} : cur'[g] = cur[g] /\ beat_in'[g] = beat_in[g],
           place = "deleting" => Settled(cur'[h])
    PROVE  Ownership'
  <1>1. pc'[h] = place /\ \A g \in Handlers \ {h} : pc'[g] = pc[g]
    BY DEF Goto, TypeOK
  <1>2. \A t \in Tasks : Settled(t)' <=> Settled(t)
    BY DEF Settled
  <1>3. \A g \in Handlers, t \in Tasks :
            Owns(g, t)' => /\ g # h /\ Owns(g, t)
                           /\ pc'[g] = pc[g] /\ beat_in'[g] = beat_in[g]
    BY <1>1 DEF Owns
  <1>4. OwnerHoldsLock'
    BY <1>3 DEF Ownership, OwnerHoldsLock
  <1>5. NoDoubleExecution'
    BY <1>3 DEF Ownership, NoDoubleExecution
  <1>6. ListedStaysExpired'
    BY DEF Ownership, ListedStaysExpired, IsExpired
  <1>7. ReleasedIsSettled'
    BY <1>1 DEF Ownership, ReleasedIsSettled, Settled
  <1>8. MessageOutlivesWork'
    BY DEF Ownership, MessageOutlivesWork, Settled
  <1>9. AboutToRetry' /\ FailedIsRetried'
    BY <1>1 DEF Ownership, AboutToRetry, FailedIsRetried
  <1> QED
    BY <1>4, <1>5, <1>6, <1>7, <1>8, <1>9 DEF Ownership

LEMMA OwnedIsNotExpired ==
    ASSUME TypeOK, Ownership, NEW h \in Handlers, NEW t \in Tasks, IsExpired(t)
    PROVE  ~Owns(h, t)
  BY ConstantsAssumption, HeartbeatBeforeExpiry
     DEF TypeOK, Ownership, OwnerHoldsLock, IsExpired, Owns

LEMMA OwnershipFinish ==
    ASSUME TypeOK, RetryHistory, Ownership, NEW h \in Handlers,
           pc[h] \in {"claimed", "executing"},
           NEW outcome \in Terminal, NEW place \in {"deleting", "mkRetry"},
           place = "mkRetry" => outcome = "failed", Finish(h, outcome, place)
    PROVE  Ownership'
  <1> DEFINE t == cur[h]
  <1>1. t \in Tasks /\ Owns(h, t)
    BY DEF TypeOK, Owns
  <1>2. CASE ~Exists(t)
    BY <1>2, OwnershipLetGo DEF TypeOK, Finish, Return, queueVars
  <1>3. CASE Exists(t)
    <2>1. status[t] = "running" /\ lock_left[t] > 0
      BY <1>1, <1>3, HeartbeatBeforeExpiry, ConstantsAssumption
         DEF Ownership, OwnerHoldsLock, Exists, TypeOK, Owns
    <2>2. \A g \in Handlers : Owns(g, t) => g = h
      BY <1>1 DEF Ownership, NoDoubleExecution
    <2> USE <1>1, <1>3, <2>1, <2>2
        DEF TypeOK, Finish, Goto, Owns, queueVars
    <2>3. \A g \in Handlers, u \in Tasks :
            Owns(g, u)' => /\ g # h /\ u # t /\ Owns(g, u)
                           /\ pc'[g] = pc[g] /\ beat_in'[g] = beat_in[g]
      OBVIOUS
    <2>8. OwnerHoldsLock'
      BY <2>3 DEF Ownership, OwnerHoldsLock
    <2>9. NoDoubleExecution'
      BY <2>3 DEF Ownership, NoDoubleExecution
    <2>4. ListedStaysExpired'
      BY DEF Ownership, ListedStaysExpired, IsExpired
    <2>5. ReleasedIsSettled' /\ MessageOutlivesWork'
      BY DEF Ownership, ReleasedIsSettled, MessageOutlivesWork, Settled, Terminal
    <2>6. FailedIsRetried'
      BY DEF Ownership, FailedIsRetried
    <2>7. AboutToRetry'
      <3>1. \A c \in Tasks : auto_retry_of[c] # t
        BY DEF Ownership, FailedIsRetried
      <3>2. \A g \in Handlers : pc[g] = "mkRetry" => g # h /\ cur[g] # t
        BY DEF Ownership, AboutToRetry
      <3>3. \A g \in Handlers : g # h => pc'[g] = pc[g]
        OBVIOUS
      <3> QED
        BY <3>1, <3>2, <3>3, ConstantsAssumption DEF Ownership, AboutToRetry
    <2> QED
      BY <2>4, <2>5, <2>6, <2>7, <2>8, <2>9 DEF Ownership
  <1> QED
    BY <1>2, <1>3

LEMMA OwnershipWork ==
    ASSUME ~BeatsFail, TypeOK, RetryHistory, Ownership, NEW h \in Handlers, Work(h)
    PROVE  Ownership'
  <1>1. ASSUME NEW t \in Tasks, Receive(h, t) PROVE Ownership'
    BY <1>1, OwnershipLetGo DEF Receive, TakeMessage, TypeOK, taskVars
  <1>2. ASSUME NEW t \in Tasks, ReceiveDuplicate(h, t) PROVE Ownership'
    BY <1>2, OwnershipLetGo DEF ReceiveDuplicate, TakeMessage, TypeOK, taskVars
  <1>3. CASE Claim(h)
    <2>1. CASE ~Claimable(cur[h])
      BY <1>3, <2>1, OwnershipLetGo DEF Claim, queueVars
    <2>2. CASE Claimable(cur[h])
      <3> DEFINE t == cur[h]
      <3>1. t \in Tasks /\ status[t] = "pending"
        BY <1>3, <2>2 DEF Claim, Claimable, TypeOK
      <3>2. \A g \in Handlers : ~Owns(g, t)
        BY <3>1 DEF Ownership, OwnerHoldsLock
      <3> USE <1>3, <2>2, <3>1, <3>2 DEF Claim, Claimable, Goto, TypeOK, queueVars
      <3>3. \A g \in Handlers, u \in Tasks :
              Owns(g, u)' => \/ g = h /\ u = t
                             \/ g # h /\ u # t /\ Owns(g, u) /\ pc'[g] = pc[g]
        BY DEF Owns
      <3>4. OwnerHoldsLock'
        BY <3>3, ConstantsAssumption DEF Ownership, OwnerHoldsLock
      <3>5. NoDoubleExecution'
        BY <3>3 DEF Ownership, NoDoubleExecution
      <3>6. ListedStaysExpired'
        BY DEF Ownership, ListedStaysExpired, IsExpired
      <3>7. ReleasedIsSettled' /\ MessageOutlivesWork'
        BY DEF Ownership, ReleasedIsSettled, MessageOutlivesWork, Settled, Terminal
      <3>8. AboutToRetry'
        BY DEF Ownership, AboutToRetry
      <3>9. FailedIsRetried'
        BY ConstantsAssumption DEF Ownership, FailedIsRetried
      <3> QED
        BY <3>4, <3>5, <3>6, <3>7, <3>8, <3>9 DEF Ownership
    <2> QED
      BY <2>1, <2>2
  <1>4. CASE Recheck(h)
    BY <1>4, OwnershipLetGo DEF Recheck, queueVars, taskVars
  <1>5. CASE DecideLost(h)
    <2>1. cur[h] \in Tasks /\ status[cur[h]] # "absent"
      BY <1>5 DEF DecideLost, TypeOK, RetryHistory
    <2>2. MessageIsSpent(cur[h]) => Settled(cur[h])
      BY <2>1 DEF MessageIsSpent, Exists, Settled
    <2>3. CASE MessageIsSpent(cur[h])
      BY <1>5, <2>2, <2>3, OwnershipLetGo
         DEF DecideLost, queueVars, taskVars, Settled
    <2>4. CASE ~MessageIsSpent(cur[h])
      BY <1>5, <2>4, OwnershipLetGo
         DEF DecideLost, Return, queueVars, taskVars, TypeOK
    <2> QED
      BY <2>3, <2>4
  <1> USE ConstantsAssumption, HeartbeatBeforeExpiry
      DEF TypeOK, RetryHistory, Ownership, OwnerHoldsLock, NoDoubleExecution,
          ListedStaysExpired, ReleasedIsSettled, MessageOutlivesWork,
          AboutToRetry, FailedIsRetried, Owns, IsExpired, Settled, Terminal,
          handlerVars, queueVars, taskVars, Goto, Return, Fault
  <1>6. CASE LoadJob(h)
    BY <1>6 DEF LoadJob
  <1>7. CASE LoadJobMissing(h)
    BY <1>7, OwnershipFinish DEF LoadJobMissing
  <1>8. CASE Heartbeat(h)
    BY <1>8 DEF Heartbeat, BeatDue, ExtendLock
  <1>9. CASE HeartbeatQueueFails(h)
    BY <1>9 DEF HeartbeatQueueFails, BeatDue, ExtendLock
  <1>10. CASE HeartbeatDbFails(h)
    BY <1>10 DEF HeartbeatDbFails
  <1>11. CASE FinishSuccess(h)
    BY <1>11, OwnershipFinish DEF FinishSuccess
  <1>12. CASE FinishFinalFailed(h)
    BY <1>12, OwnershipFinish DEF FinishFinalFailed
  <1>13. CASE FinishFailed(h)
    BY <1>13, OwnershipFinish DEF FinishFailed
  <1>14. ASSUME NEW c \in Tasks, MakeRetry(h, c) PROVE Ownership'
    BY <1>14 DEF MakeRetry, InsertTask, CarriedRetryCount, Free
  <1>15. CASE MakeRetryFails(h)
    BY <1>15 DEF MakeRetryFails
  <1>16. CASE SendRetry(h)
    BY <1>16 DEF SendRetry
  <1>17. CASE DeleteMessage(h)
    BY <1>17 DEF DeleteMessage
  <1>18. CASE Crash(h)
    BY <1>18 DEF Crash
  <1> QED
    BY <1>1, <1>2, <1>3, <1>4, <1>5, <1>6, <1>7, <1>8, <1>9, <1>10, <1>11,
       <1>12, <1>13, <1>14, <1>15, <1>16, <1>17, <1>18 DEF Work

LEMMA OwnershipTick ==
    ASSUME Timely, TypeOK, Ownership, Tick
    PROVE  Ownership'
  BY ConstantsAssumption, HeartbeatBeforeExpiry, SMTT(30)
     DEF TypeOK, Ownership, OwnerHoldsLock, NoDoubleExecution,
         ListedStaysExpired, ReleasedIsSettled, MessageOutlivesWork,
         AboutToRetry, FailedIsRetried, Owns, IsExpired, Settled, Terminal,
         Tick, Minus1, OnTime, BeatDue

\* Only the lists change.
LEMMA OwnershipList ==
    ASSUME TypeOK, Ownership, UNCHANGED <<taskVars, queueVars, handlerVars>>,
           ListedStaysExpired'
    PROVE  Ownership'
  BY DEF Ownership, OwnerHoldsLock, NoDoubleExecution, ReleasedIsSettled,
         MessageOutlivesWork, AboutToRetry, FailedIsRetried, Owns, Settled,
         taskVars, queueVars, handlerVars

LEMMA OwnershipRecover ==
    ASSUME OneScheduler, TypeOK, Ownership, NEW s \in Schedulers, Recover(s)
    PROVE  Ownership'
  <1>1. CASE RecoverList(s)
    <2>1. ListedStaysExpired'
      BY <1>1 DEF RecoverList, TypeOK, Ownership, ListedStaysExpired, IsExpired,
                  taskVars
    <2> QED
      BY <1>1, <2>1, OwnershipList DEF RecoverList
  <1>2. CASE SchedulerCrash(s)
    <2>1. ListedStaysExpired'
      BY <1>2 DEF SchedulerCrash, TypeOK, Ownership, ListedStaysExpired,
                  IsExpired, taskVars
    <2> QED
      BY <1>2, <2>1, OwnershipList DEF SchedulerCrash
  <1>3. ASSUME NEW t \in Tasks, RecoverMark(s, t) PROVE Ownership'
    <2>1. \A r \in Schedulers : r = s
      BY DEF OneScheduler
    <2>2. CASE ~Exists(t)
      <3>1. ListedStaysExpired'
        BY <1>3, <2>2 DEF RecoverMark, TypeOK, Ownership, ListedStaysExpired,
                          IsExpired
      <3> QED
        BY <1>3, <2>2, <3>1, OwnershipList DEF RecoverMark, taskVars
    <2>3. CASE Exists(t)
      <3>1. IsExpired(t)
        BY <1>3, <2>3 DEF RecoverMark, Exists, Ownership, ListedStaysExpired
      <3>2. status[t] = "running" /\ \A h \in Handlers : ~Owns(h, t)
        BY <3>1, OwnedIsNotExpired DEF IsExpired
      <3> USE <1>3, <2>3, <3>2 DEF RecoverMark, TypeOK, queueVars, handlerVars
      <3>3. OwnerHoldsLock'
        BY DEF Ownership, OwnerHoldsLock, Owns
      <3>4. NoDoubleExecution'
        BY DEF Ownership, NoDoubleExecution, Owns
      <3>5. ListedStaysExpired'
        BY <2>1 DEF Ownership, ListedStaysExpired, IsExpired
      <3>6. ReleasedIsSettled' /\ MessageOutlivesWork'
        BY DEF Ownership, ReleasedIsSettled, MessageOutlivesWork, Settled, Terminal
      <3>7. AboutToRetry'
        BY DEF Ownership, AboutToRetry
      <3>8. FailedIsRetried'
        BY ConstantsAssumption DEF Ownership, FailedIsRetried
      <3> QED
        BY <3>3, <3>4, <3>5, <3>6, <3>7, <3>8 DEF Ownership
    <2> QED
      BY <2>2, <2>3
  <1> QED
    BY <1>1, <1>2, <1>3 DEF Recover

LEMMA OwnershipStutter ==
    ASSUME Ownership, UNCHANGED vars PROVE Ownership'
  BY DEF Ownership, OwnerHoldsLock, NoDoubleExecution, ListedStaysExpired,
         ReleasedIsSettled, MessageOutlivesWork, AboutToRetry, FailedIsRetried,
         Owns, IsExpired, Settled, vars, taskVars, queueVars, handlerVars

LEMMA OwnershipInvariant ==
    ASSUME Timely, ~BeatsFail, OneScheduler
    PROVE  Spec => [](TypeOK /\ RetryHistory /\ Ownership)
  <1>1. Init => RetryHistory
    BY DEF Init, RetryHistory
  <1>2. TypeOK /\ RetryHistory /\ [Next]_vars => RetryHistory'
    BY HistoryProduce, HistoryWork, HistoryOthers DEF Next
  <1>3. TypeOK /\ RetryHistory /\ Ownership /\ [Next]_vars => Ownership'
    BY OwnershipProduce, OwnershipWork, OwnershipRecover, OwnershipTick,
       OwnershipStutter DEF Next
  <1> QED
    BY OwnershipInit, <1>1, <1>2, <1>3, TypeCorrect, PTL DEF Spec

\* Two workers never run the same task, through crashes, duplicate deliveries,
\* lost heartbeats of the message, job deletions and orphan recovery, as long
\* as live workers heartbeat on time and one scheduler recovers.  The claim's
\* conditional UPDATE alone does not give this.
THEOREM ExecutionIsExclusive ==
    ASSUME Timely, ~BeatsFail, OneScheduler
    PROVE  Spec => []NoDoubleExecution
  <1>1. Ownership => NoDoubleExecution
    BY DEF Ownership
  <1> QED
    BY <1>1, OwnershipInvariant, PTL

\* Under the same assumptions the lock of a task that is being run belongs to its
\* worker and outlasts the time to the next heartbeat.
THEOREM OwnerKeepsLock ==
    ASSUME Timely, ~BeatsFail, OneScheduler
    PROVE  Spec => []OwnerHoldsLock
  <1>1. Ownership => OwnerHoldsLock
    BY DEF Ownership
  <1> QED
    BY <1>1, OwnershipInvariant, PTL

\* Under the same assumptions a row that recover_orphans has listed is still an
\* orphan when it is marked, although it is written by its id alone.
THEOREM RecoveryIsCurrent ==
    ASSUME Timely, ~BeatsFail, OneScheduler
    PROVE  Spec => []ListedStaysExpired
  <1>1. Ownership => ListedStaysExpired
    BY DEF Ownership
  <1> QED
    BY <1>1, OwnershipInvariant, PTL

\* Under the same assumptions a message is deleted only when its task is
\* terminal or gone, so an unfinished task can always be delivered again.
THEOREM MessageIsRetained ==
    ASSUME Timely, ~BeatsFail, OneScheduler
    PROVE  Spec => []MessageOutlivesWork
  <1>1. Ownership => MessageOutlivesWork
    BY DEF Ownership
  <1> QED
    BY <1>1, OwnershipInvariant, PTL

\* Under the same assumptions _handle_failure retries a task at most once.
THEOREM RetryIsUnique ==
    ASSUME Timely, ~BeatsFail, OneScheduler
    PROVE  Spec => []RetriedOnce
  <1>1. Ownership => RetriedOnce
    BY DEF Ownership, FailedIsRetried, RetriedOnce
  <1> QED
    BY <1>1, OwnershipInvariant, PTL

-----------------------------------------------------------------------------
\* One task's status along the edges of task-states.puml.
LegalStep(t) ==
    status'[t] # status[t] =>
        \/ <<status[t], status'[t]>> \in LegalEdges
        \/ status[t] = "absent" /\ status'[t] = "pending"
        \/ Exists(t) /\ status'[t] = "deleted"

LEMMA LegalFinish ==
    ASSUME TypeOK, RetryHistory, Ownership, NEW h \in Handlers,
           pc[h] \in {"claimed", "executing"}, NEW outcome \in Terminal,
           NEW place, Finish(h, outcome, place), NEW t \in Tasks
    PROVE  LegalStep(t)
  <1>1. cur[h] \in Tasks /\ Owns(h, cur[h])
    BY DEF TypeOK, Owns
  <1>2. Exists(cur[h]) => status[cur[h]] = "running"
    BY <1>1 DEF Ownership, OwnerHoldsLock, Exists
  <1> QED
    BY <1>1, <1>2 DEF LegalStep, LegalEdges, Finish, Terminal, TypeOK

LEMMA LegalNext ==
    ASSUME OneScheduler, TypeOK, RetryHistory, Ownership, Next, NEW t \in Tasks
    PROVE  LegalStep(t)
  <1>1. CASE Produce
    <2> USE DEF TypeOK, LegalStep, taskVars
    <2>1. ASSUME NEW u \in Tasks, NEW j, NEW n, InsertTask(u, j, n)
          PROVE  LegalStep(t)
      BY <2>1 DEF InsertTask, CarriedRetryCount, Free
    <2>2. ASSUME NEW j \in Jobs, DeleteJob(j) PROVE LegalStep(t)
      BY <2>2 DEF DeleteJob
    <2> QED
      BY <1>1, <2>1, <2>2
         DEF Produce, EnqueueTask, RetryTask, SendTask, SendTaskFails
  <1>2. ASSUME NEW h \in Handlers, Work(h) PROVE LegalStep(t)
    <2>1. CASE Claim(h)
      BY <2>1 DEF Claim, Claimable, TypeOK, LegalStep, LegalEdges
    <2>2. CASE LoadJobMissing(h)
      BY <2>2, LegalFinish DEF LoadJobMissing, Terminal
    <2>3. CASE FinishSuccess(h)
      BY <2>3, LegalFinish DEF FinishSuccess, Terminal
    <2>4. CASE FinishFinalFailed(h)
      BY <2>4, LegalFinish DEF FinishFinalFailed, Terminal
    <2>5. CASE FinishFailed(h)
      BY <2>5, LegalFinish DEF FinishFailed, Terminal
    <2>6. ASSUME NEW c \in Tasks, MakeRetry(h, c) PROVE LegalStep(t)
      BY <2>6 DEF MakeRetry, InsertTask, CarriedRetryCount, Free, TypeOK, LegalStep
    <2> QED
      BY <1>2, <2>1, <2>2, <2>3, <2>4, <2>5, <2>6
         DEF Work, Receive, ReceiveDuplicate, TakeMessage, Recheck, DecideLost,
             LoadJob, Heartbeat, HeartbeatQueueFails, HeartbeatDbFails,
             MakeRetryFails, SendRetry, DeleteMessage, Crash, taskVars, LegalStep
  <1>3. ASSUME NEW s \in Schedulers, Recover(s) PROVE LegalStep(t)
    <2>1. ASSUME NEW u \in Tasks, RecoverMark(s, u) PROVE LegalStep(t)
      BY <2>1 DEF RecoverMark, Ownership, ListedStaysExpired, IsExpired, Exists,
                  TypeOK, LegalStep, LegalEdges
    <2> QED
      BY <1>3, <2>1 DEF Recover, RecoverList, SchedulerCrash, taskVars, LegalStep
  <1>4. CASE Tick
    BY <1>4 DEF Tick, LegalStep
  <1> QED
    BY <1>1, <1>2, <1>3, <1>4 DEF Next

\* Under the same assumptions every task moves along the edges of
\* docs/diagrams/task-states.puml only: no slow worker and no old recovery list
\* reopens a terminal task.
THEOREM TransitionsAreLegal ==
    ASSUME Timely, ~BeatsFail, OneScheduler
    PROVE  Spec => LegalTransitions
  <1>1. TypeOK /\ RetryHistory /\ Ownership /\ [Next]_vars
            => [\A t \in Tasks : LegalStep(t)]_vars
    BY LegalNext
  <1>2. Spec => [][\A t \in Tasks : LegalStep(t)]_vars
    BY <1>1, OwnershipInvariant, PTL DEF Spec
  <1> QED
    BY <1>2 DEF LegalTransitions, LegalStep

-----------------------------------------------------------------------------
(***************************************************************************)
(* TaskLifecycle implements TaskPromise, step by step: the refinement maps *)
(* status to itself and `runs` to the set of handlers that own the task.   *)
(***************************************************************************)

\* Nobody starts or stops running a task, and no row changes.
LEMMA PromiseStutter ==
    ASSUME UNCHANGED status,
           \A g \in Handlers, u \in Tasks : Owns(g, u)' <=> Owns(g, u)
    PROVE  UNCHANGED Promise!promiseVars
  BY DEF Promise!promiseVars, running

LEMMA OwnedByOne ==
    ASSUME Ownership, NEW h \in Handlers, NEW t \in Tasks, Owns(h, t)
    PROVE  running[t] = {h}
  BY DEF Ownership, NoDoubleExecution, running

LEMMA OwnerLeaves ==
    ASSUME NEW h \in Handlers, NEW t \in Tasks, running[t] = {h},
           \A u \in Tasks : u # t => ~Owns(h, u),
           \A g \in Handlers, u \in Tasks : Owns(g, u)' <=> Owns(g, u) /\ g # h
    PROVE  running' = [running EXCEPT ![t] = {}]
  <1>1. \A g \in Handlers : Owns(g, t) => g = h
    BY DEF running
  <1>2. {g \in Handlers : Owns(g, t)'} = {}
    BY <1>1
  <1>3. \A u \in Tasks : u # t =>
            {g \in Handlers : Owns(g, u)'} = {g \in Handlers : Owns(g, u)}
    OBVIOUS
  <1>4. \A u \in Tasks : running'[u] = IF u = t THEN {} ELSE running[u]
    BY <1>2, <1>3 DEF running
  <1>5. /\ running = [u \in Tasks |-> running[u]]
        /\ running' = [u \in Tasks |-> running'[u]]
    BY DEF running
  <1> QED
    BY <1>4, <1>5

\* A handler stops running its task; the row is left alone.
LEMMA PromiseLose ==
    ASSUME TypeOK, Ownership, UNCHANGED status, NEW h \in Handlers,
           pc' = [pc EXCEPT ![h] = "idle"], cur' = [cur EXCEPT ![h] = None]
    PROVE  [Promise!Next]_(Promise!promiseVars)
  <1>1. \A g \in Handlers, u \in Tasks : Owns(g, u)' <=> Owns(g, u) /\ g # h
    BY DEF Owns, TypeOK
  <1>2. CASE pc[h] \notin {"claimed", "executing"}
    BY <1>1, <1>2, PromiseStutter DEF Owns
  <1>3. CASE pc[h] \in {"claimed", "executing"}
    <2> DEFINE t == cur[h]
    <2>1. t \in Tasks /\ Owns(h, t)
      BY <1>3 DEF TypeOK, Owns
    <2>2. running[t] = {h}
      BY <2>1, OwnedByOne
    <2>3. \A u \in Tasks : u # t => ~Owns(h, u)
      BY DEF Owns
    <2>4. running' = [running EXCEPT ![t] = {}]
      BY <1>1, <2>1, <2>2, <2>3, OwnerLeaves
    <2>5. Promise!Lose(h, t)
      BY <2>2, <2>4 DEF Promise!Lose
    <2> QED
      BY <2>1, <2>5 DEF Promise!Next
  <1> QED
    BY <1>2, <1>3

LEMMA PromiseFinish ==
    ASSUME TypeOK, RetryHistory, Ownership, NEW h \in Handlers,
           pc[h] \in {"claimed", "executing"}, NEW outcome \in Terminal,
           NEW place \in {"deleting", "mkRetry"}, Finish(h, outcome, place)
    PROVE  [Promise!Next]_(Promise!promiseVars)
  <1> DEFINE t == cur[h]
  <1>1. t \in Tasks /\ Owns(h, t)
    BY DEF TypeOK, Owns
  <1>2. running[t] = {h}
    BY <1>1, OwnedByOne
  <1>3. CASE ~Exists(t)
    BY <1>3, PromiseLose DEF Finish, Return, Goto
  <1>4. CASE Exists(t)
    <2>1. status[t] = "running"
      BY <1>1, <1>4 DEF Ownership, OwnerHoldsLock, Exists
    <2>2. \A g \in Handlers, u \in Tasks : Owns(g, u)' <=> Owns(g, u) /\ g # h
      BY <1>4 DEF Finish, Goto, Owns, TypeOK
    <2>3. \A u \in Tasks : u # t => ~Owns(h, u)
      BY DEF Owns
    <2>4. running' = [running EXCEPT ![t] = {}]
      BY <1>1, <1>2, <2>2, <2>3, OwnerLeaves
    <2>5. Promise!Complete(h, t, outcome)
      BY <1>2, <1>4, <2>1, <2>4 DEF Promise!Complete, Finish
    <2>6. outcome \in Promise!Outcomes
      BY DEF Promise!Outcomes, Terminal
    <2> QED
      BY <1>1, <2>5, <2>6 DEF Promise!Next
  <1> QED
    BY <1>3, <1>4

LEMMA PromiseClaim ==
    ASSUME TypeOK, Ownership, NEW h \in Handlers, Claim(h)
    PROVE  [Promise!Next]_(Promise!promiseVars)
  <1> DEFINE t == cur[h]
  <1>1. CASE ~Claimable(t)
    <2>1. \A g \in Handlers, u \in Tasks : Owns(g, u)' <=> Owns(g, u)
      BY <1>1 DEF Claim, Goto, Owns, TypeOK
    <2> QED
      BY <1>1, <2>1, PromiseStutter DEF Claim
  <1>2. CASE Claimable(t)
    <2>1. t \in Tasks /\ status[t] = "pending"
      BY <1>2 DEF Claim, Claimable, TypeOK
    <2>2. \A g \in Handlers : ~Owns(g, t)
      BY <2>1 DEF Ownership, OwnerHoldsLock
    <2>3. running[t] = {}
      BY <2>1, <2>2 DEF running
    <2>4. \A g \in Handlers, u \in Tasks :
              Owns(g, u)' <=> Owns(g, u) \/ (g = h /\ u = t)
      BY <1>2 DEF Claim, Claimable, Goto, Owns, TypeOK
    <2>5. running' = [running EXCEPT ![t] = {h}]
      BY <2>1, <2>2, <2>4 DEF running
    <2>6. Promise!Start(h, t)
      BY <1>2, <2>1, <2>3, <2>5 DEF Promise!Start, Claim, Claimable
    <2> QED
      BY <2>1, <2>6 DEF Promise!Next
  <1> QED
    BY <1>1, <1>2

LEMMA PromiseInsert ==
    ASSUME NEW t \in Tasks, NEW j, NEW n, InsertTask(t, j, n),
           \A g \in Handlers, u \in Tasks : Owns(g, u)' <=> Owns(g, u)
    PROVE  [Promise!Next]_(Promise!promiseVars)
  <1>1. UNCHANGED running
    BY DEF running
  <1>2. Promise!Create(t)
    BY <1>1 DEF Promise!Create, InsertTask, Free
  <1> QED
    BY <1>2 DEF Promise!Next

LEMMA PromiseProduce ==
    ASSUME TypeOK, Ownership, Produce
    PROVE  [Promise!Next]_(Promise!promiseVars)
  <1>1. \A g \in Handlers, u \in Tasks : Owns(g, u)' <=> Owns(g, u)
    BY DEF Produce, EnqueueTask, RetryTask, SendTask, SendTaskFails, DeleteJob,
           handlerVars, Owns
  <1>2. ASSUME NEW t \in Tasks, NEW j \in Jobs, EnqueueTask(t, j)
        PROVE  [Promise!Next]_(Promise!promiseVars)
    BY <1>1, <1>2, PromiseInsert DEF EnqueueTask
  <1>3. ASSUME NEW p \in Tasks, NEW t \in Tasks, RetryTask(p, t)
        PROVE  [Promise!Next]_(Promise!promiseVars)
    BY <1>1, <1>3, PromiseInsert DEF RetryTask
  <1>4. ASSUME NEW t \in Tasks, SendTask(t) \/ SendTaskFails(t)
        PROVE  [Promise!Next]_(Promise!promiseVars)
    BY <1>1, <1>4, PromiseStutter DEF SendTask, SendTaskFails, taskVars
  <1>5. ASSUME NEW j \in Jobs, DeleteJob(j)
        PROVE  [Promise!Next]_(Promise!promiseVars)
    <2> DEFINE gone == {t \in Tasks : Exists(t) /\ job_id[t] = j}
    <2>1. UNCHANGED running
      BY <1>1 DEF running
    <2>2. Promise!Delete(gone)
      BY <1>5, <2>1 DEF Promise!Delete, DeleteJob, Exists
    <2>3. gone \in SUBSET Tasks
      OBVIOUS
    <2> QED
      BY <2>2, <2>3 DEF Promise!Next
  <1> QED
    BY <1>2, <1>3, <1>4, <1>5 DEF Produce

LEMMA PromiseWork ==
    ASSUME TypeOK, RetryHistory, Ownership, NEW h \in Handlers, Work(h)
    PROVE  [Promise!Next]_(Promise!promiseVars)
  <1>1. CASE Claim(h)
    BY <1>1, PromiseClaim
  <1>2. CASE LoadJobMissing(h)
    BY <1>2, PromiseFinish DEF LoadJobMissing, Terminal
  <1>3. CASE FinishSuccess(h)
    BY <1>3, PromiseFinish DEF FinishSuccess, Terminal
  <1>4. CASE FinishFinalFailed(h)
    BY <1>4, PromiseFinish DEF FinishFinalFailed, Terminal
  <1>5. CASE FinishFailed(h)
    BY <1>5, PromiseFinish DEF FinishFailed, Terminal
  <1>6. ASSUME NEW c \in Tasks, MakeRetry(h, c)
        PROVE  [Promise!Next]_(Promise!promiseVars)
    <2>1. \A g \in Handlers, u \in Tasks : Owns(g, u)' <=> Owns(g, u)
      BY <1>6 DEF MakeRetry, Goto, Owns, TypeOK
    <2> QED
      BY <1>6, <2>1, PromiseInsert DEF MakeRetry
  <1>7. CASE Crash(h)
    BY <1>7, PromiseLose DEF Crash, Return, Goto, taskVars
  <1>8. ASSUME NEW t \in Tasks, Receive(h, t) \/ ReceiveDuplicate(h, t)
        PROVE  [Promise!Next]_(Promise!promiseVars)
    <2>1. \A g \in Handlers, u \in Tasks : Owns(g, u)' <=> Owns(g, u)
      BY <1>8 DEF Receive, ReceiveDuplicate, TakeMessage, Goto, Owns, TypeOK
    <2> QED
      BY <1>8, <2>1, PromiseStutter
         DEF Receive, ReceiveDuplicate, TakeMessage, taskVars
  <1>9. CASE \/ Recheck(h) \/ DecideLost(h) \/ LoadJob(h) \/ Heartbeat(h)
             \/ HeartbeatQueueFails(h) \/ HeartbeatDbFails(h)
             \/ MakeRetryFails(h) \/ SendRetry(h) \/ DeleteMessage(h)
    <2>1. UNCHANGED status
      BY <1>9 DEF Recheck, DecideLost, LoadJob, Heartbeat, HeartbeatQueueFails,
                  HeartbeatDbFails, MakeRetryFails, SendRetry, DeleteMessage,
                  taskVars
    <2>2. CASE DecideLost(h) \/ MakeRetryFails(h) \/ DeleteMessage(h)
      BY <2>1, <2>2, PromiseStutter
         DEF DecideLost, MakeRetryFails, DeleteMessage, Return, Goto, Owns, TypeOK
    <2>3. CASE \/ Recheck(h) \/ LoadJob(h) \/ Heartbeat(h)
               \/ HeartbeatQueueFails(h) \/ HeartbeatDbFails(h) \/ SendRetry(h)
      BY <2>1, <2>3, PromiseStutter
         DEF Recheck, LoadJob, Heartbeat, HeartbeatQueueFails, HeartbeatDbFails,
             SendRetry, Goto, Owns, TypeOK
    <2> QED
      BY <1>9, <2>2, <2>3
  <1> QED
    BY <1>1, <1>2, <1>3, <1>4, <1>5, <1>6, <1>7, <1>8, <1>9 DEF Work

LEMMA PromiseRecover ==
    ASSUME TypeOK, Ownership, NEW s \in Schedulers, Recover(s)
    PROVE  [Promise!Next]_(Promise!promiseVars)
  <1>1. \A g \in Handlers, u \in Tasks : Owns(g, u)' <=> Owns(g, u)
    BY DEF Recover, RecoverList, RecoverMark, SchedulerCrash, handlerVars, Owns
  <1>2. ASSUME NEW t \in Tasks, RecoverMark(s, t), Exists(t)
        PROVE  [Promise!Next]_(Promise!promiseVars)
    <2>1. IsExpired(t)
      BY <1>2 DEF RecoverMark, Exists, Ownership, ListedStaysExpired
    <2>2. running[t] = {}
      BY <2>1, OwnedIsNotExpired DEF running
    <2>3. UNCHANGED running
      BY <1>1 DEF running
    <2>4. Promise!Reclaim(t)
      BY <1>2, <2>1, <2>2, <2>3 DEF Promise!Reclaim, RecoverMark, IsExpired
    <2> QED
      BY <2>4 DEF Promise!Next
  <1>3. CASE UNCHANGED status
    BY <1>1, <1>3, PromiseStutter
  <1> QED
    BY <1>2, <1>3 DEF Recover, RecoverList, RecoverMark, SchedulerCrash, taskVars

\* With workers that heartbeat on time and one scheduler, the task table, the
\* queue, the workers and the recovery implement the promise: exclusive runs,
\* one outcome per run, and no reclaim from a worker that is still alive.
THEOREM PromiseIsKept ==
    ASSUME Timely, ~BeatsFail, OneScheduler
    PROVE  Spec => KeepsPromise
  <1>1. Init => Promise!Init
    BY ConstantsAssumption DEF Init, Promise!Init, running, Owns
  <1>2. TypeOK /\ RetryHistory /\ Ownership /\ [Next]_vars
            => [Promise!Next]_(Promise!promiseVars)
    <2> SUFFICES ASSUME TypeOK, RetryHistory, Ownership, [Next]_vars
                 PROVE  [Promise!Next]_(Promise!promiseVars)
      OBVIOUS
    <2>1. CASE Tick \/ UNCHANGED vars
      BY <2>1, PromiseStutter DEF Tick, vars, taskVars, handlerVars, Owns
    <2> QED
      BY <2>1, PromiseProduce, PromiseWork, PromiseRecover DEF Next
  <1> QED
    BY <1>1, <1>2, OwnershipInvariant, PTL DEF Spec, KeepsPromise, Promise!Spec

=============================================================================
