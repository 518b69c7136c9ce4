-------------------------- MODULE MCTaskLifecycle --------------------------
(* Small instances of TaskLifecycle for TLC. *)
EXTENDS TaskLifecycle, TLC

CONSTANTS j1, j2, t1, t2, h1, h2, s1, w1, w2

OneJob == {j1}
TwoJobs == {j1, j2}
OneTask == {t1}
TwoTasks == {t1, t2}
TwoHandlers == {h1, h2}
OneScheduler == {s1}
TwoWorkers == {w1, w2}

\* The hardest case of docker-compose: replicas share one worker_id.
SharedWorkerId == (h1 :> w1 @@ h2 :> w1)

\* With two ids a retry beyond the budget of j1 and one within that of j2 both fit.
MixedRetries == (j1 :> 0 @@ j2 :> 1)
NoRetry == (j1 :> 0)

\* Sound with SharedWorkerId: the constants do not tell ids or handlers apart.
Symmetry == Permutations(Tasks) \cup Permutations(Handlers)
=============================================================================
