SPECIFICATION Spec
CONSTANTS
    j1 = j1  j2 = j2  t1 = t1  t2 = t2  h1 = h1  h2 = h2
    s1 = s1  w1 = w1  w2 = w2
    None = None
    Jobs <- TwoJobs
    Tasks <- TwoTasks
    Handlers <- TwoHandlers
    Schedulers <- OneScheduler
    WorkerIds <- TwoWorkers
    WorkerIdOf <- SharedWorkerId
    MaxRetries <- MixedRetries
    ClaimSeconds = 2
    LookupAttempts = 1
    MaxEnqueued = 2
    MaxFaults = 2
    BeatsFail = FALSE
    Timely = TRUE
SYMMETRY Symmetry
CHECK_DEADLOCK FALSE
INVARIANTS TypeOK NoDoubleExecution OwnerHoldsLock ListedStaysExpired MessageOutlivesWork
           RetryWithinBudget
PROPERTIES LegalTransitions KeepsPromise
