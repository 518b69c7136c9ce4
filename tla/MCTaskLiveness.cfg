SPECIFICATION FairSpec
CONSTANTS
    j1 = j1  j2 = j2  t1 = t1  t2 = t2  h1 = h1  h2 = h2
    s1 = s1  w1 = w1  w2 = w2
    None = None
    Jobs <- OneJob
    Tasks <- OneTask
    Handlers <- TwoHandlers
    Schedulers <- OneScheduler
    WorkerIds <- TwoWorkers
    WorkerIdOf <- SharedWorkerId
    MaxRetries <- NoRetry
    ClaimSeconds = 2
    LookupAttempts = 2
    MaxEnqueued = 1
    MaxFaults = 3
    BeatsFail = TRUE
    Timely = FALSE
CHECK_DEADLOCK FALSE
PROPERTY QueuedTaskSettles
