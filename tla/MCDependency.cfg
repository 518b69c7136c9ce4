SPECIFICATION Spec
CONSTANTS
    a = a
    b = b
    c = c
    Jobs = {a, b, c}
    Graphs <- Joins
    Later = {c}
    Batch = 1
    MaxTriggers = 2
    MaxUpdates = 2
    MaxFaults = 1
INVARIANTS TypeOK OncePerGeneration RunsAfterAllUpstreams NothingLeftWaiting
PROPERTY WaitingJobIsChained
CHECK_DEADLOCK FALSE
