SPECIFICATION Spec
CONSTANTS
    a = a
    b = b
    c = c
    Jobs = {a, b, c}
    Graphs <- TriangleOnly
    Later = {}
    Batch = 1
    MaxTriggers = 2
    MaxUpdates = 0
    MaxFaults = 0
INVARIANT EveryGenerationRuns
CHECK_DEADLOCK FALSE
