SPECIFICATION FairSpec
CONSTANTS
    Jobs = {j1, j2}
    Periods = {2}
    Forbid = {j1}
    Schedulers = {s1, s2}
    Overlap = 2
    Interval = 0
    HasReplica = FALSE
    TxnTime = 1
    MaxLag = 0
    Edits = {}
    FaultKinds = {"call", "crash", "session"}
    MaxTime = 4
    MaxEdits = 0
    MaxFaults = 2
    None = None
INVARIANTS
    FiresForward
    
    OneActiveScheduler

    
