SPECIFICATION Spec
CONSTANTS
    Jobs = {j1}
    Periods = {2, 3}
    Forbid = {j1}
    Schedulers = {s1}
    Overlap = 2
    Interval = 2
    HasReplica = TRUE
    TxnTime = 1
    MaxLag = 1
    Edits = {"create", "cron", "one_time", "enable", "disable", "delete"}
    FaultKinds = {"update"}
    MaxTime = 4
    MaxEdits = 2
    MaxFaults = 1
    None = None
INVARIANTS
    TypeOK
    ChangesStayVisible
    FiresForward
