SPECIFICATION Spec
CONSTANTS
    Jobs = {j1}
    Periods = {2, 3}
    Forbid = {}
    Schedulers = {s1}
    Overlap = 2
    Interval = 0
    HasReplica = FALSE
    TxnTime = 1
    MaxLag = 0
    Edits = {"delete"}
    FaultKinds = {}
    MaxTime = 6
    MaxEdits = 1
    MaxFaults = 0
    None = None
INVARIANTS
    EditsStick
