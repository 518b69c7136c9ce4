SPECIFICATION Spec
CONSTANTS
    Queues = {"normal", "retry"}
    MIN_VMS = 1
    MAX_VMS = 3
    DEPTH_PER_VM = 2
    Baseline = 1
    MaxDepth = 4
    MaxChanges = 3
    MaxFaults = 2
INVARIANTS TypeOK WithinMax NeverBelowNeed
PROPERTY FleetConverges
