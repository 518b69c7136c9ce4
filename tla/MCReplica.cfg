SPECIFICATION Spec
CONSTANTS
    ClaimSeconds = 5
    HeartbeatInterval = 3
    Interval = 2
    HealthTTL = 3
    MaxLag = 1
    MaxOutages = 2
INVARIANTS TypeOK RecoversOnlyOrphans DeadReplicaIsLeft
PROPERTY OrphanIsRecovered
