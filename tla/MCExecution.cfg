SPECIFICATION Spec
CONSTANTS
    Backends = {"docker", "kubernetes"}
    Timeout = 3
    Grace = 3
    PollInterval = 2
    MaxDelay = 2
    TermGrace = 3
INVARIANT LeftoverIsDoomed
PROPERTY CallReturns
CHECK_DEADLOCK FALSE
