SPECIFICATION Spec
CONSTANTS
    a = a
    b = b
    c = c
    conf1 = conf1
    conf2 = conf2
    Jobs = {a, b, c}
    Seed = {a, b}
    Slots = {1, 2}
    Creates <- MCCreates
    Updates <- MCUpdates
    Fits <- MCFits
    MaxCommits = 3
INVARIANTS TypeOK GraphIsAcyclic SpecMatchesAction
CHECK_DEADLOCK FALSE
