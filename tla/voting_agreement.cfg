CONSTANTS
    v0 = v0
    v1 = v1
    v2 = v2
    v3 = v3
    v4 = v4
    o1 = o1
    Nodes = {v0, v1, v2, v3, v4, o1}
    Keyed = {v0, v1, v2, v3, v4, o1}
    Restarting = {v0}
    NumValidators = 5
    Validators <- FiveValidators
    Bodies = {0}
    Nil = Nil
    MaxRound = 2
    MaxHeight = 1
SYMMETRY FollowerSymmetry
CONSTRAINTS
    WithinRounds
    OneContradiction
SPECIFICATION Spec
INVARIANTS
    Agreement
    NoEquivocation
    LockRespected
    PolkaBlocksEarlierDecision
CHECK_DEADLOCK FALSE
