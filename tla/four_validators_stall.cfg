CONSTANTS
    v0 = v0
    v1 = v1
    v2 = v2
    v3 = v3
    o1 = o1
    o2 = o2
    Nodes = {v0, v1, v2, v3}
    Keyed = {v0, v1, v2, v3}
    Restarting = {}
    NumValidators = 4
    Validators <- FourValidators
    Bodies = {0}
    Nil = Nil
    MaxRound = 2
    MaxHeight = 1
SPECIFICATION FairSpec
PROPERTIES EventuallyCommits
CHECK_DEADLOCK FALSE
