CONSTANTS
    v0 = v0
    v1 = v1
    v2 = v2
    v3 = v3
    o1 = o1
    o2 = o2
    Nodes = {v0, o1, o2}
    Keyed = {v0, o1, o2}
    Restarting = {v0}
    NumValidators = 1
    Validators <- OneValidator
    Bodies = {0, 1}
    Nil = Nil
    MaxRound = 2
    MaxHeight = 2
CONSTRAINT TwoBlocks
SPECIFICATION TimedSpec
INVARIANTS
    ProposeIsTimed
    CountsOnlyCurrentVotes
    ValidCoversLock
PROPERTIES
    ImplementsVoting
    ProposePhaseEnds
CHECK_DEADLOCK FALSE
