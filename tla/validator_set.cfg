CONSTANTS
    Keys = {1, 2, 3, 4}
    Stakes = {2000000}
    ActiveCap = 2
    MinStake = 1000000
    MaxPower = 2
    GenesisFiles <- MCGenesisFiles
    CurvePoints = {1, 2, 3}
SPECIFICATION BootSpec
CHECK_DEADLOCK FALSE
INVARIANTS
    ActiveWithinCap
    ProposersByPower
PROPERTIES
    RotationSettles
    RotationIsJust
    RotationEnds
    
