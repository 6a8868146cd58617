CONSTANTS
    s = s
    c1 = c1
    c2 = c2
    dev = dev
    Stakers = {s}
    Delegations = {}
    Amounts = {3650, 7300}
    Tiers = {"ThirtyDay", "Permanent"}
    Epochs = {0, 30}
    MaxEntries = 3
    MaxU64 = 100000
    TargetGas = 4
    Elasticity = 2
    FeeFloor = 2
    FeeMax = 40
    Bps = 100
    Contracts = {c1, c2}
    Deployer <- MCDeployer
    FeeAmounts = {1}
    RewardMax = 2
    BlockGas = {0, 3, 5, 8}
    InitialFees = {3, 39}
    MaxCommits = 2
    SplitConfigs <- MCSplitConfigs
SPECIFICATION Spec
SYMMETRY ContractSymmetry
INVARIANTS
    TotalMatches
    RewardsWithinRate
    FeeFollowsDemand
    BurnAbsorbsRounding
    RewardsConserved
PROPERTIES
    LocksHold
    WithdrawsOldestFirst
