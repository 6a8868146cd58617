CONSTANTS
    Stakers = {1, 2}
    Delegations <- MCDelegations
    Amounts = {30}
    Tiers = {"Delegator", "Permanent"}
    Epochs = {0}
    MaxEntries = 1
    MaxU64 = 1000
    Keys = {1, 2}
    Stakes = {30, 600}
    ActiveCap = 1
    MinStake = 1
    MaxPower = 0
    Payloads = {"votes", "other votes", "block"}
    Evidence <- MCEvidence
    MaxEvents = 2
SPECIFICATION Spec
INVARIANTS
    PunishedOnce
    OrdersAgreeButForRounding
PROPERTIES
    DelegatorsNeverSlashed
    SlashedStakeIsBooked
