CONSTANTS
    p1 = p1
    c1 = c1
    Capacity = 1
    Peers = {p1}
    MaxConns = 2
    MaxBad = 1
    Clients = {c1}
    MaxHeight = 3
SPECIFICATION Spec
INVARIANTS
    TrackedAreConnected
    AnswersTheRequest
    PlaceholderIsInFlight
    ToldIsServed
    FeeFollowsBlocks
    SettledWhileWaiting
