CONSTANTS
    p1 = p1
    Capacity = 2
    Peers = {p1}
    MaxConns = 1
    MaxBad = 0
SPECIFICATION NetworkSpec
PROPERTIES
    OutboundIsServed
