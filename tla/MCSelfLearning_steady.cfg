CONSTANTS
    d1 = d1
    d3 = d3
    h1 = h1
    h2 = h2
    Device = {d1, d3}
    Host = {h1, h2}
    Port = {1, 2}
    NoPort = NoPort
    PortOf <- Ports
    TableSize = 1
    MaxInbox = 3
    MaxFaults = 0
    MaxLosses = 0
    LossKinds = {}
    MaxMoves = 0
SPECIFICATION Spec
CHECK_DEADLOCK FALSE
INVARIANTS
    NoDuplicateInsert
    ForwardsToHost
