CONSTANTS
    d1 = d1
    d3 = d3
    h1 = h1
    h2 = h2
    Device = {d1}
    Host = {h1, h2}
    Port = {1, 2}
    NoPort = NoPort
    PortOf <- OneSwitch
    TableSize = 2
    MaxInbox = 2
    MaxFaults = 1
    MaxLosses = 0
    LossKinds = {}
    MaxMoves = 0
SPECIFICATION Spec
CHECK_DEADLOCK FALSE
INVARIANT LearnedForwards
