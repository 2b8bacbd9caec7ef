SPECIFICATION NetSpec
CONSTANTS
    m1 = m1
    m2 = m2
    Mac = {m1, m2}
    Spelling = {m1, m2}
    Xid = {0, 1, 2}
    NoIp = NoIp
    Network = 0
    Broadcast = 7
    ServerIp = 6
    Gateway = 6
    Reservations <- NoReservations
    GatewayUpdates = {}
    LeaseTimes = {}
    Faulty = {m1}
    MaxFaults = 2
    MaxRestarts = 1
PROPERTIES EventuallyBound ConflictsEnd
INVARIANTS UsedIsLeased NoAddressConflict NeverExhausted
CHECK_DEADLOCK FALSE
