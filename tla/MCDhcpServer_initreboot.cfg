CONSTANTS
    m1 = m1
    m2 = m2
    s1 = s1
    s2 = s2
    capitals = capitals
    NoIp = NoIp
    Mac = {m1, m2}
    Spelling = {m1, m2}
    Xid = {1}
    Network = 0
    Broadcast = 7
    ServerIp = 6
    Gateway = 6
    Reservations <- RoomyReservations
    GatewayUpdates = {3}
    LeaseTimes = {"seconds", "unpackable", "text"}
SPECIFICATION Spec
INVARIANT InitRebootServed
