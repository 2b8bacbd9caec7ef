CONSTANTS
    m1 = m1
    m2 = m2
    s1 = s1
    s2 = s2
    capitals = capitals
    NoIp = NoIp
    Mac = {m1, m2, s1, s2}
    Spelling = {m1, m2, s1, s2, capitals}
    Xid = {1}
    Network = 0
    Broadcast = 8
    ServerIp = 7
    Gateway = 6
    Reservations <- TightReservations
    GatewayUpdates = {1}
    LeaseTimes = {"seconds", "unpackable", "text"}
SPECIFICATION Spec
INVARIANTS
    TypeOK
    ClaimsExclusive
    PromiseBacked
    ReservationsLocked
    ReservedNeverLeased
PROPERTIES
    RefinesLeasePool
