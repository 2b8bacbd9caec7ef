CONSTANTS
    w1 = w1
    w2 = w2
    ip1 = ip1
    ip2 = ip2
    mac1 = mac1
    mac2 = mac2
    eth0 = eth0
    eth1 = eth1
    gone = gone
    Worker = {w1, w2}
    Sniffer = Sniffer
    Nobody = Nobody
    Ip = {ip1, ip2}
    Interface = {eth0, eth1, gone}
    Usable = {eth0, eth1}
    Mac = {mac1, mac2}
    NoMac = NoMac
    Malformed = Malformed
    Bodies <- SomeBodies
    FirstInterface = eth0
    FirstTable <- OneMac
    MaxReplies = 2
SPECIFICATION Spec
INVARIANTS
    TypeOK
    ReportsExact
PROPERTIES
    RefinesRegister
    EveryoneServed
CHECK_DEADLOCK FALSE
