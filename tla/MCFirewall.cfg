CONSTANTS
    lan = lan
    remote = remote
    unrouted = unrouted
    query = query
    answer = answer
    LAN_PORT = 1
    LAN_PORT2 = 2
    ARP_PROXY_PORT = 3
    DHCP_PORT = 4
    Dropped = Dropped
    Address = {lan, remote, unrouted}
    Transport = {query, answer}
    ToDhcp = {answer}
    Opposite <- OppositePorts
    Bit = {0, 1, 2}
    crc16 <- HashOne
    crc32 <- HashTwo
    table_entries <- d2_firewall
    MaxPackets = 3
SPECIFICATION Spec
CHECK_DEADLOCK FALSE
INVARIANTS
    TypeOK
    RepliesAdmitted
    OnlySolicited
    CountersTruthful
