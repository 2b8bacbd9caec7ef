CONSTANTS
    arp_proxy = arp_proxy
    dhcp_server = dhcp_server
    Registry <- Both
    Dhcp = dhcp_server
    Stranger = {stranger}
    Mac = {a, b}
    Threshold = 2
    Boot = boot
    Reduced = reduced
    Ordered = {longer, rejected}
    Rejected = {rejected}
    MaxCrashes = 2
    MaxTimeouts = 1
    MaxEvents = 1
    MaxRequests = 2
SPECIFICATION FairSpec
CHECK_DEADLOCK FALSE
INVARIANTS
    TypeOK
PROPERTIES
    NewsConsistent
    HealthConverges
    PressureRelieved
    PollingEnds
