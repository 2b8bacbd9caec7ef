CONSTANTS
    arp_proxy = arp_proxy
    dhcp_server = dhcp_server
    Registry <- Both
    Dhcp = dhcp_server
    Stranger = {stranger}
    Mac = {a, b}
    Threshold = 2
    Boot = boot
    Reduced = reduced
    Ordered = {longer, rejected}
    Rejected = {rejected}
    MaxCrashes = 1
    MaxTimeouts = 1
    MaxEvents = 1
    MaxRequests = 2
SPECIFICATION Spec
CHECK_DEADLOCK FALSE
PROPERTY MacCorrelated
