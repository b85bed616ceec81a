SPECIFICATION FairSpec
CONSTANTS
    s1 = s1
    s2 = s2
    host = host
    thief = thief
    port1 = port1
    port2 = port2
    p1 = p1
    p2 = p2
    NoIp = NoIp
    NoPort = NoPort
    NoMac = NoMac
    Unseen = Unseen
    None = None
    Devices = {s1, s2}
    Macs = {host, thief}
    IPs = {1}
    Ports = {port1, port2}
    Polls = {p1, p2}
    Nets <- MCNets
    FirstNets <- MCFirst
    Covered = {1}
    FirstDevices = {s1}
    MaxRewires = 1
    MaxUpsets = 1
INVARIANTS
    EventsAreOnce
PROPERTIES
    DiscoveryCatchesUp
CHECK_DEADLOCK FALSE
