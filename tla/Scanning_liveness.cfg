SPECIFICATION FairSpec
CONSTANTS
    net = net
    sub = sub
    h1 = h1
    h2 = h2
    Nobody = Nobody
    Subnet = {net}
    Host = {h1, h2}
    Hosts <- MCOne
    Worker = {1, 2}
    Ranges <- MCNoRanges
    Prunes = FALSE
    MaxCount = 1
    MaxFaults = 1
    MaxCrashes = 1
INVARIANTS
    AlertsAreCurrent
PROPERTIES
    DueIsScanned
CHECK_DEADLOCK FALSE
