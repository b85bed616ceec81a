SPECIFICATION Spec
CONSTANTS
    net = net
    sub = sub
    h1 = h1
    h2 = h2
    Nobody = Nobody
    Subnet = {net}
    Host = {h1, h2}
    Hosts <- MCSingle
    Worker = {1, 2}
    Ranges <- MCAcross
    Prunes = TRUE
    MaxCount = 2
    MaxFaults = 1
    MaxCrashes = 1
INVARIANTS
    OneSweepPerSubnet
    StatusIsTrue
    HistoryCountsScans
CHECK_DEADLOCK FALSE
