SPECIFICATION FairSpec
CONSTANTS
    e1 = e1
    e2 = e2
    d1 = d1
    d2 = d2
    d3 = d3
    s1 = s1
    s2 = s2
    NoDelivery = NoDelivery
    Endpoint = {e1}
    Delivery = {d1, d2}
    Session = {s1}
    WriteKind <- MCWriteKind
    Filters <- MCAddressOnly
    Backoff <- MCBackoff
    MaxAttempts = 2
    ClaimTimeout = 1
    BatchLimit = 2
    MaxCrashes = 0
    MaxRedeliver = 0
PROPERTIES
    OwedIsSettled
