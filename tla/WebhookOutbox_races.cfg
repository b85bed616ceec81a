SPECIFICATION Spec
CONSTANTS
    e1 = e1
    e2 = e2
    d1 = d1
    d2 = d2
    d3 = d3
    s1 = s1
    s2 = s2
    NoDelivery = NoDelivery
    Endpoint = {e1}
    Delivery = {d1}
    Session = {s1, s2}
    WriteKind <- MCWriteKind
    Filters <- MCFilters
    Backoff <- MCBackoff
    MaxAttempts = 2
    ClaimTimeout = 1
    BatchLimit = 1
    MaxCrashes = 1
    MaxRedeliver = 1
INVARIANTS
    DeadWasOffered
    DuplicatesAreExcused
PROPERTIES
    ImplementsContract
