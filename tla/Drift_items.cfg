SPECIFICATION FairSpec
CONSTANTS
    p = p
    c = c
    q = q
    i = i
    h1 = h1
    h2 = h2
    m1 = m1
    m2 = m2
    A = A
    B = B
    scanner = scanner
    syncer = syncer
    All = All
    None = None
    IPs = {i}
    Subnets = {p, c, q}
    Block <- MCBlock
    Names = {h1, h2}
    Macs = {m1, m2}
    Sources = {A, B}
    Passes = {scanner, syncer}
    Duty <- MCDuty
    Worlds <- MCWorlds
    AddrRows <- MCAddrRows
    RealRows <- MCRealRows
    Bulks <- MCBulks
    PolicyEdits <- MCPolicyEdits
    MaxEdits = 1
PROPERTIES
    AutoResolveIsEarned
    
    LostAnswerIsVisible
    ItemsFollowDrift
CHECK_DEADLOCK FALSE
