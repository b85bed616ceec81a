SPECIFICATION FairSpec
CONSTANTS
    x = x
    y = y
    fwd = fwd
    rev1 = rev1
    rev2 = rev2
    sc1 = sc1
    sc2 = sc2
    r1 = r1
    r2 = r2
    NoZone = NoZone
    None = None
    IPs = {1, 2}
    Names = {x, y}
    Zones = {fwd, rev1, rev2}
    Scopes = {sc1, sc2}
    Forward = fwd
    RevZone <- MCRevZone
    ScopeOf <- MCScopeOf
    Spans = {r1, r2}
    Offered <- MCOffered
    Worlds <- MCWorlds
    Requests <- MCRequests
    Edits <- MCEdits
    MaxUpsets = 1
    MaxRequests = 1
PROPERTIES
    
    AnswerIsCached
    
    CacheCatchesUp
