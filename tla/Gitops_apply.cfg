SPECIFICATION FairSpec
CONSTANTS
    w1 = w1
    w2 = w2
    A = A
    B = B
    v = v
    top = top
    low = low
    rng = rng
    web = web
    db1 = db1
    Nobody = Nobody
    NoParent = NoParent
    Unset = Unset
    Null = Null
    Worker = {w1, w2}
    Source = {A, B}
    Vlans = {v}
    Subnets = {top, low}
    Ranges = {rng}
    Hosts = {web, db1}
    Home <- MCHome
    PrefixLen <- MCPrefixLen
    Docs <- MCDocs
    FirstRows <- MCFirstRows
    Editable <- MCEditable
    MaxGoals = 1
    MaxUpsets = 1
PROPERTIES
    
    SuccessIsComplete
    TagsAreKept
    Converges
