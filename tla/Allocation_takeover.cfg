SPECIFICATION Spec
CONSTANTS
    r1 = r1
    r2 = r2
    r3 = r3
    web = web
    db = db
    lan = lan
    NoHost = NoHost
    NoPool = NoPool
    NoRow = NoRow
    NoAddr = NoAddr
    Nobody = Nobody
    Request = {r1, r2}
    Host = {web, db}
    Addr = {1, 2, 3}
    Skipped = {1}
    Pool = {lan}
    Window <- MCWindow
    Bodies <- MCPlainBodies
    InitialRows <- MCFresh
    EditStatuses = {"deprecated"}
    MaxEdits = 0
    MaxFaults = 0
    MaxCrashes = 0
INVARIANTS
    AllocationsDisjoint
CHECK_DEADLOCK FALSE
