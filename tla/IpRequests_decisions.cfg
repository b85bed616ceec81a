SPECIFICATION AskSpec
CONSTANTS
    r1 = r1
    r2 = r2
    r3 = r3
    web = web
    db = db
    lan = lan
    NoHost = NoHost
    NoPool = NoPool
    NoRow = NoRow
    NoAddr = NoAddr
    Nobody = Nobody
    Request = {r1, r2}
    Host = {web, db}
    Addr = {1, 2, 3}
    Skipped = {1}
    Pool = {lan}
    Window <- MCWindow
    Bodies <- MCAskBodies
    InitialRows <- MCContended
    EditStatuses = {"deprecated"}
    MaxEdits = 1
    MaxFaults = 1
    MaxCrashes = 1
    MaxUpsets = 1
    q1 = q1
    q2 = q2
    NoAsk = NoAsk
    Asked = {q1}
    Wanted <- MCWanted
    Approvals <- MCApprovals
SYMMETRY MCSymmetry
INVARIANTS
    SharedOnlyByTakeover
    NoOrphanRecord
    RowsAreRegistered
    RepeatIsIdempotent
    RequestsMatchTable
CHECK_DEADLOCK FALSE
