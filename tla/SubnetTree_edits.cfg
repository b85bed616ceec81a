SPECIFICATION Spec
CONSTANTS
    top = top
    a = a
    b = b
    leaf = leaf
    ann = ann
    bob = bob
    eve = eve
    grp = grp
    None = None
    Absent = Absent
    Subnets = {top, a, b, leaf}
    Net <- MCNet
    IPs = {1, 2, 3}
    Users = {ann, bob, eve}
    Groups = {grp}
    Clients = {1, 2}
    Requests <- MCRequests
    Worlds <- MCWorlds
    MaxRequests = 3
INVARIANTS
    TreeIsSound
    RowsDoNotClash
    
PROPERTIES
    
    NoSelfPromotion
    AdminRemains
CHECK_DEADLOCK FALSE
