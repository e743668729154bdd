SPECIFICATION LiveSpec
CONSTANTS
    Parts = {"commands", "slots", "migration"}
    Scenes <- AllCommands
    MigrationScenes <- AllMigrations
    n1 = n1
    n2 = n2
    n3 = n3
    x = x
    y = y
    z = z
    c1 = c1
    c2 = c2
    c3 = c3
    Absent = Absent
    Node = {n1, n2, n3}
    Key = {x, y, z}
    NodeOf <- Placement
    Client = {c1, c2, c3}
    Keys = {k1, k2, k3}
    FirstKeys = {k1}
    na = na
    nb = nb
    nc = nc
    nd = nd
    None = None
    NotMaster = NotMaster
INVARIANTS
    LocksReleased
    
    RolesAgree
    InsertsArrive
    
PROPERTIES
    ClusterAtomic
    
    EventuallyBalanced
    
CHECK_DEADLOCK FALSE
