SPECIFICATION NodeSpec
CONSTANTS
    c1 = c1
    c2 = c2
    k1 = k1
    va = va
    vb = vb
    h1 = h1
    h2 = h2
    o1 = o1
    o2 = o2
    Nil = Nil
    Writer = {w1, w2}
    Walker = {x1}
    Key = {1, 2, 3}
    shardCount = 3
    spread <- Spread
    Count = {1}
    MaxCount = 3
INVARIANTS
    LogRebuilds
    
    SkipListExact
    ListsExact
    HubExact
    NoneStuck
PROPERTIES
    TimersExact
CHECK_DEADLOCK FALSE
