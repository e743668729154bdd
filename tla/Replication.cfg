SPECIFICATION FairSpec
CONSTANTS
    c1 = c1
    c2 = c2
    s1 = s1
    s2 = s2
    Conns <- MCConns
    Scenes <- MCScenes
INVARIANTS
    StreamExact
    
PROPERTY EveryPsyncServed
CHECK_DEADLOCK FALSE
