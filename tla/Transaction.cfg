SPECIFICATION LiveSpec
CONSTANTS
    c1 = c1
    c2 = c2
    k1 = k1
    k2 = k2
    m1 = m1
    NotInt = NotInt
    MaxInt64 = 1
    Client = {c1, c2}
    Key = {k1, k2}
    Cmds <- MCCmds
    Scenes <- MCScenes
INVARIANTS
    WatchDetectsQuiet
PROPERTIES
    ImplementsTxSpec
    EveryRequestAnswered
