SPECIFICATION LiveSpec
CONSTANTS
    Goroutine = {g1, g2}
    Rewriter = {r1}
    Database = {0, 1}
    Policies = {TRUE, FALSE}
    InitialFiles <- UsedFile
    QueueSize = 1
    MaxCmds = 2
    MaxCrash = 1
    g1 = g1
    g2 = g2
    r1 = r1
INVARIANTS
    Recoverable
    SameIndex
    AlwaysDurable
    ListenerFollows
PROPERTY
    EventuallyWritten
