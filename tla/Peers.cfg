SPECIFICATION PeersSpec
CONSTANTS
    Borrower = {b1, b2, b3}
    Object = {p1, p2, p3, p4}
    Nil = Nil
    MaxIdle = 1
    MaxActive = 2
    Word = 8
    Sender = {s1, s2}
    MaxReq = 2
    chanSize = 1
    MaxBreaks = 1
INVARIANTS
    
    RepliesMatch
PROPERTIES
    Served
CHECK_DEADLOCK FALSE
