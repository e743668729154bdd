SPECIFICATION Spec
CONSTANTS
    k1 = k1
    k2 = k2
    m1 = m1
    m2 = m2
    f1 = f1
    NotInt = NotInt
    MaxInt64 = 1
    Key = {k1, k2}
    Workload <- MCWorkload
    MaxSize = 2
INVARIANTS
    TablesConsistent
    ReplayExact
    UndoRestores
    
