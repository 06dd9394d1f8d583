\* Two callers, two chunks (each may carry the WaitGroup or not), two Gets.
CONSTANTS
    p1 = p1  p2 = p2  k1 = k1  k2 = k2  NoKey = NoKey
    Procs = {p1, p2}
    Keys = {k1, k2}
    MaxGets = 2
SPECIFICATION Spec
INVARIANTS TypeOK GetFindsStored WaitMeansStored
\* Behaviours end once both chunks are stored and the Gets are spent.
CHECK_DEADLOCK FALSE
