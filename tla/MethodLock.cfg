CONSTANTS
    Procs = {p1, p2, p3}
    Names = {n1, n2}
    Free = Free
    Closed = Closed
    MaxCalls = 2
    MethodFlags = {{"M_OWNER", "M_LOCK"}}
    Signalled = {p3}
SPECIFICATION FairSpec
INVARIANTS TypeOK MutualExclusion LockInv
PROPERTIES ImplementsMutex EveryRequestEnds
CHECK_DEADLOCK FALSE
