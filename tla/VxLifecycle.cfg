CONSTANTS
    Clients = {c1, c2}
    Waiters = {w1}
    Free = Free
    Ops = {"start", "stop", "restart", "exec", "kill", "remove", "create", "vg_stop"}
    GuestMay = {"halt"}
    Adverse = {"rpc", "reload", "timeout", "startup"}
SPECIFICATION FairSpec
INVARIANT RunsOnlyIfRegistered
PROPERTY RequestsEnd
CHECK_DEADLOCK FALSE
