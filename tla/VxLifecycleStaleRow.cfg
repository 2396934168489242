CONSTANTS
    Clients = {c1, c2}
    Waiters = {w1}
    Free = Free
    Ops = {"start"}
    GuestMay = {"halt", "restart"}
    Adverse = {"reload"}
SPECIFICATION Spec
PROPERTY RestartsOnRequest
CHECK_DEADLOCK FALSE
