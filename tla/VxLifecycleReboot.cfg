CONSTANTS
    Clients = {c1, c2}
    Waiters = {w1}
    Free = Free
    Ops = {"start", "reboot", "kill", "remove", "vg_start"}
    GuestMay = {"halt", "restart"}
    Adverse = {"orphan", "timeout"}
SPECIFICATION FairSpec
INVARIANT TypeOK
PROPERTIES RestartsOnRequest RebootComesBack
