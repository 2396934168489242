CONSTANTS
    Procs = {p1, p2, p3}
    Creators = {p1}
    Names = {n1, n2}
    Free = Free
    None = None
    MaxXid = 4
    Ops = {"create", "remove", "rename", "set"}
    ForceValues = {TRUE, FALSE}
    ExplicitVdirs = {}
    Tables = {"nx_addr"}
SPECIFICATION Spec
SYMMETRY Symmetry
INVARIANTS TypeOK TablesAgree NoOrphanRows StableBinding
PROPERTY OnlyHolderChanges
