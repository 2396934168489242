CONSTANTS
    Procs = {p1, p2}
    Creators = {p1, p2}
    Names = {n1, n2}
    Free = Free
    None = None
    MaxXid = 4
    Ops = {"create", "remove"}
    ForceValues = {TRUE, FALSE}
    ExplicitVdirs = {}
    Tables = {"nx_addr"}
SPECIFICATION Spec
SYMMETRY Symmetry
PROPERTIES ForeignTreesSafe CommittedHasTree
