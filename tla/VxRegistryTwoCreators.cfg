CONSTANTS
    Procs = {p1, p2}
    Creators = {p1, p2}
    Names = {n1, n2}
    Free = Free
    None = None
    MaxXid = 4
    Ops = {"create"}
    ForceValues = {FALSE}
    ExplicitVdirs = {}
    Tables = {"init"}
SPECIFICATION Spec
SYMMETRY Symmetry
PROPERTY OnlyHolderChanges
