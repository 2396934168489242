CONSTANTS
    Procs = {p1, p2}
    Usernames = {"admin", "vshelper", "jo"}
    Groups = {"onboot"}
    Xids = {x1}
    MaxUid = 4
    MaxGid = 1
    MaxRequests = 4
    Ops = {"user_set", "user_remove", "caps_add", "caps_remove", "owner_add", "owner_remove", "vg_add", "vg_remove"}
    None = None
SPECIFICATION Spec
INVARIANTS TypeOK
PROPERTIES RowsLostOnlyByRaces UpWithAdminAndHelper
SYMMETRY Symmetry
