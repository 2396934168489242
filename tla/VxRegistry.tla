----------------------------- MODULE VxRegistry -----------------------------
(***************************************************************************)
(* The registry of vservers: vx.create (and rebuild), vx.remove, vx.rename *)
(* and the methods that write the configuration of a vserver, run by       *)
(* concurrent children of the daemon.                                      *)
(*                                                                         *)
(* A step is one SQL statement (or one transaction) or one operation on    *)
(* the directory tree of a vserver.  Tables are functions of the xid.  A   *)
(* configuration table is abstracted to the set of xids that have rows in  *)
(* it, a directory tree to the xid it was built for.  The lock per name is *)
(* the atomic one of NameMutex, which MethodLock implements.  Outcomes     *)
(* that depend on state of other modules (who owns a vserver, whether it   *)
(* runs, a full disk, a busy database) are free choices.                   *)
(***************************************************************************)
EXTENDS Naturals, FiniteSets

CONSTANTS Procs,          \* daemon children
          Creators,       \* the children that may run vx.create
          Names,          \* names of vservers
          Free,           \* nobody holds the lock
          None,           \* no name, no vdir, no tree
          MaxXid,         \* 65535 in the code
          Ops,            \* which methods run
          ForceValues,    \* values of vx.create's parameter force
          ExplicitVdirs,  \* directories an admin may pass to vx.create
          Tables          \* the configuration tables under study

AllOps == {"create", "remove", "rename", "set", "map"}
Xids == 2 .. MaxXid

(* The default directory of name n is vbasedir/n, written as n itself. *)
Vdirs == Names \cup ExplicitVdirs

ASSUME ConstantsAssumption ==
    /\ Creators \subseteq Procs
    /\ Free \notin Procs
    /\ None \notin Names \cup ExplicitVdirs \cup Nat
    /\ MaxXid \in Nat /\ MaxXid > 2
    /\ Ops \subseteq AllOps
    /\ ForceValues \subseteq BOOLEAN

VARIABLES name,    \* xid_name_map
          vdir,    \* table vdir
          rows,    \* rows[x]: the configuration tables that have rows of xid x
          fs,      \* fs[d]: the xid whose tree is in directory d
          holder,  \* the lock of each name
          pc, req, \* where each child is, and what it was asked
          xid, dir \* the child's static variables xid and vdir

vars == <<name, vdir, rows, fs, holder, pc, req, xid, dir>>
db == <<name, vdir, rows>>

PCs == {"idle", "xid", "create_vdir", "unlink_old", "unlink", "find_xid",
        "mkdir", "fill", "insert", "undo", "remove_vdir", "delete",
        "runlink", "rename_new", "update", "set"}
Requests == [op : AllOps, name : Names, newname : Names,
             force : BOOLEAN, vdir : Vdirs \cup {None}]

TypeOK ==
    /\ name \in [Xids -> Names \cup {None}]
    /\ vdir \in [Xids -> Vdirs \cup {None}]
    /\ rows \in [Xids -> SUBSET Tables]
    /\ fs \in [Vdirs -> Xids \cup {None}]
    /\ holder \in [Names -> Procs \cup {Free}]
    /\ pc \in [Procs -> PCs]
    /\ req \in [Procs -> Requests \cup {None}]
    /\ xid \in [Procs -> Xids \cup {0}]
    /\ dir \in [Procs -> Vdirs \cup {None}]

Init ==
    /\ name = [x \in Xids |-> None]
    /\ vdir = [x \in Xids |-> None]
    /\ rows = [x \in Xids |-> {}]
    /\ fs = [d \in Vdirs |-> None]
    /\ holder = [n \in Names |-> Free]
    /\ pc = [p \in Procs |-> "idle"]
    /\ req = [p \in Procs |-> None]
    /\ xid = [p \in Procs |-> 0]
    /\ dir = [p \in Procs |-> None]

-----------------------------------------------------------------------------
(* Queries *)

Registered == {x \in Xids : name[x] # None}

vxdb_getxid(n) ==
    IF \E x \in Xids : name[x] = n THEN CHOOSE x \in Xids : name[x] = n ELSE 0

vxdb_getvdir(n) ==
    LET x == vxdb_getxid(n) IN
    IF x # 0 /\ vdir[x] # None THEN vdir[x] ELSE n

-----------------------------------------------------------------------------
(* Requests *)

Mutex == INSTANCE NameMutex

Goto(p, l) == pc' = [pc EXCEPT ![p] = l]

(* Mutant: the configuration methods do not ask for M_LOCK. *)
Locked_NotSet(op) == op \in {"create", "remove", "rename"}
(* Mutant: vx.rename does not ask for M_LOCK. *)
Locked_NotRename(op) == op \in {"create", "remove", "set"}
(* Mutant: vx.create does not ask for M_LOCK. *)
Locked_NotCreate(op) == op \in {"remove", "rename", "set"}

(* The methods that pass M_LOCK to method_init; the maps of owners and     *)
(* groups are written without it.                                          *)
Locked(op) == op # "map"

(* The child has no more to do: it answers and exits. *)
Done(p) ==
    /\ Goto(p, "idle")
    /\ req' = [req EXCEPT ![p] = None]
    /\ xid' = [xid EXCEPT ![p] = 0]
    /\ dir' = [dir EXCEPT ![p] = None]
    /\ holder' = [n \in Names |-> IF holder[n] = p THEN Free ELSE holder[n]]

Stay == UNCHANGED <<holder, req>>

(* A child receives a request and gets the lock, if the method wants it;   *)
(* a request for a locked name is refused with MEBUSY and changes nothing. *)
Begin(p) ==
    /\ pc[p] = "idle"
    /\ \E r \in Requests :
          /\ r.op \in Ops /\ (r.op = "create" => p \in Creators)
          /\ r.force \in (IF r.op = "create" THEN ForceValues ELSE {FALSE})
          /\ r.vdir \in {None} \cup (IF r.op = "create" THEN ExplicitVdirs ELSE {})
          /\ r.op # "rename" => r.newname = r.name
          /\ req' = [req EXCEPT ![p] = r]
          /\ IF Locked(r.op) THEN Mutex!Acquire(p, r.name) ELSE UNCHANGED holder
          /\ Goto(p, IF r.op = "rename" THEN "rename_new" ELSE "xid")
    /\ UNCHANGED <<db, fs, xid, dir>>

(* The child's first look at xid_name_map, with the checks that follow it. *)
(* vx.create: MEEXIST without force, MERUNNING, MENOVPS for another owner; *)
(* a new name needs an admin (MEPERM).  The others: MENOVPS, MERUNNING.    *)
GetXid(p) ==
    LET r == req[p]
        x == vxdb_getxid(r.name)
    IN
    /\ pc[p] = "xid"
    /\ \/ /\ IF r.op = "create" THEN x # 0 => r.force ELSE x # 0
          /\ xid' = [xid EXCEPT ![p] = x]
          /\ Goto(p, CASE r.op = "create" -> "create_vdir"
                       [] r.op = "remove" -> "remove_vdir"
                       [] r.op = "rename" -> "update"
                       [] OTHER -> "set")
          /\ Stay /\ UNCHANGED dir
       \/ Done(p)
    /\ UNCHANGED <<db, fs>>

-----------------------------------------------------------------------------
(* vx.create *)

(* The directory: the one an admin gave, else vxdb_getvdir.  Without force *)
(* it must not exist (MEEXIST).                                            *)
CheckVdir(p) ==
    LET r == req[p]
        d == IF r.vdir # None THEN r.vdir ELSE vxdb_getvdir(r.name)
    IN
    /\ pc[p] = "create_vdir"
    /\ \/ /\ r.force \/ fs[d] = None
          /\ dir' = [dir EXCEPT ![p] = d]
          /\ Goto(p, IF xid[p] # 0 THEN "unlink_old" ELSE "unlink")
          /\ Stay /\ UNCHANGED xid
       \/ Done(p)
    /\ UNCHANGED <<db, fs>>

(* try to get rid of old vdir if this is a rebuild *)
UnlinkOld(p) ==
    /\ pc[p] = "unlink_old"
    /\ fs' = [fs EXCEPT ![vxdb_getvdir(req[p].name)] = None]
    /\ Goto(p, "unlink")
    /\ Stay /\ UNCHANGED <<db, xid, dir>>

(* try to runlink vdir first *)
UnlinkNew(p) ==
    /\ pc[p] = "unlink"
    /\ fs' = [fs EXCEPT ![dir[p]] = None]
    /\ Goto(p, "find_xid")
    /\ Stay /\ UNCHANGED <<db, xid, dir>>

(* Mutant: the last xid is taken as well. *)
FreeXids_OffByOne ==
    IF Registered = {} THEN {2}
    ELSE {x + 1 : x \in {y \in Registered : \A z \in Registered : z <= y}}

(* Mutant: the number of vservers decides, not the highest xid. *)
FreeXids_ByCount == {x \in Xids : Cardinality({y \in Xids : y < x}) =
                                  Cardinality(Registered)}

(* COUNT(xid) and MAX(xid) of xid_name_map: the maximum plus one, and at   *)
(* the maximum the smallest xid that vxdb_getname does not know.           *)
FreeXids ==
    IF Registered = {} THEN {2}
    ELSE IF MaxXid \notin Registered
         THEN {x + 1 : x \in {y \in Registered : \A z \in Registered : z <= y}}
         ELSE {x \in Xids \ Registered : \A y \in Xids \ Registered : x <= y}

(* A rebuild keeps its xid.  At the maximum vxdb_getname finalizes the     *)
(* statement find_free_xid is stepping through; stepping it again is       *)
(* undefined: the xid is used, the method faults, or the child dies.       *)
find_free_xid(p) ==
    /\ pc[p] = "find_xid"
    /\ \/ /\ IF xid[p] # 0 THEN UNCHANGED xid
             ELSE \E x \in FreeXids : xid' = [xid EXCEPT ![p] = x]
          /\ Goto(p, "mkdir")
          /\ Stay /\ UNCHANGED dir
       \/ Done(p)
    /\ UNCHANGED <<db, fs>>

(* mkdirp, which may fail, and the start of the copy. *)
MakeVdir(p) ==
    /\ pc[p] = "mkdir"
    /\ \/ /\ fs' = [fs EXCEPT ![dir[p]] = xid[p]]
          /\ Goto(p, "fill")
          /\ Stay /\ UNCHANGED <<xid, dir>>
       \/ Done(p) /\ UNCHANGED fs
    /\ UNCHANGED db

(* Mutant: the method goes on after the failed copy. *)
make_vserver_filesystem_NoReturn(p) ==
    /\ pc[p] = "fill"
    /\ \/ UNCHANGED fs
       \/ fs' = [fs EXCEPT ![dir[p]] = None]
    /\ Goto(p, "insert")
    /\ Stay /\ UNCHANGED <<db, xid, dir>>

(* The template is linked or copied.  If that fails the tree is unlinked;  *)
(* if sanitizing /dev or reading the template's configuration fails, the   *)
(* tree stays.                                                             *)
make_vserver_filesystem(p) ==
    /\ pc[p] = "fill"
    /\ \/ Goto(p, "insert") /\ Stay /\ UNCHANGED <<xid, dir, fs>>
       \/ Done(p) /\ fs' = [fs EXCEPT ![dir[p]] = None]
       \/ Done(p) /\ UNCHANGED fs
    /\ UNCHANGED db

SweptByCreate ==
    {"dx_limit", "init", "mount", "nx_addr", "nx_broadcast", "restart",
     "vx_bcaps", "vx_ccaps", "vx_flags", "vx_limit", "vx_sched", "vx_uname"}
FilledByCreate == {"init", "mount", "vx_bcaps", "vx_ccaps", "vx_flags"}

(* One exclusive transaction: everything of the xid goes, then the         *)
(* template's rows, the vdir and the name come in.  A name or a vdir that  *)
(* another xid has breaks a unique index; the transaction is then undone   *)
(* when the child exits.                                                   *)
create_vxdb_entries(p) ==
    LET x == xid[p]
        n == req[p].name
    IN
    /\ pc[p] = "insert"
    /\ \/ /\ \A y \in Xids \ {x} : name[y] # n /\ vdir[y] # dir[p]
          /\ name' = [name EXCEPT ![x] = n]
          /\ vdir' = [vdir EXCEPT ![x] = dir[p]]
          /\ rows' = [rows EXCEPT ![x] =
                        (@ \ SweptByCreate) \cup (FilledByCreate \cap Tables)]
          /\ Done(p)
       \/ /\ Goto(p, "undo")
          /\ Stay /\ UNCHANGED <<db, xid, dir>>
    /\ UNCHANGED fs

(* runlink(vdir) after the failed transaction. *)
UndoCreate(p) ==
    /\ pc[p] = "undo"
    /\ fs' = [fs EXCEPT ![dir[p]] = None]
    /\ Done(p)
    /\ UNCHANGED db

-----------------------------------------------------------------------------
(* vx.remove *)

RemoveVdir(p) ==
    /\ pc[p] = "remove_vdir"
    /\ dir' = [dir EXCEPT ![p] = vxdb_getvdir(req[p].name)]
    /\ Goto(p, "delete")
    /\ Stay /\ UNCHANGED <<db, fs, xid>>

SweptByRemove == SweptByCreate \cup {"xid_gid_map", "xid_uid_map"}

(* Mutant: the transaction forgets table vdir. *)
DeleteEntries_KeepsVdir(p) ==
    /\ pc[p] = "delete"
    /\ name' = [name EXCEPT ![xid[p]] = None]
    /\ rows' = [rows EXCEPT ![xid[p]] = @ \ SweptByRemove]
    /\ Goto(p, "runlink")
    /\ Stay /\ UNCHANGED <<vdir, xid, dir, fs>>

DeleteEntries(p) ==
    /\ pc[p] = "delete"
    /\ \/ /\ name' = [name EXCEPT ![xid[p]] = None]
          /\ vdir' = [vdir EXCEPT ![xid[p]] = None]
          /\ rows' = [rows EXCEPT ![xid[p]] = @ \ SweptByRemove]
          /\ Goto(p, "runlink")
          /\ Stay /\ UNCHANGED <<xid, dir>>
       \/ Done(p) /\ UNCHANGED db
    /\ UNCHANGED fs

(* runlink(vdir), which may fail and leave the tree. *)
RemoveTree(p) ==
    /\ pc[p] = "runlink"
    /\ \/ fs' = [fs EXCEPT ![dir[p]] = None]
       \/ UNCHANGED fs
    /\ Done(p)
    /\ UNCHANGED db

-----------------------------------------------------------------------------
(* vx.rename: the new name must be unknown (MEEXIST); it is not locked.    *)

RenameNew(p) ==
    /\ pc[p] = "rename_new"
    /\ \/ /\ vxdb_getxid(req[p].newname) = 0
          /\ Goto(p, "xid")
          /\ Stay /\ UNCHANGED <<xid, dir>>
       \/ Done(p)
    /\ UNCHANGED <<db, fs>>

(* UPDATE xid_name_map ... WHERE xid: no row, no change.  (The uname of a  *)
(* running context follows; it is not modelled.)                           *)
UpdateName(p) ==
    /\ pc[p] = "update"
    /\ \/ /\ \A y \in Xids \ {xid[p]} : name[y] # req[p].newname
          /\ name' = [name EXCEPT ![xid[p]] =
                        IF @ = None THEN None ELSE req[p].newname]
       \/ UNCHANGED name
    /\ Done(p)
    /\ UNCHANGED <<vdir, rows, fs>>

-----------------------------------------------------------------------------
(* The methods of methods/vxdb, and vg.add: INSERT OR REPLACE or DELETE of *)
(* the rows of the xid found before.                                       *)
Mapped == {"xid_gid_map", "xid_uid_map"}
WriteConfig(p) ==
    /\ pc[p] = "set"
    /\ \E t \in Tables :
          /\ (t \in Mapped) = (req[p].op = "map")
          /\ \/ rows' = [rows EXCEPT ![xid[p]] = @ \cup {t}]
             \/ rows' = [rows EXCEPT ![xid[p]] = @ \ {t}]
    /\ Done(p)
    /\ UNCHANGED <<name, vdir, fs>>

-----------------------------------------------------------------------------
(* SIGHUP, or a crash, in the middle of a method. *)
Die(p) ==
    /\ pc[p] # "idle"
    /\ Done(p)
    /\ UNCHANGED <<db, fs>>

Next == \E p \in Procs :
    \/ Begin(p) \/ GetXid(p) \/ CheckVdir(p) \/ UnlinkOld(p) \/ UnlinkNew(p)
    \/ find_free_xid(p) \/ MakeVdir(p) \/ make_vserver_filesystem(p)
    \/ create_vxdb_entries(p) \/ UndoCreate(p)
    \/ RemoveVdir(p) \/ DeleteEntries(p) \/ RemoveTree(p)
    \/ RenameNew(p) \/ UpdateName(p) \/ WriteConfig(p) \/ Die(p)

Spec == Init /\ [][Next]_vars

-----------------------------------------------------------------------------
(* xid_name_map and vdir have rows for the same xids: create and remove    *)
(* write both in one transaction, and no other method touches vdir.        *)
TablesAgree == \A x \in Xids : name[x] = None <=> vdir[x] = None

(* "This method is used to remove a virtual server from the configuration  *)
(* database" (doc/manual/rpcref/vx.tex): an xid that is not registered has *)
(* no rows in any table, so that the next vserver to get the xid does not  *)
(* inherit them.                                                           *)
NoOrphanRows == \A x \in Xids : rows[x] # {} => name[x] # None

(* What the lock of the name is for: once a child that holds it has looked *)
(* the xid up, that xid stays registered under that name until the child   *)
(* itself changes it, so its later statements hit the vserver it checked.  *)
StableBinding ==
    \A p \in Procs :
        /\ pc[p] \in {"remove_vdir", "delete", "update", "set", "unlink_old"}
        /\ Locked(req[p].op)
        => name[xid[p]] = req[p].name

(* The row of a registered vserver is changed only by a child that holds   *)
(* the lock of its name: nobody else's create, remove or rename takes a    *)
(* vserver away.                                                           *)
OnlyHolderChanges ==
    [][\A x \in Xids : name[x] # None /\ name'[x] # name[x] =>
          \E p \in Procs : holder[name[x]] = p /\ pc'[p] # pc[p]]_vars

(* The directory tree of a registered vserver is unlinked or replaced only *)
(* by a child that holds the lock of its name.                             *)
ForeignTreesSafe ==
    [][\A x \in Registered : vdir[x] # None /\ fs[vdir[x]] = x
                              /\ fs'[vdir[x]] # x =>
          \E p \in Procs : holder[name[x]] = p /\ pc'[p] # pc[p]]_vars

(* vx.create registers a vserver only when the tree it built is in place.  *)
CommittedHasTree ==
    [][\A x \in Xids : name[x] = None /\ name'[x] # None =>
          fs[vdir'[x]] = x]_vars
=============================================================================
