------------------------------ MODULE Accounts ------------------------------
(***************************************************************************)
(* Users, their capabilities, the owners of vservers and the groups of     *)
(* vservers: vcd.user.*, vxdb.owner.*, vg.add and vg.remove, run by        *)
(* concurrent children of the daemon without any lock, and the sanity      *)
(* check that repairs the users when the daemon starts.                    *)
(*                                                                         *)
(* A step is one SQL statement or transaction, with the checks that follow *)
(* it.  A vserver is its xid here: its name changes in VxRegistry.         *)
(***************************************************************************)
EXTENDS Naturals

CONSTANTS Procs,      \* daemon children
          Usernames,  \* at least admin and vshelper
          Groups,     \* names of groups, onboot among them, all not
          Xids,       \* vservers
          MaxUid,     \* bound on the uids of table user
          MaxGid,     \* bound on the gids of table groups
          MaxRequests, \* bound on the requests
          Ops,        \* which methods run
          None        \* no row

AllOps == {"user_set", "user_remove", "caps_add", "caps_remove",
           "owner_add", "owner_remove", "vg_add", "vg_remove"}
UserOps == {"user_set", "user_remove", "caps_add", "caps_remove"}
GroupOps == {"vg_add", "vg_remove"}
Uids == 1 .. MaxUid
Gids == 1 .. MaxGid

(* vcd_caps_list, the capabilities vcd.user.caps.add knows, cut down to    *)
(* the one these methods ask for; HELPER is not in the list.               *)
vcd_caps_list == {"AUTH"}
Caps == vcd_caps_list \cup {"HELPER"}

ASSUME ConstantsAssumption ==
    /\ {"admin", "vshelper"} \subseteq Usernames /\ "onboot" \in Groups
    /\ None \notin Usernames \cup Groups \cup Xids
    /\ MaxRequests \in Nat
    /\ MaxUid \in Nat /\ MaxUid > 1 /\ MaxGid \in Nat /\ MaxGid > 0
    /\ Ops \subseteq AllOps

VARIABLES user,    \* table user: the name of each uid
          admin,   \* the uids with admin = 1
          caps,    \* table user_caps
          owner,   \* table xid_uid_map
          group,   \* table groups: the name of each gid
          member,  \* table xid_gid_map
          vps,     \* the xids in xid_name_map
          daemon,  \* up, down, or dead: the sanity check ended it
          pc, req, \* where each child is, and what it was asked
          uid, gid, xid, \* the variables of its method
          requests \* how many requests there were

accounts == <<user, admin, caps>>
maps == <<owner, group, member>>
locals == <<uid, gid, xid>>
vars == <<accounts, maps, vps, daemon, pc, req, locals, requests>>

PCs == {"idle", "uid", "nextuid", "insert_user", "admin", "password", "delete",
        "caps", "gid", "nextgid", "insert_group", "xid", "map", "unmap"}
Requests == [op : AllOps, user : Usernames \cup {None}, group : Groups,
             xid : Xids \cup {None}, admin : BOOLEAN]

TypeOK ==
    /\ user \in [Uids -> Usernames \cup {None}]
    /\ admin \subseteq Uids
    /\ caps \in [Uids -> SUBSET Caps]
    /\ owner \in [Xids -> SUBSET Uids]
    /\ group \in [Gids -> Groups \cup {None}]
    /\ member \in [Xids -> SUBSET Gids]
    /\ vps \subseteq Xids
    /\ daemon \in {"up", "down", "dead"}
    /\ pc \in [Procs -> PCs]
    /\ req \in [Procs -> Requests \cup {None}]
    /\ uid \in [Procs -> Uids \cup {0}]
    /\ gid \in [Procs -> Gids \cup {0}]
    /\ xid \in [Procs -> Xids \cup {None}]
    /\ requests \in 0 .. MaxRequests

(* A new database: its tables are there, and the group onboot. *)
Init ==
    /\ user = [u \in Uids |-> None] /\ admin = {}
    /\ caps = [u \in Uids |-> {}]
    /\ owner = [x \in Xids |-> {}]
    /\ group = [g \in Gids |-> IF g = 1 THEN "onboot" ELSE None]
    /\ member = [x \in Xids |-> {}]
    /\ vps = {}
    /\ daemon = "down"
    /\ pc = [p \in Procs |-> "idle"]
    /\ req = [p \in Procs |-> None]
    /\ uid = [p \in Procs |-> 0]
    /\ gid = [p \in Procs |-> 0]
    /\ xid = [p \in Procs |-> None]
    /\ requests = 0

-----------------------------------------------------------------------------
(* Queries *)

Greatest(S) == IF S = {} THEN 0 ELSE CHOOSE m \in S : \A n \in S : n <= m

auth_getuid(n) == Greatest({u \in Uids : n # None /\ user[u] = n})
auth_getnextuid == Greatest({u \in Uids : user[u] # None}) + 1
vxdb_getgid(g) == Greatest({i \in Gids : group[i] = g})
NextGid == Greatest({i \in Gids : group[i] # None}) + 1

(* The caller exists and has capability AUTH, the one all of these ask for. *)
auth_capable(u) == user[u] # None /\ "AUTH" \in caps[u]

-----------------------------------------------------------------------------
(* Requests *)

Goto(p, l) == pc' = [pc EXCEPT ![p] = l]

Done(p) ==
    /\ Goto(p, "idle")
    /\ req' = [req EXCEPT ![p] = None]
    /\ uid' = [uid EXCEPT ![p] = 0]
    /\ gid' = [gid EXCEPT ![p] = 0]
    /\ xid' = [xid EXCEPT ![p] = None]

Begin(p) ==
    /\ daemon = "up" /\ pc[p] = "idle"
    /\ requests < MaxRequests /\ requests' = requests + 1
    /\ \E u \in Uids : auth_capable(u)
    /\ \E r \in Requests :
          /\ r.op \in Ops
          /\ r.op # "owner_remove" => (r.user = None <=> r.op \in GroupOps)
          /\ (r.op \notin GroupOps) => r.group = CHOOSE g \in Groups : TRUE
          /\ r.op \in UserOps => r.xid = None
          /\ r.op \in {"owner_add", "owner_remove"} => r.xid # None
          /\ r.op # "user_set" => ~r.admin
          /\ req' = [req EXCEPT ![p] = r]
          /\ Goto(p, CASE r.op \in GroupOps -> "gid"
                       [] r.op = "owner_remove" -> "xid"
                       [] OTHER -> "uid")
    /\ UNCHANGED <<accounts, maps, vps, daemon, locals>>

(* Mutant: a user that does not exist is not refused (MENOUSER). *)
GetUid_NoCheck(p) ==
    /\ pc[p] = "uid"
    /\ uid' = [uid EXCEPT ![p] = auth_getuid(req[p].user)]
    /\ Goto(p, CASE req[p].op = "owner_add" -> "xid"
                 [] req[p].op = "owner_remove" -> "unmap"
                 [] OTHER -> "password")
    /\ UNCHANGED <<accounts, maps, vps, daemon, req, gid, xid, requests>>

(* auth_getuid of the user the method is about: MENOUSER, but vcd.user.set *)
(* adds a user it does not find, unless the password is bad.               *)
GetUid(p) ==
    LET r == req[p]
        u == auth_getuid(r.user)
    IN
    /\ pc[p] = "uid"
    /\ \/ /\ u # 0 \/ r.op = "user_set" \/ r.user = None
          /\ uid' = [uid EXCEPT ![p] = u]
          /\ Goto(p, CASE r.op = "user_set" ->
                              IF u = 0 THEN "nextuid" ELSE "admin"
                       [] r.op = "user_remove" -> "delete"
                       [] r.op \in {"caps_add", "caps_remove"} -> "caps"
                       [] r.op = "owner_add" -> "xid"
                       [] r.op = "owner_remove" -> "unmap")
          /\ UNCHANGED <<req, gid, xid>>
       \/ u = 0 /\ r.user # None /\ Done(p)
    /\ UNCHANGED <<accounts, maps, vps, daemon, requests>>

(* vxdb_getxid of the vserver: MENOVPS.  vg.add and vg.remove without a    *)
(* name do not ask.                                                        *)
GetXid(p) ==
    LET r == req[p] IN
    /\ pc[p] = "xid"
    /\ IF r.xid \in vps
       THEN /\ xid' = [xid EXCEPT ![p] = r.xid]
            /\ Goto(p, CASE r.op \in {"owner_add", "vg_add"} -> "map"
                         [] r.op = "vg_remove" -> "unmap"
                         [] r.op = "owner_remove" -> "uid")
            /\ UNCHANGED <<req, uid, gid>>
       ELSE Done(p)
    /\ UNCHANGED <<accounts, maps, vps, daemon, requests>>

-----------------------------------------------------------------------------
(* vcd.user.set *)

(* The highest uid plus one; beyond the bound MaxUid the insert fails. *)
GetNextUid(p) ==
    /\ pc[p] = "nextuid"
    /\ IF auth_getnextuid \in Uids
       THEN /\ uid' = [uid EXCEPT ![p] = auth_getnextuid]
            /\ Goto(p, "insert_user") /\ UNCHANGED <<req, gid, xid>>
       ELSE Done(p)
    /\ UNCHANGED <<accounts, maps, vps, daemon, requests>>

(* INSERT INTO user, refused by the unique indices on uid and on name, or  *)
(* by a busy database.                                                     *)
InsertUser(p) ==
    /\ pc[p] = "insert_user"
    /\ \/ /\ user[uid[p]] = None /\ auth_getuid(req[p].user) = 0
          /\ user' = [user EXCEPT ![uid[p]] = req[p].user]
          /\ admin' = IF req[p].admin THEN admin \cup {uid[p]} ELSE admin
       \/ UNCHANGED <<user, admin>>
    /\ Done(p)
    /\ UNCHANGED <<caps, maps, vps, daemon, requests>>

(* UPDATE user SET admin ... WHERE uid: no row, no change. *)
UpdateAdmin(p) ==
    /\ pc[p] = "admin"
    /\ \/ /\ admin' = IF user[uid[p]] = None THEN admin
                      ELSE IF req[p].admin THEN admin \cup {uid[p]}
                      ELSE admin \ {uid[p]}
          /\ Goto(p, "password") /\ UNCHANGED <<req, locals>>
       \/ Done(p) /\ UNCHANGED admin
    /\ UNCHANGED <<user, caps, maps, vps, daemon, requests>>

(* The password is checked and written last; passwords are not modelled. *)
UpdatePassword(p) ==
    /\ pc[p] = "password"
    /\ Done(p)
    /\ UNCHANGED <<accounts, maps, vps, daemon, requests>>

-----------------------------------------------------------------------------
(* Mutant: the owners stay. *)
m_vcd_user_remove_KeepsOwners(p) ==
    /\ pc[p] = "delete"
    /\ user' = [user EXCEPT ![uid[p]] = None]
    /\ admin' = admin \ {uid[p]}
    /\ caps' = [caps EXCEPT ![uid[p]] = {}]
    /\ Done(p)
    /\ UNCHANGED <<maps, vps, daemon, requests>>

(* vcd.user.remove: one transaction, which may find the database busy. *)
m_vcd_user_remove(p) ==
    /\ pc[p] = "delete"
    /\ \/ /\ user' = [user EXCEPT ![uid[p]] = None]
          /\ admin' = admin \ {uid[p]}
          /\ caps' = [caps EXCEPT ![uid[p]] = {}]
          /\ owner' = [x \in Xids |-> owner[x] \ {uid[p]}]
       \/ UNCHANGED <<accounts, owner>>
    /\ Done(p)
    /\ UNCHANGED <<group, member, vps, daemon, requests>>

(* vcd.user.caps.add, and vcd.user.caps.remove of one or of all; a busy    *)
(* database refuses.                                                       *)
m_vcd_user_caps_add(p) ==
    /\ pc[p] = "caps" /\ req[p].op = "caps_add"
    /\ \/ \E c \in vcd_caps_list : caps' = [caps EXCEPT ![uid[p]] = @ \cup {c}]
       \/ UNCHANGED caps
    /\ Done(p)
    /\ UNCHANGED <<user, admin, maps, vps, daemon, requests>>

m_vcd_user_caps_remove(p) ==
    /\ pc[p] = "caps" /\ req[p].op = "caps_remove"
    /\ \/ caps' = [caps EXCEPT ![uid[p]] = {}]
       \/ \E c \in vcd_caps_list : caps' = [caps EXCEPT ![uid[p]] = @ \ {c}]
       \/ UNCHANGED caps
    /\ Done(p)
    /\ UNCHANGED <<user, admin, maps, vps, daemon, requests>>

-----------------------------------------------------------------------------
(* Owners and groups *)

(* vxdb_getgid: vg.add makes a group it does not find, vg.remove faults    *)
(* (MENOVG).                                                               *)
GetGid(p) ==
    LET r == req[p]
        g == vxdb_getgid(r.group)
    IN
    /\ pc[p] = "gid"
    /\ \/ /\ g # 0 \/ r.op = "vg_add"
          /\ gid' = [gid EXCEPT ![p] = g]
          /\ Goto(p, CASE g = 0 -> "nextgid"
                       [] g # 0 /\ r.xid # None -> "xid"
                       [] g # 0 /\ r.xid = None /\ r.op = "vg_add" -> "map"
                       [] g # 0 /\ r.xid = None /\ r.op = "vg_remove" -> "unmap")
          /\ UNCHANGED <<req, uid, xid>>
       \/ g = 0 /\ r.op = "vg_remove" /\ Done(p)
    /\ UNCHANGED <<accounts, maps, vps, daemon, requests>>

GetNextGid(p) ==
    /\ pc[p] = "nextgid"
    /\ IF NextGid \in Gids
       THEN /\ gid' = [gid EXCEPT ![p] = NextGid]
            /\ Goto(p, "insert_group") /\ UNCHANGED <<req, uid, xid>>
       ELSE Done(p)
    /\ UNCHANGED <<accounts, maps, vps, daemon, requests>>

InsertGroup(p) ==
    /\ pc[p] = "insert_group"
    /\ \/ /\ group[gid[p]] = None /\ vxdb_getgid(req[p].group) = 0
          /\ group' = [group EXCEPT ![gid[p]] = req[p].group]
          /\ Goto(p, IF req[p].xid # None THEN "xid" ELSE "map")
          /\ UNCHANGED <<req, locals>>
       \/ Done(p) /\ UNCHANGED group
    /\ UNCHANGED <<accounts, owner, member, vps, daemon, requests>>

(* vxdb.owner.add and vg.add insert the pair of ids they have found; the   *)
(* unique index refuses a pair that is there, a busy database any pair.    *)
AddToMap(p) ==
    /\ pc[p] = "map"
    /\ \/ UNCHANGED <<owner, member>>
       \/ /\ req[p].op = "owner_add"
          /\ owner' = [owner EXCEPT ![xid[p]] = @ \cup {uid[p]}]
          /\ UNCHANGED member
       \/ /\ req[p].op = "vg_add" /\ xid[p] # None
          /\ member' = [member EXCEPT ![xid[p]] = @ \cup {gid[p]}]
          /\ UNCHANGED owner
    /\ Done(p)
    /\ UNCHANGED <<accounts, group, vps, daemon, requests>>

(* vxdb.owner.remove deletes one owner or, without a user, all of them;    *)
(* vg.remove takes one vserver out of the group or, without a name,        *)
(* deletes the group in one transaction.  A busy database refuses.         *)
RemoveFromMap(p) ==
    /\ pc[p] = "unmap"
    /\ \/ UNCHANGED <<owner, group, member>>
       \/ /\ req[p].op = "owner_remove"
          /\ owner' = [owner EXCEPT ![xid[p]] =
                         IF uid[p] = 0 THEN {} ELSE @ \ {uid[p]}]
          /\ UNCHANGED <<group, member>>
       \/ /\ req[p].op = "vg_remove" /\ xid[p] # None
          /\ member' = [member EXCEPT ![xid[p]] = @ \ {gid[p]}]
          /\ UNCHANGED <<owner, group>>
       \/ /\ req[p].op = "vg_remove" /\ xid[p] = None
          /\ member' = [x \in Xids |-> member[x] \ {gid[p]}]
          /\ group' = [group EXCEPT ![gid[p]] = None]
          /\ UNCHANGED owner
    /\ Done(p)
    /\ UNCHANGED <<accounts, vps, daemon, requests>>

-----------------------------------------------------------------------------
(* The transactions of vx.create and vx.remove, as far as they matter here: *)
(* vx.remove deletes the owners and the groups of the vserver.              *)
m_vx_create(p) ==
    /\ daemon = "up" /\ pc[p] = "idle"
    /\ \E x \in Xids \ vps : vps' = vps \cup {x}
    /\ UNCHANGED <<accounts, maps, daemon, pc, req, locals, requests>>

m_vx_remove(p) ==
    /\ daemon = "up" /\ pc[p] = "idle"
    /\ \E x \in vps :
          /\ vps' = vps \ {x}
          /\ owner' = [owner EXCEPT ![x] = {}]
          /\ member' = [member EXCEPT ![x] = {}]
    /\ UNCHANGED <<accounts, group, daemon, pc, req, locals, requests>>

-----------------------------------------------------------------------------
(* The daemon *)

(* The master exits, or reloads, when its children are done.  The bound    *)
(* MaxUid leaves room for two new users.                                   *)
Stop ==
    /\ daemon = "up" /\ \A p \in Procs : pc[p] = "idle"
    /\ auth_getnextuid < MaxUid
    /\ daemon' = "down"
    /\ UNCHANGED <<accounts, maps, vps, pc, req, locals, requests>>

(* The database after vxdb_create_user, or None if the unique index on the *)
(* name refuses the row, which ends the daemon.  t is <<user, admin, caps>> *)
vxdb_create_user(n, t) ==
    LET u == Greatest({i \in Uids : t[1][i] # None}) + 1 IN
    IF \E i \in Uids : t[1][i] = n THEN None
    ELSE << [t[1] EXCEPT ![u] = n],
            IF n = "admin" THEN t[2] \cup {u} ELSE t[2],
            [t[3] EXCEPT ![u] = IF n = "admin" THEN vcd_caps_list ELSE {"HELPER"}] >>

(* Mutant: the check asks for a user named admin, not for an admin. *)
vxdb_sanity_check_ByName(t0) ==
    LET t1 == IF \A u \in Uids : t0[1][u] # "admin"
              THEN vxdb_create_user("admin", t0) ELSE t0
    IN
    IF \A u \in Uids : t1[1][u] # "vshelper"
    THEN vxdb_create_user("vshelper", t1) ELSE t1

(* vxdb_sanity_check: no user, no admin, no vshelper; each lack is mended  *)
(* by a new user.                                                          *)
vxdb_sanity_check(t0) ==
    LET NoUser(t)   == \A u \in Uids : t[1][u] = None
        NoAdmin(t)  == t[2] = {}
        NoHelper(t) == \A u \in Uids : t[1][u] # "vshelper"
        t1 == IF NoUser(t0) THEN vxdb_create_user("admin", t0) ELSE t0
        t2 == IF NoAdmin(t1) THEN vxdb_create_user("admin", t1) ELSE t1
    IN
    IF t2 # None /\ NoHelper(t2) THEN vxdb_create_user("vshelper", t2) ELSE t2

(* Each start of the daemon checks the users again. *)
vxdb_init ==
    LET t == vxdb_sanity_check(<<user, admin, caps>>) IN
    /\ daemon # "up"
    /\ IF t = None
       THEN daemon' = "dead" /\ UNCHANGED accounts
       ELSE /\ daemon' = "up"
            /\ user' = t[1] /\ admin' = t[2] /\ caps' = t[3]
    /\ UNCHANGED <<maps, vps, pc, req, locals, requests>>

Next ==
    \/ \E p \in Procs :
          \/ Begin(p) \/ GetUid(p) \/ GetXid(p) \/ GetNextUid(p) \/ InsertUser(p)
          \/ UpdateAdmin(p) \/ UpdatePassword(p) \/ m_vcd_user_remove(p)
          \/ m_vcd_user_caps_add(p) \/ m_vcd_user_caps_remove(p)
          \/ GetGid(p) \/ GetNextGid(p) \/ InsertGroup(p)
          \/ AddToMap(p) \/ RemoveFromMap(p) \/ m_vx_create(p) \/ m_vx_remove(p)
    \/ Stop \/ vxdb_init

Spec == Init /\ [][Next]_vars

-----------------------------------------------------------------------------
(* Rows that belong to a user, a vserver or a group that does not exist.   *)
(* Uids, gids and xids are given out again, so the next user, vserver or   *)
(* group inherits them.                                                    *)
LostCaps == {u \in Uids : caps[u] # {} /\ user[u] = None}
LostOwners == {r \in Xids \X Uids :
                  r[2] \in owner[r[1]] /\ (r[1] \notin vps \/ user[r[2]] = None)}
LostMembers == {r \in Xids \X Gids :
                   r[2] \in member[r[1]] /\ (r[1] \notin vps \/ group[r[2]] = None)}

(* The child p inserts a row for an id that it has looked up and that was  *)
(* removed since.                                                          *)
InsertsLate(p, at, gone) == pc[p] = at /\ pc'[p] = "idle" /\ gone

(* The methods take no lock, so a row may outlive what it belongs to; but  *)
(* only because the INSERT of another method comes after the removal its   *)
(* look-up came before.  No removal of a user, a vserver or a group leaves *)
(* a row behind, whatever the other children have just inserted.           *)
RowsLostOnlyByRaces ==
    [][ /\ \A u \in LostCaps' \ LostCaps :
              \E p \in Procs : uid[p] = u /\ InsertsLate(p, "caps", user[u] = None)
        /\ \A r \in LostOwners' \ LostOwners :
              \E p \in Procs :
                 /\ xid[p] = r[1] /\ uid[p] = r[2]
                 /\ InsertsLate(p, "map", r[1] \notin vps \/ user[r[2]] = None)
        /\ \A r \in LostMembers' \ LostMembers :
              \E p \in Procs :
                 /\ xid[p] = r[1] /\ gid[p] = r[2]
                 /\ InsertsLate(p, "map", r[1] \notin vps \/ group[r[2]] = None)
      ]_vars

(* Whatever users were removed or changed, a daemon that comes up has an   *)
(* admin and the user of vshelper.                                         *)
UpWithAdminAndHelper ==
    [][daemon # "up" /\ daemon' = "up" =>
          /\ \E u \in admin' : user'[u] # None
          /\ \E u \in Uids : user'[u] = "vshelper"]_vars

(* The sanity check mends the users: "no admin user exists in the          *)
(* database" is a warning (vxdb.c), after which the daemon creates one.    *)
DaemonStarts == daemon # "dead"
=============================================================================
