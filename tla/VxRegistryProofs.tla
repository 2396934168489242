-------------------------- MODULE VxRegistryProofs --------------------------
(***************************************************************************)
(* Proofs about VxRegistry for every set of children, names, directories   *)
(* and tables, and every MaxXid.                                           *)
(***************************************************************************)
EXTENDS VxRegistry, TLAPS

CreatePCs == {"create_vdir", "unlink_old", "unlink", "find_xid", "mkdir",
              "fill", "insert", "undo"}

(* Which method a child is in, and which of its variables are set there. *)
ReqInv ==
    \A p \in Procs :
        /\ pc[p] # "idle" => req[p] \in Requests
        /\ pc[p] \in CreatePCs => req[p].op = "create" /\ p \in Creators
        /\ pc[p] \in {"remove_vdir", "delete", "runlink"} => req[p].op = "remove"
        /\ pc[p] \in {"rename_new", "update"} => req[p].op = "rename"
        /\ pc[p] = "set" => req[p].op \in {"set", "map"}
        /\ pc[p] = "xid" /\ req[p].op = "create" => p \in Creators
        /\ pc[p] \in {"remove_vdir", "delete", "update", "set", "unlink_old",
                      "mkdir", "fill", "insert"} => xid[p] \in Xids
        /\ pc[p] \in {"unlink_old", "unlink", "find_xid", "mkdir", "fill",
                      "insert", "undo", "delete", "runlink"} => dir[p] \in Vdirs

(* What the queries return. *)
LEMMA GetXidType ==
    ASSUME TypeOK, NEW n \in Names
    PROVE  /\ vxdb_getxid(n) \in Xids \cup {0}
           /\ vxdb_getxid(n) # 0 => vxdb_getxid(n) \in Xids
                                     /\ name[vxdb_getxid(n)] = n
  BY DEF vxdb_getxid, Xids

LEMMA GetVdirType ==
    ASSUME TypeOK, NEW n \in Names
    PROVE  vxdb_getvdir(n) \in Vdirs
  BY GetXidType DEF vxdb_getvdir, TypeOK, Vdirs

(* find_free_xid offers an xid in range that no vserver has. *)
LEMMA FreeXidIsFree ==
    ASSUME NEW x \in FreeXids
    PROVE  x \in Xids /\ x \notin Registered
  BY ConstantsAssumption DEF FreeXids, Registered, Xids

-----------------------------------------------------------------------------
WellFormed == TypeOK /\ ReqInv /\ TablesAgree

(* The end of a method, wherever it comes, resets what the child has. *)
LEMMA DoneType ==
    ASSUME TypeOK, ReqInv, NEW p \in Procs, Done(p)
    PROVE  /\ pc' \in [Procs -> PCs] /\ req' \in [Procs -> Requests \cup {None}]
           /\ xid' \in [Procs -> Xids \cup {0}]
           /\ dir' \in [Procs -> Vdirs \cup {None}]
           /\ holder' \in [Names -> Procs \cup {Free}]
           /\ ReqInv'
  <1> USE DEF TypeOK
  <1>1. /\ pc' \in [Procs -> PCs] /\ req' \in [Procs -> Requests \cup {None}]
        /\ xid' \in [Procs -> Xids \cup {0}]
        /\ dir' \in [Procs -> Vdirs \cup {None}]
        /\ holder' \in [Names -> Procs \cup {Free}]
    BY DEF Done, Goto, PCs
  <1>2. ReqInv'
    BY DEF Done, Goto, ReqInv, CreatePCs
  <1> QED
    BY <1>1, <1>2

(* Every step keeps the types, the requests, and the two tables together. *)
LEMMA WellFormedStep == WellFormed /\ [Next]_vars => WellFormed'
  <1> SUFFICES ASSUME WellFormed, [Next]_vars PROVE WellFormed'
    OBVIOUS
  <1> USE ConstantsAssumption DEF WellFormed
  <1>1. CASE UNCHANGED vars
    BY <1>1 DEF vars, TypeOK, ReqInv, TablesAgree
  <1>2. ASSUME NEW p \in Procs, Begin(p) PROVE WellFormed'
    <2>1. TypeOK'
      BY <1>2 DEF Begin, TypeOK, PCs, Goto, Mutex!Acquire, db
    <2>2. ReqInv'
      BY <1>2 DEF Begin, TypeOK, ReqInv, CreatePCs, Goto, db
    <2> QED
      BY <1>2, <2>1, <2>2 DEF Begin, TablesAgree, db
  <1>3. ASSUME NEW p \in Procs, GetXid(p) PROVE WellFormed'
    <2>1. CASE Done(p)
      BY <1>3, <2>1, DoneType DEF GetXid, TypeOK, TablesAgree, db
    <2>2. CASE ~Done(p)
      <3>1. req[p] \in Requests /\ req[p].name \in Names
        BY <1>3 DEF GetXid, ReqInv, Requests
      <3>2. TypeOK'
        BY <1>3, <2>2, <3>1, GetXidType DEF GetXid, TypeOK, PCs, Goto, Stay, db
      <3>3. ReqInv'
        BY <1>3, <2>2, <3>1, GetXidType
        DEF GetXid, TypeOK, ReqInv, CreatePCs, Goto, Stay, db, Requests, AllOps
      <3> QED
        BY <1>3, <3>2, <3>3 DEF GetXid, TablesAgree, db
    <2> QED
      BY <2>1, <2>2
  <1>4. ASSUME NEW p \in Procs, CheckVdir(p) PROVE WellFormed'
    <2>1. CASE Done(p)
      BY <1>4, <2>1, DoneType DEF CheckVdir, TypeOK, TablesAgree, db
    <2>2. CASE ~Done(p)
      <3>1. req[p] \in Requests /\ req[p].name \in Names
            /\ req[p].vdir \in Vdirs \cup {None}
        BY <1>4 DEF CheckVdir, ReqInv, Requests
      <3>2. (IF req[p].vdir # None THEN req[p].vdir
                                   ELSE vxdb_getvdir(req[p].name)) \in Vdirs
        BY <3>1, GetVdirType
      <3>3. TypeOK'
        BY <1>4, <2>2, <3>2 DEF CheckVdir, TypeOK, PCs, Goto, Stay, db
      <3>4. ReqInv'
        BY <1>4, <2>2, <3>2
        DEF CheckVdir, TypeOK, ReqInv, CreatePCs, Goto, Stay, db
      <3> QED
        BY <1>4, <3>3, <3>4 DEF CheckVdir, TablesAgree, db
    <2> QED
      BY <2>1, <2>2
  <1>5. ASSUME NEW p \in Procs, UnlinkOld(p) PROVE WellFormed'
    BY <1>5 DEF UnlinkOld, TypeOK, PCs, ReqInv, CreatePCs, TablesAgree, Goto,
                Stay, db
  <1>6. ASSUME NEW p \in Procs, UnlinkNew(p) PROVE WellFormed'
    BY <1>6 DEF UnlinkNew, TypeOK, PCs, ReqInv, CreatePCs, TablesAgree, Goto,
                Stay, db
  <1>7. ASSUME NEW p \in Procs, find_free_xid(p) PROVE WellFormed'
    <2>1. CASE Done(p)
      BY <1>7, <2>1, DoneType DEF find_free_xid, TypeOK, TablesAgree, db
    <2>2. CASE ~Done(p)
      <3>1. TypeOK'
        BY <1>7, <2>2, FreeXidIsFree
        DEF find_free_xid, TypeOK, PCs, Goto, Stay, db
      <3>2. ReqInv'
        BY <1>7, <2>2, FreeXidIsFree
        DEF find_free_xid, TypeOK, ReqInv, CreatePCs, Goto, Stay, db
      <3> QED
        BY <1>7, <3>1, <3>2 DEF find_free_xid, TablesAgree, db
    <2> QED
      BY <2>1, <2>2
  <1>8. ASSUME NEW p \in Procs, MakeVdir(p) PROVE WellFormed'
    <2>1. CASE Done(p)
      BY <1>8, <2>1, DoneType DEF MakeVdir, TypeOK, TablesAgree, db, ReqInv
    <2>2. CASE ~Done(p)
      BY <1>8, <2>2 DEF MakeVdir, TypeOK, PCs, ReqInv, CreatePCs, TablesAgree,
                        Goto, Stay, db
    <2> QED
      BY <2>1, <2>2
  <1>9. ASSUME NEW p \in Procs, make_vserver_filesystem(p) PROVE WellFormed'
    <2>1. CASE Done(p)
      BY <1>9, <2>1, DoneType
      DEF make_vserver_filesystem, TypeOK, TablesAgree, db, ReqInv
    <2>2. CASE ~Done(p)
      BY <1>9, <2>2 DEF make_vserver_filesystem, TypeOK, PCs, ReqInv, CreatePCs,
                        TablesAgree, Goto, Stay, db
    <2> QED
      BY <2>1, <2>2
  <1>10. ASSUME NEW p \in Procs, create_vxdb_entries(p) PROVE WellFormed'
    <2>1. req[p].name \in Names /\ xid[p] \in Xids /\ dir[p] \in Vdirs
          /\ dir[p] # None
      BY <1>10 DEF create_vxdb_entries, ReqInv, Requests, Vdirs
    <2>2. CASE Done(p)
      <3>1. pc'[p] = "idle"
        BY <2>2 DEF Done, Goto, TypeOK
      <3>2. /\ name' = [name EXCEPT ![xid[p]] = req[p].name]
            /\ vdir' = [vdir EXCEPT ![xid[p]] = dir[p]]
            /\ rows' = [rows EXCEPT ![xid[p]] =
                          (@ \ SweptByCreate) \cup (FilledByCreate \cap Tables)]
            /\ fs' = fs
        BY <1>10, <3>1 DEF create_vxdb_entries, Goto, TypeOK
      <3>3. /\ name' \in [Xids -> Names \cup {None}]
            /\ vdir' \in [Xids -> Vdirs \cup {None}]
            /\ fs' \in [Vdirs -> Xids \cup {None}]
        BY <2>1, <3>2 DEF TypeOK
      <3>4. rows' \in [Xids -> SUBSET Tables]
        BY <2>1, <3>2 DEF TypeOK
      <3>5. TablesAgree'
        BY <2>1, <3>2 DEF TypeOK, TablesAgree
      <3> QED
        BY <2>2, <3>3, <3>4, <3>5, DoneType DEF TypeOK
    <2>3. CASE ~Done(p)
      BY <1>10, <2>3 DEF create_vxdb_entries, TypeOK, PCs, ReqInv, CreatePCs,
                         TablesAgree, Goto, Stay, db
    <2> QED
      BY <2>2, <2>3
  <1>11. ASSUME NEW p \in Procs, UndoCreate(p) PROVE WellFormed'
    BY <1>11, DoneType DEF UndoCreate, TypeOK, TablesAgree, db
  <1>12. ASSUME NEW p \in Procs, RemoveVdir(p) PROVE WellFormed'
    <2>1. vxdb_getvdir(req[p].name) \in Vdirs
      BY <1>12, GetVdirType DEF RemoveVdir, ReqInv, Requests
    <2> QED
      BY <1>12, <2>1 DEF RemoveVdir, TypeOK, PCs, ReqInv, CreatePCs, TablesAgree,
                         Goto, Stay, db
  <1>13. ASSUME NEW p \in Procs, DeleteEntries(p) PROVE WellFormed'
    <2>1. CASE Done(p)
      BY <1>13, <2>1, DoneType DEF DeleteEntries, Done, Goto, TypeOK, TablesAgree, db
    <2>2. CASE ~Done(p)
      BY <1>13, <2>2 DEF DeleteEntries, TypeOK, PCs, ReqInv, CreatePCs,
                         TablesAgree, Goto, Stay, db
    <2> QED
      BY <2>1, <2>2
  <1>14. ASSUME NEW p \in Procs, RemoveTree(p) PROVE WellFormed'
    BY <1>14, DoneType DEF RemoveTree, TypeOK, TablesAgree, db
  <1>15. ASSUME NEW p \in Procs, RenameNew(p) PROVE WellFormed'
    <2>1. CASE Done(p)
      BY <1>15, <2>1, DoneType DEF RenameNew, TypeOK, TablesAgree, db
    <2>2. CASE ~Done(p)
      BY <1>15, <2>2 DEF RenameNew, TypeOK, PCs, ReqInv, CreatePCs, TablesAgree,
                         Goto, Stay, db
    <2> QED
      BY <2>1, <2>2
  <1>16. ASSUME NEW p \in Procs, UpdateName(p) PROVE WellFormed'
    <2>1. req[p].newname \in Names /\ xid[p] \in Xids
      BY <1>16 DEF UpdateName, ReqInv, Requests
    <2>2. name' \in [Xids -> Names \cup {None}]
          /\ \A x \in Xids : name'[x] = None <=> name[x] = None
      BY <1>16, <2>1 DEF UpdateName, TypeOK
    <2> QED
      BY <1>16, <2>2, DoneType DEF UpdateName, TypeOK, TablesAgree
  <1>17. ASSUME NEW p \in Procs, WriteConfig(p) PROVE WellFormed'
    BY <1>17, DoneType DEF WriteConfig, TypeOK, TablesAgree
  <1>18. ASSUME NEW p \in Procs, Die(p) PROVE WellFormed'
    BY <1>18, DoneType DEF Die, TypeOK, TablesAgree, db
  <1> QED
    BY <1>1, <1>2, <1>3, <1>4, <1>5, <1>6, <1>7, <1>8, <1>9, <1>10, <1>11,
       <1>12, <1>13, <1>14, <1>15, <1>16, <1>17, <1>18 DEF Next

(* What is always true, however many creators there are. *)
LEMMA WellFormedAlways == Spec => []WellFormed
  <1>1. Init => WellFormed
    BY ConstantsAssumption
    DEF Init, WellFormed, TypeOK, ReqInv, CreatePCs, TablesAgree, PCs
  <1> QED
    BY <1>1, WellFormedStep, PTL DEF Spec

(* Every statement and every step on a tree keeps the types: in particular *)
(* find_free_xid and the queries only ever return xids in range, and a     *)
(* child has an xid and a directory wherever it uses them.                 *)
THEOREM TypeCorrect == Spec => []TypeOK
  <1>1. WellFormed => TypeOK
    BY DEF WellFormed
  <1> QED
    BY <1>1, WellFormedAlways, PTL

(* xid_name_map and vdir always have rows for the same xids, however many  *)
(* children create, remove and rename vservers: a crash between two steps  *)
(* of a method leaves both tables or neither changed.                      *)
THEOREM TablesStayTogether == Spec => [](TypeOK /\ TablesAgree)
  <1>1. WellFormed => TypeOK /\ TablesAgree
    BY DEF WellFormed
  <1> QED
    BY <1>1, WellFormedAlways, PTL

-----------------------------------------------------------------------------
(* With a single creator (two of them may be given the same free xid) the  *)
(* lock of the name protects what a child has looked up.                   *)

OneCreator == \A p, q \in Creators : p = q

(* A child in the middle of a locked method holds the lock of its name. *)
HoldsLock ==
    \A p \in Procs : pc[p] # "idle" =>
        /\ req[p].op \in Ops
        /\ Locked(req[p].op) => holder[req[p].name] = p

(* The xid a locked method has looked up is bound to the method's name. *)
Bound ==
    \A p \in Procs :
        /\ pc[p] \in {"remove_vdir", "delete", "update", "set"}
           /\ Locked(req[p].op) => name[xid[p]] = req[p].name
        /\ pc[p] \in {"create_vdir", "unlink_old", "unlink", "find_xid"}
           /\ xid[p] # 0 => name[xid[p]] = req[p].name
        /\ pc[p] = "unlink_old" => xid[p] # 0

(* The xid vx.create goes on with is its vserver's or nobody's. *)
OursOrFree ==
    \A p \in Procs : pc[p] \in {"mkdir", "fill", "insert"} =>
        name[xid[p]] \in {None, req[p].name}

LockedInv == WellFormed /\ HoldsLock /\ Bound /\ OursOrFree

(* What a step that leaves xid_name_map alone may do to one child. *)
LEMMA DoneLocked ==
    ASSUME LockedInv, NEW p \in Procs, Done(p), UNCHANGED name
    PROVE  HoldsLock' /\ Bound' /\ OursOrFree'
  <1> USE ConstantsAssumption DEF LockedInv, WellFormed
  <1>1. HoldsLock'
    BY DEF Done, Goto, HoldsLock, TypeOK, ReqInv, Requests
  <1>2. Bound'
    BY DEF Done, Goto, Bound, TypeOK
  <1>3. OursOrFree'
    BY DEF Done, Goto, OursOrFree, TypeOK
  <1> QED
    BY <1>1, <1>2, <1>3

LEMMA LockedStep ==
    ASSUME OneCreator
    PROVE  LockedInv /\ [Next]_vars => LockedInv'
  <1> SUFFICES ASSUME LockedInv, [Next]_vars
               PROVE  HoldsLock' /\ Bound' /\ OursOrFree'
    BY WellFormedStep DEF LockedInv
  <1> USE ConstantsAssumption DEF LockedInv, WellFormed
  <1>1. CASE UNCHANGED vars
    BY <1>1 DEF vars, HoldsLock, Bound, OursOrFree
  <1>2. ASSUME NEW p \in Procs, Begin(p) PROVE HoldsLock' /\ Bound' /\ OursOrFree'
    <2>1. HoldsLock'
      <3>1. PICK r \in Requests :
               /\ r.op \in Ops
               /\ req' = [req EXCEPT ![p] = r]
               /\ IF Locked(r.op) THEN Mutex!Acquire(p, r.name) ELSE UNCHANGED holder
        BY <1>2 DEF Begin
      <3>2. \A q \in Procs \ {p} : pc'[q] = pc[q] /\ req'[q] = req[q]
        BY <1>2, <3>1 DEF Begin, Goto, TypeOK
      <3>3. req'[p] = r
        BY <3>1 DEF TypeOK
      <3>4. \A n \in Names : holder[n] # Free => holder'[n] = holder[n]
        BY <3>1 DEF Mutex!Acquire, Requests, TypeOK
      <3>5. Locked(r.op) => holder'[r.name] = p
        BY <3>1 DEF Mutex!Acquire, Requests, TypeOK
      <3> QED
        BY <3>1, <3>2, <3>3, <3>4, <3>5 DEF HoldsLock, ReqInv, Requests
    <2>2. Bound' /\ OursOrFree'
      BY <1>2 DEF Begin, Bound, OursOrFree, TypeOK, Goto, db
    <2> QED
      BY <2>1, <2>2
  <1>3. ASSUME NEW p \in Procs, GetXid(p) PROVE HoldsLock' /\ Bound' /\ OursOrFree'
    <2>1. CASE Done(p)
      BY <1>3, <2>1, DoneLocked DEF GetXid, db
    <2>2. CASE ~Done(p)
      <3>1. req[p] \in Requests /\ req[p].name \in Names
        BY <1>3 DEF GetXid, ReqInv, Requests
      <3>2. xid'[p] # 0 => name[xid'[p]] = req[p].name
        BY <1>3, <2>2, <3>1, GetXidType DEF GetXid, TypeOK
      <3>3. req[p].op # "create" => xid'[p] # 0
        BY <1>3, <2>2, <3>1, GetXidType DEF GetXid, TypeOK
      <3>4. pc'[p] = CASE req[p].op = "create" -> "create_vdir"
                       [] req[p].op = "remove" -> "remove_vdir"
                       [] req[p].op = "rename" -> "update"
                       [] OTHER -> "set"
        BY <1>3, <2>2 DEF GetXid, Goto, TypeOK
      <3>5. /\ req[p].op = "create" => pc'[p] = "create_vdir"
            /\ req[p].op # "create" => pc'[p] \in {"remove_vdir", "update", "set"}
        BY <3>4
      <3>6. \A q \in Procs \ {p} : pc'[q] = pc[q] /\ xid'[q] = xid[q]
        BY <1>3, <2>2 DEF GetXid, Goto, TypeOK
      <3>7. UNCHANGED <<name, holder, req>>
        BY <1>3, <2>2 DEF GetXid, Stay, db
      <3>8. HoldsLock'
        BY <1>3, <3>6, <3>7 DEF GetXid, HoldsLock, ReqInv
      <3> QED
        BY <3>2, <3>3, <3>5, <3>6, <3>7, <3>8 DEF Bound, OursOrFree
    <2> QED
      BY <2>1, <2>2
  <1>4. ASSUME NEW p \in Procs, CheckVdir(p) PROVE HoldsLock' /\ Bound' /\ OursOrFree'
    <2>1. CASE Done(p)
      BY <1>4, <2>1, DoneLocked DEF CheckVdir, db
    <2>2. CASE ~Done(p)
      BY <1>4, <2>2 DEF CheckVdir, TypeOK, HoldsLock, Bound, OursOrFree, Goto, Stay, db
    <2> QED
      BY <2>1, <2>2
  <1>5. ASSUME NEW p \in Procs, UnlinkOld(p) \/ UnlinkNew(p) \/ RemoveVdir(p)
        PROVE  HoldsLock' /\ Bound' /\ OursOrFree'
    BY <1>5 DEF UnlinkOld, UnlinkNew, RemoveVdir, TypeOK, HoldsLock, Bound,
                OursOrFree, Goto, Stay, db
  <1>6. ASSUME NEW p \in Procs, find_free_xid(p)
        PROVE  HoldsLock' /\ Bound' /\ OursOrFree'
    <2>1. CASE Done(p)
      BY <1>6, <2>1, DoneLocked DEF find_free_xid, db
    <2>2. CASE ~Done(p)
      <3>1. name[xid'[p]] \in {None, req[p].name}
        BY <1>6, <2>2, FreeXidIsFree
        DEF find_free_xid, TypeOK, Bound, Registered
      <3>2. HoldsLock' /\ Bound'
        BY <1>6, <2>2 DEF find_free_xid, TypeOK, HoldsLock, Bound, Goto, Stay, db
      <3> QED
        BY <1>6, <2>2, <3>1, <3>2
        DEF find_free_xid, TypeOK, OursOrFree, Goto, Stay, db
    <2> QED
      BY <2>1, <2>2
  <1>7. ASSUME NEW p \in Procs, MakeVdir(p) \/ make_vserver_filesystem(p)
        PROVE  HoldsLock' /\ Bound' /\ OursOrFree'
    <2>1. CASE Done(p)
      BY <1>7, <2>1, DoneLocked DEF MakeVdir, make_vserver_filesystem, db
    <2>2. CASE ~Done(p)
      BY <1>7, <2>2 DEF MakeVdir, make_vserver_filesystem, TypeOK, HoldsLock,
                        Bound, OursOrFree, Goto, Stay, db
    <2> QED
      BY <2>1, <2>2
  <1>8. ASSUME NEW p \in Procs, create_vxdb_entries(p)
        PROVE  HoldsLock' /\ Bound' /\ OursOrFree'
    <2>1. xid[p] \in Xids /\ req[p].op = "create" /\ p \in Creators
          /\ name[xid[p]] \in {None, req[p].name} /\ pc[p] = "insert"
      BY <1>8 DEF create_vxdb_entries, ReqInv, CreatePCs, OursOrFree
    <2>2. CASE name' = name
      <3>1. CASE Done(p)
        BY <2>2, <3>1, DoneLocked
      <3>2. CASE ~Done(p)
        BY <1>8, <3>2 DEF create_vxdb_entries, TypeOK, HoldsLock, Bound,
                          OursOrFree, Goto, Stay, db
      <3> QED
        BY <3>1, <3>2
    <2>3. CASE name' # name
      <3>1. Done(p) /\ name' = [name EXCEPT ![xid[p]] = req[p].name]
        BY <1>8, <2>3 DEF create_vxdb_entries, db
      <3>2. HoldsLock'
        BY <3>1 DEF Done, Goto, HoldsLock, TypeOK, ReqInv, Requests
      <3>3. name[xid[p]] = None
        BY <2>1, <2>3, <3>1 DEF TypeOK
      <3>4. \A q \in Procs \ {p} : pc[q] \notin CreatePCs
        BY <2>1 DEF OneCreator, ReqInv
      <3>5. \A q \in Procs \ {p} : pc'[q] = pc[q] /\ req'[q] = req[q] /\ xid'[q] = xid[q]
        BY <3>1 DEF Done, Goto, TypeOK
      <3>6. pc'[p] = "idle"
        BY <3>1 DEF Done, Goto, TypeOK
      <3>7. \A q \in Procs : pc[q] # "idle" => req[q].name # None
        BY DEF ReqInv, Requests
      <3>8. Bound'
        BY <2>1, <3>1, <3>3, <3>4, <3>5, <3>6, <3>7 DEF Bound, CreatePCs, TypeOK, ReqInv
      <3>9. OursOrFree'
        BY <3>4, <3>5, <3>6 DEF OursOrFree, CreatePCs
      <3> QED
        BY <3>2, <3>8, <3>9
    <2> QED
      BY <2>2, <2>3
  <1>9. ASSUME NEW p \in Procs, DeleteEntries(p) \/ UpdateName(p)
        PROVE  HoldsLock' /\ Bound' /\ OursOrFree'
    <2>1. /\ xid[p] \in Xids /\ req[p] \in Requests /\ pc[p] \in {"delete", "update"}
          /\ name[xid[p]] = req[p].name /\ holder[req[p].name] = p
      BY <1>9 DEF DeleteEntries, UpdateName, ReqInv, Bound, HoldsLock, Locked
    <2>2. \A y \in Xids \ {xid[p]} : name'[y] = name[y]
      BY <1>9, <2>1 DEF DeleteEntries, UpdateName, TypeOK, db
    <2>3. \A q \in Procs \ {p} : pc'[q] = pc[q] /\ req'[q] = req[q] /\ xid'[q] = xid[q]
      BY <1>9 DEF DeleteEntries, UpdateName, Done, Goto, Stay, TypeOK
    <2>4. pc'[p] \in {"idle", "runlink"}
      BY <1>9 DEF DeleteEntries, UpdateName, Done, Goto, TypeOK
    <2>5. HoldsLock'
      <3>1. CASE Done(p)
        BY <3>1 DEF Done, Goto, HoldsLock, TypeOK, ReqInv, Requests
      <3>2. CASE ~Done(p)
        BY <1>9, <3>2 DEF DeleteEntries, UpdateName, HoldsLock, Goto, Stay, TypeOK
      <3> QED
        BY <3>1, <3>2
    <2>6. \A q \in Procs \ {p} :
             pc[q] # "idle" /\ Locked(req[q].op) => req[q].name # req[p].name
      BY <2>1 DEF HoldsLock
    <2>7. \A q \in Procs : pc[q] \in CreatePCs => Locked(req[q].op)
      BY DEF ReqInv, Locked
    <2>8. Bound'
      BY <2>1, <2>2, <2>3, <2>4, <2>6, <2>7 DEF Bound, CreatePCs, TypeOK, ReqInv
    <2>9. OursOrFree'
      <3> SUFFICES ASSUME NEW q \in Procs, pc'[q] \in {"mkdir", "fill", "insert"}
                   PROVE  name'[xid'[q]] \in {None, req'[q].name}
        BY DEF OursOrFree
      <3>1. q # p /\ pc[q] = pc'[q] /\ req'[q] = req[q] /\ xid'[q] = xid[q]
        BY <2>3, <2>4
      <3>2. xid[q] \in Xids /\ name[xid[q]] \in {None, req[q].name}
        BY <3>1 DEF OursOrFree, ReqInv
      <3>3. req[q].name # req[p].name
        BY <2>6, <2>7, <3>1 DEF CreatePCs
      <3>4. xid[q] # xid[p]
        BY <2>1, <3>2, <3>3 DEF Requests
      <3> QED
        BY <2>2, <3>1, <3>2, <3>4
    <2> QED
      BY <2>5, <2>8, <2>9
  <1>10. ASSUME NEW p \in Procs, RenameNew(p) PROVE HoldsLock' /\ Bound' /\ OursOrFree'
    <2>1. CASE Done(p)
      BY <1>10, <2>1, DoneLocked DEF RenameNew, db
    <2>2. CASE ~Done(p)
      BY <1>10, <2>2 DEF RenameNew, TypeOK, HoldsLock, Bound, OursOrFree, Goto, Stay, db
    <2> QED
      BY <2>1, <2>2
  <1>11. ASSUME NEW p \in Procs,
                UndoCreate(p) \/ RemoveTree(p) \/ WriteConfig(p) \/ Die(p)
         PROVE  HoldsLock' /\ Bound' /\ OursOrFree'
    BY <1>11, DoneLocked DEF UndoCreate, RemoveTree, WriteConfig, Die, db
  <1> QED
    BY <1>1, <1>2, <1>3, <1>4, <1>5, <1>6, <1>7, <1>8, <1>9, <1>10, <1>11 DEF Next

(* What is always true with a single creator. *)
LEMMA LockedAlways == ASSUME OneCreator PROVE Spec => []LockedInv
  <1>1. Init => LockedInv
    BY ConstantsAssumption
    DEF Init, LockedInv, WellFormed, TypeOK, ReqInv, CreatePCs, TablesAgree, PCs,
        HoldsLock, Bound, OursOrFree
  <1> QED
    BY <1>1, LockedStep, PTL DEF Spec

(* A method that holds the lock of a name acts on the xid it looked up for *)
(* that name until it ends, whatever the other children do: the statements *)
(* of vx.remove, vx.rename, the configuration methods and a rebuild hit    *)
(* the vserver they checked.                                               *)
THEOREM BindingIsStable == ASSUME OneCreator PROVE Spec => []StableBinding
  <1>1. LockedInv => StableBinding
    BY DEF LockedInv, StableBinding, Bound
  <1> QED
    BY <1>1, LockedAlways, PTL

(* With a single creator the row of a registered vserver changes only in a *)
(* step of the child that holds the lock of its name.                      *)
THEOREM HolderChanges == ASSUME OneCreator PROVE Spec => OnlyHolderChanges
  <1> DEFINE Kept == \A x \in Xids : name[x] # None /\ name'[x] # name[x] =>
                        \E p \in Procs : holder[name[x]] = p /\ pc'[p] # pc[p]
  <1>1. LockedInv /\ [Next]_vars => [Kept]_vars
    <2> SUFFICES ASSUME LockedInv, Next, name' # name PROVE Kept
      BY DEF vars, LockedInv, WellFormed, TypeOK
    <2> USE DEF LockedInv, WellFormed
    <2>1. PICK p \in Procs : create_vxdb_entries(p) \/ DeleteEntries(p) \/ UpdateName(p)
      BY DEF Next, Begin, GetXid, CheckVdir, UnlinkOld, UnlinkNew, find_free_xid,
             MakeVdir, make_vserver_filesystem, UndoCreate, RemoveVdir, RemoveTree,
             RenameNew, WriteConfig, Die, db
    <2>2. CASE create_vxdb_entries(p)
      <3>1. xid[p] \in Xids /\ name[xid[p]] \in {None, req[p].name}
        BY <2>2 DEF create_vxdb_entries, ReqInv, OursOrFree
      <3>2. name' = [name EXCEPT ![xid[p]] = req[p].name]
        BY <2>2 DEF create_vxdb_entries, db
      <3> QED
        BY <3>1, <3>2 DEF TypeOK
    <2>3. CASE DeleteEntries(p) \/ UpdateName(p)
      <3>1. /\ xid[p] \in Xids /\ pc[p] \in {"delete", "update"}
            /\ name[xid[p]] = req[p].name /\ holder[req[p].name] = p
        BY <2>3 DEF DeleteEntries, UpdateName, ReqInv, Bound, HoldsLock, Locked
      <3>2. \A y \in Xids \ {xid[p]} : name'[y] = name[y]
        BY <2>3, <3>1 DEF DeleteEntries, UpdateName, TypeOK, db
      <3>3. pc'[p] \in {"idle", "runlink"}
        BY <2>3 DEF DeleteEntries, UpdateName, Done, Goto, TypeOK
      <3> QED
        BY <3>1, <3>2, <3>3
    <2> QED
      BY <2>1, <2>2, <2>3
  <1> QED
    BY <1>1, LockedAlways, PTL DEF Spec, OnlyHolderChanges

(* The tables vx.remove empties, written by locked methods only: no xid    *)
(* that is not registered has rows in them, so that a vserver that gets a  *)
(* used xid starts without the configuration of the one before it.         *)
THEOREM NoOrphans ==
    ASSUME OneCreator, Tables \subseteq SweptByRemove, "map" \notin Ops
    PROVE  Spec => []NoOrphanRows
  <1>1. Init => NoOrphanRows
    BY DEF Init, NoOrphanRows
  <1>2. LockedInv /\ NoOrphanRows /\ [Next]_vars => NoOrphanRows'
    <2> SUFFICES ASSUME LockedInv, NoOrphanRows, [Next]_vars PROVE NoOrphanRows'
      OBVIOUS
    <2> USE DEF LockedInv, WellFormed
    <2>1. CASE UNCHANGED <<name, rows>>
      BY <2>1 DEF NoOrphanRows
    <2>2. CASE ~UNCHANGED <<name, rows>>
      <3>1. PICK p \in Procs : \/ create_vxdb_entries(p) \/ DeleteEntries(p)
                               \/ UpdateName(p) \/ WriteConfig(p)
        BY <2>2 DEF vars, Next, Begin, GetXid, CheckVdir, UnlinkOld, UnlinkNew,
                    find_free_xid, MakeVdir, make_vserver_filesystem, UndoCreate,
                    RemoveVdir, RemoveTree, RenameNew, Die, db
      <3>2. xid[p] \in Xids /\ req[p] \in Requests
        BY <3>1 DEF create_vxdb_entries, DeleteEntries, UpdateName, WriteConfig, ReqInv
      <3>3. CASE create_vxdb_entries(p)
        <4>1. /\ name' = [name EXCEPT ![xid[p]] = req[p].name]
              /\ \A y \in Xids \ {xid[p]} : rows'[y] = rows[y]
          BY <2>2, <3>2, <3>3 DEF create_vxdb_entries, TypeOK, db
        <4> QED
          BY <3>2, <4>1, ConstantsAssumption DEF NoOrphanRows, TypeOK, Requests
      <3>4. CASE DeleteEntries(p)
        <4>1. /\ name' = [name EXCEPT ![xid[p]] = None]
              /\ rows' = [rows EXCEPT ![xid[p]] = @ \ SweptByRemove]
          BY <2>2, <3>4 DEF DeleteEntries, db
        <4>2. rows'[xid[p]] = {}
          BY <3>2, <4>1 DEF TypeOK
        <4> QED
          BY <3>2, <4>1, <4>2 DEF NoOrphanRows, TypeOK
      <3>5. CASE UpdateName(p)
        BY <3>2, <3>5, ConstantsAssumption
        DEF UpdateName, NoOrphanRows, TypeOK, Requests
      <3>6. CASE WriteConfig(p)
        <4>1. name[xid[p]] # None
          BY <3>2, <3>6, ConstantsAssumption
          DEF WriteConfig, ReqInv, HoldsLock, Locked, Bound, Requests
        <4> QED
          BY <3>2, <3>6, <4>1 DEF WriteConfig, NoOrphanRows, TypeOK
      <3> QED
        BY <3>1, <3>3, <3>4, <3>5, <3>6
    <2> QED
      BY <2>1, <2>2
  <1> QED
    BY <1>1, <1>2, LockedAlways, PTL DEF Spec

-----------------------------------------------------------------------------
(* Directory trees, with any number of creators.  As long as no admin      *)
(* passes a directory and nothing is renamed, the directory of a vserver   *)
(* is the one of its name, so the lock of the name protects the tree too,  *)
(* even where two creators are given the same xid.                         *)

OwnDirs == ExplicitVdirs = {} /\ "rename" \notin Ops

DirsInv ==
    /\ \A x \in Xids : vdir[x] \in {None, name[x]}
    /\ \A p \in Procs :
          /\ pc[p] = "idle" => dir[p] = None
          /\ pc[p] # "idle" => req[p].vdir = None /\ dir[p] \in {None, req[p].name}

(* What vx.create has built is in its directory until it is registered. *)
BuiltInv == \A p \in Procs : pc[p] \in {"fill", "insert"} => fs[dir[p]] = xid[p]

TreesInv == WellFormed /\ HoldsLock /\ DirsInv /\ BuiltInv

LEMMA GetVdirIsName ==
    ASSUME TypeOK, DirsInv, NEW n \in Names
    PROVE  vxdb_getvdir(n) = n
  BY GetXidType DEF vxdb_getvdir, DirsInv

(* The end of a method leaves the locks of the other children alone. *)
LEMMA DoneHolds ==
    ASSUME TypeOK, ReqInv, HoldsLock, NEW p \in Procs, Done(p)
    PROVE  HoldsLock'
  BY ConstantsAssumption DEF Done, Goto, HoldsLock, TypeOK, ReqInv, Requests

LEMMA HoldsLockStep == WellFormed /\ HoldsLock /\ [Next]_vars => HoldsLock'
  <1> SUFFICES ASSUME TypeOK, ReqInv, HoldsLock, [Next]_vars PROVE HoldsLock'
    BY DEF WellFormed
  <1>1. CASE UNCHANGED vars
    BY <1>1 DEF vars, HoldsLock
  <1>2. ASSUME NEW p \in Procs, Begin(p) PROVE HoldsLock'
    <2>1. PICK r \in Requests :
             /\ r.op \in Ops
             /\ req' = [req EXCEPT ![p] = r]
             /\ IF Locked(r.op) THEN Mutex!Acquire(p, r.name) ELSE UNCHANGED holder
      BY <1>2 DEF Begin
    <2>2. \A q \in Procs \ {p} : pc'[q] = pc[q] /\ req'[q] = req[q]
      BY <1>2, <2>1 DEF Begin, Goto, TypeOK
    <2>3. req'[p] = r
      BY <2>1 DEF TypeOK
    <2>4. \A n \in Names : holder[n] # Free => holder'[n] = holder[n]
      BY <2>1 DEF Mutex!Acquire, Requests, TypeOK
    <2>5. Locked(r.op) => holder'[r.name] = p
      BY <2>1 DEF Mutex!Acquire, Requests, TypeOK
    <2> QED
      BY <2>1, <2>2, <2>3, <2>4, <2>5, ConstantsAssumption DEF HoldsLock, ReqInv, Requests
  <1>3. ASSUME NEW p \in Procs, pc[p] # "idle", Stay,
               \A q \in Procs \ {p} : pc'[q] = pc[q]
        PROVE  HoldsLock'
    BY <1>3 DEF HoldsLock, Stay
  <1>4. ASSUME NEW p \in Procs, NEW l, Goto(p, l), pc[p] # "idle", Stay PROVE HoldsLock'
    BY <1>3, <1>4 DEF Goto, TypeOK
  <1>5. ASSUME NEW p \in Procs, Done(p) PROVE HoldsLock'
    BY <1>5, DoneHolds
  <1>6. ASSUME NEW p \in Procs,
               \/ GetXid(p) \/ CheckVdir(p) \/ UnlinkOld(p) \/ UnlinkNew(p) \/ find_free_xid(p)
               \/ MakeVdir(p) \/ make_vserver_filesystem(p) \/ create_vxdb_entries(p)
        PROVE  HoldsLock'
    BY <1>4, <1>5, <1>6 DEF GetXid, CheckVdir, UnlinkOld, UnlinkNew, find_free_xid, MakeVdir,
                            make_vserver_filesystem, create_vxdb_entries
  <1>7. ASSUME NEW p \in Procs,
               \/ UndoCreate(p) \/ RemoveVdir(p) \/ DeleteEntries(p) \/ RemoveTree(p)
               \/ RenameNew(p) \/ UpdateName(p) \/ WriteConfig(p) \/ Die(p)
        PROVE  HoldsLock'
    BY <1>4, <1>5, <1>7 DEF UndoCreate, RemoveVdir, DeleteEntries, RemoveTree, RenameNew,
                            UpdateName, WriteConfig, Die
  <1> QED
    BY <1>1, <1>2, <1>6, <1>7 DEF Next

LEMMA DirsStep ==
    ASSUME OwnDirs
    PROVE  WellFormed /\ HoldsLock /\ DirsInv /\ [Next]_vars => DirsInv'
  <1> SUFFICES ASSUME TypeOK, ReqInv, HoldsLock, DirsInv, [Next]_vars PROVE DirsInv'
    BY DEF WellFormed
  <1>1. CASE UNCHANGED vars
    BY <1>1 DEF vars, DirsInv
  <1>2. ASSUME NEW p \in Procs, Done(p), UNCHANGED <<name, vdir>> PROVE DirsInv'
    BY <1>2 DEF Done, Goto, DirsInv, TypeOK
  <1>3. ASSUME NEW p \in Procs, NEW l, Goto(p, l), l # "idle", pc[p] # "idle",
               UNCHANGED <<name, vdir, req, dir>>
        PROVE  DirsInv'
    BY <1>3 DEF Goto, DirsInv, TypeOK
  <1>4. ASSUME NEW p \in Procs, Begin(p) PROVE DirsInv'
    <2>1. PICK r \in Requests :
             r.vdir \in {None} \cup (IF r.op = "create" THEN ExplicitVdirs ELSE {})
             /\ req' = [req EXCEPT ![p] = r]
      BY <1>4 DEF Begin
    <2>2. r.vdir = None
      BY <2>1 DEF OwnDirs
    <2>3. dir[p] = None /\ UNCHANGED <<name, vdir, dir>>
      BY <1>4 DEF Begin, DirsInv, db
    <2>4. pc'[p] # "idle" /\ \A q \in Procs \ {p} : pc'[q] = pc[q]
      BY <1>4 DEF Begin, Goto, TypeOK
    <2> QED
      BY <2>1, <2>2, <2>3, <2>4 DEF DirsInv, TypeOK
  <1>5. ASSUME NEW p \in Procs, GetXid(p) PROVE DirsInv'
    <2>1. CASE Done(p)
      BY <1>2, <1>5, <2>1 DEF GetXid, db
    <2>2. CASE ~Done(p)
      <3> DEFINE l == CASE req[p].op = "create" -> "create_vdir"
                        [] req[p].op = "remove" -> "remove_vdir"
                        [] req[p].op = "rename" -> "update"
                        [] OTHER -> "set"
      <3>1. l # "idle"
        OBVIOUS
      <3>2. Goto(p, l) /\ pc[p] # "idle" /\ UNCHANGED <<name, vdir, req, dir>>
        BY <1>5, <2>2 DEF GetXid, db, Stay
      <3> HIDE DEF l
      <3> QED
        BY <1>3, <3>1, <3>2
    <2> QED
      BY <2>1, <2>2
  <1>6. ASSUME NEW p \in Procs, CheckVdir(p) \/ RemoveVdir(p) PROVE DirsInv'
    <2>1. CASE Done(p)
      BY <1>2, <1>6, <2>1 DEF CheckVdir, RemoveVdir, db
    <2>2. CASE ~Done(p)
      <3>1. req[p].name \in Names /\ req[p].vdir = None
        BY <1>6 DEF CheckVdir, RemoveVdir, ReqInv, Requests, DirsInv
      <3>2. dir' = [dir EXCEPT ![p] = req[p].name]
        BY <1>6, <2>2, <3>1, GetVdirIsName DEF CheckVdir, RemoveVdir
      <3>3. UNCHANGED <<name, vdir, req>> /\ pc[p] # "idle"
        BY <1>6, <2>2 DEF CheckVdir, RemoveVdir, db, Stay
      <3>4. pc'[p] # "idle" /\ \A q \in Procs \ {p} : pc'[q] = pc[q]
        BY <1>6, <2>2 DEF CheckVdir, RemoveVdir, Goto, TypeOK
      <3> QED
        BY <3>2, <3>3, <3>4 DEF DirsInv, TypeOK
    <2> QED
      BY <2>1, <2>2
  <1>7. ASSUME NEW p \in Procs,
               \/ UnlinkOld(p) \/ UnlinkNew(p) \/ find_free_xid(p) \/ MakeVdir(p)
               \/ make_vserver_filesystem(p) \/ RenameNew(p)
        PROVE  DirsInv'
    BY <1>2, <1>3, <1>7 DEF UnlinkOld, UnlinkNew, find_free_xid, MakeVdir,
                            make_vserver_filesystem, RenameNew, db, Stay
  <1>8. ASSUME NEW p \in Procs, create_vxdb_entries(p) PROVE DirsInv'
    <2>1. CASE Done(p)
      <3>1. xid[p] \in Xids /\ dir[p] = req[p].name
        BY <1>8, ConstantsAssumption DEF create_vxdb_entries, ReqInv, DirsInv, Vdirs
      <3>2. pc'[p] = "idle"
        BY <2>1 DEF Done, Goto, TypeOK
      <3>3. /\ name' = [name EXCEPT ![xid[p]] = req[p].name]
            /\ vdir' = [vdir EXCEPT ![xid[p]] = dir[p]]
        BY <1>8, <3>2 DEF create_vxdb_entries, Goto, TypeOK
      <3>4. \A x \in Xids : vdir'[x] \in {None, name'[x]}
        BY <3>1, <3>3 DEF DirsInv, TypeOK
      <3> QED
        BY <2>1, <3>4 DEF Done, Goto, DirsInv, TypeOK
    <2>2. CASE ~Done(p)
      BY <1>3, <1>8, <2>2 DEF create_vxdb_entries, db, Stay
    <2> QED
      BY <2>1, <2>2
  <1>9. ASSUME NEW p \in Procs, DeleteEntries(p) PROVE DirsInv'
    <2>1. CASE UNCHANGED <<name, vdir>>
      BY <1>2, <1>3, <1>9, <2>1 DEF DeleteEntries, db, Stay
    <2>2. CASE ~UNCHANGED <<name, vdir>>
      <3>1. /\ name' = [name EXCEPT ![xid[p]] = None]
            /\ vdir' = [vdir EXCEPT ![xid[p]] = None]
            /\ Goto(p, "runlink") /\ UNCHANGED <<req, dir>> /\ pc[p] # "idle"
        BY <1>9, <2>2 DEF DeleteEntries, db, Stay
      <3>2. \A x \in Xids : vdir'[x] \in {None, name'[x]}
        BY <3>1 DEF DirsInv, TypeOK
      <3> QED
        BY <3>1, <3>2 DEF DirsInv, Goto, TypeOK
    <2> QED
      BY <2>1, <2>2
  <1>10. ASSUME NEW p \in Procs, UpdateName(p) PROVE DirsInv'
    BY <1>10 DEF UpdateName, ReqInv, HoldsLock, OwnDirs
  <1>11. ASSUME NEW p \in Procs, UndoCreate(p) \/ RemoveTree(p) \/ WriteConfig(p) \/ Die(p)
         PROVE  DirsInv'
    BY <1>2, <1>11 DEF UndoCreate, RemoveTree, WriteConfig, Die, db
  <1> QED
    BY <1>1, <1>4, <1>5, <1>6, <1>7, <1>8, <1>9, <1>10, <1>11 DEF Next

(* Only the holder of a name's lock touches the tree of that name, in a    *)
(* step of its method.                                                     *)
LEMMA HolderWrites ==
    ASSUME WellFormed, HoldsLock, DirsInv, NEW p \in Procs,
           \/ UnlinkOld(p) \/ UnlinkNew(p) \/ MakeVdir(p) \/ make_vserver_filesystem(p)
           \/ UndoCreate(p) \/ RemoveTree(p)
    PROVE  /\ req[p].name \in Names /\ holder[req[p].name] = p
           /\ \A d \in Vdirs : d # req[p].name => fs'[d] = fs[d]
           /\ pc'[p] # pc[p] /\ \A q \in Procs \ {p} : pc'[q] = pc[q]
  <1> USE ConstantsAssumption DEF WellFormed
  <1>1. /\ pc[p] \in {"unlink_old", "unlink", "mkdir", "fill", "undo", "runlink"}
        /\ req[p].op \in {"create", "remove"} /\ req[p] \in Requests /\ dir[p] \in Vdirs
    BY DEF UnlinkOld, UnlinkNew, MakeVdir, make_vserver_filesystem, UndoCreate, RemoveTree,
           ReqInv, CreatePCs
  <1>2. req[p].name \in Names /\ holder[req[p].name] = p /\ dir[p] = req[p].name
    BY <1>1 DEF HoldsLock, Locked, Requests, DirsInv, Vdirs
  <1>3. vxdb_getvdir(req[p].name) = req[p].name
    BY <1>2, GetVdirIsName
  <1>4. \A d \in Vdirs : d # req[p].name => fs'[d] = fs[d]
    BY <1>1, <1>2, <1>3
    DEF UnlinkOld, UnlinkNew, MakeVdir, make_vserver_filesystem, UndoCreate, RemoveTree, TypeOK
  <1>5. pc'[p] # pc[p] /\ \A q \in Procs \ {p} : pc'[q] = pc[q]
    BY DEF UnlinkOld, UnlinkNew, MakeVdir, make_vserver_filesystem, UndoCreate, RemoveTree,
           Done, Goto, TypeOK
  <1> QED
    BY <1>2, <1>4, <1>5

LEMMA BuiltStep == TreesInv /\ [Next]_vars => BuiltInv'
  <1> SUFFICES ASSUME TypeOK, ReqInv, HoldsLock, DirsInv, BuiltInv, WellFormed, [Next]_vars
               PROVE  BuiltInv'
    BY DEF TreesInv, WellFormed
  <1> USE ConstantsAssumption
  <1>1. CASE UNCHANGED vars
    BY <1>1 DEF vars, BuiltInv
  <1>2. ASSUME NEW p \in Procs, UNCHANGED fs,
               pc'[p] \in {"fill", "insert"} => pc[p] = "fill" /\ UNCHANGED <<xid, dir>>,
               \A q \in Procs \ {p} : pc'[q] = pc[q] /\ xid'[q] = xid[q] /\ dir'[q] = dir[q]
        PROVE  BuiltInv'
    BY <1>2 DEF BuiltInv
  <1>3. ASSUME NEW p \in Procs,
               \/ Begin(p) \/ GetXid(p) \/ CheckVdir(p) \/ find_free_xid(p)
               \/ create_vxdb_entries(p) \/ RemoveVdir(p) \/ DeleteEntries(p)
               \/ RenameNew(p) \/ UpdateName(p) \/ WriteConfig(p) \/ Die(p)
        PROVE  BuiltInv'
    <2>1. UNCHANGED fs
      BY <1>3 DEF Begin, GetXid, CheckVdir, find_free_xid, create_vxdb_entries, RemoveVdir,
                  DeleteEntries, RenameNew, UpdateName, WriteConfig, Die
    <2>2. pc'[p] \notin {"fill", "insert"}
      <3>1. CASE Done(p)
        BY <3>1 DEF Done, Goto, TypeOK
      <3>2. CASE GetXid(p) /\ ~Done(p)
        <4>1. pc'[p] = CASE req[p].op = "create" -> "create_vdir"
                         [] req[p].op = "remove" -> "remove_vdir"
                         [] req[p].op = "rename" -> "update"
                         [] OTHER -> "set"
          BY <3>2 DEF GetXid, Goto, TypeOK
        <4> QED
          BY <4>1
      <3>3. CASE ~GetXid(p) /\ ~Done(p)
        BY <1>3, <3>3 DEF Begin, CheckVdir, find_free_xid, create_vxdb_entries, RemoveVdir,
                          DeleteEntries, RenameNew, UpdateName, WriteConfig, Die, Goto, TypeOK
      <3> QED
        BY <3>1, <3>2, <3>3
    <2>3. \A q \in Procs \ {p} : pc'[q] = pc[q] /\ xid'[q] = xid[q] /\ dir'[q] = dir[q]
      <3>1. CASE Done(p)
        BY <3>1 DEF Done, Goto, TypeOK
      <3>2. CASE ~Done(p)
        BY <1>3, <3>2 DEF Begin, GetXid, CheckVdir, find_free_xid, create_vxdb_entries, RemoveVdir,
                          DeleteEntries, RenameNew, UpdateName, WriteConfig, Die, Goto, TypeOK
      <3> QED
        BY <3>1, <3>2
    <2> QED
      BY <1>2, <2>1, <2>2, <2>3
  <1>4. ASSUME NEW p \in Procs,
               \/ UnlinkOld(p) \/ UnlinkNew(p) \/ MakeVdir(p) \/ make_vserver_filesystem(p)
               \/ UndoCreate(p) \/ RemoveTree(p)
        PROVE  BuiltInv'
    <2>1. \A q \in Procs \ {p} : pc'[q] = pc[q] /\ xid'[q] = xid[q] /\ dir'[q] = dir[q]
      BY <1>4 DEF UnlinkOld, UnlinkNew, MakeVdir, make_vserver_filesystem, UndoCreate, RemoveTree,
                  Done, Goto, TypeOK
    <2>2. ASSUME NEW q \in Procs \ {p}, pc[q] \in {"fill", "insert"}
          PROVE  fs'[dir[q]] = fs[dir[q]]
      <3>1. /\ req[q] \in Requests /\ req[q].op = "create" /\ dir[q] \in Vdirs
        BY <2>2 DEF ReqInv, CreatePCs
      <3>2. dir[q] = req[q].name /\ holder[req[q].name] = q
        BY <2>2, <3>1 DEF DirsInv, HoldsLock, Locked, Requests, Vdirs
      <3> QED
        BY <1>4, <3>1, <3>2, HolderWrites
    <2>3. pc'[p] \in {"fill", "insert"} => fs'[dir'[p]] = xid'[p]
      <3>1. CASE MakeVdir(p)
        BY <3>1 DEF MakeVdir, Done, Goto, TypeOK, ReqInv
      <3>2. CASE make_vserver_filesystem(p)
        BY <3>2 DEF make_vserver_filesystem, Done, Goto, TypeOK, BuiltInv
      <3>3. CASE UnlinkOld(p) \/ UnlinkNew(p) \/ UndoCreate(p) \/ RemoveTree(p)
        BY <3>3 DEF UnlinkOld, UnlinkNew, UndoCreate, RemoveTree, Done, Goto, TypeOK
      <3> QED
        BY <1>4, <3>1, <3>2, <3>3
    <2> QED
      BY <2>1, <2>2, <2>3 DEF BuiltInv
  <1> QED
    BY <1>1, <1>3, <1>4 DEF Next

LEMMA TreesAlways == ASSUME OwnDirs PROVE Spec => []TreesInv
  <1>1. Init => TreesInv
    BY ConstantsAssumption
    DEF Init, TreesInv, WellFormed, TypeOK, ReqInv, CreatePCs, TablesAgree, PCs, HoldsLock,
        DirsInv, BuiltInv
  <1>2. TreesInv /\ [Next]_vars => TreesInv'
    BY WellFormedStep, HoldsLockStep, DirsStep, BuiltStep DEF TreesInv
  <1> QED
    BY <1>1, <1>2, PTL DEF Spec

(* vx.create registers a vserver only when the tree it built for it is in  *)
(* place, however many children create and remove vservers, and wherever   *)
(* they crash: the tree survives from mkdir to the transaction.            *)
THEOREM TreeBeforeRow == ASSUME OwnDirs PROVE Spec => CommittedHasTree
  <1> DEFINE Committed == \A x \in Xids : name[x] = None /\ name'[x] # None => fs[vdir'[x]] = x
  <1>1. TreesInv /\ [Next]_vars => [Committed]_vars
    <2> SUFFICES ASSUME TreesInv, Next, NEW x \in Xids, name[x] = None, name'[x] # None
                 PROVE  fs[vdir'[x]] = x
      OBVIOUS
    <2> USE DEF TreesInv, WellFormed
    <2>1. PICK p \in Procs : create_vxdb_entries(p) \/ DeleteEntries(p) \/ UpdateName(p)
      BY DEF Next, Begin, GetXid, CheckVdir, UnlinkOld, UnlinkNew, find_free_xid,
             MakeVdir, make_vserver_filesystem, UndoCreate, RemoveVdir, RemoveTree,
             RenameNew, WriteConfig, Die, db
    <2>2. xid[p] \in Xids
      BY <2>1 DEF create_vxdb_entries, DeleteEntries, UpdateName, ReqInv
    <2>3. create_vxdb_entries(p)
      BY <2>1, <2>2 DEF DeleteEntries, UpdateName, TypeOK, db
    <2>4. /\ name' = [name EXCEPT ![xid[p]] = req[p].name]
          /\ vdir' = [vdir EXCEPT ![xid[p]] = dir[p]] /\ pc[p] = "insert"
      BY <2>3 DEF create_vxdb_entries, db
    <2>5. x = xid[p] /\ vdir'[x] = dir[p]
      BY <2>2, <2>4 DEF TypeOK
    <2> QED
      BY <2>4, <2>5 DEF BuiltInv
  <1> QED
    BY <1>1, TreesAlways, PTL DEF Spec, CommittedHasTree

(* The tree of a registered vserver is unlinked or replaced only in a step *)
(* of a child that holds the lock of its name, also where several children *)
(* create vservers at once and the registration itself is overwritten.     *)
THEOREM TreesAreSafe == ASSUME OwnDirs PROVE Spec => ForeignTreesSafe
  <1> DEFINE Safe == \A x \in Registered :
                        vdir[x] # None /\ fs[vdir[x]] = x /\ fs'[vdir[x]] # x =>
                           \E p \in Procs : holder[name[x]] = p /\ pc'[p] # pc[p]
  <1>1. TreesInv /\ [Next]_vars => [Safe]_vars
    <2> SUFFICES ASSUME TreesInv, Next, NEW x \in Registered, vdir[x] # None,
                        fs[vdir[x]] = x, fs'[vdir[x]] # x
                 PROVE  \E p \in Procs : holder[name[x]] = p /\ pc'[p] # pc[p]
      OBVIOUS
    <2>1. x \in Xids /\ vdir[x] = name[x] /\ vdir[x] \in Vdirs
      BY DEF Registered, TreesInv, DirsInv, WellFormed, TypeOK
    <2>2. PICK p \in Procs :
             \/ UnlinkOld(p) \/ UnlinkNew(p) \/ MakeVdir(p) \/ make_vserver_filesystem(p)
             \/ UndoCreate(p) \/ RemoveTree(p)
      BY DEF Next, Begin, GetXid, CheckVdir, find_free_xid, create_vxdb_entries, RemoveVdir,
             DeleteEntries, RenameNew, UpdateName, WriteConfig, Die
    <2>3. /\ holder[req[p].name] = p /\ pc'[p] # pc[p]
          /\ \A d \in Vdirs : d # req[p].name => fs'[d] = fs[d]
      BY <2>2, HolderWrites DEF TreesInv
    <2>4. name[x] = req[p].name
      BY <2>1, <2>3
    <2> QED
      BY <2>3, <2>4
  <1> QED
    BY <1>1, TreesAlways, PTL DEF Spec, ForeignTreesSafe
=============================================================================
