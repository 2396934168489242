--------------------------- MODULE AccountsProofs ---------------------------
(***************************************************************************)
(* Proofs about Accounts for any set of children, names of users and of    *)
(* groups, vservers, and any bound on the uids and the gids.               *)
(***************************************************************************)
EXTENDS Accounts, WellFoundedInduction, TLAPS

(* A set of positive numbers with a bound has a greatest element: what is  *)
(* missing to the bound is a set of naturals, which has a least one.       *)
LEMMA MaxExists ==
    ASSUME NEW N \in Nat, NEW S, S \subseteq 1 .. N, S # {}
    PROVE  \E m \in S : \A n \in S : n <= m
  <1> DEFINE R == OpToRel(<, Nat)
             T == {k \in Nat : \E n \in S : k = N - n}
  <1>1. \A n \in S : n \in Nat /\ N - n \in Nat
    OBVIOUS
  <1>2. T \subseteq Nat /\ T # {}
    BY <1>1
  <1>3. PICK x \in T : \A y \in T : <<y, x>> \notin R
    <2>1. IsWellFoundedOn(R, Nat)
      BY NatLessThanWellFounded
    <2> HIDE DEF R, T
    <2> QED
      BY <1>2, <2>1, WFMin
  <1>4. \A y \in T : ~(y < x)
    BY <1>2, <1>3 DEF OpToRel
  <1>5. PICK m \in S : x = N - m
    OBVIOUS
  <1>6. ASSUME NEW n \in S PROVE n <= m
    <2>1. N - n \in T
      BY <1>1
    <2>2. ~(N - n < N - m)
      BY <1>4, <1>5, <2>1
    <2> QED
      BY <1>1, <2>2
  <1> QED
    BY <1>6

(* SELECT MAX: the greatest id, or 0 of an empty table. *)
LEMMA GreatestOf ==
    ASSUME NEW N \in Nat, NEW S, S \subseteq 1 .. N
    PROVE  /\ Greatest(S) \in 0 .. N
           /\ S = {} => Greatest(S) = 0
           /\ S # {} => Greatest(S) \in S /\ Greatest(S) # 0
           /\ \A n \in S : n <= Greatest(S)
  <1>1. CASE S = {}
    BY <1>1 DEF Greatest
  <1>2. CASE S # {}
    <2>1. PICK m \in S : \A n \in S : n <= m
      BY <1>2, MaxExists
    <2>2. Greatest(S) \in S /\ \A n \in S : n <= Greatest(S)
      BY <1>2, <2>1 DEF Greatest
    <2>3. Greatest(S) \in 1 .. N
      BY <2>2
    <2>4. Greatest(S) \in 0 .. N /\ Greatest(S) # 0
      <3> DEFINE g == Greatest(S)
      <3>1. g \in 1 .. N
        BY <2>3
      <3> HIDE DEF g
      <3>2. g \in 0 .. N /\ g # 0
        BY <3>1
      <3> QED
        BY <3>2 DEF g
    <2> QED
      BY <1>2, <2>2, <2>4
  <1> QED
    BY <1>1, <1>2

(* One more id, the next one: it is the greatest then. *)
LEMMA GreatestOfNext ==
    ASSUME NEW N \in Nat, NEW S, S \subseteq 1 .. N, Greatest(S) + 1 \in 1 .. N
    PROVE  Greatest(S \cup {Greatest(S) + 1}) = Greatest(S) + 1
  <1> DEFINE g == Greatest(S)
             T == S \cup {g + 1}
             h == Greatest(T)
  <1>1. g \in 0 .. N /\ g + 1 \in 1 .. N /\ \A n \in S : n <= g
    BY GreatestOf
  <1> HIDE DEF g
  <1>2. T \subseteq 1 .. N /\ T # {}
    BY <1>1
  <1>3. h \in T /\ \A n \in T : n <= h
    <2> HIDE DEF T
    <2> QED
      BY <1>2, GreatestOf
  <1> HIDE DEF h
  <1>4. h = g + 1
    BY <1>1, <1>3
  <1> QED
    BY <1>4 DEF g, h

-----------------------------------------------------------------------------
(* The queries return an id of the row they look for, or 0. *)
LEMMA GetUidOf ==
    ASSUME NEW n
    PROVE  /\ auth_getuid(n) \in Uids \cup {0}
           /\ auth_getuid(n) # 0 => n # None /\ user[auth_getuid(n)] = n
  <1> DEFINE S == {u \in Uids : n # None /\ user[u] = n}
  <1>1. S \subseteq 1 .. MaxUid /\ MaxUid \in Nat
    BY ConstantsAssumption DEF Uids
  <1>2. auth_getuid(n) = Greatest(S)
    BY DEF auth_getuid
  <1>3. Greatest(S) \in S \/ Greatest(S) = 0
    <2> HIDE DEF S
    <2> QED
      BY <1>1, GreatestOf
  <1> QED
    BY <1>2, <1>3

LEMMA GetGidOf ==
    ASSUME NEW n
    PROVE  /\ vxdb_getgid(n) \in Gids \cup {0}
           /\ vxdb_getgid(n) # 0 => group[vxdb_getgid(n)] = n
  <1> DEFINE S == {i \in Gids : group[i] = n}
  <1>1. S \subseteq 1 .. MaxGid /\ MaxGid \in Nat
    BY ConstantsAssumption DEF Gids
  <1>2. vxdb_getgid(n) = Greatest(S)
    BY DEF vxdb_getgid
  <1>3. Greatest(S) \in S \/ Greatest(S) = 0
    <2> HIDE DEF S
    <2> QED
      BY <1>1, GreatestOf
  <1> QED
    BY <1>2, <1>3

-----------------------------------------------------------------------------
(* The tables. *)
TablesOK ==
    /\ user \in [Uids -> Usernames \cup {None}]
    /\ admin \subseteq Uids
    /\ caps \in [Uids -> SUBSET Caps]
    /\ owner \in [Xids -> SUBSET Uids]
    /\ group \in [Gids -> Groups \cup {None}]
    /\ member \in [Xids -> SUBSET Gids]
    /\ vps \subseteq Xids
    /\ daemon \in {"up", "down", "dead"}

(* The children: which method a child is in, and which of the ids that     *)
(* method needs it has by then.                                            *)
OpFits(l, o) ==
    /\ l = "uid" => o \in UserOps \cup {"owner_add", "owner_remove"}
    /\ l \in {"nextuid", "insert_user", "admin", "password"} => o = "user_set"
    /\ l = "delete" => o = "user_remove"
    /\ l = "caps" => o \in {"caps_add", "caps_remove"}
    /\ l = "gid" => o \in GroupOps
    /\ l \in {"nextgid", "insert_group"} => o = "vg_add"
    /\ l = "xid" => o \in GroupOps \cup {"owner_add", "owner_remove"}
    /\ l = "map" => o \in {"owner_add", "vg_add"}
    /\ l = "unmap" => o \in {"owner_remove", "vg_remove"}

ChildOK(p) ==
    /\ pc[p] \in PCs /\ req[p] \in Requests \cup {None}
    /\ uid[p] \in Uids \cup {0} /\ gid[p] \in Gids \cup {0} /\ xid[p] \in Xids \cup {None}
    /\ pc[p] # "idle" =>
          /\ req[p] \in Requests /\ OpFits(pc[p], req[p].op)
          /\ req[p].op \notin GroupOps \cup {"owner_remove"} => req[p].user # None
    /\ pc[p] \in {"insert_user", "admin", "delete", "caps"} => uid[p] \in Uids
    /\ pc[p] \in {"xid", "map"} /\ req[p].op = "owner_add" => uid[p] \in Uids
    /\ pc[p] = "map" /\ req[p].op = "owner_add" => xid[p] \in Xids
    /\ pc[p] = "insert_group" => gid[p] \in Gids
    /\ pc[p] \in {"xid", "map", "unmap"} /\ req[p].op \in GroupOps => gid[p] \in Gids

Functions ==
    /\ pc = [p \in Procs |-> pc[p]] /\ req = [p \in Procs |-> req[p]]
    /\ uid = [p \in Procs |-> uid[p]] /\ gid = [p \in Procs |-> gid[p]]
    /\ xid = [p \in Procs |-> xid[p]]

ChildrenOK == Functions /\ \A p \in Procs : ChildOK(p)

(* A step of one child leaves the others alone. *)
OnlyMoves(p) ==
    /\ Functions'
    /\ \A q \in Procs \ {p} :
          /\ pc'[q] = pc[q] /\ req'[q] = req[q]
          /\ uid'[q] = uid[q] /\ gid'[q] = gid[q] /\ xid'[q] = xid[q]

LEMMA OneChildMoves ==
    ASSUME ChildrenOK, NEW p \in Procs, OnlyMoves(p), ChildOK(p)'
    PROVE  ChildrenOK'
  <1>1. ASSUME NEW q \in Procs PROVE ChildOK(q)'
    <2>1. CASE q = p
      BY <2>1
    <2>2. CASE q # p
      BY <2>2 DEF OnlyMoves, ChildrenOK, ChildOK
    <2> QED
      BY <2>1, <2>2
  <1> QED
    BY <1>1 DEF OnlyMoves, ChildrenOK

LEMMA DoneChild ==
    ASSUME ChildrenOK, NEW p \in Procs, Done(p)
    PROVE  ChildrenOK'
  <1>1. ChildOK(p)'
    BY DEF Done, Goto, ChildrenOK, Functions, ChildOK, PCs
  <1>2. OnlyMoves(p)
    BY DEF Done, Goto, ChildrenOK, Functions, OnlyMoves
  <1> QED
    BY <1>1, <1>2, OneChildMoves

LEMMA ChildrenStep == TablesOK /\ ChildrenOK /\ [Next]_vars => ChildrenOK'
  <1> SUFFICES ASSUME TablesOK, ChildrenOK, [Next]_vars PROVE ChildrenOK'
    OBVIOUS
  <1> USE DEF accounts, maps, locals
  <1>1. ASSUME UNCHANGED <<pc, req, uid, gid, xid>> PROVE ChildrenOK'
    BY <1>1 DEF ChildrenOK, Functions, ChildOK
  <1>2. ASSUME NEW p \in Procs, Begin(p) PROVE ChildrenOK'
    <2>1. PICK r \in Requests :
             /\ r.op # "owner_remove" => (r.user = None <=> r.op \in GroupOps)
             /\ req' = [req EXCEPT ![p] = r]
             /\ Goto(p, CASE r.op \in GroupOps -> "gid"
                          [] r.op = "owner_remove" -> "xid"
                          [] OTHER -> "uid")
      BY <1>2 DEF Begin
    <2> DEFINE l == CASE r.op \in GroupOps -> "gid"
                      [] r.op = "owner_remove" -> "xid"
                      [] OTHER -> "uid"
    <2>2. r.op \in AllOps
      BY DEF Requests
    <2>3. /\ l \in {"gid", "xid", "uid"}
          /\ l = "gid" => r.op \in GroupOps
          /\ l = "xid" => r.op = "owner_remove"
          /\ l = "uid" => r.op \in UserOps \cup {"owner_add"}
      BY <2>2 DEF AllOps, UserOps, GroupOps
    <2>4. pc' = [pc EXCEPT ![p] = l] /\ UNCHANGED <<uid, gid, xid>>
      BY <1>2, <2>1 DEF Begin, Goto
    <2> HIDE DEF l
    <2>5. pc'[p] = l /\ req'[p] = r /\ uid'[p] = uid[p] /\ gid'[p] = gid[p] /\ xid'[p] = xid[p]
      BY <2>1, <2>4 DEF ChildrenOK, Functions
    <2>6. ChildOK(p)'
      BY <2>1, <2>3, <2>5 DEF ChildrenOK, ChildOK, OpFits, PCs, GroupOps
    <2>7. OnlyMoves(p)
      BY <2>1, <2>4 DEF ChildrenOK, Functions, OnlyMoves
    <2> QED
      BY <2>6, <2>7, OneChildMoves
  <1>5. ASSUME NEW p \in Procs, GetUid(p) PROVE ChildrenOK'
    <2>1. CASE Done(p)
      BY <2>1, DoneChild
    <2>2. CASE ~Done(p)
      <3> DEFINE r == req[p]
                 u == auth_getuid(r.user)
                 l == CASE r.op = "user_set" -> IF u = 0 THEN "nextuid" ELSE "admin"
                        [] r.op = "user_remove" -> "delete"
                        [] r.op \in {"caps_add", "caps_remove"} -> "caps"
                        [] r.op = "owner_add" -> "xid"
                        [] r.op = "owner_remove" -> "unmap"
      <3>1. /\ pc[p] = "uid" /\ (u # 0 \/ r.op = "user_set" \/ r.user = None)
            /\ uid' = [uid EXCEPT ![p] = u] /\ pc' = [pc EXCEPT ![p] = l]
            /\ UNCHANGED <<req, gid, xid>>
        BY <1>5, <2>2 DEF GetUid, Goto
      <3>2. u \in Uids \cup {0}
        BY GetUidOf
      <3>3. r.op \in UserOps \cup {"owner_add", "owner_remove"}
            /\ (r.op \notin GroupOps \cup {"owner_remove"} => r.user # None)
        BY <3>1 DEF ChildrenOK, ChildOK, OpFits
      <3>4. r.op \notin {"user_set", "owner_remove"} => u \in Uids
        BY <3>1, <3>2, <3>3 DEF GroupOps, UserOps
      <3> HIDE DEF r, u
      <3>5. /\ l \in PCs \ {"idle"} /\ OpFits(l, r.op)
            /\ l \in {"admin", "delete", "caps"} => u \in Uids
            /\ l = "xid" => u \in Uids /\ r.op = "owner_add"
            /\ l \notin {"insert_user", "map", "insert_group"}
            /\ l = "unmap" => r.op = "owner_remove"
        BY <3>2, <3>3, <3>4 DEF PCs, UserOps, OpFits, GroupOps
      <3> HIDE DEF l
      <3>6. r = req[p]
        BY DEF r
      <3>7. OnlyMoves(p)
        BY <3>1 DEF ChildrenOK, Functions, OnlyMoves
      <3>8. /\ pc'[p] = l /\ req'[p] = req[p] /\ uid'[p] = u
            /\ gid'[p] = gid[p] /\ xid'[p] = xid[p]
        BY <3>1 DEF ChildrenOK, Functions
      <3>9. ChildOK(p)'
        BY <3>1, <3>2, <3>5, <3>6, <3>8 DEF ChildrenOK, GroupOps, ChildOK
      <3> QED
        BY <3>7, <3>9, OneChildMoves
    <2> QED
      BY <2>1, <2>2
  <1>6. ASSUME NEW p \in Procs, GetXid(p) PROVE ChildrenOK'
    <2>1. CASE Done(p)
      BY <2>1, DoneChild
    <2>2. CASE ~Done(p)
      <3> DEFINE r == req[p]
                 l == CASE r.op \in {"owner_add", "vg_add"} -> "map"
                        [] r.op = "vg_remove" -> "unmap"
                        [] r.op = "owner_remove" -> "uid"
      <3>1. /\ pc[p] = "xid" /\ r.xid \in vps
            /\ xid' = [xid EXCEPT ![p] = r.xid] /\ pc' = [pc EXCEPT ![p] = l]
            /\ UNCHANGED <<req, uid, gid>>
        BY <1>6, <2>2 DEF GetXid, Goto
      <3>2. r.op \in GroupOps \cup {"owner_add", "owner_remove"} /\ r \in Requests
        BY <3>1 DEF ChildrenOK, ChildOK, OpFits
      <3>3. r.xid \in Xids
        BY <3>1 DEF TablesOK
      <3>4. /\ r.op = "owner_add" => uid[p] \in Uids
            /\ r.op \in GroupOps => gid[p] \in Gids
        BY <3>1 DEF ChildrenOK, ChildOK
      <3> HIDE DEF r
      <3>5. /\ l \in {"map", "unmap", "uid"} /\ OpFits(l, r.op)
            /\ l = "map" => r.op \in {"owner_add", "vg_add"}
        BY <3>2 DEF UserOps, OpFits, GroupOps
      <3> HIDE DEF l
      <3>6. r = req[p]
        BY DEF r
      <3>7. l \in PCs \ {"idle"}
        BY <3>5 DEF PCs
      <3>8. OnlyMoves(p)
        BY <3>1 DEF ChildrenOK, Functions, OnlyMoves
      <3>9. /\ pc'[p] = l /\ req'[p] = req[p] /\ uid'[p] = uid[p]
            /\ gid'[p] = gid[p] /\ xid'[p] = r.xid
        BY <3>1 DEF ChildrenOK, Functions
      <3>10. ChildOK(p)'
        BY <3>1, <3>3, <3>4, <3>5, <3>6, <3>7, <3>9 DEF ChildrenOK, ChildOK
      <3> QED
        BY <3>8, <3>10, OneChildMoves
    <2> QED
      BY <2>1, <2>2
  <1>7. ASSUME NEW p \in Procs, GetNextUid(p) PROVE ChildrenOK'
    <2>1. CASE Done(p)
      BY <2>1, DoneChild
    <2>2. CASE ~Done(p)
      <3>1. /\ pc[p] = "nextuid" /\ auth_getnextuid \in Uids
            /\ uid' = [uid EXCEPT ![p] = auth_getnextuid]
            /\ pc' = [pc EXCEPT ![p] = "insert_user"] /\ UNCHANGED <<req, gid, xid>>
        BY <1>7, <2>2 DEF GetNextUid, Goto
      <3>2. req[p].op = "user_set"
        BY <3>1 DEF ChildrenOK, ChildOK, OpFits
      <3>3. OnlyMoves(p)
        BY <3>1 DEF ChildrenOK, Functions, OnlyMoves
      <3>4. /\ pc'[p] = "insert_user" /\ req'[p] = req[p] /\ uid'[p] = auth_getnextuid
            /\ gid'[p] = gid[p] /\ xid'[p] = xid[p]
        BY <3>1 DEF ChildrenOK, Functions
      <3>5. ChildOK(p)'
        BY <3>1, <3>2, <3>4 DEF ChildrenOK, ChildOK, PCs, OpFits, GroupOps
      <3> QED
        BY <3>3, <3>5, OneChildMoves
    <2> QED
      BY <2>1, <2>2
  <1>8. ASSUME NEW p \in Procs, UpdateAdmin(p) PROVE ChildrenOK'
    <2>1. CASE Done(p)
      BY <2>1, DoneChild
    <2>2. CASE ~Done(p)
      <3>1. /\ pc[p] = "admin"
            /\ pc' = [pc EXCEPT ![p] = "password"] /\ UNCHANGED <<req, uid, gid, xid>>
        BY <1>8, <2>2 DEF UpdateAdmin, Goto
      <3>2. req[p].op = "user_set"
        BY <3>1 DEF ChildrenOK, ChildOK, OpFits
      <3>3. OnlyMoves(p)
        BY <3>1 DEF ChildrenOK, Functions, OnlyMoves
      <3>4. /\ pc'[p] = "password" /\ req'[p] = req[p] /\ uid'[p] = uid[p]
            /\ gid'[p] = gid[p] /\ xid'[p] = xid[p]
        BY <3>1 DEF ChildrenOK, Functions
      <3>5. ChildOK(p)'
        BY <3>1, <3>2, <3>4 DEF ChildrenOK, ChildOK, PCs, OpFits, GroupOps
      <3> QED
        BY <3>3, <3>5, OneChildMoves
    <2> QED
      BY <2>1, <2>2
  <1>9. ASSUME NEW p \in Procs, GetGid(p) PROVE ChildrenOK'
    <2>1. CASE Done(p)
      BY <2>1, DoneChild
    <2>2. CASE ~Done(p)
      <3> DEFINE r == req[p]
                 g == vxdb_getgid(r.group)
                 l == CASE g = 0 -> "nextgid"
                        [] g # 0 /\ r.xid # None -> "xid"
                        [] g # 0 /\ r.xid = None /\ r.op = "vg_add" -> "map"
                        [] g # 0 /\ r.xid = None /\ r.op = "vg_remove" -> "unmap"
      <3>1. /\ pc[p] = "gid" /\ (g # 0 \/ r.op = "vg_add")
            /\ gid' = [gid EXCEPT ![p] = g] /\ pc' = [pc EXCEPT ![p] = l]
            /\ UNCHANGED <<req, uid, xid>>
        BY <1>9, <2>2 DEF GetGid, Goto
      <3>2. g \in Gids \cup {0}
        BY GetGidOf
      <3>3. r.op \in GroupOps
        BY <3>1 DEF ChildrenOK, ChildOK, OpFits
      <3> HIDE DEF r, g
      <3>4. \/ l = "nextgid" /\ r.op = "vg_add"
            \/ l = "xid" /\ g # 0
            \/ l = "unmap" /\ r.op = "vg_remove" /\ g # 0
            \/ l = "map" /\ r.op = "vg_add" /\ g # 0
        <4>1. g # 0 \/ r.op = "vg_add"
          BY <3>1
        <4> QED
          BY <3>3, <4>1 DEF GroupOps
      <3> HIDE DEF l
      <3>5. l \in PCs \ {"idle"} /\ OpFits(l, r.op)
        BY <3>3, <3>4 DEF OpFits, GroupOps, PCs
      <3>6. r = req[p]
        BY DEF r
      <3>7. OnlyMoves(p)
        BY <3>1 DEF ChildrenOK, Functions, OnlyMoves
      <3>8. /\ pc'[p] = l /\ req'[p] = req[p] /\ uid'[p] = uid[p]
            /\ gid'[p] = g /\ xid'[p] = xid[p]
        BY <3>1 DEF ChildrenOK, Functions
      <3>9. ChildOK(p)'
        BY <3>1, <3>2, <3>3, <3>4, <3>5, <3>6, <3>8 DEF ChildrenOK, ChildOK, GroupOps
      <3> QED
        BY <3>7, <3>9, OneChildMoves
    <2> QED
      BY <2>1, <2>2
  <1>10. ASSUME NEW p \in Procs, GetNextGid(p) PROVE ChildrenOK'
    <2>1. CASE Done(p)
      BY <2>1, DoneChild
    <2>2. CASE ~Done(p)
      <3>1. /\ pc[p] = "nextgid" /\ NextGid \in Gids
            /\ gid' = [gid EXCEPT ![p] = NextGid]
            /\ pc' = [pc EXCEPT ![p] = "insert_group"] /\ UNCHANGED <<req, uid, xid>>
        BY <1>10, <2>2 DEF GetNextGid, Goto
      <3>2. req[p].op = "vg_add"
        BY <3>1 DEF ChildrenOK, ChildOK, OpFits
      <3>3. OnlyMoves(p)
        BY <3>1 DEF ChildrenOK, Functions, OnlyMoves
      <3>4. /\ pc'[p] = "insert_group" /\ req'[p] = req[p] /\ uid'[p] = uid[p]
            /\ gid'[p] = NextGid /\ xid'[p] = xid[p]
        BY <3>1 DEF ChildrenOK, Functions
      <3>5. ChildOK(p)'
        BY <3>1, <3>2, <3>4 DEF ChildrenOK, ChildOK, PCs, OpFits, GroupOps
      <3> QED
        BY <3>3, <3>5, OneChildMoves
    <2> QED
      BY <2>1, <2>2
  <1>11. ASSUME NEW p \in Procs, InsertGroup(p) PROVE ChildrenOK'
    <2>1. CASE Done(p)
      BY <2>1, DoneChild
    <2>2. CASE ~Done(p)
      <3>1. /\ pc[p] = "insert_group" /\ UNCHANGED <<req, uid, gid, xid>>
            /\ \/ pc' = [pc EXCEPT ![p] = "xid"]
               \/ pc' = [pc EXCEPT ![p] = "map"]
        BY <1>11, <2>2 DEF InsertGroup, Goto
      <3>2. req[p].op = "vg_add" /\ gid[p] \in Gids
        BY <3>1 DEF ChildrenOK, ChildOK, OpFits
      <3>3. OnlyMoves(p)
        BY <3>1 DEF ChildrenOK, Functions, OnlyMoves
      <3>4. /\ pc'[p] \in {"xid", "map"} /\ req'[p] = req[p] /\ uid'[p] = uid[p]
            /\ gid'[p] = gid[p] /\ xid'[p] = xid[p]
        BY <3>1 DEF ChildrenOK, Functions
      <3>5. ChildOK(p)'
        BY <3>1, <3>2, <3>4 DEF ChildrenOK, ChildOK, PCs, OpFits, GroupOps
      <3> QED
        BY <3>3, <3>5, OneChildMoves
    <2> QED
      BY <2>1, <2>2
  <1>12. ASSUME NEW p \in Procs,
                \/ InsertUser(p) \/ UpdatePassword(p) \/ m_vcd_user_remove(p)
                \/ m_vcd_user_caps_add(p) \/ m_vcd_user_caps_remove(p) \/ AddToMap(p)
                \/ RemoveFromMap(p)
         PROVE  ChildrenOK'
    BY <1>12, DoneChild DEF InsertUser, UpdatePassword, m_vcd_user_remove, m_vcd_user_caps_add,
                            m_vcd_user_caps_remove, AddToMap, RemoveFromMap
  <1>13. ASSUME NEW p \in Procs, m_vx_create(p) \/ m_vx_remove(p) PROVE ChildrenOK'
    BY <1>1, <1>13 DEF m_vx_create, m_vx_remove
  <1>14. CASE Stop \/ vxdb_init \/ UNCHANGED vars
    BY <1>1, <1>14 DEF Stop, vxdb_init, vars
  <1> QED
    BY <1>2, <1>5, <1>6, <1>7, <1>8, <1>9, <1>10, <1>11, <1>12, <1>13, <1>14 DEF Next

-----------------------------------------------------------------------------
(* The sanity check.  A table of users is as it should be if its admins    *)
(* are users.                                                              *)
UsersOK(us, ad, ca) ==
    /\ us \in [Uids -> Usernames \cup {None}]
    /\ ad \subseteq Uids
    /\ ca \in [Uids -> SUBSET Caps]
    /\ \A u \in ad : us[u] # None

(* Every lost capability of the second table is one of the first. *)
NoneLost(us, ca, us2, ca2) ==
    \A u \in Uids : ca2[u] # {} /\ us2[u] = None => ca[u] # {} /\ us[u] = None

(* The highest uid in use. *)
Top(us) == Greatest({i \in Uids : us[i] # None})

LEMMA TopOf ==
    ASSUME NEW us
    PROVE  /\ Top(us) \in Nat
           /\ \A u \in Uids : us[u] # None => u <= Top(us)
  <1> DEFINE S == {i \in Uids : us[i] # None}
  <1>1. S \subseteq 1 .. MaxUid /\ MaxUid \in Nat
    BY ConstantsAssumption DEF Uids
  <1>2. Greatest(S) \in 0 .. MaxUid /\ \A n \in S : n <= Greatest(S)
    <2> HIDE DEF S
    <2> QED
      BY <1>1, GreatestOf
  <1> DEFINE g == Greatest(S)
  <1>3. g \in 0 .. MaxUid /\ \A n \in S : n <= g
    BY <1>2
  <1>4. Top(us) = g
    BY DEF Top
  <1> HIDE DEF g
  <1>5. g \in Nat
    BY <1>1, <1>3
  <1> QED
    BY <1>3, <1>4, <1>5

LEMMA TopOfNext ==
    ASSUME NEW us \in [Uids -> Usernames \cup {None}], NEW n \in Usernames,
           Top(us) + 1 \in Uids
    PROVE  Top([us EXCEPT ![Top(us) + 1] = n]) = Top(us) + 1
  <1> DEFINE S == {i \in Uids : us[i] # None}
             u == Greatest(S) + 1
             T == {i \in Uids : [us EXCEPT ![u] = n][i] # None}
  <1>1. S \subseteq 1 .. MaxUid /\ MaxUid \in Nat /\ u \in 1 .. MaxUid
    BY ConstantsAssumption DEF Uids, Top
  <1>2. Greatest(S \cup {u}) = u
    <2> HIDE DEF S
    <2> QED
      BY <1>1, GreatestOfNext
  <1>3. u \in Uids /\ n # None
    BY ConstantsAssumption DEF Top
  <1>4. T = S \cup {u}
    <2> HIDE DEF u
    <2> QED
      BY <1>3
  <1> QED
    BY <1>2, <1>4 DEF Top

(* vxdb_create_user adds one user, with the next uid. *)
LEMMA CreateUser ==
    ASSUME NEW us, NEW ad, NEW ca, UsersOK(us, ad, ca),
           NEW n \in {"admin", "vshelper"}, Top(us) + 1 \in Uids,
           vxdb_create_user(n, <<us, ad, ca>>) # None
    PROVE  \E us2, ad2, ca2 :
              /\ vxdb_create_user(n, <<us, ad, ca>>) = <<us2, ad2, ca2>>
              /\ UsersOK(us2, ad2, ca2) /\ NoneLost(us, ca, us2, ca2)
              /\ Top(us2) = Top(us) + 1
              /\ ad \subseteq ad2 /\ (n = "admin" => ad2 # {})
              /\ \E u \in Uids : us2[u] = n
              /\ \A u \in Uids : us[u] # None => us2[u] = us[u]
  <1> DEFINE u == Top(us) + 1
             us2 == [us EXCEPT ![u] = n]
             ad2 == IF n = "admin" THEN ad \cup {u} ELSE ad
             ca2 == [ca EXCEPT ![u] = IF n = "admin" THEN vcd_caps_list ELSE {"HELPER"}]
  <1>1. vxdb_create_user(n, <<us, ad, ca>>) = <<us2, ad2, ca2>>
    BY DEF vxdb_create_user, Top
  <1>2. n \in Usernames /\ n # None
    BY ConstantsAssumption
  <1>3. Top(us2) = u
    BY <1>2, TopOfNext DEF UsersOK
  <1>4. us[u] = None
    <2>1. Top(us) \in Nat /\ (us[u] # None => u <= Top(us))
      BY TopOf
    <2> QED
      BY <2>1
  <1> HIDE DEF u
  <1>5. u \in Uids
    BY DEF u
  <1>6. UsersOK(us2, ad2, ca2)
    BY <1>2, <1>5 DEF UsersOK, Caps
  <1>7. NoneLost(us, ca, us2, ca2)
    BY <1>2, <1>5 DEF UsersOK, NoneLost
  <1>8. ad \subseteq ad2 /\ (n = "admin" => ad2 # {})
    OBVIOUS
  <1>9. /\ \E v \in Uids : us2[v] = n
        /\ \A v \in Uids : us[v] # None => us2[v] = us[v]
    BY <1>4, <1>5 DEF UsersOK
  <1>10. Top(us2) = Top(us) + 1
    BY <1>3 DEF u
  <1> HIDE DEF us2, ad2, ca2
  <1> QED
    BY <1>1, <1>6, <1>7, <1>8, <1>9, <1>10

(* With room for two users, vxdb_sanity_check ends the daemon or leaves an *)
(* admin and the user of vshelper, and every user that was there.          *)
LEMMA SanityCheck ==
    ASSUME NEW us, NEW ad, NEW ca, UsersOK(us, ad, ca), Top(us) + 1 < MaxUid,
           vxdb_sanity_check(<<us, ad, ca>>) # None
    PROVE  \E us2, ad2, ca2 :
              /\ vxdb_sanity_check(<<us, ad, ca>>) = <<us2, ad2, ca2>>
              /\ UsersOK(us2, ad2, ca2) /\ NoneLost(us, ca, us2, ca2)
              /\ ad2 # {}
              /\ \E u \in Uids : us2[u] = "vshelper"
              /\ \A u \in Uids : us[u] # None => us2[u] = us[u]
  <1> DEFINE NoUser(t) == \A u \in Uids : t[1][u] = None
             NoAdmin(t) == t[2] = {}
             NoHelper(t) == \A u \in Uids : t[1][u] # "vshelper"
             t0 == <<us, ad, ca>>
             t1 == IF NoUser(t0) THEN vxdb_create_user("admin", t0) ELSE t0
             t2 == IF NoAdmin(t1) THEN vxdb_create_user("admin", t1) ELSE t1
             t3 == IF t2 # None /\ NoHelper(t2) THEN vxdb_create_user("vshelper", t2) ELSE t2
             Kept(us2) == \A u \in Uids : us[u] # None => us2[u] = us[u]
  <1>1. vxdb_sanity_check(t0) = t3
    BY DEF vxdb_sanity_check
  <1>2. t3 # None /\ t2 # None
    BY <1>1
  <1>3. Top(us) \in Nat /\ Top(us) + 1 \in Uids /\ Top(us) + 2 \in Uids
    BY TopOf, ConstantsAssumption DEF Uids
  <1>4. \E us2, ad2, ca2 :
           /\ t2 = <<us2, ad2, ca2>> /\ UsersOK(us2, ad2, ca2)
           /\ NoneLost(us, ca, us2, ca2)
           /\ Top(us2) \in {Top(us), Top(us) + 1} /\ ad2 # {} /\ Kept(us2)
    <2>1. CASE NoUser(t0)
      <3>1. t1 = vxdb_create_user("admin", t0)
        BY <2>1
      <3>2. \A u \in Uids : us[u] # "admin"
        <4>1. "admin" # None
          BY ConstantsAssumption
        <4> QED
          BY <2>1, <4>1
      <3>3. NoAdmin(t1) => t2 = vxdb_create_user("admin", t1)
        OBVIOUS
      <3>4. t1 # None \/ NoAdmin(t1)
        BY <1>2
      <3>5. t1 = << [us EXCEPT ![Top(us) + 1] = "admin"], ad \cup {Top(us) + 1},
                    [ca EXCEPT ![Top(us) + 1] = vcd_caps_list] >>
        BY <3>1, <3>2 DEF vxdb_create_user, Top
      <3>6. t2 = t1
        BY <3>5
      <3>7. vxdb_create_user("admin", <<us, ad, ca>>) # None
        BY <1>2, <3>1, <3>6
      <3>8. t2 = vxdb_create_user("admin", <<us, ad, ca>>)
        BY <3>1, <3>6
      <3> HIDE DEF t1, t2, t3
      <3> QED
        BY <1>3, <3>7, <3>8, CreateUser
    <2>2. CASE ~NoUser(t0) /\ NoAdmin(t0)
      <3>1. t2 = vxdb_create_user("admin", <<us, ad, ca>>)
        BY <2>2
      <3> HIDE DEF t1, t2, t3
      <3> QED
        BY <1>2, <1>3, <3>1, CreateUser
    <2>3. CASE ~NoUser(t0) /\ ~NoAdmin(t0)
      <3>1. t2 = <<us, ad, ca>> /\ ad # {} /\ NoneLost(us, ca, us, ca)
        BY <2>3 DEF NoneLost
      <3> HIDE DEF t1, t2, t3
      <3> QED
        BY <3>1
    <2> QED
      BY <2>1, <2>2, <2>3
  <1> HIDE DEF t1, t2
  <1>5. PICK us2, ad2, ca2 :
           /\ t2 = <<us2, ad2, ca2>> /\ UsersOK(us2, ad2, ca2)
           /\ NoneLost(us, ca, us2, ca2)
           /\ Top(us2) \in {Top(us), Top(us) + 1} /\ ad2 # {} /\ Kept(us2)
    BY <1>4
  <1>6. CASE NoHelper(t2)
    <2>1. t3 = vxdb_create_user("vshelper", <<us2, ad2, ca2>>)
      BY <1>2, <1>5, <1>6
    <2>2. Top(us2) + 1 \in Uids
      BY <1>3, <1>5
    <2> HIDE DEF t3, NoHelper, NoUser, NoAdmin
    <2>3. PICK us3, ad3, ca3 :
             /\ t3 = <<us3, ad3, ca3>> /\ UsersOK(us3, ad3, ca3)
             /\ NoneLost(us2, ca2, us3, ca3)
             /\ ad2 \subseteq ad3
             /\ \E u \in Uids : us3[u] = "vshelper"
             /\ \A u \in Uids : us2[u] # None => us3[u] = us2[u]
      BY <1>2, <1>5, <2>1, <2>2, CreateUser
    <2>4. ad3 # {} /\ Kept(us3) /\ NoneLost(us, ca, us3, ca3)
      BY <1>5, <2>3 DEF NoneLost
    <2> HIDE DEF Kept
    <2> QED
      BY <1>1, <1>5, <2>3, <2>4 DEF Kept
  <1>7. CASE ~NoHelper(t2)
    <2>1. t3 = <<us2, ad2, ca2>>
      BY <1>5, <1>7
    <2>2. \E u \in Uids : us2[u] = "vshelper"
      BY <1>5, <1>7
    <2> QED
      BY <1>1, <1>5, <2>1, <2>2
  <1> QED
    BY <1>6, <1>7

-----------------------------------------------------------------------------
(* Admins are users; and a daemon that is not up has no children and left  *)
(* room for the users the next start may add.                              *)
AdminsInv == \A u \in admin : user[u] # None
RoomInv ==
    daemon # "up" => /\ auth_getnextuid < MaxUid
                     /\ \A p \in Procs : pc[p] = "idle"
RequestsInv == requests \in 0 .. MaxRequests
AccountsInv == TablesOK /\ ChildrenOK /\ AdminsInv /\ RoomInv /\ RequestsInv

(* A start of the daemon that succeeds. *)
LEMMA Starts ==
    ASSUME TablesOK, AdminsInv, RoomInv, vxdb_init, daemon' = "up"
    PROVE  /\ UsersOK(user, admin, caps)' /\ NoneLost(user, caps, user', caps')
           /\ admin' # {}
           /\ \E u \in Uids : user'[u] = "vshelper"
           /\ \A u \in Uids : user[u] # None => user'[u] = user[u]
  <1> DEFINE t == vxdb_sanity_check(<<user, admin, caps>>)
  <1>1. t # None /\ user' = t[1] /\ admin' = t[2] /\ caps' = t[3]
    BY DEF vxdb_init
  <1>2. UsersOK(user, admin, caps)
    BY DEF TablesOK, AdminsInv, UsersOK
  <1>3. Top(user) + 1 < MaxUid
    BY DEF vxdb_init, RoomInv, auth_getnextuid, Top
  <1>4. PICK us2, ad2, ca2 :
           /\ t = <<us2, ad2, ca2>>
           /\ UsersOK(us2, ad2, ca2) /\ NoneLost(user, caps, us2, ca2)
           /\ ad2 # {}
           /\ \E u \in Uids : us2[u] = "vshelper"
           /\ \A u \in Uids : user[u] # None => us2[u] = user[u]
    BY <1>1, <1>2, <1>3, SanityCheck
  <1> HIDE DEF t
  <1>5. user' = us2 /\ admin' = ad2 /\ caps' = ca2
    BY <1>1, <1>4
  <1> QED
    BY <1>4, <1>5 DEF UsersOK, NoneLost

LEMMA TablesStep == AccountsInv /\ [Next]_vars => TablesOK' /\ AdminsInv' /\ RoomInv'
  <1> SUFFICES ASSUME TablesOK, ChildrenOK, AdminsInv, RoomInv, [Next]_vars
               PROVE  TablesOK' /\ AdminsInv' /\ RoomInv'
    BY DEF AccountsInv
  <1> USE DEF accounts, maps, locals
  <1>1. ASSUME UNCHANGED <<accounts, maps, vps, daemon>> PROVE TablesOK' /\ AdminsInv'
    BY <1>1 DEF TablesOK, AdminsInv
  <1>2. ASSUME NEW p \in Procs,
               \/ Begin(p) \/ GetUid(p) \/ GetXid(p) \/ GetNextUid(p) \/ UpdatePassword(p)
               \/ GetGid(p) \/ GetNextGid(p)
        PROVE  TablesOK' /\ AdminsInv'
    BY <1>1, <1>2 DEF Begin, GetUid, GetXid, GetNextUid, UpdatePassword, GetGid, GetNextGid
  <1>3. ASSUME NEW p \in Procs, InsertUser(p) PROVE TablesOK' /\ AdminsInv'
    <2>1. uid[p] \in Uids /\ req[p] \in Requests /\ req[p].user \in Usernames
      BY <1>3 DEF InsertUser, ChildrenOK, ChildOK, OpFits, Requests, GroupOps
    <2>2. UNCHANGED <<caps, owner, group, member, vps, daemon>>
      BY <1>3 DEF InsertUser
    <2>3. CASE UNCHANGED <<user, admin>>
      BY <2>2, <2>3 DEF TablesOK, AdminsInv
    <2>4. CASE ~UNCHANGED <<user, admin>>
      <3>1. user' = [user EXCEPT ![uid[p]] = req[p].user] /\ admin' \in {admin, admin \cup {uid[p]}}
        BY <1>3, <2>4 DEF InsertUser
      <3>2. req[p].user # None
        BY <2>1, ConstantsAssumption
      <3> QED
        BY <2>1, <2>2, <3>1, <3>2 DEF TablesOK, AdminsInv
    <2> QED
      BY <2>3, <2>4
  <1>4. ASSUME NEW p \in Procs, UpdateAdmin(p) PROVE TablesOK' /\ AdminsInv'
    <2>1. uid[p] \in Uids
      BY <1>4 DEF UpdateAdmin, ChildrenOK, ChildOK
    <2>2. \/ admin' \in {admin, admin \ {uid[p]}}
          \/ admin' = admin \cup {uid[p]} /\ user[uid[p]] # None
      BY <1>4 DEF UpdateAdmin
    <2> QED
      BY <1>4, <2>1, <2>2 DEF UpdateAdmin, TablesOK, AdminsInv
  <1>5. ASSUME NEW p \in Procs, m_vcd_user_remove(p) PROVE TablesOK' /\ AdminsInv'
    <2>1. uid[p] \in Uids /\ UNCHANGED <<group, member, vps, daemon>>
      BY <1>5 DEF m_vcd_user_remove, ChildrenOK, ChildOK
    <2>2. CASE UNCHANGED <<accounts, owner>>
      BY <2>1, <2>2 DEF TablesOK, AdminsInv
    <2>3. CASE ~UNCHANGED <<accounts, owner>>
      <3>1. /\ user' = [user EXCEPT ![uid[p]] = None]
            /\ admin' = admin \ {uid[p]}
            /\ caps' = [caps EXCEPT ![uid[p]] = {}]
            /\ owner' = [x \in Xids |-> owner[x] \ {uid[p]}]
        BY <1>5, <2>3 DEF m_vcd_user_remove
      <3> QED
        BY <2>1, <3>1 DEF TablesOK, AdminsInv
    <2> QED
      BY <2>2, <2>3
  <1>6. ASSUME NEW p \in Procs, m_vcd_user_caps_add(p) \/ m_vcd_user_caps_remove(p)
        PROVE  TablesOK' /\ AdminsInv'
    <2>1. UNCHANGED <<user, admin, owner, group, member, vps, daemon>>
      BY <1>6 DEF m_vcd_user_caps_add, m_vcd_user_caps_remove
    <2>2. \E C \in SUBSET Caps : caps' = [caps EXCEPT ![uid[p]] = C] \/ caps' = caps
      <3>1. uid[p] \in Uids /\ caps[uid[p]] \subseteq Caps
        BY <1>6 DEF m_vcd_user_caps_add, m_vcd_user_caps_remove, ChildrenOK, ChildOK, TablesOK
      <3> QED
        BY <1>6, <3>1 DEF m_vcd_user_caps_add, m_vcd_user_caps_remove, Caps
    <2>3. caps' \in [Uids -> SUBSET Caps]
      BY <2>2 DEF TablesOK
    <2> QED
      BY <2>1, <2>3 DEF TablesOK, AdminsInv
  <1>7. ASSUME NEW p \in Procs, InsertGroup(p) PROVE TablesOK' /\ AdminsInv'
    <2>1. req[p].group \in Groups
      BY <1>7 DEF InsertGroup, ChildrenOK, ChildOK, Requests
    <2>2. group' \in [Gids -> Groups \cup {None}]
      BY <1>7, <2>1 DEF InsertGroup, TablesOK
    <2> QED
      BY <1>7, <2>2 DEF InsertGroup, TablesOK, AdminsInv
  <1>8. ASSUME NEW p \in Procs, AddToMap(p) PROVE TablesOK' /\ AdminsInv'
    <2>1. /\ req[p].op = "owner_add" => uid[p] \in Uids
          /\ req[p].op = "vg_add" => gid[p] \in Gids
      BY <1>8 DEF AddToMap, ChildrenOK, ChildOK, GroupOps
    <2>2. owner' \in [Xids -> SUBSET Uids] /\ member' \in [Xids -> SUBSET Gids]
      BY <1>8, <2>1 DEF AddToMap, TablesOK
    <2> QED
      BY <1>8, <2>2 DEF AddToMap, TablesOK, AdminsInv
  <1>9. ASSUME NEW p \in Procs, RemoveFromMap(p) PROVE TablesOK' /\ AdminsInv'
    <2>1. owner' \in [Xids -> SUBSET Uids]
      BY <1>9 DEF RemoveFromMap, TablesOK
    <2>2. member' \in [Xids -> SUBSET Gids]
      BY <1>9 DEF RemoveFromMap, TablesOK
    <2>3. group' \in [Gids -> Groups \cup {None}]
      BY <1>9 DEF RemoveFromMap, TablesOK
    <2> QED
      BY <1>9, <2>1, <2>2, <2>3 DEF RemoveFromMap, TablesOK, AdminsInv
  <1>10. ASSUME NEW p \in Procs, m_vx_create(p) \/ m_vx_remove(p) PROVE TablesOK' /\ AdminsInv'
    <2>1. vps' \subseteq Xids
      BY <1>10 DEF m_vx_create, m_vx_remove, TablesOK
    <2>2. owner' \in [Xids -> SUBSET Uids] /\ member' \in [Xids -> SUBSET Gids]
      BY <1>10 DEF m_vx_create, m_vx_remove, TablesOK
    <2> QED
      BY <1>10, <2>1, <2>2 DEF m_vx_create, m_vx_remove, TablesOK, AdminsInv
  <1>11. ASSUME NEW p \in Procs,
                \/ Begin(p) \/ GetUid(p) \/ GetXid(p) \/ GetNextUid(p) \/ InsertUser(p)
                \/ UpdateAdmin(p) \/ UpdatePassword(p) \/ m_vcd_user_remove(p)
                \/ m_vcd_user_caps_add(p) \/ m_vcd_user_caps_remove(p)
                \/ GetGid(p) \/ GetNextGid(p) \/ InsertGroup(p)
                \/ AddToMap(p) \/ RemoveFromMap(p) \/ m_vx_create(p) \/ m_vx_remove(p)
         PROVE  RoomInv'
    <2>1. daemon = "up" \/ pc[p] # "idle"
      BY <1>11 DEF Begin, GetUid, GetXid, GetNextUid, InsertUser, UpdateAdmin, UpdatePassword,
                   m_vcd_user_remove, m_vcd_user_caps_add, m_vcd_user_caps_remove, GetGid,
                   GetNextGid, InsertGroup, AddToMap, RemoveFromMap, m_vx_create, m_vx_remove
    <2>2. UNCHANGED daemon
      BY <1>11 DEF Begin, GetUid, GetXid, GetNextUid, InsertUser, UpdateAdmin, UpdatePassword,
                   m_vcd_user_remove, m_vcd_user_caps_add, m_vcd_user_caps_remove, GetGid,
                   GetNextGid, InsertGroup, AddToMap, RemoveFromMap, m_vx_create, m_vx_remove
    <2> QED
      BY <2>1, <2>2 DEF RoomInv
  <1>12. CASE Stop
    BY <1>12 DEF Stop, TablesOK, AdminsInv, RoomInv, auth_getnextuid
  <1>13. CASE vxdb_init
    <2>1. UNCHANGED <<owner, group, member, vps, pc>> /\ daemon # "up"
      BY <1>13 DEF vxdb_init
    <2>2. CASE daemon' = "up"
      <3>1. UsersOK(user, admin, caps)'
        BY <1>13, <2>2, Starts
      <3> QED
        BY <2>1, <2>2, <3>1 DEF UsersOK, TablesOK, AdminsInv, RoomInv
    <2>3. CASE daemon' # "up"
      <3>1. daemon' = "dead" /\ UNCHANGED <<user, admin, caps>>
        BY <1>13, <2>3 DEF vxdb_init
      <3> QED
        BY <2>1, <3>1 DEF TablesOK, AdminsInv, RoomInv, auth_getnextuid
    <2> QED
      BY <2>2, <2>3
  <1>14. CASE UNCHANGED vars
    BY <1>14 DEF vars, TablesOK, AdminsInv, RoomInv, auth_getnextuid
  <1>15. CASE \E p \in Procs :
                 \/ Begin(p) \/ GetUid(p) \/ GetXid(p) \/ GetNextUid(p) \/ InsertUser(p)
                 \/ UpdateAdmin(p) \/ UpdatePassword(p) \/ m_vcd_user_remove(p)
                 \/ m_vcd_user_caps_add(p) \/ m_vcd_user_caps_remove(p)
                 \/ GetGid(p) \/ GetNextGid(p) \/ InsertGroup(p)
                 \/ AddToMap(p) \/ RemoveFromMap(p) \/ m_vx_create(p) \/ m_vx_remove(p)
    BY <1>2, <1>3, <1>4, <1>5, <1>6, <1>7, <1>8, <1>9, <1>10, <1>11, <1>15
  <1> QED
    BY <1>12, <1>13, <1>14, <1>15 DEF Next

LEMMA RequestsStep == RequestsInv /\ [Next]_vars => RequestsInv'
  <1> SUFFICES ASSUME RequestsInv, [Next]_vars PROVE RequestsInv'
    OBVIOUS
  <1>1. ASSUME NEW p \in Procs, Begin(p) PROVE RequestsInv'
    BY <1>1, ConstantsAssumption DEF Begin, RequestsInv
  <1>2. ASSUME requests' = requests PROVE RequestsInv'
    BY <1>2 DEF RequestsInv
  <1> QED
    BY <1>1, <1>2 DEF Next, vars, GetUid, GetXid, GetNextUid, InsertUser, UpdateAdmin,
           UpdatePassword, m_vcd_user_remove, m_vcd_user_caps_add, m_vcd_user_caps_remove, GetGid,
           GetNextGid, InsertGroup, AddToMap, RemoveFromMap, m_vx_create, m_vx_remove, Stop,
           vxdb_init

LEMMA AccountsAlways == Spec => []AccountsInv
  <1>1. Init => AccountsInv
    <2> SUFFICES ASSUME Init PROVE AccountsInv
      OBVIOUS
    <2> USE ConstantsAssumption
    <2>1. TablesOK
      BY DEF Init, TablesOK
    <2>2. ChildrenOK
      BY DEF Init, ChildrenOK, Functions, ChildOK, PCs
    <2>3. AdminsInv
      BY DEF Init, AdminsInv
    <2>4. RoomInv
      <3>1. {u \in Uids : user[u] # None} = {}
        BY DEF Init
      <3>2. auth_getnextuid = 1
        BY <3>1 DEF auth_getnextuid, Greatest
      <3> QED
        BY <3>2 DEF Init, RoomInv
    <2>5. RequestsInv
      BY DEF Init, RequestsInv
    <2> QED
      BY <2>1, <2>2, <2>3, <2>4, <2>5 DEF AccountsInv
  <1>2. AccountsInv /\ [Next]_vars => AccountsInv'
    BY ChildrenStep, TablesStep, RequestsStep DEF AccountsInv
  <1> QED
    BY <1>1, <1>2, PTL DEF Spec

(* Every statement of a child and every start of the daemon keeps the      *)
(* types: a child has the uid, the gid and the xid its method needs        *)
(* wherever it uses them, and new ids are within the bounds.               *)
THEOREM TypeCorrect == Spec => []TypeOK
  <1>1. AccountsInv => TypeOK
    <2> SUFFICES ASSUME TablesOK, ChildrenOK, RequestsInv PROVE TypeOK
      BY DEF AccountsInv
    <2>1. pc \in [Procs -> PCs] /\ req \in [Procs -> Requests \cup {None}]
      BY DEF ChildrenOK, Functions, ChildOK
    <2>2. uid \in [Procs -> Uids \cup {0}] /\ gid \in [Procs -> Gids \cup {0}]
      BY DEF ChildrenOK, Functions, ChildOK
    <2>3. xid \in [Procs -> Xids \cup {None}]
      BY DEF ChildrenOK, Functions, ChildOK
    <2> QED
      BY <2>1, <2>2, <2>3 DEF TablesOK, TypeOK, RequestsInv
  <1> QED
    BY <1>1, AccountsAlways, PTL

(* Whatever any number of children did to the users and however they       *)
(* interleaved, a daemon that comes up has an admin that exists and the    *)
(* user of vshelper.                                                       *)
THEOREM ComesUpWithUsers == Spec => UpWithAdminAndHelper
  <1> DEFINE Mended == daemon # "up" /\ daemon' = "up" =>
                          /\ \E u \in admin' : user'[u] # None
                          /\ \E u \in Uids : user'[u] = "vshelper"
  <1>1. AccountsInv /\ [Next]_vars => [Mended]_vars
    <2> SUFFICES ASSUME AccountsInv, Next, daemon # "up", daemon' = "up"
                 PROVE  /\ \E u \in admin' : user'[u] # None
                        /\ \E u \in Uids : user'[u] = "vshelper"
      OBVIOUS
    <2>1. vxdb_init
      BY DEF Next, Begin, GetUid, GetXid, GetNextUid, InsertUser, UpdateAdmin, UpdatePassword,
             m_vcd_user_remove, m_vcd_user_caps_add, m_vcd_user_caps_remove, GetGid, GetNextGid,
             InsertGroup, AddToMap, RemoveFromMap, m_vx_create, m_vx_remove, Stop
    <2>2. UsersOK(user, admin, caps)' /\ admin' # {} /\ \E u \in Uids : user'[u] = "vshelper"
      BY <2>1, Starts DEF AccountsInv
    <2> QED
      BY <2>2 DEF UsersOK
  <1> QED
    BY <1>1, AccountsAlways, PTL DEF Spec, UpWithAdminAndHelper

-----------------------------------------------------------------------------
(* Rows that outlive what they belong to.  Nothing locks users, groups and *)
(* their maps, so two methods at once may leave such rows.  A step makes   *)
(* one only if it is such a late INSERT.                                   *)
LateCaps == \A u \in LostCaps' \ LostCaps :
               \E p \in Procs : uid[p] = u /\ InsertsLate(p, "caps", user[u] = None)
LateOwners == \A r \in LostOwners' \ LostOwners :
                 \E p \in Procs :
                    /\ xid[p] = r[1] /\ uid[p] = r[2]
                    /\ InsertsLate(p, "map", r[1] \notin vps \/ user[r[2]] = None)
LateMembers == \A r \in LostMembers' \ LostMembers :
                  \E p \in Procs :
                     /\ xid[p] = r[1] /\ gid[p] = r[2]
                     /\ InsertsLate(p, "map", r[1] \notin vps \/ group[r[2]] = None)

(* Users, vservers and groups stay, and no row is new: nothing is lost. *)
LEMMA CapsStay ==
    ASSUME NoneLost(user, caps, user', caps')
    PROVE  LateCaps
  <1>1. LostCaps' \subseteq LostCaps
    BY DEF LostCaps, NoneLost
  <1> QED
    BY <1>1 DEF LateCaps

LEMMA OwnersStay ==
    ASSUME \A x \in Xids : \A u \in Uids :
              u \in owner'[x] /\ (x \notin vps' \/ user'[u] = None)
              => u \in owner[x] /\ (x \notin vps \/ user[u] = None)
    PROVE  LateOwners
  <1>1. ASSUME NEW r \in LostOwners' PROVE r \in LostOwners
    <2>1. r \in Xids \X Uids /\ r[2] \in owner'[r[1]] /\ (r[1] \notin vps' \/ user'[r[2]] = None)
      BY DEF LostOwners
    <2>2. r[1] \in Xids /\ r[2] \in Uids
      BY <2>1
    <2>3. r[2] \in owner[r[1]] /\ (r[1] \notin vps \/ user[r[2]] = None)
      BY <2>1, <2>2
    <2> QED
      BY <2>1, <2>3 DEF LostOwners
  <1> QED
    BY <1>1 DEF LateOwners

LEMMA MembersStay ==
    ASSUME \A x \in Xids : \A g \in Gids :
              g \in member'[x] /\ (x \notin vps' \/ group'[g] = None)
              => g \in member[x] /\ (x \notin vps \/ group[g] = None)
    PROVE  LateMembers
  <1>1. ASSUME NEW r \in LostMembers' PROVE r \in LostMembers
    <2>1. r \in Xids \X Gids /\ r[2] \in member'[r[1]] /\ (r[1] \notin vps' \/ group'[r[2]] = None)
      BY DEF LostMembers
    <2>2. r[1] \in Xids /\ r[2] \in Gids
      BY <2>1
    <2>3. r[2] \in member[r[1]] /\ (r[1] \notin vps \/ group[r[2]] = None)
      BY <2>1, <2>2
    <2> QED
      BY <2>1, <2>3 DEF LostMembers
  <1> QED
    BY <1>1 DEF LateMembers

(* A removal takes every row that refers to what it removes, whichever     *)
(* rows other children have put there; a look-up inserts nothing; what is  *)
(* inserted is the pair of ids the child holds.                            *)
LEMMA RowsStep == AccountsInv /\ [Next]_vars => LateCaps /\ LateOwners /\ LateMembers
  <1> SUFFICES ASSUME TablesOK, ChildrenOK, AdminsInv, RoomInv, [Next]_vars
               PROVE  LateCaps /\ LateOwners /\ LateMembers
    BY DEF AccountsInv
  <1> USE DEF accounts, maps, locals
  <1>a. ASSUME UNCHANGED <<user, caps>> PROVE LateCaps
    BY <1>a, CapsStay DEF NoneLost
  <1>b. ASSUME UNCHANGED <<user, owner, vps>> PROVE LateOwners
    BY <1>b, OwnersStay
  <1>c. ASSUME UNCHANGED <<group, member, vps>> PROVE LateMembers
    BY <1>c, MembersStay
  <1>2. ASSUME NEW p \in Procs,
               \/ Begin(p) \/ GetUid(p) \/ GetXid(p) \/ GetNextUid(p) \/ UpdatePassword(p)
               \/ UpdateAdmin(p) \/ GetGid(p) \/ GetNextGid(p)
        PROVE  LateCaps /\ LateOwners /\ LateMembers
    <2>1. UNCHANGED <<user, caps, maps, vps>>
      BY <1>2 DEF Begin, GetUid, GetXid, GetNextUid, UpdatePassword, UpdateAdmin,
                  GetGid, GetNextGid
    <2> QED
      BY <1>a, <1>b, <1>c, <2>1
  <1>3. ASSUME NEW p \in Procs, InsertUser(p) PROVE LateCaps /\ LateOwners /\ LateMembers
    <2>1. uid[p] \in Uids /\ req[p] \in Requests /\ req[p].user \in Usernames
      BY <1>3 DEF InsertUser, ChildrenOK, ChildOK, OpFits, Requests, GroupOps
    <2>2. UNCHANGED <<caps, owner, group, member, vps>>
      BY <1>3 DEF InsertUser
    <2>3. \A u \in Uids : user'[u] = None => user[u] = None
      <3>1. req[p].user # None
        BY <2>1, ConstantsAssumption
      <3>2. user' = user \/ user' = [user EXCEPT ![uid[p]] = req[p].user]
        BY <1>3 DEF InsertUser
      <3> QED
        BY <3>1, <3>2 DEF TablesOK
    <2>4. LateCaps
      BY <2>2, <2>3, CapsStay DEF NoneLost
    <2>5. LateOwners
      BY <2>2, <2>3, OwnersStay
    <2> QED
      BY <1>c, <2>2, <2>4, <2>5
  <1>4. ASSUME NEW p \in Procs, m_vcd_user_remove(p) PROVE LateCaps /\ LateOwners /\ LateMembers
    <2>1. uid[p] \in Uids /\ UNCHANGED <<group, member, vps>>
      BY <1>4 DEF m_vcd_user_remove, ChildrenOK, ChildOK
    <2>2. CASE UNCHANGED <<accounts, owner>>
      BY <1>a, <1>b, <1>c, <2>1, <2>2
    <2>3. CASE ~UNCHANGED <<accounts, owner>>
      <3>1. /\ user' = [user EXCEPT ![uid[p]] = None]
            /\ caps' = [caps EXCEPT ![uid[p]] = {}]
            /\ owner' = [x \in Xids |-> owner[x] \ {uid[p]}]
        BY <1>4, <2>3 DEF m_vcd_user_remove
      <3>2. \A u \in Uids : /\ u = uid[p] => caps'[u] = {}
                            /\ u # uid[p] => caps'[u] = caps[u] /\ user'[u] = user[u]
        BY <2>1, <3>1 DEF TablesOK
      <3>3. LateCaps
        BY <3>2, CapsStay DEF NoneLost
      <3>4. \A x \in Xids : uid[p] \notin owner'[x] /\ owner'[x] \subseteq owner[x]
        BY <3>1
      <3>5. LateOwners
        BY <2>1, <3>2, <3>4, OwnersStay
      <3> QED
        BY <1>c, <2>1, <3>3, <3>5
    <2> QED
      BY <2>2, <2>3
  <1>5. ASSUME NEW p \in Procs, m_vcd_user_caps_add(p) \/ m_vcd_user_caps_remove(p)
        PROVE  LateCaps /\ LateOwners /\ LateMembers
    <2>1. UNCHANGED <<user, owner, group, member, vps>> /\ pc[p] = "caps" /\ pc'[p] = "idle"
      BY <1>5 DEF m_vcd_user_caps_add, m_vcd_user_caps_remove, Done, Goto, ChildrenOK, Functions
    <2>2. \A u \in Uids : u # uid[p] => caps'[u] = caps[u]
      BY <1>5 DEF m_vcd_user_caps_add, m_vcd_user_caps_remove, TablesOK
    <2>3. LateCaps
      <3> SUFFICES ASSUME NEW u \in LostCaps' \ LostCaps
                   PROVE  uid[p] = u /\ InsertsLate(p, "caps", user[u] = None)
        BY DEF LateCaps
      <3>1. u \in Uids /\ caps'[u] # {} /\ user[u] = None /\ caps[u] = {}
        BY <2>1 DEF LostCaps
      <3> QED
        BY <2>1, <2>2, <3>1 DEF InsertsLate
    <2> QED
      BY <1>b, <1>c, <2>1, <2>3
  <1>6. ASSUME NEW p \in Procs, InsertGroup(p) PROVE LateCaps /\ LateOwners /\ LateMembers
    <2>1. req[p].group # None
      BY <1>6, ConstantsAssumption DEF InsertGroup, ChildrenOK, ChildOK, Requests
    <2>2. UNCHANGED <<user, caps, owner, member, vps>>
      BY <1>6 DEF InsertGroup
    <2>3. \A g \in Gids : group'[g] = None => group[g] = None
      BY <1>6, <2>1 DEF InsertGroup, TablesOK
    <2>4. LateMembers
      BY <2>2, <2>3, MembersStay
    <2> QED
      BY <1>a, <1>b, <2>2, <2>4
  <1>7. ASSUME NEW p \in Procs, AddToMap(p) PROVE LateCaps /\ LateOwners /\ LateMembers
    <2>1. pc[p] = "map" /\ pc'[p] = "idle" /\ UNCHANGED <<user, caps, group, vps>>
      BY <1>7 DEF AddToMap, Done, Goto, ChildrenOK, Functions
    <2>2. \A x \in Xids : \A u \in owner'[x] : u \in owner[x] \/ (x = xid[p] /\ u = uid[p])
      BY <1>7 DEF AddToMap, TablesOK
    <2>3. \A x \in Xids : \A g \in member'[x] : g \in member[x] \/ (x = xid[p] /\ g = gid[p])
      BY <1>7 DEF AddToMap, TablesOK
    <2>4. LateOwners
      <3> SUFFICES ASSUME NEW r \in LostOwners' \ LostOwners
                   PROVE  /\ xid[p] = r[1] /\ uid[p] = r[2]
                          /\ InsertsLate(p, "map", r[1] \notin vps \/ user[r[2]] = None)
        BY DEF LateOwners
      <3>1. /\ r \in Xids \X Uids /\ r[2] \in owner'[r[1]]
            /\ (r[1] \notin vps \/ user[r[2]] = None) /\ r[2] \notin owner[r[1]]
        BY <2>1 DEF LostOwners
      <3>2. r[1] \in Xids
        BY <3>1
      <3> QED
        BY <2>1, <2>2, <3>1, <3>2 DEF InsertsLate
    <2>5. LateMembers
      <3> SUFFICES ASSUME NEW r \in LostMembers' \ LostMembers
                   PROVE  /\ xid[p] = r[1] /\ gid[p] = r[2]
                          /\ InsertsLate(p, "map", r[1] \notin vps \/ group[r[2]] = None)
        BY DEF LateMembers
      <3>1. /\ r \in Xids \X Gids /\ r[2] \in member'[r[1]]
            /\ (r[1] \notin vps \/ group[r[2]] = None) /\ r[2] \notin member[r[1]]
        BY <2>1 DEF LostMembers
      <3>2. r[1] \in Xids
        BY <3>1
      <3> QED
        BY <2>1, <2>3, <3>1, <3>2 DEF InsertsLate
    <2> QED
      BY <1>a, <2>1, <2>4, <2>5
  <1>8. ASSUME NEW p \in Procs, RemoveFromMap(p) PROVE LateCaps /\ LateOwners /\ LateMembers
    <2>1. UNCHANGED <<user, caps, vps>>
      BY <1>8 DEF RemoveFromMap
    <2>2. \A x \in Xids : owner'[x] \subseteq owner[x]
      BY <1>8 DEF RemoveFromMap, TablesOK
    <2>3. \A x \in Xids : \A g \in member'[x] :
             g \in member[x] /\ (g \in Gids /\ group'[g] = None => group[g] = None)
      BY <1>8 DEF RemoveFromMap, TablesOK
    <2>4. LateOwners
      BY <2>1, <2>2, OwnersStay
    <2>5. LateMembers
      BY <2>1, <2>3, MembersStay
    <2> QED
      BY <1>a, <2>1, <2>4, <2>5
  <1>9. ASSUME NEW p \in Procs, m_vx_create(p) PROVE LateCaps /\ LateOwners /\ LateMembers
    <2>1. UNCHANGED <<user, caps, owner, group, member>> /\ vps \subseteq vps'
      BY <1>9 DEF m_vx_create
    <2> QED
      BY <1>a, <2>1, OwnersStay, MembersStay
  <1>10. ASSUME NEW p \in Procs, m_vx_remove(p) PROVE LateCaps /\ LateOwners /\ LateMembers
    <2>1. PICK x \in vps :
             /\ vps' = vps \ {x}
             /\ owner' = [owner EXCEPT ![x] = {}]
             /\ member' = [member EXCEPT ![x] = {}]
      BY <1>10 DEF m_vx_remove
    <2>2. UNCHANGED <<user, caps, group>>
      BY <1>10 DEF m_vx_remove
    <2>3. \A y \in Xids : owner'[y] = (IF y = x THEN {} ELSE owner[y])
                          /\ member'[y] = (IF y = x THEN {} ELSE member[y])
      BY <2>1 DEF TablesOK
    <2>4. LateOwners
      BY <2>1, <2>2, <2>3, OwnersStay
    <2>5. LateMembers
      BY <2>1, <2>2, <2>3, MembersStay
    <2> QED
      BY <1>a, <2>2, <2>4, <2>5
  <1>11. CASE Stop \/ UNCHANGED vars
    BY <1>a, <1>b, <1>c, <1>11 DEF Stop, vars
  <1>12. CASE vxdb_init
    <2>1. UNCHANGED <<owner, group, member, vps>>
      BY <1>12 DEF vxdb_init
    <2>2. CASE daemon' = "up"
      <3>1. /\ NoneLost(user, caps, user', caps')
            /\ \A u \in Uids : user[u] # None => user'[u] = user[u]
        BY <1>12, <2>2, Starts
      <3>2. LateOwners
        BY <2>1, <3>1, OwnersStay
      <3> QED
        BY <1>c, <2>1, <3>1, <3>2, CapsStay
    <2>3. CASE daemon' # "up"
      BY <1>a, <1>b, <1>c, <1>12, <2>1, <2>3 DEF vxdb_init
    <2> QED
      BY <2>2, <2>3
  <1> QED
    BY <1>2, <1>3, <1>4, <1>5, <1>6, <1>7, <1>8, <1>9, <1>10, <1>11, <1>12 DEF Next

(* However many children run at once and whatever they were asked, a       *)
(* capability, an owner or a member that belongs to no user, vserver or    *)
(* group is there only because an INSERT came after the removal its        *)
(* look-up came before: vcd.user.remove, vg.remove and vx.remove take      *)
(* everything that refers to a row, whoever has just put it there, and the *)
(* sanity check at a start only adds users.                                *)
THEOREM RowsAreLostOnlyByRaces == Spec => RowsLostOnlyByRaces
  <1>1. AccountsInv /\ [Next]_vars => [LateCaps /\ LateOwners /\ LateMembers]_vars
    BY RowsStep
  <1> QED
    BY <1>1, AccountsAlways, PTL DEF Spec, RowsLostOnlyByRaces, LateCaps, LateOwners, LateMembers
=============================================================================
