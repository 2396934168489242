---------------------------- MODULE StartupProofs ----------------------------
(***************************************************************************)
(* Proofs about Configuration and Startup for any requests, any number of  *)
(* changes, and any size of words and pages.                               *)
(***************************************************************************)
EXTENDS Startup, FiniteSetTheorems, FunctionTheorems, SequenceTheorems, TLAPS

(* Division with remainder, by any divisor. *)
LEMMA DivMod ==
    ASSUME NEW a \in Nat, NEW b \in Nat \ {0}
    PROVE  /\ a \div b \in Nat /\ a % b \in Nat /\ a % b < b
           /\ a % b = a - b * (a \div b)
           /\ b * (a \div b) <= a
  <1>1. a \div b \in Nat /\ a % b \in Nat
    OBVIOUS
  <1>2. a % b < b
    OBVIOUS
  <1>3. a % b = a - b * (a \div b)
    OBVIOUS
  <1>4. b * (a \div b) <= a
    OBVIOUS
  <1> QED
    BY <1>1, <1>2, <1>3, <1>4

LEMMA ProductOrder ==
    ASSUME NEW a \in Nat, NEW b \in Nat, NEW k \in Nat \ {0}
    PROVE  /\ a <= b => a * k <= b * k
           /\ a * k <= b * k => a <= b
           /\ a * k \in Nat
  OBVIOUS

LEMMA SmallMod ==
    ASSUME NEW a \in Nat, NEW b \in Nat \ {0}, a < b
    PROVE  a % b = a
  <1> DEFINE d == a \div b
  <1>1. d \in Nat /\ b * d <= a /\ a % b = a - b * d
    BY DivMod
  <1> HIDE DEF d
  <1>2. d = 0
    <2>1. CASE d >= 1
      <3>1. b * d >= b
        BY <1>1, <2>1
      <3> QED
        BY <1>1, <3>1
    <2> QED
      BY <1>1, <2>1
  <1> QED
    BY <1>1, <1>2

LEMMA ExactDiv ==
    ASSUME NEW n \in Nat, NEW k \in Nat \ {0}
    PROVE  (n * k) \div k = n
  <1> DEFINE a == n * k
             d == a \div k
             r == a % k
  <1>1. a \in Nat
    OBVIOUS
  <1>2. d \in Nat /\ r \in Nat /\ r < k /\ r = a - k * d
    BY <1>1, DivMod
  <1> HIDE DEF d, r
  <1>3. r = k * (n - d)
    BY <1>2
  <1>4. n - d = 0
    <2> DEFINE e == n - d
    <2>1. e \in Int /\ r = k * e
      BY <1>2, <1>3
    <2> HIDE DEF e
    <2>2. ASSUME e >= 1 PROVE FALSE
      BY <1>2, <2>1, <2>2
    <2>3. ASSUME e <= -1 PROVE FALSE
      BY <1>2, <2>1, <2>3
    <2>4. e = 0
      BY <2>1, <2>2, <2>3
    <2> QED
      BY <2>4 DEF e
  <1> QED
    BY <1>2, <1>4 DEF d

(* vxdb.vx.limit.set and vxdb.vx.limit.get: kilobytes to pages and back.   *)
(* The product wraps in both directions.                                   *)
LEMMA Paged ==
    ASSUME NEW w \in Nat
    PROVE  /\ bytestopages(w) \in 0 .. WORD - 1
           /\ bytestopages(w) * PAGE <= w * KB
           /\ pagestobytes(bytestopages(w)) \in Nat
           /\ pagestobytes(bytestopages(w)) <= w
           /\ w * KB < WORD => (w - pagestobytes(bytestopages(w))) * KB < PAGE
  <1> DEFINE x == w * KB
             y == x % WORD
             q == y \div PAGE
             z == PAGE \div KB
             g == pagestobytes(q)
  <1>1. KB \in Nat \ {0} /\ PAGE \in Nat \ {0} /\ WORD \in Nat \ {0}
    BY SizesAssumption
  <1>2. x \in Nat
    BY <1>1
  <1>3. y \in Nat /\ y < WORD /\ y <= x /\ (x < WORD => y = x)
    <2> HIDE DEF x
    <2>1. y \in Nat /\ y < WORD /\ y = x - WORD * (x \div WORD) /\ WORD * (x \div WORD) \in Nat
      <3>1. x \div WORD \in Nat
        BY <1>1, <1>2, DivMod
      <3>2. WORD * (x \div WORD) \in Nat
        BY <1>1, <3>1
      <3> QED
        BY <1>1, <1>2, <3>2, DivMod
    <2>2. x < WORD => y = x
      BY <1>1, <1>2, SmallMod
    <2> HIDE DEF y
    <2> QED
      BY <1>2, <2>1, <2>2
  <1>4. q \in Nat /\ PAGE * q <= y /\ y - PAGE * q < PAGE
    <2> HIDE DEF y
    <2> QED
      BY <1>1, <1>3, DivMod
  <1>5. z \in Nat /\ PAGE = z * KB
    <2>1. z \in Nat /\ PAGE % KB = PAGE - KB * z /\ PAGE % KB = 0
      BY <1>1, DivMod, SizesAssumption
    <2> HIDE DEF z
    <2> QED
      BY <1>1, <2>1
  <1>6. bytestopages(w) = q
    BY DEF bytestopages
  <1> HIDE DEF q
  <1>7. q * PAGE \in Nat /\ q * PAGE <= y /\ q * PAGE < WORD /\ q <= q * PAGE
    <2> HIDE DEF y
    <2> QED
      BY <1>1, <1>3, <1>4
  <1>8. g = q * z
    <2>1. (q * PAGE) % WORD = q * PAGE
      BY <1>1, <1>7, SmallMod
    <2>2. q * PAGE = (q * z) * KB /\ q * z \in Nat
      <3> HIDE DEF z
      <3> QED
        BY <1>1, <1>4, <1>5
    <2>3. ((q * z) * KB) \div KB = q * z
      BY <1>1, <2>2, ExactDiv
    <2> QED
      BY <2>1, <2>2, <2>3 DEF pagestobytes
  <1> HIDE DEF y, z, g
  <1>9. g \in Nat /\ g * KB = q * PAGE
    BY <1>1, <1>4, <1>5, <1>8
  <1>10. g <= w
    <2>1. g * KB <= w * KB
      BY <1>1, <1>2, <1>3, <1>7, <1>9
    <2> QED
      BY <1>1, <1>9, <2>1, ProductOrder
  <1>11. x < WORD => (w - g) * KB < PAGE
    <2>1. (w - g) * KB = w * KB - g * KB
      BY <1>1, <1>9
    <2> QED
      BY <1>1, <1>2, <1>3, <1>4, <1>9, <2>1
  <1>12. q \in 0 .. WORD - 1 /\ q * PAGE <= w * KB
    BY <1>1, <1>2, <1>3, <1>4, <1>7
  <1>13. g = pagestobytes(q)
    BY DEF g
  <1> QED
    BY <1>6, <1>9, <1>10, <1>11, <1>12, <1>13

-----------------------------------------------------------------------------
(* What a configuration method does to the rows of its vserver *)

Removed(c, d) == \E t \in Tables : \E K : d = Delete(c, t, K)
Written(c, d) ==
    \E t \in Tables \ {"vx_limit"} : \E k \in Keys[t] : \E row : d = InsertOrReplace(c, t, k, row)

(* The limits are kept in pages or as they are. *)
Stored(type, n) == IF type \in LIMTYPE THEN bytestopages(n) ELSE n
LimitSet(c, d, q) ==
    LET p == Fields(q) IN
    /\ Decomposes(q, [name |-> "s", type |-> "s", soft |-> "s", max |-> "s"])
    /\ str_isdigit(p.soft) /\ str_isdigit(p.max) /\ p.type \in LimitTypes
    /\ d = InsertOrReplace(c, "vx_limit", p.type,
              [soft |-> Stored(p.type, Numerals[p.soft]), max |-> Stored(p.type, Numerals[p.max])])

LEMMA TheTables ==
    /\ Tables = {"dx_limit", "init", "nx_broadcast", "vx_cpuset", "mount", "nx_addr",
                 "vx_bcaps", "vx_ccaps", "vx_flags", "vx_limit", "vx_sched", "vx_uname"}
    /\ \A t \in {"dx_limit", "init", "nx_broadcast", "vx_cpuset"} : Keys[t] = {"xid"}
    /\ Keys["mount"] = Paths /\ Keys["nx_addr"] = Addrs
    /\ \A t \in {"vx_bcaps", "vx_ccaps", "vx_flags"} : Keys[t] = Flags
    /\ Keys["vx_limit"] = LimitTypes /\ Keys["vx_sched"] = -1 .. NumCpus - 1
    /\ Keys["vx_uname"] = Unames
  BY DEF Tables, Keys, Single

LEMMA GetsKeep ==
    ASSUME NEW c, NEW q
    PROVE  /\ m_vxdb_dx_limit_get(c, q).next = c
           /\ m_vxdb_init_get(c, q).next = c
           /\ m_vxdb_mount_get(c, q).next = c
           /\ m_vxdb_nx_addr_get(c, q).next = c
           /\ m_vxdb_nx_broadcast_get(c, q).next = c
           /\ m_vxdb_vx_bcaps_get(c, q).next = c
           /\ m_vxdb_vx_ccaps_get(c, q).next = c
           /\ m_vxdb_vx_flags_get(c, q).next = c
           /\ m_vxdb_vx_limit_get(c, q).next = c
           /\ m_vxdb_vx_sched_get(c, q).next = c
           /\ m_vxdb_vx_cpuset_get(c, q).next = c
           /\ m_vxdb_vx_uname_get(c, q).next = c
  <1>1. m_vxdb_dx_limit_get(c, q).next = c
    BY DEF m_vxdb_dx_limit_get, Checked, Answered, Refused
  <1>2. m_vxdb_init_get(c, q).next = c
    BY DEF m_vxdb_init_get, Checked, Answered, Refused
  <1>3. m_vxdb_mount_get(c, q).next = c
    BY DEF m_vxdb_mount_get, Checked, Answered, Refused
  <1>4. m_vxdb_nx_addr_get(c, q).next = c
    BY DEF m_vxdb_nx_addr_get, Checked, Answered, Refused
  <1>5. m_vxdb_nx_broadcast_get(c, q).next = c
    BY DEF m_vxdb_nx_broadcast_get, Checked, Answered, Refused
  <1>6. m_vxdb_vx_bcaps_get(c, q).next = c
    BY DEF m_vxdb_vx_bcaps_get, Checked, Answered, Refused
  <1>7. m_vxdb_vx_ccaps_get(c, q).next = c
    BY DEF m_vxdb_vx_ccaps_get, Checked, Answered, Refused
  <1>8. m_vxdb_vx_flags_get(c, q).next = c
    BY DEF m_vxdb_vx_flags_get, Checked, Answered, Refused
  <1>9. m_vxdb_vx_limit_get(c, q).next = c
    BY DEF m_vxdb_vx_limit_get, Checked, Answered, Refused
  <1>10. m_vxdb_vx_sched_get(c, q).next = c
    BY DEF m_vxdb_vx_sched_get, Checked, Answered, Refused
  <1>11. m_vxdb_vx_cpuset_get(c, q).next = c
    BY DEF m_vxdb_vx_cpuset_get, Checked, Answered, Refused
  <1>12. m_vxdb_vx_uname_get(c, q).next = c
    BY DEF m_vxdb_vx_uname_get, Checked, Answered, Refused
  <1> QED
    BY <1>1, <1>2, <1>3, <1>4, <1>5, <1>6, <1>7, <1>8, <1>9, <1>10, <1>11, <1>12

LEMMA RemovesDelete ==
    ASSUME NEW c, NEW q, NEW result, result.fault = "none",
           \/ result = m_vxdb_dx_limit_remove(c, q)
           \/ result = m_vxdb_mount_remove(c, q)
           \/ result = m_vxdb_nx_addr_remove(c, q)
           \/ result = m_vxdb_nx_broadcast_remove(c, q)
           \/ result = m_vxdb_vx_bcaps_remove(c, q)
           \/ result = m_vxdb_vx_ccaps_remove(c, q)
           \/ result = m_vxdb_vx_flags_remove(c, q)
           \/ result = m_vxdb_vx_limit_remove(c, q)
           \/ result = m_vxdb_vx_sched_remove(c, q)
           \/ result = m_vxdb_vx_cpuset_remove(c, q)
           \/ result = m_vxdb_vx_uname_remove(c, q)
    PROVE  Removed(c, result.next)
  <1>1. CASE result = m_vxdb_dx_limit_remove(c, q)
    BY <1>1, TheTables DEF m_vxdb_dx_limit_remove, Checked, Changed, Refused, Removed
  <1>2. CASE result = m_vxdb_mount_remove(c, q)
    BY <1>2, TheTables DEF m_vxdb_mount_remove, Checked, Changed, Refused, Removed
  <1>3. CASE result = m_vxdb_nx_addr_remove(c, q)
    BY <1>3, TheTables DEF m_vxdb_nx_addr_remove, Checked, Changed, Refused, Removed
  <1>4. CASE result = m_vxdb_nx_broadcast_remove(c, q)
    BY <1>4, TheTables DEF m_vxdb_nx_broadcast_remove, Checked, Changed, Refused, Removed
  <1>5. CASE result = m_vxdb_vx_bcaps_remove(c, q)
    BY <1>5, TheTables DEF m_vxdb_vx_bcaps_remove, Checked, Changed, Refused, Removed
  <1>6. CASE result = m_vxdb_vx_ccaps_remove(c, q)
    BY <1>6, TheTables DEF m_vxdb_vx_ccaps_remove, Checked, Changed, Refused, Removed
  <1>7. CASE result = m_vxdb_vx_flags_remove(c, q)
    BY <1>7, TheTables DEF m_vxdb_vx_flags_remove, Checked, Changed, Refused, Removed
  <1>8. CASE result = m_vxdb_vx_limit_remove(c, q)
    BY <1>8, TheTables DEF m_vxdb_vx_limit_remove, Checked, Changed, Refused, Removed
  <1>9. CASE result = m_vxdb_vx_sched_remove(c, q)
    BY <1>9, TheTables DEF m_vxdb_vx_sched_remove, Checked, Changed, Refused, Removed
  <1>10. CASE result = m_vxdb_vx_cpuset_remove(c, q)
    BY <1>10, TheTables DEF m_vxdb_vx_cpuset_remove, Checked, Changed, Refused, Removed
  <1>11. CASE result = m_vxdb_vx_uname_remove(c, q)
    BY <1>11, TheTables DEF m_vxdb_vx_uname_remove, Checked, Changed, Refused, Removed
  <1> QED
    BY <1>1, <1>2, <1>3, <1>4, <1>5, <1>6, <1>7, <1>8, <1>9, <1>10, <1>11

LEMMA SetsInsert ==
    ASSUME NEW c, NEW q, NEW result, result.fault = "none",
           \/ result = m_vxdb_dx_limit_set(c, q)
           \/ result = m_vxdb_init_set(c, q)
           \/ result = m_vxdb_mount_set(c, q)
           \/ result = m_vxdb_nx_addr_set(c, q)
           \/ result = m_vxdb_nx_broadcast_set(c, q)
           \/ result = m_vxdb_vx_bcaps_add(c, q)
           \/ result = m_vxdb_vx_ccaps_add(c, q)
           \/ result = m_vxdb_vx_flags_add(c, q)
           \/ result = m_vxdb_vx_sched_set(c, q)
           \/ result = m_vxdb_vx_cpuset_set(c, q)
           \/ result = m_vxdb_vx_uname_set(c, q)
    PROVE  Written(c, result.next)
  <1>1. CASE result = m_vxdb_dx_limit_set(c, q)
    BY <1>1, TheTables DEF m_vxdb_dx_limit_set, Checked, Changed, Refused, Written
  <1>2. CASE result = m_vxdb_init_set(c, q)
    BY <1>2, TheTables DEF m_vxdb_init_set, Checked, Changed, Refused, Written
  <1>3. CASE result = m_vxdb_mount_set(c, q)
    BY <1>3, TheTables DEF m_vxdb_mount_set, Checked, Changed, Refused, Written, validate_path
  <1>4. CASE result = m_vxdb_nx_addr_set(c, q)
    BY <1>4, TheTables DEF m_vxdb_nx_addr_set, Checked, Changed, Refused, Written, validate_addr
  <1>5. CASE result = m_vxdb_nx_broadcast_set(c, q)
    BY <1>5, TheTables DEF m_vxdb_nx_broadcast_set, Checked, Changed, Refused, Written, validate_addr
  <1>6. CASE result = m_vxdb_vx_bcaps_add(c, q)
    BY <1>6, TheTables DEF m_vxdb_vx_bcaps_add, Checked, Changed, Refused, Written, validate_bcap
  <1>7. CASE result = m_vxdb_vx_ccaps_add(c, q)
    BY <1>7, TheTables DEF m_vxdb_vx_ccaps_add, Checked, Changed, Refused, Written, validate_ccap
  <1>8. CASE result = m_vxdb_vx_flags_add(c, q)
    BY <1>8, TheTables DEF m_vxdb_vx_flags_add, Checked, Changed, Refused, Written, validate_cflag
  <1>9. CASE result = m_vxdb_vx_sched_set(c, q)
    BY <1>9, TheTables DEF m_vxdb_vx_sched_set, Checked, Changed, Refused, Written, validate_cpuid
  <1>10. CASE result = m_vxdb_vx_cpuset_set(c, q)
    BY <1>10, TheTables DEF m_vxdb_vx_cpuset_set, Checked, Changed, Refused, Written
  <1>11. CASE result = m_vxdb_vx_uname_set(c, q)
    BY <1>11, TheTables DEF m_vxdb_vx_uname_set, Checked, Changed, Refused, Written, validate_uname
  <1> QED
    BY <1>1, <1>2, <1>3, <1>4, <1>5, <1>6, <1>7, <1>8, <1>9, <1>10, <1>11

LEMMA LimitSetInserts ==
    ASSUME NEW c, NEW q, m_vxdb_vx_limit_set(c, q).fault = "none"
    PROVE  LimitSet(c, m_vxdb_vx_limit_set(c, q).next, q)
  BY DEF m_vxdb_vx_limit_set, Checked, Changed, Refused, LimitSet, Stored, validate_rlimit

LEMMA MethodEffect ==
    ASSUME NEW c, NEW q, NEW m, IsConf(m), ConfMethod(m, c, q).fault = "none"
    PROVE  LET d == ConfMethod(m, c, q).next IN
           IF m = "vxdb.vx.limit.set" THEN LimitSet(c, d, q)
           ELSE d = c \/ Removed(c, d) \/ Written(c, d)
  <1> DEFINE result == ConfMethod(m, c, q)
  <1>1. CASE m \in
              {"vxdb.dx.limit.get", "vxdb.init.get", "vxdb.mount.get",
               "vxdb.nx.addr.get", "vxdb.nx.broadcast.get", "vxdb.vx.bcaps.get",
               "vxdb.vx.ccaps.get", "vxdb.vx.flags.get", "vxdb.vx.limit.get",
               "vxdb.vx.sched.get", "vxdb.vx.cpuset.get", "vxdb.vx.uname.get"}
    <2>1. result.next = c
      BY <1>1, GetsKeep DEF ConfMethod
    <2> QED
      BY <1>1, <2>1
  <1>2. CASE m \in
              {"vxdb.dx.limit.remove", "vxdb.mount.remove", "vxdb.nx.addr.remove",
               "vxdb.nx.broadcast.remove", "vxdb.vx.bcaps.remove",
               "vxdb.vx.ccaps.remove", "vxdb.vx.flags.remove", "vxdb.vx.limit.remove",
               "vxdb.vx.sched.remove", "vxdb.vx.cpuset.remove", "vxdb.vx.uname.remove"}
    <2>1. \/ result = m_vxdb_dx_limit_remove(c, q)
          \/ result = m_vxdb_mount_remove(c, q)
          \/ result = m_vxdb_nx_addr_remove(c, q)
          \/ result = m_vxdb_nx_broadcast_remove(c, q)
          \/ result = m_vxdb_vx_bcaps_remove(c, q)
          \/ result = m_vxdb_vx_ccaps_remove(c, q)
          \/ result = m_vxdb_vx_flags_remove(c, q)
          \/ result = m_vxdb_vx_limit_remove(c, q)
          \/ result = m_vxdb_vx_sched_remove(c, q)
          \/ result = m_vxdb_vx_cpuset_remove(c, q)
          \/ result = m_vxdb_vx_uname_remove(c, q)
      BY <1>2 DEF ConfMethod
    <2> HIDE DEF result
    <2>2. Removed(c, result.next)
      BY <2>1, RemovesDelete DEF result
    <2> QED
      BY <1>2, <2>2 DEF result
  <1>3. CASE m \in
              {"vxdb.dx.limit.set", "vxdb.init.set", "vxdb.mount.set",
               "vxdb.nx.addr.set", "vxdb.nx.broadcast.set", "vxdb.vx.bcaps.add",
               "vxdb.vx.ccaps.add", "vxdb.vx.flags.add", "vxdb.vx.sched.set",
               "vxdb.vx.cpuset.set", "vxdb.vx.uname.set"}
    <2>1. \/ result = m_vxdb_dx_limit_set(c, q)
          \/ result = m_vxdb_init_set(c, q)
          \/ result = m_vxdb_mount_set(c, q)
          \/ result = m_vxdb_nx_addr_set(c, q)
          \/ result = m_vxdb_nx_broadcast_set(c, q)
          \/ result = m_vxdb_vx_bcaps_add(c, q)
          \/ result = m_vxdb_vx_ccaps_add(c, q)
          \/ result = m_vxdb_vx_flags_add(c, q)
          \/ result = m_vxdb_vx_sched_set(c, q)
          \/ result = m_vxdb_vx_cpuset_set(c, q)
          \/ result = m_vxdb_vx_uname_set(c, q)
      BY <1>3 DEF ConfMethod
    <2> HIDE DEF result
    <2>2. Written(c, result.next)
      BY <2>1, SetsInsert DEF result
    <2> QED
      BY <1>3, <2>2 DEF result
  <1>4. CASE m = "vxdb.vx.limit.set"
    <2>1. result = m_vxdb_vx_limit_set(c, q)
      BY <1>4 DEF ConfMethod
    <2> QED
      BY <1>4, <2>1, LimitSetInserts
  <1> QED
    BY <1>1, <1>2, <1>3, <1>4 DEF IsConf, ConfMethods

-----------------------------------------------------------------------------
(* The configuration: rows have keys that their tables allow, and a limit  *)
(* is stored as it was last asked for.                                     *)
RowsOK(c) ==
    /\ c = [t \in Tables |-> c[t]]
    /\ \A t \in Tables : DOMAIN c[t] \subseteq Keys[t]
    /\ IsFiniteSet(DOMAIN c["mount"])

LEMMA RowsKept ==
    ASSUME NEW c, NEW d, RowsOK(c), NEW t \in Tables, NEW rows,
           d = [c EXCEPT ![t] = rows], DOMAIN rows \subseteq Keys[t],
           t = "mount" => IsFiniteSet(DOMAIN rows)
    PROVE  RowsOK(d)
  <1>1. d = [x \in Tables |-> IF x = t THEN rows ELSE c[x]]
    BY DEF RowsOK
  <1>2. "mount" \in Tables
    BY TheTables
  <1> QED
    BY <1>1, <1>2 DEF RowsOK

LEMMA RowsAfter ==
    ASSUME NEW c, NEW d, NEW q, RowsOK(c),
           d = c \/ Removed(c, d) \/ Written(c, d) \/ LimitSet(c, d, q)
    PROVE  RowsOK(d)
  <1>1. CASE d = c
    BY <1>1
  <1>2. CASE Removed(c, d)
    <2>0. PICK t \in Tables : \E K : d = Delete(c, t, K)
      BY <1>2 DEF Removed
    <2>1. PICK K : d = Delete(c, t, K)
      BY <2>0
    <2> DEFINE rows == Without(c[t], K)
    <2>2. d = [c EXCEPT ![t] = rows]
      BY <2>1 DEF Delete, RowsOK
    <2>3. DOMAIN rows = DOMAIN c[t] \ K
      BY DEF Without
    <2> HIDE DEF rows
    <2>4. DOMAIN rows \subseteq Keys[t]
      BY <2>3 DEF RowsOK
    <2>5. t = "mount" => IsFiniteSet(DOMAIN rows)
      BY <2>3, FS_Subset DEF RowsOK
    <2> QED
      BY <2>2, <2>4, <2>5, RowsKept
  <1>3. ASSUME NEW t \in Tables, NEW k \in Keys[t], NEW row, d = InsertOrReplace(c, t, k, row)
        PROVE  RowsOK(d)
    <2> DEFINE rows == With(c[t], k, row)
    <2>2. d = [c EXCEPT ![t] = rows]
      BY <1>3 DEF InsertOrReplace, RowsOK
    <2>3. DOMAIN rows = DOMAIN c[t] \cup {k}
      BY DEF With
    <2> HIDE DEF rows
    <2>4. DOMAIN rows \subseteq Keys[t]
      BY <2>3 DEF RowsOK
    <2>5. t = "mount" => IsFiniteSet(DOMAIN rows)
      BY <2>3, FS_AddElement DEF RowsOK
    <2> QED
      BY <2>2, <2>4, <2>5, RowsKept
  <1>4. CASE Written(c, d)
    BY <1>3, <1>4 DEF Written
  <1>5. CASE LimitSet(c, d, q)
    <2>1. "vx_limit" \in Tables /\ Fields(q).type \in Keys["vx_limit"]
      BY <1>5, TheTables DEF LimitSet
    <2> QED
      BY <1>3, <1>5, <2>1 DEF LimitSet
  <1> QED
    BY <1>1, <1>2, <1>4, <1>5

Words == 0 .. WORD - 1

LimitsOK ==
    /\ DOMAIN asked = DOMAIN conf["vx_limit"]
    /\ \A type \in DOMAIN asked :
          /\ asked[type] \in [soft : Words, max : Words]
          /\ conf["vx_limit"][type] = [soft |-> Stored(type, asked[type].soft),
                                       max  |-> Stored(type, asked[type].max)]

ConfInv ==
    /\ RowsOK(conf) /\ LimitsOK
    /\ locked \in BOOLEAN /\ touched \subseteq Tables /\ changes \in 0 .. MaxChanges

LEMMA NumeralOf ==
    ASSUME NEW s, str_isdigit(s)
    PROVE  Numerals[s] \in Nat /\ s \in DOMAIN Numerals
  BY NumeralAssumption DEF str_isdigit

(* The numbers of a request that is not refused are words. *)
LEMMA AskedWords ==
    ASSUME NEW r \in Requests, NEW c, NEW d, LimitSet(c, d, r.params)
    PROVE  LET p == Fields(r.params) IN Numerals[p.soft] \in Words /\ Numerals[p.max] \in Words
  <1> DEFINE q == r.params
             p == Fields(q)
  <1>1. /\ {"soft", "max"} \subseteq DOMAIN q
        /\ q["soft"][1] = "s" /\ q["max"][1] = "s"
        /\ str_isdigit(p.soft) /\ str_isdigit(p.max)
    BY DEF LimitSet, Decomposes
  <1>2. p.soft = q["soft"][2] /\ p.max = q["max"][2]
    BY <1>1 DEF Fields
  <1>3. sscanf(q["soft"][2], 0) < WORD /\ sscanf(q["max"][2], 0) < WORD
    BY <1>1, RequestsAssumption
  <1> HIDE DEF p, q
  <1>4. /\ Numerals[p.soft] \in Int /\ Numerals[p.soft] >= 0 /\ Numerals[p.soft] < WORD
        /\ Numerals[p.max] \in Int /\ Numerals[p.max] >= 0 /\ Numerals[p.max] < WORD
    BY <1>1, <1>2, <1>3, NumeralOf DEF sscanf
  <1>5. WORD \in Nat
    BY SizesAssumption
  <1>6. ASSUME NEW n \in Int, n >= 0, n < WORD PROVE n \in Words
    BY <1>5, <1>6 DEF Words
  <1> QED
    BY <1>4, <1>6 DEF p, q

LEMMA LimitsStep ==
    ASSUME ConfInv, NEW r \in Requests,
           ConfMethod(r.method, conf, r.params).fault = "none",
           conf' = ConfMethod(r.method, conf, r.params).next,
           asked' = Asked(r, DOMAIN conf'.vx_limit)
    PROVE  RowsOK(conf') /\ LimitsOK'
  <1> DEFINE p == Fields(r.params)
             old == conf["vx_limit"]
             new == conf'["vx_limit"]
  <1>0. IsConf(r.method)
    BY RequestsAssumption
  <1>1. IF r.method = "vxdb.vx.limit.set" THEN LimitSet(conf, conf', r.params)
        ELSE conf' = conf \/ Removed(conf, conf') \/ Written(conf, conf')
    BY <1>0, MethodEffect
  <1>2. RowsOK(conf')
    BY <1>1, RowsAfter DEF ConfInv
  <1>3. /\ DOMAIN asked' = DOMAIN new
        /\ \A type \in DOMAIN new :
              asked'[type] = IF r.method = "vxdb.vx.limit.set" /\ p.type = type
                             THEN [soft |-> Numerals[p.soft], max |-> Numerals[p.max]]
                             ELSE asked[type]
    BY DEF Asked
  <1>4. "vx_limit" \in Tables /\ conf = [t \in Tables |-> conf[t]]
    BY TheTables DEF ConfInv, RowsOK
  <1>5. CASE r.method = "vxdb.vx.limit.set"
    <2> DEFINE row == [soft |-> Stored(p.type, Numerals[p.soft]),
                       max  |-> Stored(p.type, Numerals[p.max])]
    <2>1. conf' = InsertOrReplace(conf, "vx_limit", p.type, row)
      BY <1>1, <1>5 DEF LimitSet
    <2>2. Numerals[p.soft] \in Words /\ Numerals[p.max] \in Words
      BY <1>1, <1>5, AskedWords
    <2>3. new = With(old, p.type, row)
      <3> HIDE DEF p, row
      <3> QED
        BY <1>4, <2>1 DEF InsertOrReplace
    <2>4. DOMAIN new = DOMAIN old \cup {p.type}
          /\ \A type \in DOMAIN new : new[type] = IF type = p.type THEN row ELSE old[type]
      BY <2>3 DEF With
    <2> HIDE DEF p, new, old
    <2>5. ASSUME NEW type \in DOMAIN new
          PROVE  /\ asked'[type] \in [soft : Words, max : Words]
                 /\ new[type] = [soft |-> Stored(type, asked'[type].soft),
                                 max  |-> Stored(type, asked'[type].max)]
      <3>1. CASE type = p.type
        BY <1>3, <1>5, <2>2, <2>4, <3>1
      <3>2. CASE type # p.type
        <4>1. asked'[type] = asked[type] /\ new[type] = old[type] /\ type \in DOMAIN old
          BY <1>3, <2>4, <3>2
        <4> QED
          BY <4>1 DEF ConfInv, LimitsOK, old
      <3> QED
        BY <3>1, <3>2
    <2> QED
      BY <1>2, <1>3, <2>5 DEF LimitsOK, new
  <1>6. CASE r.method # "vxdb.vx.limit.set"
    <2>1. DOMAIN new \subseteq DOMAIN old /\ \A type \in DOMAIN new : new[type] = old[type]
      <3>1. CASE conf' = conf
        BY <3>1
      <3>2. CASE Removed(conf, conf')
        <4>0. PICK t \in Tables : \E K : conf' = Delete(conf, t, K)
          BY <3>2 DEF Removed
        <4>1. PICK K : conf' = Delete(conf, t, K)
          BY <4>0
        <4>2. CASE t = "vx_limit"
          <5>1. new = Without(old, K)
            BY <1>4, <4>1, <4>2 DEF Delete
          <5> QED
            BY <5>1 DEF Without
        <4>3. CASE t # "vx_limit"
          BY <1>4, <4>1, <4>3 DEF Delete
        <4> QED
          BY <4>2, <4>3
      <3>3. CASE Written(conf, conf')
        <4>1. PICK t \in Tables \ {"vx_limit"} :
                 \E k, row : conf' = InsertOrReplace(conf, t, k, row)
          BY <3>3 DEF Written
        <4> QED
          BY <1>4, <4>1 DEF InsertOrReplace
      <3> QED
        BY <1>1, <1>6, <3>1, <3>2, <3>3
    <2> HIDE DEF new, old
    <2>2. \A type \in DOMAIN new : asked'[type] = asked[type]
      BY <1>3, <1>6
    <2> QED
      BY <1>2, <1>3, <2>1, <2>2 DEF ConfInv, LimitsOK, new, old
  <1> QED
    BY <1>5, <1>6

LEMMA ConfStep ==
    ASSUME ConfInv, Configure
    PROVE  /\ ConfInv' /\ ~locked /\ UNCHANGED locked /\ touched \subseteq touched'
           /\ \A t \in Tables : t \notin touched' => conf'[t] = conf[t]
  <1>1. PICK r \in Requests :
           LET result == ConfMethod(r.method, conf, r.params) IN
           /\ LockIsFree
           /\ changes < MaxChanges
           /\ result.fault = "none"
           /\ conf' = result.next
           /\ asked' = Asked(r, DOMAIN conf'.vx_limit)
           /\ touched' = touched \cup {t \in Tables : conf'[t] # conf[t]}
           /\ changes' = changes + 1
           /\ UNCHANGED locked
    BY DEF Configure
  <1>2. RowsOK(conf') /\ LimitsOK'
    BY <1>1, LimitsStep
  <1>3. ~locked /\ UNCHANGED locked /\ touched \subseteq touched' /\ touched' \subseteq Tables
    BY <1>1 DEF LockIsFree, ConfInv
  <1>4. changes' \in 0 .. MaxChanges
    BY <1>1, MaxChangesAssumption DEF ConfInv
  <1>5. locked' \in BOOLEAN
    BY <1>3 DEF ConfInv
  <1>6. \A t \in Tables : t \notin touched' => conf'[t] = conf[t]
    BY <1>1
  <1> QED
    BY <1>2, <1>3, <1>4, <1>5, <1>6 DEF ConfInv

LEMMA ConfStart == ConfInit => ConfInv
  <1> SUFFICES ASSUME ConfInit PROVE ConfInv
    OBVIOUS
  <1>1. \A t \in Tables : conf[t] = Empty
    BY DEF ConfInit, NoRows
  <1>2. DOMAIN Empty = {}
    BY DEF Empty
  <1>3. RowsOK(conf)
    <2>1. conf = [t \in Tables |-> conf[t]]
      BY DEF ConfInit, NoRows
    <2>2. IsFiniteSet(DOMAIN conf["mount"])
      BY <1>1, <1>2, TheTables, FS_EmptySet
    <2> QED
      BY <1>1, <1>2, <2>1, <2>2 DEF RowsOK
  <1>4. LimitsOK
    BY <1>1, <1>2, TheTables DEF ConfInit, LimitsOK
  <1>5. locked \in BOOLEAN
    BY Zenon DEF ConfInit
  <1>6. touched \subseteq Tables /\ changes \in 0 .. MaxChanges
    BY MaxChangesAssumption DEF ConfInit
  <1> QED
    BY <1>3, <1>4, <1>5, <1>6 DEF ConfInv

LEMMA ConfUnchanged ==
    ASSUME ConfInv, UNCHANGED <<conf, asked>>,
           locked' \in BOOLEAN, touched' \subseteq Tables, changes' = changes
    PROVE  ConfInv'
  BY DEF ConfInv, LimitsOK

LEMMA StoredWord ==
    ASSUME NEW type, NEW n \in Words
    PROVE  Stored(type, n) \in Words
  BY Paged, SizesAssumption DEF Stored, Words

LEMMA LimitOf ==
    ASSUME ConfInv, NEW type \in DOMAIN asked
    PROVE  /\ asked[type].soft \in Words /\ asked[type].max \in Words
           /\ conf["vx_limit"][type] = [soft |-> Stored(type, asked[type].soft),
                                        max  |-> Stored(type, asked[type].max)]
  <1>1. LimitsOK
    BY DEF ConfInv
  <1>2. /\ asked[type] \in [soft : Words, max : Words]
        /\ conf["vx_limit"][type] = [soft |-> Stored(type, asked[type].soft),
                                     max  |-> Stored(type, asked[type].max)]
    BY <1>1 DEF LimitsOK
  <1> QED
    BY <1>2

LEMMA ConfTypes == ConfInv => ConfTypeOK
  <1> SUFFICES ASSUME ConfInv PROVE ConfTypeOK
    OBVIOUS
  <1>1. ASSUME NEW type \in DOMAIN conf["vx_limit"]
        PROVE  conf["vx_limit"][type] \in [soft : Words, max : Words]
    <2>1. type \in DOMAIN asked
      BY DEF ConfInv, LimitsOK
    <2>2. /\ Stored(type, asked[type].soft) \in Words /\ Stored(type, asked[type].max) \in Words
          /\ conf["vx_limit"][type] = [soft |-> Stored(type, asked[type].soft),
                                       max  |-> Stored(type, asked[type].max)]
      BY <2>1, LimitOf, StoredWord
    <2> QED
      BY <2>2
  <1>2. DOMAIN conf = Tables
    BY DEF ConfInv, RowsOK
  <1> QED
    BY <1>1, <1>2 DEF ConfInv, RowsOK, LimitsOK, ConfTypeOK, Words

(* What vxdb.vx.limit.get gives back of a number that was stored. *)
LEMMA ReadBack ==
    ASSUME NEW type, NEW w \in Words
    PROVE  LET g == IF type \in LIMTYPE THEN pagestobytes(Stored(type, w)) ELSE Stored(type, w)
           IN g <= w /\ (w * KB < WORD => (w - g) * KB < PAGE)
  <1>1. w \in Nat /\ KB \in Nat \ {0} /\ PAGE \in Nat \ {0}
    BY SizesAssumption DEF Words
  <1>2. CASE type \in LIMTYPE
    BY <1>1, <1>2, Paged DEF Stored
  <1>3. CASE type \notin LIMTYPE
    BY <1>1, <1>3 DEF Stored
  <1> QED
    BY <1>2, <1>3

LEMMA LimitsRead == ConfInv => LimitReadBack
  <1> SUFFICES ASSUME ConfInv, NEW type \in DOMAIN asked
               PROVE  LET got == ShownLimit(conf, type)
                          want == asked[type]
                          Near(g, w) == g <= w /\ (w * KB < WORD => (w - g) * KB < PAGE)
                      IN Near(got.soft, want.soft) /\ Near(got.max, want.max)
    BY DEF LimitReadBack
  <1>1. /\ asked[type].soft \in Words /\ asked[type].max \in Words
        /\ conf["vx_limit"][type].soft = Stored(type, asked[type].soft)
        /\ conf["vx_limit"][type].max = Stored(type, asked[type].max)
    <2>1. /\ asked[type].soft \in Words /\ asked[type].max \in Words
          /\ conf["vx_limit"][type] = [soft |-> Stored(type, asked[type].soft),
                                       max  |-> Stored(type, asked[type].max)]
      BY LimitOf, Zenon
    <2> QED
      BY <2>1
  <1> DEFINE Shown(w) == IF type \in LIMTYPE THEN pagestobytes(Stored(type, w)) ELSE Stored(type, w)
             a == asked[type].soft
             b == asked[type].max
  <1>2. ShownLimit(conf, type).soft = Shown(a) /\ ShownLimit(conf, type).max = Shown(b)
    BY <1>1 DEF ShownLimit
  <1>3. \A w \in Words : Shown(w) <= w /\ (w * KB < WORD => (w - Shown(w)) * KB < PAGE)
    BY ReadBack
  <1> HIDE DEF Shown
  <1>4. /\ Shown(a) <= a /\ (a * KB < WORD => (a - Shown(a)) * KB < PAGE)
        /\ Shown(b) <= b /\ (b * KB < WORD => (b - Shown(b)) * KB < PAGE)
    BY <1>1, <1>3
  <1> QED
    BY <1>2, <1>4

-----------------------------------------------------------------------------
(* The order of a start: the place of every step, and the step that        *)
(* applies each table.                                                     *)
Place ==
    [network_interfaces |-> 1, network_broadcast |-> 2, init |-> 3, bcaps |-> 4, ccaps |-> 5,
     flags |-> 6, context_disk_limits |-> 7, context_resource_limits |-> 8,
     context_cpuset |-> 9, context_scheduler |-> 10, namespace_setup |-> 11,
     context_uname |-> 12, mount_root |-> 13, namespace_mount |-> 14, exec |-> 15,
     up |-> 16, stopped |-> 0, failed |-> 0]

Places == Starting \cup {"stopped", "up", "failed"}

LEMMA TheSteps ==
    /\ DOMAIN Steps = 1 .. 15 /\ \A i \in 1 .. 15 : Place[Steps[i]] = i
    /\ Starting = {"network_interfaces", "network_broadcast", "init", "bcaps", "ccaps", "flags",
                   "context_disk_limits", "context_resource_limits", "context_cpuset",
                   "context_scheduler", "namespace_setup", "context_uname", "mount_root",
                   "namespace_mount", "exec"}
    /\ Head(Steps) = "network_interfaces"
  <1>1. DOMAIN Steps = 1 .. 15
    BY DEF Steps
  <1>2. /\ Steps[1] = "network_interfaces" /\ Steps[2] = "network_broadcast"
        /\ Steps[3] = "init" /\ Steps[4] = "bcaps" /\ Steps[5] = "ccaps" /\ Steps[6] = "flags"
        /\ Steps[7] = "context_disk_limits" /\ Steps[8] = "context_resource_limits"
        /\ Steps[9] = "context_cpuset" /\ Steps[10] = "context_scheduler"
        /\ Steps[11] = "namespace_setup" /\ Steps[12] = "context_uname"
        /\ Steps[13] = "mount_root" /\ Steps[14] = "namespace_mount" /\ Steps[15] = "exec"
    BY DEF Steps
  <1>3. 1 .. 15 = {1, 2, 3, 4, 5, 6, 7, 8, 9, 10, 11, 12, 13, 14, 15}
    OBVIOUS
  <1>4. Starting = {Steps[i] : i \in {1, 2, 3, 4, 5, 6, 7, 8, 9, 10, 11, 12, 13, 14, 15}}
    BY <1>1, <1>3 DEF Starting, ToSet
  <1>5. \A i \in {1, 2, 3, 4, 5, 6, 7, 8, 9, 10, 11, 12, 13, 14, 15} : Place[Steps[i]] = i
    BY <1>2 DEF Place
  <1>6. Head(Steps) = "network_interfaces"
    BY DEF Steps
  <1>7. Starting = {"network_interfaces", "network_broadcast", "init", "bcaps", "ccaps", "flags",
                   "context_disk_limits", "context_resource_limits", "context_cpuset",
                   "context_scheduler", "namespace_setup", "context_uname", "mount_root",
                   "namespace_mount", "exec"}
    BY <1>2, <1>4
  <1> QED
    BY <1>1, <1>3, <1>5, <1>6, <1>7

LEMMA AfterStep ==
    ASSUME NEW step \in Starting, step # "exec"
    PROVE  After(step) \in Starting /\ Place[After(step)] = Place[step] + 1
  <1>1. PICK n \in 1 .. 15 : step = Steps[n] /\ Place[step] = n
    BY TheSteps DEF Starting, ToSet
  <1>2. n # 15
    BY <1>1, TheSteps DEF Place
  <1> DEFINE c == CHOOSE i \in DOMAIN Steps : Steps[i] = step
  <1>3. c \in DOMAIN Steps /\ Steps[c] = step
    BY <1>1, TheSteps
  <1>4. After(step) = Steps[c + 1]
    BY DEF After
  <1> HIDE DEF c
  <1>5. c = n
    BY <1>1, <1>3, TheSteps
  <1>6. n + 1 \in 1 .. 15
    BY <1>2
  <1> QED
    BY <1>1, <1>4, <1>5, <1>6, TheSteps DEF Starting, ToSet

-----------------------------------------------------------------------------
(* The entries of table mount, in any order, behind the root entry or      *)
(* nothing: every entry is mounted, and only the root twice.               *)
LEMMA AllMounted ==
    ASSUME NEW E, IsFiniteSet(E), NEW s \in SetToSeqs(E)
    PROVE  /\ s \in Seq(E) /\ ToSet(s) = E
           /\ \A i, j \in 1 .. Len(s) : s[i] = s[j] => i = j
  <1> DEFINE n == Cardinality(E)
  <1>1. n \in Nat
    BY FS_CardinalityType
  <1>2. s \in [1 .. n -> E] /\ \A i, j \in 1 .. n : i # j => s[i] # s[j]
    BY DEF SetToSeqs
  <1>3. IsFiniteSet(1 .. n) /\ Cardinality(1 .. n) = n
    BY <1>1, FS_Interval
  <1> HIDE DEF n
  <1>4. s \in Injection(1 .. n, E)
    BY <1>2 DEF Injection, IsInjective
  <1>5. s \in Surjection(1 .. n, E)
    BY <1>3, <1>4, FS_Injection DEF n
  <1>6. \A x \in E : \E i \in 1 .. n : s[i] = x
    BY <1>5 DEF Surjection
  <1>7. s \in Seq(E) /\ Len(s) = n /\ DOMAIN s = 1 .. n
    BY <1>1, <1>2
  <1>8. ToSet(s) = E
    BY <1>2, <1>6, <1>7 DEF ToSet
  <1> QED
    BY <1>2, <1>7, <1>8

LEMMA RootFirst ==
    ASSUME NEW E, IsFiniteSet(E), NEW s \in SetToSeqs(E),
           NEW m, m = <<>> \/ (m = <<"/">> /\ "/" \in E)
    PROVE  /\ m \o s \in Seq(E) /\ ToSet(m \o s) = E
           /\ \A i, j \in DOMAIN (m \o s) :
                 (m \o s)[i] = (m \o s)[j] => i = j \/ (m \o s)[i] = "/"
  <1>1. /\ s \in Seq(E) /\ ToSet(s) = E
        /\ \A i, j \in 1 .. Len(s) : s[i] = s[j] => i = j
    BY AllMounted
  <1> DEFINE z == m \o s
             n == Len(s)
  <1>2. n \in Nat /\ DOMAIN s = 1 .. n /\ \A i \in 1 .. n : s[i] \in E
    BY <1>1
  <1>3. \A x \in E : \E i \in 1 .. n : s[i] = x
    BY <1>1, <1>2 DEF ToSet
  <1>4. CASE m = <<>>
    <2>1. z = s
      BY <1>1, <1>4, ConcatEmptySeq
    <2> QED
      BY <1>1, <1>2, <2>1
  <1>5. CASE m = <<"/">> /\ "/" \in E
    <2>1. m \in Seq(E) /\ Len(m) = 1 /\ m[1] = "/"
      BY <1>5
    <2>2. /\ z \in Seq(E) /\ Len(z) = 1 + n
          /\ \A i \in 1 .. 1 + n : z[i] = IF i <= 1 THEN m[i] ELSE s[i - 1]
      <3>1. /\ m \o s \in Seq(E) /\ Len(m \o s) = Len(m) + Len(s)
            /\ \A i \in 1 .. Len(m) + Len(s) :
                  (m \o s)[i] = IF i <= Len(m) THEN m[i] ELSE s[i - Len(m)]
        <4>1. m \in Seq(E) /\ s \in Seq(E)
          BY <1>1, <2>1
        <4> QED
          BY <4>1, ConcatProperties, Zenon
      <3> HIDE DEF z, n
      <3> QED
        BY <2>1, <3>1 DEF z, n
    <2> HIDE DEF z, n
    <2>3. DOMAIN z = 1 .. 1 + n
      BY <2>2, <1>2
    <2>4. z[1] = "/" /\ \A i \in 1 .. n : i + 1 \in 1 .. 1 + n /\ z[i + 1] = s[i]
      BY <1>2, <2>1, <2>2
    <2>5. \A i \in 1 .. 1 + n : i = 1 \/ (i - 1 \in 1 .. n /\ z[i] = s[i - 1])
      BY <1>2, <2>2
    <2>6. ToSet(z) \subseteq E
      BY <1>2, <1>5, <2>3, <2>4, <2>5 DEF ToSet
    <2>7. E \subseteq ToSet(z)
      <3> SUFFICES ASSUME NEW x \in E PROVE \E i \in DOMAIN z : z[i] = x
        BY DEF ToSet
      <3>1. PICK i \in 1 .. n : s[i] = x
        BY <1>3
      <3> QED
        BY <2>3, <2>4, <3>1
    <2>8. ASSUME NEW i \in DOMAIN z, NEW j \in DOMAIN z, z[i] = z[j]
          PROVE  i = j \/ z[i] = "/"
      <3>1. CASE i = 1 \/ j = 1
        BY <2>4, <2>8, <3>1
      <3>2. CASE i # 1 /\ j # 1
        <4>1. i - 1 \in 1 .. n /\ j - 1 \in 1 .. n /\ s[i - 1] = s[j - 1]
          BY <2>3, <2>5, <2>8, <3>2
        <4>2. i - 1 = j - 1
          BY <1>1, <4>1 DEF n
        <4> QED
          BY <2>3, <4>2, <1>2
      <3> QED
        BY <3>1, <3>2
    <2> QED
      BY <2>2, <2>6, <2>7, <2>8 DEF z
  <1> QED
    BY <1>4, <1>5

-----------------------------------------------------------------------------
(* What a start has applied *)

StepOf ==
    [nx_addr |-> 1, nx_broadcast |-> 2, init |-> 3, vx_bcaps |-> 4, vx_ccaps |-> 5,
     vx_flags |-> 6, dx_limit |-> 7, vx_limit |-> 8, vx_cpuset |-> 9, vx_sched |-> 10,
     vx_uname |-> 12, mount |-> 14]

LEMMA TheContextTables ==
    ContextTables = {"init", "nx_broadcast", "nx_addr", "vx_bcaps", "vx_ccaps", "vx_flags",
                     "vx_limit", "vx_sched", "vx_uname"}
  BY TheTables DEF ContextTables

(* The limits as the kernel gets them. *)
Corrected ==
    [type \in DOMAIN conf.vx_limit \cap Supported |->
        LET row == conf.vx_limit[type]
        IN [soft |-> row.soft, max |-> AtLeast(row.max, row.soft)]]

Exact(t) == AsConfigured(t) /\ (t = "vx_limit" => kern["vx_limit"] = Corrected)

(* A table that was not touched since the start began is in the kernel     *)
(* once its step is done.                                                  *)
AppliedInv == \A t \in Tables : t \notin touched /\ Place[pc] > StepOf[t] => Exact(t)

(* Nothing is mounted before the root entry. *)
MountsInv ==
    /\ Place[pc] \in 1 .. 13 => mounts = <<>>
    /\ pc = "namespace_mount" =>
          \/ mounts = <<>>
          \/ mounts = <<"/">> /\ ("mount" \notin touched => "/" \in DOMAIN conf["mount"])

KernOK ==
    /\ kern = [t \in ContextTables |-> kern[t]]
    /\ \A t \in ContextTables : DOMAIN kern[t] \subseteq Keys[t]

PartsOK ==
    /\ pc \in Places /\ KernOK /\ mounts \in Seq(Paths)
    /\ disk.state \in {"none", "added", "set"} /\ cpuset.state \in {"none", "dir", "set"}
    /\ inset \in 0 .. MaxHelpers

(* While vx.start holds the lock nothing is touched. *)
LockInv ==
    /\ byStart \in BOOLEAN /\ netOK \in BOOLEAN /\ busy \in BOOLEAN
    /\ byStart => locked /\ touched = {}

StartInv == ConfInv /\ PartsOK /\ LockInv /\ MountsInv /\ AppliedInv

(* A table and what was made of it stay as they are. *)
Kept(t) ==
    /\ conf'[t] = conf[t]
    /\ t \in ContextTables => kern'[t] = kern[t]
    /\ t = "dx_limit" => disk' = disk
    /\ t = "vx_cpuset" => cpuset' = cpuset /\ busy' = busy
    /\ t = "mount" => mounts' = mounts
    /\ t \in {"nx_addr", "nx_broadcast"} => (netOK' => netOK)

LEMMA ExactKept ==
    ASSUME NEW t \in Tables, Kept(t), Exact(t)
    PROVE  Exact(t)'
  <1>1. CASE t = "dx_limit"
    BY <1>1 DEF Kept, Exact, AsConfigured
  <1>2. CASE t = "vx_cpuset"
    BY <1>2 DEF Kept, Exact, AsConfigured
  <1>3. CASE t = "mount"
    BY <1>3 DEF Kept, Exact, AsConfigured
  <1>4. CASE t = "vx_sched"
    <2>1. conf'["vx_sched"] = conf["vx_sched"] /\ kern'["vx_sched"] = kern["vx_sched"]
      BY <1>4, TheContextTables DEF Kept
    <2> QED
      BY <1>4, <2>1 DEF Exact, AsConfigured
  <1>5. CASE t = "vx_limit"
    <2>1. conf'["vx_limit"] = conf["vx_limit"] /\ kern'["vx_limit"] = kern["vx_limit"]
      BY <1>5, TheContextTables DEF Kept
    <2>2. Corrected' = Corrected
      BY <2>1 DEF Corrected
    <2>3. AsConfigured(t)'
      BY <1>5, <2>1 DEF Exact, AsConfigured
    <2> QED
      BY <1>5, <2>1, <2>2, <2>3 DEF Exact
  <1>6. CASE t \in {"nx_addr", "nx_broadcast"}
    <2>1. conf'[t] = conf[t] /\ kern'[t] = kern[t] /\ (netOK' => netOK)
      BY <1>6, TheContextTables DEF Kept
    <2>2. AsConfigured(t) <=> (netOK => kern[t] = conf[t])
      BY <1>6 DEF AsConfigured
    <2>3. AsConfigured(t)' <=> (netOK' => kern'[t] = conf'[t])
      BY <1>6 DEF AsConfigured
    <2> QED
      BY <1>6, <2>1, <2>2, <2>3 DEF Exact
  <1>7. CASE t \in {"init", "vx_bcaps", "vx_ccaps", "vx_flags", "vx_uname"}
    <2>1. conf'[t] = conf[t] /\ kern'[t] = kern[t]
      BY <1>7, TheContextTables DEF Kept
    <2> QED
      BY <1>7, <2>1 DEF Exact, AsConfigured
  <1> QED
    BY <1>1, <1>2, <1>3, <1>4, <1>5, <1>6, <1>7, TheTables

(* A step of the start that applies the tables in T. *)
LEMMA AppliedStep ==
    ASSUME AppliedInv, touched' = touched, NEW T,
           \A t \in Tables \ T : Kept(t) /\ (Place[pc'] > StepOf[t] => Place[pc] > StepOf[t]),
           \A t \in Tables \cap T : t \notin touched /\ Place[pc'] > StepOf[t] => Exact(t)'
    PROVE  AppliedInv'
  <1> SUFFICES ASSUME NEW t \in Tables, t \notin touched', Place[pc'] > StepOf[t]
               PROVE  Exact(t)'
    BY DEF AppliedInv
  <1>1. CASE t \in T
    BY <1>1
  <1>2. CASE t \notin T
    BY <1>2, ExactKept DEF AppliedInv
  <1> QED
    BY <1>1, <1>2

-----------------------------------------------------------------------------
(* The steps of a start *)

(* Where a step of a helper leads. *)
LEMMA MovedOn ==
    ASSUME NEW step \in Starting, step # "exec", pc = step,
           pc' = "failed" \/ pc' = After(step)
    PROVE  /\ pc' \in Places /\ Place[pc] \in 1 .. 14 /\ Place[pc'] \in {0, Place[pc] + 1}
           /\ pc' = "failed" \/ Place[pc'] = Place[pc] + 1
           /\ pc' = "failed" => Place[pc'] = 0
           /\ \A t \in Tables : StepOf[t] # Place[step] =>
                 (Place[pc'] > StepOf[t] => Place[pc] > StepOf[t])
  <1>1. Place["failed"] = 0
    BY DEF Place
  <1>2. Place[step] \in 1 .. 14
    BY TheSteps DEF Place
  <1>3. \A t \in Tables : StepOf[t] \in Nat /\ StepOf[t] > 0
    BY TheTables DEF StepOf
  <1>4. CASE pc' = "failed"
    BY <1>1, <1>2, <1>3, <1>4 DEF Places
  <1>5. CASE pc' = After(step)
    <2>1. pc' \in Starting /\ Place[pc'] = Place[step] + 1
      BY <1>5, AfterStep
    <2>2. pc' # "failed"
      BY <1>1, <1>2, <2>1
    <2> QED
      BY <1>2, <1>3, <2>1, <2>2 DEF Places
  <1> QED
    BY <1>4, <1>5

LEMMA StaysConfigured ==
    ASSUME StartInv, UNCHANGED <<confVars, byStart>>, PartsOK',
           netOK' \in BOOLEAN, busy' \in BOOLEAN, MountsInv', AppliedInv'
    PROVE  StartInv'
  <1>1. ConfInv'
    BY ConfUnchanged DEF StartInv, ConfInv, confVars
  <1>2. LockInv'
    BY Zenon DEF StartInv, LockInv, confVars
  <1> QED
    BY <1>1, <1>2 DEF StartInv

(* Before the mounts, mounts stays empty. *)
LEMMA NotMountedYet ==
    ASSUME StartInv, mounts' = mounts, Place[pc] \in 1 .. 12, Place[pc'] \in 0 .. 13
    PROVE  MountsInv'
  <1>1. mounts = <<>>
    BY DEF StartInv, MountsInv
  <1>2. pc' # "namespace_mount"
    BY DEF Place
  <1> QED
    BY <1>1, <1>2 DEF MountsInv

LEMMA KernSet ==
    ASSUME KernOK, NEW t \in ContextTables, NEW rows, DOMAIN rows \subseteq Keys[t],
           kern' = [kern EXCEPT ![t] = rows]
    PROVE  /\ KernOK' /\ kern'[t] = rows
           /\ \A u \in ContextTables : u # t => kern'[u] = kern[u]
  <1>1. DOMAIN kern = ContextTables
    BY DEF KernOK
  <1>2. kern'[t] = rows /\ \A u \in ContextTables : u # t => kern'[u] = kern[u]
    BY <1>1
  <1>3. kern' = [u \in ContextTables |-> kern'[u]]
    BY <1>1
  <1>4. \A u \in ContextTables : DOMAIN kern'[u] \subseteq Keys[u]
    BY <1>2 DEF KernOK
  <1> QED
    BY <1>2, <1>3, <1>4 DEF KernOK

LEMMA OtherTables ==
    /\ "dx_limit" \notin ContextTables /\ "vx_cpuset" \notin ContextTables
    /\ "mount" \notin ContextTables
  BY DEF ContextTables

(* A step that applies the rows of one table to the context. *)
LEMMA ApplyStep ==
    ASSUME StartInv, NEW step \in Starting, step # "exec", Place[step] \in 1 .. 12,
           NEW t \in ContextTables, \A u \in Tables : StepOf[u] = Place[step] => u = t,
           NEW rows, DOMAIN rows \subseteq Keys[t], Apply(step, t, rows),
           kern'[t] = rows => Exact(t)'
    PROVE  StartInv'
  <1>1. /\ pc = step /\ UNCHANGED <<confVars, byStart>>
        /\ UNCHANGED <<netOK, mounts, disk, cpuset, inset, busy>>
        /\ \/ kern' = [kern EXCEPT ![t] = rows] /\ pc' = After(step)
           \/ pc' = "failed" /\ kern' = kern
    BY DEF Apply, At, Proceed, Fault
  <1>2. /\ pc' \in Places /\ Place[pc] \in 1 .. 14 /\ Place[pc'] \in {0, Place[pc] + 1}
        /\ pc' = "failed" \/ Place[pc'] = Place[pc] + 1
        /\ pc' = "failed" => Place[pc'] = 0
        /\ \A u \in Tables : StepOf[u] # Place[step] =>
                 (Place[pc'] > StepOf[u] => Place[pc] > StepOf[u])
    BY <1>1, MovedOn
  <1>3. KernOK
    BY DEF StartInv, PartsOK
  <1>4. /\ KernOK' /\ \A u \in ContextTables : u # t => kern'[u] = kern[u]
        /\ kern'[t] = rows \/ pc' = "failed"
    <2>1. CASE kern' = [kern EXCEPT ![t] = rows]
      BY <1>3, <2>1, KernSet
    <2>2. CASE pc' = "failed" /\ kern' = kern
      BY <1>3, <2>2 DEF KernOK
    <2> QED
      BY <1>1, <2>1, <2>2
  <1>5. PartsOK'
    BY <1>1, <1>2, <1>4 DEF StartInv, PartsOK
  <1>6. MountsInv'
    <2>1. Place[pc'] \in 0 .. 13
      BY <1>1, <1>2
    <2> QED
      BY <1>1, <2>1, NotMountedYet
  <1>7. AppliedInv'
    <2>1. AppliedInv /\ touched' = touched
      BY <1>1 DEF StartInv, confVars
    <2>2. \A u \in Tables \ {t} : Kept(u)
      BY <1>1, <1>4 DEF Kept, confVars
    <2>3. \A u \in Tables \ {t} : Place[pc'] > StepOf[u] => Place[pc] > StepOf[u]
      BY <1>2
    <2>4. ASSUME Place[pc'] > StepOf[t] PROVE Exact(t)'
      <3>1. StepOf[t] \in Nat
        BY TheContextTables DEF StepOf
      <3>2. pc' # "failed"
        BY <1>2, <2>4, <3>1
      <3> QED
        BY <1>4, <3>2
    <2>5. \A u \in Tables \cap {t} : u \notin touched /\ Place[pc'] > StepOf[u] => Exact(u)'
      BY <2>4
    <2> QED
      BY <2>1, <2>2, <2>3, <2>5, AppliedStep
  <1>8. netOK' \in BOOLEAN /\ busy' \in BOOLEAN
    BY <1>1, Zenon DEF StartInv, LockInv
  <1> QED
    BY <1>1, <1>5, <1>6, <1>7, <1>8, StaysConfigured

(* Tables that are applied as they are. *)
LEMMA ExactCopy ==
    ASSUME NEW t \in {"init", "vx_bcaps", "vx_ccaps", "vx_flags", "vx_uname", "nx_addr", "nx_broadcast"},
           kern'[t] = conf'[t]
    PROVE  Exact(t)'
  <1>1. CASE t \in {"nx_addr", "nx_broadcast"}
    BY <1>1 DEF Exact, AsConfigured
  <1>2. CASE t \in {"init", "vx_bcaps", "vx_ccaps", "vx_flags", "vx_uname"}
    BY <1>2 DEF Exact, AsConfigured
  <1> QED
    BY <1>1, <1>2

LEMMA ApplyCopy ==
    ASSUME StartInv, NEW step \in Starting, step # "exec", Place[step] \in 1 .. 12,
           NEW t \in {"init", "vx_bcaps", "vx_ccaps", "vx_flags", "vx_uname"},
           \A u \in Tables : StepOf[u] = Place[step] => u = t,
           Apply(step, t, conf[t])
    PROVE  StartInv'
  <1>1. t \in ContextTables /\ t \in Tables
    BY TheContextTables, TheTables
  <1>2. DOMAIN conf[t] \subseteq Keys[t]
    BY <1>1 DEF StartInv, ConfInv, RowsOK
  <1>3. conf' = conf
    BY DEF Apply, At, confVars
  <1>4. kern'[t] = conf[t] => Exact(t)'
    BY <1>3, ExactCopy
  <1> QED
    BY <1>1, <1>2, <1>4, ApplyStep

LEMMA Copies ==
    ASSUME StartInv, m_helper_startup \/ context_caps_and_flags \/ context_uname
    PROVE  StartInv'
  <1>1. CASE m_helper_startup
    <2>1. Apply("init", "init", conf["init"])
      BY <1>1 DEF m_helper_startup
    <2>2. \A u \in Tables : StepOf[u] = Place["init"] => u = "init"
      BY TheTables DEF StepOf, Place
    <2>3. "init" \in Starting /\ Place["init"] \in 1 .. 12
      BY TheSteps DEF Place
    <2> QED
      BY <2>1, <2>2, <2>3, ApplyCopy
  <1>2. CASE Apply("bcaps", "vx_bcaps", conf["vx_bcaps"])
    <2>2. \A u \in Tables : StepOf[u] = Place["bcaps"] => u = "vx_bcaps"
      BY TheTables DEF StepOf, Place
    <2>3. "bcaps" \in Starting /\ Place["bcaps"] \in 1 .. 12
      BY TheSteps DEF Place
    <2> QED
      BY <1>2, <2>2, <2>3, ApplyCopy
  <1>3. CASE Apply("ccaps", "vx_ccaps", conf["vx_ccaps"])
    <2>2. \A u \in Tables : StepOf[u] = Place["ccaps"] => u = "vx_ccaps"
      BY TheTables DEF StepOf, Place
    <2>3. "ccaps" \in Starting /\ Place["ccaps"] \in 1 .. 12
      BY TheSteps DEF Place
    <2> QED
      BY <1>3, <2>2, <2>3, ApplyCopy
  <1>4. CASE Apply("flags", "vx_flags", conf["vx_flags"])
    <2>2. \A u \in Tables : StepOf[u] = Place["flags"] => u = "vx_flags"
      BY TheTables DEF StepOf, Place
    <2>3. "flags" \in Starting /\ Place["flags"] \in 1 .. 12
      BY TheSteps DEF Place
    <2> QED
      BY <1>4, <2>2, <2>3, ApplyCopy
  <1>5. CASE context_uname
    <2>1. Apply("context_uname", "vx_uname", conf["vx_uname"])
      BY <1>5 DEF context_uname
    <2>2. \A u \in Tables : StepOf[u] = Place["context_uname"] => u = "vx_uname"
      BY TheTables DEF StepOf, Place
    <2>3. "context_uname" \in Starting /\ Place["context_uname"] \in 1 .. 12
      BY TheSteps DEF Place
    <2> QED
      BY <2>1, <2>2, <2>3, ApplyCopy
  <1> QED
    BY <1>1, <1>2, <1>3, <1>4, <1>5 DEF context_caps_and_flags

LEMMA ResourceLimits ==
    ASSUME StartInv, context_resource_limits
    PROVE  StartInv'
  <1>1. Apply("context_resource_limits", "vx_limit", Corrected)
    BY DEF context_resource_limits, Corrected
  <1>2. \A u \in Tables : StepOf[u] = Place["context_resource_limits"] => u = "vx_limit"
    BY TheTables DEF StepOf, Place
  <1>3. "context_resource_limits" \in Starting /\ Place["context_resource_limits"] \in 1 .. 12
    BY TheSteps DEF Place
  <1>4. "vx_limit" \in ContextTables /\ "vx_limit" \in Tables
    BY TheContextTables, TheTables
  <1>5. DOMAIN Corrected = DOMAIN conf["vx_limit"] \cap Supported
    BY DEF Corrected
  <1>6. DOMAIN Corrected \subseteq Keys["vx_limit"]
    BY <1>4, <1>5 DEF StartInv, ConfInv, RowsOK
  <1>7. conf' = conf
    BY <1>1 DEF Apply, At, confVars
  <1>8. Corrected' = Corrected
    BY <1>7 DEF Corrected
  <1>9. ASSUME kern'["vx_limit"] = Corrected PROVE Exact("vx_limit")'
    <2>1. AsConfigured("vx_limit")'
      BY <1>5, <1>7, <1>9 DEF AsConfigured
    <2> QED
      BY <1>8, <1>9, <2>1 DEF Exact
  <1> HIDE DEF Corrected
  <1> QED
    BY <1>1, <1>2, <1>3, <1>4, <1>6, <1>9, ApplyStep

(* The row of a cpu, or the one for all cpus. *)
LEMMA LastCallOf ==
    ASSUME DOMAIN conf["vx_sched"] \subseteq -1 .. NumCpus - 1, NEW c \in 0 .. NumCpus - 1
    PROVE  /\ c \in DOMAIN conf["vx_sched"] => LastCall(c) = c
           /\ c \notin DOMAIN conf["vx_sched"] /\ -1 \in DOMAIN conf["vx_sched"] => LastCall(c) = -1
           /\ c \in UNION {vx_sched_set(cpuid) : cpuid \in DOMAIN conf["vx_sched"]}
                <=> c \in DOMAIN conf["vx_sched"] \/ -1 \in DOMAIN conf["vx_sched"]
  <1> DEFINE D == DOMAIN conf["vx_sched"]
             calls == {cpuid \in D : c \in vx_sched_set(cpuid)}
  <1> NumCpus \in Nat \ {0}
    BY SizesAssumption
  <1>1. ASSUME NEW d \in -1 .. NumCpus - 1
        PROVE  vx_sched_set(d) = IF d = -1 THEN 0 .. NumCpus - 1 ELSE {d}
    <2>1. CASE d = -1
      BY <2>1 DEF vx_sched_set
    <2>2. CASE d \in 0 .. NumCpus - 1
      BY <2>2 DEF vx_sched_set
    <2> QED
      BY <2>1, <2>2
  <1>2. \A d \in D : c \in vx_sched_set(d) <=> d = c \/ d = -1
    BY <1>1
  <1>3. calls = {c, -1} \cap D
    BY <1>2
  <1>4. LastCall(c) = CHOOSE d \in calls : \A other \in calls : other <= d
    BY DEF LastCall
  <1>5. c \in UNION {vx_sched_set(d) : d \in D} <=> c \in D \/ -1 \in D
    BY <1>2
  <1> HIDE DEF calls, D
  <1>6. c \in D => LastCall(c) = c
    BY <1>3, <1>4
  <1>7. c \notin D /\ -1 \in D => LastCall(c) = -1
    BY <1>3, <1>4
  <1> QED
    BY <1>5, <1>6, <1>7 DEF D

LEMMA Scheduler ==
    ASSUME StartInv, context_scheduler
    PROVE  StartInv'
  <1> DEFINE D == DOMAIN conf["vx_sched"]
             cpus == UNION {vx_sched_set(cpuid) : cpuid \in D}
             rows == [cpu \in cpus |-> conf["vx_sched"][LastCall(cpu)]]
  <1>1. Apply("context_scheduler", "vx_sched", rows)
    BY DEF context_scheduler
  <1>2. \A u \in Tables : StepOf[u] = Place["context_scheduler"] => u = "vx_sched"
    BY TheTables DEF StepOf, Place
  <1>3. "context_scheduler" \in Starting /\ Place["context_scheduler"] \in 1 .. 12
    BY TheSteps DEF Place
  <1>4. "vx_sched" \in ContextTables /\ "vx_sched" \in Tables
    BY TheContextTables, TheTables
  <1>5. D \subseteq -1 .. NumCpus - 1
    BY <1>4, TheTables DEF StartInv, ConfInv, RowsOK
  <1>6. cpus \subseteq 0 .. NumCpus - 1
    <2> NumCpus \in Nat \ {0}
      BY SizesAssumption
    <2>1. ASSUME NEW d \in D PROVE vx_sched_set(d) \subseteq 0 .. NumCpus - 1
      <3>1. CASE d = -1
        BY <3>1 DEF vx_sched_set
      <3>2. CASE d \in 0 .. NumCpus - 1
        BY <3>2 DEF vx_sched_set
      <3> QED
        BY <1>5, <3>1, <3>2
    <2> QED
      BY <2>1
  <1>7. DOMAIN rows = cpus /\ DOMAIN rows \subseteq Keys["vx_sched"]
    <2>1. DOMAIN rows = cpus
      OBVIOUS
    <2>2. Keys["vx_sched"] = -1 .. NumCpus - 1 /\ NumCpus \in Nat
      BY TheTables, SizesAssumption
    <2> HIDE DEF cpus, rows
    <2> QED
      BY <1>6, <2>1, <2>2
  <1>8. conf' = conf
    BY <1>1 DEF Apply, At, confVars
  <1>9. ASSUME kern'["vx_sched"] = rows PROVE Exact("vx_sched")'
    <2>1. ASSUME NEW c \in 0 .. NumCpus - 1
          PROVE  LET own == {c, -1} \cap D
                     row == IF c \in own THEN c ELSE -1
                 IN IF own = {} THEN c \notin DOMAIN rows
                    ELSE rows[c] = conf["vx_sched"][row]
      <3>1. /\ c \in D => LastCall(c) = c
            /\ c \notin D /\ -1 \in D => LastCall(c) = -1
            /\ c \in cpus <=> c \in D \/ -1 \in D
        BY <1>5, LastCallOf
      <3>2. c \in cpus => rows[c] = conf["vx_sched"][LastCall(c)]
        OBVIOUS
      <3> HIDE DEF cpus, rows, D
      <3> QED
        BY <1>7, <3>1, <3>2
    <2>2. AsConfigured("vx_sched")'
      <3> HIDE DEF rows
      <3> QED
        BY <1>8, <1>9, <2>1 DEF AsConfigured
    <2> QED
      BY <2>2 DEF Exact
  <1> HIDE DEF rows
  <1> QED
    BY <1>1, <1>2, <1>3, <1>4, <1>7, <1>9, ApplyStep

(* A step that applies what is not in the contexts, or nothing. *)
LEMMA OutsideStep ==
    ASSUME StartInv, NEW step \in Starting, step # "exec", Place[step] \in 1 .. 12,
           At(step), pc' = "failed" \/ pc' = After(step),
           NEW t, \A u \in Tables : StepOf[u] = Place[step] => u = t,
           UNCHANGED <<netOK, kern, mounts, inset>>,
           t # "dx_limit" => disk' = disk,
           t # "vx_cpuset" => cpuset' = cpuset /\ busy' = busy,
           disk'.state \in {"none", "added", "set"}, cpuset'.state \in {"none", "dir", "set"},
           busy' \in BOOLEAN, pc' # "failed" /\ t \in Tables => Exact(t)'
    PROVE  StartInv'
  <1>1. pc = step /\ UNCHANGED <<confVars, byStart>>
    BY DEF At
  <1>2. /\ pc' \in Places /\ Place[pc] \in 1 .. 14 /\ Place[pc'] \in {0, Place[pc] + 1}
        /\ pc' = "failed" => Place[pc'] = 0
        /\ \A u \in Tables : StepOf[u] # Place[step] =>
                 (Place[pc'] > StepOf[u] => Place[pc] > StepOf[u])
    BY <1>1, MovedOn
  <1>3. PartsOK'
    <2>1. KernOK'
      BY DEF StartInv, PartsOK, KernOK
    <2> QED
      BY <1>2, <2>1 DEF StartInv, PartsOK
  <1>4. MountsInv'
    <2>1. Place[pc'] \in 0 .. 13
      BY <1>1, <1>2
    <2> QED
      BY <1>1, <2>1, NotMountedYet
  <1>5. AppliedInv'
    <2>1. AppliedInv /\ touched' = touched
      BY <1>1 DEF StartInv, confVars
    <2>2. \A u \in Tables \ {t} : Kept(u)
      BY <1>1 DEF Kept, confVars
    <2>3. \A u \in Tables \ {t} : Place[pc'] > StepOf[u] => Place[pc] > StepOf[u]
      BY <1>2
    <2>4. ASSUME NEW u \in Tables \cap {t}, Place[pc'] > StepOf[u] PROVE Exact(u)'
      <3>1. StepOf[u] \in Nat
        BY TheTables DEF StepOf
      <3>2. pc' # "failed"
        BY <1>2, <2>4, <3>1
      <3> QED
        BY <3>2
    <2>5. \A u \in Tables \cap {t} : u \notin touched /\ Place[pc'] > StepOf[u] => Exact(u)'
      BY <2>4
    <2> QED
      BY <2>1, <2>2, <2>3, <2>5, AppliedStep
  <1>6. netOK' \in BOOLEAN
    BY Zenon DEF StartInv, LockInv
  <1> QED
    BY <1>1, <1>3, <1>4, <1>5, <1>6, StaysConfigured

LEMMA DiskLimits ==
    ASSUME StartInv, context_disk_limits
    PROVE  StartInv'
  <1>1. \A u \in Tables : StepOf[u] = Place["context_disk_limits"] => u = "dx_limit"
    BY TheTables DEF StepOf, Place
  <1>2. "context_disk_limits" \in Starting /\ Place["context_disk_limits"] \in 1 .. 12
    BY TheSteps DEF Place
  <1>3. /\ At("context_disk_limits") /\ conf' = conf
        /\ UNCHANGED <<netOK, kern, mounts, cpuset, inset, busy>>
    BY DEF context_disk_limits, At, confVars
  <1>4. pc' = "failed" \/ pc' = After("context_disk_limits")
    BY DEF context_disk_limits, At, Proceed, Fault
  <1>5. disk'.state \in {"none", "added", "set"}
    BY DEF context_disk_limits, NoDisk, Added, DiskLimit
  <1>6. ASSUME pc' # "failed" PROVE Exact("dx_limit")'
    BY <1>3, <1>6 DEF context_disk_limits, Fault, Exact, AsConfigured
  <1>7. cpuset'.state \in {"none", "dir", "set"}
    BY <1>3 DEF StartInv, PartsOK
  <1>8. busy' \in BOOLEAN
    BY <1>3, Zenon DEF StartInv, LockInv
  <1> QED
    BY <1>1, <1>2, <1>3, <1>4, <1>5, <1>6, <1>7, <1>8, OutsideStep

LEMMA TheCpuset ==
    ASSUME StartInv, context_cpuset
    PROVE  StartInv'
  <1>1. \A u \in Tables : StepOf[u] = Place["context_cpuset"] => u = "vx_cpuset"
    BY TheTables DEF StepOf, Place
  <1>2. "context_cpuset" \in Starting /\ Place["context_cpuset"] \in 1 .. 12
    BY TheSteps DEF Place
  <1>3. /\ At("context_cpuset") /\ conf' = conf
        /\ UNCHANGED <<netOK, kern, mounts, disk, inset>>
    BY DEF context_cpuset, At, confVars
  <1>4. pc' = "failed" \/ pc' = After("context_cpuset")
    BY DEF context_cpuset, At, Proceed, Fault
  <1>5. cpuset'.state \in {"none", "dir", "set"}
    <2>1. cpuset.state \in {"none", "dir", "set"}
      BY DEF StartInv, PartsOK
    <2>2. cpuset' \in {cpuset, NoCpuset, Directory, Cpuset(conf["vx_cpuset"]["xid"])}
      BY DEF context_cpuset
    <2> QED
      BY <2>1, <2>2 DEF NoCpuset, Directory, Cpuset
  <1>6. busy' \in BOOLEAN
    BY Zenon DEF context_cpuset
  <1>7. ASSUME pc' # "failed" PROVE Exact("vx_cpuset")'
    <2>1. \/ DOMAIN conf["vx_cpuset"] = {} /\ (cpuset' = NoCpuset \/ busy')
          \/ DOMAIN conf["vx_cpuset"] # {} /\ cpuset' = Cpuset(conf["vx_cpuset"]["xid"])
      BY <1>7 DEF context_cpuset, Fault
    <2> QED
      BY <1>3, <2>1 DEF Exact, AsConfigured
  <1>8. disk'.state \in {"none", "added", "set"}
    BY <1>3 DEF StartInv, PartsOK
  <1> QED
    BY <1>1, <1>2, <1>3, <1>4, <1>5, <1>6, <1>7, <1>8, OutsideStep

LEMMA Namespace ==
    ASSUME StartInv, namespace_setup
    PROVE  StartInv'
  <1>1. \A u \in Tables : StepOf[u] # Place["namespace_setup"]
    BY TheTables DEF StepOf, Place
  <1>2. "namespace_setup" \in Starting /\ Place["namespace_setup"] \in 1 .. 12
    BY TheSteps DEF Place
  <1>3. /\ At("namespace_setup")
        /\ UNCHANGED <<netOK, kern, mounts, disk, cpuset, inset, busy>>
    BY DEF namespace_setup
  <1>4. pc' = "failed" \/ pc' = After("namespace_setup")
    BY DEF namespace_setup, At, Proceed, Fault
  <1>5. disk'.state \in {"none", "added", "set"} /\ cpuset'.state \in {"none", "dir", "set"}
    BY <1>3 DEF StartInv, PartsOK
  <1>6. busy' \in BOOLEAN
    BY <1>3, Zenon DEF StartInv, LockInv
  <1>7. "none" \notin Tables
    BY TheTables
  <1> QED
    BY <1>1, <1>2, <1>3, <1>4, <1>5, <1>6, <1>7, OutsideStep

(* helper.netup: after a fault nothing is said of the addresses. *)
LEMMA Networked ==
    ASSUME StartInv, UNCHANGED <<confVars, byStart>>, Place[pc] \in 1 .. 12,
           pc' \in Places, Place[pc'] \in 0 .. 13,
           UNCHANGED <<mounts, disk, cpuset, inset, busy>>, KernOK',
           netOK' \in BOOLEAN, netOK' => netOK,
           NEW T \in SUBSET {"nx_addr", "nx_broadcast"},
           \A u \in ContextTables \ T : kern'[u] = kern[u],
           \A u \in Tables \ T : Place[pc'] > StepOf[u] => Place[pc] > StepOf[u],
           netOK' => \A u \in T : kern'[u] = conf[u]
    PROVE  StartInv'
  <1>1. PartsOK'
    BY DEF StartInv, PartsOK
  <1>2. MountsInv'
    BY NotMountedYet
  <1>3. AppliedInv'
    <2>1. AppliedInv /\ touched' = touched /\ conf' = conf
      BY DEF StartInv, confVars
    <2>2. \A u \in Tables \ T : Kept(u)
      BY <2>1 DEF Kept
    <2>3. ASSUME NEW u \in T PROVE Exact(u)'
      <3>1. netOK' => kern'[u] = conf'[u]
        BY <2>1
      <3>2. AsConfigured(u)' <=> (netOK' => kern'[u] = conf'[u])
        BY DEF AsConfigured
      <3> QED
        BY <3>1, <3>2 DEF Exact
    <2> QED
      BY <2>1, <2>2, <2>3, AppliedStep
  <1>4. busy' \in BOOLEAN
    BY Zenon DEF StartInv, LockInv
  <1> QED
    BY <1>1, <1>2, <1>3, <1>4, StaysConfigured

LEMMA Interfaces ==
    ASSUME StartInv, network_interfaces
    PROVE  StartInv'
  <1>1. /\ pc = "network_interfaces" /\ UNCHANGED <<confVars, byStart>>
        /\ UNCHANGED <<mounts, disk, cpuset, inset, busy>>
    BY DEF network_interfaces, At
  <1>2. "network_interfaces" \in Starting /\ Place["network_interfaces"] = 1 /\ Place["init"] = 3
    BY TheSteps DEF Place
  <1>3. /\ KernOK /\ "nx_addr" \in ContextTables
        /\ DOMAIN conf["nx_addr"] \subseteq Keys["nx_addr"]
    BY TheContextTables, TheTables DEF StartInv, PartsOK, ConfInv, RowsOK
  <1>4. \A u \in Tables : /\ StepOf[u] > 0
                          /\ u \notin {"nx_addr", "nx_broadcast"} => StepOf[u] >= 3
                          /\ u # "nx_addr" => StepOf[u] >= 2
    BY TheTables DEF StepOf
  <1>5. CASE kern' = [kern EXCEPT !["nx_addr"] = conf["nx_addr"]] /\ Proceed /\ UNCHANGED netOK
    <2>1. /\ KernOK' /\ kern'["nx_addr"] = conf["nx_addr"]
          /\ \A u \in ContextTables : u # "nx_addr" => kern'[u] = kern[u]
      BY <1>3, <1>5, KernSet
    <2>2. pc' \in Places /\ Place[pc'] = 2
      BY <1>1, <1>2, <1>5, AfterStep DEF Proceed, Places
    <2>3. netOK' \in BOOLEAN /\ (netOK' => netOK)
      BY <1>5, Zenon DEF StartInv, LockInv
    <2>4. \A u \in Tables \ {"nx_addr"} : Place[pc'] > StepOf[u] => Place[pc] > StepOf[u]
      BY <1>4, <2>2, TheTables DEF StepOf
    <2>5. /\ \A u \in ContextTables \ {"nx_addr"} : kern'[u] = kern[u]
          /\ netOK' => \A u \in {"nx_addr"} : kern'[u] = conf[u]
          /\ {"nx_addr"} \in SUBSET {"nx_addr", "nx_broadcast"}
      BY <2>1
    <2>6. Place[pc] \in 1 .. 12 /\ Place[pc'] \in 0 .. 13
      BY <1>1, <1>2, <2>2
    <2> QED
      BY <1>1, <2>1, <2>2, <2>3, <2>4, <2>5, <2>6, Networked, Zenon
  <1>6. ASSUME NEW K, kern' = [kern EXCEPT !["nx_addr"] = Without(conf["nx_addr"], K)],
               pc' = "init", netOK' = FALSE
        PROVE  StartInv'
    <2>1. DOMAIN Without(conf["nx_addr"], K) \subseteq Keys["nx_addr"]
      BY <1>3 DEF Without
    <2>2. /\ KernOK' /\ \A u \in ContextTables : u # "nx_addr" => kern'[u] = kern[u]
      BY <1>3, <1>6, <2>1, KernSet
    <2>3. pc' \in Places /\ Place[pc'] = 3
      BY <1>2, <1>6, TheSteps DEF Places
    <2>4. netOK' \in BOOLEAN /\ (netOK' => netOK) /\ ~netOK'
      BY <1>6, Zenon
    <2>5. \A u \in Tables \ {"nx_addr", "nx_broadcast"} : Place[pc'] > StepOf[u] => Place[pc] > StepOf[u]
      BY <1>4, <2>3, TheTables DEF StepOf
    <2>6. /\ \A u \in ContextTables \ {"nx_addr", "nx_broadcast"} : kern'[u] = kern[u]
          /\ netOK' => \A u \in {"nx_addr", "nx_broadcast"} : kern'[u] = conf[u]
          /\ {"nx_addr", "nx_broadcast"} \in SUBSET {"nx_addr", "nx_broadcast"}
      BY <2>2, <2>4
    <2>7. Place[pc] \in 1 .. 12 /\ Place[pc'] \in 0 .. 13
      BY <1>1, <1>2, <2>3
    <2> QED
      BY <1>1, <2>2, <2>3, <2>4, <2>5, <2>6, <2>7, Networked, Zenon
  <1> QED
    BY <1>5, <1>6 DEF network_interfaces

LEMMA Broadcast ==
    ASSUME StartInv, network_broadcast
    PROVE  StartInv'
  <1>1. /\ pc = "network_broadcast" /\ UNCHANGED <<confVars, byStart>>
        /\ UNCHANGED <<mounts, disk, cpuset, inset, busy>> /\ pc' = After(pc)
    BY DEF network_broadcast, At, Proceed
  <1>2. "network_broadcast" \in Starting /\ Place["network_broadcast"] = 2
    BY TheSteps DEF Place
  <1>3. /\ KernOK /\ "nx_broadcast" \in ContextTables
        /\ DOMAIN conf["nx_broadcast"] \subseteq Keys["nx_broadcast"]
    BY TheContextTables, TheTables DEF StartInv, PartsOK, ConfInv, RowsOK
  <1>4. pc' \in Places /\ Place[pc'] = 3
    BY <1>1, <1>2, AfterStep DEF Places
  <1>5. \A u \in Tables \ {"nx_broadcast"} : Place[pc'] > StepOf[u] => Place[pc] > StepOf[u]
    BY <1>1, <1>2, <1>4, TheTables DEF StepOf
  <1>6. /\ Place[pc] \in 1 .. 12 /\ Place[pc'] \in 0 .. 13
        /\ {"nx_broadcast"} \in SUBSET {"nx_addr", "nx_broadcast"}
    BY <1>1, <1>2, <1>4
  <1>7. CASE kern' = [kern EXCEPT !["nx_broadcast"] = conf["nx_broadcast"]] /\ UNCHANGED netOK
    <2>1. /\ KernOK' /\ kern'["nx_broadcast"] = conf["nx_broadcast"]
          /\ \A u \in ContextTables : u # "nx_broadcast" => kern'[u] = kern[u]
      BY <1>3, <1>7, KernSet
    <2>2. netOK' \in BOOLEAN /\ (netOK' => netOK)
      BY <1>7, Zenon DEF StartInv, LockInv
    <2>3. /\ \A u \in ContextTables \ {"nx_broadcast"} : kern'[u] = kern[u]
          /\ netOK' => \A u \in {"nx_broadcast"} : kern'[u] = conf[u]
      BY <2>1
    <2> QED
      BY <1>1, <1>4, <1>5, <1>6, <2>1, <2>2, <2>3, Networked, Zenon
  <1>8. CASE netOK' = FALSE /\ UNCHANGED kern
    <2>1. KernOK'
      BY <1>3, <1>8 DEF KernOK
    <2>2. netOK' \in BOOLEAN /\ (netOK' => netOK) /\ ~netOK'
      BY <1>8, Zenon
    <2>3. /\ \A u \in ContextTables \ {"nx_broadcast"} : kern'[u] = kern[u]
          /\ netOK' => \A u \in {"nx_broadcast"} : kern'[u] = conf[u]
      BY <1>8, <2>2
    <2> QED
      BY <1>1, <1>4, <1>5, <1>6, <2>1, <2>2, <2>3, Networked, Zenon
  <1> QED
    BY <1>7, <1>8 DEF network_broadcast

(* Steps that only add to the mounts. *)
LEMMA MountStep ==
    ASSUME StartInv, pc \in Starting, pc # "exec", UNCHANGED <<confVars, byStart>>,
           pc' = "failed" \/ pc' = After(pc),
           \A u \in Tables : StepOf[u] = Place[pc] => u = "mount",
           UNCHANGED <<netOK, kern, disk, cpuset, inset, busy>>, mounts' \in Seq(Paths),
           MountsInv', Place[pc] < 14 \/ pc' = "failed" \/ ("mount" \notin touched => Exact("mount")')
    PROVE  StartInv'
  <1>1. /\ pc' \in Places /\ Place[pc] \in 1 .. 14 /\ Place[pc'] \in {0, Place[pc] + 1}
        /\ pc' = "failed" => Place[pc'] = 0
        /\ \A u \in Tables : StepOf[u] # Place[pc] =>
                 (Place[pc'] > StepOf[u] => Place[pc] > StepOf[u])
    BY MovedOn
  <1>2. PartsOK'
    <2>1. KernOK'
      BY DEF StartInv, PartsOK, KernOK
    <2> QED
      BY <1>1, <2>1 DEF StartInv, PartsOK
  <1>3. AppliedInv'
    <2>1. AppliedInv /\ touched' = touched
      BY DEF StartInv, confVars
    <2>2. \A u \in Tables \ {"mount"} : Kept(u)
      BY DEF Kept, confVars
    <2>3. \A u \in Tables \ {"mount"} : Place[pc'] > StepOf[u] => Place[pc] > StepOf[u]
      BY <1>1
    <2>4. ASSUME "mount" \notin touched, Place[pc'] > StepOf["mount"] PROVE Exact("mount")'
      <3>1. StepOf["mount"] = 14
        BY DEF StepOf
      <3>2. pc' # "failed" /\ Place[pc] = 14
        BY <1>1, <2>4, <3>1
      <3> QED
        BY <2>4, <3>2
    <2> QED
      BY <2>1, <2>2, <2>3, <2>4, AppliedStep
  <1>4. netOK' \in BOOLEAN /\ busy' \in BOOLEAN
    BY Zenon DEF StartInv, LockInv
  <1> QED
    BY <1>2, <1>3, <1>4, StaysConfigured

LEMMA MountRoot ==
    ASSUME StartInv, mount_root
    PROVE  StartInv'
  <1>1. /\ pc = "mount_root" /\ UNCHANGED <<confVars, byStart>>
        /\ UNCHANGED <<netOK, kern, disk, cpuset, inset, busy>>
        /\ pc' = "failed" \/ pc' = After(pc)
    BY DEF mount_root, At, Proceed, Fault
  <1>2. "mount_root" \in Starting /\ Place["mount_root"] = 13
    BY TheSteps DEF Place
  <1>3. mounts = <<>>
    BY <1>1, <1>2 DEF StartInv, MountsInv
  <1>4. conf' = conf
    BY <1>1 DEF confVars
  <1>5. mounts' = <<>> \/ (mounts' = <<"/">> /\ "/" \in DOMAIN conf["mount"])
    BY <1>3 DEF mount_root
  <1>6. DOMAIN conf["mount"] \subseteq Paths
    BY TheTables DEF StartInv, ConfInv, RowsOK
  <1>7. mounts' \in Seq(Paths)
    <2>1. <<>> \in Seq(Paths) /\ ("/" \in Paths => <<"/">> \in Seq(Paths))
      OBVIOUS
    <2> QED
      BY <1>5, <1>6, <2>1, Zenon
  <1>8. Place[pc'] \in {0, 14}
    BY <1>1, <1>2, MovedOn
  <1>9. MountsInv'
    <2>1. Place[pc'] \notin 1 .. 13
      BY <1>8
    <2>2. mounts' = <<>> \/ (mounts' = <<"/">> /\ "/" \in DOMAIN conf'["mount"])
      BY <1>4, <1>5
    <2> QED
      BY <2>1, <2>2 DEF MountsInv
  <1>10. \A u \in Tables : StepOf[u] = Place[pc] => u = "mount"
    BY <1>1, <1>2, TheTables DEF StepOf
  <1>11. pc \in Starting /\ pc # "exec" /\ Place[pc] < 14
    BY <1>1, <1>2
  <1> QED
    BY <1>1, <1>7, <1>9, <1>10, <1>11, MountStep, Zenon

LEMMA MountRest ==
    ASSUME StartInv, namespace_mount
    PROVE  StartInv'
  <1>1. /\ pc = "namespace_mount" /\ UNCHANGED <<confVars, byStart>>
        /\ UNCHANGED <<netOK, kern, disk, cpuset, inset, busy>>
        /\ pc' = "failed" \/ pc' = After(pc)
    BY DEF namespace_mount, At, Proceed, Fault
  <1>2. "namespace_mount" \in Starting /\ Place["namespace_mount"] = 14
    BY TheSteps DEF Place
  <1> DEFINE E == DOMAIN conf["mount"]
  <1>3. IsFiniteSet(E) /\ E \subseteq Paths
    BY TheTables DEF StartInv, ConfInv, RowsOK
  <1>4. conf' = conf
    BY <1>1 DEF confVars
  <1>5. mounts = <<>> \/ (mounts = <<"/">> /\ ("mount" \notin touched => "/" \in E))
    BY <1>1 DEF StartInv, MountsInv
  <1>6. mounts \in Seq(Paths)
    BY DEF StartInv, PartsOK
  <1>7. Place[pc'] \in {0, 15}
    BY <1>1, <1>2, MovedOn
  <1>8. MountsInv'
    <2>1. pc' # "namespace_mount"
      BY <1>2, <1>7
    <2> QED
      BY <1>7, <2>1 DEF MountsInv
  <1>9. \A u \in Tables : StepOf[u] = 14 => u = "mount"
    BY TheTables DEF StepOf
  <1>10. \/ mounts' = mounts /\ pc' = "failed"
         \/ \E s \in SetToSeqs(E) : mounts' = mounts \o s
    BY DEF namespace_mount, Fault
  <1>11. CASE mounts' = mounts /\ pc' = "failed"
    BY <1>1, <1>2, <1>6, <1>8, <1>9, <1>11, MountStep
  <1>12. CASE \E s \in SetToSeqs(E) : mounts' = mounts \o s
    <2>1. PICK s \in SetToSeqs(E) : mounts' = mounts \o s
      BY <1>12
    <2> HIDE DEF E
    <2>2. s \in Seq(Paths)
      BY <1>3, AllMounted
    <2>3. mounts' \in Seq(Paths)
      BY <1>6, <2>1, <2>2
    <2>4. ASSUME "mount" \notin touched PROVE Exact("mount")'
      <3>1. mounts = <<>> \/ (mounts = <<"/">> /\ "/" \in E)
        BY <1>5, <2>4
      <3> DEFINE z == mounts \o s
      <3>2. /\ ToSet(z) = E
            /\ \A i, j \in DOMAIN z : z[i] = z[j] => i = j \/ z[i] = "/"
        BY <1>3, <3>1, RootFirst
      <3> HIDE DEF z
      <3>3. mounts' = z
        BY <2>1 DEF z
      <3> QED
        BY <1>4, <3>2, <3>3 DEF Exact, AsConfigured, E
    <2> QED
      BY <1>1, <1>2, <1>8, <1>9, <2>3, <2>4, MountStep
  <1> QED
    BY <1>10, <1>11, <1>12

LEMMA HelperSteps ==
    ASSUME StartInv, HelperStep
    PROVE  StartInv'
  BY Interfaces, Broadcast, Copies, DiskLimits, ResourceLimits, TheCpuset, Scheduler,
     Namespace, MountRoot, MountRest DEF HelperStep

-----------------------------------------------------------------------------
(* Steps that apply nothing: what is claimed at the new place was claimed  *)
(* at the old one.                                                         *)
LEMMA OnlyMoves ==
    ASSUME StartInv, UNCHANGED <<conf, kern, mounts, disk, cpuset, busy, netOK>>,
           ConfInv', touched' = touched, LockInv', inset' \in 0 .. MaxHelpers, pc' \in Places,
           pc' = pc \/ Place[pc'] = 0 \/ (Place[pc] = 15 /\ Place[pc'] = 16)
    PROVE  StartInv'
  <1>1. PartsOK'
    <2>1. KernOK'
      BY DEF StartInv, PartsOK, KernOK
    <2> QED
      BY <2>1 DEF StartInv, PartsOK
  <1>2. MountsInv'
    <2>1. Place["namespace_mount"] = 14
      BY DEF Place
    <2>2. pc' = pc \/ (Place[pc'] \notin 1 .. 13 /\ pc' # "namespace_mount")
      BY <2>1
    <2> QED
      BY <2>2 DEF StartInv, MountsInv
  <1>3. AppliedInv'
    <2>1. \A u \in Tables : Kept(u)
      BY DEF Kept
    <2>2. \A u \in Tables : StepOf[u] \in 1 .. 14
      BY TheTables DEF StepOf
    <2>3. \A u \in Tables : Place[pc'] > StepOf[u] => Place[pc] > StepOf[u]
      BY <2>2
    <2>4. /\ \A u \in Tables \ {} : Kept(u) /\ (Place[pc'] > StepOf[u] => Place[pc] > StepOf[u])
          /\ \A u \in Tables \cap {} : u \notin touched /\ Place[pc'] > StepOf[u] => Exact(u)'
      BY <2>1, <2>3
    <2>5. AppliedInv
      BY DEF StartInv
    <2> QED
      BY <2>4, <2>5, AppliedStep
  <1> QED
    BY <1>1, <1>2, <1>3 DEF StartInv

LEMMA Answers == ASSUME StartInv, Answer PROVE StartInv'
  <1>1. locked' \in BOOLEAN
    BY Zenon DEF Answer
  <1>2. ConfInv'
    BY <1>1, ConfUnchanged DEF Answer, StartInv, ConfInv
  <1>3. LockInv'
    BY Zenon DEF Answer, StartInv, LockInv
  <1>4. /\ UNCHANGED <<conf, kern, mounts, disk, cpuset, busy, netOK>> /\ touched' = touched
        /\ inset' \in 0 .. MaxHelpers /\ pc' \in Places /\ pc' = pc
    BY DEF Answer, StartInv, PartsOK
  <1> QED
    BY <1>2, <1>3, <1>4, OnlyMoves

(* The configuration and the lock are left alone. *)
LEMMA KernelMoves ==
    ASSUME StartInv, vshelper_startup \/ vshelper_exits \/ ContextEnds
    PROVE  StartInv'
  <1>1. UNCHANGED confVars /\ UNCHANGED byStart
    BY DEF vshelper_startup, vshelper_exits, ContextEnds, At
  <1>2. ConfInv'
    BY <1>1, ConfUnchanged DEF confVars, StartInv, ConfInv
  <1>3. UNCHANGED <<kern, mounts, disk, cpuset, busy, netOK>>
    BY DEF vshelper_startup, vshelper_exits, ContextEnds
  <1>4. LockInv'
    BY <1>1, <1>3, Zenon DEF StartInv, LockInv, confVars
  <1>5. inset' \in 0 .. MaxHelpers
    <2>1. inset \in 0 .. MaxHelpers
      BY DEF StartInv, PartsOK
    <2> QED
      BY <2>1 DEF vshelper_startup, vshelper_exits, ContextEnds, MaxHelpers
  <1>6. /\ pc' \in Places
        /\ pc' = pc \/ Place[pc'] = 0 \/ (Place[pc] = 15 /\ Place[pc'] = 16)
    BY DEF vshelper_startup, vshelper_exits, ContextEnds, At, Places, Place, StartInv, PartsOK
  <1> QED
    BY <1>1, <1>2, <1>3, <1>4, <1>5, <1>6, OnlyMoves DEF confVars

LEMMA Starts == ASSUME StartInv, Start PROVE StartInv'
  <1>1. /\ pc' = "network_interfaces" /\ Place[pc'] = 1 /\ pc' \in Places
    BY TheSteps DEF Start, Place, Places
  <1>2. locked' \in BOOLEAN /\ byStart' \in BOOLEAN /\ (byStart' => locked')
    BY Zenon DEF Start, StartInv, ConfInv
  <1>3. netOK' \in BOOLEAN /\ busy' \in BOOLEAN /\ touched' = {}
    BY Zenon DEF Start
  <1>4. LockInv'
    BY <1>2, <1>3, Zenon DEF LockInv
  <1>5. ConfInv'
    BY <1>2, <1>3, ConfUnchanged DEF Start, StartInv, ConfInv
  <1>6. KernOK'
    BY DEF Start, NewKern, Empty, KernOK
  <1>7. PartsOK'
    <2>1. mounts' = <<>> /\ UNCHANGED <<disk, cpuset, inset>>
      BY DEF Start
    <2> QED
      BY <1>1, <1>6, <2>1 DEF StartInv, PartsOK
  <1>8. MountsInv'
    BY <1>1 DEF Start, MountsInv
  <1>9. AppliedInv'
    <2>1. \A u \in Tables : StepOf[u] \in 1 .. 14
      BY TheTables DEF StepOf
    <2> QED
      BY <1>1, <2>1 DEF AppliedInv
  <1> QED
    BY <1>4, <1>5, <1>7, <1>8, <1>9 DEF StartInv

(* A table that a method changes is touched. *)
LEMMA Configures ==
    ASSUME StartInv, Configure, UNCHANGED startVars
    PROVE  StartInv'
  <1>1. /\ ConfInv' /\ ~locked /\ UNCHANGED locked /\ touched \subseteq touched'
        /\ \A t \in Tables : t \notin touched' => conf'[t] = conf[t]
    BY ConfStep DEF StartInv
  <1>2. UNCHANGED <<pc, byStart, netOK, kern, mounts, disk, cpuset, inset, busy>>
    BY DEF startVars
  <1>3. PartsOK'
    <2>1. KernOK'
      BY <1>2 DEF StartInv, PartsOK, KernOK
    <2> QED
      BY <1>2, <2>1 DEF StartInv, PartsOK
  <1>4. LockInv'
    BY <1>1, <1>2, Zenon DEF StartInv, LockInv
  <1>5. MountsInv'
    <2>1. "mount" \notin touched' => "mount" \notin touched /\ conf'["mount"] = conf["mount"]
      BY <1>1, TheTables
    <2> QED
      BY <1>2, <2>1 DEF StartInv, MountsInv
  <1>6. AppliedInv'
    <2> SUFFICES ASSUME NEW t \in Tables, t \notin touched', Place[pc'] > StepOf[t]
                 PROVE  Exact(t)'
      BY DEF AppliedInv
    <2>1. t \notin touched /\ Exact(t)
      BY <1>1, <1>2 DEF StartInv, AppliedInv
    <2>2. Kept(t)
      BY <1>1, <1>2 DEF Kept
    <2> QED
      BY <2>1, <2>2, ExactKept
  <1> QED
    BY <1>1, <1>3, <1>4, <1>5, <1>6 DEF StartInv

LEMMA Begins == Init => StartInv
  <1> SUFFICES ASSUME Init PROVE StartInv
    OBVIOUS
  <1>1. pc = "stopped" /\ Place[pc] = 0 /\ pc \in Places
    BY DEF Init, Place, Places
  <1>2. ConfInv
    BY ConfStart DEF Init
  <1>3. LockInv
    BY Zenon DEF Init, ConfInit, LockInv
  <1>4. KernOK
    BY DEF Init, NewKern, Empty, KernOK
  <1>5. PartsOK
    BY <1>1, <1>4 DEF Init, PartsOK, NoDisk, NoCpuset, MaxHelpers
  <1>6. MountsInv
    BY <1>1 DEF Init, MountsInv
  <1>7. AppliedInv
    <2>1. \A u \in Tables : StepOf[u] \in 1 .. 14
      BY TheTables DEF StepOf
    <2> QED
      BY <1>1, <2>1 DEF AppliedInv
  <1> QED
    BY <1>2, <1>3, <1>5, <1>6, <1>7 DEF StartInv

LEMMA Inductive == ASSUME StartInv, [Next]_vars PROVE StartInv'
  <1>1. CASE UNCHANGED vars
    <2>1. /\ UNCHANGED confVars
          /\ UNCHANGED <<pc, byStart, netOK, kern, mounts, disk, cpuset, inset, busy>>
      BY <1>1 DEF vars, startVars
    <2>2. ConfInv'
      BY <2>1, ConfUnchanged DEF confVars, StartInv, ConfInv
    <2>3. LockInv'
      BY <2>1, Zenon DEF StartInv, LockInv, confVars
    <2>4. inset' \in 0 .. MaxHelpers /\ pc' \in Places
      BY <2>1 DEF StartInv, PartsOK
    <2> QED
      BY <2>1, <2>2, <2>3, <2>4, OnlyMoves DEF confVars
  <1>2. CASE Next
    BY <1>2, Configures, Starts, Answers, HelperSteps, KernelMoves DEF Next
  <1> QED
    BY <1>1, <1>2

LEMMA Invariant == Spec => []StartInv
  <1>1. StartInv /\ [Next]_vars => StartInv'
    BY Inductive
  <1> QED
    BY <1>1, Begins, PTL DEF Spec

(* Every table has keys it allows, a stored limit fits into a word, and a  *)
(* start is at one of its steps: vcd never leaves the domain the model     *)
(* gives to the rows and to the kernel's state.                            *)
THEOREM TypeCorrect == Spec => []TypeOK
  <1>1. StartInv => TypeOK
    <2> SUFFICES ASSUME StartInv PROVE TypeOK
      OBVIOUS
    <2>1. ConfTypeOK
      BY ConfTypes DEF StartInv
    <2>2. DOMAIN kern = ContextTables /\ \A t \in ContextTables : DOMAIN kern[t] \subseteq Keys[t]
      BY DEF StartInv, PartsOK, KernOK
    <2>3. /\ pc \in Starting \cup {"stopped", "up", "failed"} /\ mounts \in Seq(Paths)
          /\ disk.state \in {"none", "added", "set"} /\ cpuset.state \in {"none", "dir", "set"}
          /\ inset \in 0 .. MaxHelpers
      BY DEF StartInv, PartsOK, Places
    <2>4. /\ byStart \in BOOLEAN /\ netOK \in BOOLEAN /\ busy \in BOOLEAN
          /\ byStart => locked
      BY Zenon DEF StartInv, LockInv
    <2> QED
      BY <2>1, <2>2, <2>3, <2>4, Zenon DEF TypeOK
  <1> QED
    BY <1>1, Invariant, PTL

(* vxdb.vx.limit.get never shows more than was asked for, and less than a  *)
(* page below it unless the product wrapped: for words, pages and requests *)
(* of any size, and whatever other requests came in between.               *)
THEOREM LimitsReadBack == Spec => []LimitReadBack
  <1>1. StartInv => LimitReadBack
    BY LimitsRead DEF StartInv
  <1> QED
    BY <1>1, Invariant, PTL

LEMMA StoredBelow ==
    ASSUME NEW type, NEW w \in Words
    PROVE  /\ Stored(type, w) \in Nat
           /\ Stored(type, w) * (IF type \in LIMTYPE THEN PAGE ELSE KB) <= w * KB
  <1>1. w \in Nat /\ KB \in Nat /\ PAGE \in Nat /\ WORD \in Nat
    BY SizesAssumption DEF Words
  <1>2. CASE type \in LIMTYPE
    <2>1. bytestopages(w) \in 0 .. WORD - 1 /\ bytestopages(w) * PAGE <= w * KB
      BY <1>1, Paged
    <2> QED
      BY <1>1, <1>2, <2>1 DEF Stored
  <1>3. CASE type \notin LIMTYPE
    <2>1. Stored(type, w) = w
      BY <1>3 DEF Stored
    <2>2. w * KB \in Nat
      BY <1>1
    <2> QED
      BY <1>1, <1>3, <2>1, <2>2
  <1> QED
    BY <1>2, <1>3

(* The correction of a hard limit below the soft one. *)
LEMMA CorrectedBelow ==
    ASSUME NEW x \in Nat, NEW y \in Nat, NEW a \in Nat, NEW b \in Nat,
           NEW u \in Nat, NEW k \in Nat \ {0}, x * u <= a * k, y * u <= b * k
    PROVE  x <= AtLeast(y, x) /\ AtLeast(y, x) * u <= AtLeast(b, a) * k
  <1> DEFINE c == AtLeast(b, a)
  <1>1. c \in Nat /\ a <= c /\ b <= c
    BY DEF AtLeast
  <1> HIDE DEF c
  <1>2. a * k <= c * k /\ b * k <= c * k
    BY <1>1, ProductOrder
  <1>3. x * u \in Nat /\ y * u \in Nat /\ a * k \in Nat /\ b * k \in Nat /\ c * k \in Nat
    BY <1>1
  <1>4. x * u <= c * k /\ y * u <= c * k
    BY <1>2, <1>3
  <1>5. AtLeast(y, x) \in {x, y} /\ x <= AtLeast(y, x)
    BY DEF AtLeast
  <1> QED
    BY <1>4, <1>5 DEF c

(* A running guest never has a limit above what was asked for, in spite of *)
(* the conversion to pages, the wrap and the correction of a hard limit,   *)
(* unless its table was changed after the start.                           *)
THEOREM LimitsNotAbove == Spec => []NoLimitAboveAsked
  <1>1. StartInv => NoLimitAboveAsked
    <2> SUFFICES ASSUME StartInv, pc = "up", "vx_limit" \notin touched,
                        NEW type \in DOMAIN kern["vx_limit"]
                 PROVE  LET lim == kern["vx_limit"][type]
                            unit == IF type \in LIMTYPE THEN PAGE ELSE KB
                        IN /\ lim.soft <= lim.max
                           /\ lim.soft * unit <= asked[type].soft * KB
                           /\ lim.max * unit <= AtLeast(asked[type].max, asked[type].soft) * KB
      BY DEF NoLimitAboveAsked
    <2>1. kern["vx_limit"] = Corrected
      <3>1. "vx_limit" \in Tables /\ Place["up"] > StepOf["vx_limit"]
        BY TheTables DEF Place, StepOf
      <3> QED
        BY <3>1 DEF StartInv, AppliedInv, Exact
    <2>2. type \in DOMAIN conf["vx_limit"] /\ type \in DOMAIN asked
      BY <2>1 DEF Corrected, StartInv, ConfInv, LimitsOK
    <2> DEFINE a == asked[type].soft
               b == asked[type].max
               x == Stored(type, a)
               y == Stored(type, b)
               unit == IF type \in LIMTYPE THEN PAGE ELSE KB
    <2>3. a \in Words /\ b \in Words /\ conf["vx_limit"][type] = [soft |-> x, max |-> y]
      BY <2>2, LimitOf, Zenon DEF StartInv
    <2>4. kern["vx_limit"][type].soft = x /\ kern["vx_limit"][type].max = AtLeast(y, x)
      <3> HIDE DEF x, y
      <3> QED
        BY <2>1, <2>2, <2>3 DEF Corrected
    <2>5. x \in Nat /\ x * unit <= a * KB /\ y \in Nat /\ y * unit <= b * KB
      BY <2>3, StoredBelow
    <2>6. /\ a \in Nat /\ b \in Nat /\ unit \in Nat /\ KB \in Nat \ {0}
      BY <2>3, SizesAssumption DEF Words
    <2> HIDE DEF a, b, x, y, unit
    <2>7. x <= AtLeast(y, x) /\ AtLeast(y, x) * unit <= AtLeast(b, a) * KB
      BY <2>5, <2>6, CorrectedBelow
    <2> QED
      BY <2>4, <2>5, <2>7 DEF a, b, unit
  <1> QED
    BY <1>1, Invariant, PTL

(* When init is executed, the contexts, the disk limit, the cpuset and the *)
(* mounts are what the tables say: all of them while vx.start holds the    *)
(* lock, and otherwise those that no method changed since the start began. *)
THEOREM ConfiguredWhenUp == Spec => InitAsConfigured
  <1> DEFINE Configured ==
                 pc = "exec" /\ pc' = "up" =>
                     \A t \in Tables : byStart \/ t \notin touched => AsConfigured(t)
  <1>1. StartInv => Configured
    <2> SUFFICES ASSUME StartInv, pc = "exec", NEW t \in Tables, byStart \/ t \notin touched
                 PROVE  AsConfigured(t)
      OBVIOUS
    <2>1. t \notin touched
      BY Zenon DEF StartInv, LockInv
    <2>2. Place[pc] > StepOf[t]
      BY TheTables DEF Place, StepOf
    <2> QED
      BY <2>1, <2>2 DEF StartInv, AppliedInv, Exact
  <1>2. StartInv /\ [Next]_vars => [Configured]_vars
    BY <1>1
  <1>3. Spec => [][Configured]_vars
    BY <1>2, Invariant, PTL DEF Spec
  <1> QED
    BY <1>3 DEF InitAsConfigured
=============================================================================
