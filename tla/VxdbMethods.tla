----------------------------- MODULE VxdbMethods -----------------------------
(***************************************************************************)
(* The methods vxdb.* on the configuration of a vserver: what each checks, *)
(* the one statement it executes, and its answer.                          *)
(*                                                                         *)
(* A method is an operator of c, the rows the vserver has in twelve tables *)
(* of the vxdb, and q, the structure of parameters.  A table is a function *)
(* from the column that is unique beside the xid to the rest of the row; a *)
(* table that is unique in the xid alone has one key.  The lock and the    *)
(* look-up of the xid are in the modules that call the methods.            *)
(***************************************************************************)
EXTENDS Wire

CONSTANTS Flags,      \* names of capabilities and of context flags
          LimitTypes, \* types of resource limits
          LIMTYPE,    \* those among them that are counted in pages
          NumCpus,    \* cpus that are online
          NumMems,    \* the last memory node, plus one
          Unames,     \* fields of struct utsname
          Paths,      \* absolute paths
          Addrs,      \* addresses and netmasks
          KB, PAGE,   \* 1024 and the page size
          WORD,       \* 2^64
          WORD32      \* 2^32

ASSUME SizesAssumption ==
    /\ KB \in Nat \ {0} /\ PAGE \in Nat \ {0} /\ PAGE % KB = 0
    /\ WORD \in Nat \ {0, 1} /\ WORD32 \in Nat \ {0, 1}
    /\ NumCpus \in Nat \ {0} /\ NumMems \in Nat \ {0}
    /\ LIMTYPE \subseteq LimitTypes

(* validate_addr refuses the empty string. *)
ASSUME AddrsAssumption == Blank \notin Addrs

(* The tables and the key of their rows. *)
Single == {"xid"}
Keys == [dx_limit     |-> Single,     init         |-> Single,
         nx_broadcast |-> Single,     vx_cpuset    |-> Single,
         mount        |-> Paths,      nx_addr      |-> Addrs,
         vx_bcaps     |-> Flags,      vx_ccaps     |-> Flags,
         vx_flags     |-> Flags,      vx_limit     |-> LimitTypes,
         vx_sched     |-> -1 .. NumCpus - 1,
         vx_uname     |-> Unames]
Tables == DOMAIN Keys

Empty == [k \in {} |-> {}]
NoRows == [t \in Tables |-> Empty]

-----------------------------------------------------------------------------
(* Statements *)

With(rows, k, row) ==
    [x \in DOMAIN rows \cup {k} |-> IF x = k THEN row ELSE rows[x]]
Without(rows, K) == [x \in DOMAIN rows \ K |-> rows[x]]

InsertOrReplace(c, t, k, row) == [c EXCEPT ![t] = With(@, k, row)]
Delete(c, t, K) == [c EXCEPT ![t] = Without(@, K)]

(* The optional argument of a get or remove method: one key, or all. *)
OneOrAll(c, t, k, all) == IF k = all THEN DOMAIN c[t] ELSE {k} \cap DOMAIN c[t]

(* What a method leaves behind: a fault and nothing changed, or the new    *)
(* rows and nil, or an answer.                                             *)
Refused(c, id) == [fault |-> id, next |-> c, answer |-> Nil]
Changed(c) == [fault |-> "none", next |-> c, answer |-> Nil]
Answered(c, v) == [fault |-> "none", next |-> c, answer |-> v]

(* The parameters are decomposed, then checked, then used. *)
Checked(c, q, format, valid, result) ==
    IF ~Decomposes(q, format) THEN Refused(c, "TYPE")
    ELSE IF ~valid THEN Refused(c, "MEINVAL") ELSE result

-----------------------------------------------------------------------------
(* Validation and conversion *)

(* The lists of lists.c are constants. *)
validate_bcap(f) == f \in Flags
validate_ccap(f) == f \in Flags
validate_cflag(f) == f \in Flags
validate_uname(u) == u \in Unames
validate_rlimit(type) == type \in LimitTypes

validate_path(p) == p \in Paths
validate_addr(a) == a \in Addrs
(* Of its length only whether it is zero matters here. *)
validate_uname_value(v) == v # Blank

(* A list of cpus or of memory nodes, cut down to lists of one element. *)
validate_cpuset(s, type) ==
    str_isdigit(s) /\ Numerals[s] < (IF type = 0 THEN NumCpus ELSE NumMems)

(* ~0 stands for no limit and ~1 for keeping the present one. *)
validate_rlimits(soft, max) == {soft, max} \cap {WORD - 1, WORD - 2} = {}

(* The names of the first two parameters are swapped there. *)
validate_dlimits(r) ==
    /\ r.reserved \in 1 .. 99
    /\ {r.space, r.inodes} \cap {WORD32 - 1, WORD32 - 2} = {}

(* Mutant: one cpu too many. *)
validate_cpuid_OffByOne(cpuid) == cpuid \in -1 .. NumCpus

validate_cpuid(cpuid) == cpuid \in -1 .. NumCpus - 1

validate_token_bucket(b) ==
    /\ b.fillrate >= 1 /\ b.interval >= 1 /\ b.tokensmax >= 1
    /\ b.interval2 > 0 => b.fillrate2 >= 1
    /\ b.fillrate2 > 0 => b.interval2 >= 1
    /\ b.interval >= b.fillrate /\ b.interval2 >= b.fillrate2
    /\ b.tokensmax >= b.fillrate /\ b.tokensmax >= b.fillrate2
    /\ b.tokensmin <= b.tokensmax

(* Mutant: the size of a page is forgotten. *)
bytestopages_InKB(kb) == (kb * KB) % WORD

(* In 64 bits, so that large values wrap. *)
bytestopages(kb) == ((kb * KB) % WORD) \div PAGE
pagestobytes(pages) == ((pages * PAGE) % WORD) \div KB

(* method_empty_params: an empty string stands for a missing parameter. *)
method_empty_params(v, default) == IF v = Blank THEN default ELSE v

-----------------------------------------------------------------------------
(* Resource limits.  Numbers travel as strings. *)

m_vxdb_vx_limit_set(c, q) ==
    LET p == Fields(q)
        soft == Numerals[p.soft]
        max == Numerals[p.max]
        Stored(n) == IF p.type \in LIMTYPE THEN bytestopages(n) ELSE n
    IN Checked(c, q, [name |-> "s", type |-> "s", soft |-> "s", max |-> "s"],
               /\ str_isdigit(p.soft) /\ str_isdigit(p.max)
               /\ validate_rlimit(p.type) /\ validate_rlimits(soft, max),
               Changed(InsertOrReplace(c, "vx_limit", p.type,
                          [soft |-> Stored(soft), max |-> Stored(max)])))

m_vxdb_vx_limit_remove(c, q) ==
    LET p == Fields(q) IN
    Checked(c, q, [name |-> "s", type |-> "s"],
            p.type # Blank => validate_rlimit(p.type),
            Changed(Delete(c, "vx_limit", OneOrAll(c, "vx_limit", p.type, Blank))))

(* A limit in the unit it was asked for. *)
ShownLimit(c, type) ==
    LET Shown(n) == IF type \in LIMTYPE THEN pagestobytes(n) ELSE n
    IN [soft |-> Shown(c.vx_limit[type].soft), max |-> Shown(c.vx_limit[type].max)]

m_vxdb_vx_limit_get(c, q) ==
    LET p == Fields(q)
        Item(type) == [type |-> S(type),
                       soft |-> S(ToString(ShownLimit(c, type).soft)),
                       max  |-> S(ToString(ShownLimit(c, type).max))]
    IN Checked(c, q, [name |-> "s", type |-> "s"],
               p.type # Blank => validate_rlimit(p.type),
               Answered(c, Array({Struct(Item(type)) :
                  type \in OneOrAll(c, "vx_limit", p.type, Blank)})))

-----------------------------------------------------------------------------
(* Disk limits *)

m_vxdb_dx_limit_set(c, q) ==
    LET p == Fields(q)
        row == [space |-> Numerals[p.space] % WORD32,
                inodes |-> Numerals[p.inodes] % WORD32, reserved |-> p.reserved]
    IN Checked(c, q, [name |-> "s", space |-> "s", inodes |-> "s", reserved |-> "i"],
               str_isdigit(p.space) /\ str_isdigit(p.inodes) /\ validate_dlimits(row),
               Changed(InsertOrReplace(c, "dx_limit", "xid", row)))

m_vxdb_dx_limit_remove(c, q) ==
    Checked(c, q, [name |-> "s"], TRUE, Changed(Delete(c, "dx_limit", Single)))

m_vxdb_dx_limit_get(c, q) ==
    LET r == c.dx_limit["xid"] IN
    Checked(c, q, [name |-> "s"], TRUE,
            Answered(c, Struct(
               IF DOMAIN c.dx_limit = {}
               THEN [space |-> S(Blank), inodes |-> S(Blank), reserved |-> I(0)]
               ELSE [space |-> S(ToString(r.space)),
                     inodes |-> S(ToString(r.inodes)), reserved |-> I(r.reserved)])))

-----------------------------------------------------------------------------
(* Token buckets.  A cpuid of -1 is a row of its own; -2 means all rows. *)

Bucket == {"fillrate", "interval", "fillrate2", "interval2", "tokensmin", "tokensmax"}

m_vxdb_vx_sched_set(c, q) ==
    LET p == Fields(q)
        b == [f \in Bucket |-> p[f]]
    IN Checked(c, q, [f \in Bucket \cup {"name", "cpuid"} |->
                         IF f = "name" THEN "s" ELSE "i"],
               validate_cpuid(p.cpuid) /\ validate_token_bucket(b),
               Changed(InsertOrReplace(c, "vx_sched", p.cpuid, b)))

m_vxdb_vx_sched_remove(c, q) ==
    LET p == Fields(q) IN
    Checked(c, q, [name |-> "s", cpuid |-> "i"],
            validate_cpuid(p.cpuid) \/ p.cpuid = -2,
            Changed(Delete(c, "vx_sched", OneOrAll(c, "vx_sched", p.cpuid, -2))))

m_vxdb_vx_sched_get(c, q) ==
    LET p == Fields(q)
        Item(cpuid) == [f \in Bucket \cup {"cpuid"} |->
                           I(IF f = "cpuid" THEN cpuid ELSE c.vx_sched[cpuid][f])]
    IN Checked(c, q, [name |-> "s", cpuid |-> "i"],
               validate_cpuid(p.cpuid) \/ p.cpuid = -2,
               Answered(c, Array({Struct(Item(cpuid)) :
                  cpuid \in OneOrAll(c, "vx_sched", p.cpuid, -2)})))

-----------------------------------------------------------------------------
(* Capabilities and flags *)

m_vxdb_vx_bcaps_add(c, q) ==
    LET p == Fields(q) IN
    Checked(c, q, [name |-> "s", bcap |-> "s"], validate_bcap(p.bcap),
            Changed(InsertOrReplace(c, "vx_bcaps", p.bcap, "set")))

m_vxdb_vx_bcaps_remove(c, q) ==
    LET p == Fields(q) IN
    Checked(c, q, [name |-> "s", bcap |-> "s"], p.bcap # Blank => validate_bcap(p.bcap),
            Changed(Delete(c, "vx_bcaps", OneOrAll(c, "vx_bcaps", p.bcap, Blank))))

m_vxdb_vx_bcaps_get(c, q) ==
    Checked(c, q, [name |-> "s"], TRUE,
            Answered(c, Array({S(f) : f \in DOMAIN c.vx_bcaps})))

m_vxdb_vx_ccaps_add(c, q) ==
    LET p == Fields(q) IN
    Checked(c, q, [name |-> "s", ccap |-> "s"], validate_ccap(p.ccap),
            Changed(InsertOrReplace(c, "vx_ccaps", p.ccap, "set")))

m_vxdb_vx_ccaps_remove(c, q) ==
    LET p == Fields(q) IN
    Checked(c, q, [name |-> "s", ccap |-> "s"], p.ccap # Blank => validate_ccap(p.ccap),
            Changed(Delete(c, "vx_ccaps", OneOrAll(c, "vx_ccaps", p.ccap, Blank))))

m_vxdb_vx_ccaps_get(c, q) ==
    Checked(c, q, [name |-> "s"], TRUE,
            Answered(c, Array({S(f) : f \in DOMAIN c.vx_ccaps})))

m_vxdb_vx_flags_add(c, q) ==
    LET p == Fields(q) IN
    Checked(c, q, [name |-> "s", flag |-> "s"], validate_cflag(p.flag),
            Changed(InsertOrReplace(c, "vx_flags", p.flag, "set")))

m_vxdb_vx_flags_remove(c, q) ==
    LET p == Fields(q) IN
    Checked(c, q, [name |-> "s", flag |-> "s"], p.flag # Blank => validate_cflag(p.flag),
            Changed(Delete(c, "vx_flags", OneOrAll(c, "vx_flags", p.flag, Blank))))

m_vxdb_vx_flags_get(c, q) ==
    Checked(c, q, [name |-> "s"], TRUE,
            Answered(c, Array({S(f) : f \in DOMAIN c.vx_flags})))

-----------------------------------------------------------------------------
(* The fields of uname, and the cpuset *)

m_vxdb_vx_uname_set(c, q) ==
    LET p == Fields(q) IN
    Checked(c, q, [name |-> "s", type |-> "s", value |-> "s"],
            validate_uname(p.type) /\ validate_uname_value(p.value),
            Changed(InsertOrReplace(c, "vx_uname", p.type, p.value)))

m_vxdb_vx_uname_remove(c, q) ==
    LET p == Fields(q) IN
    Checked(c, q, [name |-> "s", type |-> "s"], p.type # Blank => validate_uname(p.type),
            Changed(Delete(c, "vx_uname", OneOrAll(c, "vx_uname", p.type, Blank))))

m_vxdb_vx_uname_get(c, q) ==
    LET p == Fields(q) IN
    Checked(c, q, [name |-> "s", type |-> "s"], p.type # Blank => validate_uname(p.type),
            Answered(c, Array({Struct([type |-> S(u), value |-> S(c.vx_uname[u])]) :
               u \in OneOrAll(c, "vx_uname", p.type, Blank)})))

m_vxdb_vx_cpuset_set(c, q) ==
    LET p == Fields(q) IN
    Checked(c, q, [name |-> "s", cpus |-> "s", mems |-> "s", virtualize |-> "b"],
            validate_cpuset(p.cpus, 0) /\ validate_cpuset(p.mems, 1),
            Changed(InsertOrReplace(c, "vx_cpuset", "xid",
               [cpus |-> p.cpus, mems |-> p.mems, virtualize |-> p.virtualize])))

m_vxdb_vx_cpuset_remove(c, q) ==
    Checked(c, q, [name |-> "s"], TRUE, Changed(Delete(c, "vx_cpuset", Single)))

m_vxdb_vx_cpuset_get(c, q) ==
    LET r == IF DOMAIN c.vx_cpuset = {}
             THEN [cpus |-> Blank, mems |-> Blank, virtualize |-> 0] ELSE c.vx_cpuset["xid"]
    IN Checked(c, q, [name |-> "s"], TRUE,
               Answered(c, Struct([cpus |-> S(r.cpus), mems |-> S(r.mems),
                                   virtualize |-> I(r.virtualize)])))

-----------------------------------------------------------------------------
(* Mounts, network and init *)

m_vxdb_mount_set(c, q) ==
    LET p == Fields(q) IN
    Checked(c, q, [name |-> "s", src |-> "s", dst |-> "s", type |-> "s", opts |-> "s"],
            validate_path(p.dst) /\ ~(p.src = Blank /\ p.type = Blank),
            Changed(InsertOrReplace(c, "mount", p.dst,
               [src  |-> method_empty_params(p.src, "none"),
                type |-> method_empty_params(p.type, "auto"),
                opts |-> method_empty_params(p.opts, "defaults")])))

m_vxdb_mount_remove(c, q) ==
    LET p == Fields(q) IN
    Checked(c, q, [name |-> "s", dst |-> "s"], p.dst # Blank => validate_path(p.dst),
            Changed(Delete(c, "mount", OneOrAll(c, "mount", p.dst, Blank))))

m_vxdb_mount_get(c, q) ==
    LET p == Fields(q)
        Item(d) == [src  |-> S(c.mount[d].src),  dst  |-> S(d),
                    type |-> S(c.mount[d].type), opts |-> S(c.mount[d].opts)]
    IN Checked(c, q, [name |-> "s", dst |-> "s"], p.dst # Blank => validate_path(p.dst),
               Answered(c, Array({Struct(Item(d)) : d \in OneOrAll(c, "mount", p.dst, Blank)})))

m_vxdb_nx_addr_set(c, q) ==
    LET p == Fields(q) IN
    Checked(c, q, [name |-> "s", addr |-> "s", netmask |-> "s"],
            validate_addr(p.addr) /\ (p.netmask # Blank => validate_addr(p.netmask)),
            Changed(InsertOrReplace(c, "nx_addr", p.addr,
               method_empty_params(p.netmask, "255.255.255.255"))))

m_vxdb_nx_addr_remove(c, q) ==
    LET p == Fields(q) IN
    Checked(c, q, [name |-> "s", addr |-> "s"], p.addr # Blank => validate_addr(p.addr),
            Changed(Delete(c, "nx_addr", OneOrAll(c, "nx_addr", p.addr, Blank))))

m_vxdb_nx_addr_get(c, q) ==
    LET p == Fields(q) IN
    Checked(c, q, [name |-> "s", addr |-> "s"], p.addr # Blank => validate_addr(p.addr),
            Answered(c, Array({Struct([addr |-> S(a), netmask |-> S(c.nx_addr[a])]) :
               a \in OneOrAll(c, "nx_addr", p.addr, Blank)})))

m_vxdb_nx_broadcast_set(c, q) ==
    LET p == Fields(q) IN
    Checked(c, q, [name |-> "s", broadcast |-> "s"], validate_addr(p.broadcast),
            Changed(InsertOrReplace(c, "nx_broadcast", "xid", p.broadcast)))

m_vxdb_nx_broadcast_remove(c, q) ==
    Checked(c, q, [name |-> "s"], TRUE, Changed(Delete(c, "nx_broadcast", Single)))

m_vxdb_nx_broadcast_get(c, q) ==
    Checked(c, q, [name |-> "s"], TRUE,
            Answered(c, S(IF DOMAIN c.nx_broadcast = {} THEN Blank
                          ELSE c.nx_broadcast["xid"])))

(* There is no method that removes the row. *)
m_vxdb_init_set(c, q) ==
    LET p == Fields(q)
        row == [init    |-> method_empty_params(p.init, "/sbin/init"),
                halt    |-> method_empty_params(p.halt, "/sbin/halt"),
                reboot  |-> method_empty_params(p.reboot, "/sbin/reboot"),
                timeout |-> p.timeout]
    IN Checked(c, q, [name |-> "s", init |-> "s", halt |-> "s", reboot |-> "s",
                      timeout |-> "i"],
               {row.init, row.halt, row.reboot} \subseteq Paths,
               Changed(InsertOrReplace(c, "init", "xid", row)))

m_vxdb_init_get(c, q) ==
    LET r == IF DOMAIN c.init # {} THEN c.init["xid"]
             ELSE [init |-> "/sbin/init", halt |-> "/sbin/halt",
                   reboot |-> "/sbin/reboot", timeout |-> 15]
    IN Checked(c, q, [name |-> "s"], TRUE,
               Answered(c, Struct([init |-> S(r.init), halt |-> S(r.halt),
                                   reboot |-> S(r.reboot), timeout |-> I(r.timeout)])))
-----------------------------------------------------------------------------
(* The configuration methods by the capability they need. *)
ConfMethods ==
    [DLIM  |-> {"vxdb.dx.limit.get", "vxdb.dx.limit.remove", "vxdb.dx.limit.set"},
     INIT  |-> {"vxdb.init.get", "vxdb.init.set"},
     MOUNT |-> {"vxdb.mount.get", "vxdb.mount.remove", "vxdb.mount.set"},
     NET   |-> {"vxdb.nx.addr.get", "vxdb.nx.addr.remove", "vxdb.nx.addr.set",
                "vxdb.nx.broadcast.get", "vxdb.nx.broadcast.remove", "vxdb.nx.broadcast.set"},
     BCAP  |-> {"vxdb.vx.bcaps.get", "vxdb.vx.bcaps.remove", "vxdb.vx.bcaps.add"},
     CCAP  |-> {"vxdb.vx.ccaps.get", "vxdb.vx.ccaps.remove", "vxdb.vx.ccaps.add"},
     CFLAG |-> {"vxdb.vx.flags.get", "vxdb.vx.flags.remove", "vxdb.vx.flags.add"},
     RLIM  |-> {"vxdb.vx.limit.get", "vxdb.vx.limit.remove", "vxdb.vx.limit.set"},
     SCHED |-> {"vxdb.vx.sched.get", "vxdb.vx.sched.remove", "vxdb.vx.sched.set",
                "vxdb.vx.cpuset.get", "vxdb.vx.cpuset.remove", "vxdb.vx.cpuset.set"},
     UNAME |-> {"vxdb.vx.uname.get", "vxdb.vx.uname.remove", "vxdb.vx.uname.set"}]

IsConf(m) == \E cap \in DOMAIN ConfMethods : m \in ConfMethods[cap]

(* method_registry_init: the name of a method and its function. *)
ConfMethod(m, c, q) ==
    CASE m = "vxdb.dx.limit.get"        -> m_vxdb_dx_limit_get(c, q)
      [] m = "vxdb.dx.limit.remove"     -> m_vxdb_dx_limit_remove(c, q)
      [] m = "vxdb.dx.limit.set"        -> m_vxdb_dx_limit_set(c, q)
      [] m = "vxdb.init.get"            -> m_vxdb_init_get(c, q)
      [] m = "vxdb.init.set"            -> m_vxdb_init_set(c, q)
      [] m = "vxdb.mount.get"           -> m_vxdb_mount_get(c, q)
      [] m = "vxdb.mount.remove"        -> m_vxdb_mount_remove(c, q)
      [] m = "vxdb.mount.set"           -> m_vxdb_mount_set(c, q)
      [] m = "vxdb.nx.addr.get"         -> m_vxdb_nx_addr_get(c, q)
      [] m = "vxdb.nx.addr.remove"      -> m_vxdb_nx_addr_remove(c, q)
      [] m = "vxdb.nx.addr.set"         -> m_vxdb_nx_addr_set(c, q)
      [] m = "vxdb.nx.broadcast.get"    -> m_vxdb_nx_broadcast_get(c, q)
      [] m = "vxdb.nx.broadcast.remove" -> m_vxdb_nx_broadcast_remove(c, q)
      [] m = "vxdb.nx.broadcast.set"    -> m_vxdb_nx_broadcast_set(c, q)
      [] m = "vxdb.vx.bcaps.add"        -> m_vxdb_vx_bcaps_add(c, q)
      [] m = "vxdb.vx.bcaps.get"        -> m_vxdb_vx_bcaps_get(c, q)
      [] m = "vxdb.vx.bcaps.remove"     -> m_vxdb_vx_bcaps_remove(c, q)
      [] m = "vxdb.vx.ccaps.add"        -> m_vxdb_vx_ccaps_add(c, q)
      [] m = "vxdb.vx.ccaps.get"        -> m_vxdb_vx_ccaps_get(c, q)
      [] m = "vxdb.vx.ccaps.remove"     -> m_vxdb_vx_ccaps_remove(c, q)
      [] m = "vxdb.vx.cpuset.get"       -> m_vxdb_vx_cpuset_get(c, q)
      [] m = "vxdb.vx.cpuset.remove"    -> m_vxdb_vx_cpuset_remove(c, q)
      [] m = "vxdb.vx.cpuset.set"       -> m_vxdb_vx_cpuset_set(c, q)
      [] m = "vxdb.vx.flags.add"        -> m_vxdb_vx_flags_add(c, q)
      [] m = "vxdb.vx.flags.get"        -> m_vxdb_vx_flags_get(c, q)
      [] m = "vxdb.vx.flags.remove"     -> m_vxdb_vx_flags_remove(c, q)
      [] m = "vxdb.vx.limit.get"        -> m_vxdb_vx_limit_get(c, q)
      [] m = "vxdb.vx.limit.remove"     -> m_vxdb_vx_limit_remove(c, q)
      [] m = "vxdb.vx.limit.set"        -> m_vxdb_vx_limit_set(c, q)
      [] m = "vxdb.vx.sched.get"        -> m_vxdb_vx_sched_get(c, q)
      [] m = "vxdb.vx.sched.remove"     -> m_vxdb_vx_sched_remove(c, q)
      [] m = "vxdb.vx.sched.set"        -> m_vxdb_vx_sched_set(c, q)
      [] m = "vxdb.vx.uname.get"        -> m_vxdb_vx_uname_get(c, q)
      [] m = "vxdb.vx.uname.remove"     -> m_vxdb_vx_uname_remove(c, q)
      [] m = "vxdb.vx.uname.set"        -> m_vxdb_vx_uname_set(c, q)
=============================================================================
