----------------------------- MODULE VcdMethods -----------------------------
(***************************************************************************)
(* The methods vcd.*, vg.*, vx.* and those of vxdb.* that are not about    *)
(* the configuration of one vserver: what each checks, in its order, what  *)
(* it changes and what it answers.                                         *)
(*                                                                         *)
(* A method is an operator of d, what is in the vxdb and the kernel, and   *)
(* q, the structure of parameters.  The statements of the methods that     *)
(* change users, groups and the registry are single steps in Accounts and  *)
(* VxRegistry; here each such method is one step.                          *)
(*                                                                         *)
(*   d.xid, d.vdir, d.conf    xid of a name; vdir and rows of an xid       *)
(*   d.uid, d.pass, d.admin   uid and password of a user; who is admin     *)
(*   d.caps, d.owner          pairs <<uid, cap>> and <<xid, uid>>          *)
(*   d.gid, d.member          gid of a group; pairs <<xid, gid>>           *)
(*   d.up                     xids whose context exists                    *)
(***************************************************************************)
EXTENDS VxdbMethods, FiniteSetsExt

CONSTANTS Names, Usernames, Groups, Passwords,  \* the strings that are valid
          VCD_CAPS,       \* names of vcd_caps_list
          Xids,           \* context ids
          vbasedir,       \* vbasedir[name]: the default vdir of a name
          Templates       \* directory and configuration of each template

(* xids are 2 and up; an empty name is none.  What vx.create mounts if a   *)
(* template says nothing has absolute paths.                               *)
ASSUME RegistryAssumption ==
    /\ Max(Xids) \in Nat \ {0, 1} /\ Xids = 2 .. Max(Xids)
    /\ Names \subseteq DOMAIN vbasedir /\ "" \notin Names
    /\ {"/proc", "/dev/pts"} \subseteq Paths

(* Beside "all", which is every vserver and has no row. *)
validate_name(n) == n \in Names
validate_username(u) == u \in Usernames
validate_group(g) == g \in Groups \cup {"all"}
validate_password(p) == p \in Passwords
validate_vcd_cap(cap) == cap \in VCD_CAPS

-----------------------------------------------------------------------------
(* Look-ups.  Zero stands for no row. *)

auth_getuid(d, u) == IF u \in DOMAIN d.uid THEN d.uid[u] ELSE 0
vxdb_getxid(d, n) == IF n \in DOMAIN d.xid THEN d.xid[n] ELSE 0
vxdb_getgid(d, g) == IF g \in DOMAIN d.gid THEN d.gid[g] ELSE 0

(* Mutant: the row is not asked for. *)
vxdb_getvdir_Default(d, n) == vbasedir[n]

(* Without a vserver or a row the directory below vbasedir. *)
vxdb_getvdir(d, n) ==
    LET xid == vxdb_getxid(d, n) IN
    IF xid \in DOMAIN d.vdir THEN d.vdir[xid] ELSE vbasedir[n]

NamesOf(d, X) == {n \in DOMAIN d.xid : d.xid[n] \in X}
Texts(T) == Array({S(t) : t \in T})

auth_isvalid(d, u, pass) == u \in DOMAIN d.uid /\ d.pass[u] = pass
auth_isadmin(d, u) == u \in d.admin
auth_capable(d, u, cap) == cap \in VCD_CAPS => <<auth_getuid(d, u), cap>> \in d.caps
auth_isowner(d, u, n) ==
    /\ u \in DOMAIN d.uid
    /\ auth_isadmin(d, u) \/ <<vxdb_getxid(d, n), d.uid[u]>> \in d.owner

(* A method that needs the vserver it names. *)
Named(d, q, format, result) ==
    Checked(d, q, format, TRUE,
            IF vxdb_getxid(d, q.name[2]) = 0 THEN Refused(d, "MENOVPS") ELSE result)

(* A method that also needs it to run. *)
Running(d, q, format, result) ==
    Named(d, q, format,
          IF d.xid[q.name[2]] \in d.up THEN result ELSE Refused(d, "MESTOPPED"))

-----------------------------------------------------------------------------
(* Names, directories and owners *)

m_vxdb_xid_get(d, q) ==
    Named(d, q, [name |-> "s"], Answered(d, I(d.xid[q.name[2]])))

m_vxdb_name_get(d, q) ==
    LET names == NamesOf(d, {q.xid[2]}) IN
    Checked(d, q, [xid |-> "i"], TRUE,
            IF names = {} THEN Refused(d, "MENOVPS")
            ELSE Answered(d, S(CHOOSE n \in names : TRUE)))

m_vxdb_vdir_get(d, q) ==
    Named(d, q, [name |-> "s"], Answered(d, S(vxdb_getvdir(d, q.name[2]))))

m_vxdb_owner_get(d, q) ==
    Named(d, q, [name |-> "s"],
          Answered(d, Texts({u \in DOMAIN d.uid :
                                <<d.xid[q.name[2]], d.uid[u]>> \in d.owner})))

m_vxdb_owner_add(d, q) ==
    LET uid == auth_getuid(d, q.username[2]) IN
    Checked(d, q, [name |-> "s", username |-> "s"], TRUE,
            IF uid = 0 THEN Refused(d, "MENOUSER")
            ELSE Named(d, q, [name |-> "s"],
                       Changed([d EXCEPT !.owner = @ \cup {<<d.xid[q.name[2]], uid>>}])))

(* Without a user all owners of the vserver. *)
m_vxdb_owner_remove(d, q) ==
    LET user == q.username[2]
        uid == auth_getuid(d, user)
        Mine(o) == o[1] = d.xid[q.name[2]] /\ (user = Blank \/ o[2] = uid)
    IN Named(d, q, [name |-> "s", username |-> "s"],
             IF user # Blank /\ uid = 0 THEN Refused(d, "MENOUSER")
             ELSE Changed([d EXCEPT !.owner = {o \in @ : ~Mine(o)}]))

(* The vservers of a user, for an admin those of any user.  A uid of zero  *)
(* means all of them, also when the user has just been removed.            *)
m_vxdb_list(d, q, curuser) ==
    LET user == q.username[2]
        foreign == ~auth_isadmin(d, curuser) /\ user \notin {Blank, curuser}
        uid == IF auth_isadmin(d, curuser) THEN auth_getuid(d, user)
               ELSE auth_getuid(d, curuser)
        names == IF uid = 0 THEN DOMAIN d.xid
                 ELSE NamesOf(d, {x \in Xids : <<x, uid>> \in d.owner})
    IN Checked(d, q, [username |-> "s"], user # Blank => validate_username(user),
               IF foreign THEN Refused(d, "MEPERM")
               ELSE IF names = {} THEN Refused(d, "MENOVPS")
               ELSE Answered(d, Texts(names)))

-----------------------------------------------------------------------------
(* The daemon and its users *)

(* The second argument of these three is a string nobody looks at. *)
m_vcd_login(d) == Answered(d, Nil)
m_vcd_hostinfo(d) ==
    Answered(d, Struct([vbasedir |-> S("vbasedir"), cpus |-> I(NumCpus),
                        memnodes |-> I(NumMems)]))
(* The daemon has inserted the row when it came up; counters are any. *)
m_vcd_status(d, count) ==
    Answered(d, Struct([uptime |-> I(count), requests |-> I(count),
                        flogins |-> I(count), nomethod |-> I(count)]))

m_vcd_user_get(d, q) ==
    LET user == q.username[2]
        users == IF user = Blank THEN DOMAIN d.uid ELSE {user} \cap DOMAIN d.uid
        Item(u) == [username |-> S(u), uid |-> I(d.uid[u]),
                    admin |-> I(IF u \in d.admin THEN 1 ELSE 0)]
    IN Checked(d, q, [username |-> "s"], user # Blank => validate_username(user),
               Answered(d, Array({Struct(Item(u)) : u \in users})))

(* Of an existing user the admin flag is changed first, then the password, *)
(* if there is one and it is valid.                                        *)
m_vcd_user_set(d, q) ==
    LET p == Fields(q)
        admin == IF p.admin = 1 THEN d.admin \cup {p.username}
                 ELSE d.admin \ {p.username}
        uid == Max({0} \cup {d.uid[u] : u \in DOMAIN d.uid}) + 1
        flagged == [d EXCEPT !.admin = admin]
        Password(e) == [e EXCEPT !.pass = With(@, p.username, p.password)]
    IN Checked(d, q, [username |-> "s", password |-> "s", admin |-> "b"],
               validate_username(p.username),
               IF p.username \in DOMAIN d.uid
               THEN IF p.password = Blank THEN Changed(flagged)
                    ELSE IF ~validate_password(p.password) THEN Refused(flagged, "MEINVAL")
                    ELSE Changed(Password(flagged))
               ELSE IF ~validate_password(p.password) THEN Refused(d, "MEINVAL")
                    ELSE Changed(Password([flagged EXCEPT
                            !.uid = With(@, p.username, uid)])))

(* A method that needs the user it names. *)
OfUser(d, q, format, valid, result) ==
    Checked(d, q, format, valid,
            IF auth_getuid(d, q.username[2]) = 0 THEN Refused(d, "MENOUSER") ELSE result)

m_vcd_user_remove(d, q) ==
    LET user == q.username[2]
        uid == auth_getuid(d, user)
    IN OfUser(d, q, [username |-> "s"], TRUE,
              Changed([d EXCEPT !.uid = Without(@, {user}), !.pass = Without(@, {user}),
                                !.admin = @ \ {user},
                                !.caps = {c \in @ : c[1] # uid},
                                !.owner = {o \in @ : o[2] # uid}]))

m_vcd_user_caps_add(d, q) ==
    OfUser(d, q, [username |-> "s", cap |-> "s"], validate_vcd_cap(q.cap[2]),
           Changed([d EXCEPT !.caps = @ \cup {<<auth_getuid(d, q.username[2]), q.cap[2]>>}]))

m_vcd_user_caps_remove(d, q) ==
    LET uid == auth_getuid(d, q.username[2]) IN
    OfUser(d, q, [username |-> "s", cap |-> "s"],
           q.cap[2] # Blank => validate_vcd_cap(q.cap[2]),
           Changed([d EXCEPT !.caps = {c \in @ : c[1] = uid => q.cap[2] \notin {Blank, c[2]}}]))

m_vcd_user_caps_get(d, q) ==
    OfUser(d, q, [username |-> "s"], TRUE,
           Answered(d, Texts({cap \in VCD_CAPS :
                                 <<auth_getuid(d, q.username[2]), cap>> \in d.caps})))

-----------------------------------------------------------------------------
(* Groups *)

m_vg_list(d, q) ==
    LET group == q.group[2]
        gid == vxdb_getgid(d, group)
    IN Checked(d, q, [group |-> "s"], group \in Groups \cup {Blank},
               IF group = Blank THEN Answered(d, Texts(DOMAIN d.gid))
               ELSE IF gid = 0 THEN Refused(d, "MENOVG")
               ELSE Answered(d, Texts(NamesOf(d, {x \in Xids : <<x, gid>> \in d.member}))))

(* A group that did not exist stays, whatever is wrong with the name; a    *)
(* vserver that is in it already violates a unique index.                  *)
m_vg_add(d, q) ==
    LET p == Fields(q)
        gid == IF p.group \in DOMAIN d.gid THEN d.gid[p.group]
               ELSE Max({0} \cup {d.gid[g] : g \in DOMAIN d.gid}) + 1
        grouped == [d EXCEPT !.gid = With(@, p.group, gid)]
        row == <<vxdb_getxid(d, p.name), gid>>
    IN Checked(d, q, [group |-> "s", name |-> "s"], validate_group(p.group),
               IF p.group = "all" THEN Changed(d)
               ELSE IF p.name = Blank THEN Changed(grouped)
               ELSE IF ~validate_name(p.name) THEN Refused(grouped, "MEINVAL")
               ELSE IF row[1] = 0 THEN Refused(grouped, "MENOVPS")
               ELSE IF row \in d.member THEN Refused(grouped, "MEVXDB")
               ELSE Changed([grouped EXCEPT !.member = @ \cup {row}]))

m_vg_remove(d, q) ==
    LET p == Fields(q)
        gid == vxdb_getgid(d, p.group)
        xid == vxdb_getxid(d, p.name)
    IN Checked(d, q, [group |-> "s", name |-> "s"], p.group \in Groups,
               IF gid = 0 THEN Refused(d, "MENOVG")
               ELSE IF p.name = Blank
                    THEN Changed([d EXCEPT !.gid = Without(@, {p.group}),
                                           !.member = {r \in @ : r[2] # gid}])
               ELSE IF ~validate_name(p.name) THEN Refused(d, "MEINVAL")
               ELSE IF xid = 0 THEN Refused(d, "MENOVPS")
               ELSE Changed([d EXCEPT !.member = @ \ {<<xid, gid>>}]))

(* vg_list_init: xid and name of each vserver of a group. *)
vg_list_init(d, q) ==
    LET group == q.group[2]
        gid == vxdb_getgid(d, group)
        names == IF group = "all" THEN DOMAIN d.xid
                 ELSE {n \in DOMAIN d.xid : <<d.xid[n], gid>> \in d.member}
    IN Checked(d, q, [group |-> "s"], validate_group(group),
               IF group # "all" /\ gid = 0 THEN Refused(d, "MENOVG")
               ELSE Answered(d, {[xid |-> d.xid[n], name |-> n] : n \in names}))

-----------------------------------------------------------------------------
(* What the kernel says of a vserver.  Counters are any numbers; so are    *)
(* those of a call that fails in the loops, whose buffer is uninitialised. *)

(* The context may be gone when vx_stat asks; the loads are then null      *)
(* pointers, and building the answer ends the process.                     *)
m_vx_status(d, q, statted, n) ==
    LET up == d.xid[q.name[2]] \in d.up
        Status(running, m, load) ==
            [running |-> I(running), thr_total |-> I(m), thr_running |-> I(m),
             thr_unintr |-> I(m), thr_onhold |-> I(m), forks_total |-> I(m), uptime |-> I(m),
             load1m |-> S(load), load5m |-> S(load), load15m |-> S(load)]
    IN Named(d, q, [name |-> "s"],
             IF ~up THEN Answered(d, Struct(Status(0, 0, "0")))
             ELSE IF ~statted THEN Refused(d, "LOST")
             ELSE Answered(d, Struct(Status(1, n, "load"))))

m_vx_limstatus(d, q, n) ==
    LET Value(type) == S(ToString(IF type \in LIMTYPE THEN pagestobytes(n) ELSE n)) IN
    Running(d, q, [name |-> "s"],
            Answered(d, Array({Struct([type |-> S(type), min |-> Value(type),
                                       cur |-> Value(type), max |-> Value(type)]) :
                                 type \in LimitTypes})))

NET == {"net_UNSPEC", "net_UNIX", "net_INET", "net_INET6", "net_PACKET", "net_OTHER"}

m_vx_netstatus(d, q, n) ==
    Running(d, q, [name |-> "s"],
            Answered(d, Array({Struct([type |-> S(type),
                  recvp |-> S(ToString(n)), recvb |-> S(ToString(n)),
                  sendp |-> S(ToString(n)), sendb |-> S(ToString(n)),
                  failp |-> S(ToString(n)), failb |-> S(ToString(n))]) : type \in NET})))

template_description(t) ==
    IF ~Templates[t].parses THEN "(parse error in configuration)"
    ELSE method_empty_params(Templates[t].description, "(none)")

m_vx_templates(d, q) ==
    Checked(d, q, [name |-> "s"], TRUE,
            Answered(d, Array({Struct([name |-> S(t), description |-> S(template_description(t))]) :
               t \in {t \in DOMAIN Templates : q.name[2] \in {Blank, t}}})))

-----------------------------------------------------------------------------
(* Starting, stopping, signalling.  r is what the kernel or the guest does *)
(* with the call; VxLifecycle has the steps.                               *)

(* Even a start whose child failed answers nil. *)
m_vx_start(d, q, r) ==
    LET xid == d.xid[q.name[2]] IN
    Named(d, q, [name |-> "s"],
          IF xid \in d.up THEN Refused(d, "MERUNNING")
          ELSE IF r = "unborn" THEN Changed(d)
          ELSE Changed([d EXCEPT !.up = @ \cup {xid}]))

(* The process enters the vserver and stays there; the command's exit      *)
(* status is added to the id of the fault.                                 *)
m_vx_exec(d, q, r) ==
    Running(d, q, [name |-> "s", command |-> "s"],
            IF r = "failed" THEN Refused(d, "MEEXEC")
            ELSE IF r = "sys" THEN Refused(d, "MESYS")
            ELSE Answered(d, S("output")))

m_vx_stop(d, q, r) ==
    LET halted == m_vx_exec(d, [name |-> q.name, command |-> S("halt")], r) IN
    Running(d, q, [name |-> "s"],
            IF halted.fault # "none" THEN halted
            ELSE IF r = "timeout" THEN Refused(d, "MEBUSY")
            ELSE Changed([d EXCEPT !.up = @ \ {d.xid[q.name[2]]}]))

m_vx_restart(d, q, r) ==
    LET stopped == m_vx_stop(d, q, r) IN
    IF stopped.fault # "none" THEN stopped ELSE m_vx_start(stopped.next, q, r)

m_vx_reboot(d, q, r) ==
    Running(d, q, [name |-> "s"],
            m_vx_exec(d, [name |-> q.name, command |-> S("reboot")], r))

m_vx_kill(d, q, r) ==
    Running(d, q, [name |-> "s", pid |-> "i", sig |-> "i"],
            IF r = "sys" THEN Refused(d, "MESYS") ELSE Changed(d))

-----------------------------------------------------------------------------
(* The registry *)

(* Checks in their order: the first that applies is the fault. *)
FirstOf(d, checks, result) ==
    LET bad == {i \in DOMAIN checks : checks[i][1]} IN
    IF bad = {} THEN result ELSE Refused(d, checks[Min(bad)][2])

(* The rows a template's configuration asks for.  The tables are emptied   *)
(* before, but for vx_cpuset.                                              *)
create_vxdb_entries(c, t) ==
    LET DefaultMount(type) == [src |-> "none", type |-> type, opts |-> "defaults"] IN
    [NoRows EXCEPT
        !.vx_cpuset = c.vx_cpuset,
        !.init = [k \in Single |-> [init |-> t.init, halt |-> t.halt, reboot |-> t.reboot,
                                    timeout |-> IF t.timeout < 0 THEN 0 ELSE t.timeout]],
        !.mount = IF t.mount # Empty THEN t.mount
                  ELSE [dst \in {"/proc", "/dev/pts"} |->
                           DefaultMount(IF dst = "/proc" THEN "proc" ELSE "devpts")],
        !.vx_bcaps = [f \in t.vx_bcaps |-> "set"],
        !.vx_ccaps = [f \in t.vx_ccaps |-> "set"],
        !.vx_flags = [f \in t.vx_flags |-> "set"]]

ValidTemplate(t) ==
    /\ t.parses
    /\ {t.init, t.halt, t.reboot} \cup DOMAIN t.mount \subseteq Paths
    /\ t.vx_bcaps \cup t.vx_ccaps \cup t.vx_flags \subseteq Flags

(* The maximum plus one; a gap when that is beyond the last; 0 for none. *)
find_free_xid(d) ==
    LET used == {d.xid[n] : n \in DOMAIN d.xid}
        free == IF used = {} THEN {2}
                ELSE IF Max(used) < Max(Xids) THEN {Max(used) + 1} ELSE Xids \ used
    IN IF free = {} THEN 0 ELSE Min(free)

m_vx_create(d, q, user) ==
    LET p == Fields(q)
        old == vxdb_getxid(d, p.name)
        xid == IF old # 0 THEN old ELSE find_free_xid(d)
        vdir == IF p.vdir = Blank \/ ~auth_isadmin(d, user) THEN vxdb_getvdir(d, p.name)
                ELSE p.vdir
        t == Templates[p.template]
    IN Checked(d, q, [name |-> "s", template |-> "s", force |-> "b", copy |-> "b",
                      vdir |-> "s"],
               p.template \in DOMAIN Templates,
               FirstOf(d, << <<old # 0 /\ ~auth_isowner(d, user, p.name), "MENOVPS">>,
                             <<old # 0 /\ p.force = 0, "MEEXIST">>,
                             <<old \in d.up, "MERUNNING">>,
                             <<old = 0 /\ ~auth_isadmin(d, user), "MEPERM">>,
                             <<~validate_path(vdir), "MEINVAL">>,
                             <<p.force = 0 /\ \E x \in DOMAIN d.vdir : d.vdir[x] = vdir,
                               "MEEXIST">>,
                             <<xid = 0, "MEVXDB">>,
                             <<~ValidTemplate(t), "MECONF">> >>,
                       Changed([d EXCEPT !.xid = With(@, p.name, xid),
                                         !.vdir = With(@, xid, vdir),
                                         !.conf[xid] = create_vxdb_entries(@, t)])))

m_vx_remove(d, q) ==
    LET xid == d.xid[q.name[2]] IN
    Named(d, q, [name |-> "s"],
          IF xid \in d.up THEN Refused(d, "MERUNNING")
          ELSE Changed([d EXCEPT !.xid = Without(@, {q.name[2]}),
                                 !.vdir = Without(@, {xid}),
                                 !.conf[xid] = [NoRows EXCEPT !.vx_cpuset = d.conf[xid].vx_cpuset],
                                 !.member = {r \in @ : r[1] # xid},
                                 !.owner = {r \in @ : r[1] # xid}]))

m_vx_rename(d, q) ==
    LET p == Fields(q) IN
    Checked(d, q, [name |-> "s", newname |-> "s"], validate_name(p.newname),
            IF vxdb_getxid(d, p.newname) # 0 THEN Refused(d, "MEEXIST")
            ELSE Named(d, q, [name |-> "s"],
                       Changed([d EXCEPT !.xid = With(Without(@, {p.name}), p.newname, @[p.name])])))

-----------------------------------------------------------------------------
(* The registry of methods, and what each asks method_init for *)

(* The others. *)
OtherMethods ==
    [AUTH   |-> {"vcd.user.caps.add", "vcd.user.caps.get", "vcd.user.caps.remove",
                 "vcd.user.get", "vcd.user.remove", "vcd.user.set",
                 "vg.add", "vg.list", "vg.remove", "vxdb.owner.add", "vxdb.owner.get",
                 "vxdb.owner.remove"},
     INFO   |-> {"vcd.hostinfo", "vcd.status", "vxdb.list", "vxdb.name.get", "vxdb.vdir.get",
                 "vxdb.xid.get", "vx.status", "vx.limstatus", "vx.netstatus"},
     INIT   |-> {"vg.vx.reboot", "vg.vx.restart", "vg.vx.start", "vg.vx.stop", "vx.kill",
                 "vx.reboot", "vx.restart", "vx.start", "vx.stop"},
     CREATE |-> {"vx.create", "vx.remove", "vx.rename", "vx.templates"},
     EXEC   |-> {"vx.exec"}]

(* All but those that vshelper calls, helper.*, see VxLifecycle.           *)
Methods ==
    {"vcd.login"} \cup (UNION {ConfMethods[cap] : cap \in DOMAIN ConfMethods})
                  \cup (UNION {OtherMethods[cap] : cap \in DOMAIN OtherMethods})

(* vcd.login needs none. *)
Caps(m) ==
    {cap \in DOMAIN ConfMethods : m \in ConfMethods[cap]}
    \cup {cap \in DOMAIN OtherMethods : m \in OtherMethods[cap]}

Reads == {"vxdb.dx.limit.get", "vxdb.init.get", "vxdb.mount.get", "vxdb.nx.addr.get",
          "vxdb.nx.broadcast.get", "vxdb.vx.bcaps.get", "vxdb.vx.ccaps.get",
          "vxdb.vx.flags.get", "vxdb.vx.limit.get", "vxdb.vx.sched.get",
          "vxdb.vx.cpuset.get", "vxdb.vx.uname.get"}

M_OWNER == (UNION {ConfMethods[cap] : cap \in DOMAIN ConfMethods})
           \cup {"vx.status", "vx.limstatus", "vx.netstatus", "vx.kill", "vx.reboot",
                 "vx.restart", "vx.start", "vx.stop", "vx.remove", "vx.rename", "vx.exec"}

(* Mutant: vx.rename does not lock. *)
M_LOCK_NotRename == (M_OWNER \cup {"vx.create"})
          \ (Reads \cup {"vx.exec", "vx.status", "vx.limstatus", "vx.netstatus", "vx.rename"})

M_LOCK == (M_OWNER \cup {"vx.create"})
          \ (Reads \cup {"vx.exec", "vx.status", "vx.limstatus", "vx.netstatus"})

(* The methods that are one step; n is any counter, r any outcome. *)
VcdMethod(m, d, q, user, r, n) ==
    CASE m = "vcd.hostinfo"         -> m_vcd_hostinfo(d)
      [] m = "vcd.login"            -> m_vcd_login(d)
      [] m = "vcd.status"           -> m_vcd_status(d, n)
      [] m = "vcd.user.caps.add"    -> m_vcd_user_caps_add(d, q)
      [] m = "vcd.user.caps.get"    -> m_vcd_user_caps_get(d, q)
      [] m = "vcd.user.caps.remove" -> m_vcd_user_caps_remove(d, q)
      [] m = "vcd.user.get"         -> m_vcd_user_get(d, q)
      [] m = "vcd.user.remove"      -> m_vcd_user_remove(d, q)
      [] m = "vcd.user.set"         -> m_vcd_user_set(d, q)
      [] m = "vg.add"               -> m_vg_add(d, q)
      [] m = "vg.list"              -> m_vg_list(d, q)
      [] m = "vg.remove"            -> m_vg_remove(d, q)
      [] m = "vx.create"            -> m_vx_create(d, q, user)
      [] m = "vx.exec"              -> m_vx_exec(d, q, r)
      [] m = "vx.kill"              -> m_vx_kill(d, q, r)
      [] m = "vx.limstatus"         -> m_vx_limstatus(d, q, n)
      [] m = "vx.netstatus"         -> m_vx_netstatus(d, q, n)
      [] m = "vx.reboot"            -> m_vx_reboot(d, q, r)
      [] m = "vx.remove"            -> m_vx_remove(d, q)
      [] m = "vx.rename"            -> m_vx_rename(d, q)
      [] m = "vx.restart"           -> m_vx_restart(d, q, r)
      [] m = "vx.start"             -> m_vx_start(d, q, r)
      [] m = "vx.status"            -> m_vx_status(d, q, r = "ok", n)
      [] m = "vx.stop"              -> m_vx_stop(d, q, r)
      [] m = "vx.templates"         -> m_vx_templates(d, q)
      [] m = "vxdb.list"            -> m_vxdb_list(d, q, user)
      [] m = "vxdb.name.get"        -> m_vxdb_name_get(d, q)
      [] m = "vxdb.owner.add"       -> m_vxdb_owner_add(d, q)
      [] m = "vxdb.owner.get"       -> m_vxdb_owner_get(d, q)
      [] m = "vxdb.owner.remove"    -> m_vxdb_owner_remove(d, q)
      [] m = "vxdb.vdir.get"        -> m_vxdb_vdir_get(d, q)
      [] m = "vxdb.xid.get"         -> m_vxdb_xid_get(d, q)
=============================================================================
