------------------------------- MODULE Client -------------------------------
(***************************************************************************)
(* vcc, vce, vgc and vcdadm against vcd: a command line is read, becomes a *)
(* call, is checked and executed by a process of the daemon, and its       *)
(* answer is decomposed and printed.                                       *)
(*                                                                         *)
(* Every client runs a session of command lines, one process after the     *)
(* other.  The daemon serves each call in a process of its own, which      *)
(* holds the lock of a vserver until it exits; that is after its answer.   *)
(***************************************************************************)
EXTENDS VcdMethods, Commands

CONSTANTS Clients,
          Sessions,     \* sequences of command lines the clients may run
          VceLines,     \* command and arguments of the lines that are for vce
          Configs,      \* host, port, user and pass of each file
          Typed,        \* the password each user knows
          Listen,       \* host and port of the daemon
          InitialDb,    \* registry, rows and accounts in the beginning
          InitialLines, \* the same rows as their owner knows them
          FreshLines,   \* what vce shows of a vserver that was just created
          Garbage,      \* values of an uninitialised variable
          Counters,     \* values of the kernel's counters
          Outcomes,     \* what becomes of a call to the kernel or the guest
          Mortal        \* vservers that may end by themselves

(* What the methods rely on and keep up: an xid of its own for every name, *)
(* a directory for every xid, keys that the tables allow, a password for   *)
(* every user.                                                             *)
DbFields == {"xid", "vdir", "conf", "uid", "pass", "admin", "caps", "owner", "gid",
             "member", "up"}
RowsOK(c) ==
    c = [t \in Tables |-> c[t]] /\ \A t \in Tables : DOMAIN c[t] \subseteq Keys[t]
RegistryOK(d) ==
    /\ d.xid \in [DOMAIN d.xid -> Xids] /\ DOMAIN d.xid \subseteq Names
    /\ \A m, n \in DOMAIN d.xid : d.xid[m] = d.xid[n] => m = n
    /\ DOMAIN d.vdir = {d.xid[n] : n \in DOMAIN d.xid}
    /\ DOMAIN d.conf = Xids /\ \A x \in Xids : RowsOK(d.conf[x])
UsersOK(d) == d.admin \subseteq DOMAIN d.uid /\ DOMAIN d.pass = DOMAIN d.uid
DbOK(d) == DOMAIN d = DbFields /\ RegistryOK(d) /\ UsersOK(d) /\ d.up \subseteq Xids

ASSUME InitialDbAssumption == DbOK(InitialDb)

(* Command lines.  A script calls the methods that no program has a        *)
(* command for, or what is no method at all.                               *)
Given ==
    {l \in [tool : {"vcc", "vce", "vgc", "vcdadm", "script", "vxpasswd"},
            cmd : STRING, argv : Seq(STRING), opts : Seq(Seq(STRING))] :
       /\ l.tool = "vce" /\ l.cmd # "list" => [cmd |-> l.cmd, argv |-> l.argv] \in VceLines
       /\ l.tool = "script" => l.cmd \in {"vcd.login", "vxdb.name.get", "vxdb.owner.add",
                                         "vxdb.owner.get", "vxdb.owner.remove"}
                               \/ l.cmd \notin Methods}

ASSUME SessionsAssumption == Sessions \subseteq [Clients -> Seq(Given)]

VARIABLES db,       \* vxdb and kernel, see VcdMethods
          settings, \* host, port, user and pass, as far as options were read
          proc,     \* the command each client runs, and the daemon's process
          left,     \* command lines still to be run
          held,     \* the name whose lock the daemon's process holds, or ""
          late,     \* names locked by processes that have answered
          touched   \* history: names that others changed meanwhile

vars == <<db, settings, proc, left, held, late, touched>>

-----------------------------------------------------------------------------
(* The command line *)

(* The four values of a file. *)
Loaded(file) ==
    [host |-> Configs[file].host, port |-> Configs[file].port,
     user |-> Configs[file].user, pass |-> Configs[file].pass, dead |-> FALSE]

(* A file that is missing or wrong ends the program. *)
read_config(s, file) ==
    IF s.dead \/ file \notin DOMAIN Configs THEN [s EXCEPT !.dead = TRUE]
    ELSE Loaded(file)

(* The file in SYSCONFDIR may be missing. *)
DefaultConfig ==
    IF "vcc.conf" \in DOMAIN Configs THEN Loaded("vcc.conf")
    ELSE [host |-> "localhost", port |-> 13, user |-> "NULL", pass |-> "NULL",
          dead |-> FALSE]

(* Mutant: the password of the configuration goes with another user. *)
Option_KeepsPass(s, o) ==
    CASE o[1] = "c" -> read_config(s, o[2])
      [] o[1] = "h" -> [s EXCEPT !.host = o[2]]
      [] o[1] = "p" -> [s EXCEPT !.port = sscanf(o[2], @)]
      [] o[1] = "u" -> [s EXCEPT !.user = o[2]]
      [] OTHER -> [s EXCEPT !.dead = TRUE]

Option(s, o) ==
    CASE o[1] = "c" -> read_config(s, o[2])
      [] o[1] = "h" -> [s EXCEPT !.host = o[2]]
      [] o[1] = "p" -> [s EXCEPT !.port = sscanf(o[2], @)]
      [] o[1] = "u" -> [s EXCEPT !.user = o[2], !.pass = "NULL"]
      [] OTHER -> [s EXCEPT !.dead = TRUE]

(* The program is started with a command line, and nothing is left of the  *)
(* one before it.                                                          *)
Started(c) == proc[c].at = "idle" /\ left[c] # <<>> /\ Head(left[c]).tool # "vxpasswd"

(* One option after the other, in their order. *)
getopt(c) ==
    /\ Started(c) /\ Head(left[c]).opts # <<>>
    /\ settings' = [settings EXCEPT ![c] = Option(@, Head(Head(left[c]).opts))]
    /\ left' = [left EXCEPT ![c][1].opts = Tail(@)]
    /\ UNCHANGED <<db, proc, held, late, touched>>

(* A password is asked for if there is none. *)
read_password(s) == IF s.pass = "NULL" THEN Typed[s.user] ELSE s.pass

Idle == [at |-> "idle", line |-> [tool |-> "none", cmd |-> "none", argv |-> <<>>],
         user |-> "", pass |-> "", call |-> Usage, xid |-> 0, fault |-> "none",
         answer |-> Nil, got |-> 0, todo |-> {}, members |-> {}]

(* A command that makes no call ends the program: a wrong option, no user, *)
(* a command that is not in the table, or too few arguments.               *)
main(c) ==
    /\ Started(c) /\ Head(left[c]).opts = <<>>
    /\ left' = [left EXCEPT ![c] = Tail(@)]
    /\ settings' = [settings EXCEPT ![c] = DefaultConfig]
    /\ touched' = [touched EXCEPT ![c] = {}]
    /\ LET line == Head(left[c])
           s == settings[c]
       IN \E g \in Garbage :
          LET call == CallOf(line, g)
              dies == s.dead \/ s.user \in {"", "NULL"} \/ call.method \in {"invalid", "usage"}
              next == [Idle EXCEPT !.line = [tool |-> line.tool, cmd |-> line.cmd,
                                             argv |-> line.argv],
                                   !.user = s.user, !.pass = read_password(s), !.call = call]
          IN proc' = [proc EXCEPT ![c] =
                IF dies THEN Idle
                ELSE IF Listen # [host |-> s.host, port |-> s.port]
                     THEN [next EXCEPT !.at = "answered", !.fault = "TRANSPORT"]
                ELSE [next EXCEPT !.at = "calling"]]
    /\ UNCHANGED <<db, held, late>>

(* vxpasswd asks neither the daemon nor a lock: it opens the database and  *)
(* updates the user.  A password that is not an argument is typed, twice.  *)
(* It ends without a change for a short password, two that differ, an      *)
(* unknown user or a busy database.                                        *)
vxpasswd(c) ==
    /\ proc[c].at = "idle" /\ left[c] # <<>> /\ Head(left[c]).tool = "vxpasswd"
    /\ LET argv == Head(left[c]).argv
           given == IF Len(argv) > 1 THEN {argv[2]} ELSE Passwords
       IN \/ UNCHANGED db
          \/ \E password \in given :
                /\ validate_password(password) /\ argv[1] \in DOMAIN db.uid
                /\ db' = [db EXCEPT !.pass[argv[1]] = password]
    /\ left' = [left EXCEPT ![c] = Tail(@)]
    /\ UNCHANGED <<settings, proc, held, late, touched>>

-----------------------------------------------------------------------------
(* A process of the daemon *)

Method(c) == proc[c].call.method
Params(c) == proc[c].call.params

(* What a call may not be disturbed in: xid, directory and context. *)
About(d, n) == <<vxdb_getxid(d, n), vxdb_getvdir(d, n), vxdb_getxid(d, n) \in d.up>>
Touch(c, d) ==
    touched' = [p \in Clients |->
        IF p = c \/ proc[p].at = "idle" THEN touched[p]
        ELSE touched[p] \cup {n \in Names : About(d, n) # About(db, n)}]

Answer(c, result) ==
    /\ proc' = [proc EXCEPT ![c].at = "answered", ![c].fault = result.fault,
                            ![c].answer = result.answer, ![c].xid = 0, ![c].todo = {}]
    /\ db' = result.next
    /\ Touch(c, result.next)

Refuse(c, id) == Answer(c, Refused(db, id))

(* A method that is not in the registry is not authenticated. *)
method_default(c) ==
    /\ proc[c].at = "calling" /\ Method(c) \notin Methods
    /\ Refuse(c, "NO_SUCH_METHOD")
    /\ UNCHANGED <<settings, left, held, late>>

(* method_check_flags is only called for methods with flags. *)
method_init(c) ==
    LET m == Method(c)
        q == Params(c)
        u == proc[c].user
        flags == m \in M_OWNER \cup M_LOCK
        result == FirstOf(db,
            << <<~auth_isvalid(db, u, proc[c].pass), "MEAUTH">>,
               <<\E cap \in Caps(m) : ~auth_capable(db, u, cap), "MEPERM">>,
               <<flags /\ ~Decomposes(q, [name |-> "s"]), "TYPE">>,
               <<flags /\ ~validate_name(q.name[2]), "MEINVAL">>,
               <<m \in M_OWNER /\ ~auth_isowner(db, u, q.name[2]), "MENOVPS">> >>,
            Changed(db))
    IN /\ proc[c].at = "calling" /\ m \in Methods
       /\ IF result.fault # "none" THEN Answer(c, result)
          ELSE /\ proc' = [proc EXCEPT ![c].at = IF m \in M_LOCK THEN "checked" ELSE "begun"]
               /\ UNCHANGED <<db, touched>>
       /\ UNCHANGED <<settings, left, held, late>>

(* MethodLock has its steps. *)
method_lock(c) ==
    LET n == Params(c).name[2]
        free == \A p \in Clients : held[p] # n /\ n \notin late[p]
    IN /\ proc[c].at = "checked"
       /\ IF free
          THEN /\ proc' = [proc EXCEPT ![c].at = "begun"]
               /\ held' = [held EXCEPT ![c] = n]
               /\ UNCHANGED <<db, touched>>
          ELSE Refuse(c, "MEBUSY") /\ UNCHANGED held
       /\ UNCHANGED <<settings, left, late>>

(* A configuration method checks its parameters, then looks up the xid. *)
Lookup(c) ==
    LET checked == ConfMethod(Method(c), NoRows, Params(c))
        xid == vxdb_getxid(db, Params(c).name[2])
    IN /\ proc[c].at = "begun" /\ IsConf(Method(c))
       /\ IF checked.fault # "none" THEN Refuse(c, checked.fault)
          ELSE IF xid = 0 THEN Refuse(c, "MENOVPS")
          ELSE /\ proc' = [proc EXCEPT ![c].at = "looked", ![c].xid = xid]
               /\ UNCHANGED <<db, touched>>
       /\ UNCHANGED <<settings, left, held, late>>

(* Its statement uses the xid it found then. *)
Execute(c) ==
    LET xid == proc[c].xid
        result == ConfMethod(Method(c), db.conf[xid], Params(c))
    IN /\ proc[c].at = "looked"
       /\ \/ Answer(c, [fault |-> result.fault, answer |-> result.answer,
                        next |-> [db EXCEPT !.conf[xid] = result.next]])
          \/ Refuse(c, "MEVXDB")
       /\ UNCHANGED <<settings, left, held, late>>

(* Any other method, but for those that go through a group. *)
Inner ==
    [m \in {"vg.vx.reboot", "vg.vx.restart", "vg.vx.start", "vg.vx.stop"} |->
        CASE m = "vg.vx.reboot"  -> "vx.reboot"
          [] m = "vg.vx.restart" -> "vx.restart"
          [] m = "vg.vx.start"   -> "vx.start"
          [] m = "vg.vx.stop"    -> "vx.stop"]

Body(c) ==
    /\ proc[c].at = "begun" /\ ~IsConf(Method(c)) /\ Method(c) \notin DOMAIN Inner
    /\ \/ \E r \in Outcomes, n \in Counters :
             Answer(c, VcdMethod(Method(c), db, Params(c), proc[c].user, r, n))
       \/ Refuse(c, "MEVXDB")
    /\ UNCHANGED <<settings, left, held, late>>

GroupList(c) ==
    LET list == vg_list_init(db, Params(c)) IN
    /\ proc[c].at = "begun" /\ Method(c) \in DOMAIN Inner
    /\ IF list.fault # "none" THEN Refuse(c, list.fault)
       ELSE /\ proc' = [proc EXCEPT ![c].at = "looping", ![c].todo = list.answer,
                                    ![c].members = {pos.name : pos \in list.answer}]
            /\ UNCHANGED <<db, touched>>
    /\ UNCHANGED <<settings, left, held, late>>

(* Mutant: the fault of a member is forgotten. *)
GroupMember_Forgives(c) ==
    /\ proc[c].at = "looping"
    /\ \E pos \in proc[c].todo, r \in Outcomes :
       LET m == Inner[Method(c)]
           due == (pos.xid \in db.up) # (m = "vx.start")
           result == IF due THEN VcdMethod(m, db, [name |-> S(pos.name)], "", r, 0)
                     ELSE Changed(db)
       IN /\ proc' = [proc EXCEPT ![c].todo = @ \ {pos}]
          /\ db' = result.next /\ Touch(c, result.next)
    /\ UNCHANGED <<settings, left, held, late>>

(* Of a running vserver start is not called, of a stopped one the others   *)
(* are not.  The method is called by name, without lock or owner; after    *)
(* a fault the calls that follow return at once.                           *)
GroupMember(c) ==
    /\ proc[c].at = "looping"
    /\ \E pos \in proc[c].todo, r \in Outcomes :
       LET m == Inner[Method(c)]
           due == (pos.xid \in db.up) # (m = "vx.start")
           result == IF due THEN VcdMethod(m, db, [name |-> S(pos.name)], "", r, 0)
                     ELSE Changed(db)
       IN IF result.fault # "none" THEN Answer(c, result)
          ELSE /\ proc' = [proc EXCEPT ![c].todo = @ \ {pos}]
               /\ db' = result.next /\ Touch(c, result.next)
    /\ UNCHANGED <<settings, left, held, late>>

GroupEnd(c) ==
    /\ proc[c].at = "looping" /\ proc[c].todo = {}
    /\ Answer(c, Changed(db))
    /\ UNCHANGED <<settings, left, held, late>>

(* The process dies and with it its lock, or the connection breaks: the    *)
(* answer never comes, also if the statement was executed before.          *)
Lost(c) ==
    /\ proc[c].at \in {"checked", "begun", "looked", "looping", "answered"}
    /\ proc[c].fault \notin {"LOST", "TRANSPORT"}
    /\ Refuse(c, "LOST")
    /\ held' = [held EXCEPT ![c] = ""]
    /\ UNCHANGED <<settings, left, late>>

(* A process that has answered exits when the connection is closed. *)
Exit(c) ==
    /\ late[c] # {}
    /\ late' = [late EXCEPT ![c] = {}]
    /\ UNCHANGED <<db, settings, proc, left, held, touched>>

-----------------------------------------------------------------------------
(* The answer *)

Good(c) == proc[c].fault = "none" /\ Decodes(proc[c].call.reply, proc[c].answer)
Login(c) == proc[c].line.tool = "vcc" /\ proc[c].line.cmd = "login"

(* cmd_login asks for the directory after the xid. *)
AskVdir(c) ==
    /\ proc[c].at = "answered" /\ Good(c) /\ Login(c) /\ Method(c) = "vxdb.xid.get"
    /\ proc' = [proc EXCEPT ![c].at = "calling", ![c].got = proc[c].answer[2],
                   ![c].call = [method |-> "vxdb.vdir.get", params |-> Params(c), reply |-> Text]]
    /\ UNCHANGED <<db, settings, left, held, late, touched>>

(* The fault or the lines are printed; cmd_login enters the vserver, which *)
(* is Vlogin's.                                                            *)
Receive(c) ==
    /\ proc[c].at = "answered"
    /\ ~(Good(c) /\ Login(c) /\ Method(c) = "vxdb.xid.get")
    /\ proc' = [proc EXCEPT ![c] = Idle]
    /\ late' = [late EXCEPT ![c] = @ \cup ({held[c]} \ {""})]
    /\ held' = [held EXCEPT ![c] = ""]
    /\ touched' = [touched EXCEPT ![c] = {}]
    /\ UNCHANGED <<db, settings, left>>

(* A guest ends by itself. *)
Guest ==
    /\ \E x \in db.up \cap Mortal : LET d == [db EXCEPT !.up = @ \ {x}] IN
          /\ db' = d
          /\ touched' = [p \in Clients |-> IF proc[p].at = "idle" THEN {} ELSE touched[p]
                           \cup {n \in Names : About(d, n) # About(db, n)}]
    /\ UNCHANGED <<settings, proc, left, held, late>>

-----------------------------------------------------------------------------
Init ==
    /\ db = InitialDb
    /\ settings = [c \in Clients |-> DefaultConfig]
    /\ proc = [c \in Clients |-> Idle]
    /\ left \in Sessions
    /\ held = [c \in Clients |-> ""]
    /\ late = [c \in Clients |-> {}]
    /\ touched = [c \in Clients |-> {}]

Program(c) == getopt(c) \/ main(c) \/ vxpasswd(c) \/ AskVdir(c) \/ Receive(c)
Daemon(c) ==
    method_default(c) \/ method_init(c) \/ method_lock(c) \/ Lookup(c) \/ Execute(c) \/ Body(c)
    \/ GroupList(c) \/ GroupMember(c) \/ GroupEnd(c) \/ Exit(c)

(* All sessions are over. *)
Terminated ==
    /\ \A c \in Clients : proc[c].at = "idle" /\ left[c] = <<>> /\ late[c] = {}
    /\ UNCHANGED vars

Next == Guest \/ Terminated \/ \E c \in Clients : Program(c) \/ Daemon(c) \/ Lost(c)

Spec == Init /\ [][Next]_vars

-----------------------------------------------------------------------------
(* Properties *)

(* Types of the state.  Two names never share an xid, and an xid has a     *)
(* directory as long as it has a name: create, rename and remove keep the  *)
(* tables vdir and xid_name_map together, which no index asks for.  Rows   *)
(* have keys that their tables allow: the checks of vcd's methods are all  *)
(* that stands between a command line and the tables.                      *)
TypeOK ==
    /\ DbOK(db)
    /\ \A c \in Clients :
          /\ proc[c].at \in {"idle", "calling", "checked", "begun", "looked", "looping",
                             "answered"}
          /\ proc[c].xid \in Xids \cup {0}
          /\ held[c] \in Names \cup {""} /\ late[c] \subseteq Names
          /\ touched[c] \subseteq Names /\ proc[c].members \subseteq Names

(* The clients and vcd are written apart and agree on every call: no       *)
(* command sends parameters that its method cannot decompose, and none     *)
(* gets an answer it cannot decompose (xmlrpc_decompose_value on both      *)
(* sides of client_call).                                                  *)
SameFormats ==
    \A c \in Clients :
       /\ proc[c].fault # "TYPE"
       /\ proc[c].at = "answered" /\ proc[c].fault = "none"
             => Decodes(proc[c].call.reply, proc[c].answer)

(* A password goes to the daemon only with the user it belongs to: the one *)
(* of its configuration file, or the one it was asked for.  Several -c and *)
(* -u in any order do not mix them (main, case 'u').                       *)
OwnPassword ==
    \A c \in Clients : proc[c].at # "idle" =>
       \/ proc[c].pass = Typed[proc[c].user]
       \/ \E f \in DOMAIN Configs : /\ Configs[f].user = proc[c].user
                                   /\ Configs[f].pass = proc[c].pass

(* cmd_login gets xid and directory by two calls without a lock.  They are *)
(* those of one vserver unless another client has changed what the name    *)
(* means in between.                                                       *)
LoginIntoOne ==
    \A c \in Clients :
       LET n == Params(c).name[2] IN
       proc[c].at = "answered" /\ Good(c) /\ proc[c].got # 0 =>
          \/ n \in touched[c]
          \/ db.xid[n] = proc[c].got /\ db.vdir[proc[c].got] = proc[c].answer[2]

(* When vg.vx.stop answers without a fault, no vserver of the group runs,  *)
(* but for those that somebody else has touched since the command began:   *)
(* the list is made once, and the members are stopped by name one after    *)
(* the other.                                                              *)
GroupStopped ==
    \A c \in Clients :
       proc[c].at = "answered" /\ proc[c].fault = "none" /\ Method(c) = "vg.vx.stop" =>
          \A n \in proc[c].members : n \in touched[c] \/ vxdb_getxid(db, n) \notin db.up

(* A row changes only for the vserver that carries the name of the command *)
(* at that moment, although the xid was looked up earlier: the lock keeps  *)
(* rename, remove and create away from the name (method_lock).             *)
ChangesNamed ==
    [][\A x \in Xids : db.conf[x] # db'.conf[x] =>
          \E c \in Clients : /\ proc[c] # proc'[c]
                             /\ LET n == Params(c).name[2] IN
                                x \in {vxdb_getxid(db, n), vxdb_getxid(db', n)}]_vars

-----------------------------------------------------------------------------
(* What vce promises *)

GetCommand ==
    [dx_limit |-> "dx.limit.get", init |-> "init.get", mount |-> "mount.get",
     nx_addr |-> "nx.addr.get", nx_broadcast |-> "nx.broadcast.get",
     vx_bcaps |-> "vx.bcaps.get", vx_ccaps |-> "vx.ccaps.get", vx_flags |-> "vx.flags.get",
     vx_cpuset |-> "vx.cpuset.get", vx_limit |-> "vx.limit.get",
     vx_sched |-> "vx.sched.get", vx_uname |-> "vx.uname.get"]

GetCall == [t \in Tables |-> Vce(GetCommand[t], <<"name">>, 0)]

(* The line that shows one row. *)
RowLine(t, k, row) ==
    LET call == GetCall[t]
        answer == ConfMethod(call.method, [NoRows EXCEPT ![t] = [x \in {k} |-> row]], call.params).answer
    IN CHOOSE l \in Printed(call.reply, answer) : TRUE

LinesOf(c) == [t \in Tables |-> [k \in DOMAIN c[t] |-> RowLine(t, k, c[t][k])]]

(* How far the command of a client is, if it is one of vce's. *)
Job(c) ==
    LET p == proc[c]
        line == [cmd |-> p.line.cmd, argv |-> p.line.argv]
    IN IF p.at = "idle" \/ p.line.tool # "vce" \/ p.line.cmd = "list" THEN [at |-> "free"]
       ELSE CASE p.at = "looked"   -> [at |-> "aimed", line |-> line, x |-> p.xid]
              [] p.at = "answered" -> IF Good(c)
                                      THEN [at |-> "done", line |-> line,
                                            printed |-> {<<p.line.cmd, l>> :
                                               l \in Printed(p.call.reply, p.answer)}]
                                      ELSE [at |-> IF p.fault = "LOST" THEN "lost" ELSE "failed",
                                            line |-> line]
              [] OTHER             -> [at |-> "asked", line |-> line]

Promised == INSTANCE VceSpec WITH
    Vservers <- Xids, Lines <- VceLines, Sent <- Garbage,
    Fresh <- FreshLines, Start <- InitialLines, Called <- InitialDb.xid,
    lines <- [x \in Xids |-> LinesOf(db.conf[x])],
    called <- db.xid,
    job <- [c \in Clients |-> Job(c)]

(* A row whose line is not empty: the get commands of these tables print   *)
(* nothing instead of an empty line.                                       *)
Visible(c) ==
    /\ \A k \in DOMAIN c.dx_limit : ToString(c.dx_limit[k].space) # Blank
    /\ \A k \in DOMAIN c.vx_cpuset : c.vx_cpuset[k].cpus # Blank
    /\ \A k \in DOMAIN c.nx_broadcast : c.nx_broadcast[k] # Blank

(* What the owner of a vserver knows in the beginning, and of a new one:   *)
(* InitialLines and FreshLines are right.                                  *)
KnownLines ==
    /\ InitialLines = [x \in Xids |-> LinesOf(InitialDb.conf[x])]
    /\ \A x \in Xids : Visible(InitialDb.conf[x])
    /\ Promised!NoLines \in FreshLines
    /\ \A t \in DOMAIN Templates : ValidTemplate(Templates[t]) =>
          LinesOf(create_vxdb_entries(NoRows, Templates[t])) \in FreshLines

(* The numbers among some arguments of a command line. *)
Numbers(argv, at) ==
    {Numerals[argv[i]] : i \in {i \in at \cap DOMAIN argv : argv[i] \in DOMAIN Numerals}}

(* Limits that vcd can give back as they were: the limits of dx.limit.set  *)
(* fit in the unsigned int they are written with, and those of a memory    *)
(* limit are whole pages.                                                  *)
ExactLimits ==
    \A l \in VceLines :
       /\ l.cmd = "dx.limit.set" => \A n \in Numbers(l.argv, {2, 3}) : n < WORD32
       /\ l.cmd = "vx.limit.set" /\ 2 \in DOMAIN l.argv /\ l.argv[2] \in LIMTYPE =>
             \A n \in Numbers(l.argv, {3, 4}) : pagestobytes(bytestopages(n)) = n

(* vce, the network and vcd together do what the usage text of vce says.   *)
(* A command that succeeds has changed the lines of the vserver it names,  *)
(* the way it says and no others; a get command that succeeds shows the    *)
(* lines that the commands before it have left, all of them, with defaults *)
(* filled in and numbers converted back; a command that gets a fault has   *)
(* changed nothing, and one that gets no answer nothing, or what it says.  *)
(* All that, whoever else is at work (client_call, method_lock and the     *)
(* methods of the vxdb).                                                   *)
KeepsPromise == Promised!Spec
=============================================================================
