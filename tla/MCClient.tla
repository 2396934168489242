------------------------------ MODULE MCClient ------------------------------
EXTENDS Client, SequencesExt

Line(tool, cmd, argv) == [tool |-> tool, cmd |-> cmd, argv |-> argv, opts |-> <<>>]
As(opts, line) == [line EXCEPT !.opts = opts]
VceLine(cmd, argv) == Line("vce", cmd, argv)

(* What has been configured for web, xid 2, before. *)
Setup ==
    << VceLine("vx.limit.set", <<"web", "NPROC", "5", "7">>),
       VceLine("vx.flags.add", <<"web", "flag">>),
       VceLine("vx.cpuset.set", <<"web", "0", "0", "1">>),
       VceLine("nx.addr.set", <<"web", "10.0.0.1">>),
       VceLine("mount.set", <<"web", "", "/", "tmpfs">>) >>

MCTemplates ==
    "base" :> [parses |-> TRUE, description |-> "", init |-> "/sbin/init",
               halt |-> "/sbin/halt", reboot |-> "/sbin/reboot", timeout |-> -1,
               mount |-> "/" :> [src |-> "none", type |-> "tmpfs", opts |-> "ro"],
               vx_bcaps |-> {}, vx_ccaps |-> {"flag"}, vx_flags |-> {}]
    @@ "bare" :> [parses |-> TRUE, description |-> "", init |-> "/sbin/init",
                  halt |-> "/sbin/halt", reboot |-> "/sbin/reboot", timeout |-> 9,
                  mount |-> Empty, vx_bcaps |-> {}, vx_ccaps |-> {}, vx_flags |-> {}]
    @@ "bad" :> [parses |-> FALSE]

MCFreshLines ==
    {Promised!NoLines,
     [Promised!NoLines EXCEPT
        !.init = "xid" :> [init |-> "/sbin/init", halt |-> "/sbin/halt",
                           reboot |-> "/sbin/reboot", timeout |-> 9],
        !.mount = "/proc" :> [src |-> "none", dst |-> "/proc", type |-> "proc",
                              opts |-> "defaults"]
                  @@ "/dev/pts" :> [src |-> "none", dst |-> "/dev/pts", type |-> "devpts",
                                    opts |-> "defaults"]],
     [Promised!NoLines EXCEPT
        !.init = "xid" :> [init |-> "/sbin/init", halt |-> "/sbin/halt",
                           reboot |-> "/sbin/reboot", timeout |-> 0],
        !.mount = "/" :> [src |-> "none", dst |-> "/", type |-> "tmpfs", opts |-> "ro"],
        !.vx_ccaps = "flag" :> "flag"]}

MCvbasedir == "web" :> "/web" @@ "mail" :> "/mail" @@ "www" :> "/www"
MCInitialDb ==
    LET Apply(c, line) == LET call == CallOf(line, 0)
                          IN ConfMethod(call.method, c, call.params).next
    IN [xid |-> "web" :> 2 @@ "mail" :> 3, vdir |-> 2 :> "/srv" @@ 3 :> "/mail",
        conf |-> [x \in Xids |-> IF x = 2 THEN FoldLeft(Apply, NoRows, Setup) ELSE NoRows],
        uid |-> "admin" :> 1 @@ "jo" :> 2, pass |-> "admin" :> "secret" @@ "jo" :> "word",
        admin |-> {"admin"}, caps |-> {<<1, cap>> : cap \in VCD_CAPS} \cup {<<2, "UNAME">>, <<2, "INFO">>},
        owner |-> {<<2, 2>>}, gid |-> "g" :> 1, member |-> {<<2, 1>>, <<3, 1>>}, up |-> {2, 3}]
MCInitialLines ==
    LET Apply(w, line) == Promised!Promise(w, line, 0)
    IN [x \in Xids |-> IF x = 2 THEN FoldLeft(Apply, Promised!NoLines, Setup)
                       ELSE Promised!NoLines]

MCConfigs ==
    "vcc.conf" :> [host |-> "localhost", port |-> 13, user |-> "admin", pass |-> "secret"]
    @@ "jo.conf" :> [host |-> "localhost", port |-> 14, user |-> "jo", pass |-> "NULL"]
    @@ "far.conf" :> [host |-> "far", port |-> 13, user |-> "NULL", pass |-> "NULL"]
MCTyped == "admin" :> "secret" @@ "jo" :> "word"
(* Numbers as printf writes them; those with a leading zero are digits too *)
(* and the one with a letter behind it is not.                             *)
Plain == [s \in {ToString(n) : n \in -2 .. 40} |-> CHOOSE n \in -2 .. 40 : ToString(n) = s]
MCNumerals == Plain @@ "02" :> 2 @@ "03" :> 3 @@ "00" :> 0 @@ "5x" :> 5
MCDigits == DOMAIN MCNumerals \ {"-2", "-1", "5x"}

MCGarbage == {-2, 0}
MCListen == [host |-> "localhost", port |-> 13]

-----------------------------------------------------------------------------
(* Sessions of the first client: two commands on one table. *)

Pairs(cmd, changes, gets) ==
    {<<VceLine(ch[1], ch[2]), VceLine(cmd, g)>> : ch \in changes, g \in gets}

SchedSet(n) == <<"vx.sched.set", <<"web", n, "2", "1", "0", "0", "0", "4">>>>

VceSessions ==
    Pairs("vx.limit.get",
          {<<"vx.limit.set", <<"web", "RSS", "4">>>>, <<"vx.limit.set", <<"web", "NPROC", "03", "9">>>>,
           <<"vx.limit.set", <<"web", "NPROC", "5x">>>>, <<"vx.limit.remove", <<"web", "NPROC">>>>},
          {<<"web">>, <<"web", "RSS">>})
    \cup Pairs("vx.flags.get", {<<"vx.flags.remove", <<"web", "flag">>>>, <<"vx.flags.add", <<"web", "none">>>>}, {<<"web">>})
    \cup Pairs("vx.bcaps.get", {<<"vx.bcaps.add", <<"web", "flag">>>>, <<"vx.bcaps.remove", <<"web">>>>}, {<<"web">>})
    \cup Pairs("vx.ccaps.get", {<<"vx.ccaps.add", <<"web", "flag">>>>, <<"vx.ccaps.remove", <<"mail">>>>}, {<<"web">>})
    \cup Pairs("vx.cpuset.get", {<<"vx.cpuset.set", <<"web", "1", "00">>>>, <<"vx.cpuset.remove", <<"web">>>>}, {<<"web">>})
    \cup Pairs("nx.addr.get", {<<"nx.addr.set", <<"web", "10.0.0.2", "255.0.0.0">>>>,
                               <<"nx.addr.remove", <<"web", "10.0.0.1">>>>}, {<<"web">>, <<"web", "10.0.0.1">>})
    \cup Pairs("nx.broadcast.get", {<<"nx.broadcast.set", <<"web", "10.0.0.2">>>>,
                                    <<"nx.broadcast.remove", <<"web">>>>}, {<<"web">>})
    \cup Pairs("mount.get", {<<"mount.set", <<"web", "/srv", "/mnt">>>>, <<"mount.remove", <<"web", "/">>>>},
               {<<"web">>, <<"web", "/">>})
    \cup Pairs("init.get", {<<"init.set", <<"web">>>>, <<"init.set", <<"web", "/sbin/init", "", "", "20">>>>,
                            <<"init.set", <<"web", "init">>>>}, {<<"web">>})
    \cup Pairs("dx.limit.get", {<<"dx.limit.set", <<"web", "02", "3", "5x">>>>, <<"dx.limit.remove", <<"web">>>>}, {<<"web">>})
    \cup Pairs("vx.uname.get", {<<"vx.uname.set", <<"web", "NODENAME", "host">>>>, <<"vx.uname.remove", <<"web">>>>},
               {<<"web", "NODENAME">>})
    \cup Pairs("vx.sched.get", {SchedSet("-1"), SchedSet("2"), SchedSet("one"), <<"vx.sched.remove", <<"web", "one">>>>},
               {<<"web">>, <<"web", "one">>})

QuerySessions ==
    {<<Line("vce", "list", <<"jo">>)>>}
    \cup {<<Line("script", cmd, <<>>)>> : cmd \in {"vcd.login", "vxdb.name.get", "vcd.nosuch"}}
    \cup {<<Line("script", "vxdb.name.get", <<n>>)>> : n \in {"2", "4"}}
    \cup {<<Line("script", "vxdb.owner.remove", <<n>>), Line("script", "vxdb.owner.get", <<n>>)>> :
            n \in {"web", "www"}}
    \cup {<<Line("vcc", cmd, <<"web">>)>> : cmd \in {"limstatus", "netstatus", "exec"}}
    \cup {<<As(<<o>>, VceLine("vx.uname.get", <<"web">>))>> :
            o \in {<<"u", "jo">>, <<"x", "">>, <<"c", "none.conf">>, <<"c", "far.conf">>, <<"h", "far">>, <<"p", "x">>}}
    \cup {<<As(<<<<"c", "jo.conf">>, <<"p", "13">>>>, VceLine("vx.uname.get", <<n>>))>> : n \in {"web", "mail", "www"}}
    \cup {<<As(<<<<"u", "jo">>, <<"c", "vcc.conf">>>>, Line("vcc", "list", <<>>))>>,
          <<As(<<<<"u", "jo">>>>, Line("vcc", "stop", <<"web">>))>>,
          <<Line("vcc", "kill", <<"web", "1", "9">>)>>, <<Line("vcc", "nosuch", <<>>)>>,
          <<Line("vcc", "templates", <<>>)>>,
          <<Line("vcdadm", "hostinfo", <<>>)>>, <<Line("vcdadm", "status", <<>>)>>,
          <<Line("vcdadm", "user.get", <<>>)>>, <<Line("vcdadm", "user.caps.get", <<"jo">>)>>,
          <<Line("vgc", "list", <<>>), Line("vgc", "list", <<"g">>)>>,
          <<Line("vgc", "vx.stop", <<"none">>)>>, <<Line("vcc", "create", <<"www", "bad">>)>>,
          <<Line("vcc", "create", <<"www", "bare">>), VceLine("mount.get", <<"www">>)>>}

(* What is disturbed by a second client, and by what: *)
NameLines == {<<Line("vcc", cmd, <<"web">>)>> : cmd \in {"status", "login"}}
           \cup {<<VceLine("vx.limit.set", <<"web", "RSS", "4">>)>>,
                 <<VceLine("vx.limit.get", <<"web">>)>>}
Registry ==
    {<<Line("vcc", "rename", <<"web", "www">>), Line("vcc", "create", <<"web", "base", "0", "0", "/new">>)>>,
     <<VceLine("vx.limit.remove", <<"web">>)>>}
(* The longest session meets the line that changes a row and the one that  *)
(* enters a vserver by the xid it asked for.                               *)
Removal ==
    <<Line("vcc", "stop", <<"web">>), Line("vcc", "remove", <<"web">>),
      Line("vcc", "create", <<"mail", "base", "1">>)>>
Removed == {s \in NameLines : s[1].cmd \in {"login", "vx.limit.set"}}

Group(cmd, gid) == <<Line("vgc", cmd, <<gid>>)>>
Renames == <<Line("vcc", "rename", <<"web", "www">>), Line("vcc", "rename", <<"mail", "web">>)>>
Restarts == <<Line("vcc", "restart", <<"mail">>), Line("vcc", "reboot", <<"web">>)>>
StopStart == <<Line("vcc", "stop", <<"web">>), Line("vcc", "start", <<"web">>)>>
Member == <<Line("vgc", "remove", <<"g", "web">>), Line("vgc", "add", <<"g", "web">>)>>
Dissolve == <<Line("vgc", "remove", <<"g">>), Line("vgc", "add", <<"g">>)>>
GroupSessions ==
    ({Group("vx.stop", "g")} \X {Renames, Restarts, StopStart, Member, Dissolve})
    \cup {<<Group("vx.start", "g"), StopStart>>, <<Group("vx.start", "g"), Member>>,
          <<Group("vx.restart", "g"), Restarts>>, <<Group("vx.reboot", "g"), Dissolve>>,
          <<Group("vx.stop", "all"), StopStart>>}

UserLines == {<<As(<<<<"u", "jo">>>>, VceLine("vx.uname.set", <<"web", "NODENAME", "host">>))>>,
            <<Line("vcc", "exec", <<"web", "ls">>)>>}
Users ==
    {<<Line("vcdadm", "user.caps.remove", <<"jo", "UNAME">>), Line("vcdadm", "user.caps.add", <<"jo", "NET">>)>>,
     <<Line("vcdadm", "user.remove", <<"jo">>), Line("vcdadm", "user.set", <<"jo", "1", "word">>)>>,
     <<Line("script", "vxdb.owner.remove", <<"web", "jo">>), Line("script", "vxdb.owner.add", <<"mail", "jo">>)>>,
     <<Line("vxpasswd", "", <<"jo", "secret">>), Line("vxpasswd", "", <<"jo">>)>>}

MCVceLines == {[cmd |-> l.cmd, argv |-> l.argv] : l \in
    {l \in {Setup[i] : i \in DOMAIN Setup}
           \cup UNION {{s[i] : i \in DOMAIN s} :
                       s \in VceSessions \cup QuerySessions \cup NameLines \cup UserLines \cup Registry} :
       l.tool = "vce" /\ l.cmd # "list"}}

MCSessions == {<<s, <<>>>> : s \in VceSessions \cup QuerySessions}
              \cup (NameLines \X Registry) \cup (Removed \X {Removal})
              \cup GroupSessions \cup (UserLines \X Users)

-----------------------------------------------------------------------------
(* The hypotheses of the refinement theorem hold of this instance: its     *)
(* lines are known, and no limit in it is lost on the way.                 *)
ASSUME LinesAssumption == KnownLines
ASSUME LimitsAssumption == ExactLimits
=============================================================================
