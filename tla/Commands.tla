------------------------------ MODULE Commands ------------------------------
(***************************************************************************)
(* The commands of vcc, vce, vgc and vcdadm.  A command is an operator of  *)
(* its arguments that gives the call it makes: the method, the structure   *)
(* of parameters and the form it expects the answer to have; or Usage.     *)
(* Arguments are strings, and argv[1] is the first after the command.      *)
(***************************************************************************)
EXTENDS Wire, Sequences

(* Optional arguments. *)
Arg(argv, i, default) == IF Len(argv) >= i THEN argv[i] ELSE default
Number(argv, i, default) == IF Len(argv) >= i THEN sscanf(argv[i], default) ELSE default

(* A command that is not in the table, or one with too few arguments. *)
Invalid == [method |-> "invalid"]
Usage == [method |-> "usage"]
Call(minargs, argv, method, params, reply) ==
    IF Len(argv) < minargs THEN Usage
    ELSE [method |-> method, params |-> params, reply |-> reply]

(* Forms of answers.  A structure or string is printed only if `unless' is *)
(* not empty in it; Blank means always.                                    *)
Ignored == [kind |-> "none"]
Text == [kind |-> "scalar", type |-> "s"]
Integer == [kind |-> "scalar", type |-> "i"]
Record(format, unless) == [kind |-> "struct", format |-> format, unless |-> unless]
Records(format) == [kind |-> "records", format |-> format]
TextArray == [kind |-> "texts"]

Strings(F) == [f \in F |-> "s"]
Ints(F) == [f \in F |-> "i"]

(* xmlrpc_decompose_value on the answer v. *)
Decodes(reply, v) ==
    CASE reply.kind = "none"    -> TRUE
      [] reply.kind = "scalar"  -> v[1] = reply.type
      [] reply.kind = "struct"  -> v[1] = "struct" /\ Decomposes(v[2], reply.format)
      [] reply.kind = "records" -> v[1] = "array" /\ \A i \in v[2] :
                                      i[1] = "struct" /\ Decomposes(i[2], reply.format)
      [] reply.kind = "texts"   -> v[1] = "array" /\ \A i \in v[2] : i[1] = "s"

(* pretty_uptime: days, hours, minutes and seconds. *)
pretty_uptime(sec) ==
    <<sec \div 86400, (sec \div 3600) % 24, (sec \div 60) % 60, sec % 60>>

(* What is printed, as a set of lines.  Of the status of a vserver that is *)
(* not running only that is printed.                                       *)
Printed(reply, v) ==
    LET Line(members) ==
            [f \in IF "running" \in DOMAIN members /\ members["running"][2] = 0
                   THEN {"running"} ELSE DOMAIN reply.format
                |-> IF f = "uptime" THEN pretty_uptime(members[f][2]) ELSE members[f][2]]
    IN CASE reply.kind = "none"    -> {}
         [] reply.kind = "scalar"  -> IF v = S(Blank) THEN {} ELSE {v[2]}
         [] reply.kind = "struct"  -> IF reply.unless # Blank /\ v[2][reply.unless] = S(Blank) THEN {}
                                      ELSE {Line(v[2])}
         [] reply.kind = "records" -> {Line(i[2]) : i \in v[2]}
         [] reply.kind = "texts"   -> {i[2] : i \in v[2]}

-----------------------------------------------------------------------------
(* Commands that give one name, or a name and an optional argument. *)

ByName(argv, method, reply) ==
    Call(1, argv, method, [name |-> S(argv[1])], reply)
ByNameAnd(argv, method, field, reply) ==
    Call(1, argv, method,
         [f \in {"name", field} |-> IF f = "name" THEN S(argv[1]) ELSE S(Arg(argv, 2, Blank))],
         reply)

-----------------------------------------------------------------------------
(* vcc *)

cmd_create(argv) ==
    Call(2, argv, "vx.create",
         [name |-> S(argv[1]), template |-> S(argv[2]), force |-> B(Number(argv, 3, 0)),
          copy |-> B(Number(argv, 4, 0)), vdir |-> S(Arg(argv, 5, Blank))], Ignored)

(* The command's words are joined. *)
cmd_exec(argv) ==
    Call(2, argv, "vx.exec", [name |-> S(argv[1]), command |-> S("words")], Text)

cmd_kill(argv) ==
    Call(3, argv, "vx.kill",
         [name |-> S(argv[1]), pid |-> I(Number(argv, 2, 0)), sig |-> I(Number(argv, 3, 0))],
         Ignored)

cmd_limstatus(argv) ==
    ByName(argv, "vx.limstatus", Records(Strings({"type", "min", "cur", "max"})))

cmd_list(argv) ==
    Call(0, argv, "vxdb.list", [username |-> S(Arg(argv, 1, Blank))], TextArray)

(* The program vce has a copy of it. *)
vce_cmd_list(argv) == cmd_list(argv)

(* The first of its two calls; Client has the rest. *)
cmd_login(argv) == ByName(argv, "vxdb.xid.get", Integer)

cmd_netstatus(argv) ==
    ByName(argv, "vx.netstatus",
           Records(Strings({"type", "recvp", "recvb", "sendp", "sendb", "failp", "failb"})))

cmd_reboot(argv) == ByName(argv, "vx.reboot", Ignored)
cmd_remove(argv) == ByName(argv, "vx.remove", Ignored)
cmd_rename(argv) ==
    Call(2, argv, "vx.rename", [name |-> S(argv[1]), newname |-> S(argv[2])], Ignored)
cmd_restart(argv) == ByName(argv, "vx.restart", Ignored)
cmd_start(argv) == ByName(argv, "vx.start", Ignored)

(* Of a stopped vserver it prints only that; uptime is made readable. *)
cmd_status(argv) ==
    ByName(argv, "vx.status",
           Record([running |-> "i", thr_total |-> "i", thr_running |-> "i", thr_unintr |-> "i",
                   thr_onhold |-> "i", forks_total |-> "i", uptime |-> "i",
                   load1m |-> "s", load5m |-> "s", load15m |-> "s"], Blank))

cmd_stop(argv) == ByName(argv, "vx.stop", Ignored)

cmd_templates(argv) ==
    Call(0, argv, "vx.templates", [name |-> S(Arg(argv, 1, Blank))],
         Records(Strings({"name", "description"})))

Vcc(cmd, argv) ==
    CASE cmd = "create"    -> cmd_create(argv)
      [] cmd = "exec"      -> cmd_exec(argv)
      [] cmd = "kill"      -> cmd_kill(argv)
      [] cmd = "limstatus" -> cmd_limstatus(argv)
      [] cmd = "list"      -> cmd_list(argv)
      [] cmd = "login"     -> cmd_login(argv)
      [] cmd = "netstatus" -> cmd_netstatus(argv)
      [] cmd = "reboot"    -> cmd_reboot(argv)
      [] cmd = "remove"    -> cmd_remove(argv)
      [] cmd = "rename"    -> cmd_rename(argv)
      [] cmd = "restart"   -> cmd_restart(argv)
      [] cmd = "start"     -> cmd_start(argv)
      [] cmd = "status"    -> cmd_status(argv)
      [] cmd = "stop"      -> cmd_stop(argv)
      [] cmd = "templates" -> cmd_templates(argv)
      [] OTHER -> Invalid

-----------------------------------------------------------------------------
(* vce *)

cmd_dx_limit_get(argv) ==
    ByName(argv, "vxdb.dx.limit.get",
           Record([space |-> "s", inodes |-> "s", reserved |-> "i"], "space"))
cmd_dx_limit_remove(argv) == ByName(argv, "vxdb.dx.limit.remove", Ignored)
(* Mutant: the reserve is sent as it was typed. *)
cmd_dx_limit_set_SendsText(argv) ==
    Call(4, argv, "vxdb.dx.limit.set",
         [name |-> S(argv[1]), space |-> S(argv[2]), inodes |-> S(argv[3]),
          reserved |-> S(argv[4])], Ignored)

cmd_dx_limit_set(argv) ==
    Call(4, argv, "vxdb.dx.limit.set",
         [name |-> S(argv[1]), space |-> S(argv[2]), inodes |-> S(argv[3]),
          reserved |-> I(Number(argv, 4, 0))], Ignored)

cmd_init_get(argv) ==
    ByName(argv, "vxdb.init.get",
           Record([init |-> "s", halt |-> "s", reboot |-> "s", timeout |-> "i"], Blank))
cmd_init_set(argv) ==
    Call(1, argv, "vxdb.init.set",
         [name |-> S(argv[1]), init |-> S(Arg(argv, 2, Blank)), halt |-> S(Arg(argv, 3, Blank)),
          reboot |-> S(Arg(argv, 4, Blank)), timeout |-> I(Number(argv, 5, 0))], Ignored)

cmd_mount_get(argv) ==
    ByNameAnd(argv, "vxdb.mount.get", "dst", Records(Strings({"src", "dst", "type", "opts"})))
cmd_mount_remove(argv) == ByNameAnd(argv, "vxdb.mount.remove", "dst", Ignored)
cmd_mount_set(argv) ==
    Call(3, argv, "vxdb.mount.set",
         [name |-> S(argv[1]), src |-> S(argv[2]), dst |-> S(argv[3]),
          type |-> S(Arg(argv, 4, Blank)), opts |-> S(Arg(argv, 5, Blank))], Ignored)

cmd_nx_addr_get(argv) ==
    ByNameAnd(argv, "vxdb.nx.addr.get", "addr", Records(Strings({"addr", "netmask"})))
cmd_nx_addr_remove(argv) == ByNameAnd(argv, "vxdb.nx.addr.remove", "addr", Ignored)
cmd_nx_addr_set(argv) ==
    Call(2, argv, "vxdb.nx.addr.set",
         [name |-> S(argv[1]), addr |-> S(argv[2]), netmask |-> S(Arg(argv, 3, Blank))], Ignored)

cmd_nx_broadcast_get(argv) == ByName(argv, "vxdb.nx.broadcast.get", Text)
cmd_nx_broadcast_remove(argv) == ByName(argv, "vxdb.nx.broadcast.remove", Ignored)
cmd_nx_broadcast_set(argv) ==
    Call(2, argv, "vxdb.nx.broadcast.set",
         [name |-> S(argv[1]), broadcast |-> S(argv[2])], Ignored)

cmd_vx_bcaps_add(argv) ==
    Call(2, argv, "vxdb.vx.bcaps.add", [name |-> S(argv[1]), bcap |-> S(argv[2])], Ignored)
cmd_vx_bcaps_get(argv) == ByName(argv, "vxdb.vx.bcaps.get", TextArray)
cmd_vx_bcaps_remove(argv) == ByNameAnd(argv, "vxdb.vx.bcaps.remove", "bcap", Ignored)

cmd_vx_ccaps_add(argv) ==
    Call(2, argv, "vxdb.vx.ccaps.add", [name |-> S(argv[1]), ccap |-> S(argv[2])], Ignored)
cmd_vx_ccaps_get(argv) == ByName(argv, "vxdb.vx.ccaps.get", TextArray)
cmd_vx_ccaps_remove(argv) == ByNameAnd(argv, "vxdb.vx.ccaps.remove", "ccap", Ignored)

cmd_vx_flags_add(argv) ==
    Call(2, argv, "vxdb.vx.flags.add", [name |-> S(argv[1]), flag |-> S(argv[2])], Ignored)
cmd_vx_flags_get(argv) == ByName(argv, "vxdb.vx.flags.get", TextArray)
cmd_vx_flags_remove(argv) == ByNameAnd(argv, "vxdb.vx.flags.remove", "flag", Ignored)

cmd_vx_cpuset_get(argv) ==
    ByName(argv, "vxdb.vx.cpuset.get",
           Record([cpus |-> "s", mems |-> "s", virtualize |-> "i"], "cpus"))
cmd_vx_cpuset_remove(argv) == ByName(argv, "vxdb.vx.cpuset.remove", Ignored)

cmd_vx_cpuset_set(argv) ==
    Call(3, argv, "vxdb.vx.cpuset.set",
         [name |-> S(argv[1]), cpus |-> S(argv[2]), mems |-> S(argv[3]),
          virtualize |-> B(Number(argv, 4, 0))], Ignored)

cmd_vx_limit_get(argv) ==
    ByNameAnd(argv, "vxdb.vx.limit.get", "type", Records(Strings({"type", "soft", "max"})))
cmd_vx_limit_remove(argv) == ByNameAnd(argv, "vxdb.vx.limit.remove", "type", Ignored)

(* Mutant: a missing maximum is sent as it is. *)
cmd_vx_limit_set_NoMax(argv) ==
    Call(3, argv, "vxdb.vx.limit.set",
         [name |-> S(argv[1]), type |-> S(argv[2]), soft |-> S(argv[3]),
          max |-> S(Arg(argv, 4, "0"))], Ignored)

(* The maximum is the soft limit unless it is given. *)
cmd_vx_limit_set(argv) ==
    Call(3, argv, "vxdb.vx.limit.set",
         [name |-> S(argv[1]), type |-> S(argv[2]), soft |-> S(argv[3]),
          max |-> S(Arg(argv, 4, argv[3]))], Ignored)

(* The variables are not initialised: garbage is what they hold when an    *)
(* argument is not a number.                                               *)
cmd_vx_sched_get(argv, garbage) ==
    Call(1, argv, "vxdb.vx.sched.get",
         [name |-> S(argv[1]),
          cpuid |-> I(IF Len(argv) > 1 THEN Number(argv, 2, garbage) ELSE -2)],
         Records(Ints({"cpuid", "interval", "fillrate", "interval2", "fillrate2",
                       "tokensmin", "tokensmax"})))
cmd_vx_sched_remove(argv, garbage) ==
    Call(1, argv, "vxdb.vx.sched.remove",
         [name |-> S(argv[1]),
          cpuid |-> I(IF Len(argv) > 1 THEN Number(argv, 2, garbage) ELSE -2)], Ignored)
cmd_vx_sched_set(argv, garbage) ==
    LET N(i) == I(Number(argv, i, garbage)) IN
    Call(8, argv, "vxdb.vx.sched.set",
         [name |-> S(argv[1]), cpuid |-> N(2), interval |-> N(3), fillrate |-> N(4),
          interval2 |-> N(5), fillrate2 |-> N(6), tokensmin |-> N(7), tokensmax |-> N(8)],
         Ignored)

cmd_vx_uname_get(argv) ==
    ByNameAnd(argv, "vxdb.vx.uname.get", "type", Records(Strings({"type", "value"})))
cmd_vx_uname_remove(argv) == ByNameAnd(argv, "vxdb.vx.uname.remove", "type", Ignored)
cmd_vx_uname_set(argv) ==
    Call(3, argv, "vxdb.vx.uname.set",
         [name |-> S(argv[1]), type |-> S(argv[2]), value |-> S(argv[3])], Ignored)

Vce(cmd, argv, garbage) ==
    CASE cmd = "dx.limit.get"        -> cmd_dx_limit_get(argv)
      [] cmd = "dx.limit.remove"     -> cmd_dx_limit_remove(argv)
      [] cmd = "dx.limit.set"        -> cmd_dx_limit_set(argv)
      [] cmd = "init.get"            -> cmd_init_get(argv)
      [] cmd = "init.set"            -> cmd_init_set(argv)
      [] cmd = "list"                -> vce_cmd_list(argv)
      [] cmd = "mount.get"           -> cmd_mount_get(argv)
      [] cmd = "mount.remove"        -> cmd_mount_remove(argv)
      [] cmd = "mount.set"           -> cmd_mount_set(argv)
      [] cmd = "nx.addr.get"         -> cmd_nx_addr_get(argv)
      [] cmd = "nx.addr.remove"      -> cmd_nx_addr_remove(argv)
      [] cmd = "nx.addr.set"         -> cmd_nx_addr_set(argv)
      [] cmd = "nx.broadcast.get"    -> cmd_nx_broadcast_get(argv)
      [] cmd = "nx.broadcast.remove" -> cmd_nx_broadcast_remove(argv)
      [] cmd = "nx.broadcast.set"    -> cmd_nx_broadcast_set(argv)
      [] cmd = "vx.bcaps.add"        -> cmd_vx_bcaps_add(argv)
      [] cmd = "vx.bcaps.get"        -> cmd_vx_bcaps_get(argv)
      [] cmd = "vx.bcaps.remove"     -> cmd_vx_bcaps_remove(argv)
      [] cmd = "vx.ccaps.add"        -> cmd_vx_ccaps_add(argv)
      [] cmd = "vx.ccaps.get"        -> cmd_vx_ccaps_get(argv)
      [] cmd = "vx.ccaps.remove"     -> cmd_vx_ccaps_remove(argv)
      [] cmd = "vx.cpuset.get"       -> cmd_vx_cpuset_get(argv)
      [] cmd = "vx.cpuset.remove"    -> cmd_vx_cpuset_remove(argv)
      [] cmd = "vx.cpuset.set"       -> cmd_vx_cpuset_set(argv)
      [] cmd = "vx.flags.add"        -> cmd_vx_flags_add(argv)
      [] cmd = "vx.flags.get"        -> cmd_vx_flags_get(argv)
      [] cmd = "vx.flags.remove"     -> cmd_vx_flags_remove(argv)
      [] cmd = "vx.limit.get"        -> cmd_vx_limit_get(argv)
      [] cmd = "vx.limit.remove"     -> cmd_vx_limit_remove(argv)
      [] cmd = "vx.limit.set"        -> cmd_vx_limit_set(argv)
      [] cmd = "vx.sched.get"        -> cmd_vx_sched_get(argv, garbage)
      [] cmd = "vx.sched.remove"     -> cmd_vx_sched_remove(argv, garbage)
      [] cmd = "vx.sched.set"        -> cmd_vx_sched_set(argv, garbage)
      [] cmd = "vx.uname.get"        -> cmd_vx_uname_get(argv)
      [] cmd = "vx.uname.remove"     -> cmd_vx_uname_remove(argv)
      [] cmd = "vx.uname.set"        -> cmd_vx_uname_set(argv)
      [] OTHER -> Invalid

-----------------------------------------------------------------------------
(* vgc *)

ByGroup(argv, method) == Call(1, argv, method, [group |-> S(argv[1])], Ignored)

vgc_cmd_add(argv) ==
    Call(1, argv, "vg.add", [group |-> S(argv[1]), name |-> S(Arg(argv, 2, Blank))], Ignored)
vgc_cmd_list(argv) == Call(0, argv, "vg.list", [group |-> S(Arg(argv, 1, Blank))], TextArray)
vgc_cmd_remove(argv) ==
    Call(1, argv, "vg.remove", [group |-> S(argv[1]), name |-> S(Arg(argv, 2, Blank))], Ignored)
vgc_cmd_vx_reboot(argv) == ByGroup(argv, "vg.vx.reboot")
vgc_cmd_vx_restart(argv) == ByGroup(argv, "vg.vx.restart")
vgc_cmd_vx_start(argv) == ByGroup(argv, "vg.vx.start")
vgc_cmd_vx_stop(argv) == ByGroup(argv, "vg.vx.stop")

Vgc(cmd, argv) ==
    CASE cmd = "add"        -> vgc_cmd_add(argv)
      [] cmd = "list"       -> vgc_cmd_list(argv)
      [] cmd = "remove"     -> vgc_cmd_remove(argv)
      [] cmd = "vx.reboot"  -> vgc_cmd_vx_reboot(argv)
      [] cmd = "vx.restart" -> vgc_cmd_vx_restart(argv)
      [] cmd = "vx.start"   -> vgc_cmd_vx_start(argv)
      [] cmd = "vx.stop"    -> vgc_cmd_vx_stop(argv)
      [] OTHER -> Invalid

-----------------------------------------------------------------------------
(* vcdadm *)

(* client_call0 sends an empty string instead of a structure. *)
NoParams == [x \in {} |-> S(Blank)]

cmd_hostinfo(argv) ==
    Call(0, argv, "vcd.hostinfo", NoParams,
         Record([vbasedir |-> "s", cpus |-> "i", memnodes |-> "i"], Blank))
vcdadm_cmd_status(argv) ==
    Call(0, argv, "vcd.status", NoParams,
         Record(Ints({"uptime", "requests", "nomethod", "flogins"}), Blank))

cmd_user_get(argv) ==
    Call(0, argv, "vcd.user.get", [username |-> S(Arg(argv, 1, Blank))],
         Records([username |-> "s", uid |-> "i", admin |-> "i"]))
cmd_user_remove(argv) ==
    Call(1, argv, "vcd.user.remove", [username |-> S(argv[1])], Ignored)
cmd_user_set(argv) ==
    Call(2, argv, "vcd.user.set",
         [username |-> S(argv[1]), password |-> S(Arg(argv, 3, Blank)),
          admin |-> B(Number(argv, 2, 0))], Ignored)

cmd_user_caps_add(argv) ==
    Call(2, argv, "vcd.user.caps.add", [username |-> S(argv[1]), cap |-> S(argv[2])], Ignored)
cmd_user_caps_get(argv) ==
    Call(1, argv, "vcd.user.caps.get", [username |-> S(argv[1])], TextArray)
cmd_user_caps_remove(argv) ==
    Call(1, argv, "vcd.user.caps.remove",
         [username |-> S(argv[1]), cap |-> S(Arg(argv, 2, Blank))], Ignored)

Vcdadm(cmd, argv) ==
    CASE cmd = "hostinfo"         -> cmd_hostinfo(argv)
      [] cmd = "status"           -> vcdadm_cmd_status(argv)
      [] cmd = "user.set"         -> cmd_user_set(argv)
      [] cmd = "user.get"         -> cmd_user_get(argv)
      [] cmd = "user.remove"      -> cmd_user_remove(argv)
      [] cmd = "user.caps.add"    -> cmd_user_caps_add(argv)
      [] cmd = "user.caps.get"    -> cmd_user_caps_get(argv)
      [] cmd = "user.caps.remove" -> cmd_user_caps_remove(argv)
      [] OTHER -> Invalid

(* Methods that no command calls are called by other programs that speak   *)
(* XML-RPC, such as the script in test/.                                   *)
Script(cmd, argv) ==
    CASE cmd = "vcd.login"         -> Call(0, argv, cmd, NoParams, Ignored)
      [] cmd = "vxdb.name.get"     -> Call(1, argv, cmd, [xid |-> I(Number(argv, 1, 0))], Text)
      [] cmd = "vxdb.owner.add"    -> ByNameAnd(argv, cmd, "username", Ignored)
      [] cmd = "vxdb.owner.get"    -> ByName(argv, cmd, TextArray)
      [] cmd = "vxdb.owner.remove" -> ByNameAnd(argv, cmd, "username", Ignored)
      [] OTHER -> Call(0, argv, cmd, NoParams, Ignored)

(* The call of a command line; each program has its own table. *)
CallOf(line, garbage) ==
    CASE line.tool = "vcc"    -> Vcc(line.cmd, line.argv)
      [] line.tool = "vce"    -> Vce(line.cmd, line.argv, garbage)
      [] line.tool = "vgc"    -> Vgc(line.cmd, line.argv)
      [] line.tool = "vcdadm" -> Vcdadm(line.cmd, line.argv)
      [] line.tool = "script" -> Script(line.cmd, line.argv)
=============================================================================
