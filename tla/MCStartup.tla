------------------------------ MODULE MCStartup ------------------------------
EXTENDS Startup

Call(method, params) == [method |-> method, params |-> params]
N == S("a")

(* The numerals of the calls below; "05" is one of 5 too. *)
MCDigits == {"1", "2", "3", "05", "7", "9", "15", "0"}
MCNumerals == [s \in MCDigits |-> IF s = "05" THEN 5 ELSE CHOOSE n \in 0 .. 15 : ToString(n) = s]

(* Words of 4 bits, 2 for a KB, pages of 4: 9 * 2 wraps, and 15 is refused. *)
LimitCalls ==
    {Call("vxdb.vx.limit.set", [name |-> N, type |-> S(t), soft |-> S(l[1]), max |-> S(l[2])]) :
        t \in LimitTypes, l \in {<<"05", "7">>, <<"3", "9">>, <<"1", "15">>}}
    \cup {Call("vxdb.vx.limit.remove", [name |-> N, type |-> S(t)]) : t \in {"", "RSS"}}

DiskCalls ==
    {Call("vxdb.dx.limit.set", [name |-> N, space |-> S("2"), inodes |-> S("2"),
                                reserved |-> I(r)]) : r \in {0, 5}}
    \cup {Call("vxdb.dx.limit.remove", [name |-> N])}

SchedCalls ==
    {Call("vxdb.vx.sched.set", [name |-> N, cpuid |-> I(c), fillrate |-> I(f), interval |-> I(2),
                                fillrate2 |-> I(0), interval2 |-> I(0),
                                tokensmin |-> I(0), tokensmax |-> I(4)]) :
        c \in -1 .. NumCpus, f \in 1 .. 3}
    \cup {Call("vxdb.vx.sched.remove", [name |-> N, cpuid |-> I(c)]) : c \in {-2, 0}}

OtherCalls ==
    {Call("vxdb.vx.bcaps.add", [name |-> N, bcap |-> S("flag")]),
     Call("vxdb.vx.bcaps.remove", [name |-> N, bcap |-> S("")]),
     Call("vxdb.vx.ccaps.add", [name |-> N, ccap |-> S("flag")]),
     Call("vxdb.vx.ccaps.remove", [name |-> N, ccap |-> S("flag")]),
     Call("vxdb.vx.flags.add", [name |-> N, flag |-> S("flag")]),
     Call("vxdb.vx.flags.remove", [name |-> N, flag |-> S("flag")]),
     Call("vxdb.vx.uname.set", [name |-> N, type |-> S("NODENAME"), value |-> S("host")]),
     Call("vxdb.vx.uname.remove", [name |-> N, type |-> S("")]),
     Call("vxdb.vx.cpuset.set", [name |-> N, cpus |-> S("1"), mems |-> S("0"), virtualize |-> B(1)]),
     Call("vxdb.vx.cpuset.remove", [name |-> N]),
     Call("vxdb.mount.set", [name |-> N, src |-> S("/dev"), dst |-> S("/"), type |-> S(""), opts |-> S("")]),
     Call("vxdb.mount.set", [name |-> N, src |-> S(""), dst |-> S("/proc"), type |-> S("proc"), opts |-> S("")]),
     Call("vxdb.mount.remove", [name |-> N, dst |-> S("")]),
     Call("vxdb.nx.addr.set", [name |-> N, addr |-> S("10.0.0.1"), netmask |-> S("")]),
     Call("vxdb.nx.addr.remove", [name |-> N, addr |-> S("10.0.0.1")]),
     Call("vxdb.nx.broadcast.set", [name |-> N, broadcast |-> S("10.0.0.255")]),
     Call("vxdb.nx.broadcast.remove", [name |-> N]),
     Call("vxdb.init.set", [name |-> N, init |-> S(""), halt |-> S(""), reboot |-> S(""), timeout |-> I(0)])}

MCRequests == LimitCalls \cup DiskCalls \cup SchedCalls \cup OtherCalls
MCDiskUses == {[space |-> 1, inodes |-> 1], [space |-> 3, inodes |-> 1]}
=============================================================================
