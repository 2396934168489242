------------------------------- MODULE VceSpec -------------------------------
(***************************************************************************)
(* What the usage text of vce and the manual promise its users, said       *)
(* without the daemon: a command that succeeds has changed the vserver it  *)
(* names the way it says, or shows what the commands before it have left;  *)
(* one that fails has changed nothing; of one that never gets an answer    *)
(* nobody knows.                                                           *)
(*                                                                         *)
(* lines[x][t] is a function from the key of a row of vserver x (a flag,   *)
(* an address, a mount point, ...) to the line that shows it, called[n]    *)
(* the vserver with name n, and job[c] the command that client c runs.     *)
(***************************************************************************)
EXTENDS Wire, Sequences

CONSTANTS Clients, Names, Vservers,
          Lines,    \* command lines [cmd, argv] of vce
          Sent,     \* what the program sends for a number it cannot read
          Fresh,    \* lines that a new vserver may have
          Start,    \* lines in the beginning
          Called    \* names in the beginning

VARIABLES lines, called, job

(* The commands on each table. *)
CommandsOn ==
    [dx_limit     |-> {"dx.limit.get", "dx.limit.remove", "dx.limit.set"},
     init         |-> {"init.get", "init.set"},
     mount        |-> {"mount.get", "mount.remove", "mount.set"},
     nx_addr      |-> {"nx.addr.get", "nx.addr.remove", "nx.addr.set"},
     nx_broadcast |-> {"nx.broadcast.get", "nx.broadcast.remove", "nx.broadcast.set"},
     vx_bcaps     |-> {"vx.bcaps.get", "vx.bcaps.remove", "vx.bcaps.add"},
     vx_ccaps     |-> {"vx.ccaps.get", "vx.ccaps.remove", "vx.ccaps.add"},
     vx_flags     |-> {"vx.flags.get", "vx.flags.remove", "vx.flags.add"},
     vx_cpuset    |-> {"vx.cpuset.get", "vx.cpuset.remove", "vx.cpuset.set"},
     vx_limit     |-> {"vx.limit.get", "vx.limit.remove", "vx.limit.set"},
     vx_sched     |-> {"vx.sched.get", "vx.sched.remove", "vx.sched.set"},
     vx_uname     |-> {"vx.uname.get", "vx.uname.remove", "vx.uname.set"}]

(* The table a command is about. *)
Meaning(cmd) == CHOOSE t \in DOMAIN CommandsOn : cmd \in CommandsOn[t]

Shows == {"dx.limit.get", "init.get", "mount.get", "nx.addr.get", "nx.broadcast.get",
          "vx.bcaps.get", "vx.ccaps.get", "vx.flags.get", "vx.cpuset.get", "vx.limit.get",
          "vx.sched.get", "vx.uname.get"}
Removes == {"dx.limit.remove", "mount.remove", "nx.addr.remove", "nx.broadcast.remove",
            "vx.bcaps.remove", "vx.ccaps.remove", "vx.flags.remove", "vx.cpuset.remove",
            "vx.limit.remove", "vx.sched.remove", "vx.uname.remove"}

NoLines == [t \in DOMAIN CommandsOn |-> [k \in {} |-> {}]]

(* Tables with one row per vserver. *)
Unique == {"dx_limit", "init", "nx_broadcast", "vx_cpuset"}

Optional(argv, i, default) ==
    IF Len(argv) < i \/ argv[i] = Blank THEN default ELSE argv[i]

(* The key a command names.  A cpuid that is not a number is whatever the  *)
(* program sends for it.                                                   *)
KeyOf(line, sent) ==
    LET t == Meaning(line.cmd) IN
    CASE t \in Unique             -> "xid"
      [] line.cmd = "mount.set"   -> line.argv[3]
      [] t = "vx_sched"           -> sscanf(line.argv[2], sent)
      [] OTHER                    -> line.argv[2]

(* The line that a set or add command asks for.  Limits are shown as the  *)
(* numbers they are: "05" becomes "5".                                     *)
LineOf(line, sent) ==
    LET a == line.argv
        Num(i) == sscanf(a[i], 0)
        Sched(i) == sscanf(a[i], sent)
        t == Meaning(line.cmd)
    IN CASE t = "dx_limit"     -> [space |-> ToString(Num(2)), inodes |-> ToString(Num(3)),
                                   reserved |-> Num(4)]
         [] t = "init"         -> [init |-> Optional(a, 2, "/sbin/init"),
                                   halt |-> Optional(a, 3, "/sbin/halt"),
                                   reboot |-> Optional(a, 4, "/sbin/reboot"),
                                   timeout |-> IF Len(a) < 5 THEN 0 ELSE Num(5)]
         [] t = "mount"        -> [src |-> Optional(a, 2, "none"), dst |-> a[3],
                                   type |-> Optional(a, 4, "auto"),
                                   opts |-> Optional(a, 5, "defaults")]
         [] t = "nx_addr"      -> [addr |-> a[2], netmask |-> Optional(a, 3, "255.255.255.255")]
         [] t = "vx_cpuset"    -> [cpus |-> a[2], mems |-> a[3],
                                   virtualize |-> IF Len(a) < 4 \/ Num(4) = 0 THEN 0 ELSE 1]
         [] t = "vx_limit"     -> [type |-> a[2], soft |-> ToString(Num(3)),
                                   max |-> ToString(sscanf(Optional(a, 4, a[3]), 0))]
         [] t = "vx_sched"     -> [cpuid |-> Sched(2),
                                   interval |-> Sched(3), fillrate |-> Sched(4),
                                   interval2 |-> Sched(5), fillrate2 |-> Sched(6),
                                   tokensmin |-> Sched(7), tokensmax |-> Sched(8)]
         [] t = "vx_uname"     -> [type |-> a[2], value |-> a[3]]
         [] OTHER              -> a[2]

(* Without the optional argument a command is about all rows.  An empty    *)
(* one is missing too, but for a cpuid, which is a number.                 *)
OnAll(line) ==
    LET t == Meaning(line.cmd) IN
    t \in Unique \/ Len(line.argv) < 2 \/ (line.argv[2] = Blank /\ t # "vx_sched")

(* What the lines are after a command that changed something. *)
Promise(w, line, sent) ==
    LET t == Meaning(line.cmd)
        key == KeyOf(line, sent)
        gone == {k \in DOMAIN w[t] : OnAll(line) \/ k = key \/ (t = "vx_sched" /\ key = -2)}
    IN IF line.cmd \in Removes
       THEN [w EXCEPT ![t] = [k \in DOMAIN @ \ gone |-> @[k]]]
       ELSE [w EXCEPT ![t] = [k \in DOMAIN @ \cup {key} |->
                                 IF k = key THEN LineOf(line, sent) ELSE @[k]]]

(* The lines a get command shows, with its name.  Only init has defaults. *)
Shown(w, line, sent) ==
    LET t == Meaning(line.cmd)
        all == OnAll(line) \/ t \in {"vx_bcaps", "vx_ccaps", "vx_flags"}
        keys == {k \in DOMAIN w[t] : all \/ k = KeyOf(line, sent)
                                     \/ (t = "vx_sched" /\ KeyOf(line, sent) = -2)}
    IN IF t = "init" /\ keys = {}
       THEN {<<line.cmd, [init |-> "/sbin/init", halt |-> "/sbin/halt",
                          reboot |-> "/sbin/reboot", timeout |-> 15]>>}
       ELSE {<<line.cmd, w[t][k]>> : k \in keys}

-----------------------------------------------------------------------------

(* A command is asked for; it finds the vserver x that has the name it     *)
(* gives; it is done, with the lines it prints, or it has failed; or the   *)
(* answer is lost.                                                         *)
Free == [at |-> "free"]
Asked(line) == [at |-> "asked", line |-> line]
Aimed(line, x) == [at |-> "aimed", line |-> line, x |-> x]
Done(line, printed) == [at |-> "done", line |-> line, printed |-> printed]
Failed(line) == [at |-> "failed", line |-> line]
Lost(line) == [at |-> "lost", line |-> line]

Init == lines = Start /\ called = Called /\ job = [c \in Clients |-> Free]

(* It fails at once when there is no daemon to be asked. *)
Begun == UNION {{Asked(line), Failed(line)} : line \in Lines}
Ask(c) ==
    /\ job[c].at = "free" /\ job'[c] \in Begun
    /\ job' = [job EXCEPT ![c] = job'[c]]
    /\ UNCHANGED <<lines, called>>

Aim(c) ==
    LET name == job[c].line.argv[1] IN
    /\ job[c].at = "asked" /\ name \in DOMAIN called
    /\ job' = [job EXCEPT ![c] = Aimed(job[c].line, called[name])]
    /\ UNCHANGED <<lines, called>>

(* A command that changes lines is done when it has changed those of the   *)
(* vserver it has found, and that still has the name.                      *)
Change(c) ==
    LET line == job[c].line
        x == job[c].x
    IN /\ job[c].at = "aimed" /\ line.cmd \notin Shows
       /\ line.argv[1] \in DOMAIN called /\ called[line.argv[1]] = x
       /\ \E n \in Sent : lines' = [lines EXCEPT ![x] = Promise(lines[x], line, n)]
       /\ job' = [job EXCEPT ![c] = Done(line, {})]
       /\ UNCHANGED called

(* A get command is done when it shows all that there is at that moment.   *)
(* It holds no lock: the vserver it has found may have lost its name.      *)
Show(c) ==
    LET line == job[c].line IN
    /\ job[c].at = "aimed" /\ line.cmd \in Shows
    /\ \E n \in Sent :
          job' = [job EXCEPT ![c] = Done(line, Shown(lines[job[c].x], line, n))]
    /\ UNCHANGED <<lines, called>>

Fail(c) ==
    /\ job[c].at \in {"asked", "aimed"}
    /\ job' = [job EXCEPT ![c] = Failed(job[c].line)]
    /\ UNCHANGED <<lines, called>>

(* The answer does not come, before or after the command was done. *)
Lose(c) ==
    /\ job[c].at \in {"asked", "aimed", "done", "failed"}
    /\ job' = [job EXCEPT ![c] = Lost(job[c].line)]
    /\ UNCHANGED <<lines, called>>

(* Lines or fault are printed. *)
End(c) ==
    /\ job[c].at \in {"done", "failed", "lost"}
    /\ job' = [job EXCEPT ![c] = Free]
    /\ UNCHANGED <<lines, called>>

-----------------------------------------------------------------------------
(* What other programs do to the vservers.  No statement of vcd deletes    *)
(* the cpuset of a vserver but vxdb.vx.cpuset.remove.                      *)
Renewed(w, x, new) ==
    {[w EXCEPT ![x] = [l EXCEPT !.vx_cpuset = w[x].vx_cpuset]] : l \in new}

(* A vserver is created, with an xid of its own, or rebuilt. *)
Create(name, x) ==
    /\ IF name \in DOMAIN called THEN called[name] = x
       ELSE \A m \in DOMAIN called : called[m] # x
    /\ called' = [m \in DOMAIN called \cup {name} |-> IF m = name THEN x ELSE called[m]]
    /\ lines' \in Renewed(lines, x, Fresh)

Remove(name) ==
    /\ name \in DOMAIN called
    /\ called' = [m \in DOMAIN called \ {name} |-> called[m]]
    /\ lines' \in Renewed(lines, called[name], {NoLines})

Rename(name, new) ==
    /\ name \in DOMAIN called /\ new \notin DOMAIN called
    /\ called' = [m \in (DOMAIN called \ {name}) \cup {new} |->
                     IF m = new THEN called[name] ELSE called[m]]
    /\ UNCHANGED lines

Registry ==
    /\ UNCHANGED job
    /\ \E name \in Names :
          \/ \E x \in Vservers : Create(name, x)
          \/ Remove(name)
          \/ \E new \in Names : Rename(name, new)

Next ==
    Registry
    \/ \E c \in Clients : \/ Ask(c) \/ Aim(c) \/ Change(c) \/ Show(c)
                          \/ Fail(c) \/ Lose(c) \/ End(c)
Spec == Init /\ [][Next]_<<lines, called, job>>
=============================================================================
