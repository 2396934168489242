----------------------------- MODULE VxLifecycle -----------------------------
(***************************************************************************)
(* The life of one vserver: vx.start, vx.stop, vx.restart, vx.reboot,      *)
(* vx.exec, vx.kill, vx.remove and the transaction of vx.create on one     *)
(* side, the kernel with its helper vshelper and the helper methods of the *)
(* daemon on the other.                                                    *)
(*                                                                         *)
(* The kernel is external and is modelled from how the code uses it: a     *)
(* context exists while it has tasks or is persistent; creating one runs   *)
(* vshelper and waits for it; a guest's reboot(2) runs vshelper (halt or   *)
(* restart) and then kills the guest; before a context without tasks goes  *)
(* away, vshelper runs once more (shutdown).                               *)
(***************************************************************************)
EXTENDS Naturals, FiniteSets

CONSTANTS Clients,   \* daemon children that serve users
          Waiters,   \* children helper.shutdown forks, a bound on their number
          Free,      \* nobody holds the name's lock
          Ops,       \* the methods users call
          GuestMay,  \* what a guest does by itself: "halt", "restart"
          Adverse    \* what may go wrong

(* The methods for one vserver, and those for all vservers of a group. *)
VxOps == {"start", "stop", "restart", "reboot", "exec", "kill", "remove",
          "create"}
VgOps == {"vg_start", "vg_stop", "vg_restart", "vg_reboot"}
AllOps == VxOps \cup VgOps

(* rpc: a helper method faults (a busy vxdb).  reload: the master gets     *)
(* SIGHUP.  orphan: a child dies while the grandchild it     *)
(* waits for goes on.  timeout: a polling loop runs out.  startup: a       *)
(* vserver does not come up.                                               *)
AllAdverse == {"rpc", "reload", "orphan", "timeout", "startup"}

ASSUME ConstantsAssumption ==
    /\ Clients \cap Waiters = {}
    /\ Free \notin Clients
    /\ Ops \subseteq AllOps
    /\ GuestMay \subseteq {"halt", "restart"}
    /\ Adverse \subseteq AllAdverse

Actors == Clients \cup Waiters

VARIABLES
    reg,      \* the vserver is in xid_name_map
    restart,  \* it has a row in table restart
    lock,     \* the holder of its name's lock
    pc, op,   \* what each child does, and for which method
    orphans,  \* grandchildren that go on after their child died
    inNx,     \* children that migrated to the network context
    nx,       \* the network context exists
    nxKeep,   \* it has NXF_PERSISTENT
    vx,       \* the context: none, setup (no task yet), up, dying
    vxKeep,   \* it has VXF_PERSISTENT
    guest,    \* what init in the context is doing
    boot,     \* vshelper_startup: none, call, poll
    death,    \* vshelper on the way down: none, halt, restart, shutdown, done
    master,   \* the master process: serves, reloads, or dead
    asked     \* the guest of the last context asked for a reboot (history)

db == <<reg, restart>>
net == <<nx, nxKeep, inNx>>
ctx == <<vx, vxKeep, guest>>
kernel == <<net, ctx, boot, death>>
procs == <<lock, pc, op, orphans>>
vars == <<db, procs, kernel, master, asked>>

PCs == {"idle", "group", "check", "commit", "exec", "run", "kill", "start",
        "clear", "info", "nx_create", "vx_create", "wait", "created",
        "wait_nx", "wait_vx", "late"}

TypeOK ==
    /\ reg \in BOOLEAN /\ restart \in BOOLEAN
    /\ lock \in Clients \cup {Free}
    /\ pc \in [Actors -> PCs]
    /\ op \in [Actors -> AllOps \cup {"none"}]
    /\ orphans \subseteq Clients /\ inNx \subseteq Clients
    /\ nx \in BOOLEAN /\ nxKeep \in BOOLEAN
    /\ vx \in {"none", "setup", "up", "dying"} /\ vxKeep \in BOOLEAN
    /\ guest \in {"run", "halt", "restart"}
    /\ boot \in {"none", "call", "poll"}
    /\ death \in {"none", "halt", "restart", "shutdown", "done"}
    /\ master \in {"serves", "reloads", "dead"} /\ asked \in BOOLEAN

(* The daemon starts beside a vserver that is stopped, or that runs. *)
Init ==
    /\ reg = TRUE /\ restart = FALSE
    /\ lock = Free
    /\ pc = [a \in Actors |-> "idle"]
    /\ op = [a \in Actors |-> "none"]
    /\ orphans = {} /\ inNx = {} /\ nxKeep = FALSE /\ vxKeep = FALSE
    /\ \/ vx = "none" /\ nx = FALSE
       \/ vx = "up" /\ nx = TRUE
    /\ guest = "run"
    /\ boot = "none" /\ death = "none"
    /\ master = "serves" /\ asked = FALSE

-----------------------------------------------------------------------------
(* Requests *)

Goto(a, l) == pc' = [pc EXCEPT ![a] = l]
Keep == UNCHANGED <<lock, op, orphans>>

(* The child answers and exits: its lock is free, it leaves the context. *)
Done(a) ==
    /\ Goto(a, "idle")
    /\ op' = [op EXCEPT ![a] = "none"]
    /\ lock' = IF lock = a THEN Free ELSE lock
    /\ orphans' = orphans \ {a} /\ inNx' = inNx \ {a}

(* vx.exec does not ask for M_LOCK, and neither do the methods for groups. *)
Locked(o) == o \notin VgOps \cup {"exec"}

(* A request arrives; one that finds the name locked gets MEBUSY. *)
Begin(c) ==
    /\ pc[c] = "idle" /\ master = "serves"
    /\ \E o \in Ops :
          /\ op' = [op EXCEPT ![c] = o]
          /\ IF Locked(o) THEN lock = Free /\ lock' = c ELSE UNCHANGED lock
          /\ Goto(c, CASE o \in VgOps -> "group"
                       [] o = "start" -> "start"
                       [] OTHER -> "check")
    /\ UNCHANGED <<db, orphans, kernel, master, asked>>

(* vg.vx.start calls vx.start for the vservers of the group that do not    *)
(* run, the others call their method for those that do.  An internal call  *)
(* takes no lock.                                                          *)
Group(c) ==
    LET call == [vg_start |-> "start", vg_stop |-> "stop",
                 vg_restart |-> "restart", vg_reboot |-> "reboot"]
    IN
    /\ pc[c] = "group"
    /\ IF reg /\ (op[c] = "vg_start" <=> vx = "none")
       THEN /\ op' = [op EXCEPT ![c] = call[op[c]]]
            /\ Goto(c, IF op[c] = "vg_start" THEN "start" ELSE "check")
            /\ UNCHANGED <<lock, orphans, inNx>>
       ELSE Done(c)
    /\ UNCHANGED <<db, nx, nxKeep, ctx, boot, death, master, asked>>

(* Mutant: vx.remove does not ask whether the vserver runs. *)
Allowed_RemovesRunning(o) ==
    IF o \in {"remove", "create"} THEN reg \/ o = "create" ELSE reg /\ vx # "none"

(* vxdb_getxid (MENOVPS) and vx_info: stop, restart, reboot, kill and exec *)
(* want a context (MESTOPPED), remove and the rebuild of create want none  *)
(* (MERUNNING); create accepts a name that is not registered.              *)
Allowed(o) ==
    CASE o = "remove" -> reg /\ vx = "none"
      [] o = "create" -> reg => vx = "none"
      [] OTHER -> reg /\ vx # "none"

(* The method's own checks, between method_init and its first effect. *)
Check(c) ==
    /\ pc[c] = "check"
    /\ IF Allowed(op[c])
       THEN /\ Goto(c, CASE op[c] = "kill" -> "kill"
                         [] op[c] \in {"remove", "create"} -> "commit"
                         [] OTHER -> "exec")
            /\ Keep /\ UNCHANGED inNx
       ELSE Done(c)
    /\ UNCHANGED <<db, nx, nxKeep, ctx, boot, death, master, asked>>

(* The transactions of vx.remove and vx.create; both delete the restart    *)
(* row.  A busy database makes them fail.                                  *)
Commit(c) ==
    /\ pc[c] = "commit"
    /\ \/ reg' = (op[c] = "create") /\ restart' = FALSE
       \/ "rpc" \in Adverse /\ UNCHANGED db
    /\ Done(c)
    /\ UNCHANGED <<nx, nxKeep, ctx, boot, death, master, asked>>

(* Mutant: vx.reboot asks for the action "reboot", which vshelper does not *)
(* know.                                                                   *)
m_vx_exec_Reboot(c) ==
    /\ pc[c] = "exec" /\ vx = "up" /\ nx
    /\ guest' = IF op[c] = "reboot" THEN "reboot" ELSE "halt"
    /\ Goto(c, "run") /\ inNx' = inNx \cup {c} /\ Keep
    /\ UNCHANGED <<db, nx, nxKeep, vx, vxKeep, boot, death, master, asked>>

(* vx.exec runs the command in the context, for vx.stop and vx.restart the *)
(* halt command, for vx.reboot the reboot command.  The child itself moves *)
(* to the namespace, the root and the network context of the vserver and   *)
(* stays there.  Any of this may fail, and fails if there is no task or no *)
(* network context any more.                                               *)
m_vx_exec(c) ==
    /\ pc[c] = "exec"
    /\ \/ /\ vx = "up" /\ nx
          /\ guest' = CASE op[c] \in {"stop", "restart"} -> "halt"
                        [] op[c] = "reboot" -> "restart"
                        [] OTHER -> guest
          /\ Goto(c, "run") /\ inNx' = inNx \cup {c} /\ Keep
       \/ Done(c) /\ UNCHANGED guest
    /\ UNCHANGED <<db, nx, nxKeep, vx, vxKeep, boot, death, master, asked>>

(* vx.exec and vx.reboot wait for the command.  vx.stop polls until the    *)
(* context is gone or the timeout is over (MEBUSY); vx.restart goes on to  *)
(* start the vserver, still with the lock.                                 *)
Poll(c) ==
    /\ pc[c] = "run"
    /\ \/ op[c] \in {"exec", "reboot"} /\ Done(c)
       \/ vx = "none" /\ op[c] = "stop" /\ Done(c)
       \/ /\ vx = "none" /\ op[c] = "restart"
          /\ Goto(c, "start") /\ Keep /\ UNCHANGED inNx
       \/ vx # "none" /\ "timeout" \in Adverse /\ Done(c)
    /\ UNCHANGED <<db, nx, nxKeep, ctx, boot, death, master, asked>>

(* vx.kill: the signal ends all tasks, or changes nothing here. *)
m_vx_kill(c) ==
    /\ pc[c] = "kill"
    /\ \/ vx = "up" /\ death = "none" /\ vx' = "dying"
       \/ UNCHANGED vx
    /\ Done(c)
    /\ UNCHANGED <<db, nx, nxKeep, vxKeep, guest, boot, death, master, asked>>

-----------------------------------------------------------------------------
(* vx.start, for a client, for vx.restart, and for helper.shutdown *)

StartXid(a) ==
    /\ pc[a] = "start"
    /\ IF reg THEN Goto(a, "clear") /\ Keep /\ UNCHANGED inNx ELSE Done(a)
    /\ UNCHANGED <<db, nx, nxKeep, ctx, boot, death, master, asked>>

(* remove persistent in case previous helper failed *)
ClearPersistent(a) ==
    /\ pc[a] = "clear"
    /\ nxKeep' = FALSE /\ vxKeep' = FALSE
    /\ Goto(a, "info") /\ Keep
    /\ UNCHANGED <<db, nx, inNx, vx, guest, boot, death, master, asked>>

(* now check if context is still running *)
CheckRunning(a) ==
    /\ pc[a] = "info"
    /\ IF vx = "none" THEN Goto(a, "nx_create") /\ Keep /\ UNCHANGED inNx
                      ELSE Done(a)
    /\ UNCHANGED <<db, nx, nxKeep, ctx, boot, death, master, asked>>

(* The daemon's children and grandchildren have inherited its listening    *)
(* socket.                                                                 *)
Held == \E a \in Actors : pc[a] # "idle"

(* vshelper calls a helper method.  The method answers if the daemon       *)
(* serves and knows the xid.  While the master reloads nobody accepts: the *)
(* call waits in the queue of the socket the master has closed as long as  *)
(* a child or grandchild has it open, and is refused when none has.        *)
HelperAnswers == master = "serves" /\ reg
HelperFaults == IF master = "serves" THEN ~reg ELSE ~Held
HelperMayFault(why) == HelperFaults \/ (master = "serves" /\ Adverse \cap why # {})

(* The grandchild: nx_create, which fails if the network context exists,   *)
(* and runs vshelper netup otherwise, and waits for it.  A failure is      *)
(* printed, no more.                                                       *)
nx_create(a) ==
    /\ pc[a] = "nx_create"
    /\ \/ nx /\ UNCHANGED <<nx, nxKeep>>
       \/ ~nx /\ HelperAnswers /\ nx' = TRUE /\ nxKeep' = TRUE
       \/ /\ ~nx /\ HelperMayFault({"rpc", "startup"})
          /\ nx' \in BOOLEAN /\ nxKeep' = nx'
    /\ Goto(a, "vx_create") /\ Keep
    /\ UNCHANGED <<db, inNx, ctx, boot, death, master, asked>>

(* The grandchild: vx_create, which fails if the context exists.           *)
(* Otherwise the kernel runs vshelper startup and the call waits for it.   *)
vx_create(a) ==
    /\ pc[a] = "vx_create"
    /\ IF vx = "none"
       THEN /\ vx' = "setup" /\ vxKeep' = TRUE /\ guest' = "run"
            /\ boot' = "call" /\ asked' = FALSE
            /\ Goto(a, "wait")
       ELSE Goto(a, "created") /\ UNCHANGED <<ctx, boot, asked>>
    /\ Keep /\ UNCHANGED <<db, net, death, master>>

(* vx_create is back: the grandchild exits with EXIT_SUCCESS whatever      *)
(* happened, and vx.start returns nil.                                     *)
Started(a) ==
    /\ pc[a] = "created"
    /\ Done(a)
    /\ UNCHANGED <<db, nx, nxKeep, ctx, boot, death, master, asked>>

(* The child dies (SIGHUP) while its grandchild creates the contexts: the  *)
(* lock was the child's, and the grandchild goes on without it.            *)
Orphan(c) ==
    /\ "orphan" \in Adverse
    /\ pc[c] \in {"nx_create", "vx_create", "wait", "created"} /\ c \notin orphans
    /\ orphans' = orphans \cup {c}
    /\ lock' = IF lock = c THEN Free ELSE lock
    /\ UNCHANGED <<db, pc, op, kernel, master, asked>>

-----------------------------------------------------------------------------
(* vshelper startup *)

(* When vshelper exits, the vx_create that waits for it returns. *)
HelperReturns ==
    /\ boot' = "none"
    /\ pc' = [a \in Actors |-> IF pc[a] = "wait" THEN "created" ELSE pc[a]]

(* Mutant: helper.startup asks for the lock of the name. *)
helper_startup_Locks ==
    /\ boot = "call" /\ lock = Free
    /\ \/ HelperAnswers /\ boot' = "poll" /\ UNCHANGED pc
       \/ HelperMayFault({"rpc", "startup"}) /\ HelperReturns
    /\ Keep /\ UNCHANGED <<db, net, ctx, death, master, asked>>

(* It calls helper.startup, which wants the xid to be known and the        *)
(* context to exist, applies the configuration and returns init's path.    *)
(* After a fault vshelper returns at once and clears no flag.              *)
helper_startup ==
    /\ boot = "call"
    /\ \/ HelperAnswers /\ boot' = "poll" /\ UNCHANGED <<pc, vxKeep>>
       \/ /\ HelperMayFault({"rpc", "startup"})
          /\ HelperReturns /\ vxKeep' \in {vxKeep, FALSE}
    /\ Keep /\ UNCHANGED <<db, net, vx, guest, death, master, asked>>

(* The child of vshelper enters the namespace, the root and the network    *)
(* context, logs what fails, and then executes init in the context, with   *)
(* or without a network context.                                           *)
InitRuns ==
    /\ boot = "poll" /\ vx = "setup"
    /\ vx' = "up"
    /\ UNCHANGED <<db, procs, net, vxKeep, guest, boot, death, master, asked>>

(* It polls for tasks for 15 seconds; either way the contexts are no       *)
(* longer persistent when it returns.                                      *)
vshelper_startup ==
    /\ boot = "poll"
    /\ vx # "setup" \/ "startup" \in Adverse
    /\ HelperReturns /\ vxKeep' = FALSE /\ nxKeep' = FALSE
    /\ Keep /\ UNCHANGED <<db, nx, inNx, vx, guest, death, master, asked>>

-----------------------------------------------------------------------------
(* The way down *)

(* init calls reboot(2), because it was told to or by itself.  Waiters     *)
(* bounds the reboots that are under way.                                  *)
GuestReboot ==
    /\ vx = "up" /\ death = "none"
    /\ \E how \in (GuestMay \cup {guest}) \ {"run"} :
          /\ how = "restart" => \E w \in Waiters : pc[w] = "idle"
          /\ death' = how /\ asked' = (how = "restart")
    /\ UNCHANGED <<db, procs, net, ctx, boot, master>>

(* helper.restart wants the xid to be known and inserts the row. *)
helper_restart == HelperAnswers /\ restart' = TRUE

(* vshelper restart records the request with helper.restart and clears the *)
(* flags; if the call faults it returns at once.  vshelper halt clears the *)
(* flags.  The kernel then kills the guest (VXF_REBOOT_KILL).              *)
vshelper_restart ==
    /\ death = "restart"
    /\ \/ helper_restart /\ nxKeep' = FALSE /\ vxKeep' = FALSE
       \/ /\ HelperMayFault({"rpc"})
          /\ UNCHANGED <<restart, nxKeep, vxKeep>>
    /\ vx' = "dying" /\ death' = "none"
    /\ UNCHANGED <<reg, procs, nx, inNx, guest, boot, master, asked>>

vshelper_halt ==
    /\ death = "halt"
    /\ nxKeep' = FALSE /\ vxKeep' = FALSE
    /\ vx' = "dying" /\ death' = "none"
    /\ UNCHANGED <<db, procs, nx, inNx, guest, boot, master, asked>>

(* Nothing holds the context any more: vshelper shutdown runs. *)
Dispose ==
    /\ vx \in {"setup", "dying"} /\ ~vxKeep /\ boot = "none" /\ death = "none"
    /\ vx' = "dying" /\ death' = "shutdown"
    /\ UNCHANGED <<db, procs, net, vxKeep, guest, boot, master, asked>>

(* Mutant: helper.shutdown looks at the row and does not delete it. *)
helper_shutdown_KeepsRow ==
    /\ death = "shutdown" /\ death' = "done"
    /\ \/ /\ HelperAnswers /\ restart
          /\ \E w \in Waiters : pc[w] = "idle" /\ Goto(w, "wait_nx")
       \/ HelperAnswers /\ ~restart /\ UNCHANGED pc
       \/ HelperMayFault({"rpc"}) /\ UNCHANGED pc
    /\ UNCHANGED <<db, lock, op, orphans, net, ctx, boot, master, asked>>

(* helper.shutdown deletes the row of table restart; if there was one, it  *)
(* forks a child that waits for the contexts to go away.                   *)
helper_shutdown ==
    /\ death = "shutdown"
    /\ \/ /\ HelperAnswers /\ restart
          /\ restart' = FALSE
          /\ \E w \in Waiters : pc[w] = "idle" /\ Goto(w, "wait_nx")
       \/ HelperAnswers /\ ~restart /\ UNCHANGED <<pc, restart>>
       \/ /\ HelperMayFault({"rpc"})
          /\ UNCHANGED <<pc, restart>>
    /\ death' = "done"
    /\ UNCHANGED <<reg, lock, op, orphans, net, ctx, boot, master, asked>>

(* The kernel releases the context, and the network context when no task   *)
(* is left in it.                                                          *)
Reap ==
    /\ death = "done"
    /\ vx' = "none" /\ death' = "none"
    /\ UNCHANGED <<db, procs, net, vxKeep, guest, boot, master, asked>>

ReapNx ==
    /\ nx /\ ~nxKeep /\ inNx = {} /\ vx # "up"
    /\ nx' = FALSE
    /\ UNCHANGED <<db, procs, nxKeep, inNx, ctx, boot, death, master, asked>>

(* Mutant: the child of helper.shutdown starts the vserver at once. *)
Wait_NotAtAll(w) ==
    /\ pc[w] = "wait_nx"
    /\ Goto(w, "start") /\ op' = [op EXCEPT ![w] = "start"]
    /\ UNCHANGED <<db, lock, orphans, kernel, master, asked>>

(* The child of helper.shutdown polls for the end of the network context,  *)
(* then of the context, within one timeout, and then starts the vserver.   *)
(* It has no lock.  If the timeout is over it returns instead of exiting,  *)
(* so it answers vshelper a second time, and ends.                         *)
Wait(w) ==
    /\ \/ pc[w] = "wait_nx" /\ ~nx /\ Goto(w, "wait_vx") /\ UNCHANGED op
       \/ /\ pc[w] = "wait_vx" /\ vx = "none" /\ Goto(w, "start")
          /\ op' = [op EXCEPT ![w] = "start"]
       \/ /\ pc[w] \in {"wait_nx", "wait_vx"} /\ "timeout" \in Adverse
          /\ Goto(w, "late") /\ UNCHANGED op
       \/ pc[w] = "late" /\ Goto(w, "idle") /\ UNCHANGED op
    /\ UNCHANGED <<db, lock, orphans, kernel, master, asked>>

-----------------------------------------------------------------------------
(* SIGHUP: the master closes the socket, waits for its children, and binds *)
(* it again, which fails, and ends the daemon, while a grandchild has the  *)
(* old one.  Grandchildren and children that lost their parent are not     *)
(* waited for.  (Module Daemon has the other ways a reload can fail.)      *)
Reload ==
    /\ "reload" \in Adverse /\ master = "serves"
    /\ master' = "reloads"
    /\ UNCHANGED <<db, procs, kernel, asked>>

Reopen ==
    /\ master = "reloads"
    /\ \A c \in Clients : pc[c] = "idle" \/ c \in orphans
    /\ master' = (IF Held THEN "dead" ELSE "serves")
    /\ UNCHANGED <<db, procs, kernel, asked>>

-----------------------------------------------------------------------------
Start(a) == \/ StartXid(a) \/ ClearPersistent(a) \/ CheckRunning(a)
            \/ nx_create(a) \/ vx_create(a) \/ Started(a)
Serve(c) == \/ Group(c) \/ Check(c) \/ Commit(c) \/ m_vx_exec(c) \/ Poll(c)
            \/ m_vx_kill(c) \/ Start(c)
Helper == \/ helper_startup \/ vshelper_startup \/ vshelper_restart
          \/ vshelper_halt \/ helper_shutdown
Kernel == InitRuns \/ Dispose \/ Reap \/ ReapNx

Next == \/ \E c \in Clients : Begin(c) \/ Serve(c) \/ Orphan(c)
        \/ \E w \in Waiters : Wait(w) \/ Start(w)
        \/ Helper \/ Kernel \/ GuestReboot \/ Reload \/ Reopen

Spec == Init /\ [][Next]_vars

(* Every process runs, polls and waits until it is done; the kernel calls  *)
(* its helper and releases what nobody holds; a guest that was told to     *)
(* halt or to reboot does it.                                              *)
Fairness ==
    /\ \A c \in Clients : WF_vars(Serve(c))
    /\ \A w \in Waiters : WF_vars(Wait(w)) /\ WF_vars(Start(w))
    /\ WF_vars(helper_startup) /\ WF_vars(vshelper_startup)
    /\ WF_vars(vshelper_restart) /\ WF_vars(vshelper_halt)
    /\ WF_vars(helper_shutdown)
    /\ WF_vars(InitRuns) /\ WF_vars(Dispose) /\ WF_vars(Reap) /\ WF_vars(ReapNx)
    /\ WF_vars(guest # "run" /\ GuestReboot)
    /\ WF_vars(Reopen)

FairSpec == Spec /\ Fairness

-----------------------------------------------------------------------------
(* A vserver that is not registered does not run: "currently running,      *)
(* therefore it cannot be removed" (doc/manual/rpcref/vx.tex).  vx.remove  *)
(* looks at the context and deletes the vserver in two steps, vx.start at  *)
(* the registration and creates the context in six.                        *)
RunsOnlyIfRegistered == vx \in {"setup", "up"} => reg

(* The daemon starts a vserver again only if the guest that just ended     *)
(* asked for it: "As long as no reboot request was recorded the daemon     *)
(* does nothing" (doc/manual/intro/vcd.tex).                               *)
RestartsOnRequest ==
    [][\A w \in Waiters : pc[w] = "idle" /\ pc'[w] = "wait_nx" => asked]_vars

(* A recorded reboot request brings the vserver back once the old context  *)
(* is gone, although the row is deleted before the start, the contexts     *)
(* disappear in any order and clients interfere; unless it is removed, or  *)
(* the contexts outlive the timeout.                                       *)
RebootComesBack ==
    death = "shutdown" /\ restart ~>
        vx = "setup" \/ ~reg \/ \E w \in Waiters : pc[w] = "late"

(* A start waits for the kernel, which waits for vshelper. *)
AwaitsHelper(a) == pc[a] = "wait" \/ (pc[a] = "nx_create" /\ ~nx)

(* Every method of a user ends, with failing helpers, timeouts and         *)
(* reloads.  vx.start holds the name's lock while it waits for the kernel, *)
(* the kernel for vshelper, and vshelper for a method of the daemon:       *)
(* nobody in that circle waits for the lock.  The one request that may     *)
(* wait for ever is a start whose vshelper calls while the master reloads: *)
(* the master waits for the start, and the call in the queue for the       *)
(* master.                                                                 *)
RequestsEnd ==
    \A c \in Clients :
        pc[c] # "idle" ~> pc[c] = "idle" \/ [](master # "serves" /\ AwaitsHelper(c))

(* init runs in the network context of the vserver: vshelper will "migrate *)
(* it to the network and process context created before" (intro/vcd.tex).  *)
Isolated == vx = "up" => nx

(* vx.start returns nil to the user only if the context came up; otherwise *)
(* the fault is "startup failed" (vx_start.c).                             *)
StartTellsTruth ==
    [][\A c \in Clients :
          pc[c] = "created" /\ pc'[c] = "idle" => vx = "up"]_vars
=============================================================================
