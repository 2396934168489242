-------------------------- MODULE VxLifecycleProofs --------------------------
(***************************************************************************)
(* Proofs about VxLifecycle for any number of clients and waiters and any  *)
(* set of methods.                                                         *)
(***************************************************************************)
EXTENDS VxLifecycle, TLAPS

(* What the children do, and for which method.  A child that goes through  *)
(* a group was asked to.                                                   *)
ProcsOK ==
    /\ lock \in Clients \cup {Free}
    /\ pc \in [Actors -> PCs]
    /\ op \in [Actors -> AllOps \cup {"none"}]
    /\ orphans \subseteq Clients /\ inNx \subseteq Clients
    /\ \A c \in Clients : pc[c] = "group" => op[c] \in VgOps

KernelOK ==
    /\ vx \in {"none", "setup", "up", "dying"}
    /\ guest \in {"run", "halt", "restart"}
    /\ boot \in {"none", "call", "poll"}
    /\ death \in {"none", "halt", "restart", "shutdown", "done"}

FlagsOK ==
    /\ reg \in BOOLEAN /\ restart \in BOOLEAN
    /\ nx \in BOOLEAN /\ nxKeep \in BOOLEAN /\ vxKeep \in BOOLEAN
    /\ master \in {"serves", "reloads", "dead"} /\ asked \in BOOLEAN

(* A child goes on to another step of its method, or ends. *)
LEMMA GotoOK ==
    ASSUME ProcsOK, NEW a \in Actors, NEW l \in PCs \ {"group"}, Goto(a, l), UNCHANGED op
    PROVE  /\ pc' \in [Actors -> PCs]
           /\ \A c \in Clients : pc'[c] = "group" => op'[c] \in VgOps
  BY DEF ProcsOK, Goto, Actors

LEMMA DoneOK ==
    ASSUME ProcsOK, NEW a \in Actors, Done(a)
    PROVE  ProcsOK'
  <1>1. pc' \in [Actors -> PCs] /\ op' \in [Actors -> AllOps \cup {"none"}]
    BY DEF ProcsOK, Done, Goto, PCs
  <1>2. lock' \in Clients \cup {Free} /\ orphans' \subseteq Clients /\ inNx' \subseteq Clients
    BY DEF ProcsOK, Done
  <1>3. \A c \in Clients : pc'[c] = "group" => op'[c] \in VgOps
    BY DEF ProcsOK, Done, Goto, Actors
  <1> QED
    BY <1>1, <1>2, <1>3 DEF ProcsOK

LEMMA ProcsStep == ProcsOK /\ [Next]_vars => ProcsOK'
  <1> SUFFICES ASSUME ProcsOK, [Next]_vars PROVE ProcsOK'
    OBVIOUS
  <1> USE DEF db, net, ctx, kernel, procs, Keep
  <1>1. CASE UNCHANGED vars
    BY <1>1 DEF vars, ProcsOK
  <1>2. ASSUME NEW c \in Clients, Begin(c) PROVE ProcsOK'
    <2>1. PICK o \in Ops :
             /\ op' = [op EXCEPT ![c] = o]
             /\ IF Locked(o) THEN lock = Free /\ lock' = c ELSE UNCHANGED lock
             /\ Goto(c, CASE o \in VgOps -> "group"
                          [] o = "start" -> "start"
                          [] OTHER -> "check")
      BY <1>2 DEF Begin
    <2>2. o \in AllOps
      BY ConstantsAssumption
    <2>3. PICK l \in {"group", "start", "check"} : Goto(c, l) /\ (l = "group" => o \in VgOps)
      <3> DEFINE l == CASE o \in VgOps -> "group"
                        [] o = "start" -> "start"
                        [] OTHER -> "check"
      <3>1. l \in {"group", "start", "check"} /\ (l = "group" => o \in VgOps)
        OBVIOUS
      <3> HIDE DEF l
      <3> QED
        BY <2>1, <3>1 DEF l
    <2>4. pc' \in [Actors -> PCs] /\ op' \in [Actors -> AllOps \cup {"none"}]
      BY <2>1, <2>2, <2>3 DEF ProcsOK, Goto, PCs
    <2>5. \A d \in Clients : pc'[d] = "group" => op'[d] \in VgOps
      BY <2>1, <2>3 DEF ProcsOK, Goto, Actors
    <2>6. lock' \in Clients \cup {Free} /\ UNCHANGED <<orphans, inNx>>
      BY <1>2, <2>1 DEF Begin, ProcsOK
    <2> QED
      BY <2>4, <2>5, <2>6 DEF ProcsOK
  <1>3. ASSUME NEW c \in Clients, Group(c) PROVE ProcsOK'
    <2>1. CASE Done(c)
      BY <2>1, DoneOK DEF Actors
    <2>2. CASE ~Done(c)
      <3>1. op[c] \in VgOps
        BY <1>3 DEF Group, ProcsOK
      <3>2. PICK o \in AllOps : op' = [op EXCEPT ![c] = o]
        BY <1>3, <2>2, <3>1 DEF Group, VgOps, AllOps, VxOps
      <3>3. pc' = [pc EXCEPT ![c] = "start"] \/ pc' = [pc EXCEPT ![c] = "check"]
        BY <1>3, <2>2 DEF Group, Goto
      <3>4. pc' \in [Actors -> PCs] /\ op' \in [Actors -> AllOps \cup {"none"}]
        BY <3>2, <3>3 DEF ProcsOK, PCs
      <3>5. \A d \in Clients : pc'[d] = "group" => op'[d] \in VgOps
        BY <3>2, <3>3 DEF ProcsOK, Actors
      <3> QED
        BY <1>3, <2>2, <3>4, <3>5 DEF Group, ProcsOK
    <2> QED
      BY <2>1, <2>2
  <1>4. ASSUME NEW c \in Clients, Check(c) PROVE ProcsOK'
    <2>1. CASE Done(c)
      BY <2>1, DoneOK DEF Actors
    <2>2. CASE ~Done(c)
      <3>1. PICK l \in {"kill", "commit", "exec"} : Goto(c, l)
        <4> DEFINE l == CASE op[c] = "kill" -> "kill"
                          [] op[c] \in {"remove", "create"} -> "commit"
                          [] OTHER -> "exec"
        <4>1. l \in {"kill", "commit", "exec"}
          OBVIOUS
        <4>2. Goto(c, l)
          BY <1>4, <2>2 DEF Check
        <4> HIDE DEF l
        <4> QED
          BY <4>1, <4>2
      <3> QED
        BY <1>4, <2>2, <3>1, GotoOK DEF Check, ProcsOK, PCs, Actors
    <2> QED
      BY <2>1, <2>2
  <1>5. ASSUME NEW c \in Clients, m_vx_exec(c) \/ Poll(c) PROVE ProcsOK'
    <2>1. CASE Done(c)
      BY <2>1, DoneOK DEF Actors
    <2>2. CASE ~Done(c)
      <3>1. PICK l \in {"run", "start"} : Goto(c, l)
        BY <1>5, <2>2 DEF m_vx_exec, Poll
      <3>2. lock' = lock /\ op' = op /\ orphans' = orphans /\ inNx' \subseteq Clients
        BY <1>5, <2>2 DEF m_vx_exec, Poll, ProcsOK
      <3> QED
        BY <3>1, <3>2, GotoOK DEF ProcsOK, PCs, Actors
    <2> QED
      BY <2>1, <2>2
  <1>6. ASSUME NEW c \in Clients, Commit(c) \/ m_vx_kill(c) PROVE ProcsOK'
    BY <1>6, DoneOK DEF Commit, m_vx_kill, Actors
  <1>7. ASSUME NEW a \in Actors, Start(a) PROVE ProcsOK'
    <2>1. CASE Done(a)
      BY <2>1, DoneOK
    <2>2. CASE ~Done(a)
      <3>1. PICK l \in {"clear", "info", "nx_create", "vx_create", "wait", "created"} : Goto(a, l)
        BY <1>7, <2>2 DEF Start, StartXid, ClearPersistent, CheckRunning, nx_create,
                          vx_create, Started
      <3>2. UNCHANGED <<lock, op, orphans, inNx>>
        BY <1>7, <2>2 DEF Start, StartXid, ClearPersistent, CheckRunning, nx_create,
                          vx_create, Started
      <3> QED
        BY <3>1, <3>2, GotoOK DEF ProcsOK, PCs
    <2> QED
      BY <2>1, <2>2
  <1>8. ASSUME NEW c \in Clients, Orphan(c) PROVE ProcsOK'
    BY <1>8 DEF Orphan, ProcsOK
  <1>9. ASSUME NEW w \in Waiters, Wait(w) PROVE ProcsOK'
    <2>1. PICK l \in {"wait_vx", "start", "late", "idle"} : Goto(w, l)
      BY <1>9 DEF Wait
    <2>2. op' = op \/ op' = [op EXCEPT ![w] = "start"]
      BY <1>9 DEF Wait
    <2>3. pc' \in [Actors -> PCs] /\ op' \in [Actors -> AllOps \cup {"none"}]
      BY <2>1, <2>2 DEF ProcsOK, Goto, PCs, AllOps, VxOps
    <2>4. \A c \in Clients : pc'[c] = pc[c] /\ op'[c] = op[c]
      BY <2>1, <2>2, ConstantsAssumption DEF ProcsOK, Goto, Actors
    <2> QED
      BY <1>9, <2>3, <2>4 DEF Wait, ProcsOK
  <1>10. CASE Helper
    <2>1. CASE UNCHANGED pc
      BY <1>10, <2>1 DEF Helper, helper_startup, vshelper_startup, vshelper_restart,
                         vshelper_halt, helper_shutdown, HelperReturns, ProcsOK
    <2>2. CASE HelperReturns
      BY <1>10, <2>2 DEF Helper, helper_startup, vshelper_startup, vshelper_restart,
                         vshelper_halt, helper_shutdown, HelperReturns, ProcsOK, PCs, Actors
    <2>3. CASE helper_shutdown
      BY <2>3 DEF helper_shutdown, Goto, ProcsOK, PCs, Actors
    <2> QED
      BY <1>10, <2>1, <2>2, <2>3
      DEF Helper, helper_startup, vshelper_startup, vshelper_restart, vshelper_halt
  <1>11. CASE Kernel \/ GuestReboot \/ Reload \/ Reopen
    BY <1>11 DEF Kernel, InitRuns, Dispose, Reap, ReapNx, GuestReboot, Reload, Reopen, ProcsOK
  <1> QED
    BY <1>1, <1>2, <1>3, <1>4, <1>5, <1>6, <1>7, <1>8, <1>9, <1>10, <1>11
    DEF Next, Serve, Actors

LEMMA KernelStep == KernelOK /\ [Next]_vars => KernelOK'
  <1> SUFFICES ASSUME KernelOK, [Next]_vars PROVE KernelOK'
    OBVIOUS
  <1> USE ConstantsAssumption DEF KernelOK, db, net, ctx, kernel, procs
  <1>1. CASE UNCHANGED vars
    BY <1>1 DEF vars
  <1>2. ASSUME NEW c \in Clients,
               Begin(c) \/ Group(c) \/ Check(c) \/ Commit(c) \/ Poll(c) \/ m_vx_kill(c) \/ Orphan(c)
        PROVE  KernelOK'
    BY <1>2 DEF Begin, Group, Check, Commit, Poll, m_vx_kill, Orphan
  <1>3. ASSUME NEW c \in Clients, m_vx_exec(c) PROVE KernelOK'
    <2>1. guest' \in {"halt", "restart", guest}
      BY <1>3 DEF m_vx_exec
    <2> QED
      BY <1>3, <2>1 DEF m_vx_exec
  <1>4. ASSUME NEW a \in Actors, Start(a) PROVE KernelOK'
    BY <1>4 DEF Start, StartXid, ClearPersistent, CheckRunning, nx_create, vx_create, Started
  <1>5. ASSUME NEW w \in Waiters, Wait(w) PROVE KernelOK'
    BY <1>5 DEF Wait
  <1>6. CASE Helper
    BY <1>6 DEF Helper, helper_startup, vshelper_startup, vshelper_restart, vshelper_halt,
                helper_shutdown, HelperReturns
  <1>7. CASE Kernel \/ GuestReboot \/ Reload \/ Reopen
    BY <1>7 DEF Kernel, InitRuns, Dispose, Reap, ReapNx, GuestReboot, Reload, Reopen
  <1> QED
    BY <1>1, <1>2, <1>3, <1>4, <1>5, <1>6, <1>7 DEF Next, Serve, Actors

LEMMA FlagsStep == FlagsOK /\ [Next]_vars => FlagsOK'
  <1> SUFFICES ASSUME FlagsOK, [Next]_vars PROVE FlagsOK'
    OBVIOUS
  <1> USE DEF FlagsOK, db, net, ctx, kernel, procs
  <1>1. CASE UNCHANGED vars
    BY <1>1, Zenon DEF vars
  <1>2. ASSUME NEW c \in Clients,
               Begin(c) \/ Group(c) \/ Check(c) \/ m_vx_exec(c) \/ Poll(c) \/ m_vx_kill(c) \/ Orphan(c)
        PROVE  FlagsOK'
    BY <1>2, Zenon DEF Begin, Group, Check, m_vx_exec, Poll, m_vx_kill, Orphan
  <1>3. ASSUME NEW c \in Clients, Commit(c) PROVE FlagsOK'
    BY <1>3, Zenon DEF Commit
  <1>4. ASSUME NEW a \in Actors, Start(a) PROVE FlagsOK'
    <2>1. CASE StartXid(a) \/ ClearPersistent(a) \/ CheckRunning(a) \/ Started(a)
      BY <2>1, Zenon DEF StartXid, ClearPersistent, CheckRunning, Started
    <2>2. CASE nx_create(a)
      BY <2>2, Zenon DEF nx_create
    <2>3. CASE vx_create(a)
      BY <2>3, Zenon DEF vx_create
    <2> QED
      BY <1>4, <2>1, <2>2, <2>3 DEF Start
  <1>5. ASSUME NEW w \in Waiters, Wait(w) PROVE FlagsOK'
    BY <1>5, Zenon DEF Wait
  <1>6. CASE Helper
    <2>1. CASE helper_startup
      BY <2>1, Zenon DEF helper_startup
    <2>2. CASE vshelper_startup \/ vshelper_halt
      BY <2>2, Zenon DEF vshelper_startup, vshelper_halt
    <2>3. CASE vshelper_restart
      BY <2>3, Zenon DEF vshelper_restart, helper_restart
    <2>4. CASE helper_shutdown
      BY <2>4, Zenon DEF helper_shutdown
    <2> QED
      BY <1>6, <2>1, <2>2, <2>3, <2>4 DEF Helper
  <1>7. CASE Kernel \/ Reload \/ Reopen
    BY <1>7, Zenon DEF Kernel, InitRuns, Dispose, Reap, ReapNx, Reload, Reopen
  <1>8. CASE GuestReboot
    BY <1>8, Zenon DEF GuestReboot
  <1> QED
    BY <1>1, <1>2, <1>3, <1>4, <1>5, <1>6, <1>7, <1>8 DEF Next, Serve, Actors

LEMMA TypeAlways == Spec => [](ProcsOK /\ KernelOK /\ FlagsOK)
  <1>1. Init => ProcsOK /\ KernelOK /\ FlagsOK
    <2> SUFFICES ASSUME Init PROVE ProcsOK /\ KernelOK /\ FlagsOK
      OBVIOUS
    <2>1. ProcsOK
      BY DEF Init, ProcsOK, PCs, Actors
    <2>2. KernelOK
      BY DEF Init, KernelOK
    <2>3. FlagsOK
      BY Zenon DEF Init, FlagsOK
    <2> QED
      BY <2>1, <2>2, <2>3
  <1> QED
    BY <1>1, ProcsStep, KernelStep, FlagsStep, PTL DEF Spec

(* Every step of a child, of vshelper, of the kernel and of the guest      *)
(* keeps the types; a group method calls only the methods of a group.      *)
THEOREM TypeCorrect == Spec => []TypeOK
  <1>1. ProcsOK /\ KernelOK /\ FlagsOK => TypeOK
    BY Zenon DEF ProcsOK, KernelOK, FlagsOK, TypeOK
  <1> QED
    BY <1>1, TypeAlways, PTL

-----------------------------------------------------------------------------
(* vshelper runs halt or restart for a context with tasks, and shutdown    *)
(* for one without, so the context is there while it runs.                 *)
DeathInv ==
    /\ death \in {"halt", "restart"} => vx = "up"
    /\ death \in {"shutdown", "done"} => vx = "dying"

LEMMA DeathStep == KernelOK /\ DeathInv /\ [Next]_vars => DeathInv'
  <1> SUFFICES ASSUME KernelOK, DeathInv, [Next]_vars PROVE DeathInv'
    OBVIOUS
  <1> USE DEF KernelOK, DeathInv, db, net, ctx, kernel, procs
  <1>1. CASE UNCHANGED vars
    BY <1>1 DEF vars
  <1>2. ASSUME NEW c \in Clients,
               \/ Begin(c) \/ Group(c) \/ Check(c) \/ Commit(c) \/ m_vx_exec(c) \/ Poll(c)
               \/ m_vx_kill(c) \/ Orphan(c)
        PROVE  DeathInv'
    <2>1. /\ UNCHANGED death
          /\ vx' = vx \/ (vx = "up" /\ death = "none" /\ vx' = "dying")
      BY <1>2 DEF Begin, Group, Check, Commit, m_vx_exec, Poll, m_vx_kill, Orphan
    <2> QED
      BY <2>1
  <1>3. ASSUME NEW a \in Actors, Start(a) PROVE DeathInv'
    <2>1. UNCHANGED death /\ (vx' = vx \/ (vx = "none" /\ vx' = "setup"))
      BY <1>3 DEF Start, StartXid, ClearPersistent, CheckRunning, nx_create, vx_create, Started
    <2> QED
      BY <2>1
  <1>4. ASSUME NEW w \in Waiters, Wait(w) PROVE DeathInv'
    BY <1>4 DEF Wait
  <1>5. CASE Helper
    BY <1>5 DEF Helper, helper_startup, vshelper_startup, vshelper_restart, vshelper_halt,
                helper_shutdown
  <1>6. CASE Kernel
    <2>1. \/ UNCHANGED <<vx, death>>
          \/ vx = "setup" /\ vx' = "up" /\ UNCHANGED death
          \/ vx' = "dying" /\ death' = "shutdown"
          \/ vx' = "none" /\ death' = "none"
      BY <1>6 DEF Kernel, InitRuns, Dispose, Reap, ReapNx
    <2> QED
      BY <2>1
  <1>7. CASE GuestReboot
    <2>1. vx' = "up" /\ death' \in {"halt", "restart"}
      BY <1>7, ConstantsAssumption DEF GuestReboot
    <2> QED
      BY <2>1
  <1>8. CASE Reload \/ Reopen
    BY <1>8 DEF Reload, Reopen
  <1> QED
    BY <1>1, <1>2, <1>3, <1>4, <1>5, <1>6, <1>7, <1>8 DEF Next, Serve, Actors

LEMMA DeathAlways == Spec => []DeathInv
  <1>1. Init => DeathInv
    BY DEF Init, DeathInv
  <1> QED
    BY <1>1, DeathStep, TypeAlways, PTL DEF Spec

-----------------------------------------------------------------------------
(* Reboots.  The row of table restart exists only between the request of a *)
(* guest and the end of its context, if no call of vshelper is lost: then  *)
(* it is deleted before a new context can be made.                         *)
RequestInv ==
    /\ master = "serves"
    /\ restart => /\ reg /\ asked /\ vx = "dying"
                  /\ death \in {"none", "shutdown"}
    /\ death = "restart" => asked

NoCallLost == Adverse \cap {"rpc", "reload"} = {}

LEMMA RequestStep ==
    ASSUME NoCallLost
    PROVE  KernelOK /\ DeathInv /\ RequestInv /\ [Next]_vars => RequestInv'
  <1> SUFFICES ASSUME KernelOK, DeathInv, RequestInv, [Next]_vars PROVE RequestInv'
    OBVIOUS
  <1>1. "rpc" \notin Adverse /\ "reload" \notin Adverse
    BY DEF NoCallLost
  <1> USE DEF KernelOK, DeathInv, RequestInv, db, net, ctx, kernel, procs
  <1>2. CASE UNCHANGED vars
    BY <1>2 DEF vars
  <1>3. ASSUME NEW c \in Clients,
               \/ Begin(c) \/ Group(c) \/ Check(c) \/ m_vx_exec(c) \/ Poll(c)
               \/ m_vx_kill(c) \/ Orphan(c)
        PROVE  RequestInv'
    <2>1. UNCHANGED <<reg, restart, master, asked, death>>
      BY <1>3 DEF Begin, Group, Check, m_vx_exec, Poll, m_vx_kill, Orphan
    <2>2. vx' = vx \/ (vx = "up" /\ death = "none" /\ vx' = "dying")
      BY <1>3 DEF Begin, Group, Check, m_vx_exec, Poll, m_vx_kill, Orphan
    <2> QED
      BY <2>1, <2>2
  <1>4. ASSUME NEW c \in Clients, Commit(c) PROVE RequestInv'
    <2>1. ~restart'
      BY <1>1, <1>4, Zenon DEF Commit
    <2> QED
      BY <1>4, <2>1 DEF Commit
  <1>5. ASSUME NEW a \in Actors, Start(a) PROVE RequestInv'
    <2>1. CASE vx_create(a)
      <3>1. CASE vx = "none"
        <4>1. ~restart /\ death = "none"
          BY <3>1
        <4>2. vx' = "setup" /\ UNCHANGED <<restart, death, master>>
          BY <2>1, <3>1 DEF vx_create
        <4> QED
          BY <4>1, <4>2
      <3>2. CASE vx # "none"
        BY <2>1, <3>2 DEF vx_create
      <3> QED
        BY <3>1, <3>2
    <2>2. CASE ~vx_create(a)
      <3>1. UNCHANGED <<reg, restart, master, asked, death, vx>>
        BY <1>5, <2>2 DEF Start, StartXid, ClearPersistent, CheckRunning, nx_create, Started
      <3> QED
        BY <3>1
    <2> QED
      BY <2>1, <2>2
  <1>6. ASSUME NEW w \in Waiters, Wait(w) PROVE RequestInv'
    BY <1>6 DEF Wait
  <1>7. CASE Helper
    <2>1. CASE helper_startup \/ vshelper_startup \/ vshelper_halt
      <3>1. UNCHANGED <<reg, restart, master, asked>>
        BY <2>1 DEF helper_startup, vshelper_startup, vshelper_halt
      <3>2. \/ UNCHANGED <<vx, death>>
            \/ death = "halt" /\ vx' = "dying" /\ death' = "none"
        BY <2>1 DEF helper_startup, vshelper_startup, vshelper_halt
      <3> QED
        BY <3>1, <3>2
    <2>2. CASE vshelper_restart
      <3>1. asked' /\ vx' = "dying" /\ death' = "none" /\ master' = master /\ reg' = reg
        BY <2>2 DEF vshelper_restart
      <3>2. restart' => reg
        BY <1>1, <2>2 DEF vshelper_restart, helper_restart, HelperAnswers,
                            HelperMayFault, HelperFaults
      <3> QED
        BY <3>1, <3>2
    <2>3. CASE helper_shutdown
      BY <1>1, <2>3 DEF helper_shutdown, HelperAnswers, HelperMayFault, HelperFaults
    <2> QED
      BY <1>7, <2>1, <2>2, <2>3 DEF Helper
  <1>8. CASE Kernel
    <2>1. UNCHANGED <<reg, restart, master, asked>>
      BY <1>8 DEF Kernel, InitRuns, Dispose, Reap, ReapNx
    <2>2. \/ UNCHANGED <<vx, death>>
          \/ vx = "setup" /\ vx' = "up" /\ UNCHANGED death
          \/ /\ vx \in {"setup", "dying"} /\ death = "none"
             /\ vx' = "dying" /\ death' = "shutdown"
          \/ death = "done" /\ vx' = "none" /\ death' = "none"
      BY <1>8 DEF Kernel, InitRuns, Dispose, Reap, ReapNx
    <2> QED
      BY <2>1, <2>2
  <1>9. CASE GuestReboot
    <2>1. PICK how \in (GuestMay \cup {guest}) \ {"run"} :
             death' = how /\ asked' = (how = "restart")
      BY <1>9 DEF GuestReboot
    <2>2. how \in {"halt", "restart"}
      BY ConstantsAssumption
    <2>3. how = "restart" => asked'
      BY <2>1, Zenon
    <2>4. vx = "up" /\ ~restart /\ UNCHANGED <<vx, restart, master>>
      BY <1>9 DEF GuestReboot
    <2> QED
      BY <2>1, <2>2, <2>3, <2>4
  <1>10. CASE Reload \/ Reopen
    BY <1>1, <1>10 DEF Reload, Reopen
  <1> QED
    BY <1>2, <1>3, <1>4, <1>5, <1>6, <1>7, <1>8, <1>9, <1>10 DEF Next, Serve, Actors

(* If no call of vshelper is lost, the daemon starts a vserver again only  *)
(* if the guest that just ended asked for it, whatever clients, orphans of *)
(* vx.start and timeouts do meanwhile.                                     *)
THEOREM RestartsAreRequested == ASSUME NoCallLost PROVE Spec => RestartsOnRequest
  <1> DEFINE Requested == \A w \in Waiters : pc[w] = "idle" /\ pc'[w] = "wait_nx" => asked
  <1>1. Init => RequestInv
    BY Zenon DEF Init, RequestInv
  <1>2. ProcsOK /\ RequestInv /\ [Next]_vars => [Requested]_vars
    <2> SUFFICES ASSUME ProcsOK, RequestInv, [Next]_vars,
                        NEW w \in Waiters, pc[w] = "idle", pc'[w] = "wait_nx"
                 PROVE  asked
      OBVIOUS
    <2> USE DEF db, net, ctx, kernel, procs
    <2>1. \A c \in Clients : c \in Actors /\ c # w
      BY ConstantsAssumption DEF Actors
    <2>2. ~UNCHANGED pc
      OBVIOUS
    <2>3. ASSUME NEW a \in Actors, NEW l, pc' = [pc EXCEPT ![a] = l] PROVE a = w /\ l = "wait_nx"
      BY <2>3 DEF ProcsOK, Actors
    <2>4. CASE helper_shutdown
      BY <2>4 DEF helper_shutdown, RequestInv
    <2>5. CASE \E c \in Clients : Begin(c) \/ Serve(c) \/ Orphan(c)
      BY <2>1, <2>2, <2>3, <2>5
      DEF Begin, Serve, Orphan, Group, Check, Commit, m_vx_exec, Poll, m_vx_kill, Start, StartXid,
          ClearPersistent, CheckRunning, nx_create, vx_create, Started, Done, Goto
    <2>6. CASE \E v \in Waiters : Wait(v) \/ Start(v)
      BY <2>3, <2>6
      DEF Wait, Start, StartXid, ClearPersistent, CheckRunning, nx_create, vx_create, Started,
          Done, Goto, Actors
    <2>7. CASE Helper /\ ~helper_shutdown
      <3>1. HelperReturns
        BY <2>2, <2>7
        DEF Helper, helper_startup, vshelper_startup, vshelper_restart, vshelper_halt
      <3> QED
        BY <3>1 DEF HelperReturns, Actors
    <2>8. CASE Kernel \/ GuestReboot \/ Reload \/ Reopen \/ UNCHANGED vars
      BY <2>2, <2>8
      DEF Kernel, InitRuns, Dispose, Reap, ReapNx, GuestReboot, Reload, Reopen, vars
    <2> QED
      BY <2>4, <2>5, <2>6, <2>7, <2>8 DEF Next
  <1> QED
    BY <1>1, <1>2, RequestStep, DeathAlways, TypeAlways, PTL DEF Spec, RestartsOnRequest

-----------------------------------------------------------------------------
(* Registration.  A start that holds the lock of the name keeps vx.remove  *)
(* away; so a vserver that is not registered does not run, as long as all  *)
(* starts hold it.                                                         *)
StartPCs == {"start", "clear", "info", "nx_create", "vx_create"}
StartsLocked == \A a \in Actors : pc[a] \in StartPCs => lock = a

RegisteredInv ==
    /\ RunsOnlyIfRegistered
    /\ \A a \in Actors : pc[a] \in StartPCs \ {"start"} => reg
    /\ \A c \in Clients :
          /\ pc[c] \in {"check", "commit"} /\ op[c] \in {"remove", "create"} => lock = c
          /\ pc[c] = "commit" => op[c] \in {"remove", "create"}
          /\ pc[c] = "commit" /\ op[c] = "remove" => vx = "none"

LEMMA RegisteredStep ==
    ProcsOK /\ DeathInv /\ RegisteredInv /\ StartsLocked /\ [Next]_vars => RegisteredInv'
  <1> SUFFICES ASSUME ProcsOK, DeathInv, RegisteredInv, StartsLocked, [Next]_vars
               PROVE  RegisteredInv'
    OBVIOUS
  <1> USE ConstantsAssumption DEF db, net, ctx, kernel, procs, Keep
  <1>1. CASE UNCHANGED vars
    BY <1>1 DEF vars, RegisteredInv, RunsOnlyIfRegistered
  <1>2. ASSUME NEW a \in Actors, Done(a), UNCHANGED <<reg, vx>> PROVE RegisteredInv'
    BY <1>2 DEF Done, Goto, RegisteredInv, RunsOnlyIfRegistered, ProcsOK, Actors, StartPCs
  <1>3. ASSUME NEW a \in Actors, NEW l \in PCs \ {"check", "commit"}, Goto(a, l),
               l \in StartPCs \ {"start"} => reg,
               UNCHANGED <<reg, lock, op>>, vx' = vx \/ (vx = "up" /\ vx' = "dying")
        PROVE  RegisteredInv'
    BY <1>3 DEF Goto, RegisteredInv, RunsOnlyIfRegistered, ProcsOK, Actors, StartPCs
  <1>4. ASSUME NEW c \in Clients, Begin(c) PROVE RegisteredInv'
    <2>1. PICK o \in Ops :
             /\ op' = [op EXCEPT ![c] = o]
             /\ IF Locked(o) THEN lock = Free /\ lock' = c ELSE UNCHANGED lock
             /\ Goto(c, CASE o \in VgOps -> "group"
                          [] o = "start" -> "start"
                          [] OTHER -> "check")
      BY <1>4 DEF Begin
    <2>4. o \in {"remove", "create"} => lock = Free /\ lock' = c
      BY <2>1 DEF Locked, VgOps
    <2>5. lock' = lock \/ lock = Free
      BY <2>1
    <2>2. PICK l \in {"group", "start", "check"} : Goto(c, l)
      <3> DEFINE l == CASE o \in VgOps -> "group"
                        [] o = "start" -> "start"
                        [] OTHER -> "check"
      <3>1. l \in {"group", "start", "check"}
        OBVIOUS
      <3>2. Goto(c, l)
        BY <2>1
      <3> HIDE DEF l
      <3> QED
        BY <3>1, <3>2
    <2>3. UNCHANGED <<reg, vx>>
      BY <1>4 DEF Begin
    <2> QED
      BY <2>1, <2>2, <2>3, <2>4, <2>5
      DEF Goto, RegisteredInv, RunsOnlyIfRegistered, ProcsOK, Actors, StartPCs
  <1>5. ASSUME NEW c \in Clients, Group(c) PROVE RegisteredInv'
    <2>1. CASE Done(c)
      BY <1>2, <1>5, <2>1 DEF Group, Actors
    <2>2. CASE ~Done(c)
      <3>1. op[c] \in VgOps
        BY <1>5 DEF Group, ProcsOK
      <3>2. PICK o \in {"start", "stop", "restart", "reboot"} : op' = [op EXCEPT ![c] = o]
        BY <1>5, <2>2, <3>1 DEF Group, VgOps
      <3>3. pc' = [pc EXCEPT ![c] = "start"] \/ pc' = [pc EXCEPT ![c] = "check"]
        BY <1>5, <2>2 DEF Group, Goto
      <3> QED
        BY <1>5, <2>2, <3>2, <3>3
        DEF Group, RegisteredInv, RunsOnlyIfRegistered, ProcsOK, Actors, StartPCs
    <2> QED
      BY <2>1, <2>2
  <1>6. ASSUME NEW c \in Clients, Check(c) PROVE RegisteredInv'
    <2>1. CASE Done(c)
      BY <1>2, <1>6, <2>1 DEF Check, Actors
    <2>2. CASE ~Done(c)
      <3> DEFINE l == CASE op[c] = "kill" -> "kill"
                        [] op[c] \in {"remove", "create"} -> "commit"
                        [] OTHER -> "exec"
      <3>1. l \in {"kill", "commit", "exec"} /\ (l = "commit" => op[c] \in {"remove", "create"})
        OBVIOUS
      <3>2. Goto(c, l)
        BY <1>6, <2>2 DEF Check
      <3>3. op[c] = "remove" => vx = "none"
        <4>1. Allowed(op[c])
          BY <1>6, <2>2 DEF Check
        <4> QED
          BY <4>1 DEF Allowed
      <3>4. pc[c] = "check" /\ UNCHANGED <<reg, lock, op, vx>>
        BY <1>6, <2>2 DEF Check
      <3> HIDE DEF l
      <3> QED
        BY <3>1, <3>2, <3>3, <3>4
        DEF Goto, RegisteredInv, RunsOnlyIfRegistered, ProcsOK, Actors, StartPCs
    <2> QED
      BY <2>1, <2>2
  <1>7. ASSUME NEW c \in Clients, Commit(c) PROVE RegisteredInv'
    <2>1. CASE UNCHANGED reg
      BY <1>2, <1>7, <2>1 DEF Commit, Actors
    <2>2. CASE ~UNCHANGED reg
      <3>1. reg' = (op[c] = "create") /\ Done(c) /\ pc[c] = "commit" /\ UNCHANGED vx
        BY <1>7, <2>2 DEF Commit
      <3>2. \A a \in Actors \ {c} : pc'[a] = pc[a] /\ op'[a] = op[a]
        BY <3>1 DEF Done, Goto, ProcsOK
      <3>3. pc'[c] = "idle"
        BY <3>1 DEF Done, Goto, ProcsOK, Actors
      <3>4. lock = c
        BY <3>1 DEF RegisteredInv
      <3>5. \A a \in Actors : pc'[a] \notin StartPCs
        BY <3>2, <3>3, <3>4 DEF StartsLocked, StartPCs
      <3>6. \A d \in Clients \ {c} : ~(pc[d] = "commit")
        BY <3>4 DEF RegisteredInv
      <3>7. \A d \in Clients \ {c} : pc[d] = "check" => op[d] \notin {"remove", "create"}
        BY <3>4 DEF RegisteredInv
      <3>8. RunsOnlyIfRegistered'
        <4>1. CASE op[c] = "create"
          <5>1. reg'
            BY <3>1, <4>1, Zenon
          <5> QED
            BY <5>1 DEF RunsOnlyIfRegistered
        <4>2. CASE op[c] # "create"
          BY <3>1, <4>2 DEF RegisteredInv, RunsOnlyIfRegistered
        <4> QED
          BY <4>1, <4>2
      <3> QED
        BY <3>2, <3>3, <3>5, <3>6, <3>7, <3>8 DEF RegisteredInv, Actors
    <2> QED
      BY <2>1, <2>2
  <1>8. ASSUME NEW c \in Clients, m_vx_exec(c) \/ Poll(c) PROVE RegisteredInv'
    <2>1. CASE Done(c)
      BY <1>2, <1>8, <2>1 DEF m_vx_exec, Poll, Actors
    <2>2. CASE ~Done(c)
      <3>1. Goto(c, "run") \/ Goto(c, "start")
        BY <1>8, <2>2 DEF m_vx_exec, Poll
      <3>2. UNCHANGED <<reg, lock, op, vx>>
        BY <1>8, <2>2 DEF m_vx_exec, Poll
      <3> QED
        BY <1>3, <3>1, <3>2 DEF Actors, PCs, StartPCs
    <2> QED
      BY <2>1, <2>2
  <1>9. ASSUME NEW c \in Clients, m_vx_kill(c) PROVE RegisteredInv'
    <2>1. Done(c) /\ UNCHANGED reg /\ (vx' = vx \/ (vx = "up" /\ vx' = "dying"))
      BY <1>9 DEF m_vx_kill
    <2> QED
      BY <2>1 DEF Done, Goto, RegisteredInv, RunsOnlyIfRegistered, ProcsOK, Actors, StartPCs
  <1>10. ASSUME NEW a \in Actors, Start(a) PROVE RegisteredInv'
    <2>1. CASE Done(a)
      BY <1>2, <1>10, <2>1
      DEF Start, StartXid, ClearPersistent, CheckRunning, nx_create, vx_create, Started, Done, Goto,
          ProcsOK
    <2>2. CASE ~Done(a) /\ ~vx_create(a)
      <3>1. \/ Goto(a, "clear") /\ reg
            \/ pc[a] = "clear" /\ Goto(a, "info")
            \/ pc[a] = "info" /\ Goto(a, "nx_create")
            \/ pc[a] = "nx_create" /\ Goto(a, "vx_create")
        BY <1>10, <2>2
        DEF Start, StartXid, ClearPersistent, CheckRunning, nx_create, Started
      <3>2. UNCHANGED <<reg, lock, op, vx>>
        BY <1>10, <2>2
        DEF Start, StartXid, ClearPersistent, CheckRunning, nx_create, Started
      <3>3. pc[a] \in {"clear", "info", "nx_create"} => reg
        BY DEF RegisteredInv, StartPCs
      <3> QED
        BY <1>3, <3>1, <3>2, <3>3 DEF PCs, StartPCs
    <2>3. CASE vx_create(a)
      <3>1. Goto(a, "wait") \/ Goto(a, "created")
        BY <2>3 DEF vx_create
      <3>2. UNCHANGED <<reg, lock, op>> /\ pc[a] = "vx_create"
        BY <2>3 DEF vx_create
      <3>3. reg /\ lock = a
        BY <3>2 DEF RegisteredInv, StartsLocked, StartPCs
      <3>4. \A c \in Clients : ~(pc[c] = "commit" /\ op[c] = "remove")
        BY <3>2, <3>3 DEF RegisteredInv
      <3> QED
        BY <3>1, <3>2, <3>3, <3>4
        DEF Goto, RegisteredInv, RunsOnlyIfRegistered, ProcsOK, Actors, StartPCs
    <2> QED
      BY <2>1, <2>2, <2>3
  <1>11. ASSUME NEW c \in Clients, Orphan(c) PROVE RegisteredInv'
    BY <1>11 DEF Orphan, RegisteredInv, RunsOnlyIfRegistered, StartPCs
  <1>12. ASSUME NEW w \in Waiters, Wait(w) PROVE RegisteredInv'
    <2>1. PICK l \in {"wait_vx", "start", "late", "idle"} : Goto(w, l)
      BY <1>12 DEF Wait
    <2>2. \A c \in Clients : pc'[c] = pc[c] /\ op'[c] = op[c]
      <3>1. op' = op \/ op' = [op EXCEPT ![w] = "start"]
        BY <1>12 DEF Wait
      <3> QED
        BY <2>1, <3>1 DEF ProcsOK, Goto, Actors
    <2>3. \A a \in Actors : pc'[a] \in StartPCs \ {"start"} => pc[a] = pc'[a]
      BY <2>1 DEF ProcsOK, Goto, Actors, StartPCs
    <2>4. UNCHANGED <<reg, lock, vx>>
      BY <1>12 DEF Wait
    <2> QED
      BY <2>2, <2>3, <2>4 DEF RegisteredInv, RunsOnlyIfRegistered
  <1>13. CASE Helper
    <2>1. UNCHANGED <<reg, lock, op>> /\ (vx' = vx \/ (vx = "up" /\ vx' = "dying"))
      BY <1>13 DEF Helper, helper_startup, vshelper_startup, vshelper_restart, vshelper_halt,
                   helper_shutdown, DeathInv
    <2>2. CASE HelperReturns
      <3>1. \A a \in Actors : pc'[a] = pc[a] \/ pc'[a] = "created"
        BY <2>2 DEF HelperReturns
      <3> QED
        BY <2>1, <3>1 DEF RegisteredInv, RunsOnlyIfRegistered, StartPCs, Actors
    <2>3. CASE UNCHANGED pc
      BY <2>1, <2>3 DEF RegisteredInv, RunsOnlyIfRegistered
    <2>4. CASE \E w \in Waiters : Goto(w, "wait_nx")
      BY <1>3, <2>1, <2>4 DEF Actors, PCs, StartPCs
    <2> QED
      BY <1>13, <2>2, <2>3, <2>4
      DEF Helper, helper_startup, vshelper_startup, vshelper_restart, vshelper_halt,
          helper_shutdown
  <1>14. CASE Kernel
    <2>1. UNCHANGED <<reg, lock, pc, op>>
      BY <1>14 DEF Kernel, InitRuns, Dispose, Reap, ReapNx
    <2>2. \/ vx' \in {vx, "none"}
          \/ vx = "setup" /\ vx' = "up"
          \/ vx \in {"setup", "dying"} /\ vx' = "dying"
      BY <1>14 DEF Kernel, InitRuns, Dispose, Reap, ReapNx
    <2> QED
      BY <2>1, <2>2 DEF RegisteredInv, RunsOnlyIfRegistered
  <1>15. CASE GuestReboot \/ Reload \/ Reopen
    BY <1>15 DEF GuestReboot, Reload, Reopen, RegisteredInv, RunsOnlyIfRegistered
  <1> QED
    BY <1>1, <1>4, <1>5, <1>6, <1>7, <1>8, <1>9, <1>10, <1>11, <1>12, <1>13, <1>14, <1>15
    DEF Next, Serve, Actors

(* As long as every vx.start holds the lock of the name, a vserver that is *)
(* not registered does not run: the two steps of vx.remove and the six of  *)
(* vx.start exclude each other, whatever else happens.                     *)
THEOREM LockedStartsAreSafe == Spec /\ []StartsLocked => []RunsOnlyIfRegistered
  <1>1. Init => RegisteredInv
    BY DEF Init, RegisteredInv, RunsOnlyIfRegistered, Actors, StartPCs
  <1>2. RegisteredInv => RunsOnlyIfRegistered
    BY DEF RegisteredInv
  <1> QED
    BY <1>1, <1>2, RegisteredStep, TypeAlways, DeathAlways, PTL DEF Spec

(* The starts without the lock: those of vg.start and vg.restart, which    *)
(* call vx.start and vx.restart internally; the one after a reboot, by the *)
(* child of helper.shutdown; and those of a grandchild whose child died.   *)
UnlockedOps == {"vg_start", "vg_restart", "vg_reboot", "reboot"}
NoUnlockedStart ==
    Ops \cap UnlockedOps = {} /\ "restart" \notin GuestMay /\ "orphan" \notin Adverse

(* Without those, no reboot is ever requested, so all waiters are idle,    *)
(* and who starts the vserver was asked to start or restart it by its name *)
(* and got the lock first.                                                 *)
NoReboot == guest # "restart" /\ death # "restart" /\ ~restart

StarterInv ==
    /\ \A w \in Waiters : pc[w] = "idle"
    /\ \A c \in Clients :
          /\ op[c] \notin UnlockedOps
          /\ pc[c] # "idle" /\ op[c] \in {"start", "restart"} => lock = c
          /\ pc[c] \in StartPCs => op[c] \in {"start", "restart"}

LEMMA NoRebootStep ==
    ASSUME NoUnlockedStart
    PROVE  KernelOK /\ StarterInv /\ NoReboot /\ [Next]_vars => NoReboot'
  <1> SUFFICES ASSUME KernelOK, StarterInv, NoReboot, [Next]_vars PROVE NoReboot'
    OBVIOUS
  <1> USE DEF NoReboot, db, net, ctx, kernel, procs
  <1>1. CASE UNCHANGED vars
    BY <1>1 DEF vars
  <1>2. ASSUME NEW c \in Clients,
               Begin(c) \/ Group(c) \/ Check(c) \/ Poll(c) \/ m_vx_kill(c) \/ Orphan(c)
        PROVE  NoReboot'
    BY <1>2 DEF Begin, Group, Check, Poll, m_vx_kill, Orphan
  <1>3. ASSUME NEW c \in Clients, Commit(c) PROVE NoReboot'
    <2>1. ~restart'
      BY <1>3, Zenon DEF Commit
    <2> QED
      BY <1>3, <2>1 DEF Commit
  <1>4. ASSUME NEW c \in Clients, m_vx_exec(c) PROVE NoReboot'
    <2>1. op[c] # "reboot"
      BY DEF StarterInv, UnlockedOps
    <2>2. guest' \in {"halt", guest}
      BY <1>4, <2>1 DEF m_vx_exec
    <2> QED
      BY <1>4, <2>2 DEF m_vx_exec
  <1>5. ASSUME NEW a \in Actors, Start(a) PROVE NoReboot'
    <2>1. restart' = restart /\ death' = death /\ (guest' = guest \/ guest' = "run")
      BY <1>5 DEF Start, StartXid, ClearPersistent, CheckRunning, nx_create, vx_create, Started
    <2> QED
      BY <2>1
  <1>6. ASSUME NEW w \in Waiters, Wait(w) PROVE NoReboot'
    BY <1>6 DEF Wait
  <1>7. CASE Helper
    <2>1. CASE helper_startup \/ vshelper_startup \/ vshelper_halt \/ vshelper_restart
      <3>1. UNCHANGED <<restart, guest>> /\ death' \in {death, "none"}
        BY <2>1 DEF helper_startup, vshelper_startup, vshelper_halt, vshelper_restart
      <3> QED
        BY <3>1
    <2>2. CASE helper_shutdown
      <3>1. UNCHANGED <<restart, guest>> /\ death' = "done"
        BY <2>2 DEF helper_shutdown
      <3> QED
        BY <3>1
    <2> QED
      BY <1>7, <2>1, <2>2 DEF Helper
  <1>8. CASE Kernel \/ Reload \/ Reopen
    BY <1>8 DEF Kernel, InitRuns, Dispose, Reap, ReapNx, Reload, Reopen
  <1>9. CASE GuestReboot
    <2>1. death' \in (GuestMay \cup {guest}) \ {"run"} /\ UNCHANGED <<restart, guest>>
      BY <1>9 DEF GuestReboot
    <2> QED
      BY <2>1 DEF NoUnlockedStart
  <1> QED
    BY <1>1, <1>2, <1>3, <1>4, <1>5, <1>6, <1>7, <1>8, <1>9 DEF Next, Serve, Actors

LEMMA StarterStep ==
    ASSUME NoUnlockedStart
    PROVE  ProcsOK /\ NoReboot /\ StarterInv /\ [Next]_vars => StarterInv'
  <1> SUFFICES ASSUME ProcsOK, NoReboot, StarterInv, [Next]_vars PROVE StarterInv'
    OBVIOUS
  <1> USE ConstantsAssumption DEF db, net, ctx, kernel, procs, Keep
  <1>1. CASE UNCHANGED vars
    BY <1>1 DEF vars, StarterInv
  <1>2. ASSUME NEW c \in Clients, Done(c) PROVE StarterInv'
    <2>1. /\ pc'[c] = "idle" /\ op'[c] = "none"
          /\ \A a \in Actors \ {c} : pc'[a] = pc[a] /\ op'[a] = op[a]
          /\ \A a \in Actors \ {c} : lock = a => lock' = a
      BY <1>2 DEF Done, Goto, ProcsOK, Actors
    <2> QED
      BY <2>1 DEF StarterInv, Actors, StartPCs, UnlockedOps
  <1>3. ASSUME NEW c \in Clients, NEW l, Goto(c, l), UNCHANGED <<lock, op>>,
               pc[c] # "idle", l \in StartPCs => op[c] \in {"start", "restart"}
        PROVE  StarterInv'
    BY <1>3 DEF Goto, StarterInv, ProcsOK, Actors
  <1>4. ASSUME NEW c \in Clients, Begin(c) PROVE StarterInv'
    <2>1. PICK o \in Ops :
             /\ op' = [op EXCEPT ![c] = o]
             /\ IF Locked(o) THEN lock = Free /\ lock' = c ELSE UNCHANGED lock
             /\ Goto(c, CASE o \in VgOps -> "group"
                          [] o = "start" -> "start"
                          [] OTHER -> "check")
      BY <1>4 DEF Begin
    <2>2. o \notin UnlockedOps
      BY DEF NoUnlockedStart
    <2>3. o \in {"start", "restart"} => lock' = c
      BY <2>1 DEF Locked, VgOps
    <2>4. lock' = lock \/ lock = Free
      BY <2>1
    <2>5. PICK l : Goto(c, l) /\ (l \in StartPCs => o = "start")
      <3> DEFINE l == CASE o \in VgOps -> "group"
                        [] o = "start" -> "start"
                        [] OTHER -> "check"
      <3>1. l \in StartPCs => o = "start"
        BY DEF StartPCs
      <3>2. Goto(c, l)
        BY <2>1
      <3> HIDE DEF l
      <3> QED
        BY <3>1, <3>2
    <2>6. /\ pc'[c] = l /\ op'[c] = o
          /\ \A a \in Actors \ {c} : pc'[a] = pc[a] /\ op'[a] = op[a]
      BY <2>1, <2>5 DEF Goto, ProcsOK, Actors
    <2> QED
      BY <2>2, <2>3, <2>4, <2>5, <2>6 DEF StarterInv, Actors
  <1>5. ASSUME NEW c \in Clients, Group(c) PROVE StarterInv'
    <2>1. CASE Done(c)
      BY <1>2, <2>1
    <2>2. CASE ~Done(c)
      <3>1. op[c] = "vg_stop"
        BY <1>5 DEF Group, ProcsOK, StarterInv, VgOps, UnlockedOps
      <3>2. /\ pc' = [pc EXCEPT ![c] = "check"] /\ op' = [op EXCEPT ![c] = "stop"]
            /\ UNCHANGED lock
        BY <1>5, <2>2, <3>1 DEF Group, Goto
      <3> QED
        BY <3>2 DEF StarterInv, ProcsOK, Actors, StartPCs, UnlockedOps
    <2> QED
      BY <2>1, <2>2
  <1>6. ASSUME NEW c \in Clients, Check(c) PROVE StarterInv'
    <2>1. CASE Done(c)
      BY <1>2, <2>1
    <2>2. CASE ~Done(c)
      <3> DEFINE l == CASE op[c] = "kill" -> "kill"
                        [] op[c] \in {"remove", "create"} -> "commit"
                        [] OTHER -> "exec"
      <3>1. l \notin StartPCs
        BY DEF StartPCs
      <3>2. Goto(c, l) /\ pc[c] = "check" /\ UNCHANGED <<lock, op>>
        BY <1>6, <2>2 DEF Check
      <3> HIDE DEF l
      <3> QED
        BY <1>3, <3>1, <3>2
    <2> QED
      BY <2>1, <2>2
  <1>7. ASSUME NEW c \in Clients, m_vx_exec(c) \/ Poll(c) PROVE StarterInv'
    <2>1. CASE Done(c)
      BY <1>2, <2>1
    <2>2. CASE ~Done(c)
      <3>1. Goto(c, "run") \/ (Goto(c, "start") /\ op[c] = "restart")
        BY <1>7, <2>2 DEF m_vx_exec, Poll
      <3>2. pc[c] # "idle" /\ UNCHANGED <<lock, op>>
        BY <1>7, <2>2 DEF m_vx_exec, Poll
      <3> QED
        BY <1>3, <3>1, <3>2 DEF StartPCs
    <2> QED
      BY <2>1, <2>2
  <1>8. ASSUME NEW c \in Clients, Commit(c) \/ m_vx_kill(c) PROVE StarterInv'
    BY <1>2, <1>8 DEF Commit, m_vx_kill
  <1>9. ASSUME NEW c \in Clients, Start(c) PROVE StarterInv'
    <2>1. CASE Done(c)
      BY <1>2, <2>1
    <2>2. CASE ~Done(c)
      <3>1. PICK l : Goto(c, l)
        BY <1>9, <2>2 DEF Start, StartXid, ClearPersistent, CheckRunning, nx_create, vx_create,
                          Started
      <3>2. pc[c] \in StartPCs /\ UNCHANGED <<lock, op>>
        BY <1>9, <2>2 DEF Start, StartXid, ClearPersistent, CheckRunning, nx_create, vx_create,
                          Started, StartPCs
      <3>3. pc[c] # "idle" /\ op[c] \in {"start", "restart"}
        BY <3>2 DEF StarterInv, StartPCs
      <3> QED
        BY <1>3, <3>1, <3>2, <3>3
    <2> QED
      BY <2>1, <2>2
  <1>10. ASSUME NEW c \in Clients, Orphan(c) PROVE StarterInv'
    BY <1>10 DEF Orphan, NoUnlockedStart
  <1>11. ASSUME NEW w \in Waiters, Wait(w) \/ Start(w) PROVE StarterInv'
    <2>1. pc[w] = "idle"
      BY DEF StarterInv
    <2> QED
      BY <1>11, <2>1 DEF Wait, Start, StartXid, ClearPersistent, CheckRunning, nx_create,
                         vx_create, Started
  <1>12. CASE Helper
    <2>1. UNCHANGED <<lock, op>> /\ (UNCHANGED pc \/ HelperReturns)
      BY <1>12 DEF Helper, helper_startup, vshelper_startup, vshelper_restart, vshelper_halt,
                   helper_shutdown, NoReboot
    <2>2. \A a \in Actors : pc'[a] = pc[a] \/ (pc[a] = "wait" /\ pc'[a] = "created")
      BY <2>1 DEF HelperReturns
    <2> QED
      BY <2>1, <2>2 DEF StarterInv, StartPCs, Actors
  <1>13. CASE Kernel \/ GuestReboot \/ Reload \/ Reopen
    BY <1>13 DEF Kernel, InitRuns, Dispose, Reap, ReapNx, GuestReboot, Reload, Reopen, StarterInv
  <1> QED
    BY <1>1, <1>4, <1>5, <1>6, <1>7, <1>8, <1>9, <1>10, <1>11, <1>12, <1>13 DEF Next, Serve

(* Without the three ways to start a vserver that take no lock, a vserver  *)
(* that is not registered does not run: for any number of clients that     *)
(* start, stop, restart, kill, create, remove and enter it, whatever calls *)
(* are lost, and whatever fails or takes too long.                         *)
THEOREM RunsRegistered == ASSUME NoUnlockedStart PROVE Spec => []RunsOnlyIfRegistered
  <1>1. Init => NoReboot /\ StarterInv
    <2> SUFFICES ASSUME Init PROVE NoReboot /\ StarterInv
      OBVIOUS
    <2>1. NoReboot
      BY DEF Init, NoReboot
    <2>2. StarterInv
      BY DEF Init, StarterInv, Actors, StartPCs, UnlockedOps
    <2> QED
      BY <2>1, <2>2
  <1>2. StarterInv => StartsLocked
    BY DEF StarterInv, StartsLocked, StartPCs, Actors
  <1> QED
    BY <1>1, <1>2, NoRebootStep, StarterStep, TypeAlways, LockedStartsAreSafe, PTL DEF Spec
=============================================================================
