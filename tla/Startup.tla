------------------------------- MODULE Startup -------------------------------
(***************************************************************************)
(* How a vserver gets its configuration when it starts: helper.netup and   *)
(* helper.startup read the tables one after the other and apply each to    *)
(* the kernel's contexts, while the methods of Configuration change them.  *)
(* The two helper methods take no lock.  vx.start holds the lock of the    *)
(* name meanwhile; the start after a reboot (helper.shutdown) and the one  *)
(* of a group (vg.vx.start) do not.                                        *)
(*                                                                         *)
(* The kernel is external.  What belongs to a context ends with it; a disk *)
(* limit belongs to a filesystem and a cpuset is a directory, and both     *)
(* outlive the context.                                                    *)
(***************************************************************************)
EXTENDS Configuration, SequencesExt

CONSTANTS Supported, \* the types of limits in the kernel's mask
          DiskUses   \* what the walk over the tree may find, [space, inodes]

ASSUME Supported \subseteq LimitTypes

VARIABLES
    pc,      \* the next step of the start
    byStart, \* the start is vx.start's, which holds the lock
    netOK,   \* helper.netup did not fault
    kern,    \* kern[t]: what was applied to the contexts from table t
    mounts,  \* the mounts made in the namespace, in order
    disk,    \* the kernel's disk limit for the xid
    cpuset,  \* /dev/cpuset/xid<n>
    inset,   \* vshelper processes that are tasks of that cpuset
    busy     \* the rmdir of this start failed (history)

startVars == <<pc, byStart, netOK, kern, mounts, disk, cpuset, inset, busy>>
vars == <<confVars, startVars>>

(* Tables that are applied to the contexts themselves. *)
ContextTables == Tables \ {"dx_limit", "vx_cpuset", "mount"}

Steps == <<"network_interfaces", "network_broadcast", "init", "bcaps", "ccaps",
           "flags", "context_disk_limits", "context_resource_limits",
           "context_cpuset", "context_scheduler", "namespace_setup",
           "context_uname", "mount_root", "namespace_mount", "exec">>
Starting == ToSet(Steps)

MaxHelpers == 2  \* bound on the vshelper processes in the cpuset

NoDisk == [state |-> "none"]
Added == [state |-> "added"]   \* a limit without values
NoCpuset == [state |-> "none"]
Directory == [state |-> "dir"] \* a cpuset without cpus
Cpuset(row) == [state |-> "set", row |-> row]

TypeOK ==
    /\ ConfTypeOK
    /\ pc \in Starting \cup {"stopped", "up", "failed"}
    /\ byStart \in BOOLEAN /\ netOK \in BOOLEAN /\ busy \in BOOLEAN
    /\ byStart => locked
    /\ DOMAIN kern = ContextTables
    /\ \A t \in ContextTables : DOMAIN kern[t] \subseteq Keys[t]
    /\ mounts \in Seq(Paths)
    /\ disk.state \in {"none", "added", "set"}
    /\ cpuset.state \in {"none", "dir", "set"}
    /\ inset \in 0 .. MaxHelpers

NewKern == [t \in ContextTables |-> Empty]

Init ==
    /\ ConfInit
    /\ pc = "stopped" /\ byStart = FALSE /\ netOK = TRUE
    /\ kern = NewKern /\ mounts = <<>>
    /\ disk = NoDisk /\ cpuset = NoCpuset /\ inset = 0 /\ busy = FALSE

-----------------------------------------------------------------------------
(* Starts *)

(* vx.start and what calls it: the old context is gone, new ones are made. *)
Start ==
    /\ pc = "stopped"
    /\ pc' = Head(Steps)
    /\ \/ ~locked /\ locked' = TRUE /\ byStart' = TRUE
       \/ byStart' = FALSE /\ UNCHANGED locked
    /\ netOK' = TRUE /\ kern' = NewKern /\ mounts' = <<>> /\ busy' = FALSE
    /\ touched' = {}
    /\ UNCHANGED <<conf, asked, changes, disk, cpuset, inset>>

(* vx.start answers once vshelper is through with the new context; its     *)
(* child may also die earlier, and the start goes on without the lock.     *)
Answer ==
    /\ locked /\ locked' = FALSE /\ byStart' = FALSE
    /\ UNCHANGED <<conf, asked, touched, changes, pc, netOK, kern, mounts,
                   disk, cpuset, inset, busy>>

After(step) == Steps[(CHOOSE i \in DOMAIN Steps : Steps[i] = step) + 1]
At(step) == pc = step /\ UNCHANGED <<confVars, byStart>>
Proceed == pc' = After(pc)

(* helper.startup faults: vshelper returns, init is not started, and what  *)
(* was applied to the context is never used.                               *)
Fault == pc' = "failed"

-----------------------------------------------------------------------------
(* helper.netup.  A fault ends it, and the start goes on: the result of    *)
(* nx_create is printed, no more.                                          *)

network_interfaces ==
    /\ At("network_interfaces")
    /\ \/ /\ kern' = [kern EXCEPT !.nx_addr = conf.nx_addr]
          /\ Proceed /\ UNCHANGED netOK
       \/ /\ \E K \in SUBSET DOMAIN conf.nx_addr :
                kern' = [kern EXCEPT !.nx_addr = Without(conf.nx_addr, K)]
          /\ pc' = "init" /\ netOK' = FALSE
    /\ UNCHANGED <<mounts, disk, cpuset, inset, busy>>

network_broadcast ==
    /\ At("network_broadcast")
    /\ \/ /\ kern' = [kern EXCEPT !.nx_broadcast = conf.nx_broadcast]
          /\ UNCHANGED netOK
       \/ netOK' = FALSE /\ UNCHANGED kern
    /\ Proceed
    /\ UNCHANGED <<mounts, disk, cpuset, inset, busy>>

-----------------------------------------------------------------------------
(* helper.startup *)

(* A table whose rows go to the context: read and applied, or a fault. *)
Apply(step, t, rows) ==
    /\ At(step)
    /\ \/ kern' = [kern EXCEPT ![t] = rows] /\ Proceed
       \/ Fault /\ UNCHANGED kern
    /\ UNCHANGED <<netOK, mounts, disk, cpuset, inset, busy>>

(* The path of init, for the answer. *)
m_helper_startup == Apply("init", "init", conf.init)

context_caps_and_flags ==
    \/ Apply("bcaps", "vx_bcaps", conf.vx_bcaps)
    \/ Apply("ccaps", "vx_ccaps", conf.vx_ccaps)
    \/ Apply("flags", "vx_flags", conf.vx_flags)

AtLeast(n, used) == IF n < used THEN used ELSE n

(* A limit is not set below what is used. *)
DiskLimit(r, u) ==
    [state |-> "set", reserved |-> r.reserved,
     space_used  |-> u.space,  space_total  |-> AtLeast(r.space, u.space),
     inodes_used |-> u.inodes, inodes_total |-> AtLeast(r.inodes, u.inodes)]

(* Mutant: the old limit is removed only if there is a new one. *)
context_disk_limits_KeepsOld ==
    /\ At("context_disk_limits")
    /\ IF DOMAIN conf.dx_limit = {} THEN UNCHANGED disk /\ Proceed
       ELSE \E u \in DiskUses :
               disk' = DiskLimit(conf.dx_limit["xid"], u) /\ Proceed
    /\ UNCHANGED <<netOK, kern, mounts, cpuset, inset, busy>>

(* The old limit is always removed first.  If there is a row, a new one is *)
(* added, the tree is walked for what is used (handle_file keeps inodes    *)
(* at an address that is no longer valid, so any sum may come out), and    *)
(* the limit is set.  A fault may leave a limit without values.            *)
context_disk_limits ==
    /\ At("context_disk_limits")
    /\ \/ DOMAIN conf.dx_limit = {} /\ disk' = NoDisk /\ Proceed
       \/ /\ DOMAIN conf.dx_limit # {}
          /\ \E u \in DiskUses : disk' = DiskLimit(conf.dx_limit["xid"], u)
          /\ Proceed
       \/ disk' = NoDisk /\ Fault
       \/ DOMAIN conf.dx_limit # {} /\ disk' = Added /\ Fault
    /\ UNCHANGED <<netOK, kern, mounts, cpuset, inset, busy>>

(* Mutant: a hard limit below the soft one is not corrected. *)
context_resource_limits_NoFix ==
    Apply("context_resource_limits", "vx_limit",
          [type \in DOMAIN conf.vx_limit \cap Supported |-> conf.vx_limit[type]])

(* Types the kernel does not support are skipped. *)
context_resource_limits ==
    Apply("context_resource_limits", "vx_limit",
          [type \in DOMAIN conf.vx_limit \cap Supported |->
              LET row == conf.vx_limit[type]
              IN [soft |-> row.soft, max |-> AtLeast(row.max, row.soft)]])

(* The directory is removed, which fails if it still has tasks, and made   *)
(* again if there is a row.                                                *)
context_cpuset ==
    /\ At("context_cpuset")
    /\ busy' = (cpuset # NoCpuset /\ inset > 0)
    /\ \/ /\ DOMAIN conf.vx_cpuset = {}
          /\ cpuset' = IF busy' THEN cpuset ELSE NoCpuset
          /\ Proceed
       \/ /\ DOMAIN conf.vx_cpuset # {}
          /\ cpuset' = Cpuset(conf.vx_cpuset["xid"])
          /\ Proceed
       \/ /\ DOMAIN conf.vx_cpuset # {}
          /\ cpuset' \in {IF busy' THEN cpuset ELSE Directory,
                          Cpuset(conf.vx_cpuset["xid"])}
          /\ Fault
       \/ cpuset' = (IF busy' THEN cpuset ELSE NoCpuset) /\ Fault
    /\ UNCHANGED <<netOK, kern, mounts, disk, inset>>

(* One call per row, and the call for cpuid -1 is for every cpu; a row for *)
(* a cpu that is not online is skipped.                                    *)
vx_sched_set(cpuid) ==
    CASE cpuid = -1 -> 0 .. NumCpus - 1
      [] cpuid \in 0 .. NumCpus - 1 -> {cpuid}
      [] cpuid >= NumCpus -> {}

(* ORDER BY cpuid ASC: the last call for a cpu is the one that counts. *)
LastCall(cpu) ==
    LET calls == {cpuid \in DOMAIN conf.vx_sched : cpu \in vx_sched_set(cpuid)}
    IN CHOOSE cpuid \in calls : \A other \in calls : other <= cpuid

context_scheduler ==
    Apply("context_scheduler", "vx_sched",
          [cpu \in UNION {vx_sched_set(cpuid) : cpuid \in DOMAIN conf.vx_sched} |->
              conf.vx_sched[LastCall(cpu)]])

namespace_setup ==
    /\ At("namespace_setup")
    /\ Proceed \/ Fault
    /\ UNCHANGED <<netOK, kern, mounts, disk, cpuset, inset, busy>>

(* It also sets the name of the context, which no table has. *)
context_uname == Apply("context_uname", "vx_uname", conf.vx_uname)

(* The root entry.  If its query fails it is skipped without a fault. *)
mount_root ==
    /\ At("mount_root")
    /\ \/ "/" \in DOMAIN conf.mount /\ mounts' = Append(mounts, "/") /\ Proceed
       \/ UNCHANGED mounts /\ Proceed
       \/ UNCHANGED mounts /\ Fault
    /\ UNCHANGED <<netOK, kern, disk, cpuset, inset, busy>>

(* The query for the other entries gives all entries, in any order. *)
namespace_mount ==
    /\ At("namespace_mount")
    /\ \/ /\ \E s \in SetToSeqs(DOMAIN conf.mount) : mounts' = mounts \o s
          /\ Proceed
       \/ UNCHANGED mounts /\ Fault
    /\ UNCHANGED <<netOK, kern, disk, cpuset, inset, busy>>

-----------------------------------------------------------------------------
(* vshelper and the kernel *)

(* vshelper becomes a task of the cpuset, forks, and the child executes    *)
(* init.                                                                   *)
vshelper_startup ==
    /\ At("exec")
    /\ pc' = "up"
    /\ inset < MaxHelpers
    /\ inset' = IF cpuset = NoCpuset THEN inset ELSE inset + 1
    /\ UNCHANGED <<netOK, kern, mounts, disk, cpuset, busy>>

(* It leaves the cpuset when it is through with its polling loop, up to 15 *)
(* seconds later, even if the guest is gone by then.                       *)
vshelper_exits ==
    /\ inset > 0 /\ inset' = inset - 1
    /\ UNCHANGED <<confVars, pc, byStart, netOK, kern, mounts, disk, cpuset, busy>>

(* The guest ends; or vx.start removes a context that a failed helper left *)
(* behind.                                                                 *)
ContextEnds ==
    /\ pc \in {"up", "failed"}
    /\ pc' = "stopped"
    /\ UNCHANGED <<confVars, byStart, netOK, kern, mounts, disk, cpuset, inset, busy>>

HelperStep ==
    \/ network_interfaces \/ network_broadcast
    \/ m_helper_startup \/ context_caps_and_flags \/ context_disk_limits
    \/ context_resource_limits \/ context_cpuset \/ context_scheduler
    \/ namespace_setup \/ context_uname \/ mount_root \/ namespace_mount

Next == \/ Configure /\ UNCHANGED startVars
        \/ Start \/ Answer \/ HelperStep
        \/ vshelper_startup \/ vshelper_exits \/ ContextEnds

Spec == Init /\ [][Next]_vars

-----------------------------------------------------------------------------
(* The kernel has what table t says. *)
AsConfigured(t) ==
    CASE t = "dx_limit" ->
            IF DOMAIN conf.dx_limit = {} THEN disk = NoDisk
            ELSE \E u \in DiskUses : disk = DiskLimit(conf.dx_limit["xid"], u)
      [] t = "vx_cpuset" ->
            IF DOMAIN conf.vx_cpuset = {} THEN cpuset = NoCpuset \/ busy
            ELSE cpuset = Cpuset(conf.vx_cpuset["xid"])
      [] t = "mount" ->
            /\ ToSet(mounts) = DOMAIN conf.mount
            /\ \A i, j \in DOMAIN mounts :
                  mounts[i] = mounts[j] => i = j \/ mounts[i] = "/"
      [] t = "vx_sched" ->
            \A c \in 0 .. NumCpus - 1 :
                LET own == {c, -1} \cap DOMAIN conf.vx_sched
                    row == IF c \in own THEN c ELSE -1
                IN IF own = {} THEN c \notin DOMAIN kern.vx_sched
                   ELSE kern.vx_sched[c] = conf.vx_sched[row]
      [] t = "vx_limit" ->
            DOMAIN kern.vx_limit = DOMAIN conf.vx_limit \cap Supported
      [] t \in {"nx_addr", "nx_broadcast"} -> netOK => kern[t] = conf[t]
      [] OTHER -> kern[t] = conf[t]

(* When init is executed, the contexts have the configuration: all of it   *)
(* if vx.start holds the lock, and otherwise, after a reboot, every table  *)
(* that was not changed meanwhile.  A disk limit or a cpuset of an earlier *)
(* run is gone, whatever happened to its row, to the earlier start or to   *)
(* its vshelper, unless that one is still in the cpuset.  A cpu has its    *)
(* own bucket, or the one for all cpus.                                    *)
InitAsConfigured ==
    [][pc = "exec" /\ pc' = "up" =>
          \A t \in Tables : byStart \/ t \notin touched => AsConfigured(t)]_vars

(* No limit of a running guest is above what was asked for when it was     *)
(* set, in spite of conversion, wrap and the correction of a hard limit    *)
(* below the soft one; and the soft limit is within the hard one.          *)
NoLimitAboveAsked ==
    pc = "up" /\ "vx_limit" \notin touched =>
        \A type \in DOMAIN kern.vx_limit :
            LET lim == kern.vx_limit[type]
                unit == IF type \in LIMTYPE THEN PAGE ELSE KB
            IN /\ lim.soft <= lim.max
               /\ lim.soft * unit <= asked[type].soft * KB
               /\ lim.max * unit <= AtLeast(asked[type].max, asked[type].soft) * KB

(* "mount root entry", and then "mount non-root entries"                   *)
(* (helper_startup.c): nothing is mounted twice.  This does not hold if    *)
(* there is a root entry, and no run checks it.                            *)
MountedOnce == \A i, j \in DOMAIN mounts : mounts[i] = mounts[j] => i = j
=============================================================================
