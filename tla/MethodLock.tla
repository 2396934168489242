----------------------------- MODULE MethodLock -----------------------------
(***************************************************************************)
(* The way every XML-RPC method of vcd begins: method_init, with the       *)
(* authentication, the capability check, the ownership check and the lock  *)
(* of the vserver's name (src/vcd/methods.c).                              *)
(*                                                                         *)
(* abyss forks one child per connection and keepalive_max_conn is 0, so a  *)
(* child serves one request; that request may be xmlrpc-c's                *)
(* system.multicall, which runs several methods one after the other in the *)
(* same child.  The descriptor lockfd is a static variable of the child    *)
(* and is never closed: the lock goes away when the child exits.           *)
(*                                                                         *)
(* The tables the checks read belong to other modules and change under     *)
(* them, so the answer of a query is a free choice here.  No property      *)
(* tells the fault codes apart: a fault ends the call.  The counters of    *)
(* table vcd that method_init increments are left out.                     *)
(***************************************************************************)
EXTENDS Naturals

CONSTANTS Procs,          \* daemon children, one per connection
          Names,          \* vserver names, i.e. lock files
          Free,           \* the holder of a lock nobody has
          Closed,         \* lockfd = -1
          MaxCalls,       \* bound: methods per connection (system.multicall)
          MethodFlags,    \* the flags the methods under study pass
          Signalled       \* children that may get SIGINT, SIGTERM or SIGQUIT

ASSUME ConstantsAssumption ==
    /\ Free \notin Procs
    /\ Closed \notin Names
    /\ MaxCalls \in Nat
    /\ MethodFlags \subseteq SUBSET {"M_OWNER", "M_LOCK"}
    /\ Signalled \subseteq Procs

VARIABLES pc,        \* where each child is
          call,      \* the method it runs: the name argument and the flags
          lockfd,    \* the lock file the child has open, or Closed
          holder,    \* the kernel's table of record locks
          ncalls     \* calls the child has received

vars == <<pc, call, lockfd, holder, ncalls>>

Flags == {"M_OWNER", "M_LOCK"}
Calls == [name : Names, flags : SUBSET Flags]
PCs == {"idle", "flags", "lock", "wait", "body", "exited"}

TypeOK ==
    /\ pc \in [Procs -> PCs]
    /\ call \in [Procs -> Calls]
    /\ lockfd \in [Procs -> Names \cup {Closed}]
    /\ holder \in [Names -> Procs \cup {Free}]
    /\ ncalls \in [Procs -> 0 .. MaxCalls]

Init ==
    /\ pc = [p \in Procs |-> "idle"]
    /\ \E n \in Names : call = [p \in Procs |-> [name |-> n, flags |-> {}]]
    /\ lockfd = [p \in Procs |-> Closed]
    /\ holder = [n \in Names |-> Free]
    /\ ncalls = [p \in Procs |-> 0]

-----------------------------------------------------------------------------
(* The kernel: a lock is granted when no other process has it, and every   *)
(* lock of a process is dropped when the process ends.                     *)
CanLock(p, n) == holder[n] \in {Free, p}
Unlocked(p) == [n \in Names |-> IF holder[n] = p THEN Free ELSE holder[n]]

Goto(p, l) == pc' = [pc EXCEPT ![p] = l]

(* The registry calls the next method of the connection.  auth_isvalid and *)
(* auth_capable let it on, or it faults (MEAUTH, MEPERM).  A call without  *)
(* flags (those on users, and the helper's) does not use its name.         *)
method_init(p) ==
    /\ pc[p] = "idle"
    /\ ncalls[p] < MaxCalls
    /\ ncalls' = [ncalls EXCEPT ![p] = @ + 1]
    /\ \E c \in Calls :
          /\ c.flags \in MethodFlags
          /\ call' = [call EXCEPT ![p] = c]
          /\ \/ Goto(p, "idle")
             \/ Goto(p, IF c.flags = {} THEN "body" ELSE "flags")
    /\ UNCHANGED <<lockfd, holder>>

(* validate_name or MEINVAL, then auth_isowner or MENOVPS if M_OWNER. *)
method_check_flags(p) ==
    /\ pc[p] = "flags"
    /\ \/ Goto(p, "idle")
       \/ Goto(p, IF "M_LOCK" \in call[p].flags THEN "lock" ELSE "body")
    /\ UNCHANGED <<call, lockfd, holder, ncalls>>

(* Mutant: no test of lockfd, so a multicall can lock a second name. *)
method_lock_test_NoLockfdCheck(p) ==
    /\ pc[p] = "lock"
    /\ lockfd' = [lockfd EXCEPT ![p] = call[p].name]
    /\ Goto(p, IF CanLock(p, call[p].name) THEN "wait" ELSE "idle")
    /\ UNCHANGED <<call, holder, ncalls>>

(* Mutant: a plain blocking lock, neither lockfd nor the file is tested. *)
method_lock_test_NoTest(p) ==
    /\ pc[p] = "lock"
    /\ lockfd' = [lockfd EXCEPT ![p] = call[p].name]
    /\ Goto(p, "wait")
    /\ UNCHANGED <<call, holder, ncalls>>

(* Mutant: lockfd = open_trunc(...) == -1 stores the comparison. *)
method_lock_test_StoresTest(p) ==
    /\ pc[p] = "lock" /\ lockfd[p] = Closed
    /\ lockfd' = [lockfd EXCEPT ![p] = FALSE]
    /\ Goto(p, IF CanLock(p, call[p].name) THEN "wait" ELSE "idle")
    /\ UNCHANGED <<call, holder, ncalls>>

(* The first half of method_lock: MEBUSY for a child that already opened a *)
(* lock file, for one whose open fails, and for one whose F_TEST finds the *)
(* file locked.  The descriptor stays open when F_TEST fails.              *)
method_lock_test(p) ==
    /\ pc[p] = "lock"
    /\ \/ Goto(p, "idle") /\ UNCHANGED lockfd
       \/ /\ lockfd[p] = Closed
          /\ lockfd' = [lockfd EXCEPT ![p] = call[p].name]
          /\ Goto(p, IF CanLock(p, call[p].name) THEN "wait" ELSE "idle")
    /\ UNCHANGED <<call, holder, ncalls>>

(* Mutant: the test is trusted and the lock is written without waiting. *)
method_lock_wait_TestOnly(p) ==
    /\ pc[p] = "wait"
    /\ holder' = [holder EXCEPT ![call[p].name] = p]
    /\ Goto(p, "body")
    /\ UNCHANGED <<call, lockfd, ncalls>>

(* The second half: F_LOCK, which sleeps if the lock was taken since.      *)
method_lock_wait(p) ==
    /\ pc[p] = "wait"
    /\ CanLock(p, call[p].name)
    /\ holder' = [holder EXCEPT ![call[p].name] = p]
    /\ Goto(p, "body")
    /\ UNCHANGED <<call, lockfd, ncalls>>

(* SIGINT, SIGTERM and SIGQUIT are caught in a child and the handler       *)
(* returns; the handler is installed without SA_RESTART, so a sleeping     *)
(* F_LOCK fails with EINTR, and method_lock does not look at its result.   *)
signal_handler(p) ==
    /\ p \in Signalled
    /\ pc[p] = "wait"
    /\ ~CanLock(p, call[p].name)
    /\ Goto(p, "body")
    /\ UNCHANGED <<call, lockfd, holder, ncalls>>

(* The rest of the method; what it does is the subject of other modules. *)
Body(p) ==
    /\ pc[p] = "body"
    /\ Goto(p, "idle")
    /\ UNCHANGED <<call, lockfd, holder, ncalls>>

(* The child exits after its response, or dies in the middle of a method:  *)
(* signal_handler exits for SIGHUP and SIGSEGV.                            *)
Exit(p) ==
    /\ pc[p] # "exited"
    /\ Goto(p, "exited")
    /\ holder' = Unlocked(p)
    /\ UNCHANGED <<call, lockfd, ncalls>>

Serve(p) ==
    \/ method_check_flags(p) \/ method_lock_test(p) \/ method_lock_wait(p) \/ Body(p)
    \/ pc[p] = "idle" /\ ncalls[p] > 0 /\ Exit(p)

Next == \E p \in Procs :
    method_init(p) \/ Serve(p) \/ signal_handler(p) \/ Exit(p)

(* Every child is scheduled, and a method's body ends. *)
Fairness == \A p \in Procs : WF_vars(Serve(p))
Spec == Init /\ [][Next]_vars
FairSpec == Spec /\ Fairness

-----------------------------------------------------------------------------
(* A process is inside a method that asked for the lock of name n. *)
Inside(p, n) ==
    pc[p] = "body" /\ "M_LOCK" \in call[p].flags /\ call[p].name = n

(* No two children, but for those a signal reaches, are ever inside the    *)
(* bodies of methods that lock the same name: method_lock's test and lock  *)
(* are two system calls, and only the second one decides.                  *)
MutualExclusion ==
    \A p, q \in Procs \ Signalled, n \in Names :
        Inside(p, n) /\ Inside(q, n) => p = q

(* lockf on lock files implements the atomic lock per name: locks are      *)
(* taken one at a time, only when free, and never handed over.             *)
Mutex == INSTANCE NameMutex WITH Procs <- Procs, Names <- Names, Free <- Free, holder <- holder
ImplementsMutex == Mutex!Spec

(* Every connection that has called a method ends: whatever a              *)
(* system.multicall asks for, lockfd and F_TEST keep children from         *)
(* sleeping in F_LOCK in a circle.                                         *)
EveryRequestEnds ==
    \A p \in Procs : ncalls[p] > 0 ~> pc[p] = "exited"

-----------------------------------------------------------------------------
(* Why the lock excludes: the holder of a lock is alive, past F_LOCK, and  *)
(* has that name's file open; a child about to lock has none locked; and   *)
(* a child no signal reaches that is inside a locking method holds the     *)
(* lock of the name it works on.                                           *)
LockInv ==
    /\ \A p \in Procs, n \in Names :
          holder[n] = p => lockfd[p] = n /\ pc[p] \notin {"wait", "exited"}
    /\ \A p \in Procs :
          pc[p] = "wait" => lockfd[p] = call[p].name
    /\ \A p \in Procs, n \in Names :
          p \notin Signalled /\ Inside(p, n) => holder[n] = p
=============================================================================
