-------------------------- MODULE MethodLockProofs --------------------------
(***************************************************************************)
(* Proofs about MethodLock for every set of children and names, every      *)
(* number of calls per connection, and any set of children that signals    *)
(* reach.                                                                  *)
(***************************************************************************)
EXTENDS MethodLock, TLAPS

(* The disjuncts of Next for one child, with Serve unfolded. *)
LEMMA StepCases ==
    ASSUME NEW p \in Procs,
           method_init(p) \/ Serve(p) \/ signal_handler(p) \/ Exit(p)
    PROVE  \/ method_init(p) \/ method_check_flags(p)
           \/ method_lock_test(p) \/ method_lock_wait(p)
           \/ signal_handler(p) \/ Body(p) \/ Exit(p)
  BY DEF Serve

(* A step of a child leaves every variable within its type: method_init's  *)
(* bound on calls, and the names locks are taken on, stay in range.        *)
LEMMA TypeStep == TypeOK /\ [Next]_vars => TypeOK'
  <1> SUFFICES ASSUME TypeOK, [Next]_vars PROVE TypeOK'
    OBVIOUS
  <1> USE ConstantsAssumption DEF TypeOK, PCs, Goto
  <1>1. CASE UNCHANGED vars
    BY <1>1 DEF vars
  <1>2. ASSUME NEW p \in Procs, method_init(p) PROVE TypeOK'
    BY <1>2 DEF method_init
  <1>3. ASSUME NEW p \in Procs, method_check_flags(p) PROVE TypeOK'
    BY <1>3 DEF method_check_flags
  <1>4. ASSUME NEW p \in Procs, method_lock_test(p) PROVE TypeOK'
    BY <1>4 DEF method_lock_test, Calls
  <1>5. ASSUME NEW p \in Procs, method_lock_wait(p) PROVE TypeOK'
    BY <1>5 DEF method_lock_wait, Calls
  <1>6. ASSUME NEW p \in Procs, signal_handler(p) PROVE TypeOK'
    BY <1>6 DEF signal_handler
  <1>7. ASSUME NEW p \in Procs, Body(p) PROVE TypeOK'
    BY <1>7 DEF Body
  <1>8. ASSUME NEW p \in Procs, Exit(p) PROVE TypeOK'
    BY <1>8 DEF Exit, Unlocked
  <1> QED
    BY <1>1, <1>2, <1>3, <1>4, <1>5, <1>6, <1>7, <1>8,
       StepCases DEF Next

(* Every state of the lock protocol is well typed. *)
THEOREM TypeCorrect == Spec => []TypeOK
  <1>1. Init => TypeOK
    BY ConstantsAssumption DEF Init, TypeOK, PCs, Calls, Flags
  <1> QED
    BY <1>1, TypeStep, PTL DEF Spec

-----------------------------------------------------------------------------
(* LockInv is inductive: only F_LOCK adds a holder, and the child it adds  *)
(* sleeps on the one file it has open; only the end of a child removes it. *)
LEMMA LockStep == TypeOK /\ LockInv /\ [Next]_vars => LockInv'
  <1> SUFFICES ASSUME TypeOK, LockInv, [Next]_vars PROVE LockInv'
    OBVIOUS
  <1> USE ConstantsAssumption DEF TypeOK, PCs, Goto, LockInv, Inside
  <1>1. CASE UNCHANGED vars
    BY <1>1 DEF vars
  <1>2. ASSUME NEW p \in Procs, method_init(p) PROVE LockInv'
    BY <1>2 DEF method_init
  <1>3. ASSUME NEW p \in Procs, method_check_flags(p) PROVE LockInv'
    BY <1>3 DEF method_check_flags
  <1>4. ASSUME NEW p \in Procs, method_lock_test(p) PROVE LockInv'
    BY <1>4 DEF method_lock_test, Calls
  <1>5. ASSUME NEW p \in Procs, method_lock_wait(p) PROVE LockInv'
    BY <1>5 DEF method_lock_wait, Calls, CanLock
  <1>6. ASSUME NEW p \in Procs, signal_handler(p) PROVE LockInv'
    BY <1>6 DEF signal_handler
  <1>7. ASSUME NEW p \in Procs, Body(p) PROVE LockInv'
    BY <1>7 DEF Body
  <1>8. ASSUME NEW p \in Procs, Exit(p) PROVE LockInv'
    BY <1>8 DEF Exit, Unlocked
  <1> QED
    BY <1>1, <1>2, <1>3, <1>4, <1>5, <1>6, <1>7, <1>8,
       StepCases DEF Next

(* The holder of a lock is alive and past F_LOCK with that file open, and  *)
(* a child inside a locking method has its lock unless a signal came.      *)
THEOREM LockInvariant == Spec => []LockInv
  <1>1. Init => LockInv
    BY ConstantsAssumption DEF Init, LockInv, Inside
  <1> QED
    BY <1>1, TypeCorrect, LockStep, PTL DEF Spec

(* Children that no signal reaches exclude each other in methods that lock *)
(* a name, whatever signals do to the others: both would be the one holder *)
(* of the lock.                                                            *)
THEOREM Exclusion == Spec => []MutualExclusion
  <1>1. LockInv => MutualExclusion
    BY DEF LockInv, MutualExclusion
  <1> QED
    BY <1>1, LockInvariant, PTL

-----------------------------------------------------------------------------
(* A step of the protocol takes one free lock, drops those of a child that *)
(* ends, or leaves the locks alone.                                        *)
LEMMA MutexStep ==
    TypeOK /\ LockInv /\ [Next]_vars => [Mutex!Next]_holder
  <1> SUFFICES ASSUME TypeOK, LockInv, [Next]_vars
               PROVE  [Mutex!Next]_holder
    OBVIOUS
  <1>1. ASSUME NEW p \in Procs, method_lock_wait(p) PROVE [Mutex!Next]_holder
    <2>1. call[p].name \in Names
      BY DEF TypeOK, Calls
    <2>2. \A m \in Names : holder[m] # p
      BY <1>1 DEF method_lock_wait, LockInv
    <2>3. Mutex!Acquire(p, call[p].name)
      BY <1>1, <2>1, <2>2 DEF method_lock_wait, CanLock, Mutex!Acquire
    <2> QED
      BY <2>1, <2>3 DEF Mutex!Next
  <1>2. ASSUME NEW p \in Procs, Exit(p) PROVE [Mutex!Next]_holder
    <2>1. CASE \E n \in Names : holder[n] = p
      BY <1>2, <2>1 DEF Exit, Unlocked, Mutex!Release, Mutex!Next
    <2>2. CASE ~ \E n \in Names : holder[n] = p
      <3>1. holder' = holder
        BY <1>2, <2>2 DEF Exit, Unlocked, TypeOK
      <3> QED
        BY <3>1
    <2> QED
      BY <2>1, <2>2
  <1>3. ASSUME NEW p \in Procs,
               \/ method_init(p) \/ method_check_flags(p)
               \/ method_lock_test(p)
               \/ signal_handler(p) \/ Body(p)
        PROVE  holder' = holder
    BY <1>3 DEF method_init, method_check_flags, method_lock_test,
                signal_handler, Body
  <1>4. CASE UNCHANGED vars
    BY <1>4 DEF vars
  <1> QED
    BY <1>1, <1>2, <1>3, <1>4, StepCases DEF Next

(* The lock files implement the atomic lock per name, with and without     *)
(* signals: a broken F_LOCK lets a child in, but never moves a lock.       *)
THEOREM Refinement == Spec => ImplementsMutex
  <1>1. Init => Mutex!Init
    BY DEF Init, Mutex!Init
  <1> QED
    BY <1>1, TypeCorrect, LockInvariant, MutexStep, PTL
    DEF Spec, ImplementsMutex, Mutex!Spec
=============================================================================
