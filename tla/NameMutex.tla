----------------------------- MODULE NameMutex -----------------------------
(***************************************************************************)
(* What the daemon's lock files promise the methods that ask for M_LOCK:   *)
(* one atomic lock per vserver name.  A process takes a lock that is free  *)
(* while it has none, never hands it over directly, and gives up all it    *)
(* has when it ends.  MethodLock implements this with lockf(F_TEST) and    *)
(* lockf(F_LOCK) on one file per name (src/vcd/methods.c).                 *)
(***************************************************************************)
CONSTANTS Procs,   \* daemon children, one per connection
          Names,   \* vserver names
          Free     \* no process

VARIABLE holder    \* holder[n]: the process that has the lock of name n

Init == holder = [n \in Names |-> Free]

(* A process without a lock takes one that nobody has. *)
Acquire(p, n) ==
    /\ holder[n] = Free
    /\ \A m \in Names : holder[m] # p
    /\ holder' = [holder EXCEPT ![n] = p]

(* A process that ends leaves nothing locked. *)
Release(p) ==
    /\ \E n \in Names : holder[n] = p
    /\ holder' = [n \in Names |-> IF holder[n] = p THEN Free ELSE holder[n]]

Next == \E p \in Procs : Release(p) \/ \E n \in Names : Acquire(p, n)

Spec == Init /\ [][Next]_holder
=============================================================================
