---------------------------- MODULE Configuration ----------------------------
(***************************************************************************)
(* The configuration of one vserver, changed by concurrent callers.  Every *)
(* method that changes it asks for M_LOCK, checks its parameters, looks    *)
(* the xid up and executes one statement, so it is one step, taken while   *)
(* nobody else holds the name's lock; a method that is refused changes     *)
(* nothing.                                                                *)
(***************************************************************************)
EXTENDS VxdbMethods

CONSTANTS Requests,   \* the requests callers make, [method, params]
          MaxChanges  \* bound: how many changes are made

ASSUME MaxChangesAssumption == MaxChanges \in Nat

(* What sscanf makes of a number that does not fit into a word is left to  *)
(* the C library.                                                          *)
ASSUME RequestsAssumption ==
    \A r \in Requests :
        /\ IsConf(r.method)
        /\ \A f \in DOMAIN r.params :
              r.params[f][1] = "s" => sscanf(r.params[f][2], 0) < WORD

VARIABLES
    conf,    \* conf[t]: the rows of the vserver in table t
    asked,   \* asked[type]: the limit last asked for (history)
    locked,  \* vx.start holds the lock of the vserver's name
    touched, \* tables changed since the last start began (history)
    changes  \* how many changes were made

confVars == <<conf, asked, locked, touched, changes>>

ConfTypeOK ==
    /\ DOMAIN conf = Tables
    /\ \A t \in Tables : DOMAIN conf[t] \subseteq Keys[t]
    /\ \A type \in DOMAIN conf.vx_limit :
          conf.vx_limit[type] \in [soft : 0 .. WORD - 1, max : 0 .. WORD - 1]
    /\ DOMAIN asked = DOMAIN conf.vx_limit
    /\ locked \in BOOLEAN
    /\ touched \subseteq Tables
    /\ changes \in 0 .. MaxChanges

ConfInit ==
    /\ conf = NoRows
    /\ asked = Empty
    /\ locked = FALSE /\ touched = {} /\ changes = 0

(* The limits asked for, after request r has left the types in T. *)
Asked(r, T) ==
    LET p == Fields(r.params) IN
    [type \in T |-> IF r.method = "vxdb.vx.limit.set" /\ p.type = type
                    THEN [soft |-> Numerals[p.soft], max |-> Numerals[p.max]]
                    ELSE asked[type]]

(* Mutant: M_LOCK is forgotten. *)
LockIsFree_NotAsked == TRUE

LockIsFree == ~locked

Configure ==
    \E r \in Requests :
        LET result == ConfMethod(r.method, conf, r.params) IN
        /\ LockIsFree
        /\ changes < MaxChanges
        /\ result.fault = "none"
        /\ conf' = result.next
        /\ asked' = Asked(r, DOMAIN conf'.vx_limit)
        /\ touched' = touched \cup {t \in Tables : conf'[t] # conf[t]}
        /\ changes' = changes + 1
        /\ UNCHANGED locked

-----------------------------------------------------------------------------
(* vxdb.vx.limit.get gives a limit back as it was set, less what the pages *)
(* lose: never more than was asked for, and, unless the product wraps,     *)
(* less than one page below it.                                            *)
LimitReadBack ==
    \A type \in DOMAIN asked :
        LET got == ShownLimit(conf, type)
            want == asked[type]
            Near(g, w) ==
                /\ g <= w
                /\ w * KB < WORD => (w - g) * KB < PAGE
        IN Near(got.soft, want.soft) /\ Near(got.max, want.max)
=============================================================================
