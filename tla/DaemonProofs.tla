---------------------------- MODULE DaemonProofs ----------------------------
(***************************************************************************)
(* Proofs about Daemon for any set of connections and any number of        *)
(* signals, whether or not children keep the listening socket.             *)
(***************************************************************************)
EXTENDS Daemon, TLAPS

(* QuietReload is not inductive: the master must be known to have waited   *)
(* before it closes the database, and to have opened it before it serves.  *)
QuietInv ==
    /\ TypeOK
    /\ QuietReload
    /\ pc \in {"listen", "reload_vxdb", "exit_vxdb"} => Running = {}
    /\ pc \in {"main", "vxdb_init"} => ~vxdb
    /\ pc \in {"listen", "serve"} => vxdb

LEMMA FailedStep == failed \in BOOLEAN /\ [Next]_vars => failed' \in BOOLEAN
  <1> SUFFICES ASSUME failed \in BOOLEAN, [Next]_vars PROVE failed' \in BOOLEAN
    OBVIOUS
  <1>1. CASE UNCHANGED vars
    BY <1>1, Zenon DEF vars
  <1>2. CASE Master
    BY <1>2, Zenon DEF Master, main, vxdb_init, init_listen_socket, shutdown_listen_socket,
                       vxdb_atexit, Die
  <1>3. CASE Raise \/ ResetQueue
    BY <1>3, Zenon DEF Raise, ResetQueue
  <1>4. ASSUME NEW c \in Conns, Connect(c) \/ init_server(c) \/ Answer(c) \/ GrandchildEnds(c)
        PROVE  failed' \in BOOLEAN
    BY <1>4, Zenon DEF Connect, init_server, Answer, GrandchildEnds
  <1>5. ASSUME NEW s \in Signals, signal_handler(s) PROVE failed' \in BOOLEAN
    BY <1>5, Zenon DEF signal_handler, Die
  <1> QED
    BY <1>1, <1>2, <1>3, <1>4, <1>5 DEF Next

LEMMA QuietStep == QuietInv /\ [Next]_vars => QuietInv'
  <1> SUFFICES ASSUME QuietInv, [Next]_vars PROVE QuietInv'
    OBVIOUS
  <1> failed \in BOOLEAN /\ failed' \in BOOLEAN
    <2>1. failed \in BOOLEAN
      BY Zenon DEF QuietInv, TypeOK
    <2> QED
      BY <2>1, FailedStep, Zenon
  <1> USE ConstantsAssumption DEF QuietInv, QuietReload
  <1>1. CASE UNCHANGED vars
    BY <1>1 DEF vars, TypeOK, Running
  <1>2. CASE main \/ vxdb_init \/ init_listen_socket
    <2>1. CASE main
      <3>1. pc = "main" /\ pc' \in {"vxdb_init", "exited"} /\ UNCHANGED <<rest, sfd, vxdb, conn, grand>>
        BY <2>1, Zenon DEF main, Goto
      <3> QED
        BY <3>1 DEF rest, TypeOK, PCs, Running
    <2>2. CASE vxdb_init
      <3>1. pc = "vxdb_init" /\ UNCHANGED <<rest, sfd, conn, grand>>
            /\ \/ pc' = "listen" /\ vxdb' = TRUE
               \/ pc' \in {"exit_wait", "exited"}
        BY <2>2, Zenon DEF vxdb_init, Goto, Die
      <3>2. vxdb' \in BOOLEAN
        BY <2>2, Zenon DEF vxdb_init, TypeOK
      <3> QED
        BY <3>1, <3>2 DEF rest, TypeOK, PCs, Running
    <2>3. CASE init_listen_socket
      <3>1. pc = "listen" /\ UNCHANGED <<rest, vxdb, conn, grand>>
            /\ \/ pc' = "serve" /\ sfd' = TRUE
               \/ pc' = "exit_wait" /\ sfd' = sfd
        BY <2>3, Zenon DEF init_listen_socket, Goto, Die
      <3>2. CASE pc' = "serve" /\ sfd' = TRUE
        BY <3>1, <3>2 DEF rest, TypeOK, PCs, Running
      <3>3. CASE pc' = "exit_wait" /\ sfd' = sfd
        BY <3>1, <3>3 DEF rest, TypeOK, PCs, Running
      <3> QED
        BY <3>1, <3>2, <3>3
    <2> QED
      BY <1>2, <2>1, <2>2, <2>3
  <1>3. CASE shutdown_listen_socket \/ vxdb_atexit
    <2>1. (sfd \in BOOLEAN /\ (sfd <=> pc = "serve"))'
      BY <1>3 DEF shutdown_listen_socket, vxdb_atexit, Goto, TypeOK
    <2>2. (vxdb \in BOOLEAN /\ blocked \in BOOLEAN)'
      BY <1>3 DEF shutdown_listen_socket, vxdb_atexit, rest, TypeOK
    <2> QED
      BY <1>3, <2>1, <2>2
      DEF shutdown_listen_socket, vxdb_atexit, Goto, rest, TypeOK, PCs, Running
  <1>4. CASE Raise
    BY <1>4 DEF Raise, TypeOK, Running
  <1>5. CASE ResetQueue
    <2>1. conn' \in [Conns -> {"none", "queued", "run", "reset", "done"}]
          /\ Running' = Running
      BY <1>5 DEF ResetQueue, TypeOK, Running
    <2> QED
      BY <1>5, <2>1 DEF ResetQueue, rest, TypeOK
  <1>6. ASSUME NEW c \in Conns, Connect(c) PROVE QuietInv'
    <2>1. conn' \in [Conns -> {"none", "queued", "run", "reset", "done"}]
          /\ Running' = Running
      BY <1>6 DEF Connect, TypeOK, Running
    <2> QED
      BY <1>6, <2>1 DEF Connect, rest, TypeOK
  <1>7. ASSUME NEW c \in Conns, init_server(c) PROVE QuietInv'
    BY <1>7 DEF init_server, rest, TypeOK
  <1>8. ASSUME NEW c \in Conns, Answer(c) PROVE QuietInv'
    <2>1. conn' \in [Conns -> {"none", "queued", "run", "reset", "done"}]
          /\ Running' \subseteq Running
      BY <1>8 DEF Answer, TypeOK, Running
    <2>2. grand' \subseteq Reboots
      BY <1>8 DEF Answer, TypeOK
    <2> QED
      BY <1>8, <2>1, <2>2 DEF Answer, rest, TypeOK
  <1>9. ASSUME NEW c \in Conns, GrandchildEnds(c) PROVE QuietInv'
    BY <1>9 DEF GrandchildEnds, rest, TypeOK, Running
  <1>10. ASSUME NEW s \in Signals, signal_handler(s) PROVE QuietInv'
    <2>1. CASE pc = "serve"
      <3>1. pc' \in {"reload_wait", "exit_wait"} /\ blocked' = TRUE
            /\ sfd' = FALSE /\ vxdb' = vxdb
        BY <1>10, <2>1 DEF signal_handler, Goto, Die
      <3>2. pending' \subseteq Signals /\ UNCHANGED <<sent, conn, grand>>
        BY <1>10 DEF signal_handler, TypeOK
      <3> QED
        BY <2>1, <3>1, <3>2 DEF TypeOK, PCs, Running
    <2>2. CASE pc # "serve"
      <3>1. pc' \in {pc, "exited", "exit_wait"} /\ pc' # "serve" /\ sfd' = sfd
        BY <1>10, <2>2 DEF signal_handler, Goto, Die
      <3>2. blocked' \in BOOLEAN /\ vxdb' \in BOOLEAN
        BY <1>10, <2>2, Zenon DEF signal_handler, TypeOK
      <3>3. pending' \subseteq Signals /\ UNCHANGED <<sent, conn, grand>>
        BY <1>10 DEF signal_handler, TypeOK
      <3>4. pc' \in {"exited", "exit_wait"} \/ (pc' = "main" /\ ~vxdb')
        BY <1>10, <2>2 DEF signal_handler, Goto, Die
      <3>5. Running = {}
        <4>1. pc \in {"main", "vxdb_init", "listen"}
          BY <1>10, <2>2, Zenon DEF signal_handler
        <4> QED
          BY <4>1
      <3> QED
        BY <2>2, <3>1, <3>2, <3>3, <3>4, <3>5 DEF TypeOK, PCs, Running
    <2> QED
      BY <2>1, <2>2
  <1> QED
    BY <1>1, <1>2, <1>3, <1>4, <1>5, <1>6, <1>7, <1>8, <1>9, <1>10
    DEF Next, Master

LEMMA QuietAlways == Spec => []QuietInv
  <1>1. Init => QuietInv
    <2> SUFFICES ASSUME Init PROVE QuietInv
      OBVIOUS
    <2>1. TypeOK
      <3>1. sent \in 0 .. MaxSignals
        BY ConstantsAssumption DEF Init
      <3>2. conn \in [Conns -> {"none", "queued", "run", "reset", "done"}]
        BY DEF Init
      <3>3. pc \in PCs /\ pending \subseteq Signals /\ grand \subseteq Reboots
        BY DEF Init, PCs
      <3>4. blocked \in BOOLEAN /\ sfd \in BOOLEAN /\ vxdb \in BOOLEAN /\ failed \in BOOLEAN
        BY Zenon DEF Init
      <3>5. sfd <=> pc = "serve"
        BY DEF Init
      <3> QED
        BY <3>1, <3>2, <3>3, <3>4, <3>5, Zenon DEF TypeOK
    <2>2. Running = {}
      BY DEF Init, Running
    <2> QED
      BY <2>1, <2>2 DEF Init, QuietInv, QuietReload
  <1> QED
    BY <1>1, QuietStep, PTL DEF Spec

(* Every step of the master, of a child and of a client keeps the types,   *)
(* and the master has a listening socket exactly while it serves.          *)
THEOREM TypeCorrect == Spec => []TypeOK
  <1>1. QuietInv => TypeOK
    BY DEF QuietInv
  <1> QED
    BY <1>1, QuietAlways, PTL

(* No child of the daemon is at work while a reload has the database       *)
(* closed, however signals, connections and children interleave.           *)
THEOREM ReloadIsQuiet == Spec => [](TypeOK /\ QuietReload)
  <1>1. QuietInv => TypeOK /\ QuietReload
    BY DEF QuietInv
  <1> QED
    BY <1>1, QuietAlways, PTL
=============================================================================
