------------------------------- MODULE Daemon -------------------------------
(***************************************************************************)
(* The master process of vcd: start, one child per connection, reload on   *)
(* SIGHUP, exit on SIGINT, SIGTERM or SIGQUIT (src/vcd/main.c).            *)
(*                                                                         *)
(* All signals have one handler, installed with a full sa_mask, so every   *)
(* signal is blocked while the handler runs, the handled one too:          *)
(* SA_NODEFER does not take it out of sa_mask.  The reload runs inside     *)
(* the handler and ends in the accept loop of the new server, which does   *)
(* not return.  A signal that is blocked stays pending, once.              *)
(*                                                                         *)
(* abyss (external) accepts while the master serves, forks a child per     *)
(* connection and leaves these signals alone; children and grandchildren   *)
(* keep the listening socket they inherit.  Some connections matter more   *)
(* than others: a user's vx.start, whose child ends when the kernel's      *)
(* vshelper is done; vshelper's calls of helper methods for it; and        *)
(* helper.shutdown after a reboot, which leaves a grandchild behind.       *)
(* SIGINT and SIGQUIT are handled as SIGTERM.                              *)
(***************************************************************************)
EXTENDS Naturals

CONSTANTS Start,      \* a connection with vx.start
          Helpers,    \* vshelper's connections on behalf of that vx.start
          Reboots,    \* connections with helper.shutdown after a reboot
          Others,     \* connections with any other method
          MaxSignals, \* bound: signals sent to the master
          Signals     \* which signals are sent

Conns == {Start} \cup Helpers \cup Reboots \cup Others

ASSUME ConstantsAssumption ==
    /\ Start \notin Helpers \cup Reboots \cup Others
    /\ Helpers \cap Reboots = {}
    /\ Others \cap (Helpers \cup Reboots) = {}
    /\ MaxSignals \in Nat
    /\ Signals \subseteq {"SIGHUP", "SIGTERM"}

VARIABLES pc,        \* where the master is
          blocked,   \* its signal mask: all signals or none
          pending,   \* signals that wait for delivery
          sent,      \* how many were sent
          sfd,       \* the master has a listening socket
          vxdb,      \* the database is open
          conn,      \* the state of each connection
          grand,     \* the grandchildren helper.shutdown left behind
          failed     \* history: something the daemon needs was not there

vars == <<pc, blocked, pending, sent, sfd, vxdb, conn, grand, failed>>
rest == <<blocked, pending, sent>>

PCs == {"main", "vxdb_init", "listen", "serve", "reload_wait", "reload_vxdb",
        "exit_wait", "exit_vxdb", "exited"}

(* The variables have their types, and the master has a listening socket   *)
(* exactly while it serves: every way out of serving closes it first.      *)
TypeOK ==
    /\ pc \in PCs
    /\ blocked \in BOOLEAN /\ failed \in BOOLEAN
    /\ pending \subseteq Signals /\ sent \in 0 .. MaxSignals
    /\ sfd \in BOOLEAN /\ vxdb \in BOOLEAN
    /\ sfd <=> pc = "serve"
    /\ conn \in [Conns -> {"none", "queued", "run", "reset", "done"}]
    /\ grand \subseteq Reboots

Init ==
    /\ pc = "main"
    /\ blocked = FALSE /\ pending = {} /\ sent = 0
    /\ sfd = FALSE /\ vxdb = FALSE
    /\ conn = [c \in Conns |-> "none"] /\ grand = {} /\ failed = FALSE

Running == {c \in Conns : conn[c] = "run"}
Over(c) == conn[c] \in {"reset", "done"}

(* A closed socket goes on to exist while a descendant has it open. *)
Held == Running \cup grand # {}

-----------------------------------------------------------------------------
(* The outside *)

(* Somebody sends a signal to the process. *)
Raise ==
    /\ pc # "exited" /\ sent < MaxSignals /\ sent' = sent + 1
    /\ \E s \in Signals : pending' = pending \cup {s}
    /\ UNCHANGED <<pc, blocked, sfd, vxdb, conn, grand, failed>>

(* A client connects, vshelper when a vx.start runs: the kernel queues it  *)
(* on a socket that exists and refuses it otherwise.                       *)
Connect(c) ==
    /\ conn[c] = "none"
    /\ c \in Helpers => conn[Start] = "run"
    /\ conn' = [conn EXCEPT ![c] = IF sfd \/ Held THEN "queued" ELSE "reset"]
    /\ UNCHANGED <<pc, rest, sfd, vxdb, grand, failed>>

(* The last process that had the socket is gone: what is queued is reset. *)
ResetQueue ==
    /\ ~sfd /\ ~Held /\ \E c \in Conns : conn[c] = "queued"
    /\ conn' = [c \in Conns |-> IF conn[c] = "queued" THEN "reset" ELSE conn[c]]
    /\ UNCHANGED <<pc, rest, sfd, vxdb, grand, failed>>

(* The kernel runs vshelper for a vx.start, and vx.start waits for it. *)
Helped(c) == c = Start => \A h \in Helpers : Over(h)

(* A method ends and its child exits. *)
Answer(c) ==
    /\ conn[c] = "run" /\ Helped(c)
    /\ conn' = [conn EXCEPT ![c] = "done"]
    /\ grand' = IF c \in Reboots THEN grand \cup {c} ELSE grand
    /\ UNCHANGED <<pc, rest, sfd, vxdb, failed>>

(* The grandchild has waited for the contexts and started the vserver. *)
GrandchildEnds(c) ==
    /\ c \in grand /\ grand' = grand \ {c}
    /\ UNCHANGED <<pc, rest, sfd, vxdb, conn, failed>>

-----------------------------------------------------------------------------
(* The master *)

Goto(l) == pc' = l

(* log_error_and_die: exit runs the functions that were registered, which  *)
(* wait for the children and close the database.                           *)
Die == Goto("exit_wait") /\ failed' = TRUE

(* Options, configuration, log and the fork to the background, up to       *)
(* masterpid = getpid().  Nothing is registered yet that waits or closes.  *)
main ==
    /\ pc = "main"
    /\ \/ Goto("vxdb_init") /\ UNCHANGED failed
       \/ Goto("exited") /\ failed' = TRUE
    /\ UNCHANGED <<rest, sfd, vxdb, conn, grand>>

(* vxdb_init and init_stats.  The file cannot be opened, or the check of   *)
(* the version, of a table or of the accounts dies with the database open  *)
(* (module Accounts).  vxdb_atexit is registered after the first           *)
(* vxdb_init.                                                              *)
vxdb_init ==
    /\ pc = "vxdb_init"
    /\ \/ Goto("listen") /\ vxdb' = TRUE /\ UNCHANGED failed
       \/ blocked /\ Die /\ vxdb' \in BOOLEAN
       \/ ~blocked /\ Goto("exited") /\ failed' = TRUE /\ UNCHANGED vxdb
    /\ UNCHANGED <<rest, sfd, conn, grand>>

(* tcp_listen fails while a descendant has the port, or somebody else, and *)
(* that ends the daemon.                                                   *)
init_listen_socket ==
    /\ pc = "listen"
    /\ \/ ~Held /\ Goto("serve") /\ sfd' = TRUE /\ UNCHANGED failed
       \/ ~Held /\ Die /\ UNCHANGED sfd
       \/ Held /\ Goto("exit_wait") /\ UNCHANGED <<sfd, failed>>
    /\ UNCHANGED <<rest, vxdb, conn, grand>>

(* abyss accepts a connection and forks. *)
init_server(c) ==
    /\ pc = "serve" /\ conn[c] = "queued"
    /\ conn' = [conn EXCEPT ![c] = "run"]
    /\ UNCHANGED <<pc, rest, sfd, vxdb, grand, failed>>

(* Mutant: the listening socket stays open during a reload. *)
signal_handler_KeepsSocket(s) ==
    /\ s \in pending /\ ~blocked /\ pc = "serve"
    /\ pending' = pending \ {s}
    /\ Goto(IF s = "SIGHUP" THEN "reload_wait" ELSE "exit_wait")
    /\ blocked' = TRUE /\ sfd' = (s = "SIGHUP")
    /\ UNCHANGED <<sent, vxdb, conn, grand, failed>>

(* A signal is delivered: SIGHUP reads the configuration, or dies of it,   *)
(* and reloads, SIGTERM exits.  All of them go on with close(sfd), at exit *)
(* in a registered function.  Before masterpid is set the process takes    *)
(* itself for a child: SIGHUP ends it and SIGTERM is ignored.  Between     *)
(* that and init_server, SIGHUP would start a server with env = NULL,      *)
(* which ends the process as well.                                         *)
signal_handler(s) ==
    /\ s \in pending /\ ~blocked
    /\ pending' = pending \ {s}
    /\ \/ /\ pc = "serve"
          /\ \/ Goto(IF s = "SIGHUP" THEN "reload_wait" ELSE "exit_wait")
                /\ UNCHANGED failed
             \/ s = "SIGHUP" /\ Die
          /\ blocked' = TRUE /\ sfd' = FALSE /\ UNCHANGED vxdb
       \/ /\ pc = "main"
          /\ IF s = "SIGHUP" THEN Goto("exited") ELSE UNCHANGED pc
          /\ UNCHANGED <<blocked, sfd, vxdb, failed>>
       \/ /\ pc \in {"vxdb_init", "listen"}
          /\ Goto(IF s = "SIGHUP" THEN "exited" ELSE "exit_wait")
          /\ blocked' = TRUE /\ vxdb' = (vxdb /\ s # "SIGHUP")
          /\ UNCHANGED <<sfd, failed>>
    /\ UNCHANGED <<sent, conn, grand>>

(* Mutant: the master does not wait for its children. *)
shutdown_listen_socket_NoWait ==
    /\ pc \in {"reload_wait", "exit_wait"}
    /\ Goto(IF pc = "reload_wait" THEN "reload_vxdb" ELSE "exit_vxdb")
    /\ UNCHANGED <<rest, sfd, vxdb, conn, grand, failed>>

(* Mutant: it answers what is queued first, on the socket it has closed. *)
shutdown_listen_socket_Drains ==
    /\ pc \in {"reload_wait", "exit_wait"}
    /\ \A c \in Conns : conn[c] \in {"none", "done"}
    /\ Goto(IF pc = "reload_wait" THEN "reload_vxdb" ELSE "exit_vxdb")
    /\ UNCHANGED <<rest, sfd, vxdb, conn, grand, failed>>

(* After close(sfd): waitpid until there is no child. *)
shutdown_listen_socket ==
    /\ pc \in {"reload_wait", "exit_wait"}
    /\ Running = {}
    /\ Goto(IF pc = "reload_wait" THEN "reload_vxdb" ELSE "exit_vxdb")
    /\ UNCHANGED <<rest, sfd, vxdb, conn, grand, failed>>

(* The database is closed at exit; a reload closes it and goes through the *)
(* first steps again, still in the handler.                                *)
vxdb_atexit ==
    /\ pc \in {"reload_vxdb", "exit_vxdb"}
    /\ Goto(IF pc = "reload_vxdb" THEN "vxdb_init" ELSE "exited")
    /\ vxdb' = FALSE
    /\ UNCHANGED <<rest, sfd, conn, grand, failed>>

Master ==
    \/ main \/ vxdb_init \/ init_listen_socket \/ shutdown_listen_socket
    \/ vxdb_atexit

Next ==
    \/ Master \/ Raise \/ ResetQueue
    \/ \E c \in Conns : \/ Connect(c) \/ init_server(c) \/ Answer(c)
                        \/ GrandchildEnds(c)
    \/ \E s \in Signals : signal_handler(s)

(* The master runs, gets its signals and accepts what is queued; methods   *)
(* and grandchildren end; the kernel runs vshelper.                        *)
Fairness ==
    /\ WF_vars(Master) /\ WF_vars(ResetQueue)
    /\ \A s \in Signals : WF_vars(signal_handler(s))
    /\ \A c \in Conns : /\ WF_vars(init_server(c)) /\ WF_vars(Answer(c))
                        /\ WF_vars(GrandchildEnds(c))
    /\ \A h \in Helpers : WF_vars(Connect(h))

Spec == Init /\ [][Next]_vars
FairSpec == Spec /\ Fairness

-----------------------------------------------------------------------------
(* No child works while the daemon has its database closed: reload and     *)
(* exit wait for every child before vxdb_atexit, and a reload accepts      *)
(* again only after vxdb_init.                                             *)
QuietReload == ~vxdb => Running = {}

(* Nobody the master waits for waits for the master, and no descendant     *)
(* keeps its port: the vx.start has its helpers behind it, and there is no *)
(* helper.shutdown after a reboot.                                         *)
HelpersDone == conn[Start] = "run" => Helped(Start)
PortFree == grand = {} /\ \A r \in Reboots : conn[r] # "run"

(* A reload ends with a daemon that listens again, although it waits for   *)
(* its children while connections go on to queue on the socket it closed:  *)
(* "close listen socket", "reopen listen socket" (main.c).  It ends with   *)
(* no daemon only if the database or the port was not to be had.           *)
Reloaded == pc = "serve" \/ (failed /\ pc = "exited")
ReloadEnds == pc = "reload_wait" /\ HelpersDone /\ PortFree ~> Reloaded

(* A daemon that is told to shut down exits once its children are done.    *)
ExitEnds == pc = "exit_wait" /\ HelpersDone ~> pc = "exited"

(* The same of every reload: "close listen socket, so no new connections   *)
(* arrive" (main.c), so that vshelper is refused and the vx.start ends.    *)
EveryReloadEnds == pc = "reload_wait" /\ PortFree ~> Reloaded
=============================================================================
