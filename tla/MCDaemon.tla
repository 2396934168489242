------------------------------ MODULE MCDaemon ------------------------------
(* Daemon with a few connections and signals, for TLC. *)
EXTENDS Daemon
=============================================================================
