------------------------------ MODULE MCDaemon -------------------------------
(***************************************************************************)
(* A small instance of the daemon from its start to its end.               *)
(***************************************************************************)
EXTENDS Daemon

CONSTANTS a1, a2
MCAddrs == {a1, a2}
=============================================================================
