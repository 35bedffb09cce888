------------------------------ MODULE MCTunnel ------------------------------
(* The two threads, two initiations on their way, one damaged response: the  *)
(* keys are renewed, expire and are lost with a send in progress.            *)
EXTENDS Tunnel
=============================================================================
