-------------------------- MODULE MCTunnelSockets ---------------------------
(* Two connections of three units each, compacted past one; two names, with  *)
(* the query of one under way while the other is resolved.                   *)
EXTENDS TunnelSockets
=============================================================================
