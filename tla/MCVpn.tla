------------------------------- MODULE MCVpn --------------------------------
(* Two accounts and two tunnels one after the other: the second connection,  *)
(* with the first tunnel's sockets still around, is the interesting one.     *)
EXTENDS Vpn
=============================================================================
