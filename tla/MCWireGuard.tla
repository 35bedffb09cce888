----------------------------- MODULE MCWireGuard ----------------------------
(* Two initiations, a window of two messages and four counters on each side: *)
(* a message can be repeated inside the window, fall out of it, and arrive   *)
(* after the keys were renewed.                                              *)
EXTENDS WireGuard
=============================================================================
