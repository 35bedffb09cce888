------------------------------- MODULE MCApp --------------------------------
(***************************************************************************)
(* What the user makes use of in a run: the two servers; the menu over a   *)
(* changing list; an extraction beside the phone; the other workers beside *)
(* the remote control.                                                     *)
(***************************************************************************)
EXTENDS App

MCUses == {{"phone", "remote"}, {"menu"}, {"extract", "phone"}, {"search", "diag", "remote"}}
=============================================================================
