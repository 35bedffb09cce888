--------------------------- MODULE MCSessionQueue ---------------------------
(***************************************************************************)
(* Two torrents and no limit, a limit of one, or one that leaves them both *)
(* a slot: enough for one to run, one to wait, and each to come or go      *)
(* before, between or after.                                               *)
(***************************************************************************)
EXTENDS SessionQueue

CONSTANTS t1, t2

MCTorrents == {t1, t2}

=============================================================================
