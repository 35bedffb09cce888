------------------------- MODULE MCSessionCommands -------------------------
(***************************************************************************)
(* Two torrents, the interface and the remote page.                        *)
(***************************************************************************)
EXTENDS SessionCommands

CONSTANTS t1, t2, ui, remote

MCTorrents == {t1, t2}
MCCallers == {ui, remote}

MCCircumstances == {{"readd"}, {"stop", "crash"}}

=============================================================================
