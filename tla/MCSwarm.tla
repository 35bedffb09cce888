------------------------------ MODULE MCSwarm ------------------------------
(***************************************************************************)
(* Two peers and two pieces of one block each, the last one shorter.       *)
(* Availability saturates at five, above twice the peers: a peer that      *)
(* repeats what it has of the first piece gets it there, while the other   *)
(* piece is had.                                                           *)
(***************************************************************************)
EXTENDS Swarm, TLC

CONSTANTS c1, c2

MCPeers == {c1, c2}
MCRepeaters == {c1}
MCRepeated == {0}
MCResumed == {1}
MCPieceSize == 0 :> 2 @@ 1 :> 1
MCSeeds == {{0, 1}}
MCMetaSizes == {1, 2}
MCCircumstances == {{"send"}, {"again", "resume"}, {"magnet", "lie"}}

=============================================================================
