---------------------------- MODULE MCPiecePicker ----------------------------
(***************************************************************************)
(* Three pieces, two of two blocks and a short last one of one block.      *)
(***************************************************************************)
EXTENDS PiecePicker, TLC

MCPieceSize == 0 :> 4 @@ 1 :> 4 @@ 2 :> 1

=============================================================================
