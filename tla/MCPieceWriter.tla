---------------------------- MODULE MCPieceWriter ----------------------------
(***************************************************************************)
(* Two pieces against a budget of 3: one of size 1, of which three fit,    *)
(* and one of size 4, larger than the whole budget.                        *)
(***************************************************************************)
EXTENDS PieceWriter, TLC

CONSTANTS small, large

MCPieceSize == small :> 1 @@ large :> 4

=============================================================================
