---------------------------- MODULE MCPieceStore ----------------------------
(***************************************************************************)
(* Two pieces of two blocks, memory for one of them at a time.             *)
(***************************************************************************)
EXTENDS PieceStore, TLC

CONSTANTS p1, p2

MCPieces == {p1, p2}
MCSymmetry == Permutations(MCPieces)

\* The last block of a piece may end its file, and not fill stdio's buffer
MCTails == {<<p1, 2>>, <<p2, 2>>}

MCFaultSets == {{"crash"}, {"io", "crash"}, {"io", "tail"}, {"io", "ordinary"},
                {"early"}}
MCLate == {{"late"}}
MCEarly == {{"early", "crash"}}
MCRecreated == {{"crash", "ordinary"}}

=============================================================================
