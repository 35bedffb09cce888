SPECIFICATION FairSpec
CONSTANTS
    small = small
    large = large
    Piece = {small, large}
    PieceSize <- MCPieceSize
    QueueBudget = 3
    MaxSubmits = 4
INVARIANTS
    IInv
PROPERTIES
    KeepsContract
    SubmitReturns
    StopReturnsOutsideWindow
CHECK_DEADLOCK FALSE
