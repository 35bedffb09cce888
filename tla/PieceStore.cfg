SPECIFICATION Spec
CONSTANTS
    p1 = p1
    p2 = p2
    Piece <- MCPieces
    NumBlocks = 2
    BufferBudget = 1
    Tails <- MCTails
    Capacity = 4
    Elsewhere = {0, 1}
    FaultSets <- MCFaultSets
    MaxSubmits = 2
SYMMETRY MCSymmetry

    
    
PROPERTIES
    JudgedOnWhatArrived
