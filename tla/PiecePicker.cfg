SPECIFICATION PickerSpec
CONSTANTS
    NumPieces = 3
    PieceSize <- MCPieceSize
    BlockSize = 2
    AvailMax = 2
    RarestSample = 2
    EndgameFactor = 2
    MaxPick = 2
    Timeout = 1
INVARIANTS
    IInv
PROPERTIES
    ReceivedIsKept
    OneRequestAtATime
