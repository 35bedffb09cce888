SPECIFICATION FairSpec
CONSTANTS
    c1 = c1
    c2 = c2
    Peer <- MCPeers
    MaxInFlight = 2
    MaxPick = 2
    Bitfields <- MCSeeds
    Circumstances <- MCCircumstances
    Repeaters <- MCRepeaters
    Repeated <- MCRepeated
    Resumed <- MCResumed
    MaxTroubles = 1
    MetaPieces = 1
    MetaSizes <- MCMetaSizes
    NumPieces = 2
    PieceSize <- MCPieceSize
    BlockSize = 2
    AvailMax = 5
    RarestSample = 2
    EndgameFactor = 1
    Timeout = 1
INVARIANTS
    SwarmInvariant
    NoPieceOverlooked
PROPERTIES
    Completes
