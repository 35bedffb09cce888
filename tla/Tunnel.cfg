SPECIFICATION TunnelSpec
CONSTANTS
    Window = 1
    RekeyAfter = 1
    RejectAfter = 2
    KeepaliveAfter = 1
    RekeyTimeout = 1
    MaxKeys = 2
    MaxCount = 1
    Threads = {engine, announcer}
    MaxDamaged = 1
INVARIANTS
    TunnelInvariant
    ReusedOnlyByRace
PROPERTIES
    ComesBack
