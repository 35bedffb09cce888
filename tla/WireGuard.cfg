SPECIFICATION SessionSpec
CONSTANTS
    Window = 2
    RekeyAfter = 1
    RejectAfter = 1
    KeepaliveAfter = 0
    RekeyTimeout = 0
    MaxKeys = 2
    MaxCount = 3
INVARIANTS
    IInv
    DeliveredOnce
    SentOnce
