SPECIFICATION FairSpec
CONSTANTS
    t1 = t1
    t2 = t2
    ui = ui
    remote = remote
    Torrent <- MCTorrents
    Caller <- MCCallers
    Circumstances <- MCCircumstances
    MaxOrders = 6
INVARIANTS
    CommandsInvariant
    AcceptedSurvives
PROPERTIES
    SnapshotCatchesUp
CHECK_DEADLOCK FALSE
