SPECIFICATION FairSpec
CONSTANTS
    t1 = t1
    t2 = t2
    Torrent <- MCTorrents
    Limits = {0, 1, 2}
    MaxCommands = 7
INVARIANTS
    QueueInvariant
PROPERTIES
    QueueIsSteady
    WaitingIsServed
