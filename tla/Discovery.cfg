SPECIFICATION Spec
CONSTANTS
    Nodes = {1, 2, 3}
    Distance <- MCDistance
    Address <- MCAddress
    Router = 3
    Contact <- MCContact
    Holders = {2}
    MaxNodes = 2
    MinNodes = 1
    MaxQueried = 2
    PerStep = 1
    Lifetime = 2
    Timeout = 1
    BootRetry = 1
    Enough = 1
    Retry = 1
    Interval = 2
    MaxJobs = 2
    MaxAdds = 2
    Settings <- MCSettings
INVARIANTS
    DiscoveryInvariant
PROPERTIES
    FallsSilent
    AnnouncedAgain
    PeersFound
