SPECIFICATION SocketsSpec
CONSTANTS
    Hosts = {"tracker", "router"}
    MaxPcbs = 2
    MaxUnits = 3
    Compact = 1
    MaxQueue = 1
    Deadline = 1
INVARIANTS
    SocketsInvariant
    ReadsWhatArrived
    ClosedAfterData
PROPERTIES
    ResolveReturns
