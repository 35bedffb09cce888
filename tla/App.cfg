SPECIFICATION Spec
CONSTANTS
    Hash = {a, b}
    None = None
    State = {"checking", "done"}
    Ports = 2
    MaxItems = 1
    MaxTasks = 1
    Uses <- MCUses
INVARIANTS
    AppInvariant
PROPERTIES
    OrderedAsShown
    ShutdownEnds
CHECK_DEADLOCK FALSE
