SPECIFICATION Spec
CONSTANTS
    Accounts = {"first", "second"}
    MaxTunnels = 2
    Patience = 1
INVARIANTS
    VpnInvariant
    PolledByItsOwn
    NothingGoesDirect
PROPERTIES
    ConnectEnds
