SPECIFICATION Spec
CONSTANTS
    c1 = c1
    c2 = c2
    Clients = {c1, c2}
    Base <- Same
    Half = 8
    Mod = 8
    MaxCalls <- Calls11
    Waits = 2
    NRefreshes = 1
    Refreshing = {c2}
    Size = 1
    None = None
INVARIANT KeyedByAddress
CHECK_DEADLOCK FALSE
