SPECIFICATION Spec
CONSTANTS
    c1 = c1
    c2 = c2
    Clients = {c1}
    Base <- Same
    Half = 12
    Mod = 8
    MaxCalls <- Calls2
    Waits = 2
    NRefreshes = 1
    Refreshing = {c1}
    Size = 2
    None = None
INVARIANT TypeOK
INVARIANT CacheSound
INVARIANT NodesAnswer
PROPERTY CallsAnswered
CHECK_DEADLOCK FALSE
