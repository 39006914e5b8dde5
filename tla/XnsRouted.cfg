SPECIFICATION FairSpec
CONSTANTS
    a = a
    b = b
    Hosts = {a, b}
    NumNets = 3
    Links <- ChainLinks
    Infinity = 4
    Expire = 6
    Garbage = 8
    Check = 1
    MaxFaults = 1
    NoRoute = NoRoute
INVARIANT NeverShorter
INVARIANT InterfaceOwn
INVARIANT NoFalseExpiry
PROPERTY KernelFollows
PROPERTY Converges
CHECK_DEADLOCK FALSE
