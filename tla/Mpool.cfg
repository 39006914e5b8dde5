SPECIFICATION Spec
CONSTANTS
    Values = {1, 2}
    MaxPages = 3
    Wrap = 3
    maxcache = 2
    MaxLost = 1
    Filter = FALSE
INVARIANT HeldPinned
INVARIANT CleanIsStored
PROPERTY KeepsPages
