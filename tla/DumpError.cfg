SPECIFICATION Spec
CONSTANTS
    SLAVES = 2
    ntrec = 2
    Data = 8
    blocksperfile = 20
    MinBlocks = 2
    SoftEot = FALSE
    Causes = {"eot", "error"}
    MaxVols = 2
    MaxHups = 0
INVARIANT FailedRewritten
