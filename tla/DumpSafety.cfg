SPECIFICATION FairSpec
CONSTANTS
    SLAVES = 3
    ntrec = 2
    Data = 14
    blocksperfile = 6
    MinBlocks = 3
    SoftEot = FALSE
    Causes = {"eot"}
    MaxVols = 3
    MaxHups = 1
INVARIANTS TypeOK OneTurn NotMissed Seamless Complete
PROPERTY Terminates
