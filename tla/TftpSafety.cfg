SPECIFICATION FairSpec
CONSTANTS
    Sizes = {1, 2, 3}
    Half = 3
    MaxTries = 2
    MaxDup = 2
INVARIANT TypeOK
INVARIANT DiskOrdered
INVARIANT ShortLimit
PROPERTY Copies
PROPERTY Terminates
CHECK_DEADLOCK FALSE
