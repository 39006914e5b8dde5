SPECIFICATION FairSpec
CONSTANTS
    Messages = {m1, m2}
    Sessions = {s1, s2}
    NoOne = NoOne
    Cut = Cut
    ShortWrites = FALSE
    Links = TRUE
    MaxCrash = 1
INVARIANT TypeOK
INVARIANT ListStable
PROPERTY KeepsMail
PROPERTY DeliveryEnds
CHECK_DEADLOCK FALSE
