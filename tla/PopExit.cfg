SPECIFICATION Spec
CONSTANTS
    Messages = {m1, m2}
    Sessions = {s1}
    NoOne = NoOne
    Cut = Cut
    ShortWrites = FALSE
    Links = TRUE
    MaxCrash = 1
PROPERTY SuccessMeansDelivered
CHECK_DEADLOCK FALSE
