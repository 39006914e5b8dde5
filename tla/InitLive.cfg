SPECIFICATION FairSpec
CONSTANTS
    Dev = {d1}
    NoDev = NoDev
    Pid = {p1, p2}
    NoPid = NoPid
    Entries = {"on", "absent"}
PROPERTY RequestHonoured
PROPERTY DeathEnds
