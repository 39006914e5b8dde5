SPECIFICATION Spec
CONSTANTS
    Dev = {d1, d2}
    NoDev = NoDev
    Pid = {p1, p2}
    NoPid = NoPid
    Entries = {"on", "off", "bad"}
SYMMETRY Symmetry
INVARIANT TypeOK
INVARIANT NoDangling
INVARIANT DbOpen
INVARIANT LinesServed
PROPERTY GettyOnlyMultiUser
INVARIANT SingleUserQuiesced
INVARIANT DeathWatched
