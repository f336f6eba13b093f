SPECIFICATION FairUndoSpec
CONSTANTS
    Convs = {c1}
    Links = {k1}
    Teams = {t1, t2}
    NoTeam = NoTeam
    Requests = {r1}
    Restorers = {s1, s2}
    ChunkSize = 1
    MaxRequests = 3
    MaxErrors = 1
    MaxDrops = 1
CHECK_DEADLOCK FALSE
INVARIANTS
    UndoInv
PROPERTIES
    UnforcedRestoreUndoes
    ClaimResolves
