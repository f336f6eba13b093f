SPECIFICATION Spec
CONSTANTS
    Convs = {c1, c2}
    Links = {}
    Teams = {t1, t2}
    NoTeam = NoTeam
    Requests = {r1, r2}
    ChunkSize = 1
    MaxRequests = 3
SYMMETRY Symmetry
CHECK_DEADLOCK FALSE
INVARIANTS
    Inv
PROPERTIES
    ReleasedOnTheRecord
