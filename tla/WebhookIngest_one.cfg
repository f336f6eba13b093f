SPECIFICATION FairSpec
CONSTANTS
    m1 = m1
    f1 = f1
    amy = amy
    NoCall = NoCall
    Liff = liff
    Instances = {p1}
    Calls = {x1, x2}
    Messages = {m1}
    Follows = {f1}
    Customers = {amy}
    From <- MCFrom
    Routed = {amy}
    Friends = {amy}
    Batches <- FollowThenMessage
    MaxSends = 4
    MaxFaults = 1
CHECK_DEADLOCK FALSE
INVARIANTS
    Inv
PROPERTIES
    QuietAfterSuccess
    PostedIsStored
