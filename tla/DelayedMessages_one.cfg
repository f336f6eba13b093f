SPECIFICATION FairSpec
CONSTANTS
    chat = chat
    push = push
    alice = alice
    root = root
    NoItem = NoItem
    Items = {chat, push}
    Instances = {p1}
    Requests = {r1}
    Agents = {alice, root}
    Admins = {root}
    Owner <- MCOwner
    Platform <- MCPlatform
    Delays = {1, 2}
    MarkerGrace = 1
    MoveGrace = 2
    StaleAge = 0
    MaxTime = 2
    MaxFaults = 1
INVARIANTS
    Inv
    OneCopyPerFault
PROPERTIES
    SendsOnTime
    ImplementsLifecycle
    PendingIsSettled
