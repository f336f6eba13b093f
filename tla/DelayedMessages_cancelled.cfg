SPECIFICATION Spec
CONSTANTS
    chat = chat
    push = push
    alice = alice
    root = root
    NoItem = NoItem
    Items = {push}
    Instances = {p1}
    Requests = {r1}
    Agents = {alice}
    Admins = {}
    Owner <- MCOwner
    Platform <- MCPlatform
    Delays = {1}
    MarkerGrace = 1
    MoveGrace = 2
    StaleAge = 0
    MaxTime = 2
    MaxFaults = 0
PROPERTIES
    CancelledIsNotDelivered
