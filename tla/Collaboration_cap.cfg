SPECIFICATION CollabSpec
CONSTANTS
  Convs = {1}
  Users = {x1, x2}
  Tabs = {z1, z2}
  VIEWER_CAP = 1
  TYPING_TTL = 1
  PRESENCE_TTL = 2
  MaxClock = 3
  MaxAsked = 3
CHECK_DEADLOCK FALSE
INVARIANTS
  RoomWithinCap
