SPECIFICATION Spec
CONSTANTS
  x1 = x1
  x2 = x2
  y1 = y1
  y2 = y2
  y3 = y3
  z1 = z1
  z2 = z2
  b1 = b1
  s1 = s1
  s2 = s2
  Staff = {y1, y2}
  Batches = {b1}
  Screens = {z1}
  Expiries <- MCExpiries
  Lists <- MCLists
  MaxNotes = 2
  LastInstant = 2
  MaxInsertFaults = 1
  FileIds = {1, 2}
  Callers = {x1, x2}
  Lengths = {1, 2}
  MaxRequests = 4
  MaxFailures = 1
  SessionIds = {1, 2}
  Agents = {x1, x2}
  Labels = {z1, z2}
  Gap = 1
  Longest = 2
  MaxHour = 3
  MaxMessages = 3
  Tags = {x1, x2}
  Names = {z1, z2}
  Requests = {y1, y2}
  MaxStops = 1
  MaxTagChanges = 2
  Rows = {1, 2}
  Secrets = {s1, s2}
  Askers = {y1, y2, y3, b1}
  MaxRevoked = 1
  MaxRefused = 1
  Rules = {1, 2}
  Editors = {x1, x2}
  Messages = {b1}
  Parts = {1, 2}
  MaxEdits = 2
  MaxBroken = 1
  Week = 3
  Midnight = 3
  Entries <- MCEntries
  Posters = {x1, x2}
  MaxEntries = 2
  Convs = {1}
  Users = {x1, x2}
  Tabs = {z1, z2}
  VIEWER_CAP = 1
  TYPING_TTL = 1
  PRESENCE_TTL = 2
  MaxClock = 3
  MaxAsked = 3
CHECK_DEADLOCK FALSE
INVARIANTS
  OpenOnlyWhileRunning
