SPECIFICATION Spec
CONSTANTS
  x1 = x1
  x2 = x2
  y1 = y1
  y2 = y2
  y3 = y3
  z1 = z1
  z2 = z2
  b1 = b1
  Clients = {x1, x2}
  MaxPairs = 2
  Grain = 2
  MaxInstants = 1
  MaxBegun = 4
  MaxStmtFaults = 1
  Teams = {"t1", "t2"}
  Handlers = {x1, x2}
  MaxCalls = 2
  MaxAborts = 1
  Accounts = {z1, z2}
  Emails = {y1, y2, y3}
  Gone = Gone
  SkillNames = {"s"}
  Edits = {x1, x2}
  Wishes <- MCWishes
  Batches <- MCBatches
  MaxSlips = 1
  Shown = {"online", "busy"}
  Visits = {x1, x2}
  HISTORY_CAP = 1
  LastHour = 3
  MaxLost = 1
  Senders = {x1, x2}
  Channels = {"console", "webhook", "email", "chat", "chat-webhook"}
  ChannelsOf <- MCChannelsOf
  MinSeverity <- MCMinSeverity
  Configured = {"console", "webhook", "email"}
  MaxPerHour = 1
  AlertHour = 2
  Recipients = 2
  MaxTick = 3
  MaxAlertLost = 2
  Callers = {x1, x2}
  Fraction = 2
  MaxInstant = 5
  MaxHits = 2
  Window = 1
  MaxAdmitted = 4
  Policies <- MCPolicies
  Sizes = {1, 2}
  Minute = 2
  Hour = 3
  Uploaders = {y1, y2, y3}
  MaxMoment = 4
  MaxUploads = 4
SYMMETRY Symmetry
CHECK_DEADLOCK FALSE
INVARIANTS
  CredInv
  MemberInv
  AgentsInv
  AlertInv
  LimitsHold
PROPERTIES
  MemberSteps
