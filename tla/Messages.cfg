SPECIFICATION Spec
CONSTANTS
  MaxMsgs = 2
  Atts = {a1}
  Chats = {line, meta}
  LineChats = {line}
  MaxClerks = 2
  TextItem = TextItem
  BatchCap = 1
  MaxServed = 3
  JobIds = {1, 2}
  MediaKeys = {k1}
  MaxChunks = 2
  MaxRetries = 2
  MaxBatchSize = 1
  Users = {"u", "v"}
  Sees <- MCSees
  Rooms = {"r"}
  ConnIds = {1, 2}
  Reqs = {1}
  MaxPerUser = 2
  HistoryCap = 1
  MaxSent = 2
  MaxHubServed = 3
CHECK_DEADLOCK FALSE
INVARIANTS
  DeliveryInv
  QueueInv
  HubInv
PROPERTIES
  DeliverySteps
  MessagesSettle
