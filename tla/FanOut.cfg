SPECIFICATION Spec
CONSTANTS
  Hosts = {h1, h2}
  Raisers = {h1}
  Events = {"e1", "e2"}
  Poison = {"e1"}
  NormalCap = 1
  MaxRetries = 1
  RelayBatch = 1
  MaxFaults = 1
  MaxFlushes = 1
  Viewers = {"u", "v"}
  Sockets = {1, 2}
  Msgs = {"m1", "m2"}
  Uploads = {"a"}
  MaxDrops = 1
CHECK_DEADLOCK FALSE
INVARIANTS
  FanOutInv
  ChannelInv
PROPERTIES
  FanOutPromises
