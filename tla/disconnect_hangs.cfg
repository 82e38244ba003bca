SPECIFICATION FairSpec
CONSTANTS
  ImplShared = TRUE
  Roles = {"server"}
  Kinds = {"heartbeat"}
  Handlers = {"heartbeat"}
  Disconnecting = {"heartbeat"}
  Removing = {}
  MayRelease = FALSE
  maxMissedHeartbeats = 1
  MaxConnects = 0
  MaxPackets = 1
  MaxWrites = 0
PROPERTIES DisconnectReturns
CHECK_DEADLOCK FALSE
