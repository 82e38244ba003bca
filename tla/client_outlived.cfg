SPECIFICATION Spec
CONSTANTS
  ImplShared = TRUE
  Roles = {"server"}
  Kinds = {"data"}
  Handlers = {"lost"}
  Disconnecting = {}
  Removing = {}
  MayRelease = TRUE
  maxMissedHeartbeats = 1
  MaxConnects = 0
  MaxPackets = 0
  MaxWrites = 0
INVARIANTS InstanceAlive
CHECK_DEADLOCK FALSE
