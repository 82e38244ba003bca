SPECIFICATION Spec
CONSTANTS
  ImplShared = TRUE
  Roles = {"client", "server"}
  Kinds = {"SGoodbye", "CGoodbye", "heartbeat", "data", "badHeartbeat", "badData"}
  Handlers = {"server", "client", "heartbeat", "data", "lost"}
  Disconnecting = {"client"}
  Removing = {"lost"}
  MayRelease = TRUE
  maxMissedHeartbeats = 1
  MaxConnects = 2
  MaxPackets = 2
  MaxWrites = 1
INVARIANTS TypeOK OneRead QuietAfterDisconnect NoThreadLeft ConnectedIsReading
CHECK_DEADLOCK FALSE
