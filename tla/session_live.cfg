SPECIFICATION FairSpec
CONSTANTS
  ImplShared = TRUE
  Roles = {"server"}
  Kinds = {"CGoodbye", "heartbeat", "badHeartbeat"}
  Handlers = {"client", "lost"}
  Disconnecting = {"client"}
  Removing = {"lost"}
  MayRelease = TRUE
  maxMissedHeartbeats = 1
  MaxConnects = 0
  MaxPackets = 1
  MaxWrites = 1
PROPERTIES DisconnectReturns DeadPeerNoticed PacketsAreHandled SettledIsFreed
CHECK_DEADLOCK FALSE
