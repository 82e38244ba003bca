SPECIFICATION Spec
CONSTANTS
  Payloads <- SomePayloads
  AppIDs = {1}
  applyCompression = FALSE
  MAX_PACKET_SIZE = 1024
  COMPRESSION_THRESHOLD = 1024
  RTT_COMPRESSION_THRESHOLD = 100
  RTTs = {100}
  Times = {1999, 70000}
  WriteSizes = {8}
  Junk = 1
  MaxCalls = 1
INVARIANTS PeerUnderstands
CHECK_DEADLOCK FALSE
