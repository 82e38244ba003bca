SPECIFICATION FairSpec
CONSTANTS
  Payloads <- SomePayloads
  AppIDs = {1}
  applyCompression = TRUE
  MAX_PACKET_SIZE = 21
  COMPRESSION_THRESHOLD = 21
  RTT_COMPRESSION_THRESHOLD = 100
  RTTs = {100, 101}
  Times = {1999, 70000}
  WriteSizes = {0, 12}
  Junk = 1
  MaxCalls = 2
INVARIANTS TypeOK PeerReceivesPackets LengthIsTold GoodbyesReadBack
PROPERTIES PeerIsTold EveryPacketArrives
CHECK_DEADLOCK FALSE
