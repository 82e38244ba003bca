SPECIFICATION FairSpec
CONSTANTS
  Packets <- ThreePackets
  Start <- ThreeStart
  Inputs <- ThreeInputs
  ReadSizes = {1, 4, 133, 262}
  MAX_PACKET_SIZE = 1024
INVARIANTS TypeOK InOrder BufferIsSuffix NoLostWakeup AtMostOneAfterStop
PROPERTIES ImplementsChannel EveryPacketDelivered
CHECK_DEADLOCK FALSE
