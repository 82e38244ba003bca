SPECIFICATION FairSpec
CONSTANTS
  Inputs <- MalformedInputs
  ReadSizes = {1, 3, 4, 7, 9}
  MAX_PACKET_SIZE = 8
INVARIANTS OnlyWholeFrames CrashOnlyOnEmptyPayload
PROPERTY StarvesOnlyOnARest
CHECK_DEADLOCK FALSE
