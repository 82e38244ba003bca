SPECIFICATION FairSpec
CONSTANTS
  Inputs <- TooMuchDataInputs
  ReadSizes = {9}
  MAX_PACKET_SIZE = 8
PROPERTY DestructorReturns
CHECK_DEADLOCK FALSE
