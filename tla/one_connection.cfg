SPECIFICATION Spec
CONSTANTS
  ImplShared = TRUE
  IoThreads = {io1, io2}
  Connections = {c1, c2}
  MaxStarts = 1
  MaxAccepts = 2
INVARIANT AcceptedAreServed
CHECK_DEADLOCK FALSE
