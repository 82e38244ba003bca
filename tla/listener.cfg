SPECIFICATION FairSpec
CONSTANTS
  ImplShared = TRUE
  IoThreads = {io1, io2}
  Connections = {c1, c2}
  MaxStarts = 2
  MaxAccepts = 1
INVARIANTS TypeOK LiveClientsListed
PROPERTIES ImplementsRegistry DeadClientsRemoved StopReturns IoThreadsComeBack SomebodyServed
CHECK_DEADLOCK FALSE
