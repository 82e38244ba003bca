SPECIFICATION FairSpec
CONSTANTS
  Threads = {t1, t2, t3, t4}
  Items = {a, b}
  capacity = 2
INVARIANTS TypeOK WithinCapacity NoSleepingTaker NoSleepingAdder
PROPERTIES TakersServed AddersServed
CHECK_DEADLOCK FALSE
