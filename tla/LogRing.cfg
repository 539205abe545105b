SPECIFICATION LogSpec
CONSTANTS
  N = 4
  a = a
  b = b
  core = core
  feed = feed
  Nothing = Nothing
  Items <- TwoItems
  Producers <- OneProducer
  FlushEvery = 2
  MaxLogs = 6
INVARIANTS TypeOK NoSharedSlot CrashLosesFew ShutdownDrains
PROPERTIES ImplementsFifo ShutdownReturns
CHECK_DEADLOCK FALSE
