SPECIFICATION FairSpec
CONSTANTS
  Threads = {t1, t2}
  NoThread = NoThread
  PoolSize = 1
  MaxReserves = 2
  MaxOpens = 2
INVARIANTS
  MaintenanceIsExclusive
  PoolIsAccounted
  NoStaleConnection
  NoLostWakeup
PROPERTIES
  OvertakenLeaseIsRefused
  ImplementsLibrary
  BlockedCallsReturn
