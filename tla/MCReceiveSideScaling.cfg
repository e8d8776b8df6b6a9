SPECIFICATION FairSpec
CONSTANTS
  MainLcore = main
  Worker = worker
  Lcores = {main, worker}
  Mbufs = {m1, m2, m3, m4}
  CacheSize = 1
  RxDescs = 1
  BurstSize = 1
  MaxArrivals = 2
INVARIANTS
  TypeOK
  OneOwner
  CleanupIsLast
PROPERTIES
  SignalEndsProgram
  EarlyReaderNeverRaces
  OwnedQueueDrains
