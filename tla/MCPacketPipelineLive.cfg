SPECIFICATION FairSpec
CONSTANTS
  Reader = reader
  Worker = worker
  Lcores = {reader, worker}
  Mbufs = {m1, m2, m3, m4}
  CacheSize = 1
  RxDescs = 1
  BurstSize = 2
  RingCapacity = 4
  RefillFirst = TRUE
  MaxArrivals = 5
INVARIANTS
  NoDropWhenPoolFits
PROPERTIES
  SignalEndsProgram
  EveryPacketSettles
