SPECIFICATION FairSpec
CONSTANTS
  Reader = reader
  Worker = worker
  Lcores = {reader, worker}
  Mbufs = {m1, m2, m3, m4}
  CacheSize = 2
  RxDescs = 1
  BurstSize = 2
  RingCapacity = 4
  RefillFirst = TRUE
  MaxArrivals = 5
PROPERTIES
  EveryPacketSettles
