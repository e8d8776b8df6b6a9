SPECIFICATION Spec
CONSTANTS
  Reader = reader
  Worker = worker
  Lcores = {reader, worker}
  Mbufs = {m1, m2, m3, m4, m5, m6}
  CacheSize = 1
  RxDescs = 2
  BurstSize = 2
  RingCapacity = 3
  RefillFirst = FALSE
  MaxArrivals = 7
SYMMETRY MbufSymmetry
INVARIANTS
  TypeOK
  OneOwner
  InOrder
  Accounting
  CleanupIsLast
  ReaderNotStarved
PROPERTIES
  ImplementsChannel
