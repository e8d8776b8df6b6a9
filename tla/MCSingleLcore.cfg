SPECIFICATION FairSpec
CONSTANTS
  Tutorials = {1, 2, 4, 5, 7}
  MainLcore = main
  Lcores = {main}
  Mbufs = {m1, m2, m3, m4}
  CacheSize = 1
  RxDescs = 2
  TxDescs = 2
  BurstSize = 2
  MaxSent = 4
INVARIANTS
  TypeOK
  OneOwner
  LoopNotStarved
  BringUpIsSound
  ChecksumComputedOnce
PROPERTIES
  ReportsAscend
  SignalEndsProgram
  KeepsSending
  KeepsReceiving
