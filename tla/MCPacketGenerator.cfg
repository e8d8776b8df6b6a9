SPECIFICATION FairSpec
CONSTANTS
  MainLcore = main
  TxLcore = tx
  Lcores = {main, tx}
  Mbufs = {m1, m2, m3, m4, m5}
  Pools = {{m1, m2, m3, m4, m5}, {m1, m2, m3, m4}}
  CacheSize = 1
  TxDescs = 2
  Requests = {1, 5, 14}
  BurstSize = 2
  RateSpace = 8
  Second = 8
  Horizon = 5
  Bursts = 2
INVARIANTS
  TypeOK
  OneOwner
  TxNotStarved
  NeverAheadOfRate
  OnlyPreparedSent
  EndsCleanly
PROPERTIES
  SignalEndsProgram
  DueBurstsAreSent
