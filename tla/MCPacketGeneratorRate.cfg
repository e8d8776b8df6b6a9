SPECIFICATION Spec
CONSTANTS
  MainLcore = main
  TxLcore = tx
  Lcores = {main, tx}
  Mbufs = {m1, m2, m3, m4, m5}
  Pools = {{m1, m2, m3, m4, m5}}
  CacheSize = 1
  TxDescs = 2
  Requests = {5, 14}
  BurstSize = 2
  RateSpace = 8
  Second = 8
  Horizon = 6
  Bursts = 3
INVARIANT
  RateAsRequested
