SPECIFICATION FairSpec
CONSTANTS
  Primary = primary
  Secondary = secondary
  PrimaryLcore = l0
  SecondaryLcore = l1
  Mbufs = {m1, m2, m3}
  NoMbuf = none
  CacheSize = 1
  RingCapacity = 2
  OffsetSpace = 256
  MaxStamps = 3
  MaxStarts = 2
  MaxKills = 1
INVARIANTS
  TimestampsAscend
PROPERTIES
  SignalEndsProcess
  ReaderDrainsRing
