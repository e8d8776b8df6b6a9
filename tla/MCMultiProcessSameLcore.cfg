SPECIFICATION Spec
CONSTANTS
  Primary = primary
  Secondary = secondary
  PrimaryLcore = l0
  SecondaryLcore = l0
  Mbufs = {m1, m2, m3, m4}
  NoMbuf = none
  CacheSize = 1
  RingCapacity = 2
  OffsetSpace = 256
  MaxStamps = 4
  MaxStarts = 1
  MaxKills = 0
SYMMETRY MbufSymmetry
INVARIANTS
  TimestampsAscend
