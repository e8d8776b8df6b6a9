SPECIFICATION Spec
CONSTANTS
  Primary = primary
  Secondary = secondary
  PrimaryLcore = l0
  SecondaryLcore = l1
  Mbufs = {m1, m2, m3, m4}
  NoMbuf = none
  CacheSize = 1
  RingCapacity = 1
  OffsetSpace = 256
  MaxStamps = 5
  MaxStarts = 2
  MaxKills = 1
SYMMETRY MbufSymmetry
INVARIANTS
  TypeOK
  OneOwner
  PrimaryNotStarved
PROPERTIES
  PoolRefined
