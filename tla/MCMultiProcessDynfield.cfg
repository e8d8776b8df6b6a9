SPECIFICATION Spec
CONSTANTS
  Primary = primary
  Secondary = secondary
  PrimaryLcore = l0
  SecondaryLcore = l1
  Mbufs = {m1, m2, m3}
  NoMbuf = none
  CacheSize = 1
  RingCapacity = 2
  OffsetSpace = 256
  MaxStamps = 2
  MaxStarts = 1
  MaxKills = 0
SYMMETRY MbufSymmetry
INVARIANTS
  FailedRegistrationEnds
