SPECIFICATION Spec
CONSTANTS
  Producers = {p1, p2}
  Workers = {w1, w2}
  Channels = {c1, c2}
  None = None
  ChanCap = 1
  MaxSeq = 2
  MaxStarts = 2
  MaxFaults = 0
SYMMETRY Symmetry
PROPERTY
  ImplementsJobHandout
CHECK_DEADLOCK FALSE
