SPECIFICATION Spec
CONSTANTS
  Producers = {p1, p2}
  Workers = {w1, w2}
  Channels = {c1}
  None = None
  ChanCap = 2
  MaxSeq = 3
  MaxStarts = 2
  MaxFaults = 1
SYMMETRY Symmetry
INVARIANTS
  TypeOK
  HandedOnce
  HandoutInOrder
  NothingLost
  NothingInvented
  Inv
CHECK_DEADLOCK FALSE
