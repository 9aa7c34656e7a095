SPECIFICATION FairSpec
CONSTANTS
  Producers = {p1, p2}
  Workers = {w1}
  Channels = {c1, c2}
  None = None
  ChanCap = 1
  MaxSeq = 2
  MaxStarts = 1
  MaxFaults = 0
PROPERTIES
  HangsOnlyBehindFullOrClient
  
CHECK_DEADLOCK FALSE
