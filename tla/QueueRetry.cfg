SPECIFICATION FairWorkersSpec
CONSTANTS
  Producers = {p1}
  Workers = {w1}
  Channels = {c1}
  None = None
  ChanCap = 1
  MaxSeq = 2
  MaxStarts = 1
  MaxFaults = 0
PROPERTY
  UnansweredIsRetried
CHECK_DEADLOCK FALSE
