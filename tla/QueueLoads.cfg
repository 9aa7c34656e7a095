SPECIFICATION Spec
CONSTANTS
  Producers = {p1}
  Workers = {w1}
  Channels = {c1}
  None = None
  ChanCap = 1
  MaxSeq = 2
  MaxStarts = 2
  MaxFaults = 0
PROPERTY
  EntriesAreLoaded
CHECK_DEADLOCK FALSE
