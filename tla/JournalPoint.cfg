SPECIFICATION Spec
CONSTANTS
  Kinds = {"info"}
  Severity = 5
  Batch = 3
  Room = 1
  MaxLines = 2
  MaxStarts = 2
  MaxFaults = 1
  MaxSignals = 1
INVARIANT FromLastPoint
CHECK_DEADLOCK FALSE
