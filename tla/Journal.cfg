SPECIFICATION FairSpec
CONSTANTS
  Kinds = {"err", "info", "junk"}
  Severity = 5
  Batch = 3
  Room = 1
  MaxLines = 4
  MaxStarts = 2
  MaxFaults = 1
  MaxSignals = 1
INVARIANTS
  TypeOK
  DigestIsWhole
PROPERTIES
  PassesOnlyWhenFull
  EveryLineSettles
  SignalStops
CHECK_DEADLOCK FALSE
