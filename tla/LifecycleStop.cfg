SPECIFICATION FairSpec
CONSTANTS
  Listeners = {"http", "https"}
  H3Fails = TRUE
  MaxActive = 2
  MaxSignals = 2
INVARIANTS
  TypeOK
  ExitsDrained
  StopInv
PROPERTY
  LateSignalStops
CHECK_DEADLOCK FALSE
