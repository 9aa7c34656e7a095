SPECIFICATION FairSpec
CONSTANTS
  Listeners = {"http", "https"}
  H3Fails = FALSE
  MaxActive = 1
  MaxSignals = 1
PROPERTY
  QueuesStop
CHECK_DEADLOCK FALSE
