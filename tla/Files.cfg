SPECIFICATION Spec
CONSTANTS
  Size <- MCSize
  Paths = {"dot", "php", "index", "dir", "dir/", "file", "file/"}
  Accepts <- MCAccepts
  Headers <- MCHeaders
  MaxTime = 3
INVARIANTS
  TypeOK
  AnswerIsOneFile
  NotModifiedIsCurrent
  
  
  
  
CHECK_DEADLOCK FALSE
