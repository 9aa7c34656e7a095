SPECIFICATION Spec
CONSTANTS
  Uploads = {1, 2, 3}
  Parts <- MCParts
  Name <- MCName
  Limit = 2
  MaxFaults = 1
  MaxRemoves = 1
INVARIANTS
  TypeOK
  PlacesAccounted
  GreenIsKept
PROPERTIES
  StoredWhenListed
  
CHECK_DEADLOCK FALSE
