SPECIFICATION Spec
CONSTANTS
  Dirs <- MCDirs
  Overrides <- MCOverrides
  Hosts <- MCHosts
  Clients <- MCClients
  MaxServed = 2
  MaxFaults = 1
INVARIANTS
  TypeOK
  OwnSite
  GuardedParts
  
  
CHECK_DEADLOCK FALSE
