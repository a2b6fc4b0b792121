SPECIFICATION FairSpec
CONSTANTS
  old = old
  new = new
  Clients = {old, new}
  Leaders = {l1, l2}
  Version <- MCVersion
  Managed = {old}
  Releases = {1, 2}
  None = None
  MaxFaults = 1
  MaxAhead = 1
  Stale = Stale
INVARIANTS
  LockNamesHolder
  
PROPERTY
  ClientConnects
CHECK_DEADLOCK FALSE
