SPECIFICATION FairSpec
CONSTANTS
  i1 = i1
  i2 = i2
  k1 = k1
  k2 = k2
  c1 = c1
  c2 = c2
  None = None
  Ids = {i1, i2}
  Clients = {k1, k2}
  Calls = {c1, c2}
  MaxSeen = 1
  MaxOrphans = 1
INVARIANTS
  TypeOK
  ConnectionIsOwned
  RingAnnouncedOnce
PROPERTIES
  SavedIdentityKept
  Reconnects
