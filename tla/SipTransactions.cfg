SPECIFICATION FairSpec
CONSTANTS
  reg = reg
  refresh = refresh
  door = door
  call = call
  None = None
  First = reg
  Refreshes = {refresh}
  Doors = {door}
  Invites = {call}
INVARIANTS
  TypeOK
  PressOpensOnce
  InviteFailureAcknowledged
  NobodyWaitsOnClosed
PROPERTIES
  PressReturns
  LossIsNoticed
CHECK_DEADLOCK FALSE
