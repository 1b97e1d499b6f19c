SPECIFICATION FairSpec
CONSTANTS
  s1 = s1
  s2 = s2
  Sessions = {s1, s2}
  None = None
  MaxPending = 1
  MaxCandidates = 2
INVARIANTS
  TypeOK
  CountedOnce
  WatchedPlayerKept
  EarlyCandidatesReachPeer
PROPERTIES
  ClosedBrowserForgotten
  IdlePlayerReleased
