SPECIFICATION FairSpec
CONSTANTS
  c1 = c1
  c2 = c2
  Cards = {c1, c2}
  Leavers = {c1}
  None = None
  MaxClicks = 2
INVARIANTS TransmitsOwnersTrack CaptureOutlivesTransmission
PROPERTIES EndGetsThrough ClosedBrowserLetsGo
