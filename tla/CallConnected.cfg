SPECIFICATION Spec
CONSTANTS
  Commands = {c1, c2}
  Timers = {}
  Watchdogs = {w1, w2}
  Reader = Reader
  Supervisor = Supervisor
  None = None
  Devices = {d1, d2}
  MaxCalls = 3
  MaxViewers = 0
  SipMayFail = FALSE
  EarlyHangUp = FALSE
SYMMETRY Symmetry
INVARIANTS
  FFmpegIsWatched
  StreamingHasCall
PROPERTIES
  ErrorStays
  KeepsPromise
