SPECIFICATION Spec
CONSTANTS
  Commands = {c1}
  Timers = {}
  Watchdogs = {w1, w2}
  Reader = Reader
  Supervisor = Supervisor
  None = None
  Devices = {d1}
  MaxCalls = 3
  MaxViewers = 0
  SipMayFail = FALSE
  EarlyHangUp = TRUE
PROPERTIES
  MutedBeforeRelease
CHECK_DEADLOCK FALSE
