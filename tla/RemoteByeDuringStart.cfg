SPECIFICATION Spec
CONSTANTS
  Commands = {c1}
  Timers = {}
  Watchdogs = {w1, w2}
  Reader = Reader
  Supervisor = Supervisor
  None = None
  Devices = {d1}
  MaxCalls = 2
  MaxViewers = 0
  SipMayFail = FALSE
  EarlyHangUp = TRUE
INVARIANTS
  RemoteEndTearsMediaDown
CHECK_DEADLOCK FALSE
