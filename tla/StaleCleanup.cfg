SPECIFICATION Spec
CONSTANTS
  Commands = {c1}
  Timers = {t1, t2}
  Watchdogs = {w1, w2}
  Reader = Reader
  Supervisor = Supervisor
  None = None
  Devices = {d1}
  MaxCalls = 2
  MaxViewers = 2
  SipMayFail = FALSE
  EarlyHangUp = FALSE
PROPERTIES
  CleanupEndsItsOwnCall
CHECK_DEADLOCK FALSE
