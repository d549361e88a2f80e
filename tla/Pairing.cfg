SPECIFICATION Spec
CONSTANTS
  p1 = p1
  t1 = t1
  t2 = t2
  Phone = {p1}
  Attempt = {t1, t2}
  Old = Old
  None = None
  Daemon = Daemon
  Setting <- OneSetting
  Events <- EventNames
  MaxEvents = 3
CHECK_DEADLOCK FALSE
INVARIANTS FileOpens BothConfirmed HostTrustIsShared DaemonSeesFile
PROPERTIES PhoneFreedOrAsking
