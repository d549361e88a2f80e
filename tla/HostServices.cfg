SPECIFICATION ServicesSpec
CONSTANTS
  Player = {1, 2}
  Controllable = {1}
  MaxChanges = 4
  Room = 2
  MaxVersions = 3
  c1 = c1
  c2 = c2
  Caller = {c1, c2}
  o1 = o1
  o2 = o2
  Sink = {o1, o2}
  MaxSwitches = 6
  x1 = x1
  x2 = x2
  Content = {x1, x2}
  MaxStarts = 3
  MaxCopies = 3
  f1 = f1
  f2 = f2
  Finder = {f1, f2}
  MaxRecords = 7
  MaxAddress = 3
CHECK_DEADLOCK FALSE
INVARIANTS
  CacheCatchesUp ActiveIsRight
  PhoneViewCurrent
  RestoresMute
  NoClipboardEcho StopMeansQuiet
  NoLostWakeup
