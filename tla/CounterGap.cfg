SPECIFICATION MCSpec
CONSTANTS
  r1 = r1
  r2 = r2
  Request <- TwoCallers
  Deadline <- OneDeadline
  NoWriter = NoWriter
  Scenarios <- Overlaps
  MaxBeats = 1
  MaxEvents = 3
  MaxStates = 1
  InputCap = 2
  EventCap = 1
  NetCap = 1
CHECK_DEADLOCK FALSE
INVARIANT HonestFramesOpen
