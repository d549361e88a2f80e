SPECIFICATION FairSpec
CONSTANTS
  Peer = {p1}
  Run = {r1}
  Handler = {h1}
  NoPeer = NoPeer
  NoRun = NoRun
  Commands <- EndCommands
CHECK_DEADLOCK FALSE
INVARIANTS
  StoppedIsQuiet
PROPERTIES
  CancelledRunsEnd
  LostRunsRetry
  ShutdownEndsSSH
