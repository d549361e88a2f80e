SPECIFICATION Spec
CONSTANTS
  Peer = {p1}
  Run = {r1, r2}
  Handler = {h1}
  NoPeer = NoPeer
  NoRun = NoRun
  Commands <- DisconnectOnly
CHECK_DEADLOCK FALSE
INVARIANT AllowedHasSession
