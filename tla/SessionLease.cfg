SPECIFICATION Spec
CONSTANTS
  Peer = {p1, p2}
  Run = {r1, r2}
  Handler = {h1}
  NoPeer = NoPeer
  NoRun = NoRun
  Commands <- LeaseCommands
SYMMETRY Symmetry
CHECK_DEADLOCK FALSE
INVARIANTS
  TypeOK
  EntryIsRun
  ActiveMeansConnected
  InputOwnerIsLive
  HeldReleased
  RetryLeavesNothing
PROPERTIES
  LeaseSpec
