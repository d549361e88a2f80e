SPECIFICATION MCSpec
CONSTANTS
  MaxConns <- OldPairingNew
  MaxTrusts = 2
  MaxInputs <- DownUp
CHECK_DEADLOCK FALSE
INVARIANTS ForgottenHostIsGone OneConnection InputsInOrder
PROPERTIES ServerFreed
