SPECIFICATION ServerSpec
CONSTANTS
  MaxConns <- OldPairingNew
  MaxTrusts = 2
  MaxInputs = 0
CHECK_DEADLOCK FALSE
PROPERTIES ReplacementKept
