SPECIFICATION MCSpec
CONSTANTS
  Key <- OneKey
  MonitorRoom = 3
  MaxCalls <- Calls
CHECK_DEADLOCK FALSE
INVARIANTS NoEcho PhoneMirrorsHost DismissalArrives BridgeMapsAgree
