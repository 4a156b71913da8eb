SPECIFICATION MCSpec
CONSTANTS
  a = a
  b = b
  Channels = {a, b}
  MaxMsgs <- Msgs
  MaxKeys = 2
INVARIANTS
  TransportInv
  InOrder
  NoneLeftBehind
CHECK_DEADLOCK FALSE
