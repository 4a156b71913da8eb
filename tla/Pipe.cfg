SPECIFICATION Spec
CONSTANTS
  Kinds = {"connect", "new", "pair", "spawn", "pty", "failed"}
  Sizes = {1, 2}
  MaxBytes = 5
  MaxReads = 2
  IovMax = 2
  MayBlock = TRUE
CHECK_DEADLOCK FALSE
INVARIANTS
  TypeOK
  StreamIntact
  SignalsInOrder
  CloseSignal
  NormalCloseFlushed
