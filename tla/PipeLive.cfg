SPECIFICATION FairSpec
CONSTANTS
  Kinds = {"connect", "new", "pair", "spawn", "pty", "failed"}
  Sizes = {1, 2}
  MaxBytes = 3
  MaxReads = 2
  IovMax = 2
  MayBlock = FALSE
CHECK_DEADLOCK FALSE
PROPERTIES
  ClosesInTheEnd
  Written
