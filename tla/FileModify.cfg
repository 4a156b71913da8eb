SPECIFICATION FileSpec
CONSTANTS
  Modifiers = {"a"}
  MaxDisturbed = 1
CHECK_DEADLOCK FALSE
INVARIANT
  ModifyRetries
