CONSTANTS
  Windows <- MCWindows
  Documents <- MCDocuments
  Channels <- MCChannels
  Maker <- MCMaker
  Binary <- MCBinary
  Top = "top"
  Watchdog = "watchdog"
  MaxCalls = 2
  MaxAnswers = 1
  MaxJumps = 2
  Hurried = TRUE
SPECIFICATION ShellSpec
CHECK_DEADLOCK FALSE
INVARIANTS
  ProtocolKept
  Routed
  HiddenKnown
PROPERTY
  LossNoticed
