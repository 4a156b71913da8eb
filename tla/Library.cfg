SPECIFICATION Spec
CONSTANTS
  MaxDeferred = 4
  MaxUpdates = 1
  Objects = {"o1", "o2"}
  Single = "o1"
  MaxVersion = 1
  MaxChanges = 2
  MaxCookie = 2
  MaxLosses = 1
  Modifiers = {"a", "b"}
  MaxDisturbed = 1
  End = 4
  Limit = 3
  Options = 2
  MaxMoves = 2
  Requests = {"r1", "r2"}
  MaxBytes = 3
  MaxLines = 3
  Frames = {"a", "b"}
  MaxResults = 3
CHECK_DEADLOCK FALSE
INVARIANTS
  HandlersSeeCache
  NoChangeLost
  WatchIsCurrent
  BuffersKeep
  SeenIsShared
PROPERTIES
  HandlersRun
  CallsAnswered
