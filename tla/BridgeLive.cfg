SPECIFICATION FairSpec
CONSTANTS
  p1 = p1
  p2 = p2
  a = a
  f = f
  u = u
  Channels = {a, f}
  MaxMsgs <- LiveMsgs
  Peers = {p1, p2}
  Problem = {p2}
  Timeout = {p2}
  MaxSpawns = 1
  Match <- MCMatch
  Payload = {f}
  Foreign = {a}
  Malformed = {}
  Fence = {f}
  Bridges <- SecondReloaded
  MaxReloads = 1
  Closers = {}
  Reused = {}
CHECK_DEADLOCK FALSE
PROPERTIES
  EveryOpenAnswered
