SPECIFICATION Spec
CONSTANTS
  p1 = p1
  p2 = p2
  a = a
  f = f
  u = u
  Channels = {a, f, u}
  MaxMsgs <- Msgs
  Peers = {p1, p2}
  Problem = {p2}
  Timeout = {p2}
  MaxSpawns = 1
  Match <- MCMatch
  Payload = {f}
  Foreign = {a}
  Malformed = {u}
  Fence = {f}
  Bridges <- BothPeers
  MaxReloads = 0
  Closers = {a, f}
  Reused = {f}
CHECK_DEADLOCK FALSE
INVARIANTS
  TypeOK
  OneHandlerInOrder
  NothingDropped
  FrozenHasHolder
  OneOwner
PROPERTIES
  UsesTransport
