SPECIFICATION Spec
CONSTANTS
  Sessions = {s1, s2}
  Logins = {l1, l2, l3}
  NoLogin = NoLogin
  NoSession = NoSession
  MaxPrompts = 1
  MaxCallers = 1
  MaxStartups = 2
  StartupsBegin = 1
  Retry = TRUE
  Mismatch = FALSE
  k1 = k1
  k2 = k2
  c1 = c1
  Sockets = {k1, k2}
  Channels = {c1}
  Owner <- OwnerDef
  NoSocket = NoSocket
  MaxData = 1
  MaxUp = 1
  Faults = {"abrupt", "frame", "command"}
CHECK_DEADLOCK FALSE
INVARIANTS
  CountsExact
  Attended
  ToldOnce
  Delivered
PROPERTIES
  LoginsAnswered
  SocketsEnd
