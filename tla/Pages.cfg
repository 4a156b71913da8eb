SPECIFICATION Spec
CONSTANTS
  MaxConnections = 3
  MaxEdits = 2
  Objs = {"o1", "o2"}
  MaxChange = 2
  MaxFailures = 2
  MaxLoads = 1
  Faults = {}
  Links = {1, 2, 3}
  Keys = {1, 2, 3}
  Buckets = 2
  MaxTransactions = 4
  MaxCrashes = 1
  Hours = {"6:00", "22:00"}
  MaxScripts = 3
  Ops = {"o1", "o2"}
  MaxTries = 1
  Paths = {"c1", "c2"}
  Ifaces = {"eth", "bond"}
  MaxNMChanges = 3
  Days = {1, 2}
  Boots = {1, 2}
  Messages = {"x", "y"}
  MaxEntries = 3
  First = 2
  QueryCount = 2
  QueryMore = 1
  MaxRequests = 5
  Ids = {"c1"}
  MaxDrops = 2
  MaxOperations = 1
  Units = {"u1"}
  MaxUnitChanges = 2
  Addresses = {"a"}
  MaxChecks = 3
  MaxPerforms = 1
  MaxStatus = 2
  MaxUpdateCalls = 2
  MaxProxyCalls = 2
  Overlap = FALSE
  FwServices = {"http", "dns"}
  MaxFwChanges = 3
  OsTransactions = {"update", "rebase"}
  Rebases = {"rebase"}
  MaxCloses = 1
  MaxOthers = 1
  Vms = {"v1"}
  MaxDomainChanges = 3
  MaxCreates = 2
  Hasty = FALSE
CHECK_DEADLOCK FALSE
INVARIANTS
  ConnectedIsOpen
  NoFalseNegatives
  BusyHasCause
  KeptIsInPlace
  ShownWhenQuiet
PROPERTY
  CurtainFalls
