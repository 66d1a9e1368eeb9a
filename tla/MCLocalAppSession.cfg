\* Pairings while the system moves; requests while the workspaces move; the page.
CONSTANTS
  s1 = s1  r1 = r1  o1 = o1  o2 = o2  wa = wa  f1 = f1  f2 = f2
  Ids = {s1}
  NoId = NoId
  Roots = {r1}
  Inside = {}
  NoObject = NoObject
  AutoId <- MCAutoId
  MaxCounter = 1
  Sys = s1  Root = r1
  Operator = Operator
  NoFolder = NoFolder
  Objects = {o1, o2}  MaxSerial = 2
  Workspaces = {wa}
  Folders = {f1, f2}
  RegistryMoves = TRUE
  MaxPairAttempts = 2  MaxWorkspaceRequests = 2
  MaxRotations = 1  MaxInFlight = 2  MaxSockets = 1
  HostScopes <- MCHostScopes  NoScope = NoScope
  MaxHostSecret = 2  MaxHostAsks = 1  MaxTasks = 2
CHECK_DEADLOCK FALSE
SPECIFICATION MCSpec
INVARIANTS PageIsOfSession EffectsOfPairing GrantIsWhatWasShown
PROPERTIES ImplementsAppHost RevokedForCause ExpiredEnds
