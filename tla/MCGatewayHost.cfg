\* A call, or the stream of a socket, through a rotation, a rebind and drifts.
CONSTANTS
  s1 = s1  r1 = r1  o1 = o1  o2 = o2  wa = wa  f1 = f1
  Ids = {s1}
  NoId = NoId
  Roots = {r1}
  Inside = {}
  NoObject = NoObject
  AutoId <- MCAutoId
  MaxCounter = 1
  Sys = s1  Root = r1
  Operator = Operator
  NoFolder = NoFolder
  Native = Native
  Objects = {o1}
  MaxSerial = 2
  RegistryMoves = TRUE
  Workspaces = {wa}
  Folders = {f1}
  MaxPairAttempts = 1  MaxWorkspaceRequests = 0
  MaxRotations = 1  MaxInFlight = 1  MaxSockets = 1
  MaxRpcs = 1  MaxEvents = 2
CHECK_DEADLOCK FALSE
CONSTRAINT MCApart
SPECIFICATION HostSpec
PROPERTIES EffectInLease StreamInLease
