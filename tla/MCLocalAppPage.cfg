\* One pairing, one request, two workspaces.
CONSTANTS
  wa = wa  wb = wb
  HostScopes = {wa, wb}
  NoScope = NoScope
  MaxHostSecret = 1  MaxHostAsks = 1
  MaxTasks = 1
CHECK_DEADLOCK FALSE
SPECIFICATION MCSpec
PROPERTIES EndingIsLearnt
