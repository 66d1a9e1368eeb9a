\* One change of selection, documents of at most three versions.
CONSTANTS
  s1 = s1  s2 = s2  operator = operator  d1 = d1  d2 = d2  n1 = n1
  Scopes = {s1, s2}
  WorkspaceOf <- MCWorkspaceOf
  Docs = {d1, d2}
  NoDoc = NoDoc
  Notes = {n1}
  NoNote = NoNote
  PageSize = 2
  MaxVersion = 3  MaxEpoch = 1  MaxCalls = 2
CHECK_DEADLOCK FALSE
SPECIFICATION MCSpec
INVARIANTS BusyMatchesCall StaysInScope HistoryIsWhole
PROPERTIES ActsOnWhatIsShown
