\* Transcripts of four entries, three sends.
CONSTANTS
  s1 = s1  s2 = s2  w1 = w1  proj = proj  c1 = c1  c2 = c2  h1 = h1  h2 = h2
  Systems = {s1, s2}
  Workspaces = {w1, proj}
  Known <- MCKnown
  Proj = proj
  None = None
  Sockets = {c1, c2}
  SystemOf <- MCSystemOf
  MaxWrites = 1
  MaxAuto = 2
  MaxEntries = 4
  DrawerMax = 3
  HostIds = {h1, h2}
  MaxSends = 3
  MaxEvents = 2
CHECK_DEADLOCK FALSE
SPECIFICATION MCSpec
INVARIANTS SendSettledOnce SocketInScope ReadsAgree CachedIsCurrent
PROPERTIES SystemsApart SendSettles
