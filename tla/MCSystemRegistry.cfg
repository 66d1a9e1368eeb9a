\* Two systems, nested roots, two directories that come and go.
CONSTANTS
  s1 = s1  s2 = s2  outer = outer  inner = inner  aside = aside
  o1 = o1  o2 = o2
  Ids = {s1, s2}
  NoId = NoId
  Roots = {outer, inner}
  Inside <- MCInside
  Objects = {o1, o2}
  NoObject = NoObject
  AutoId <- MCAutoId
  MaxSerial = 3  MaxCounter = 2
CHECK_DEADLOCK FALSE
SPECIFICATION RegistrySpec
INVARIANTS RootsApart LeaseNamesOneBinding
PROPERTIES LeaseNeverReturns
