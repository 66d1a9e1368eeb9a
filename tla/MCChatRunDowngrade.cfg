\* A delayed check that lacks the output.
CONSTANTS
  k1 = k1  k2 = k2  k3 = k3
  Asks = {k1}
  NoAsk = NoAsk
  Size <- EvenSize
  MaxPairs = 1  MaxBytes = 9  RowBytes = 9
  UserOps = {"send", "check"}
  CheckInFlight = FALSE  StatusLags = FALSE
  MaxEpoch = 1  MaxChecks = 1  MaxStreams = 4
CHECK_DEADLOCK FALSE
SPECIFICATION Spec
PROPERTIES VerifiedNotDowngraded
