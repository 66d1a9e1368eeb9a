\* Contexts of two turns; an opened session has up to three.
CONSTANTS
  k1 = k1  k2 = k2  k3 = k3  k4 = k4
  Asks = {k1, k2, k3, k4}
  NoAsk = NoAsk
  Size <- EvenSize
  MaxPairs = 3  MaxBytes = 2  RowBytes = 9
  UserOps = {"send", "retry", "stop", "open", "recover"}
  CheckInFlight = FALSE  StatusLags = FALSE
  MaxEpoch = 6  MaxChecks = 1  MaxStreams = 4
SYMMETRY AskSymmetry
CHECK_DEADLOCK FALSE
SPECIFICATION MCSpec
INVARIANTS SessionContinues OwnRunShown
PROPERTY TurnsAreVerified
