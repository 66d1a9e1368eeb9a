\* The transcript that Export loaded writes.
CONSTANTS
  k1 = k1  k2 = k2
  Asks = {k1, k2}
  NoAsk = NoAsk
  Size <- PaneSize
  MaxPairs = 2  MaxBytes = 9  RowBytes = 2
  UserOps = {"send", "retry", "reconnect", "check", "stop", "pause", "resume", "close", "open", "recover"}
  CheckInFlight = FALSE  StatusLags = FALSE
  First = NoAsk  Earlier <- TwoEarlier  MaxPages = 1
  MaxEpoch = 2  MaxChecks = 1  MaxStreams = 2
CHECK_DEADLOCK FALSE
SPECIFICATION MCSpec
INVARIANTS ExportIsCanonical
