\* Every operation on one run, with the fairness of network and stream.
CONSTANTS
  k1 = k1  k2 = k2  k3 = k3
  Asks = {k1}
  NoAsk = NoAsk
  Size <- EvenSize
  MaxPairs = 1  MaxBytes = 9  RowBytes = 9
  UserOps = {"send", "retry", "reconnect", "check", "stop", "pause", "resume", "close", "recover", "open", "retarget"}
  CheckInFlight = FALSE  StatusLags = TRUE
  MaxEpoch = 2  MaxChecks = 1  MaxStreams = 4
CHECK_DEADLOCK FALSE
SPECIFICATION FairSpec
INVARIANTS VerifiedOutcome RunningIsWatched
PROPERTIES VerifiedKept IdleStaysQuiet WaitsEnd
