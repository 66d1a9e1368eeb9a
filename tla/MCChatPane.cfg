\* A transcript of two messages, refused, recovered and opened with earlier pages.
CONSTANTS
  k1 = k1  k2 = k2
  Asks = {k1, k2}
  NoAsk = NoAsk
  Size <- PaneSize
  MaxPairs = 2  MaxBytes = 9  RowBytes = 2
  UserOps = {"send", "retry", "reconnect", "check", "stop", "pause", "resume", "close", "open", "recover"}
  CheckInFlight = FALSE  StatusLags = FALSE
  First = k1  Earlier <- TwoEarlier  MaxPages = 1
  MaxEpoch = 3  MaxChecks = 1  MaxStreams = 4
CHECK_DEADLOCK FALSE
SPECIFICATION MCSpec
INVARIANTS TranscriptTrue QuestionsInOrder AnswerIsShown
