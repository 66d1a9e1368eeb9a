\* Two systems, two workspaces; three previous chats, a page each.
CONSTANTS
  s1 = s1  s2 = s2  wa = wa  wb = wb
  Scope <- ThreeScopes
  RunIds = {r1, r2}
  MaxRunReads = 1
  MaxPanes = 2  MaxPaneIds = 2
  Sessions <- ThreeSessions
  PageSize = 1  MaxMoves = 1
  Methods = {m1, m2}  MaxSelections = 2
  Panels <- TwoPanels
  LayoutScopes <- PanelScopes
  NoWorkspace = NoWorkspace
  OtherClients = TRUE  ResumeLost = TRUE  MaxLog = 5
  MaxMounts = 3  MaxPresets = 1
  Uses = {"diagnostics", "inspection", "activity", "models", "history", "chats", "client", "layout", "stream"}
CHECK_DEADLOCK FALSE
SPECIFICATION MCSpec
INVARIANTS InspectionMatchesInput HistoryIsFaithful AnswersOfSelection ProjectionExact
PROPERTIES ImplementsScopedPanel ChatNeverReplaced BindingsKept
