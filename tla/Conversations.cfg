SPECIFICATION Spec
CONSTANTS
  governed = governed
  saved = saved
  Source = {governed, saved}
  Governed = governed
  MaxRuns = 2
  ThreadLimit = 3
  ListLimit = 3
  MaxRequests = 4
  MaxRunning = 2
  ReportSource = {saved}
  Watched = 2
INVARIANTS
  TypeOK
  OneConversation
  OpensWhole
  SidebarOpensWhatItLists
  SentIsModels
PROPERTIES
  HistoryKept
  StillAudited
CHECK_DEADLOCK FALSE
