SPECIFICATION Spec
CONSTANTS
  governed = governed
  saved = saved
  Source = {governed}
  Governed = governed
  MaxRuns = 2
  ThreadLimit = 2
  ListLimit = 2
  MaxRequests = 3
  MaxRunning = 2
  ReportSource = {governed}
  Watched = 2
INVARIANTS
  BranchOpensNewest
CHECK_DEADLOCK FALSE
