SPECIFICATION Spec
CONSTANTS
  Switches <- MCSwitches
  Relation = {"orders", "items"}
  Queries <- MCQueries
  Requests <- MCRequests
  NotGiven = NotGiven
  Default = {"orders", "items"}
  MaxCalls = 2
INVARIANTS
  TypeOK
  OnlyGatedStatements
  RunAsExplained
PROPERTIES
  KeepsPromises
CHECK_DEADLOCK FALSE
