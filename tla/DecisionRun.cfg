SPECIFICATION FairSpec
CONSTANTS
  SettingsSet <- MCSettings
  CallTokens = {1}
INVARIANTS
  TypeOK
  CallsWithinAllowance
  DefaultProbesFit
  OneReplyOverTokenLimit
  LimitsKeepTheDecision
  FinalDecision
  TraceTellsOutcome
  RepairTold
PROPERTIES
  GoodResultStands
  Termination
  KeepsPromises
CHECK_DEADLOCK FALSE
