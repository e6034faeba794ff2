SPECIFICATION Spec
CONSTANTS
  Tables <- MCTables
  Catalog <- MCCatalog
  References <- MCReferences
  Databases <- MCDatabases
  Queries <- MCQueries
  Null = Null
INVARIANT
  HiddenNeverShown
CHECK_DEADLOCK FALSE
