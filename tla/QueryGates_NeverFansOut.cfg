SPECIFICATION Spec
CONSTANTS
  Tables <- MCTables
  Catalog <- MCCatalog
  References <- MCReferences
  Databases <- MCDatabases
  Queries <- MCQueries
  Null = Null
INVARIANT
  NeverFansOut
CHECK_DEADLOCK FALSE
