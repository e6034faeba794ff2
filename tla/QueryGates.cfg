SPECIFICATION Spec
CONSTANTS
  Tables <- MCTables
  Catalog <- MCCatalog
  References <- MCReferences
  Databases <- MCDatabases
  Queries <- MCQueries
  Null = Null
INVARIANTS
  TypeOK
  CountedOnce
  RewriteKeepsTheQuestion
  RowsMeetByRelationships
  OnlyQueryableShown
CHECK_DEADLOCK FALSE
