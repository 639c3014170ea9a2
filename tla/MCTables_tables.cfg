\* Statements on two tables, and queries answered by index and heap.
SPECIFICATION Spec
CONSTANTS
  None = None
  TableName = {"posts", "marks"}
  Schemas <- SomeSchemas
  Inserts <- SomeInserts
  Updates <- SomeUpdates
  Deletes <- SomeDeletes
  Queries <- SomeQueries
  Unindexed = {"m"}
  MaxTables = 2
  MaxRows = 4
  MaxBytes = 24
  MaxResultRows = 3
  MaxRowId <- SomeRowIds
INVARIANTS TablesWhole SelectRight
