\* Every known database type, records with any one thing missing.
CONSTANTS
  MaxDepth = 4
  IndexMax = 3
  UsizeMax = 2
  TypesInUse <- DatabaseTypes
  RecordsOf <- MCRecordsOf
SPECIFICATION Spec
INVARIANTS
  StructsAgreeWithSchema
  NothingDropped
  PathsAgreeWithRecord
