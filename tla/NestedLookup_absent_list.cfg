\* A List-valued path that a record lacks.
CONSTANTS
  MaxDepth = 3
  IndexMax = 3
  UsizeMax = 2
  Requests <- MCRequests
  KnownDtypes <- MCKnownDtypes
  TypedDtypes <- MCTypedDtypes
  RecordLists <- MCRecordLists
  MaxRows = 3
SPECIFICATION Spec
INVARIANT AbsentPathIsNull
