\* Numbers stored in other types than the dtype asks for.
CONSTANTS
  MaxDepth = 3
  IndexMax = 3
  UsizeMax = 2
  Requests <- MCRequests
  KnownDtypes <- MCKnownDtypes
  TypedDtypes <- MCTypedDtypes
  RecordLists <- MCRecordLists
  MaxRows = 3
SPECIFICATION Spec
INVARIANT DtypeMismatchFails
