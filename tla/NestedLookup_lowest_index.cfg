\* An index no i64 can negate.
CONSTANTS
  MaxDepth = 3
  IndexMax = 3
  UsizeMax = 7
  Requests <- MCRequests
  KnownDtypes <- MCKnownDtypes
  TypedDtypes <- MCTypedDtypes
  RecordLists <- MCRecordLists
  MaxRows = 3
SPECIFICATION Spec
INVARIANT OutOfRangeIsNull
