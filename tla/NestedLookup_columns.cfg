\* Whole records and nested values, known and custom schemas.
CONSTANTS
  MaxDepth = 3
  IndexMax = 3
  UsizeMax = 2
  Requests <- MCRequests
  KnownDtypes <- MCKnownDtypes
  TypedDtypes <- MCTypedDtypes
  RecordLists <- MCRecordLists
  MaxRows = 3
SPECIFICATION Spec
INVARIANTS
  OutputAsPlanned
  ColumnsMatchRows
  DecodeFailuresJustified
  KnownDataDecodes
