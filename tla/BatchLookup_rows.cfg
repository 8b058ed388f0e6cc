\* Serial and parallel lookups of small columns, in every chunking and schedule.
CONSTANTS
  w1 = w1  w2 = w2  w3 = w3
  a = a  b = b  c = c  none = none  broken = broken  corrupt = corrupt  mistyped = mistyped
  ra = ra  rc = rc  rm = rm  v = v
  Workers = {w1, w2, w3}
  MaxArrays = 3
  MinRows = 4
  MaxTaskRows = 2
  Ips = {a, b, c, none, broken, corrupt, mistyped}
  Offsets = {ra, rc, rm}
  Values = {v}
  Search <- MCSearch
  Decode <- MCDecode
  Null = Null  NotAnIp = NotAnIp  NoIp = NoIp  Missing = Missing
  InvalidIp = InvalidIp  LookupFailed = LookupFailed
  DecodeFailed = DecodeFailed  Panicked = Panicked
  Idle = Idle  Pending = Pending
  Columns <- MCColumns
SPECIFICATION FairSpec
INVARIANTS
  TypeOK
  RecordsShared
  TasksCoverColumn
  AnswersRowByRow
PROPERTIES
  CallReturns
  ImplementsRowLookup
