\* Two queries for two files, one of which is replaced, and room for one snapshot.
CONSTANTS
  Paths = {p1, p2}
  FileIds = {1, 2, 3}
  p1 = p1  p2 = p2  c1 = c1  c2 = c2  d1 = d1  d2 = d2  q1 = q1  q2 = q2
  Contents = {c1, c2}
  SizeOf <- MCSizeOf
  NoFile = NoFile
  InPlaceRewrites = TRUE
  MaxWrites = 3
  UsizeMax = 100
  Threads = {t1, t2}
  Verdict <- MCVerdict
  DefaultLimit = 2
  LimitSettings = {Unset}
  Unset = Unset  Malformed = Malformed  Unread = Unread
  NoThread = NoThread  NoIdentity = NoIdentity
  Nothing = Nothing  Torn = Torn  Failed = Failed
  MaxCalls = 4
  Queries = {q1, q2}
  Dtypes = {d1, d2}
  DtypeOf <- MCDtypeOf
  NoDtype = NoDtype  Idle = Idle
SPECIFICATION MCSpec
INVARIANTS
  OutputsAsPlanned
PROPERTIES
  PlansAgree
  EvaluationsEnd
