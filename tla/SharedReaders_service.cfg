\* Every call returns, and the calls implement SnapshotService.
CONSTANTS
  p1 = p1  p2 = p2  c1 = c1  c2 = c2  bad = bad  t1 = t1  t2 = t2  p3 = p3
  Paths = {p1}
  FileIds = {1, 2}
  Contents = {c1, bad}
  SizeOf <- MCSizeOf
  NoFile = NoFile
  InPlaceRewrites = TRUE
  MaxWrites = 2
  UsizeMax = 100
  Threads = {t1, t2}
  Verdict <- MCVerdict
  DefaultLimit = 2
  LimitSettings = {Unset}
  Unset = Unset  Malformed = Malformed  Unread = Unread
  NoThread = NoThread  NoIdentity = NoIdentity
  Nothing = Nothing  Torn = Torn  Failed = Failed
  MaxCalls = 2
SPECIFICATION FairSpec
PROPERTIES
  CallsReturn
  ImplementsService
