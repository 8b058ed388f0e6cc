\* Eviction under several limits, three snapshots that do not all fit.
CONSTANTS
  p1 = p1  p2 = p2  c1 = c1  c2 = c2  bad = bad  t1 = t1  t2 = t2  p3 = p3
  Paths = {p1, p2, p3}
  FileIds = {1, 2, 3}
  Contents = {c1, c2, bad}
  SizeOf <- MCUnequalSizes
  NoFile = NoFile
  InPlaceRewrites = FALSE
  MaxWrites = 3
  UsizeMax = 5
  Threads = {t1, t2}
  Verdict <- MCAllParse
  DefaultLimit = 3
  LimitSettings <- MCLimits
  Unset = Unset  Malformed = Malformed  Unread = Unread
  NoThread = NoThread  NoIdentity = NoIdentity
  Nothing = Nothing  Torn = Torn  Failed = Failed
  MaxCalls = 6
SPECIFICATION MCSettledSpec
SYMMETRY MCThreads
INVARIANTS
  BytesAccounted
  CacheIndexed
  CacheBounded
  OldestEvictedFirst
