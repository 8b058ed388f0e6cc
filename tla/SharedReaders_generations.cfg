\* Generations of files, alike but for their change times, on two paths of
\* which one may become a link to the other, and a file that panics the parser.
CONSTANTS
  p1 = p1  p2 = p2  c1 = c1  c2 = c2  bad = bad  t1 = t1  t2 = t2  p3 = p3
  Paths = {p1, p2}
  FileIds = {1, 2}
  Contents = {c1, c2, bad}
  SizeOf <- MCSizeOf
  NoFile = NoFile
  InPlaceRewrites = TRUE
  MaxWrites = 2
  UsizeMax = 100
  Threads = {t1, t2}
  Verdict <- MCVerdict
  DefaultLimit = 2
  LimitSettings = {Unset}
  Unset = Unset  Malformed = Malformed  Unread = Unread
  NoThread = NoThread  NoIdentity = NoIdentity
  Nothing = Nothing  Torn = Torn  Failed = Failed
  MaxCalls = 3
SPECIFICATION Spec
SYMMETRY MCAlike
INVARIANTS
  TypeOK
  SnapshotsFaithful
  FailuresJustified
