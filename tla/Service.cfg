SPECIFICATION MCSpec
CONSTANTS
  Urls = {u1, u2}
  MaxParallel = 1
  MaxRetries = 2
  MaxFaults = 2
INVARIANTS
  DbClosedLast
  TruncationSound
PROPERTIES
  KickServed
  FetchesEnd
