SPECIFICATION FairSpec
CONSTANTS
  None = None
  Crawls = {t1, t2, t3}
  Keys = {k1}
  Ctxs = {1, 2, 3}
  Size = 2
  ProfileMax = 1
  MaxFaults = 2
  MaxCancels = 1
PROPERTIES
  FetchEnds
