SPECIFICATION MCSpec
CONSTANTS
  None = None
  c1 = c1
  c2 = c2
  MaxTokens = 90
  Urls = {1, 2, 3, 4, 5}
  Canonical <- Variant
  Target <- Leads
  Tables <- Earlier
  Crawls = {c1, c2}
  Processes = {"app"}
  BatchSize = 2
  MaxFailures = 1
  Versions <- Changes
INVARIANTS
  TypeOK
  ChunksMatchPage
  StampedContentIsFresh
  ReindexReachesAll
  ChunksSound
PROPERTIES
  MergeKeepsPages
SYMMETRY Symmetric
