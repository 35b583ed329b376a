SPECIFICATION MCSpec
CONSTANTS
  c1 = c1
  c2 = c2
  Callers = {c1, c2}
  Workers = 1
  Starts <- TwoCrawls
  Settings <- Tiers
  Slots <- OneEach
  StealthMax = 1
  Pages <- Served
  MaxBytes = 2
  StructuralMax = 1
  MaxFaults = 1
INVARIANTS
  TypeOK
  SlotsExact
  NoLostWake
  AcceptedIsClean
  StealthOwned
  WallsTold
  DownloadsExact
PROPERTIES
  CrawlEnds
