SPECIFICATION Spec
CONSTANTS
  None = None
  Crawls = {t1, t2, t3}
  Keys = {k1, k2, k3}
  Ctxs = {1, 2, 3, 4}
  Size = 2
  ProfileMax = 2
  MaxFaults = 1
  MaxCancels = 1
INVARIANTS
  TypeOK
  SlotsExact
  LeasesExact
  BrowsersBounded
  ParkedForAReason
  RetirementPending
PROPERTIES
  OnlyFailuresInterrupt
SYMMETRY PoolSymmetry
