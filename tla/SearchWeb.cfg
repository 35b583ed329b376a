SPECIFICATION MCSpec
CONSTANTS
  p1 = p1
  p2 = p2
  Unset = Unset
  Searchers = {s1, s2}
  Writers = {w1, w2}
  EnvOrder <- Chain
  Configured = {p1, p2}
  EnvLimit <- Quotas
  Limits = {2}
  Indexes <- FewIndexes
  K = 1
  MaxPatches = 2
  MaxMonths = 1
  MaxUsed = 2
  GateMinK = 1
  TopBySim = 2
  MinSim = 30
  StrongSim = 55
  PartialMin = 2
  MaxPerDomain = 1
  Penalty = 50
INVARIANTS
  QuotaOvershootBounded
  PoolStaysComplete
  LastResort
  LocalAnswersSound
SYMMETRY Symmetric
