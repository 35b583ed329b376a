SPECIFICATION MCSpec
CONSTANTS
  Urls = {u1}
  MaxParallel = 1
  MaxRetries = 1
  MaxFaults = 1
INVARIANTS
  TailWithinBudget
