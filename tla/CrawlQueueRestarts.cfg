SPECIFICATION Spec
CONSTANTS
  app = app
  once = once
  r1 = r1
  r2 = r2
  None = None
  Urls = {u1, u2}
  Procs = {app}
  Servers = {app}
  Runners = {r1, r2}
  Clients = {}
  ProcOf <- InApp
  Sources = {"other"}
  MaxAttempts = 1
  MaxBoots = 2
  MaxEnqueues = 2
  MaxRequests = 0
  MaxDeadlines = 1
  MaxFaults = 1
  MaxPauses = 0
INVARIANTS
  ClaimsOwned
  OneHolder
  AttemptsBounded
SYMMETRY WorkerSymmetry
