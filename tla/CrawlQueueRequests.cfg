SPECIFICATION Spec
CONSTANTS
  app = app
  once = once
  r1 = r1
  r2 = r2
  None = None
  Urls = {u1}
  Procs = {app}
  Servers = {app}
  Runners = {r1}
  Clients = {c1, c2}
  ProcOf <- InApp
  Sources = {"other"}
  MaxAttempts = 2
  MaxBoots = 1
  MaxEnqueues = 1
  MaxRequests = 2
  MaxDeadlines = 0
  MaxFaults = 1
  MaxPauses = 0
INVARIANTS
  TypeOK
  DedupExact
  FailedOnlyWhenSpent
PROPERTIES
  ImplementsJobQueue
SYMMETRY ClientSymmetry
