SPECIFICATION FairSpec
CONSTANTS
  app = app
  once = once
  r1 = r1
  r2 = r2
  None = None
  Urls = {u1}
  Procs = {app}
  Servers = {app}
  Runners = {r1}
  Clients = {c1}
  ProcOf <- InApp
  Sources = {"manual", "other"}
  MaxAttempts = 1
  MaxBoots = 2
  MaxEnqueues = 1
  MaxRequests = 1
  MaxDeadlines = 0
  MaxFaults = 0
  MaxPauses = 1
INVARIANTS
  PausedTickIsManual
PROPERTIES
  EventuallyFinished
