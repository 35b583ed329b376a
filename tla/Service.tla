------------------------------ MODULE Service ------------------------------
(***************************************************************************)
(* One app process from boot to shutdown (app.py, db.py): the database it  *)
(* opens and closes, the bulk fetch and the crawls it starts (fetch.py),   *)
(* which may outlive the fetch, the kicks of the worker (queue.py) and its *)
(* timer (worker.py).  A crawl may take for ever; what it finds is the     *)
(* environment's choice.  What a tick does with the queue: see CrawlQueue. *)
(***************************************************************************)
EXTENDS Truncation

CONSTANTS
  Urls,         \* the URLs of a bulk fetch
  MaxParallel,  \* FETCH_MAX_PARALLEL
  MaxRetries,   \* STARTUP_RETRIES
  MaxFaults     \* bound: stops, crashes and ticks that break

ASSUME ServiceAssumption == MaxParallel \in Nat \ {0} /\ MaxRetries \in Nat \ {0}

VARIABLES
  stage,    \* of the process, between boot and db.close
  attempt,  \* of startup
  dbOpen,
  fetch,    \* is a bulk fetch at work?
  part,     \* url -> where its _resolve_page is
  probe,    \* url -> its crawl: _probe_tasks
  adopted,  \* the crawls whose client has left
  kick,     \* _kick_task
  worker,   \* _worker_task
  lock,     \* who holds _tick_lock
  queued,   \* the URLs that wait in crawl_queue
  faults

procVars == <<stage, attempt, dbOpen>>
fetchVars == <<fetch, part, probe, adopted>>
tickVars == <<kick, worker, lock>>
vars == <<procVars, fetchVars, tickVars, queued, faults>>

NoParts  == [u \in Urls |-> "none"]
Volatile ==   \* what a process starts with
  /\ dbOpen' = FALSE /\ attempt' = 0
  /\ fetch' = FALSE /\ part' = NoParts /\ probe' = NoParts /\ adopted' = {}
  /\ kick' = "none" /\ worker' = "none" /\ lock' = "none"

Init ==
  /\ stage = "boot" /\ attempt = 0 /\ dbOpen = FALSE
  /\ fetch = FALSE /\ part = NoParts /\ probe = NoParts /\ adopted = {}
  /\ kick = "none" /\ worker = "none" /\ lock = "none"
  /\ queued = {} /\ faults = 0

-----------------------------------------------------------------------------
(***************************************************************************)
(* Boot                                                                    *)
(***************************************************************************)
\* _ensure_app_db: the database server may not be up yet
Connect ==
  /\ stage = "boot" /\ attempt < MaxRetries
  /\ \/ dbOpen' = TRUE /\ stage' = "reset" /\ UNCHANGED attempt
     \/ attempt' = attempt + 1 /\ UNCHANGED <<dbOpen, stage>>
  /\ UNCHANGED <<fetchVars, tickVars, queued, faults>>

\* the error ends the process; the container is started again
GiveUpBoot ==
  /\ stage = "boot" /\ attempt = MaxRetries /\ attempt' = 0
  /\ UNCHANGED <<stage, dbOpen, fetchVars, tickVars, queued, faults>>

\* queue_reset_in_flight is part of CrawlQueue; then the worker starts
StartWorker ==
  /\ stage = "reset" /\ stage' = "up" /\ worker' = "sleep"
  /\ UNCHANGED <<attempt, dbOpen, fetchVars, kick, lock, queued, faults>>

-----------------------------------------------------------------------------
(***************************************************************************)
(* Ticks                                                                   *)
(***************************************************************************)
\* kick_worker: one debounce window or kicked tick at a time
kick_worker == kick' = IF kick = "none" THEN "debounce" ELSE kick

\* queue.enqueue: a row that is new kicks the worker
Enqueue(u) ==
  /\ queued' = queued \cup {u}
  /\ IF u \in queued THEN UNCHANGED kick ELSE kick_worker

\* tick: skipped while another one runs; else it reads what is queued
BeginTick(who) ==
  IF lock = "none" THEN lock' = who /\ queued' = {} ELSE UNCHANGED <<lock, queued>>

KickFires ==
  /\ kick = "debounce"
  /\ BeginTick("kick")
  /\ kick' = IF lock = "none" THEN "tick" ELSE "none"
  /\ UNCHANGED <<procVars, fetchVars, worker, faults>>

TimerFires ==
  /\ worker = "sleep"
  /\ BeginTick("worker")
  /\ worker' = IF lock = "none" THEN "tick" ELSE "sleep"
  /\ UNCHANGED <<procVars, fetchVars, kick, faults>>

KickTickEnds ==
  /\ kick = "tick" /\ kick' = "none" /\ lock' = "none"
  /\ UNCHANGED <<procVars, fetchVars, worker, queued, faults>>

WorkerTickEnds ==
  /\ worker = "tick" /\ worker' = "sleep" /\ lock' = "none"
  /\ UNCHANGED <<procVars, fetchVars, kick, queued, faults>>

\* mutant: run_forever lets the error through
worker_after_crash == "dead"

worker_after == "sleep"

\* a tick breaks: run_forever goes on, a kicked tick is over
TickCrashes ==
  /\ faults < MaxFaults /\ faults' = faults + 1
  /\ lock' = "none"
  /\ \/ worker = "tick" /\ worker' = worker_after /\ UNCHANGED kick
     \/ kick = "tick" /\ kick' = "none" /\ UNCHANGED worker
  /\ UNCHANGED <<procVars, fetchVars, queued>>

-----------------------------------------------------------------------------
(***************************************************************************)
(* fetch_pages                                                             *)
(***************************************************************************)
Running == {u \in Urls : probe[u] \in {"crawl", "route"}}
Active  == {u \in Urls : part[u] \in {"lookup", "wait", "requeue", "read"}}
Part(u, p) == part' = [part EXCEPT ![u] = p]

\* bound: a URL is fetched again when its last crawl is over
BeginFetch ==
  /\ stage = "up" /\ ~fetch /\ fetch' = TRUE
  /\ \E asked \in SUBSET {u \in Urls : probe[u] = "none"} :
       asked # {} /\ part' = [u \in Urls |-> IF u \in asked THEN "todo" ELSE "none"]
  /\ UNCHANGED <<procVars, probe, adopted, tickVars, queued, faults>>

\* run, in _resolve_all: the next URL for one of the runners
TakeUrl(u) ==
  /\ part[u] = "todo" /\ Cardinality(Active) < MaxParallel
  /\ Part(u, "lookup")
  /\ UNCHANGED <<procVars, fetch, probe, adopted, tickVars, queued, faults>>

\* _resolve_page: the stored copy, an error, or a crawl of its own
Lookup(u) ==
  /\ part[u] = "lookup"
  /\ \/ \E end \in {"resolved", "failed"} : Part(u, end) /\ UNCHANGED probe
     \/ Part(u, "wait") /\ probe' = [probe EXCEPT ![u] = "crawl"]
  /\ UNCHANGED <<procVars, fetch, adopted, tickVars, queued, faults>>

\* _probe_crawl: the crawl stores its page or fails, or it meets a bot wall
ProbeEnds(u) ==
  /\ \/ /\ probe[u] = "crawl" /\ \E end \in {"stored", "error"} : probe' = [probe EXCEPT ![u] = end]
        /\ UNCHANGED queued
     \/ /\ probe[u] = "stopping" /\ probe' = [probe EXCEPT ![u] = "error"]
        /\ UNCHANGED queued
     \/ /\ probe[u] = "unrouting" /\ probe' = [probe EXCEPT ![u] = "error"]
        /\ queued' \in {queued, queued \cup {u}}
  /\ UNCHANGED <<procVars, fetch, part, adopted, tickVars, faults>>

ProbeWalled(u) ==
  /\ probe[u] = "crawl" /\ probe' = [probe EXCEPT ![u] = "route"]
  /\ UNCHANGED <<procVars, fetch, part, adopted, tickVars, queued, faults>>

ProbeRoutes(u) ==
  /\ probe[u] = "route" /\ probe' = [probe EXCEPT ![u] = "error"]
  /\ Enqueue(u)
  /\ UNCHANGED <<procVars, fetch, part, adopted, worker, lock, faults>>

\* a finished task leaves _probe_tasks; its client, if it waits, goes on
Settle(u) ==
  /\ probe[u] \in {"stored", "error"}
  /\ probe' = [probe EXCEPT ![u] = "none"]
  /\ IF u \in adopted THEN adopted' = adopted \ {u} /\ UNCHANGED part
     ELSE Part(u, IF probe[u] = "stored" THEN "read" ELSE "failed") /\ UNCHANGED adopted
  /\ UNCHANGED <<procVars, fetch, tickVars, queued, faults>>

\* the page is read back: it may be gone
ReadBack(u) ==
  /\ part[u] = "read"
  /\ \E end \in {"resolved", "failed"} : Part(u, end)
  /\ UNCHANGED <<procVars, fetch, probe, adopted, tickVars, queued, faults>>

\* mutant: an overdue crawl is left to itself
TimeoutAbandons(u) ==
  /\ part[u] = "wait" /\ Part(u, "requeue")
  /\ UNCHANGED <<procVars, fetch, probe, adopted, tickVars, queued, faults>>

\* FETCH_TIMEOUT_S is over: the crawl is adopted
Timeout(u) ==
  /\ part[u] = "wait" /\ u \in Running
  /\ Part(u, "requeue")
  /\ adopted' = adopted \cup {u}
  /\ UNCHANGED <<procVars, fetch, probe, tickVars, queued, faults>>

\* ... and its URL is queued, which may fail
Requeue(u) ==
  /\ part[u] = "requeue" /\ Part(u, "failed")
  /\ Enqueue(u) \/ UNCHANGED <<queued, kick>>
  /\ UNCHANGED <<procVars, fetch, probe, adopted, worker, lock, faults>>

\* task.cancel: the cleanup of the crawl comes first, or a row is queued that
\* nobody is kicked for
Cancelled(u) == IF probe[u] = "route" THEN "unrouting" ELSE "stopping"

\* _expire: FETCH_ORPHAN_GRACE_S later the crawl is stopped
Expire(u) ==
  /\ u \in adopted \cap Running
  /\ probe' = [probe EXCEPT ![u] = Cancelled(u)]
  /\ UNCHANGED <<procVars, fetch, part, adopted, tickVars, queued, faults>>

\* every URL is resolved or failed
EndFetch ==
  /\ fetch /\ \A u \in Urls : part[u] \in {"none", "resolved", "failed"}
  /\ fetch' = FALSE /\ part' = NoParts
  /\ UNCHANGED <<procVars, probe, adopted, tickVars, queued, faults>>

\* the client leaves: its runners are cancelled, their crawls adopted
ClientLeaves ==
  /\ fetch /\ fetch' = FALSE /\ part' = NoParts
  /\ adopted' = adopted \cup {u \in Urls : part[u] = "wait"}
  /\ UNCHANGED <<procVars, probe, tickVars, queued, faults>>

-----------------------------------------------------------------------------
(***************************************************************************)
(* Shutdown, one await after the other                                     *)
(***************************************************************************)
\* the server has finished its requests
BeginStop ==
  /\ stage = "up" /\ ~fetch
  /\ faults < MaxFaults /\ faults' = faults + 1
  /\ stage' = "probes"
  /\ probe' = [u \in Urls |-> IF u \in Running THEN Cancelled(u) ELSE probe[u]]
  /\ UNCHANGED <<attempt, dbOpen, fetch, part, adopted, tickVars, queued>>

\* mutant: the probes are cancelled, but not joined
StopKickEarly ==
  /\ stage = "probes"
  /\ stage' = "kick"
  /\ kick' = CASE kick = "tick" -> "stopping" [] kick = "debounce" -> "none" [] OTHER -> kick
  /\ UNCHANGED <<attempt, dbOpen, fetchVars, worker, lock, queued, faults>>

\* shutdown_kick cancels the kicked tick once the probes have been joined
StopKick ==
  /\ stage = "probes" /\ probe = NoParts
  /\ stage' = "kick"
  /\ kick' = CASE kick = "tick" -> "stopping" [] kick = "debounce" -> "none" [] OTHER -> kick
  /\ UNCHANGED <<attempt, dbOpen, fetchVars, worker, lock, queued, faults>>

\* a cancelled tick has joined its runners
TickStopped ==
  /\ lock' = "none"
  /\ \/ kick = "stopping" /\ kick' = "none" /\ UNCHANGED worker
     \/ worker = "stopping" /\ worker' = "none" /\ UNCHANGED kick
  /\ UNCHANGED <<procVars, fetchVars, queued, faults>>

StopWorker ==
  /\ stage = "kick" /\ kick = "none"
  /\ stage' = "worker"
  /\ worker' = IF worker = "tick" THEN "stopping" ELSE "none"
  /\ UNCHANGED <<attempt, dbOpen, fetchVars, kick, lock, queued, faults>>

\* close_pools, shutdown_gateway
ClosePools ==
  /\ stage = "worker" /\ worker = "none" /\ stage' = "pools"
  /\ UNCHANGED <<attempt, dbOpen, fetchVars, tickVars, queued, faults>>

CloseDb ==
  /\ stage = "pools" /\ stage' = "closed" /\ dbOpen' = FALSE
  /\ UNCHANGED <<attempt, fetchVars, tickVars, queued, faults>>

\* the container is started again, after a stop or a crash
Restart ==
  /\ \/ stage = "closed" /\ UNCHANGED faults
     \/ stage # "closed" /\ faults < MaxFaults /\ faults' = faults + 1
  /\ stage' = "boot" /\ Volatile
  /\ UNCHANGED queued

-----------------------------------------------------------------------------
Tasks ==
  \/ KickFires \/ TimerFires \/ KickTickEnds \/ WorkerTickEnds \/ TickStopped
  \/ \E u \in Urls : ProbeRoutes(u) \/ Settle(u)

Process == Connect \/ GiveUpBoot \/ StartWorker \/ StopKick \/ StopWorker \/ ClosePools \/ CloseDb

Fetching(u) ==
  TakeUrl(u) \/ Lookup(u) \/ ReadBack(u) \/ Timeout(u) \/ Requeue(u) \/ Expire(u)

Next ==
  \/ Process \/ Tasks \/ TickCrashes
  \/ BeginFetch \/ EndFetch \/ ClientLeaves \/ BeginStop \/ Restart
  \/ \E u \in Urls : Fetching(u) \/ ProbeEnds(u) \/ ProbeWalled(u)

\* The event loop runs what is ready, timers fire, a cancelled crawl or tick
\* gets to its end, the database server comes up, and the container is started
\* again.  Nothing is assumed of crawls, clients and faults.
Fairness ==
  /\ WF_vars(GiveUpBoot) /\ SF_vars(Connect /\ dbOpen') /\ WF_vars(StartWorker)
  /\ WF_vars(StopKick) /\ WF_vars(StopWorker) /\ WF_vars(ClosePools) /\ WF_vars(CloseDb)
  /\ WF_vars(stage = "closed" /\ Restart)
  /\ WF_vars(KickFires) /\ WF_vars(TimerFires) /\ WF_vars(KickTickEnds)
  /\ WF_vars(WorkerTickEnds) /\ WF_vars(TickStopped) /\ WF_vars(EndFetch)
  /\ \A u \in Urls :
       /\ WF_vars(Fetching(u)) /\ WF_vars(ProbeRoutes(u)) /\ WF_vars(Settle(u))
       /\ WF_vars(probe[u] \in {"stopping", "unrouting"} /\ ProbeEnds(u))

Spec == Init /\ [][Next]_vars /\ Fairness

-----------------------------------------------------------------------------
(***************************************************************************)
(* Properties                                                              *)
(***************************************************************************)
\* The database is closed behind everyone who uses it: no crawl that outlived
\* its client, no kicked or timed tick and no fetch is left when its pool is
\* closed, not even one that a cancelled crawl has set off.
DbClosedLast ==
  ~dbOpen => probe = NoParts /\ kick = "none" /\ worker = "none" /\ lock = "none" /\ ~fetch

\* A row that is queued is read by some later tick, also when its kick was
\* swallowed by a debounce window or a running tick, and across restarts.
KickServed == \A u \in Urls : u \in queued ~> u \notin queued

\* Every bulk fetch is answered, and every crawl it started ends, however long
\* the site keeps it waiting: by its timeout and the grace of its orphan.
FetchesEnd ==
  /\ fetch ~> ~fetch
  /\ \A u \in Urls : probe[u] # "none" ~> probe[u] = "none"

=============================================================================
