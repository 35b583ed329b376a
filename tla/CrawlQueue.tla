---------------------------- MODULE CrawlQueue ----------------------------
(***************************************************************************)
(* The durable crawl queue of wellisearch and everything that moves a row  *)
(* of it: the worker tick with its two drains and its watchlist refresh    *)
(* (worker.py), the shared in-flight map (queue.py), on-demand fetch       *)
(* probes with their timeouts and orphans (fetch.py), the manual refresh   *)
(* and the enqueue and pause handlers (app.py), and boot, shutdown and     *)
(* crash of the processes that share the table.                            *)
(*                                                                         *)
(* A task is a worker runner or the task of a client request.  Each SQL    *)
(* statement is one step; between two statements any other task may run.   *)
(***************************************************************************)
EXTENDS Naturals, FiniteSets

CONSTANTS
  Urls,          \* canonical URLs
  Procs,         \* processes that share the database: the app, "worker --once"
  Servers,       \* the processes that also serve requests (the app)
  Runners,       \* worker runners, CRAWL_MAX_PARALLEL or less per process
  Clients,       \* slots for concurrent on-demand requests
  ProcOf,        \* the process of each task
  Sources,       \* what enqueues a row: a manual seed, or anything else
  MaxAttempts,   \* QUEUE_MAX_ATTEMPTS
  None,          \* no task, no URL
  MaxBoots,      \* bound: process starts
  MaxEnqueues,   \* bound: rows asked for by searches and seeds
  MaxRequests,   \* bound: fetches and manual refreshes
  MaxDeadlines,  \* bound: ticks that run out of their wall-clock budget
  MaxFaults,     \* bound: failed queue statements
  MaxPauses      \* bound: uses of the pause switch

Tasks == Runners \cup Clients

ASSUME ConstantsOK ==
  /\ Servers \subseteq Procs
  /\ ProcOf \in [Tasks -> Procs]
  /\ Runners \cap Clients = {}
  /\ \A t \in Clients : ProcOf[t] \in Servers
  /\ None \notin Tasks \cup Urls
  /\ Sources \subseteq {"manual", "other"}
  /\ MaxAttempts \in Nat \ {0}
  /\ {MaxBoots, MaxEnqueues, MaxRequests, MaxDeadlines, MaxFaults, MaxPauses}
       \subseteq Nat

VARIABLES
  row,      \* the newest crawl_queue row of each URL
  page,     \* each URL's pages row, as far as the watchlist query sees it
  fetched,  \* history: has the URL been crawled and stored since it was queued?
  mode,     \* each process: down, up or stopping
  stranded, \* history: URLs whose claim was dropped by a crash or a failed
            \* statement, and that no boot has reset and nobody claimed since
  paused,   \* app_state.indexing_paused
  phase,    \* where each process's tick is
  manual,   \* the pause flag as the tick read it
  todo,     \* the URLs the phase has selected and no runner has taken
  halt,     \* why the tick must end: run, deadline or abort
  owner,    \* INFLIGHT: the task whose crawl each process's URL waits for
  job,      \* what each task is doing
  late,     \* URLs a timed-out fetch handler is about to queue
  used      \* how much of each bound is spent

db    == <<row, page, fetched>>
ctl   == <<mode, stranded, paused>>
tick  == <<phase, manual, todo, halt>>
tasks == <<owner, job, late>>
vars  == <<db, ctl, tick, tasks, used>>

Status  == {"none", "pending", "in_flight", "done", "failed"}
Row     == [status : Status, lane : {"fast", "cf"}, attempts : Nat,
            source : {"manual", "other"}]
NoRow   == [status |-> "none", lane |-> "fast", attempts |-> 0, source |-> "other"]
Pc      == {"idle", "claim", "claim_cancelled", "start", "own", "join",
            "settle", "fail", "route", "bump", "release"}
Kind    == {"none", "fast", "cf", "refresh", "probe", "orphan", "direct"}
Outcome == {"none", "ok", "challenge", "error", "retry", "giveup"}
Job     == [pc : Pc, url : Urls \cup {None}, kind : Kind, need : BOOLEAN,
            out : Outcome]
Work(pc, url, kind, need, out) ==
  [pc |-> pc, url |-> url, kind |-> kind, need |-> need, out |-> out]
Idle    == Work("idle", None, "none", FALSE, "none")
Bounds  == {"boots", "enqueues", "requests", "deadlines", "faults", "pauses"}

Init ==
  /\ row = [u \in Urls |-> NoRow]
  /\ page \in [Urls -> {"absent", "stale"}]
  /\ fetched = [u \in Urls |-> FALSE]
  /\ mode = [p \in Procs |-> "down"]
  /\ stranded = {}
  /\ paused = FALSE
  /\ phase = [p \in Procs |-> "idle"]
  /\ manual = [p \in Procs |-> FALSE]
  /\ todo = [p \in Procs |-> {}]
  /\ halt = [p \in Procs |-> "run"]
  /\ owner = [p \in Procs |-> [u \in Urls |-> None]]
  /\ job = [t \in Tasks |-> Idle]
  /\ late = {}
  /\ used = [b \in Bounds |-> 0]

Spend(what, bound) ==
  /\ used[what] < bound
  /\ used' = [used EXCEPT ![what] = @ + 1]

---------------------------------------------------------------------------
(* The statements of db.py on crawl_queue.  The partial unique index lets  *)
(* a URL have one active row, so an UPDATE of an active row names one row. *)

Active(u)    == row[u].status \in {"pending", "in_flight"}
InFlight(u)  == row[u].status = "in_flight"
Walled(u)    == Active(u) /\ row[u].lane = "cf"

\* a row, and what the UPDATEs make of it: claimed, given back, routed, decided
Entry(status, lane, attempts, source) ==
  [status |-> status, lane |-> lane, attempts |-> attempts, source |-> source]

Leased(r)         == Entry("in_flight", r.lane, r.attempts + 1, r.source)
GivenBack(r)      == Entry("pending", r.lane,
                           IF r.attempts = 0 THEN 0 ELSE r.attempts - 1, r.source)
Routed(r)         == Entry("pending", "cf", 0, r.source)
Marked(r, status) == Entry(status, r.lane, r.attempts, r.source)

\* INSERT ... ON CONFLICT DO NOTHING
queue_enqueue(u, lane, source) ==
  IF Active(u)
  THEN UNCHANGED <<row, fetched>>
  ELSE /\ row' = [row EXCEPT ![u] = Entry("pending", lane, 0, source)]
       /\ fetched' = [fetched EXCEPT ![u] = FALSE]

queue_claim(u) ==
  row' = IF row[u].status = "pending" THEN [row EXCEPT ![u] = Leased(row[u])] ELSE row

queue_release(u) ==
  row' = IF InFlight(u) THEN [row EXCEPT ![u] = GivenBack(row[u])] ELSE row

\* mutant: the UPDATE has lost its "status = 'in_flight'"
finish_any(u, status) == row' = [row EXCEPT ![u] = Marked(row[u], status)]

\* the UPDATE that ends queue_done: "done", or back to "pending", or "failed"
queue_finish(u, status) ==
  row' = IF InFlight(u) THEN [row EXCEPT ![u] = Marked(row[u], status)] ELSE row

\* mutants: the verdict is a status, the budget is one claim short or long
verdict_status(u) ==
  IF InFlight(u) /\ row[u].attempts < MaxAttempts THEN "pending" ELSE "failed"
verdict_early(u) ==
  IF InFlight(u) /\ row[u].attempts + 1 < MaxAttempts THEN "retry" ELSE "giveup"
verdict_late(u) ==
  IF InFlight(u) /\ row[u].attempts <= MaxAttempts THEN "retry" ELSE "giveup"

\* the SELECT in front of it, when the crawl failed
queue_verdict(u) ==
  IF InFlight(u) /\ row[u].attempts < MaxAttempts THEN "retry" ELSE "giveup"

queue_route_to_cf(u) ==
  row' = IF Active(u) THEN [row EXCEPT ![u] = Routed(row[u])] ELSE row

queue_reset_in_flight ==
  row' = [u \in Urls |-> IF InFlight(u) THEN Marked(row[u], "pending") ELSE row[u]]

\* only an indexed page has a streak to bump
refresh_fail_bump(u) ==
  page' = IF page[u] = "absent" THEN page ELSE [page EXCEPT ![u] = "backoff"]

---------------------------------------------------------------------------
(* Processes: boot, shutdown and crash.                                    *)

Up(p)       == mode[p] = "up"
TasksOf(p)  == {t \in Tasks : ProcOf[t] = p}
IdleAll(S)  == \A t \in S : job[t].pc = "idle"
Drain(t)    == job[t].kind \in {"fast", "cf"}

\* t has claimed its row and not finished with it
Claimed(t) ==
  Drain(t) /\ job[t].pc \in {"start", "own", "join", "settle", "fail", "release"}
Holds(t, u) == Claimed(t) /\ job[t].url = u

\* what u's row is left with when the tasks of T drop what they are doing
Dropped(u, T) == InFlight(u) /\ \E t \in T : Holds(t, u)

\* mutant: a boot keeps the claims of the process that died
BootKeepsClaims(p) ==
  /\ mode[p] = "down"
  /\ Spend("boots", MaxBoots)
  /\ mode' = [mode EXCEPT ![p] = "up"]
  /\ stranded' = {}
  /\ UNCHANGED <<db, paused, tick, tasks>>

\* app._startup and worker.run_once: reset the claims a dead process left,
\* whoever holds them
Boot(p) ==
  /\ mode[p] = "down"
  /\ Spend("boots", MaxBoots)
  /\ mode' = [mode EXCEPT ![p] = "up"]
  /\ stranded' = {}
  /\ queue_reset_in_flight
  /\ UNCHANGED <<page, fetched, paused, tick, tasks>>

\* app._shutdown: every task of the process may now be cancelled
BeginStop(p) ==
  /\ Up(p)
  /\ used.boots < MaxBoots
  /\ mode' = [mode EXCEPT ![p] = "stopping"]
  /\ UNCHANGED <<db, stranded, paused, tick, tasks, used>>

\* ... and each has been joined before the database pool is closed
EndStop(p) ==
  /\ mode[p] = "stopping"
  /\ phase[p] = "idle" /\ IdleAll(TasksOf(p))
  /\ p \in Servers => late = {}
  /\ mode' = [mode EXCEPT ![p] = "down"]
  /\ UNCHANGED <<db, stranded, paused, tick, tasks, used>>

Crash(p) ==
  /\ mode[p] # "down"
  /\ used.boots < MaxBoots
  /\ mode' = [mode EXCEPT ![p] = "down"]
  /\ stranded' = stranded \cup {u \in Urls : Dropped(u, TasksOf(p))}
  /\ phase' = [phase EXCEPT ![p] = "idle"]
  /\ manual' = [manual EXCEPT ![p] = FALSE]
  /\ todo' = [todo EXCEPT ![p] = {}]
  /\ halt' = [halt EXCEPT ![p] = "run"]
  /\ owner' = [owner EXCEPT ![p] = [u \in Urls |-> None]]
  /\ job' = [t \in Tasks |-> IF ProcOf[t] = p THEN Idle ELSE job[t]]
  /\ late' = IF p \in Servers THEN {} ELSE late
  /\ UNCHANGED <<db, paused, used>>

---------------------------------------------------------------------------
(* The worker tick.  _tick_lock lets a process run one at a time; a tick   *)
(* drains the fast lane, then the CF lane, then refreshes the watchlist.   *)

\* mutant: the pause filter is left out of the drains' SELECT
ready_unfiltered(lane, manual_only) ==
  {u \in Urls : row[u].status = "pending" /\ row[u].lane = lane}

Ready(lane, manual_only) ==
  {u \in Urls : /\ row[u].status = "pending" /\ row[u].lane = lane
                /\ manual_only => row[u].source = "manual"}

Watchlist == {u \in Urls : page[u] = "stale" /\ ~Active(u)}

\* reads the pause flag; the first SELECT is a step of its own
StartTick(p) ==
  /\ Up(p) /\ phase[p] = "idle"
  /\ phase' = [phase EXCEPT ![p] = "begin"]
  /\ manual' = [manual EXCEPT ![p] = paused]
  /\ UNCHANGED <<db, ctl, todo, halt, tasks, used>>

\* mutant: a phase does not join its runners
PhaseOverUnjoined(p) ==
  phase[p] # "idle" /\ (todo[p] = {} \/ halt[p] # "run" \/ ~Up(p))

PhaseOver(p) ==
  /\ phase[p] # "idle"
  /\ IdleAll(TasksOf(p) \cap Runners)
  /\ todo[p] = {} \/ halt[p] # "run" \/ ~Up(p)

PhaseAfter(p) ==
  IF halt[p] = "abort" \/ ~Up(p) THEN "idle"
  ELSE CASE phase[p] = "begin"   -> "fast"
         [] phase[p] = "fast"    -> "cf"
         [] phase[p] = "cf"      -> IF manual[p] THEN "idle" ELSE "refresh"
         [] phase[p] = "refresh" -> "idle"

Selection(p, ph) ==
  CASE halt[p] # "run" \/ ph = "idle" -> {}
    [] halt[p] = "run" /\ ph = "refresh" -> Watchlist
    [] OTHER -> Ready(ph, manual[p])

\* a process that is not a server runs one tick and exits
NextPhase(p) ==
  LET ph == PhaseAfter(p) IN
  /\ PhaseOver(p)
  /\ phase' = [phase EXCEPT ![p] = ph]
  /\ todo' = [todo EXCEPT ![p] = Selection(p, ph)]
  /\ IF ph = "idle"
     THEN /\ halt' = [halt EXCEPT ![p] = "run"]
          /\ manual' = [manual EXCEPT ![p] = FALSE]
          /\ mode' = IF p \in Servers THEN mode
                     ELSE [mode EXCEPT ![p] = "stopping"]
     ELSE UNCHANGED <<halt, manual, mode>>
  /\ UNCHANGED <<db, stranded, paused, tasks, used>>

\* WORKER_TICK_BUDGET_MIN is over: no runner takes another row, and
\* asyncio.timeout cancels the one it is working on
Deadline(p) ==
  /\ phase[p] # "idle" /\ halt[p] = "run"
  /\ Spend("deadlines", MaxDeadlines)
  /\ halt' = [halt EXCEPT ![p] = "deadline"]
  /\ UNCHANGED <<db, ctl, phase, manual, todo, tasks>>

Take(t) ==
  LET p == ProcOf[t] IN
  /\ t \in Runners /\ job[t].pc = "idle"
  /\ Up(p) /\ phase[p] \in {"fast", "cf", "refresh"} /\ halt[p] = "run"
  /\ \E u \in todo[p] :
       /\ todo' = [todo EXCEPT ![p] = @ \ {u}]
       /\ job' = [job EXCEPT ![t] =
            IF phase[p] = "refresh" THEN Work("start", u, "refresh", TRUE, "none")
            ELSE Work("claim", u, phase[p], FALSE, "none")]
  /\ UNCHANGED <<db, ctl, phase, manual, halt, owner, late, used>>

---------------------------------------------------------------------------
(* Requests and the switches of the dashboard.                             *)

Serving == \E p \in Servers : Up(p)

\* search backfill and POST /api/seed
Enqueue(u, source) ==
  /\ Serving
  /\ Spend("enqueues", MaxEnqueues)
  /\ queue_enqueue(u, "fast", source)
  /\ UNCHANGED <<page, ctl, tick, tasks>>

SetPaused ==
  /\ Serving
  /\ Spend("pauses", MaxPauses)
  /\ paused' = ~paused
  /\ UNCHANGED <<db, mode, stranded, tick, tasks>>

\* fetch._resolve_page: no usable stored copy (a page in backoff serves its
\* own), and no challenge solve queued or running
Fetch(t, u) ==
  /\ t \in Clients /\ job[t].pc = "idle" /\ Up(ProcOf[t])
  /\ page[u] # "backoff" /\ ~Walled(u)
  /\ Spend("requests", MaxRequests)
  /\ job' = [job EXCEPT ![t] =
               Work("start", u, "probe", page[u] # "absent", "none")]
  /\ UNCHANGED <<db, ctl, tick, owner, late>>

\* POST /api/refresh: crawl_url with no routing behind it
Refresh(t, u) ==
  /\ t \in Clients /\ job[t].pc = "idle" /\ Up(ProcOf[t])
  /\ Spend("requests", MaxRequests)
  /\ job' = [job EXCEPT ![t] = Work("start", u, "direct", FALSE, "none")]
  /\ UNCHANGED <<db, ctl, tick, owner, late>>

\* FETCH_TIMEOUT_S is over, or the client has left: the probe goes on as an
\* orphan; only a timed-out handler is still there to queue the URL
Orphan(t, requeue) ==
  /\ job[t].kind = "probe" /\ job[t].pc \notin {"idle", "bump"}
  /\ job' = [job EXCEPT ![t] =
               Work(job[t].pc, job[t].url, "orphan", FALSE, job[t].out)]
  /\ late' = IF requeue THEN late \cup {job[t].url} ELSE late
  /\ UNCHANGED <<db, ctl, tick, owner, used>>

LateEnqueue(u) ==
  /\ u \in late
  /\ late' = late \ {u}
  /\ queue_enqueue(u, "fast", "other")
  /\ UNCHANGED <<page, ctl, tick, owner, job, used>>

\* time passes: a page is old enough to refresh, its backoff has run out
PageAges(u) ==
  /\ page[u] \in {"fresh", "backoff"}
  /\ page' = [page EXCEPT ![u] = "stale"]
  /\ UNCHANGED <<row, fetched, ctl, tick, tasks, used>>

---------------------------------------------------------------------------
(* One crawl: claim, crawl_deduped, then what the caller does with its     *)
(* outcome.  A cancelled drain gives its claim back (queue_release).       *)

\* the task goes on with what it learned of its crawl or of its row
Told(t, pc, out) == Work(pc, job[t].url, job[t].kind, job[t].need, out)

Goto(t, l) == job' = [job EXCEPT ![t] = IF l = "idle" THEN Idle
                                        ELSE [job[t] EXCEPT !.pc = l]]

Cancellable(t) ==
  \/ mode[ProcOf[t]] = "stopping"
  \/ t \in Runners /\ halt[ProcOf[t]] # "run"
  \/ job[t].kind = "orphan"

\* where a task is after its last statement: a cancellation that arrives
\* with the answer still runs the release
After(t) == {"idle"} \cup IF Drain(t) /\ Cancellable(t) THEN {"release"} ELSE {}

\* _claim_queue_row: a cancelled claim is settled first, then given back
Claim(t) ==
  LET u == job[t].url IN
  /\ Drain(t) /\ job[t].pc \in {"claim", "claim_cancelled"}
  /\ queue_claim(u)
  /\ stranded' = IF row[u].status = "pending" THEN stranded \ {u} ELSE stranded
  /\ Goto(t, IF row[u].status # "pending" THEN "idle"
             ELSE IF job[t].pc = "claim" THEN "start" ELSE "release")
  /\ UNCHANGED <<page, fetched, mode, paused, tick, owner, late, used>>

Waits(w, t) ==
  /\ job[w].pc = "join" /\ job[w].url = job[t].url /\ ProcOf[w] = ProcOf[t]

\* mutant: no look at INFLIGHT before the crawl
StartAnyway(t) ==
  /\ job[t].pc = "start"
  /\ owner' = [owner EXCEPT ![ProcOf[t]][job[t].url] = t]
  /\ Goto(t, "own")
  /\ UNCHANGED <<db, ctl, tick, late, used>>

\* crawl_deduped: join the crawl of the same URL, or own a new one
Start(t) ==
  LET p == ProcOf[t]
      u == job[t].url IN
  /\ job[t].pc = "start"
  /\ IF owner[p][u] = None
     THEN /\ owner' = [owner EXCEPT ![p][u] = t]
          /\ Goto(t, "own")
     ELSE /\ Goto(t, "join")
          /\ UNCHANGED owner
  /\ UNCHANGED <<db, ctl, tick, late, used>>

\* the fast lane probes and may find a bot wall, the CF lane fights it
CrawlOutcomes(t) ==
  IF job[t].kind = "cf" THEN {"ok", "error"} ELSE {"ok", "challenge", "error"}

\* the crawl ends, the page is stored, and every waiter gets the outcome
Finish(t, out) ==
  LET p == ProcOf[t]
      u == job[t].url IN
  /\ job[t].pc = "own"
  /\ out \in CrawlOutcomes(t)
  /\ owner' = [owner EXCEPT ![p][u] = None]
  /\ job' = [w \in Tasks |-> IF w = t \/ Waits(w, t)
                             THEN Told(w, "settle", out)
                             ELSE job[w]]
  /\ IF out = "ok"
     THEN /\ page' = [page EXCEPT ![u] = "fresh"]
          /\ fetched' = [fetched EXCEPT ![u] = TRUE]
     ELSE UNCHANGED <<page, fetched>>
  /\ UNCHANGED <<row, ctl, tick, late, used>>

\* queue_done(ok=True)
SettleOk(t) ==
  /\ job[t].pc = "settle" /\ job[t].out = "ok"
  /\ IF Drain(t) THEN queue_finish(job[t].url, "done") ELSE UNCHANGED row
  /\ \E l \in After(t) : Goto(t, l)
  /\ UNCHANGED <<page, fetched, ctl, tick, owner, late, used>>

\* a fast drain routes its row; a refresh or a probe queues the challenge,
\* and routes the row that is already there when the insert does nothing
SettleChallenge(t) ==
  LET u == job[t].url IN
  /\ job[t].pc = "settle" /\ job[t].out = "challenge"
  /\ \/ /\ job[t].kind = "fast"
        /\ queue_route_to_cf(u)
        /\ \E l \in After(t) : Goto(t, l)
        /\ UNCHANGED <<page, fetched>>
     \/ /\ job[t].kind \in {"refresh", "probe", "orphan"}
        /\ queue_enqueue(u, "cf", "other")
        /\ IF Active(u)
           THEN Goto(t, "route")
           ELSE Goto(t, IF job[t].need THEN "bump" ELSE "idle")
        /\ UNCHANGED page
     \/ /\ job[t].kind = "direct"
        /\ Goto(t, "idle")
        /\ UNCHANGED db
  /\ UNCHANGED <<ctl, tick, owner, late, used>>

Route(t) ==
  LET u == job[t].url IN
  /\ job[t].pc = "route"
  /\ queue_route_to_cf(u)
  /\ Goto(t, IF job[t].need THEN "bump" ELSE "idle")
  /\ UNCHANGED <<page, fetched, ctl, tick, owner, late, used>>

\* a failed refresh, or a fetch that was to replace a stale page, backs off
Bump(t) ==
  /\ job[t].pc = "bump"
  /\ refresh_fail_bump(job[t].url)
  /\ Goto(t, "idle")
  /\ UNCHANGED <<row, fetched, ctl, tick, owner, late, used>>

\* the SELECT of queue_done(ok=False) decides, Fail carries the verdict out.
\* A CF drain that joined a fast crawl gets its bot wall as an error.
SettleError(t) ==
  LET u == job[t].url IN
  /\ job[t].pc = "settle"
  /\ \/ job[t].out = "error"
     \/ job[t].out = "challenge" /\ job[t].kind = "cf"
  /\ IF Drain(t)
     THEN job' = [job EXCEPT ![t] = Told(t, "fail", queue_verdict(u))]
     ELSE Goto(t, IF job[t].need THEN "bump" ELSE "idle")
  /\ UNCHANGED <<db, ctl, tick, owner, late, used>>

Fail(t) ==
  /\ job[t].pc = "fail"
  /\ queue_finish(job[t].url, IF job[t].out = "retry" THEN "pending" ELSE "failed")
  /\ \E l \in After(t) : Goto(t, l)
  /\ UNCHANGED <<page, fetched, ctl, tick, owner, late, used>>

Release(t) ==
  /\ job[t].pc = "release"
  /\ queue_release(job[t].url)
  /\ Goto(t, "idle")
  /\ UNCHANGED <<page, fetched, ctl, tick, owner, late, used>>

---------------------------------------------------------------------------
(* Cancellation and failed statements.                                     *)

\* mutant: a cancelled drain does not give its claim back
cancel_to_idle(t) == IF job[t].pc = "claim" THEN "claim_cancelled" ELSE "idle"

CancelTo(t) ==
  CASE job[t].pc = "claim" -> "claim_cancelled"
    [] job[t].pc # "claim" /\ Drain(t) -> "release"
    [] OTHER -> "idle"

\* a cancelled owner fails its waiters with a CrawlError
Cancel(t) ==
  LET p == ProcOf[t]
      u == job[t].url IN
  /\ Cancellable(t)
  /\ job[t].pc \in {"claim", "start", "own", "join", "settle", "fail", "route",
                   "bump"}
  /\ IF job[t].pc = "own"
     THEN /\ owner' = [owner EXCEPT ![p][u] = None]
          /\ job' = [w \in Tasks |->
               IF w = t
               THEN IF Drain(t) THEN Told(t, "release", "none") ELSE Idle
               ELSE IF Waits(w, t)
                    THEN Told(w, "settle", "error")
                    ELSE job[w]]
     ELSE Goto(t, CancelTo(t)) /\ UNCHANGED owner
  /\ UNCHANGED <<db, ctl, tick, late, used>>

\* where a failed statement leaves the task: the backoff of a fetch that was to
\* replace a stale page is recorded whatever its probe raised
FaultTo(t) ==
  IF job[t].kind = "probe" /\ job[t].need /\ job[t].pc # "bump" THEN "bump" ELSE "idle"

\* a statement raises and changes nothing.  queue_done(ok=True) is retried as
\* a failure; a failed backoff bump is only logged; in an except branch, a
\* claim or a release the error ends the runner, and with it the whole tick,
\* and leaves what the runner had claimed in flight
DbFault(t) ==
  LET p == ProcOf[t]
      EndsTick == /\ t \in Runners
                  /\ job[t].pc \notin {"claim_cancelled", "bump"} IN
  /\ \/ job[t].pc \in {"claim", "claim_cancelled", "fail", "route", "bump",
                        "release"}
     \/ job[t].pc = "settle" /\ Drain(t)
     \/ job[t].pc = "settle" /\ job[t].out = "challenge" /\ job[t].kind # "direct"
  /\ Spend("faults", MaxFaults)
  /\ IF job[t].pc = "settle" /\ job[t].out = "ok"
     THEN /\ job' = [job EXCEPT ![t] = Told(t, "settle", "error")]
          /\ UNCHANGED <<halt, stranded>>
     ELSE /\ Goto(t, FaultTo(t))
          /\ halt' = IF EndsTick THEN [halt EXCEPT ![p] = "abort"] ELSE halt
          /\ stranded' = stranded \cup {u \in Urls : Dropped(u, {t})}
  /\ UNCHANGED <<db, mode, paused, phase, manual, todo, owner, late>>

\* the handler's own enqueue fails: logged, and the client sees the timeout
LateFault(u) ==
  /\ u \in late
  /\ Spend("faults", MaxFaults)
  /\ late' = late \ {u}
  /\ UNCHANGED <<db, ctl, tick, owner, job>>

Step(t) ==
  \/ Take(t) \/ Claim(t) \/ Start(t)
  \/ \E out \in {"ok", "challenge", "error"} : Finish(t, out)
  \/ SettleOk(t) \/ SettleChallenge(t) \/ SettleError(t)
  \/ Route(t) \/ Bump(t) \/ Fail(t) \/ Release(t)

Environment ==
  \/ SetPaused
  \/ \E u \in Urls : PageAges(u) \/ LateFault(u)
  \/ \E u \in Urls, source \in Sources : Enqueue(u, source)
  \/ \E t \in Clients, u \in Urls : Fetch(t, u) \/ Refresh(t, u)
  \/ \E t \in Clients, requeue \in BOOLEAN : Orphan(t, requeue)
  \/ \E t \in Tasks : Cancel(t) \/ DbFault(t)
  \/ \E p \in Procs : BeginStop(p) \/ Crash(p) \/ Deadline(p)

Next ==
  \/ \E p \in Procs : Boot(p) \/ EndStop(p) \/ StartTick(p) \/ NextPhase(p)
  \/ \E t \in Tasks : Step(t)
  \/ \E u \in Urls : LateEnqueue(u)
  \/ Environment

Spec == Init /\ [][Next]_vars

---------------------------------------------------------------------------
(* Liveness: the event loop runs every ready task, a crawl ends within its *)
(* tier timeouts, the interval timer starts ticks, and a stopped process   *)
(* is started again.  Cancellations, deadlines, faults, requests and the   *)
(* pause switch are nobody's obligation.                                   *)

Fairness ==
  /\ \A p \in Procs : /\ WF_vars(Boot(p)) /\ WF_vars(EndStop(p))
                      /\ WF_vars(StartTick(p)) /\ WF_vars(NextPhase(p))
  /\ \A t \in Tasks : WF_vars(Step(t))
  /\ \A t \in Tasks : WF_vars(mode[ProcOf[t]] = "stopping" /\ Cancel(t))
  /\ \A u \in Urls : WF_vars(LateEnqueue(u))

FairSpec == Spec /\ Fairness

---------------------------------------------------------------------------
(* What makes the queue correct.                                           *)

TypeOK ==
  /\ row \in [Urls -> Row]
  /\ page \in [Urls -> {"absent", "fresh", "stale", "backoff"}]
  /\ fetched \in [Urls -> BOOLEAN]
  /\ mode \in [Procs -> {"down", "up", "stopping"}]
  /\ stranded \in SUBSET Urls /\ paused \in BOOLEAN
  /\ phase \in [Procs -> {"idle", "begin", "fast", "cf", "refresh"}]
  /\ manual \in [Procs -> BOOLEAN]
  /\ todo \in [Procs -> SUBSET Urls]
  /\ halt \in [Procs -> {"run", "deadline", "abort"}]
  /\ owner \in [Procs -> [Urls -> Tasks \cup {None}]]
  /\ job \in [Tasks -> Job]
  /\ \A t \in Tasks : job[t].pc # "idle" => job[t].url \in Urls
  /\ late \in SUBSET Urls
  /\ used \in [Bounds -> Nat]

\* A claim is never lost: every in_flight row has a runner that will still
\* finish, route or release it, except the rows whose own claim a crash or a
\* failed statement has dropped, and those only until the next boot or claim
\* (worker._drain_queue and _claim_queue_row under cancellation, deadlines and
\* shutdown).
ClaimsOwned ==
  \A u \in Urls : InFlight(u) => u \in stranded \/ \E t \in Tasks : Holds(t, u)

\* The in-flight map is exact: a URL's entry is the one task that crawls it, no
\* second task of the process crawls it, and nobody waits for a crawl that no
\* longer exists (queue.crawl_deduped, also when the owner is cancelled).
DedupExact ==
  /\ \A p \in Procs, u \in Urls : owner[p][u] # None =>
       LET t == owner[p][u] IN
         job[t].pc = "own" /\ job[t].url = u /\ ProcOf[t] = p
  /\ \A t \in Tasks : job[t].pc = "own" => owner[ProcOf[t]][job[t].url] = t
  /\ \A t \in Tasks : job[t].pc = "join" => owner[ProcOf[t]][job[t].url] # None

\* With one process, a row is marked failed only when its claims have used up
\* QUEUE_MAX_ATTEMPTS, although queue_done reads the counter in one statement
\* and acts on it in the next.
FailedOnlyWhenSpent ==
  \A u \in Urls : row[u].status = "failed" => row[u].attempts >= MaxAttempts

\* With one process, the retry budget is exceeded by at most one claim per
\* restart, because queue_reset_in_flight gives a row back with its attempt
\* still counted.
AttemptsBounded ==
  \A u \in Urls : row[u].attempts < MaxAttempts + used.boots

\* With one process, no two runners ever work on the same claim.
OneHolder ==
  \A t1, t2 \in Tasks :
    Claimed(t1) /\ Claimed(t2) /\ job[t1].url = job[t2].url => t1 = t2

\* With one process, a tick that found the pause switch on crawls manual seeds
\* and nothing else, whatever happened to its rows after it selected them: no
\* search backfill and no watchlist refresh.
PausedTickIsManual ==
  \A t \in Runners :
    manual[ProcOf[t]] /\ job[t].pc = "own" => row[job[t].url].source = "manual"

\* A queued row is finished sooner or later: done or failed, however the
\* process is stopped and restarted, unless the pause switch keeps a row that
\* is not manual waiting.
EventuallyFinished ==
  \A u \in Urls :
    Active(u) ~> \/ row[u].status \in {"done", "failed"}
                 \/ paused /\ row[u].source # "manual"

\* With one process the table and its handlers implement JobQueue: no step
\* drops a queued URL, revives a finished one, finishes an unclaimed one, calls
\* it done without content or failed with budget left.
Jobs == INSTANCE JobQueue WITH
  Budget <- MaxAttempts,
  state <- [u \in Urls |-> row[u].status],
  tries <- [u \in Urls |-> row[u].attempts],
  have <- fetched
ImplementsJobQueue == Jobs!Spec

=============================================================================
