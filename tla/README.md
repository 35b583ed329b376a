# wellisearch: a verification project

TLA+ models of the moving parts of wellisearch, the TLC runs that check them on
small instances, and TLAPS proofs of their central invariants for every value of
the constants. Paths are relative to the repository (`src/wellisearch/...`);
`PROJECT.json` maps every definition to the lines it stands for.

## 1. The system

wellisearch is one asyncio process (FastAPI + MCP) on top of one PostgreSQL
database. Searches answer from a local index and fall back on web providers;
the URLs that a provider returns are queued and crawled in the background; a
fetch crawls on demand. A second process may work on the same database: `python
-m wellisearch.worker --once`, `reindex`, `recrawl`, `merge_dupes`.

| component | state it keeps | operations | correct when |
|---|---|---|---|
| crawl queue (`db.py`, `queue.py`) | `crawl_queue` rows: status, lane, attempts, source | enqueue, claim, release, done, route to CF, boot reset | no row is lost, claimed twice, revived or failed early |
| worker (`worker.py`) | tick lock, the tick's phase, deadline, the pause flag it read | tick = fast drain, CF drain, watchlist refresh, each with bounded runners; `run_once` | each claim is finished, routed or released, whatever is cancelled |
| in-flight dedupe (`queue.py`) | URL -> future | `crawl_deduped`: own, join, settle the joiners | one crawl per key and process; nobody waits for a crawl that is gone |
| kick and timer (`queue.py`, `worker.py`) | debounce task, interval | `kick_worker`, `run_forever` | queued work is picked up |
| on-demand fetch (`fetch.py`) | probe tasks, orphans with a grace timer | stored copy, probe, timeout, orphan, bot-wall routing, backoff | an answer in time; nothing lost when it is late |
| browser pool (`crawl/pool.py`) | contexts per profile, leases, retiring set, launch backoff, driver | acquire, release, invalidate, evict, reset, close | leases and browsers bounded, no context closed under a crawl, no leaked slot |
| processing pool (`crawl/engine.py`) | admitted jobs, waiters | admit, run in a thread, release and wake | never more jobs than threads, no lost wake-up |
| lane semaphores (`crawler.py`, `crawl/lane.py`) | slots per lane | held around the crawl in `crawl_deduped` | no deadlock, no leak |
| tier ladder (`crawl/engine.py`, `crawl/tiers/`, `crawl/botwall.py`) | attempts, best partial, the stealth permit and its worker process | next tier, escalate, reject, challenge | terminates, never reports a bot wall as content |
| gateway (`providers/`) | quota ledger, provider state and order | failover search | first usable provider serves; the quota holds |
| index store (`index.py`, `reindex.py`, `merge_dupes.py`) | pages, chunks | store, re-embed, merge | chunks match the page's content and model |
| search (`search_web.py`) | none | gates, serve local or provider, cap per domain | what it serves passed its gates |
| bulk fetch (`fetch.py`, `truncation.py`) | none | resolve all, allocate a character budget | the budget is respected and used |

How they interact: the worker and the fetch handlers call `crawl_deduped`, which
takes a lane slot, walks the tier ladder, leases a browser and a processing
slot, and stores the page; the queue table and the in-flight map are shared by
all of them. Cancellation runs the other way: a client that leaves, a tick
deadline or a shutdown cancels tasks at any `await`.

What is hard here: tasks interleave at every statement; statements commit while
their caller is being cancelled; a decision (bot wall, verdict, selection, pause
flag) is acted on after others have changed the row; a crash leaves claims
behind; a second process resets claims that are alive. `PROJECT.json` lists these
hazards at their lines, with the properties that watch them.

## 2. The modules

| module | what it is |
|---|---|
| `CrawlQueue` | the queue table and everything that moves a row: tick, drains, refresh, probes, handlers, boot, stop, crash |
| `JobQueue` | what the queue promises, without lanes, processes or retries' reasons; `CrawlQueue` implements it |
| `BrowserPool` | the warm browsers, their leases, and the browser tier that uses them |
| `ProcessingPool` | the threads that scan and extract HTML: slots, wake-ups, abandoned jobs |
| `Botwall`, `HttpDownload` | pure: when a document is a bot wall; what the download callbacks make of a redirect chain |
| `Crawl` | crawls walking their tier ladders on top of the three above; it implements `ProcessingPool` |
| `Chunker` | pure: the cut of a page into chunks |
| `PageStore` | the tables `pages` and `chunks` under crawls, deletions, re-embedding and merging |
| `LocalGate` | pure: which local rows a search is answered with |
| `Arrange` | sorted and filtered lists, defined by what stands before what: what Python's sorts and comprehensions return |
| `SearchWeb` | searches over the index and the provider gateway, with the dashboard writing order, switches and limits |
| `Truncation` | pure: the character budget of a bulk fetch and its cuts |
| `Service` | one process from boot to shutdown: database, bulk fetch, kicks, timer |
| `MC...` | instances for TLC |
| `CrawlQueueProofs` | theorems about `CrawlQueue`: for any number of processes, and for one |
| `CrawlProofs` | theorems about `ProcessingPool` and `Crawl` |
| `DocumentProofs` | theorems about `HttpDownload` and `Botwall` |
| `PageStoreProofs` | theorems about `PageStore` and `Chunker` |
| `SearchWebProofs` | theorems about `SearchWeb` and `LocalGate` |
| `ServiceProofs` | theorems about `Service` and `Truncation` |
| `BrowserPoolProofs` | theorems about `BrowserPool` |
| `SequenceLemmas` | lemmas: what an arrangement, a filter and a fold make of a list of any length |

How they compose: `Crawl` extends `ProcessingPool`, `Botwall` and `HttpDownload`;
every step of a crawl is a step of the pool or leaves it alone, which is proved
(`CrawlUsesPool`). `PageStore` extends `Chunker`, `SearchWeb` extends `LocalGate` (and with it `Arrange`), `Service`
extends `Truncation`. `CrawlQueue`, `PageStore` and `Service` see a crawl as one step with any
outcome that `Crawl` has; `Crawl` sees the lease of a browser as granted, because `BrowserPool`
says what happens until then. They are checked apart because they meet only there.

The pure modules have no state. Their inputs are enumerated in the initial states of the run that
uses them (`sample`, `query` in the MC modules): one step discards the input, and then
the concurrent part starts.

### CrawlQueue

A **task** is a worker runner or the task of a client's request; `ProcOf` gives
its process. Every SQL statement is one step, and every await between two
statements is a point where any other task may run, or this one be cancelled.

| state | in the code |
|---|---|
| `row[u]` | the newest `crawl_queue` row of `u`; the partial unique index allows one active row, and finished rows are never updated again, so older ones do not matter |
| `page[u]` | `pages.last_crawled` and `refresh_backoff_until`, as the watchlist query and the fetch see them: absent, fresh, stale, backoff |
| `fetched[u]` | history variable: crawled and stored since the row was inserted |
| `mode` | each process down, up or shutting down |
| `stranded` | history variable: the URLs whose own claim a crash or a failed statement has dropped, until a boot resets or somebody claims them |
| `paused`, `manual[p]` | `app_state.indexing_paused`, and the value the running tick read |
| `phase[p]`, `todo[p]`, `halt[p]` | inside `tick()`: which pass, the selected URLs no runner has taken, and whether the deadline or an exception ends it |
| `owner[p][u]` | `queue.INFLIGHT` of the process |
| `job[t]` | where the task is: its program counter, URL, kind, whether a failure backs off the page, and the outcome it learned |
| `late` | fetch handlers that timed out and have not yet queued their URL |

Actions follow the code: `StartTick`/`NextPhase`/`Take` are `tick` and
`_run_bounded`; `Claim` is `_claim_queue_row` (a cancelled claim is settled
first, then given back); `Start`/`Finish` are `crawl_deduped` with
`_crawl_and_store`; `SettleOk`, `SettleChallenge`, `Route`, `SettleError`, `Fail`,
`Bump` and `Release` are the statements of the `except` and `finally` branches of
the drains, the refresh and the probe; `Cancel` may hit a task at every await once
its process stops, its tick ends or its client is gone; `DbFault` is a statement
that raises, with what each caller does about it. `Boot`, `BeginStop`, `EndStop`
and `Crash` are the life of a process. The URLs are canonical (normalisation and
the garbage filter happen before the queue), and a selection takes every row that
qualifies: the order and the LIMITs of the SELECTs (50 fast rows, 4 CF rows, 25
pages) are left out, and the instances stay below them.

`kind` tells the tasks apart: `fast`, `cf` and `refresh` are the worker's passes,
`probe` a fetch with its handler waiting, `orphan` one whose handler is gone,
`direct` a manual refresh.

Its properties:

* `TypeOK` - types, and a busy task has a URL.
* `ClaimsOwned` - an `in_flight` row has a task that will still settle it, or is
  `stranded`: its own claim went with a crashed process, or with a runner whose
  statement failed, and no boot has come since. No other row is excused, and each
  boot clears the list. (That the code strands a row at all when `queue_done`
  raises in an `except` branch, `worker.py:276`, is listed under 3.)
* `DedupExact` - the in-flight map and the crawls agree in both directions, and
  every joiner waits for a crawl that exists.
* `FailedOnlyWhenSpent` - no row is given up with budget left, although the
  verdict is read in one statement and written in the next.
* `AttemptsBounded` - the budget is exceeded by at most one claim per restart.
* `OneHolder` - one task per claim (one process).
* `PausedTickIsManual` - a tick that saw the pause switch crawls manual rows only,
  also when the rows changed after it selected them.
* `ImplementsJobQueue` - refinement of `JobQueue` under the mapping
  `state = status`, `tries = attempts`, `have = fetched` (one process).
* `EventuallyFinished` - every active row ends done or failed, unless paused.

### BrowserPool

One pool of persistent contexts, one context per profile key, and the crawls that
lease them. The fast lane and the CF lane each have such a pool and share nothing,
so one instance stands for either. `pool.py` holds its lock across every await of
an operation, so an operation is one step; what may fail inside it (an eviction
that cannot close, a launch, a retirement) is a choice within the step. The
exception is `Condition.wait`, which gives the lock up: a crawl that waits there is
`parked`, and `notify_all` (`Roused`) sends it back to `get`.

| state | in the code |
|---|---|
| `pool.ctx`, `pool.lent`, `pool.retiring`, `pool.backoff` | `_contexts`, `_in_use`, `_retiring`, `_launch_failed_at` |
| `pool.driver` | `_pw`: off, on, or on with its process gone (`dead`) |
| `open` | contexts whose browser is up and reachable |
| `slots` | the permits of `_slots`, an `asyncio.Semaphore` |
| `job[t]` | where the crawl is, the key and context it leased, and what is left of the tier's one retry |

`Fetch`, `Admit`, `Park`, `Reuse`, `BackOff`, `Launch` and `LaunchFails` are
`acquire`; `Done` and `Closed` are the body of `BrowserTier._attempt`;
`Closed` is any error that `is_closed_context_error` takes for a closed context: the
browser is down, or only the page went and the context is healthy (a fault).
`Invalidate`, `ClosePage`, `CloseFails`, `Discard` and `Release` are its exception
and `finally` path; `Cancel` and `CancelLaunch` a cancellation at each await
(`complete_cleanup` lets a cleanup end first). `Crash`, `DriverDies` and
`BackoffOver` are the environment, `CloseAll` is shutdown.

Left out of the data: use and age counters (a release may find its context
expired at any time), which idle context is the least recently used, the order in
which tasks get the lock, the profile directories and the reaper. A driver that
does not start is a launch that failed late: both reset the pool.

Its properties:

* `SlotsExact` - permits are neither lost nor returned twice.
* `LeasesExact` - the use count of a key is the number of its leases, those of
  contexts dropped long ago included.
* `BrowsersBounded` - never more contexts than the pool has permits.
* `ParkedForAReason` - no lost wake-up.
* `RetirementPending` - a retiring context still has a lease that will retire it.
* `OnlyFailuresInterrupt` - recycling, eviction and the late failure of an old lease
  never close a healthy context under a crawl. One thing does, and the property says
  so (`PageLost`): when the page of one lease is closed, the pool takes its *current*
  context for closed and retires it under the other leases of the same profile.
* `FetchEnds` - every fetch ends.

### Crawl, ProcessingPool, Botwall, HttpDownload

| state | in the code |
|---|---|
| `active`, `stage`, `wakes`, `running`, `orphans` | `_active`; where each caller of `run_processing` is; futures settled by a release and not yet run; jobs in threads, with their caller or without |
| `ask`, `enabled` | the URL and lane of each crawl; what `tiers.by_name` finds |
| `free` | the semaphores of `crawler.py` |
| `pc`, `at`, `best` | where the crawl is, the index `i` into `p.tiers`, whether `best` holds a fit |
| `page`, `shown` | the `Rendered` on its way to the engine; what the browser shows meanwhile |
| `then`, `permits`, `procs` | what follows `_stop_worker`; the stealth semaphore; live worker processes |

`try_acquire`, `Ask`, `Retry`, `release`, `Finish`, `FinishOrphan`, `Return` and `Leave` are the
methods and callbacks of `_ProcessingPool`. In `Crawl`, `Enter` takes the lane's slot, `ResolveShort`
is `resolve_short_url`, `Climb`, `Deliver`, `Processed`, `ProcessTimeout` and `TopReached` the loop of
`engine.crawl`; `HttpGet` is the http tier; `Navigate`, `Verdict`, `Click`, `BudgetSpent` and `Recover` are
`BrowserTier._crawl` and its challenge loop; `Spawn`, `StealthAnswers`, `StealthBackstop` and `Stop` the
stealth tier; `TierFails` any error or backstop of a tier; `Cancel` may come at every await. A page is
its status, type, size in units, tokens and whether it is a Walmart shell; the site may
show another page at every look. Sites are one per ladder of `POLICY`. What an extractor makes of a clean
page (accept, refuse, escalate, raise) is free.

* `SlotsExact` - the slots taken are the threads that run, abandoned ones included.
* `NoLostWake` - nobody sleeps beside a free slot unless a wake-up is on its way.
* `AcceptedIsClean` - no wall and no oversized page is a success, although pages reach the engine that
  no tier has looked at (a recovered item, a challenge that outlived its budget).
* `StealthOwned` - a stealth process never outlives its permit.
* `WallsTold` - a wall is what the reader is shown, whatever scripts, samples and attributes
  contain. The documents are well formed: the reference definition reads pieces, the code characters.
* `DownloadsExact` - wherever a transfer ends, in success, by itself, or by libcurl for its size: a page is refused
  for the type and the length of its last hop and for the bytes really sent, and for what an earlier hop announced only if
  libcurl takes that for the page's (`MAXFILESIZE_LARGE`, `http.py:59`; `Endings` leaves it open, versions differ); it is
  an error, which a costlier tier may repair, only if the transfer broke off by itself; and a page that is accepted
  has its own body, whole.
* `CrawlEnds` - every crawl ends, with sites and threads that never answer.

### PageStore, Chunker

| state | in the code |
|---|---|
| `pages[u]`, `chunks[u]` | the row: version of the markdown, embedding model, version as of `last_crawled`; what its chunks were made of |
| `site` | external: the version the site serves |
| `job[w]` | a `store_page` call and the process and in-flight key it belongs to: before `page_get`, between the comparison and its UPDATE, while it embeds, before the deletion of the short URL's row |
| `phase`, `force`, `cursor`, `batch`, `failed` | `reindex._run`: `last_url` and the rows read |
| `merge`, `plan`, `draft`, `tidy` | where `merge_dupes` is; the groups it has read and not merged; the tables as its open transaction sees them; whether a merge has been committed |
| `up` | whether the service and what runs beside it are up |

`Crawl`, `Check`, `Stamp`, `Commit`, `StoreFails`, `CrawlDone` are `_crawl_and_store` and `store_page`, one
step per statement or transaction; `Delete` the dashboard; `ReindexStart` to `ReindexEnd` the tool beside
the service; `MergeRead`, `MergeGroup`, `MergeEnd` and `MergeFails` the tool that is run while it is stopped, one step per
group, in a transaction that the database may refuse (a key that is taken, a chunk without its page). Versions of one
site stand for content hashes: the text a page is cut from. The column `title` itself is not modelled. Which row
survives a merge depends on fetch counts and lengths, which are left out: any row of the group.

`Processes` is what crawls: the service, and beside it `recrawl.py` or `worker --once`. `INFLIGHT` keeps two crawls
of one key apart within a process (`InFlight`), not across processes. `Canonical` is `normalize_url` on the URLs of
the instance, and nothing is assumed of it: it is not idempotent, because an escaped `&amp;` is unescaped into a
form that is rewritten again (`urlnorm.py:56`). `crawl_deduped` therefore guards one form (`KeyOf`) and `store_page` may
store under another (`Home`), and two keys may have one home.

* `ChunksMatchPage` - chunks are made of the markdown and with the model of their row.
* `StampedContentIsFresh` - no row is stamped with a crawl newer than its content, among the URLs that are `Guarded`: one
  process crawls, and no two keys have their home there or where a merge takes rows from. `by` marks the one
  exception, rows the re-embedding has put back. Without the guard the code does not keep it (section 3).
* `ReindexReachesAll` - when the tool says it is done, no old vector is left but those it counts as failed
  and those of rows under a URL that is not canonical.
* `MergeKeepsPages` - nothing stored is lost by a merge, whatever it is interrupted by: all or nothing is committed, every
  URL's page is under the form it normalizes to, and no other form is stored again. The database refuses the
  merge only where such a form is stored itself and normalizes to another one yet.
* `ChunksSound` - `ChunksWhole` of the sampled pages: the lines that are not blank are in the chunks once and in their
  order (`AllThere`); two lines of one code block stand in one chunk (`BlocksKept`); a chunk over the budget holds a
  code block or is one long line, and the last one may hold a stub besides (`BudgetKept`); a heading stands at the top of
  its chunk, unless it is in the chunk that swallowed a stub (`HeadingsOnTop`).

### SearchWeb, LocalGate

| state | in the code |
|---|---|
| `state` | `provider_state`: enabled, limit override, position |
| `used` | `provider_quota` of the month |
| `job[s]` | a search: its position, the rows it may fall back on, the providers left, the count it read; history: the providers that did not serve it |
| `todo[w]` | names a `PUT /api/providers/order` has still to insert |
| `ceiling` | history: the highest limit of the month |

Each statement of `_provider_available`, `quota_bump` and `set_provider_order` is a step of its own, and so
is the provider's answer. A row is its URL, domain, similarity, score, the two coverage tests and
whether it is a job board; ranking itself is SQL.

* `QuotaOvershootBounded` - concurrent searches exceed the highest limit of the month by fewer calls than
  there are searches.
* `PoolStaysComplete` - between the rows of two order writes, and after one that failed, a search still
  tries every provider once.
* `LastResort` - rows below the gate, or an error when there are none, are the answer only after *every* provider of
  the pool was passed over or failed in that very search, whatever the dashboard did to the order and the switches
  meanwhile; and no provider is called again that had failed it.
* `LocalAnswersSound` - the served rows pass the gate, hold the cap per domain, are sorted by similarity, as the code
  and `docs/ranking.md` have it (`docs/search-pipeline.md` says by score, see section 3), and no better row is left out.

### Service, Truncation

| state | in the code |
|---|---|
| `stage`, `attempt`, `dbOpen` | the position in `_startup` and `_shutdown`, `startup`'s attempt, `db.pool` |
| `fetch`, `part[u]` | a `fetch_pages` call and its `_resolve_page` per URL |
| `probe[u]`, `adopted` | `_probe_tasks`, and those whose client has left |
| `kick`, `worker`, `lock` | `_kick_task`, `_worker_task`, `_tick_lock` |
| `queued` | URLs waiting in the queue table (a tick takes them; what it does: `CrawlQueue`) |

`_shutdown` is one action per await: `BeginStop` (cancel the probes), `StopKick` once they are joined,
`StopWorker`, `ClosePools`, `CloseDb`. `Restart` may interrupt everything (crash) or follow a stop.

* `DbClosedLast` - when the pool is closed nothing is left that could use it, also not what a
  cancelled probe has set off.
* `KickServed` - a queued row is read by some later tick, although kicks are swallowed by the
  debounce window and by running ticks.
* `FetchesEnd` - every bulk fetch is answered and every crawl it started ends.
* `TruncationSound` - budgets add up and hold. A head cut keeps the beginning of a page within its budget; it tears a
  word only where there is no blank in the second half of what it keeps; in a text without stray `>` it tears a tag
  only at a blank inside it, or where it would have to go back to the very beginning. That is all the code does: it
  does not keep lines or fences whole, and a stray `>` defeats its count (section 3).

## 3. The runs

| run | instance | shows |
|---|---|---|
| `CrawlQueueRequests` | app, 1 URL, 1 runner, 2 requests, 1 fault | `TypeOK`, `DedupExact`, `FailedOnlyWhenSpent`, `ImplementsJobQueue` |
| `CrawlQueueRestarts` | app, 2 URLs, 2 runners, 2 boots, 1 deadline, 1 fault | `ClaimsOwned`, `OneHolder`, `AttemptsBounded` |
| `CrawlQueueShared` | app and `worker --once`, 1 URL, a runner each, 1 request | `ClaimsOwned` across processes |
| `CrawlQueueLive` | app, 1 URL, 1 runner, 1 request, 2 boots, pause, manual and search rows | `EventuallyFinished`, `PausedTickIsManual` |
| `BrowserPoolSafety` | 3 crawls, 3 profiles, 2 permits, 4 contexts, 1 fault, 1 cancellation | all invariants of the pool, `OnlyFailuresInterrupt` |
| `BrowserPoolLive` | 3 crawls on 1 profile, 2 permits, 2 faults, 1 cancellation | `FetchEnds` |
| `Crawl` | 2 crawls, 3 pairs of URLs and lanes, 1 thread, 1 slot per lane, 1 stealth permit, 6 kinds of pages, 1 fault; documents of 3 pieces, chains of 2 hops | all of `Crawl` |
| `PageStore` | 5 URLs (a variant, a short URL, a form that normalizes to a variant), one process, 2 crawls, batches of 2, 1 failing page, 2 versions; pages of 4 lines | all of `PageStore` |
| `SearchWeb` | 2 searches, 2 providers, 2 order writers, 2 dashboard requests, 2 months; lists of 3 rows | all of `SearchWeb` |
| `Service` | 2 URLs, 1 runner, 2 boot attempts, 2 faults; 2 pages with budgets, texts of 5 characters | all of `Service` |
| `CrawlChallenge`, `FetchTail` | small instances of `Crawl` and of `Service` | a violation each, see below |

Why these bounds are enough. *Queue:* one URL is enough for the races on a row, because every statement,
guard and in-flight entry concerns one URL; two URLs add what a tick shares between rows: the selection, the
runners and the abort. Two clients make an owner, a joiner and a worker on one URL. `MaxBoots`,
`MaxEnqueues`, `MaxRequests`, `MaxDeadlines`, `MaxFaults` and `MaxPauses` cap what the environment does;
nothing the program does by itself is capped, and `MaxAttempts` is a constant of the code made small. A stop
or a crash needs a later boot (`used.boots < MaxBoots`), so that the bounded instance does not end with the
service down. `CrawlQueueShared` does not check for deadlock: `worker --once` exits and its boots are bounded, so
the instance may really stop. All other runs do.

*Browsers:* three profiles and two permits make the pool evict, and three crawls on one profile make one wait
for a permit while another is parked. `Ctxs` must exceed the contexts that can be tracked or still leased at
once (two permits: two leases of dropped contexts and two tracked ones); a launch takes the smallest free
identity. `MaxFaults` counts what breaks by itself, not what follows from it. Crawls and profiles are
interchangeable, so the safety run uses symmetry; no liveness run does.

*Crawls:* one thread, one permit and one slot make two crawls meet wherever they can; the three
pairs put them into one lane, into both, and onto the ladders with and without stealth. The pages
include each outcome the code tells apart (clean, wall with 200 and with 403, permanent error, shell,
oversized). `MaxFaults` bounds cancellations and refused jobs.

*Pages:* two versions and one re-embedding beside two overlapping crawls give every order of their
statements on one row, five URLs the groups, a refused merge and a cursor over more than one batch. Lines of 40, 240 and 900 characters
are a stub, a part of the budget of 90 tokens, and more than all of it. `Few` keeps the instance small: three
pages are stored at most; crawls that overlap work on the same page, because two on different rows share no row (the
re-embedding still runs beside both); and once the re-embedding has failed on a page, or a merge is committed, crawls come one at
a time, because failures and merges concern the rows, and not who crawls them at once. The service may stop and
start without bound. *Searches:* two of them meet at a quota of one and of two; `MaxPatches` allows two dashboard
requests in any order, `MaxUsed` only cuts the ledger off above the limit that is checked.
*Service:* one runner for two URLs makes one wait; `MaxFaults` is two so that a stop
may follow a broken tick or a crash.

**Fairness** of the queue (`FairSpec`): weak fairness of each task's next statement (the event loop runs every
ready task, and every crawl ends within its tier timeouts), of starting and advancing ticks (`run_forever` sleeps
and calls `tick`), of boot (the container restarts) and of cancelling and joining tasks during shutdown. Nothing is
assumed of cancellations, deadlines, faults, requests or the pause switch. `EventuallyFinished` therefore rests
on finitely many deadlines and faults: a row whose crawl never fits into a tick is given back for ever, and the
code has no bound against that.

Of the browser pool: weak fairness of each crawl's next operation, because every browser operation has a deadline
(`bounded_operation`); strong fairness of `Admit`, because `asyncio.Semaphore` serves its waiters first come
first served. Of `Crawl`: weak fairness of the engine's own steps and of every *deadline* (`TierFails`,
`ProcessTimeout`, `StealthBackstop`), of `Stop` (a killed process dies), strong fairness of `Enter` (the
semaphore again). No site has to answer and no thread to end. Of `Service`: the event loop, timers, the end of
ticks and of cancelled crawls, the timeouts of a fetch; strong fairness of a connection that succeeds (the database
comes up some day) and weak fairness of the restart. Not of crawls, of clients, or of the shutdown.
`SearchWeb` and `PageStore` have safety properties only.

### Where documentation and code part

Two runs expect a violation; each quotes a sentence of the repository.

* `CrawlChallenge` (`ClickUntilClear`): the challenge loop clicks "until the wall clears" (`browser.py:211`), but
  judges each page with the status of the first answer, and a status of 400 or more is a wall by itself. A
  challenge that was answered with 403 is clicked until its budget is spent, and then the *first* page is
  returned.
* `FetchTail` (`TailWithinBudget`): `boundary_cut_tail` keeps "the last n chars" (`truncation.py:41`), but returns the
  whole text when those hold no blank outside a tag.

Met while modelling, and in the models as the code has them, without a run:

* `queue_route_to_cf` "moves a fast-lane row" (`db.py:592`) but has no lane condition: a late probe takes the claim
  of the CF runner that is solving the wall, and resets its attempts.
* `attempts` is "capped at QUEUE_MAX_ATTEMPTS" (`docs/data-model.md:86`), but the boot reset keeps the lost
  attempt and the claim does not look at the budget; `AttemptsBounded` is what holds.
* "The crawler gets one request per URL per moment, and the result is consistent" (`docs/indexing.md:179-180`), but the
  in-flight map is one per process (`queue.py:59`), and `recrawl.py` and `worker --once` run beside the app (`--once` resets
  the app's claims besides). Two processes store one URL at once: one finds its content unchanged (`index.py:70`), the other
  stores what it has crawled, and the first sets `last_crawled` on that (`index.py:84`): old content may be stamped as
  fresh. Within one process two keys with one home do the same. `StampedContentIsFresh` excludes both by `Guarded`.
* A full set of passing rows is returned "in score order" (`docs/search-pipeline.md:91-92`), but the code sorts by
  similarity and takes the score for ties only (`search_web.py:330`), which is what `docs/ranking.md:209` says, and what
  `LocalAnswersSound` checks.
* A seed of a URL that a search has queued inserts nothing, so it is not "drained immediately even while paused"
  (`docs/api.md:216`).
* A crawl whose statement fails inside an `except` branch of a drain leaves its row `in_flight` until the next boot,
  although failed work is "re-enqueued (queue) or surfaced as an error (direct path) — never silently dropped"
  (`docs/indexing.md:207`); `ClaimsOwned` says which rows, and for how long.
* `is_closed_context_error` "reports that a page, context, browser, or transport closed" (`pool.py:476`), and
  `_attempt` invalidates the context for each of them: a page that crashes or is closed by its site takes the shared
  context away from the other crawls on it, which then use up their one retry.
* `_fail_launch` is "resetting the pool when its transport died" (`pool.py:275`), but does so only after a timeout, a
  cancellation or a driver that never started.
* A provider skipped for its quota is not added to `errors`, although the docstring says so (`providers/__init__.py:182`).
  While an order is being written `order_names` lists only the rows that are there. Two order writes interleave.
  `degraded` is also reported when the cap per domain shrinks a full answer.
* An oversized page is a rejection that ends a crawl, except in the stealth tier, where it arrives as an ordinary
  error. A `nytimes` escalation jumps over the browser also when stealth is switched off.
* A re-embedding batch may overwrite newer content with what it read before, and re-insert a page that was deleted
  meanwhile (`reindex.py:112`). A crawl reports `unchanged` although the row was changed or deleted after the
  comparison (`index.py:81`). A row under a URL that is not canonical is stored under the canonical one and stays
  stale.
* Cuts are "never mid-line / mid-fence" (`docs/indexing.md:199-200`), and "every cut is boundary-safe: it lands on
  whitespace (never mid-word), and if the raw cut would land inside an HTML tag, it backs up to the previous `>`"
  (`truncation.py:11-13`). But `boundary_cut_head` takes any blank in the second half for a boundary (`truncation.py:34`), in the
  middle of a line, of a code block, or inside a tag (`wwww<b c>` cut at 8 keeps `wwww<b`), and keeps the raw cut, inside a word,
  when there is none. It tells by the numbers of `<` and `>` whether it is inside a tag (`truncation.py:30`), so that a
  stray `>` hides an open tag (`w>w<w` cut at 4 keeps `w>w<`). `TruncationSound` says what is left. Markers are added
  beyond the budget.
* "Only the final response's type/length may reject an HTML download" (`http.py:157`) holds of the callbacks; libcurl
  is given `MAXFILESIZE_LARGE` besides (`http.py:59`), and may apply it to what a redirect announces.

## 4. The proofs

Eight modules hold theorems, each for every value of the constants, from the named assumptions of the module it
extends. TLC checks those assumptions in the runs.

**`CrawlQueueProofs`** (`ConstantsOK`): `TypeCorrect` (`Spec => []TypeOK`), `NoStrandedClaim` (`[]ClaimsOwned`),
`InFlightMapExact` (`[]DedupExact`). `TypeOK` is inductive. The other two are inductive relative to it, and each
proof has a lemma per action that can disturb the invariant: for `ClaimsOwned` the point is that a step which
moves a task out of the claimed program counters has taken its row out of `in_flight` (or is a fault), that a
claim puts the row in flight and its task into a claimed counter in the same step, and that no step of one task
moves another task out of a claim except the end of a crawl, which moves joiners from `join` to `settle`. For
`DedupExact` the point is that an entry is set only when there is none and cleared by its owner together with the
joiners' release. These hold with several processes on one table.

Its second part holds of one process only, because a second one resets the claims of the first
(`OneProcess`, a hypothesis of each theorem; `CrawlQueueShared` shows what is left without it): `SingleHolder`
(`[]OneHolder`), `PausedTickKeepsToSeeds` (`[]PausedTickIsManual`), `FailureIsDeserved` (`[]FailedOnlyWhenSpent`),
`BudgetGrowsByBoots` (`[]AttemptsBounded`) and `QueueImplementsJobs` (`Spec => ImplementsJobQueue`). None is inductive.
`Exclusive` says how the runners share a tick: between the passes nobody works, the URLs of the runners differ and are
off the list, and only drains claim; it needs no hypothesis. `Held` says what the row of a claim looks like until its
runner decides on it: still active, still manual in a paused tick, its content there after a good crawl, and the
verdict that was read still true of the attempts. With one process only a late probe can move such a row,
and it leaves it queued. `Booted` bounds the attempts by the boots: a row that waits has room for one
more claim. `Held` is also why each statement is an action of `JobQueue` or a stutter: a row is finished only from in
flight, as done only with its content, as failed only with its budget spent.

**`BrowserPoolProofs`** (`PoolConstants`): `PermitsExact` (`[]SlotsExact`), `LeaseCountsExact` (`[]LeasesExact`),
`PoolTypeCorrect` (`[]TypeOK`), `RetirementsEnd` (`[]RetirementPending`), `NoLostWakeUp` (`[]ParkedForAReason`),
`WarmBrowsersBounded` (`[]BrowsersBounded`), `LeasesUninterrupted` (`Spec => OnlyFailuresInterrupt`). The
two counts are proved together with the types (`Counts`): `slots <= Size` is not inductive without the count of
the permits that are out, and a release needs the lease count to know that it does not decrement zero. Each action
has an *effect* lemma that finds its account (`Accounts`): one crawl changes, the others are at most woken, and its
permit and its lease move with it; `CountStep` turns an account into the two cardinalities. `RetirementPending`
needs the lease counts: the release that takes a key's count to zero retires the context the key has *now*, also
when the lease was of an earlier one. For `ParkedForAReason` each action either notifies or keeps every
draining context draining (`Wakes`). `BrowsersBounded` is a count over keys: only a launch adds a context, and the
eviction before it leaves room for one, also when some of its closings fail. For the action property `Whole` says who
may be closed under whom: each context belongs to one key, a lease of a tracked context is a lease of that key, and a
healthy context goes only with a lease of its own key, so what closes it under a crawl is a lost page on that very
context.

**`CrawlProofs`** begins with the pool alone (`PoolAssumption`): `PoolSlots` (`PoolSpec => []SlotsExact`) and `PoolWakes`
(`PoolSpec => []NoLostWake`). They are one inductive invariant with the shapes (`PoolInv`): a release may subtract because
the thread that ends is counted, and a slot may be left free because whoever sleeps has been woken.
Then the crawls (`StealthAssumption`, `SettingsAssumption` besides): `CrawlUsesPool` is the refinement
`Spec => PoolSpec`, by cases on the actions: each is an action of the pool or leaves it alone. `CrawlSlotsExact` and
`CrawlWakes` follow from it and the pool's theorems alone. `StealthBounded` (`[]StealthOwned`) and `NoWallStored`
(`[]AcceptedIsClean`) are parts of `CrawlInv`: shapes, `CleanInv` and `StealthInv`. `AcceptedIsClean` is not inductive: a crawl
reaches `process` only with a page that passed the size check, and its page does not change
while the thread judges it, which is what `CleanInv` adds. `LanesExact` (`[]TypeOK`, with `StartsAssumption`: the
crawls start in lanes and on ladders there are) says that the slots of each lane are conserved, that no crawl climbs
past its ladder, and that `ProcessingPool` and the crawl agree on who waits. Its invariant `LaneInv` adds that a crawl in
a tier is still on a rung, without which the next index could not be bounded.

**`PageStoreProofs`** (`PageStoreAssumption`, `TablesAssumption`, `WritersAssumption`): `ChunksFollowPages`
(`[]ChunksMatchPage`), `StampsAreTrue` (`[]StampedContentIsFresh`), `MergeLosesNoPage` (`Spec => MergeKeepsPages`, an action
property), `ReindexReaches` (`[]ReindexReachesAll`), `StoreTypeCorrect` (`[]TypeOK`, with `VersionsAssumption`).
`StoreInv` adds that two crawls that store for one key belong to different processes, and that, under a URL that is
`Guarded`, a crawl which found its page unchanged still finds that content, or what the re-embedding put there, or nothing
(`UnchangedHolds`): without it the stamp of `Stamp` could not be known to be true. No theorem assumes that there is one
process or that `normalize_url` is idempotent: `Guarded`, a set that the constants determine, has both in its
definition, with several processes it is empty and `StampedContentIsFresh` says nothing. `MergeInv` is about the open transaction of
the merge, while nothing else runs (`Drafted`): a group that is still in the plan is in the draft as the table has it,
rows and chunks (`Ahead`), one that is done is one row of its group with the chunks of that row, and what is neither is
gone; so a refusal can only come from a row whose new name is held by a group still ahead, a commit finds no orphan, and
`tidy` tables hold only forms that some URL normalizes to. The action property follows.
`Reaching` says how far the re-embedding has come: every page it has still to reach is in its batch, or behind the
cursor and behind the whole batch. A page that the others store is of the new model, so nobody adds one (`NoneAges`); a
batch holds the first pages behind the cursor (`FirstFew`, `BatchIsFirst`, which need a least element of a set of
numbers), so the last page of a batch takes the cursor past no other. `Known` bounds the versions for the types.

The last part is about the chunks, for pages of any length, lines of any length and any `MaxTokens`: `ChunksAlwaysWhole`
(every page, `ChunksWhole`) and `ChunksAlwaysSound` (`MCSpec => []ChunksSound`). The scan is a run of states, one per
line, and its invariant `Going` says of the state after line i that there is a last cut c: `Rest` describes the lines after c
that are held back (their cost is what is counted, within the budget unless they hold a fence or are one line; an
open block began after c), and `CutAt` the chunks made of the lines up to c: each is a stretch of the page, in
order (`Pieces`), `Frugal`, and they hold all that has to be in them (`Covered`: solid lines, lines of one block together,
headings on top). `FlushCuts` moves the cut, `AddGoes` is one line more, `PageCut` the end of the page. The scan counts
tokens line by line, the promise is about the characters of the joined text; `SumsBounded` bounds one by the other,
rounding and line breaks included. The stub comes last: `Joined` says where its lines are in the last chunk,
`MergeLaid` and `MergeBudget` what that leaves of the promises. The proof found an earlier form of the budget promise to be
false, which the run had not: it allowed for a stub on top of the budget, but a stub may also be glued to a single line
that is over the budget by itself. `BudgetKept` has that case now, and the run a line long enough for it.

**`ServiceProofs`**: `DatabaseClosedLast` (`[]DbClosedLast`). `Orderly` follows shutdown through its awaits: what one of them
has joined is over and nothing can start it again. It needs to know that the tick lock is held by a tick that exists,
that a crawl has a fetch waiting or no client, and that no fetch is left when shutdown begins. `HeadCutClean` proves
`HeadCutSound` for texts of any length and characters (`TagsClosed`: where every `>` closes a `<`, and as many tags end as
begin, the text does not break off inside a tag), `AllocationKeepsBudget` proves `AllocationSound` for any number of pages,
lengths, fetch counts, limits and roundings: a share times the whole is at most the budget times its part (`ShareBounds`),
the parts add up to the whole whatever the strategy (`WeightsAddUp`), and `TotalRuns` adds the shares up page by
page. `TruncationAlwaysSound` (`MCSpec => []TruncationSound`) applies both
to the samples.

**`SearchWebProofs`** (`SearchConstants`): `QuotaOvershoot` (`[]QuotaOvershootBounded`), `IndexIsLastResort`
(`[]LastResort`), `PoolComplete` (`[]PoolStaysComplete`). The bound is not inductive: when the limit is raised, searches that
had been turned away count again. `AnyCeiling` states it for every limit from the ceiling up, with the searches that would
still count under that limit, and this is inductive. `LastResort` rests on `Resort`: the providers
that a search has still to ask are listed once each and are those it has not tried (`LeftAfter`), which begins with the
order being the whole pool without repetitions (`OrderLeft`). `PoolComplete` holds of
any positions that are numbers or unset (`Reorders`): the runtime order and what it misses are two arrangements of
disjoint sets that together are the pool.

Its last part is the gate (`GateConstants`): `GateAlwaysSound` proves `GateSound` for any list of rows whose URLs differ
and that is no longer than the window, any number of results asked for and any settings. It follows the code: the window
lists every row (`WindowFacts`), what passes is listed in the order of the similarities (`GatedFacts`), and the cap per domain
is followed row by row (`KeptAt`: what is kept so far are rows at growing places, and a row is dropped only behind
a full domain), so that each row left out has its reason (`CappedAnswers`). `LocalAnswers` is
`MCSpec => []LocalAnswersSound`, under the hypothesis `3 <= GateMinK + TopBySim`: the samples have up to three rows, and the
promise speaks of windows that reach them all. `GateConstants` puts the least similarity above 0, which stands for a
similarity of NULL.

**`DocumentProofs`** is about what a crawl is sent. `DownloadAlwaysExact`: a chain of any number of hops, each with any
declared type, length and chunks, is taken in as `DownloadExact` says (`MaxBytesAssumption`). Its invariant holds between two
hops: the download is alive and has counted exactly what was sent, or it is dead because more than the
limit was; `HopPassed` is a hop that goes on, `HopJudged` the last one. A transfer may also end at any callback before:
the wire is cut in two (`PartsOfWire`), a download that is dead stays as it is for the rest (`DeadStays`), so an error there
is the error of the whole, and what is kept between any two callbacks is within the limit (`SoundAlways`). `WallAlwaysTold`: what `visible_text` makes of a
document put together from any pieces is what the reader is shown, so `WallIsShown` holds of it, for any `StructuralMax`.
The two passes are followed piece by piece (`Seen`): a block leaves nothing, a tag leaves nothing whatever its quoted
attributes hold, and both end in the state they began in. `DownloadsAlwaysExact` and `WallsAlwaysTold`
(`MCSpec => []DownloadsExact`, `[]WallsTold`) say that the samples of the run are such chains and pieces.

**`SequenceLemmas`** holds what these proofs share and the library does not have. Induction over a range is `UpTo`, by a least
counterexample (the library's induction takes an operator as parameter). An arrangement lists its set, each
element once, in the order (`ArrangedFacts`), so a sort lists what was sorted (`SortLists`) and a filter what passes
(`FilterLists`). A fold is what the run of its step function ends with, over lists of any length (`FoldExists`,
`FoldRuns`, `FoldEnds`): the recursive function in the definition is shown to exist first. `FlattenBuilds` and
`EndsFlat` take a fold over a list of lists one list at a time. `PartFacts`, `SumUp` and `SumsApart` are about stretches
of a list and sums over them.

The pure promises are therefore proved twice over: for inputs of any size, and as invariants of the runs, whose samples are
shown to be such inputs. Only model-checked, because the prover has no fairness and no `ENABLED`: the liveness properties
`EventuallyFinished`, `FetchEnds`, `CrawlEnds`, `KickServed` and `FetchesEnd`. Every other property of a passing run is a theorem.
The documentation claims that fail (the properties of the violation runs) are not, of course.

## 5. Not modelled

* Site extractors (`crawl/extractors/`): HTML scraping, one site each, no state; `Crawl` knows the tiers they may ask
  for and lets them accept, refuse, escalate or raise at will.
* `mcp.py`, `tools.py`, `serialize.py`, `config.py`, `activity_log.py`, the dashboard's pages: parsing, formatting
  and values read once.
* Ranking (SQL functions, floating point), embeddings as numbers, string rewriting in `urlnorm.py` and `url_filter.py`:
  `PageStore` takes any normalisation, idempotent or not.
* Titles, fetch and crawl counters, hit counters and the logs: nothing modelled decides on them. Two things were seen in
  them: a stored title may be overwritten by a second process although `worker.py:215` says never, and
  `refresh_fail_bump` loses an update when two processes fail at once.
* Retention and memory trimming at the end of a tick, the reaper of orphaned browsers (taken to work), consent
  clicks, the loop of `recrawl.py` (its crawls are in `PageStore`, as a second process).

## 6. What could come next

The liveness properties rest on the runs alone, and so on their bounds. The safety that they build on (no
lost wake-up, no stranded claim, exact slots) is proved; what is missing is the measure that decreases, which could be
stated and proved as an action property. Extractors, the MCP tools and the ranking would need models of their own.
