---------------------------- MODULE BrowserPool ----------------------------
(***************************************************************************)
(* A pool of warm browser contexts, one per profile key (crawl/pool.py),   *)
(* and the crawls that lease them (BrowserTier.fetch and _attempt).  The   *)
(* fast lane and the CF lane each have such a pool, sharing nothing.       *)
(*                                                                         *)
(* The pool lock is held across every await of a pool operation, so each   *)
(* operation is one step; which of its parts fail is a choice inside it.   *)
(* The order in which tasks get the lock is left open.                     *)
(***************************************************************************)
EXTENDS Naturals, FiniteSets

CONSTANTS
  Crawls,       \* tasks that fetch with the browser tier
  Keys,         \* profile keys: "shared" or a host
  Ctxs,         \* identities of contexts, a set of numbers
  Size,         \* CRAWL_POOL_SIZE or CRAWL_CF_POOL_SIZE
  ProfileMax,   \* CRAWL_PROFILE_MAX
  None,         \* no context, no key
  MaxFaults,    \* bound: browser, driver, page, launch and close failures
  MaxCancels    \* bound: cancellations of a crawl

ASSUME PoolConstants ==
  /\ IsFiniteSet(Crawls) /\ IsFiniteSet(Keys)
  /\ Ctxs \subseteq Nat /\ None \notin Ctxs /\ None \notin Keys
  /\ Size \in Nat \ {0} /\ ProfileMax \in Nat \ {0}
  /\ MaxFaults \in Nat /\ MaxCancels \in Nat

VARIABLES
  pool,   \* what the lock guards: contexts, leases, retiring, backoff, driver
  open,   \* the contexts whose browser is up and reachable
  slots,  \* free permits of the pool's semaphore
  job,    \* what each crawl is doing
  used    \* how much of each bound is spent

vars == <<pool, open, slots, job, used>>

NoCtx == [k \in Keys |-> None]
State(ctx, lent, retiring, backoff, driver) ==
  [ctx |-> ctx, lent |-> lent, retiring |-> retiring, backoff |-> backoff,
   driver |-> driver]
Pool == [ctx : [Keys -> Ctxs \cup {None}], lent : [Keys -> Nat],
         retiring : SUBSET Keys, backoff : SUBSET Keys,
         driver : {"off", "on", "dead"}]

\* retry: "may" in the first attempt, "will" once that attempt met a closed
\* context, "no" in the last attempt and after any other end
Work(pc, key, ctx, retry) ==
  [pc |-> pc, key |-> key, ctx |-> ctx, retry |-> retry]
Idle   == Work("idle", None, None, "no")
Asking == {"line", "get", "parked"}                \* inside acquire
Leases == {"leased", "broken", "close", "wedged", "release"}
Job    == {Idle}
          \cup [pc : Asking, key : Keys, ctx : {None}, retry : {"may", "no"}]
          \cup [pc : Leases, key : Keys, ctx : Ctxs, retry : {"may", "will", "no"}]

Init ==
  /\ pool = State(NoCtx, [k \in Keys |-> 0], {}, {}, "off")
  /\ open = {}
  /\ slots = Size
  /\ job = [t \in Crawls |-> Idle]
  /\ used = [faults |-> 0, cancels |-> 0]

Faults(n) ==
  /\ used.faults + n <= MaxFaults
  /\ used' = [used EXCEPT !.faults = @ + n]
Cancelled ==
  /\ used.cancels < MaxCancels
  /\ used' = [used EXCEPT !.cancels = @ + 1]

---------------------------------------------------------------------------
(* What closing contexts does to the pool.                                 *)

Tracked(p)   == {k \in Keys : p.ctx[k] # None}
TrackedIn(p) == {p.ctx[k] : k \in Tracked(p)}

\* mutant: the reset forgets the leases that are still out
reset_leases(p) == State(NoCtx, [k \in Keys |-> 0], {}, {}, "off")

\* _reset_resources: every context and the driver go, the leases are counted on
Reset(p) == State(NoCtx, p.lent, {}, {}, "off")

\* the keys ks are no longer tracked
Dropped(p, ks) ==
  State([k \in Keys |-> IF k \in ks THEN None ELSE p.ctx[k]], p.lent,
        p.retiring \ ks, p.backoff, p.driver)

\* an outcome: the pool, and how many failures it took to get there
Outcome(p, n) == [pool |-> p, faults |-> n]

\* _retire and _close_context: a context that cannot be closed takes the whole
\* pool with it; nothing can be closed over a dead driver, and a browser that
\* has crashed may refuse to be closed
Closings(p, ks) ==
  IF ks = {} THEN {Outcome(p, 0)}
  ELSE {Outcome(Dropped(p, ks), 0) : d \in {"on"} \cap {p.driver}}
       \cup {Outcome(Reset(p),
               IF p.driver = "on" /\ {p.ctx[k] : k \in ks} \subseteq open
               THEN 1 ELSE 0)}

\* every browser the pool stops tracking is closed or killed with its profile
KeepOpen(p) == open \cap TrackedIn(p)

\* mutant: nobody is notified
nobody_roused == job

\* notify_all: whoever waits on the condition tries again
Roused == [t \in Crawls |->
             IF job[t].pc = "parked"
             THEN Work("get", job[t].key, None, job[t].retry) ELSE job[t]]

\* t's crawl goes on, having changed the pool as the outcome o says
Settle(o, jobs) ==
  /\ pool' = o.pool
  /\ open' = KeepOpen(o.pool)
  /\ Faults(o.faults)
  /\ job' = jobs
At(t, pc) == Work(pc, job[t].key, job[t].ctx, job[t].retry)

---------------------------------------------------------------------------
(* acquire                                                                 *)

Fetch(t, k) ==
  /\ job[t].pc = "idle"
  /\ job' = [job EXCEPT ![t] = Work("line", k, None, "may")]
  /\ UNCHANGED <<pool, open, slots, used>>

Admit(t) ==
  /\ job[t].pc = "line" /\ slots > 0
  /\ slots' = slots - 1
  /\ job' = [job EXCEPT ![t] = At(t, "get")]
  /\ UNCHANGED <<pool, open, used>>

\* a retiring context takes no further page until it is drained
Draining(k) == k \in pool.retiring /\ pool.lent[k] > 0

Park(t) ==
  /\ job[t].pc = "get" /\ Draining(job[t].key)
  /\ job' = [job EXCEPT ![t] = At(t, "parked")]
  /\ UNCHANGED <<pool, open, slots, used>>

Lend(p, k, c, driver) ==
  State([p.ctx EXCEPT ![k] = c], [p.lent EXCEPT ![k] = @ + 1], p.retiring,
        p.backoff \ {k}, driver)
Leased(t, c) == Work("leased", job[t].key, c, job[t].retry)

Reuse(t) ==
  LET k == job[t].key  c == pool.ctx[k] IN
  /\ job[t].pc = "get" /\ ~Draining(k)
  /\ c # None
  /\ pool' = State(pool.ctx, [pool.lent EXCEPT ![k] = @ + 1], pool.retiring,
                   pool.backoff, pool.driver)
  /\ job' = [job EXCEPT ![t] = Leased(t, c)]
  /\ UNCHANGED <<open, slots, used>>

\* acquire raises: the permit goes back, and the tier has failed
BackOff(t) ==
  LET k == job[t].key IN
  /\ job[t].pc = "get" /\ ~Draining(k) /\ pool.ctx[k] = None
  /\ k \in pool.backoff
  /\ slots' = slots + 1
  /\ job' = [job EXCEPT ![t] = Idle]
  /\ UNCHANGED <<pool, open, used>>

\* mutant: nothing is evicted, as when pool size bounded leases only
evict_nothing == {{}}

\* _evict_lru_if_needed: the idle contexts that go before a launch; which of
\* them is the least recently used is left open
Ceiling == IF ProfileMax < Size THEN ProfileMax ELSE Size
Evictions ==
  LET idle   == {k \in Tracked(pool) : pool.lent[k] = 0}
      excess == Cardinality(Tracked(pool)) + 1 - Ceiling IN
  IF Cardinality(Tracked(pool)) < Ceiling THEN {{}}
  ELSE IF Cardinality(idle) <= excess THEN {idle}
  ELSE {ks \in SUBSET idle : Cardinality(ks) = excess}

Launches(t) ==
  LET k == job[t].key IN
  job[t].pc = "get" /\ ~Draining(k) /\ pool.ctx[k] = None /\ k \notin pool.backoff

\* an eviction that cannot close resets the pool, and any eviction notifies
Notified(ks) == IF ks = {} THEN job ELSE Roused

Unused == Ctxs \ (TrackedIn(pool) \cup {job[t].ctx : t \in Crawls})
Fresh(c) == c \in Unused /\ \A d \in Unused : c <= d

Launch(t) ==
  /\ Launches(t)
  /\ \E ks \in Evictions, c \in Ctxs : \E o \in Closings(pool, ks) :
       /\ o.pool.driver # "dead"
       /\ Fresh(c)
       /\ pool' = Lend(o.pool, job[t].key, c, "on")
       /\ open' = KeepOpen(o.pool) \cup {c}
       /\ Faults(o.faults)
       /\ job' = [Notified(ks) EXCEPT ![t] = Leased(t, c)]
       /\ UNCHANGED slots

\* _fail_launch: a launch that times out or is cancelled, and a driver that
\* does not start, reset the pool; any other error only backs off
FailedLaunch(p, k, how) ==
  LET q == IF how = "error" THEN p ELSE Reset(p) IN
  State(q.ctx, q.lent, q.retiring, q.backoff \cup {k},
        IF how = "error" /\ p.driver = "off" THEN "on" ELSE q.driver)

\* a launch on a dead driver always fails, and at once
LaunchFails(t) ==
  /\ Launches(t)
  /\ \E ks \in Evictions, how \in {"error", "late"} :
     \E o \in Closings(pool, ks) :
       LET dead == o.pool.driver = "dead"
           p    == FailedLaunch(o.pool, job[t].key, how)
           woke == IF how = "late" THEN Roused ELSE Notified(ks) IN
       /\ dead => how = "error"
       /\ Settle(Outcome(p, IF dead THEN o.faults ELSE o.faults + 1),
                 [woke EXCEPT ![t] = Idle])
       /\ slots' = slots + 1

---------------------------------------------------------------------------
(* The page, and what happens to the context afterwards.                   *)

\* the crawl returns, or fails in a way that does not involve the browser
Done(t) ==
  /\ job[t].pc = "leased"
  /\ job' = [job EXCEPT ![t] = Work("close", job[t].key, job[t].ctx, "no")]
  /\ UNCHANGED <<pool, open, slots, used>>

\* an error says that the page, context, browser or transport is closed: the
\* browser is down, or only this page went (it crashed, its site closed it) and
\* the context is fine; is_closed_context_error does not tell the two apart
Closed(t) ==
  /\ job[t].pc = "leased"
  /\ Faults(IF job[t].ctx \in open THEN 1 ELSE 0)
  /\ job' = [job EXCEPT ![t] =
       Work("broken", job[t].key, job[t].ctx,
            IF job[t].retry = "may" THEN "will" ELSE "no")]
  /\ UNCHANGED <<pool, open, slots>>

Current(t) == pool.ctx[job[t].key] = job[t].ctx

\* mutant: a late failure of an old lease retires the replacement
InvalidateByKey(t) ==
  /\ job[t].pc = "broken"
  /\ \E o \in Closings(pool, {job[t].key} \cap Tracked(pool)) :
       Settle(o, [Roused EXCEPT ![t] = At(t, "close")])
  /\ UNCHANGED slots

\* mutant: a retirement does not notify
InvalidateQuietly(t) ==
  /\ job[t].pc = "broken"
  /\ IF Current(t)
     THEN \E o \in Closings(pool, {job[t].key}) :
            Settle(o, [job EXCEPT ![t] = At(t, "close")])
     ELSE /\ job' = [job EXCEPT ![t] = At(t, "close")]
          /\ UNCHANGED <<pool, open, used>>
  /\ UNCHANGED slots

\* only the lease of the current context may retire it
Invalidate(t) ==
  /\ job[t].pc = "broken"
  /\ IF Current(t)
     THEN \E o \in Closings(pool, {job[t].key}) :
            Settle(o, [Roused EXCEPT ![t] = At(t, "close")])
     ELSE /\ job' = [job EXCEPT ![t] = At(t, "close")]
          /\ UNCHANGED <<pool, open, used>>
  /\ UNCHANGED slots

ClosePage(t) ==
  /\ job[t].pc = "close"
  /\ job' = [job EXCEPT ![t] = At(t, "release")]
  /\ UNCHANGED <<pool, open, slots, used>>

\* mutant: a failed page close returns the permit, and so does the release
CloseFailsReleases(t) ==
  /\ job[t].pc = "close"
  /\ Faults(IF job[t].ctx \in open THEN 1 ELSE 0)
  /\ job' = [job EXCEPT ![t] = At(t, "wedged")]
  /\ slots' = slots + 1
  /\ UNCHANGED <<pool, open>>

CloseFails(t) ==
  /\ job[t].pc = "close"
  /\ Faults(IF job[t].ctx \in open THEN 1 ELSE 0)
  /\ job' = [job EXCEPT ![t] = At(t, "wedged")]
  /\ UNCHANGED <<pool, open, slots>>

\* _close_page reports whatever went wrong as a closed transport
Discard(t) ==
  /\ job[t].pc = "wedged"
  /\ IF Current(t)
     THEN Settle(Outcome(Reset(pool), 0), [Roused EXCEPT ![t] = At(t, "release")])
     ELSE /\ job' = [job EXCEPT ![t] = At(t, "release")]
          /\ UNCHANGED <<pool, open, used>>
  /\ UNCHANGED slots

---------------------------------------------------------------------------
(* release                                                                 *)

\* the lease is returned; use and age limits retire the current context
Returned(t, expired) ==
  LET k == job[t].key IN
  State(pool.ctx, [pool.lent EXCEPT ![k] = IF @ = 0 THEN 0 ELSE @ - 1],
        IF expired /\ Current(t) THEN pool.retiring \cup {k} ELSE pool.retiring,
        pool.backoff, pool.driver)

\* mutant: the last lease of an old context does nothing for its replacement
retire_current(t, p) ==
  LET k == job[t].key IN
  IF Current(t) /\ p.lent[k] = 0 /\ k \in p.retiring
  THEN Closings(p, {k}) ELSE {Outcome(p, 0)}

\* the last lease of a key retires what is retiring, also when it is a lease
\* of an earlier context; otherwise the idle pages of its context are closed
Retirements(t, p) ==
  LET k == job[t].key IN
  IF p.lent[k] > 0 THEN {Outcome(p, 0)}
  ELSE IF p.ctx[k] # None /\ k \in p.retiring THEN Closings(p, {k})
  ELSE IF ~Current(t) THEN {Outcome(p, 0)}
  ELSE {Outcome(p, 0)}
       \cup {Outcome(o.pool, IF job[t].ctx \in open THEN o.faults + 1 ELSE o.faults) :
               o \in Closings(p, {k})}

NextAttempt(t) ==
  IF job[t].retry = "will" THEN Work("line", job[t].key, None, "no") ELSE Idle

Release(t) ==
  /\ job[t].pc = "release"
  /\ \E expired \in BOOLEAN :
       LET p == Returned(t, expired) IN
       \E o \in Retirements(t, p) :
         Settle(o, [(IF p.lent[job[t].key] > 0 THEN job ELSE Roused)
                      EXCEPT ![t] = NextAttempt(t)])
  /\ slots' = slots + 1

---------------------------------------------------------------------------
(* Cancellation, failures of the environment, shutdown.                    *)

\* mutant: acquire gives its permit back for an Exception only
CancelKeepsPermit(t) ==
  /\ job[t].pc # "idle"
  /\ Cancelled
  /\ job' = [job EXCEPT ![t] =
       IF job[t].pc \in Asking THEN Idle
       ELSE Work(IF job[t].pc = "leased" THEN "close" ELSE job[t].pc,
                 job[t].key, job[t].ctx, "no")]
  /\ UNCHANGED <<pool, open, slots>>

\* in acquire the permit goes back; once a page is open complete_cleanup lets
\* the cleanup end, and there is no second attempt
Cancel(t) ==
  /\ job[t].pc # "idle"
  /\ Cancelled
  /\ job' = [job EXCEPT ![t] =
       IF job[t].pc \in Asking THEN Idle
       ELSE Work(IF job[t].pc = "leased" THEN "close" ELSE job[t].pc,
                 job[t].key, job[t].ctx, "no")]
  /\ slots' = IF job[t].pc \in {"get", "parked"} THEN slots + 1 ELSE slots
  /\ UNCHANGED <<pool, open>>

\* inside _get_or_launch: an eviction ends first and nothing is recorded; a
\* launch counts as failed, and resets the pool
CancelLaunch(t) ==
  /\ Launches(t)
  /\ Cancelled
  /\ \E ks \in Evictions, launched \in BOOLEAN :
     \E gone \in IF launched THEN {ks} ELSE SUBSET ks :
     \E o \in Closings(pool, gone) :
       /\ o.faults = 0
       /\ pool' = IF launched THEN FailedLaunch(o.pool, job[t].key, "late")
                  ELSE o.pool
       /\ open' = KeepOpen(pool')
       /\ job' = [(IF launched THEN Roused ELSE Notified(gone)) EXCEPT ![t] = Idle]
  /\ slots' = slots + 1

Crash(c) ==
  /\ c \in open
  /\ open' = open \ {c}
  /\ Faults(1)
  /\ UNCHANGED <<pool, slots, job>>

DriverDies ==
  /\ pool.driver = "on"
  /\ pool' = State(pool.ctx, pool.lent, pool.retiring, pool.backoff, "dead")
  /\ open' = {}
  /\ Faults(1)
  /\ UNCHANGED <<slots, job>>

\* CRAWL_LAUNCH_RETRY_AFTER_S has passed
BackoffOver(k) ==
  /\ k \in pool.backoff
  /\ pool' = State(pool.ctx, pool.lent, pool.retiring, pool.backoff \ {k},
                   pool.driver)
  /\ UNCHANGED <<open, slots, job, used>>

\* close_all at shutdown, when every crawl has been joined
CloseAll ==
  /\ \A t \in Crawls : job[t] = Idle
  /\ pool.driver # "off"
  /\ pool' = Reset(pool)
  /\ open' = KeepOpen(pool')
  /\ UNCHANGED <<slots, job, used>>

Get(t)  == Park(t) \/ Reuse(t) \/ BackOff(t) \/ Launch(t) \/ LaunchFails(t)
Page(t) == Done(t) \/ Closed(t)
Tidy(t) == Invalidate(t) \/ ClosePage(t) \/ CloseFails(t) \/ Discard(t) \/ Release(t)

Next ==
  \/ \E t \in Crawls :
       \/ \E k \in Keys : Fetch(t, k)
       \/ Admit(t)
       \/ Get(t)
       \/ Page(t)
       \/ Tidy(t)
       \/ Cancel(t)
       \/ CancelLaunch(t)
  \/ \E c \in Ctxs : Crash(c)
  \/ \E k \in Keys : BackoffOver(k)
  \/ DriverDies
  \/ CloseAll

Spec == Init /\ [][Next]_vars

\* the event loop runs every ready task and every operation on a browser has a
\* deadline; asyncio.Semaphore is FIFO, so nobody is overtaken for ever
Fairness ==
  \A t \in Crawls :
    /\ SF_vars(Admit(t))
    /\ WF_vars(Get(t)) /\ WF_vars(Page(t)) /\ WF_vars(Tidy(t))

FairSpec == Spec /\ Fairness

---------------------------------------------------------------------------
(* Properties.                                                             *)

\* Types, and a crawl has a context exactly while it holds a lease.
TypeOK ==
  /\ pool \in Pool
  /\ open \subseteq Ctxs
  /\ slots \in 0 .. Size
  /\ job \in [Crawls -> Job]
  /\ used \in [faults : 0 .. MaxFaults, cancels : 0 .. MaxCancels]

\* Permits are neither lost nor returned twice: acquire returns its permit on
\* every failure and cancellation, and every lease returns it exactly once.
Holders    == {t \in Crawls : job[t].pc \in Leases \cup {"get", "parked"}}
SlotsExact == slots + Cardinality(Holders) = Size

\* The use count of a key is the number of leases that are out, those of
\* contexts the pool has since dropped or reset included.
LeasesOf(k) == {t \in Crawls : job[t].pc \in Leases /\ job[t].key = k}
LeasesExact == \A k \in Keys : pool.lent[k] = Cardinality(LeasesOf(k))

\* The pool never keeps more warm browsers than its size, leased or idle
\* (docs/deployment.md, CRAWL_POOL_SIZE).
BrowsersBounded == Cardinality(Tracked(pool)) <= Size

\* No lost wake-up: whoever waits on the condition waits for a context that is
\* still being drained, whichever way the lease count or the set changed.
ParkedForAReason == \A t \in Crawls : job[t].pc = "parked" => Draining(job[t].key)

\* A context marked for retirement is there and still leased, so that its last
\* lease, perhaps one of an earlier context, will retire it.
RetirementPending ==
  \A k \in pool.retiring : pool.ctx[k] # None /\ pool.lent[k] > 0

\* Recycling, eviction and the late failure of an old lease never close a
\* healthy context under a crawl: that takes a failure or a cancelled launch in
\* this step, a tracked browser that is down, a page that could not be closed,
\* or another lease of that very context whose page was closed, which the pool
\* takes for the end of the context (_invalidate; docs/memory-incident-2026-10-15.md:
\* "drain and recycle busy contexts without interrupting active leases").
InTrouble ==
  \/ ~(TrackedIn(pool) \subseteq open)
  \/ \E t \in Crawls : job[t].pc = "wedged" /\ Current(t)
PageLost(c) ==
  \E t \in Crawls : job[t].pc = "broken" /\ Current(t) /\ job[t].ctx = c
OnlyFailuresInterrupt ==
  [][\A t \in Crawls :
       (job[t].pc = "leased" /\ job[t].ctx \in open \ open')
         => used' # used \/ InTrouble \/ PageLost(job[t].ctx)]_vars

\* Every fetch ends: it gets a permit, is not parked for ever behind a context
\* that is being drained, and its one retry ends too.
FetchEnds == \A t \in Crawls : job[t].pc # "idle" ~> job[t].pc = "idle"

=============================================================================
