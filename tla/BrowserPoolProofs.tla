------------------------- MODULE BrowserPoolProofs -------------------------
(***************************************************************************)
(* Theorems about BrowserPool, for any crawls, profiles, contexts, sizes   *)
(* and bounds.                                                             *)
(***************************************************************************)
EXTENDS BrowserPool, FiniteSetTheorems, TLAPS

(***************************************************************************)
(* TypeOK bounds the free permits by Size, which only the count of the     *)
(* permits that are out can show; Types is the rest of it.                 *)
(***************************************************************************)
Types ==
  /\ pool \in Pool
  /\ open \subseteq Ctxs
  /\ slots \in Nat
  /\ job \in [Crawls -> Job]
  /\ used \in [faults : 0 .. MaxFaults, cancels : 0 .. MaxCancels]

\* What one crawl contributes to the two counts: a permit, a lease of k.
Holds(j)     == j.pc \in Leases \cup {"get", "parked"}
HasLease(j, k) == j.pc \in Leases /\ j.key = k
Permit(j)    == IF Holds(j) THEN 1 ELSE 0
Lease(j, k)  == IF HasLease(j, k) THEN 1 ELSE 0

\* What a step does to the counts: crawl t goes from job[t] to w, others are at
\* most woken, and permits and leases move with t.
Accounts(t, w, jobs) ==
  /\ jobs \in {job, Roused}
  /\ job' = [jobs EXCEPT ![t] = w]
  /\ slots' + Permit(w) = slots + Permit(job[t])
  /\ \A k \in Keys :
       pool'.lent[k] + Lease(job[t], k) = pool.lent[k] + Lease(w, k)

---------------------------------------------------------------------------
(* Jobs and pools.                                                         *)

\* What a job's program counter says about its other fields.
LEMMA JobFacts ==
  ASSUME NEW w \in Job
  PROVE  /\ w.pc \in {"idle"} \cup Asking \cup Leases
         /\ w.pc = "idle" => w = Idle
         /\ w.pc \in Asking => w.key \in Keys /\ w.ctx = None /\ w.retry \in {"may", "no"}
         /\ w.pc \in Leases => w.key \in Keys /\ w.ctx \in Ctxs
         /\ w.retry \in {"may", "will", "no"}
BY DEF Job, Idle, Work, Asking, Leases

\* Idle is a job that holds nothing.
LEMMA IdleJob ==
  /\ Idle \in Job
  /\ Permit(Idle) = 0
  /\ \A k \in Keys : Lease(Idle, k) = 0
BY DEF Job, Idle, Work, Permit, Lease, Holds, HasLease, Leases

\* A crawl inside acquire.
LEMMA AskingJob ==
  ASSUME NEW pc \in Asking, NEW k \in Keys, NEW r \in {"may", "no"}
  PROVE  /\ Work(pc, k, None, r) \in Job
         /\ Permit(Work(pc, k, None, r)) = IF pc = "line" THEN 0 ELSE 1
         /\ \A h \in Keys : Lease(Work(pc, k, None, r), h) = 0
BY DEF Job, Work, Permit, Lease, Holds, HasLease, Leases, Asking

\* A crawl that holds a lease.
LEMMA LeasedJob ==
  ASSUME NEW pc \in Leases, NEW k \in Keys, NEW c \in Ctxs,
         NEW r \in {"may", "will", "no"}
  PROVE  /\ Work(pc, k, c, r) \in Job
         /\ Permit(Work(pc, k, c, r)) = 1
         /\ \A h \in Keys : Lease(Work(pc, k, c, r), h) = IF h = k THEN 1 ELSE 0
BY DEF Job, Work, Permit, Lease, Holds, HasLease, Leases

\* What a crawl that is not idle, asks or leases contributes.
LEMMA CountOf ==
  ASSUME NEW w \in Job
  PROVE  /\ Permit(w) \in {0, 1}
         /\ \A k \in Keys : Lease(w, k) \in {0, 1}
         /\ w.pc \in {"idle", "line"} => Permit(w) = 0
         /\ w.pc \in {"get", "parked"} => Permit(w) = 1
         /\ w.pc \notin Leases => \A k \in Keys : Lease(w, k) = 0
         /\ w.pc \in Leases => /\ Permit(w) = 1
                               /\ \A k \in Keys : Lease(w, k) = IF k = w.key THEN 1 ELSE 0
BY DEF Permit, Lease, Holds, HasLease, Leases

\* The pool built from parts of the right types is a pool.
LEMMA StateType ==
  ASSUME NEW ctx \in [Keys -> Ctxs \cup {None}], NEW lent \in [Keys -> Nat],
         NEW retiring \in SUBSET Keys, NEW backoff \in SUBSET Keys,
         NEW driver \in {"off", "on", "dead"}
  PROVE  State(ctx, lent, retiring, backoff, driver) \in Pool
BY DEF State, Pool

\* The parts of a pool, and of what State builds.
LEMMA PoolParts ==
  ASSUME NEW p \in Pool
  PROVE  /\ p.ctx \in [Keys -> Ctxs \cup {None}] /\ p.lent \in [Keys -> Nat]
         /\ p.retiring \in SUBSET Keys /\ p.backoff \in SUBSET Keys
         /\ p.driver \in {"off", "on", "dead"}
BY DEF Pool

\* A reset keeps the lease counts and drops everything else.
LEMMA ResetFacts ==
  ASSUME NEW p \in Pool
  PROVE  /\ Reset(p) \in Pool
         /\ Reset(p).lent = p.lent
         /\ Reset(p).retiring = {}
BY DEF Reset, NoCtx, State, Pool

\* Closing the contexts of some keys keeps the lease counts, leaves none of
\* these keys retiring, and keeps the context of every key that still is.
LEMMA ClosingsFacts ==
  ASSUME NEW p \in Pool, NEW ks \in SUBSET Keys, NEW o \in Closings(p, ks)
  PROVE  /\ o.pool \in Pool
         /\ o.faults \in Nat
         /\ o.pool.lent = p.lent
         /\ o.pool.retiring \subseteq p.retiring \ ks
         /\ \A k \in o.pool.retiring : o.pool.ctx[k] = p.ctx[k]
         /\ ks = {} => o.pool = p
<1>1. CASE ks = {}
  <2>1. o.pool = p /\ o.faults = 0  BY <1>1 DEF Closings, Outcome
  <2>2. QED  BY <1>1, <2>1
<1>2. CASE ks # {}
  <2>1. o.pool \in {Dropped(p, ks), Reset(p)} /\ o.faults \in {0, 1}
    BY <1>2 DEF Closings, Outcome
  <2>2. CASE o.pool = Reset(p)  BY <1>2, <2>1, <2>2, ResetFacts
  <2>3. CASE o.pool = Dropped(p, ks)
    BY <1>2, <2>1, <2>3 DEF Dropped, State, Pool
  <2>4. QED  BY <2>1, <2>2, <2>3
<1>3. QED  BY <1>1, <1>2

\* Contexts to be evicted are keys of the pool.
LEMMA EvictionKeys ==
  ASSUME NEW ks \in Evictions
  PROVE  /\ ks \in SUBSET Keys
         /\ \A k \in ks : pool.lent[k] = 0
BY DEF Evictions, Tracked

\* Waking everybody keeps the type of job and what each crawl holds.
LEMMA RousedFacts ==
  ASSUME Types
  PROVE  /\ Roused \in [Crawls -> Job]
         /\ \A x \in Crawls : /\ Roused[x].pc # "parked"
                              /\ Holds(Roused[x]) <=> Holds(job[x])
                              /\ \A k \in Keys : HasLease(Roused[x], k) <=> HasLease(job[x], k)
<1> SUFFICES ASSUME NEW x \in Crawls
             PROVE  /\ Roused[x] \in Job
                    /\ Roused[x].pc # "parked"
                    /\ Holds(Roused[x]) <=> Holds(job[x])
                    /\ \A k \in Keys : HasLease(Roused[x], k) <=> HasLease(job[x], k)
  BY DEF Roused
<1>1. job[x] \in Job  BY DEF Types
<1>2. CASE job[x].pc = "parked"
  <2>1. Roused[x] = Work("get", job[x].key, None, job[x].retry)  BY <1>2 DEF Roused
  <2>2. Roused[x] \in Job  BY <1>1, <1>2, <2>1, JobFacts, AskingJob DEF Asking
  <2>3. QED  BY <1>2, <2>1, <2>2 DEF Work, Holds, HasLease, Leases
<1>3. CASE job[x].pc # "parked"
  <2>1. Roused[x] = job[x]  BY <1>3 DEF Roused
  <2>2. QED  BY <1>1, <1>3, <2>1
<1>4. QED  BY <1>2, <1>3

\* What every step leaves of the types that the counts do not touch.
Rest == /\ pool' \in Pool
        /\ open' \subseteq Ctxs
        /\ slots' \in Nat
        /\ used' \in [faults : 0 .. MaxFaults, cancels : 0 .. MaxCancels]

\* The bounds are respected by whatever spends them.
LEMMA UsedType ==
  ASSUME Types, NEW n \in Nat, Faults(n) \/ Cancelled
  PROVE  used' \in [faults : 0 .. MaxFaults, cancels : 0 .. MaxCancels]
<1> USE PoolConstants DEF Types
<1>1. CASE Faults(n)
  <2>1. used.faults + n \in 0 .. MaxFaults  BY <1>1 DEF Faults
  <2>2. QED  BY <1>1, <2>1 DEF Faults
<1>2. CASE Cancelled
  <2>1. used.cancels + 1 \in 0 .. MaxCancels  BY <1>2 DEF Cancelled
  <2>2. QED  BY <1>2, <2>1 DEF Cancelled
<1>3. QED  BY <1>1, <1>2

\* Settling with a pool of the right type keeps the types.
LEMMA SettleType ==
  ASSUME Types, NEW o, NEW jobs, Settle(o, jobs), o.pool \in Pool, o.faults \in Nat
  PROVE  /\ pool' = o.pool /\ pool' \in Pool /\ open' \subseteq Ctxs
         /\ used' \in [faults : 0 .. MaxFaults, cancels : 0 .. MaxCancels]
         /\ job' = jobs
BY UsedType DEF Settle, KeepOpen, Types

---------------------------------------------------------------------------
(* The account of each action.                                             *)

\* Before a page is leased: asking, waiting, giving up.
LEMMA AskEffect ==
  ASSUME Types, NEW t \in Crawls,
         \/ \E k \in Keys : Fetch(t, k)
         \/ Admit(t) \/ Park(t) \/ BackOff(t)
  PROVE  Rest /\ \E w \in Job : Accounts(t, w, job)
<1> USE DEF Types
<1>0. job[t] \in Job  OBVIOUS
<1>1. ASSUME NEW k \in Keys, Fetch(t, k)
      PROVE  Rest /\ \E w \in Job : Accounts(t, w, job)
  <2> DEFINE w == Work("line", k, None, "may")
  <2>1. w \in Job /\ Permit(w) = 0 /\ \A h \in Keys : Lease(w, h) = 0
    BY AskingJob DEF Asking
  <2>2. job' = [job EXCEPT ![t] = w] /\ job[t].pc = "idle"  BY <1>1 DEF Fetch
  <2>3. Permit(job[t]) = 0 /\ \A h \in Keys : Lease(job[t], h) = 0
    BY <1>0, <2>2, CountOf DEF Leases
  <2> HIDE DEF w
  <2>4. Accounts(t, w, job)  BY <1>1, <2>1, <2>2, <2>3 DEF Fetch, Accounts
  <2>5. Rest  BY <1>1 DEF Fetch, Rest
  <2>6. QED  BY <2>1, <2>4, <2>5
<1>2. CASE Admit(t)
  <2> DEFINE w == At(t, "get")
  <2>1. job[t].pc = "line" /\ job[t].key \in Keys /\ job[t].ctx = None
        /\ job[t].retry \in {"may", "no"}
    BY <1>0, <1>2, JobFacts DEF Admit, Asking
  <2>2. w \in Job /\ Permit(w) = 1 /\ \A h \in Keys : Lease(w, h) = 0
    BY <2>1, AskingJob DEF Asking, At
  <2>3. Permit(job[t]) = 0 /\ \A h \in Keys : Lease(job[t], h) = 0
    BY <1>0, <2>1, CountOf DEF Leases
  <2>4. job' = [job EXCEPT ![t] = w]  BY <1>2 DEF Admit
  <2> HIDE DEF w
  <2>5. slots' \in Nat /\ slots' + 1 = slots  BY <1>2 DEF Admit
  <2>6. Accounts(t, w, job)
    <3>0. slots + 0 = slots  OBVIOUS
    <3>1. slots' + Permit(w) = slots + Permit(job[t])  BY <2>2, <2>3, <2>5, <3>0, Zenon
    <3>2. QED  BY <1>2, <2>2, <2>3, <2>4, <3>1 DEF Admit, Accounts
  <2>7. Rest  BY <1>2, <2>5 DEF Admit, Rest
  <2>8. QED  BY <2>2, <2>6, <2>7
<1>3. CASE Park(t)
  <2> DEFINE w == At(t, "parked")
  <2>1. job[t].pc = "get" /\ job[t].key \in Keys /\ job[t].ctx = None
        /\ job[t].retry \in {"may", "no"}
    BY <1>0, <1>3, JobFacts DEF Park, Asking
  <2>2. w \in Job /\ Permit(w) = 1 /\ \A h \in Keys : Lease(w, h) = 0
    BY <2>1, AskingJob DEF Asking, At
  <2>3. Permit(job[t]) = 1 /\ \A h \in Keys : Lease(job[t], h) = 0
    BY <1>0, <2>1, CountOf DEF Leases
  <2>4. job' = [job EXCEPT ![t] = w]  BY <1>3 DEF Park
  <2> HIDE DEF w
  <2>5. Accounts(t, w, job)  BY <1>3, <2>2, <2>3, <2>4 DEF Park, Accounts
  <2>6. Rest  BY <1>3 DEF Park, Rest
  <2>7. QED  BY <2>2, <2>5, <2>6
<1>4. CASE BackOff(t)
  <2>1. Permit(job[t]) = 1 /\ \A h \in Keys : Lease(job[t], h) = 0
    BY <1>0, <1>4, CountOf DEF Leases, BackOff
  <2>2. Accounts(t, Idle, job)  BY <1>4, <2>1, IdleJob DEF BackOff, Accounts
  <2>3. Rest  BY <1>4 DEF BackOff, Rest
  <2>4. QED  BY <2>2, <2>3, IdleJob
<1>5. QED  BY <1>1, <1>2, <1>3, <1>4

\* A lease of a context: the permit stays with the crawl.
LEMMA LeaseEffect ==
  ASSUME Types, NEW t \in Crawls, NEW c \in Ctxs, NEW jobs \in {job, Roused},
         job[t].pc = "get",
         job' = [jobs EXCEPT ![t] = Leased(t, c)],
         slots' = slots,
         pool'.lent = [pool.lent EXCEPT ![job[t].key] = @ + 1]
  PROVE  \E w \in Job : Accounts(t, w, jobs)
<1> DEFINE w == Leased(t, c)
<1>0. job[t] \in Job  BY DEF Types
<1>1. job[t].key \in Keys /\ job[t].retry \in {"may", "will", "no"}
  BY <1>0, JobFacts DEF Asking
<1>2. /\ w \in Job /\ Permit(w) = 1
      /\ \A k \in Keys : Lease(w, k) = IF k = job[t].key THEN 1 ELSE 0
  BY <1>1, LeasedJob DEF Leased, Leases
<1>3. Permit(job[t]) = 1 /\ \A k \in Keys : Lease(job[t], k) = 0
  BY <1>0, CountOf DEF Leases
<1>4. pool.lent \in [Keys -> Nat]  BY PoolParts DEF Types
<1> HIDE DEF w
<1>5. job' = [jobs EXCEPT ![t] = w]  BY DEF w
<1>6. \A k \in Keys : pool'.lent[k] + Lease(job[t], k) = pool.lent[k] + Lease(w, k)
  BY <1>1, <1>2, <1>3, <1>4
<1>7. QED  BY <1>2, <1>3, <1>5, <1>6 DEF Accounts

\* A crawl that leaves acquire gives its permit back.
LEMMA QuitEffect ==
  ASSUME Types, NEW t \in Crawls, NEW jobs \in {job, Roused},
         job[t].pc \in {"get", "parked"},
         job' = [jobs EXCEPT ![t] = Idle],
         slots' = slots + 1,
         pool'.lent = pool.lent
  PROVE  \E w \in Job : Accounts(t, w, jobs)
<1>1. Permit(job[t]) = 1 /\ \A k \in Keys : Lease(job[t], k) = 0
  BY CountOf DEF Leases, Types
<1>2. slots \in Nat  BY DEF Types
<1>3. slots' + Permit(Idle) = slots + Permit(job[t])  BY <1>1, <1>2, IdleJob
<1>4. Accounts(t, Idle, jobs)  BY <1>1, <1>3, IdleJob DEF Accounts
<1>5. QED  BY <1>4, IdleJob

\* A crawl that stays in the part of its fetch where it has the lease.
LEMMA KeepEffect ==
  ASSUME Types, NEW t \in Crawls, NEW jobs \in {job, Roused},
         NEW pc \in Leases, NEW r \in {"may", "will", "no"},
         job[t].pc \in Leases,
         job' = [jobs EXCEPT ![t] = Work(pc, job[t].key, job[t].ctx, r)],
         slots' = slots,
         pool'.lent = pool.lent
  PROVE  \E w \in Job : Accounts(t, w, jobs)
<1> DEFINE w == Work(pc, job[t].key, job[t].ctx, r)
<1>0. job[t] \in Job  BY DEF Types
<1>1. job[t].key \in Keys /\ job[t].ctx \in Ctxs  BY <1>0, JobFacts
<1>2. /\ w \in Job /\ Permit(w) = 1
      /\ \A k \in Keys : Lease(w, k) = IF k = job[t].key THEN 1 ELSE 0
  BY <1>1, LeasedJob
<1>3. /\ Permit(job[t]) = 1
      /\ \A k \in Keys : Lease(job[t], k) = IF k = job[t].key THEN 1 ELSE 0
  BY <1>0, CountOf
<1>4. job' = [jobs EXCEPT ![t] = w]  OBVIOUS
<1> HIDE DEF w
<1>5. Accounts(t, w, jobs)  BY <1>2, <1>3, <1>4 DEF Accounts
<1>6. QED  BY <1>2, <1>5

\* The end of acquire: a context that is there is lent.
LEMMA ReuseEffect ==
  ASSUME Types, NEW t \in Crawls, Reuse(t)
  PROVE  Rest /\ \E w \in Job : Accounts(t, w, job)
<1> DEFINE k == job[t].key
           c == pool.ctx[k]
<1>1. job[t] \in Job /\ job[t].pc = "get"  BY DEF Types, Reuse
<1>2. k \in Keys  BY <1>1, JobFacts DEF Asking
<1>3. /\ pool.ctx \in [Keys -> Ctxs \cup {None}] /\ pool.lent \in [Keys -> Nat]
      /\ pool.retiring \in SUBSET Keys /\ pool.backoff \in SUBSET Keys
      /\ pool.driver \in {"off", "on", "dead"}
  BY PoolParts DEF Types
<1>4. c \in Ctxs  BY <1>2, <1>3 DEF Reuse
<1>5. pool'.lent = [pool.lent EXCEPT ![k] = @ + 1]  BY DEF Reuse, State
<1>6. \E w \in Job : Accounts(t, w, job)
  <2>1. job' = [job EXCEPT ![t] = Leased(t, c)] /\ slots' = slots  BY DEF Reuse
  <2>2. QED  BY <1>1, <1>4, <1>5, <2>1, LeaseEffect
<1>7. Rest
  <2>1. [pool.lent EXCEPT ![k] = @ + 1] \in [Keys -> Nat]  BY <1>2, <1>3
  <2>2. State(pool.ctx, [pool.lent EXCEPT ![k] = @ + 1], pool.retiring,
              pool.backoff, pool.driver) \in Pool
    BY <1>3, <2>1, StateType
  <2>3. QED  BY <2>2 DEF Reuse, Rest, Types
<1>8. QED  BY <1>6, <1>7

\* The end of acquire: a context is launched and lent.
LEMMA LaunchEffect ==
  ASSUME Types, NEW t \in Crawls, Launch(t)
  PROVE  Rest /\ \E jobs : \E w \in Job : Accounts(t, w, jobs)
<1> DEFINE k == job[t].key
<1>1. job[t] \in Job /\ job[t].pc = "get"  BY DEF Types, Launch, Launches
<1>2. k \in Keys  BY <1>1, JobFacts DEF Asking
<1>3. PICK ks \in Evictions, c \in Ctxs : \E o \in Closings(pool, ks) :
        /\ pool' = Lend(o.pool, k, c, "on")
        /\ open' = KeepOpen(o.pool) \cup {c}
        /\ Faults(o.faults)
        /\ job' = [Notified(ks) EXCEPT ![t] = Leased(t, c)]
        /\ UNCHANGED slots
  BY DEF Launch
<1>4. PICK o \in Closings(pool, ks) :
        /\ pool' = Lend(o.pool, k, c, "on")
        /\ open' = KeepOpen(o.pool) \cup {c}
        /\ Faults(o.faults)
        /\ job' = [Notified(ks) EXCEPT ![t] = Leased(t, c)]
        /\ UNCHANGED slots
  BY <1>3
<1>5. ks \in SUBSET Keys  BY EvictionKeys
<1>6. o.pool \in Pool /\ o.faults \in Nat /\ o.pool.lent = pool.lent
  BY <1>5, ClosingsFacts DEF Types
<1>7. /\ o.pool.ctx \in [Keys -> Ctxs \cup {None}] /\ o.pool.lent \in [Keys -> Nat]
      /\ o.pool.retiring \in SUBSET Keys /\ o.pool.backoff \in SUBSET Keys
  BY <1>6, PoolParts
<1>8. pool'.lent = [pool.lent EXCEPT ![k] = @ + 1]
  BY <1>4, <1>6 DEF Lend, State
<1>9. Notified(ks) \in {job, Roused}  BY DEF Notified
<1>10. \E w \in Job : Accounts(t, w, Notified(ks))
  BY <1>1, <1>4, <1>8, <1>9, LeaseEffect
<1>11. Rest
  <2>1. pool' \in Pool
    <3>1. [o.pool.ctx EXCEPT ![k] = c] \in [Keys -> Ctxs \cup {None}]  BY <1>2, <1>7
    <3>2. [o.pool.lent EXCEPT ![k] = @ + 1] \in [Keys -> Nat]  BY <1>2, <1>7
    <3>3. o.pool.backoff \ {k} \in SUBSET Keys  BY <1>7
    <3>4. QED  BY <1>4, <1>7, <3>1, <3>2, <3>3, StateType DEF Lend
  <2>2. open' \subseteq Ctxs  BY <1>4 DEF KeepOpen, Types
  <2>3. used' \in [faults : 0 .. MaxFaults, cancels : 0 .. MaxCancels]
    BY <1>4, <1>6, UsedType
  <2>4. QED  BY <1>4, <2>1, <2>2, <2>3 DEF Rest, Types
<1>12. QED  BY <1>10, <1>11

\* A failed launch keeps the lease counts.
LEMMA FailedLaunchFacts ==
  ASSUME NEW p \in Pool, NEW k \in Keys, NEW how \in {"error", "late"}
  PROVE  /\ FailedLaunch(p, k, how) \in Pool
         /\ FailedLaunch(p, k, how).lent = p.lent
<1> DEFINE q == IF how = "error" THEN p ELSE Reset(p)
           driver == IF how = "error" /\ p.driver = "off" THEN "on" ELSE q.driver
<1>1. q \in Pool /\ q.lent = p.lent  BY ResetFacts
<1>2. FailedLaunch(p, k, how) = State(q.ctx, q.lent, q.retiring, q.backoff \cup {k}, driver)
  BY DEF FailedLaunch
<1> HIDE DEF q
<1>3. /\ q.ctx \in [Keys -> Ctxs \cup {None}] /\ q.lent \in [Keys -> Nat]
      /\ q.retiring \in SUBSET Keys /\ q.backoff \cup {k} \in SUBSET Keys
      /\ driver \in {"off", "on", "dead"}
  BY <1>1, PoolParts
<1> HIDE DEF driver
<1>4. FailedLaunch(p, k, how) \in Pool  BY <1>2, <1>3, StateType
<1>5. FailedLaunch(p, k, how).lent = p.lent  BY <1>1, <1>2 DEF State
<1>6. QED  BY <1>4, <1>5

\* The end of acquire: the launch fails.
LEMMA LaunchFailsEffect ==
  ASSUME Types, NEW t \in Crawls, LaunchFails(t)
  PROVE  Rest /\ \E jobs : \E w \in Job : Accounts(t, w, jobs)
<1> DEFINE k == job[t].key
<1>1. job[t] \in Job /\ job[t].pc = "get"  BY DEF Types, LaunchFails, Launches
<1>2. k \in Keys  BY <1>1, JobFacts DEF Asking
<1>3. PICK ks \in Evictions, how \in {"error", "late"} :
        \E o \in Closings(pool, ks) :
          Settle(Outcome(FailedLaunch(o.pool, k, how),
                         IF o.pool.driver = "dead" THEN o.faults ELSE o.faults + 1),
                 [(IF how = "late" THEN Roused ELSE Notified(ks)) EXCEPT ![t] = Idle])
  BY DEF LaunchFails
<1>31. PICK o \in Closings(pool, ks) :
          Settle(Outcome(FailedLaunch(o.pool, k, how),
                         IF o.pool.driver = "dead" THEN o.faults ELSE o.faults + 1),
                 [(IF how = "late" THEN Roused ELSE Notified(ks)) EXCEPT ![t] = Idle])
  BY <1>3
<1>32. slots' = slots + 1  BY DEF LaunchFails
<1> DEFINE p    == FailedLaunch(o.pool, k, how)
           woke == IF how = "late" THEN Roused ELSE Notified(ks)
           out  == Outcome(p, IF o.pool.driver = "dead" THEN o.faults ELSE o.faults + 1)
<1>4. Settle(out, [woke EXCEPT ![t] = Idle]) /\ slots' = slots + 1
  BY <1>31, <1>32
<1>5. o.pool \in Pool /\ o.faults \in Nat /\ o.pool.lent = pool.lent
  BY EvictionKeys, ClosingsFacts DEF Types
<1>6. p \in Pool /\ p.lent = pool.lent  BY <1>2, <1>5, FailedLaunchFacts
<1>7. woke \in {job, Roused}  BY DEF Notified
<1> HIDE DEF p, woke
<1>8. out.pool = p /\ out.faults \in Nat  BY <1>5 DEF Outcome
<1> HIDE DEF out
<1>9. /\ pool' = p /\ pool' \in Pool /\ open' \subseteq Ctxs
      /\ used' \in [faults : 0 .. MaxFaults, cancels : 0 .. MaxCancels]
      /\ job' = [woke EXCEPT ![t] = Idle]
  BY <1>4, <1>6, <1>8, SettleType
<1>10. \E w \in Job : Accounts(t, w, woke)
  BY <1>1, <1>4, <1>6, <1>7, <1>9, QuitEffect
<1>11. QED  BY <1>4, <1>9, <1>10 DEF Rest, Types

\* A cancellation inside an eviction or a launch.
LEMMA CancelLaunchEffect ==
  ASSUME Types, NEW t \in Crawls, CancelLaunch(t)
  PROVE  Rest /\ \E jobs : \E w \in Job : Accounts(t, w, jobs)
<1> DEFINE k == job[t].key
<1>1. job[t] \in Job /\ job[t].pc = "get"  BY DEF Types, CancelLaunch, Launches
<1>2. k \in Keys  BY <1>1, JobFacts DEF Asking
<1>3. PICK gone \in SUBSET Keys, launched \in BOOLEAN :
        \E o \in Closings(pool, gone) :
          /\ pool' = IF launched THEN FailedLaunch(o.pool, k, "late") ELSE o.pool
          /\ open' = KeepOpen(pool')
          /\ job' = [(IF launched THEN Roused ELSE Notified(gone)) EXCEPT ![t] = Idle]
  BY EvictionKeys DEF CancelLaunch
<1>4. PICK o \in Closings(pool, gone) :
          /\ pool' = IF launched THEN FailedLaunch(o.pool, k, "late") ELSE o.pool
          /\ open' = KeepOpen(pool')
          /\ job' = [(IF launched THEN Roused ELSE Notified(gone)) EXCEPT ![t] = Idle]
  BY <1>3
<1>6. o.pool \in Pool /\ o.pool.lent = pool.lent  BY ClosingsFacts DEF Types
<1>7. pool' \in Pool /\ pool'.lent = pool.lent
  BY <1>2, <1>4, <1>6, FailedLaunchFacts
<1> DEFINE woke == IF launched THEN Roused ELSE Notified(gone)
<1>8. woke \in {job, Roused} /\ job' = [woke EXCEPT ![t] = Idle]
  BY <1>4 DEF Notified
<1> HIDE DEF woke
<1>9. slots' = slots + 1 /\ Cancelled  BY DEF CancelLaunch
<1>10. \E w \in Job : Accounts(t, w, woke)
  BY <1>1, <1>7, <1>8, <1>9, QuitEffect
<1>11. Rest
  <2>1. used' \in [faults : 0 .. MaxFaults, cancels : 0 .. MaxCancels]
    BY <1>9, UsedType, 0 \in Nat
  <2>2. open' \subseteq Ctxs /\ slots' \in Nat  BY <1>4, <1>9 DEF KeepOpen, Types
  <2>3. QED  BY <1>7, <2>1, <2>2 DEF Rest
<1>12. QED  BY <1>10, <1>11

\* The page and what is done about a context that is closed.
LEMMA PageEffect ==
  ASSUME Types, NEW t \in Crawls,
         Done(t) \/ Closed(t) \/ ClosePage(t) \/ CloseFails(t)
  PROVE  Rest /\ \E w \in Job : Accounts(t, w, job)
<1>1. job[t] \in Job /\ job[t].pc \in {"leased", "close"}
  BY DEF Types, Done, Closed, ClosePage, CloseFails
<1>2. job[t].pc \in Leases /\ job[t].retry \in {"may", "will", "no"}
  BY <1>1, JobFacts DEF Leases
<1>3. /\ slots' = slots /\ pool' = pool /\ open' = open
      /\ used' = used \/ \E n \in Nat : Faults(n)
  BY DEF Done, Closed, ClosePage, CloseFails
<1>4. PICK pc \in Leases, r \in {"may", "will", "no"} :
        job' = [job EXCEPT ![t] = Work(pc, job[t].key, job[t].ctx, r)]
  <2>1. CASE Done(t)       BY <2>1 DEF Done, Leases
  <2>2. CASE Closed(t)     BY <2>2 DEF Closed, Leases
  <2>3. CASE ClosePage(t)  BY <1>2, <2>3 DEF ClosePage, At, Leases
  <2>4. CASE CloseFails(t) BY <1>2, <2>4 DEF CloseFails, At, Leases
  <2>5. QED  BY <2>1, <2>2, <2>3, <2>4
<1>5. \E w \in Job : Accounts(t, w, job)  BY <1>2, <1>3, <1>4, KeepEffect
<1>6. Rest  BY <1>3, UsedType DEF Rest, Types
<1>7. QED  BY <1>5, <1>6

\* A context that is reported closed is retired, or the pool reset, unless it
\* has been replaced.
LEMMA DiscardEffect ==
  ASSUME Types, NEW t \in Crawls, Invalidate(t) \/ Discard(t)
  PROVE  Rest /\ \E jobs : \E w \in Job : Accounts(t, w, jobs)
<1>1. job[t] \in Job /\ job[t].pc \in {"broken", "wedged"} /\ slots' = slots
  BY DEF Types, Invalidate, Discard
<1>2. /\ job[t].pc \in Leases /\ job[t].retry \in {"may", "will", "no"}
      /\ job[t].key \in Keys
  BY <1>1, JobFacts DEF Leases
<1>3. \E pc \in Leases, jobs \in {job, Roused} :
        /\ job' = [jobs EXCEPT ![t] = At(t, pc)]
        /\ pool' \in Pool /\ pool'.lent = pool.lent /\ open' \subseteq Ctxs
        /\ used' \in [faults : 0 .. MaxFaults, cancels : 0 .. MaxCancels]
  <2>1. CASE Invalidate(t) /\ Current(t)
    <3>1. PICK o \in Closings(pool, {job[t].key}) :
            Settle(o, [Roused EXCEPT ![t] = At(t, "close")])
      BY <2>1 DEF Invalidate
    <3>2. o.pool \in Pool /\ o.faults \in Nat /\ o.pool.lent = pool.lent
      BY <1>2, ClosingsFacts DEF Types
    <3>3. QED  BY <3>1, <3>2, SettleType DEF Leases
  <2>2. CASE Discard(t) /\ Current(t)
    <3>1. Settle(Outcome(Reset(pool), 0), [Roused EXCEPT ![t] = At(t, "release")])
      BY <2>2 DEF Discard
    <3>2. Outcome(Reset(pool), 0).pool = Reset(pool) /\ Outcome(Reset(pool), 0).faults \in Nat
      BY DEF Outcome
    <3>3. Reset(pool) \in Pool /\ Reset(pool).lent = pool.lent  BY ResetFacts DEF Types
    <3>4. QED  BY <3>1, <3>2, <3>3, SettleType DEF Leases
  <2>3. CASE ~Current(t)
    <3>1. /\ pool' = pool /\ open' = open /\ used' = used
          /\ job' \in {[job EXCEPT ![t] = At(t, "close")], [job EXCEPT ![t] = At(t, "release")]}
      BY <2>3 DEF Invalidate, Discard
    <3>2. QED  BY <3>1 DEF Types, Leases
  <2>4. QED  BY <2>1, <2>2, <2>3
<1>4. \E jobs : \E w \in Job : Accounts(t, w, jobs)
  BY <1>1, <1>2, <1>3, KeepEffect DEF At
<1>5. QED  BY <1>1, <1>3, <1>4 DEF Rest, Types

\* What a returned lease leaves in the pool.
LEMMA ReturnedFacts ==
  ASSUME Types, NEW t \in Crawls, job[t].pc = "release", NEW expired \in BOOLEAN
  PROVE  /\ Returned(t, expired) \in Pool
         /\ Returned(t, expired).ctx = pool.ctx
         /\ Returned(t, expired).lent =
              [pool.lent EXCEPT ![job[t].key] = IF @ = 0 THEN 0 ELSE @ - 1]
         /\ Returned(t, expired).retiring \subseteq
              pool.retiring \cup (IF Current(t) THEN {job[t].key} ELSE {})
         /\ pool.retiring \subseteq Returned(t, expired).retiring
<1> DEFINE k == job[t].key
           lent == [pool.lent EXCEPT ![k] = IF @ = 0 THEN 0 ELSE @ - 1]
           retiring == IF expired /\ Current(t) THEN pool.retiring \cup {k} ELSE pool.retiring
<1>1. k \in Keys  BY JobFacts DEF Types, Leases
<1>2. /\ pool.ctx \in [Keys -> Ctxs \cup {None}] /\ pool.lent \in [Keys -> Nat]
      /\ pool.retiring \in SUBSET Keys /\ pool.backoff \in SUBSET Keys
      /\ pool.driver \in {"off", "on", "dead"}
  BY PoolParts DEF Types
<1>3. lent \in [Keys -> Nat]  BY <1>1, <1>2
<1>4. retiring \in SUBSET Keys  BY <1>1, <1>2
<1>5. Returned(t, expired) = State(pool.ctx, lent, retiring, pool.backoff, pool.driver)
  BY DEF Returned
<1>6. /\ pool.retiring \subseteq retiring
      /\ retiring \subseteq pool.retiring \cup (IF Current(t) THEN {k} ELSE {})
  OBVIOUS
<1> HIDE DEF lent, retiring
<1>7. Returned(t, expired) \in Pool  BY <1>2, <1>3, <1>4, <1>5, StateType
<1>8. /\ Returned(t, expired).ctx = pool.ctx
      /\ Returned(t, expired).lent = lent
      /\ Returned(t, expired).retiring = retiring
  BY <1>5 DEF State
<1>9. QED  BY <1>6, <1>7, <1>8 DEF lent

\* What a release may do to the pool it leaves: nothing, or close one context.
LEMMA RetirementsFacts ==
  ASSUME Types, NEW t \in Crawls, job[t].pc = "release", NEW p \in Pool,
         NEW o \in Retirements(t, p)
  PROVE  /\ o.pool \in Pool /\ o.faults \in Nat
         /\ o.pool.lent = p.lent
         /\ o.pool.retiring \subseteq p.retiring
         /\ \A k \in o.pool.retiring : o.pool.ctx[k] = p.ctx[k]
         /\ p.lent[job[t].key] > 0 => o.pool = p
         /\ (p.lent[job[t].key] = 0 /\ p.ctx[job[t].key] # None)
              => job[t].key \notin o.pool.retiring
<1> DEFINE k == job[t].key
<1>1. k \in Keys  BY JobFacts DEF Types, Leases
<1>2. p.lent[k] \in Nat  BY <1>1, PoolParts
<1>3. CASE o = Outcome(p, 0) /\ (p.lent[k] > 0 \/ ~(p.ctx[k] # None /\ k \in p.retiring))
  <2>1. o.pool = p /\ o.faults = 0  BY <1>3 DEF Outcome
  <2>2. QED  BY <1>2, <1>3, <2>1
<1>4. CASE \E q \in Closings(p, {k}) : o.pool = q.pool /\ o.faults \in {q.faults, q.faults + 1}
           /\ ~(p.lent[k] > 0)
  <2>1. PICK q \in Closings(p, {k}) : o.pool = q.pool /\ o.faults \in {q.faults, q.faults + 1}
    BY <1>4
  <2>2. /\ q.pool \in Pool /\ q.faults \in Nat /\ q.pool.lent = p.lent
        /\ q.pool.retiring \subseteq p.retiring \ {k}
        /\ \A h \in q.pool.retiring : q.pool.ctx[h] = p.ctx[h]
    BY <1>1, ClosingsFacts
  <2>3. QED  BY <1>4, <2>1, <2>2
<1>5. \/ o = Outcome(p, 0) /\ (p.lent[k] > 0 \/ ~(p.ctx[k] # None /\ k \in p.retiring))
      \/ \E q \in Closings(p, {k}) : o.pool = q.pool /\ o.faults \in {q.faults, q.faults + 1}
           /\ ~(p.lent[k] > 0)
  <2>1. CASE p.lent[k] > 0  BY <2>1 DEF Retirements
  <2>2. CASE ~(p.lent[k] > 0) /\ p.ctx[k] # None /\ k \in p.retiring
    BY <2>2 DEF Retirements
  <2>3. CASE ~(p.lent[k] > 0) /\ ~(p.ctx[k] # None /\ k \in p.retiring)
    <3>1. \/ o = Outcome(p, 0)
          \/ \E q \in Closings(p, {k}) :
               o = Outcome(q.pool, IF job[t].ctx \in open THEN q.faults + 1 ELSE q.faults)
      BY <2>3 DEF Retirements
    <3>2. ASSUME NEW q \in Closings(p, {k}),
                 o = Outcome(q.pool, IF job[t].ctx \in open THEN q.faults + 1 ELSE q.faults)
          PROVE  o.pool = q.pool /\ o.faults \in {q.faults, q.faults + 1}
      BY <3>2 DEF Outcome
    <3>3. QED  BY <2>3, <3>1, <3>2
  <2>4. QED  BY <2>1, <2>2, <2>3
<1>6. QED  BY <1>3, <1>4, <1>5

\* A crawl that has its lease is counted.
LEMMA Counted ==
  ASSUME Types, LeasesExact, NEW t \in Crawls, job[t].pc \in Leases
  PROVE  job[t].key \in Keys /\ pool.lent[job[t].key] \in Nat \ {0}
<1> DEFINE k == job[t].key
<1>1. k \in Keys  BY JobFacts DEF Types
<1>2. t \in LeasesOf(k)  BY DEF LeasesOf
<1>3. IsFiniteSet(LeasesOf(k))
  BY FS_Subset, PoolConstants, LeasesOf(k) \in SUBSET Crawls DEF LeasesOf
<1>4. Cardinality(LeasesOf(k)) \in Nat /\ Cardinality(LeasesOf(k)) # 0
  BY <1>2, <1>3, FS_CardinalityType, FS_EmptySet
<1>5. QED  BY <1>1, <1>4 DEF LeasesExact

\* The end of a fetch or of its first attempt.
LEMMA ReleaseEffect ==
  ASSUME Types, LeasesExact, NEW t \in Crawls, Release(t)
  PROVE  Rest /\ \E jobs : \E w \in Job : Accounts(t, w, jobs)
<1> DEFINE k == job[t].key
           w == NextAttempt(t)
<1>1. job[t] \in Job /\ job[t].pc = "release"  BY DEF Types, Release
<1>2. k \in Keys /\ pool.lent[k] \in Nat \ {0}  BY <1>1, Counted DEF Leases
<1>3. PICK expired \in BOOLEAN, jobs \in {job, Roused} :
        \E o \in Retirements(t, Returned(t, expired)) :
          Settle(o, [jobs EXCEPT ![t] = w])
  BY DEF Release
<1> DEFINE p == Returned(t, expired)
<1>4. PICK o \in Retirements(t, p) : Settle(o, [jobs EXCEPT ![t] = w])  BY <1>3
<1>5. p \in Pool /\ p.lent = [pool.lent EXCEPT ![k] = IF @ = 0 THEN 0 ELSE @ - 1]
  BY <1>1, ReturnedFacts
<1> HIDE DEF p
<1>6. o.pool \in Pool /\ o.faults \in Nat /\ o.pool.lent = p.lent
  BY <1>1, <1>5, RetirementsFacts
<1>7. /\ pool' = o.pool /\ pool' \in Pool /\ open' \subseteq Ctxs
      /\ used' \in [faults : 0 .. MaxFaults, cancels : 0 .. MaxCancels]
      /\ job' = [jobs EXCEPT ![t] = w]
  BY <1>4, <1>6, SettleType
<1>8. /\ w \in Job /\ Permit(w) = 0
      /\ \A h \in Keys : Lease(w, h) = 0
  BY <1>2, AskingJob, IdleJob DEF NextAttempt, Asking
<1>9. /\ Permit(job[t]) = 1
      /\ \A h \in Keys : Lease(job[t], h) = IF h = k THEN 1 ELSE 0
  BY <1>1, CountOf DEF Leases
<1>10. slots \in Nat /\ slots' = slots + 1  BY DEF Types, Release
<1> HIDE DEF w
<1>11. slots' + Permit(w) = slots + Permit(job[t])  BY <1>8, <1>9, <1>10
<1>12. \A h \in Keys : pool'.lent[h] + Lease(job[t], h) = pool.lent[h] + Lease(w, h)
  <2>1. pool.lent \in [Keys -> Nat]  BY PoolParts DEF Types
  <2>2. pool'.lent = [pool.lent EXCEPT ![k] = @ - 1]  BY <1>2, <1>5, <1>6, <1>7, <2>1
  <2>3. QED  BY <1>2, <1>8, <1>9, <2>1, <2>2
<1>13. Accounts(t, w, jobs)  BY <1>7, <1>11, <1>12 DEF Accounts
<1>14. QED  BY <1>7, <1>8, <1>10, <1>13 DEF Rest

\* A cancellation that reaches a crawl.
LEMMA CancelEffect ==
  ASSUME Types, NEW t \in Crawls, Cancel(t)
  PROVE  Rest /\ \E w \in Job : Accounts(t, w, job)
<1>1. job[t] \in Job /\ job[t].pc # "idle" /\ Cancelled  BY DEF Types, Cancel
<1>2. Rest
  <2>1. used' \in [faults : 0 .. MaxFaults, cancels : 0 .. MaxCancels]
    BY <1>1, UsedType, 0 \in Nat
  <2>2. slots' \in Nat  BY DEF Cancel, Types
  <2>3. QED  BY <2>1, <2>2 DEF Cancel, Rest, Types
<1>3. CASE job[t].pc \in {"get", "parked"}
  <2>1. /\ job' = [job EXCEPT ![t] = Idle] /\ slots' = slots + 1
        /\ pool'.lent = pool.lent
    BY <1>3 DEF Cancel, Asking
  <2>2. QED  BY <1>2, <1>3, <2>1, QuitEffect
<1>4. CASE job[t].pc = "line"
  <2>1. job' = [job EXCEPT ![t] = Idle] /\ slots' = slots /\ pool' = pool
    BY <1>4 DEF Cancel, Asking
  <2>2. Permit(job[t]) = 0 /\ \A k \in Keys : Lease(job[t], k) = 0
    BY <1>1, <1>4, CountOf DEF Leases
  <2>3. Accounts(t, Idle, job)  BY <2>1, <2>2, IdleJob DEF Accounts
  <2>4. QED  BY <1>2, <2>3, IdleJob
<1>5. CASE job[t].pc \in Leases
  <2> DEFINE pc == IF job[t].pc = "leased" THEN "close" ELSE job[t].pc
  <2>1. pc \in Leases  BY <1>5 DEF Leases
  <2>2. /\ job' = [job EXCEPT ![t] = Work(pc, job[t].key, job[t].ctx, "no")]
        /\ slots' = slots /\ pool'.lent = pool.lent
    BY <1>5 DEF Cancel, Asking, Leases
  <2> HIDE DEF pc
  <2>3. QED  BY <1>2, <1>5, <2>1, <2>2, KeepEffect
<1>6. QED  BY <1>1, <1>3, <1>4, <1>5, JobFacts DEF Asking

\* Crashes, the passage of time and shutdown leave the counts alone.
LEMMA OutsideEffect ==
  ASSUME Types,
         \/ \E c \in Ctxs : Crash(c)
         \/ \E k \in Keys : BackoffOver(k)
         \/ DriverDies \/ CloseAll
  PROVE  /\ Rest /\ job' = job /\ slots' = slots
         /\ pool'.lent = pool.lent
<1> USE DEF Rest, Types
<1>1. ASSUME NEW c \in Ctxs, Crash(c)
      PROVE  Rest /\ job' = job /\ slots' = slots /\ pool'.lent = pool.lent
  <2>1. used' \in [faults : 0 .. MaxFaults, cancels : 0 .. MaxCancels]
    BY <1>1, UsedType, 1 \in Nat DEF Crash
  <2>2. QED  BY <1>1, <2>1 DEF Crash
<1>2. ASSUME NEW k \in Keys, BackoffOver(k)
      PROVE  Rest /\ job' = job /\ slots' = slots /\ pool'.lent = pool.lent
  <2>1. pool' \in Pool  BY <1>2 DEF BackoffOver, State, Pool
  <2>2. pool'.lent = pool.lent  BY <1>2 DEF BackoffOver, State
  <2>3. QED  BY <1>2, <2>1, <2>2 DEF BackoffOver
<1>3. CASE DriverDies
  <2>1. pool' \in Pool  BY <1>3 DEF DriverDies, State, Pool
  <2>2. pool'.lent = pool.lent  BY <1>3 DEF DriverDies, State
  <2>3. used' \in [faults : 0 .. MaxFaults, cancels : 0 .. MaxCancels]
    BY <1>3, UsedType, 1 \in Nat DEF DriverDies
  <2>4. QED  BY <1>3, <2>1, <2>2, <2>3 DEF DriverDies
<1>4. CASE CloseAll
  <2>1. pool' \in Pool /\ pool'.lent = pool.lent  BY <1>4, ResetFacts DEF CloseAll
  <2>2. QED  BY <1>4, <2>1 DEF CloseAll, KeepOpen
<1>5. QED  BY <1>1, <1>2, <1>3, <1>4

---------------------------------------------------------------------------
(* The counts.                                                             *)

\* A set that gains or loses at most t changes its cardinality accordingly.
LEMMA CardinalityStep ==
  ASSUME NEW S, IsFiniteSet(S), NEW t, NEW T, NEW in \in BOOLEAN,
         T = IF in THEN S \cup {t} ELSE S \ {t}
  PROVE  /\ Cardinality(S) \in Nat /\ Cardinality(T) \in Nat
         /\ Cardinality(T) + (IF t \in S THEN 1 ELSE 0)
              = Cardinality(S) + (IF in THEN 1 ELSE 0)
<1>1. Cardinality(S) \in Nat  BY FS_CardinalityType
<1>2. CASE in
  <2>1. T = S \cup {t}  BY <1>2
  <2>2. IsFiniteSet(T) /\ Cardinality(T) = IF t \in S THEN Cardinality(S) ELSE Cardinality(S) + 1
    BY <2>1, FS_AddElement
  <2>3. Cardinality(T) \in Nat  BY <2>2, FS_CardinalityType
  <2>4. QED  BY <1>1, <1>2, <2>2, <2>3
<1>3. CASE ~in
  <2>1. T = S \ {t}  BY <1>3
  <2>2. IsFiniteSet(T) /\ Cardinality(T) = IF t \in S THEN Cardinality(S) - 1 ELSE Cardinality(S)
    BY <2>1, FS_RemoveElement
  <2>3. Cardinality(T) \in Nat  BY <2>2, FS_CardinalityType
  <2>4. QED  BY <1>1, <1>3, <2>2, <2>3
<1>4. QED  BY <1>2, <1>3

\* An accounted step keeps both counts.
LEMMA CountStep ==
  ASSUME Types, SlotsExact, LeasesExact, NEW t \in Crawls, NEW jobs, NEW w \in Job,
         Accounts(t, w, jobs), Rest
  PROVE  /\ job' \in [Crawls -> Job]
         /\ SlotsExact' /\ LeasesExact'
<1>1. jobs \in [Crawls -> Job]  BY RousedFacts DEF Accounts, Types
<1>2. job' \in [Crawls -> Job] /\ job'[t] = w
      /\ \A x \in Crawls : x # t => job'[x] = jobs[x]
  BY <1>1 DEF Accounts
<1>3. \A x \in Crawls : /\ Holds(jobs[x]) <=> Holds(job[x])
                        /\ \A k \in Keys : HasLease(jobs[x], k) <=> HasLease(job[x], k)
  BY RousedFacts DEF Accounts
<1>4. SlotsExact'
  <2> DEFINE S == {x \in Crawls : Holds(job[x])}
             T == {x \in Crawls : Holds(job'[x])}
  <2>1. S = Holders /\ T = Holders'  BY DEF Holders, Holds
  <2>2. T = IF Holds(w) THEN S \cup {t} ELSE S \ {t}  BY <1>2, <1>3
  <2>3. IsFiniteSet(S)  BY FS_Subset, PoolConstants
  <2>4. Holds(w) \in BOOLEAN  BY DEF Holds
  <2>5. t \in S <=> Holds(job[t])  OBVIOUS
  <2> HIDE DEF S, T
  <2>6. /\ Cardinality(S) \in Nat /\ Cardinality(T) \in Nat
        /\ Cardinality(T) + (IF t \in S THEN 1 ELSE 0)
             = Cardinality(S) + (IF Holds(w) THEN 1 ELSE 0)
    BY <2>2, <2>3, <2>4, CardinalityStep
  <2>7. Cardinality(T) + Permit(job[t]) = Cardinality(S) + Permit(w)
    BY <2>5, <2>6 DEF Permit
  <2>8. slots' + Permit(w) = slots + Permit(job[t])  BY DEF Accounts
  <2>9. slots + Cardinality(S) = Size /\ slots \in Nat /\ slots' \in Nat /\ Size \in Nat
    BY <2>1, PoolConstants DEF SlotsExact, Types, Rest
  <2>10. Permit(w) \in {0, 1} /\ Permit(job[t]) \in {0, 1}  BY DEF Permit
  <2>11. slots' + Cardinality(T) = Size  BY <2>6, <2>7, <2>8, <2>9, <2>10
  <2>12. QED  BY <2>1, <2>11 DEF SlotsExact
<1>5. LeasesExact'
  <2> SUFFICES ASSUME NEW k \in Keys PROVE pool'.lent[k] = Cardinality(LeasesOf(k)')
    BY DEF LeasesExact
  <2> DEFINE S == {x \in Crawls : HasLease(job[x], k)}
             T == {x \in Crawls : HasLease(job'[x], k)}
  <2>1. S = LeasesOf(k) /\ T = LeasesOf(k)'  BY DEF LeasesOf, HasLease
  <2>2. T = IF HasLease(w, k) THEN S \cup {t} ELSE S \ {t}  BY <1>2, <1>3
  <2>3. IsFiniteSet(S)  BY FS_Subset, PoolConstants
  <2>4. HasLease(w, k) \in BOOLEAN  BY DEF HasLease
  <2>5. t \in S <=> HasLease(job[t], k)  OBVIOUS
  <2> HIDE DEF S, T
  <2>6. /\ Cardinality(S) \in Nat /\ Cardinality(T) \in Nat
        /\ Cardinality(T) + (IF t \in S THEN 1 ELSE 0)
             = Cardinality(S) + (IF HasLease(w, k) THEN 1 ELSE 0)
    BY <2>2, <2>3, <2>4, CardinalityStep
  <2>7. Cardinality(T) + Lease(job[t], k) = Cardinality(S) + Lease(w, k)
    BY <2>5, <2>6 DEF Lease
  <2>8. pool'.lent[k] + Lease(job[t], k) = pool.lent[k] + Lease(w, k)  BY DEF Accounts
  <2>9. pool.lent[k] = Cardinality(S)  BY <2>1 DEF LeasesExact
  <2>10. pool'.lent[k] \in Nat  BY PoolParts DEF Rest
  <2>11. Lease(w, k) \in {0, 1} /\ Lease(job[t], k) \in {0, 1}  BY DEF Lease
  <2>12. pool'.lent[k] = Cardinality(T)  BY <2>6, <2>7, <2>8, <2>9, <2>10, <2>11
  <2>13. QED  BY <2>1, <2>12
<1>6. QED  BY <1>2, <1>4, <1>5

\* The counts, with the types they need, are inductive.
Counts == Types /\ SlotsExact /\ LeasesExact

\* The counts are exact at first.
LEMMA CountsInit == Init => Counts
<1> SUFFICES ASSUME Init PROVE Counts  OBVIOUS
<1> USE PoolConstants
<1>1. pool.lent = [k \in Keys |-> 0] /\ pool \in Pool
  BY DEF Init, NoCtx, State, Pool
<1>2. Types  BY <1>1, IdleJob DEF Init, Types
<1>3. Holders = {} /\ \A k \in Keys : LeasesOf(k) = {}
  BY DEF Init, Holders, LeasesOf, Idle, Work, Leases
<1>4. SlotsExact  BY <1>3, FS_EmptySet DEF Init, SlotsExact
<1>5. LeasesExact  BY <1>1, <1>3, FS_EmptySet DEF LeasesExact
<1>6. QED  BY <1>2, <1>4, <1>5 DEF Counts

\* Every step keeps the types and the two counts.
LEMMA CountsStep == Counts /\ [Next]_vars => Counts'
<1> SUFFICES ASSUME Counts, [Next]_vars PROVE Counts'  OBVIOUS
<1> USE DEF Counts
<1>1. ASSUME NEW t \in Crawls, Rest /\ \E jobs : \E w \in Job : Accounts(t, w, jobs)
      PROVE  Counts'
  <2>1. /\ job' \in [Crawls -> Job] /\ SlotsExact' /\ LeasesExact'
    BY <1>1, CountStep
  <2>2. QED  BY <1>1, <2>1 DEF Rest, Types
<1>2. ASSUME NEW t \in Crawls,
             \/ \E k \in Keys : Fetch(t, k)
             \/ Admit(t) \/ Get(t) \/ Page(t) \/ Tidy(t) \/ Cancel(t) \/ CancelLaunch(t)
      PROVE  Counts'
  <2>1. Rest /\ \E jobs : \E w \in Job : Accounts(t, w, jobs)
    <3>1. CASE (\E k \in Keys : Fetch(t, k)) \/ Admit(t) \/ Park(t) \/ BackOff(t)
      BY <3>1, AskEffect
    <3>2. CASE Reuse(t)         BY <3>2, ReuseEffect
    <3>3. CASE Launch(t)        BY <3>3, LaunchEffect
    <3>4. CASE LaunchFails(t)   BY <3>4, LaunchFailsEffect
    <3>5. CASE CancelLaunch(t)  BY <3>5, CancelLaunchEffect
    <3>6. CASE Done(t) \/ Closed(t) \/ ClosePage(t) \/ CloseFails(t)
      BY <3>6, PageEffect
    <3>7. CASE Invalidate(t) \/ Discard(t)  BY <3>7, DiscardEffect
    <3>8. CASE Release(t)       BY <3>8, ReleaseEffect
    <3>9. CASE Cancel(t)        BY <3>9, CancelEffect
    <3>10. QED
      BY <1>2, <3>1, <3>2, <3>3, <3>4, <3>5, <3>6, <3>7, <3>8, <3>9 DEF Get, Page, Tidy
  <2>2. QED  BY <1>1, <2>1
<1>3. CASE \/ \E c \in Ctxs : Crash(c)
           \/ \E k \in Keys : BackoffOver(k)
           \/ DriverDies \/ CloseAll
  <2>1. Rest /\ job' = job /\ slots' = slots /\ pool'.lent = pool.lent
    BY <1>3, OutsideEffect
  <2>2. SlotsExact'  BY <2>1 DEF SlotsExact, Holders
  <2>3. LeasesExact'  BY <2>1 DEF LeasesExact, LeasesOf
  <2>4. QED  BY <2>1, <2>2, <2>3 DEF Rest, Types
<1>4. CASE UNCHANGED vars
  BY <1>4 DEF vars, Types, SlotsExact, Holders, LeasesExact, LeasesOf
<1>5. QED  BY <1>2, <1>3, <1>4 DEF Next

\* Permits are neither lost nor returned twice, whatever fails and whoever is
\* cancelled: the free ones and the ones that are out always make Size.
THEOREM PermitsExact == Spec => []SlotsExact
<1>1. Counts => SlotsExact  BY DEF Counts
<1>2. QED  BY CountsInit, CountsStep, <1>1, PTL DEF Spec

\* The use count of every profile is the number of leases that are out, across
\* retirements, evictions and resets.
THEOREM LeaseCountsExact == Spec => []LeasesExact
<1>1. Counts => LeasesExact  BY DEF Counts
<1>2. QED  BY CountsInit, CountsStep, <1>1, PTL DEF Spec

\* Every reachable state is well typed; the free permits stay within Size
\* because the permits are counted exactly.
THEOREM PoolTypeCorrect == Spec => []TypeOK
<1>1. ASSUME Counts PROVE TypeOK
  <2>1. IsFiniteSet(Holders)
    BY FS_Subset, PoolConstants, Holders \in SUBSET Crawls DEF Holders
  <2>2. Cardinality(Holders) \in Nat  BY <2>1, FS_CardinalityType
  <2>3. slots \in 0 .. Size
    BY <1>1, <2>2, PoolConstants DEF Counts, SlotsExact, Types
  <2>4. QED  BY <1>1, <2>3 DEF Counts, Types, TypeOK
<1>2. Counts => TypeOK  BY <1>1
<1>3. QED  BY CountsInit, CountsStep, <1>2, PTL DEF Spec

---------------------------------------------------------------------------
(* Retirement and the waiters.                                             *)

\* Two steps that cannot break RetirementPending: the retiring keys that are
\* left keep their context, and none of them loses its last lease.
LEMMA PendingKept ==
  ASSUME Types, RetirementPending,
         \A k \in pool'.retiring : /\ k \in pool.retiring
                                   /\ pool'.ctx[k] # None
                                   /\ pool'.lent[k] >= pool.lent[k]
                                   /\ pool'.lent[k] \in Nat
  PROVE  RetirementPending'
<1>1. pool.lent \in [Keys -> Nat] /\ pool.retiring \in SUBSET Keys
  BY PoolParts DEF Types
<1>2. QED  BY <1>1 DEF RetirementPending

\* The parts of acquire that touch the pool keep RetirementPending.
LEMMA AcquirePending ==
  ASSUME Types, RetirementPending, NEW t \in Crawls,
         Reuse(t) \/ Launch(t) \/ LaunchFails(t) \/ CancelLaunch(t)
  PROVE  RetirementPending'
<1> DEFINE k == job[t].key
<1>1. job[t] \in Job /\ job[t].pc = "get"
  BY DEF Types, Reuse, Launch, LaunchFails, CancelLaunch, Launches
<1>2. k \in Keys  BY <1>1, JobFacts DEF Asking
<1>3. /\ pool.ctx \in [Keys -> Ctxs \cup {None}] /\ pool.lent \in [Keys -> Nat]
      /\ pool.retiring \in SUBSET Keys
  BY PoolParts DEF Types
<1>4. CASE Reuse(t)
  <2>1. pool'.ctx = pool.ctx /\ pool'.retiring = pool.retiring
        /\ pool'.lent = [pool.lent EXCEPT ![k] = @ + 1]
    BY <1>4 DEF Reuse, State
  <2>2. QED  BY <1>2, <1>3, <2>1 DEF RetirementPending
<1>5. CASE Launch(t)
  <2>1. PICK ks \in Evictions, c \in Ctxs : \E o \in Closings(pool, ks) :
          pool' = Lend(o.pool, k, c, "on")
    BY <1>5 DEF Launch
  <2>2. PICK o \in Closings(pool, ks) : pool' = Lend(o.pool, k, c, "on")
    BY <2>1
  <2>3. /\ o.pool \in Pool /\ o.pool.lent = pool.lent
        /\ o.pool.retiring \subseteq pool.retiring
        /\ \A h \in o.pool.retiring : o.pool.ctx[h] = pool.ctx[h]
    BY EvictionKeys, ClosingsFacts DEF Types
  <2>4. /\ pool'.ctx = [o.pool.ctx EXCEPT ![k] = c]
        /\ pool'.lent = [pool.lent EXCEPT ![k] = @ + 1]
        /\ pool'.retiring = o.pool.retiring
    BY <2>2, <2>3 DEF Lend, State
  <2>5. o.pool.ctx \in [Keys -> Ctxs \cup {None}]  BY <2>3, PoolParts
  <2>6. c # None  BY PoolConstants
  <2>7. \A h \in pool'.retiring : /\ h \in pool.retiring /\ h \in Keys
                                  /\ pool'.ctx[h] # None
    BY <1>2, <1>3, <2>3, <2>4, <2>5, <2>6 DEF RetirementPending
  <2>8. \A h \in Keys : pool'.lent[h] >= pool.lent[h] /\ pool'.lent[h] \in Nat
    BY <1>2, <1>3, <2>4
  <2>9. QED  BY <2>7, <2>8, PendingKept
<1>6. ASSUME NEW q \in Pool, NEW ks \in SUBSET Keys, NEW o \in Closings(pool, ks),
             NEW how \in {"error", "late"},
             q = o.pool \/ q = FailedLaunch(o.pool, k, how), pool' = q
      PROVE  RetirementPending'
  <2>1. /\ o.pool \in Pool /\ o.pool.lent = pool.lent
        /\ o.pool.retiring \subseteq pool.retiring
        /\ \A h \in o.pool.retiring : o.pool.ctx[h] = pool.ctx[h]
    BY ClosingsFacts DEF Types
  <2>2. q.lent = pool.lent  BY <1>2, <1>6, <2>1, FailedLaunchFacts
  <2>3. \/ q.retiring = {}
        \/ q.retiring = o.pool.retiring /\ q.ctx = o.pool.ctx
    BY <1>6, <2>1, ResetFacts DEF FailedLaunch, State
  <2>4. \A h \in q.retiring : h \in pool.retiring /\ q.ctx[h] = pool.ctx[h]
    BY <2>1, <2>3
  <2>5. QED  BY <1>3, <1>6, <2>2, <2>4 DEF RetirementPending
<1>7. CASE LaunchFails(t)
  <2>1. PICK ks \in Evictions, how \in {"error", "late"} :
          \E o \in Closings(pool, ks) : pool' = FailedLaunch(o.pool, k, how)
    BY <1>7 DEF LaunchFails, Settle, Outcome
  <2>2. PICK o \in Closings(pool, ks) : pool' = FailedLaunch(o.pool, k, how)
    BY <2>1
  <2>3. ks \in SUBSET Keys /\ o.pool \in Pool  BY EvictionKeys, ClosingsFacts DEF Types
  <2>4. FailedLaunch(o.pool, k, how) \in Pool  BY <1>2, <2>3, FailedLaunchFacts
  <2>5. QED  BY <1>6, <2>2, <2>3, <2>4
<1>8. CASE CancelLaunch(t)
  <2>1. PICK gone \in SUBSET Keys : \E o \in Closings(pool, gone) :
          pool' = o.pool \/ pool' = FailedLaunch(o.pool, k, "late")
    BY <1>8, EvictionKeys DEF CancelLaunch
  <2>2. PICK o \in Closings(pool, gone) :
          pool' = o.pool \/ pool' = FailedLaunch(o.pool, k, "late")
    BY <2>1
  <2>3. o.pool \in Pool  BY ClosingsFacts DEF Types
  <2>4. FailedLaunch(o.pool, k, "late") \in Pool  BY <1>2, <2>3, FailedLaunchFacts
  <2>5. QED  BY <1>6, <2>2, <2>3, <2>4
<1>9. QED  BY <1>4, <1>5, <1>7, <1>8

\* Invalidation and release keep RetirementPending.
LEMMA TidyPending ==
  ASSUME Types, LeasesExact, RetirementPending, NEW t \in Crawls,
         Invalidate(t) \/ Discard(t) \/ Release(t)
  PROVE  RetirementPending'
<1> DEFINE k == job[t].key
<1>1. job[t] \in Job /\ job[t].pc \in Leases
  BY DEF Types, Invalidate, Discard, Release, Leases
<1>2. k \in Keys /\ job[t].ctx \in Ctxs  BY <1>1, JobFacts
<1>3. /\ pool.ctx \in [Keys -> Ctxs \cup {None}] /\ pool.lent \in [Keys -> Nat]
      /\ pool.retiring \in SUBSET Keys
  BY PoolParts DEF Types
<1>4. CASE pool' = pool  BY <1>4 DEF RetirementPending
<1>5. CASE Invalidate(t) /\ Current(t)
  <2>1. PICK o \in Closings(pool, {k}) : pool' = o.pool  BY <1>5 DEF Invalidate, Settle
  <2>2. /\ o.pool.lent = pool.lent
        /\ o.pool.retiring \subseteq pool.retiring
        /\ \A h \in o.pool.retiring : o.pool.ctx[h] = pool.ctx[h]
    BY <1>2, ClosingsFacts DEF Types
  <2>3. QED  BY <2>1, <2>2 DEF RetirementPending
<1>6. CASE Discard(t) /\ Current(t)
  <2>1. pool'.retiring = {}  BY <1>6, ResetFacts DEF Discard, Settle, Outcome, Types
  <2>2. QED  BY <2>1 DEF RetirementPending
<1>7. CASE Release(t)
  <2>1. PICK expired \in BOOLEAN :
          \E o \in Retirements(t, Returned(t, expired)) : pool' = o.pool
    BY <1>7 DEF Release, Settle
  <2> DEFINE p == Returned(t, expired)
  <2>2. PICK o \in Retirements(t, p) : pool' = o.pool  BY <2>1
  <2>3. job[t].pc = "release"  BY <1>7 DEF Release
  <2>4. /\ p \in Pool /\ p.ctx = pool.ctx
        /\ p.lent = [pool.lent EXCEPT ![k] = IF @ = 0 THEN 0 ELSE @ - 1]
        /\ p.retiring \subseteq pool.retiring \cup (IF Current(t) THEN {k} ELSE {})
    BY <2>3, ReturnedFacts
  <2> HIDE DEF p
  <2>5. /\ o.pool.lent = p.lent
        /\ o.pool.retiring \subseteq p.retiring
        /\ \A h \in o.pool.retiring : o.pool.ctx[h] = p.ctx[h]
    BY <2>3, <2>4, RetirementsFacts
  <2>51. (p.lent[k] = 0 /\ p.ctx[k] # None) => k \notin o.pool.retiring
    <3>1. p \in Pool  BY <2>4
    <3>2. (p.lent[job[t].key] = 0 /\ p.ctx[job[t].key] # None)
            => job[t].key \notin o.pool.retiring
      BY <2>3, <3>1, RetirementsFacts, ZenonT(30)
    <3>3. QED  BY <3>2
  <2>6. \A h \in p.retiring : p.ctx[h] # None
    BY <1>2, <2>4, PoolConstants DEF RetirementPending, Current
  <2>7. \A h \in p.retiring : h # k => p.lent[h] > 0
    BY <1>3, <2>4 DEF RetirementPending
  <2>8. p.lent[k] \in Nat  BY <1>2, <2>4, PoolParts
  <2>9. QED  BY <2>2, <2>5, <2>51, <2>6, <2>7, <2>8 DEF RetirementPending
<1>8. CASE (Invalidate(t) \/ Discard(t)) /\ ~Current(t)
  BY <1>4, <1>8 DEF Invalidate, Discard
<1>9. QED  BY <1>5, <1>6, <1>7, <1>8

\* Every step keeps the retiring contexts there and leased.
LEMMA PendingStep == Counts /\ RetirementPending /\ [Next]_vars => RetirementPending'
<1> SUFFICES ASSUME Counts, RetirementPending, [Next]_vars PROVE RetirementPending'
  OBVIOUS
<1>1. CASE UNCHANGED pool  BY <1>1 DEF RetirementPending
<1>2. ASSUME NEW t \in Crawls,
             \/ \E k \in Keys : Fetch(t, k)
             \/ Admit(t) \/ Get(t) \/ Page(t) \/ Tidy(t) \/ Cancel(t) \/ CancelLaunch(t)
      PROVE  RetirementPending'
  <2>1. CASE \/ \E k \in Keys : Fetch(t, k)
             \/ Admit(t) \/ Park(t) \/ BackOff(t) \/ Page(t)
             \/ ClosePage(t) \/ CloseFails(t) \/ Cancel(t)
    BY <1>1, <2>1 DEF Fetch, Admit, Park, BackOff, Page, Done, Closed, ClosePage,
                      CloseFails, Cancel
  <2>2. CASE Reuse(t) \/ Launch(t) \/ LaunchFails(t) \/ CancelLaunch(t)
    BY <2>2, AcquirePending DEF Counts
  <2>3. CASE Invalidate(t) \/ Discard(t) \/ Release(t)
    BY <2>3, TidyPending DEF Counts
  <2>4. QED  BY <1>2, <2>1, <2>2, <2>3 DEF Get, Tidy
<1>3. CASE \E k \in Keys : BackoffOver(k)
  BY <1>3 DEF BackoffOver, State, RetirementPending
<1>4. CASE DriverDies  BY <1>4 DEF DriverDies, State, RetirementPending
<1>5. CASE CloseAll
  <2>1. pool'.retiring = {}  BY <1>5, ResetFacts DEF CloseAll, Counts, Types
  <2>2. QED  BY <2>1 DEF RetirementPending
<1>6. CASE \E c \in Ctxs : Crash(c)  BY <1>1, <1>6 DEF Crash
<1>7. CASE UNCHANGED vars  BY <1>1, <1>7 DEF vars
<1>8. QED  BY <1>2, <1>3, <1>4, <1>5, <1>6, <1>7 DEF Next

\* A context that is to be recycled is always there and still leased, so that a
\* lease that is yet to end will retire it; no replacement is left retiring
\* when the last lease, of whichever context, has ended.
THEOREM RetirementsEnd == Spec => []RetirementPending
<1>1. Init => RetirementPending  BY DEF Init, State, RetirementPending
<1>2. Counts /\ RetirementPending /\ [Next]_vars => (Counts /\ RetirementPending)'
  BY CountsStep, PendingStep
<1>3. QED  BY CountsInit, <1>1, <1>2, PTL DEF Spec

\* k is still being drained after the step.
DrainsOn(k) == k \in pool'.retiring /\ pool'.lent[k] > 0

\* What a step does to the waiters: either it wakes them all, or every context
\* that was draining still is; and only Park makes one, behind such a context.
Wakes(t, jobs) ==
  /\ \A x \in Crawls \ {t} : job'[x] = jobs[x]
  /\ job'[t].pc = "parked" => DrainsOn(job'[t].key)
  /\ \/ jobs = Roused
     \/ jobs = job /\ \A k \in Keys : Draining(k) => DrainsOn(k)

\* Such a step leaves no crawl parked without a reason.
LEMMA WakesSuffices ==
  ASSUME Types, ParkedForAReason, NEW t \in Crawls, NEW jobs, Wakes(t, jobs)
  PROVE  ParkedForAReason'
<1> SUFFICES ASSUME NEW x \in Crawls, job'[x].pc = "parked"
             PROVE  DrainsOn(job'[x].key)
  BY DEF ParkedForAReason, Draining, DrainsOn
<1>3. CASE x = t  BY <1>3 DEF Wakes
<1>4. CASE x # t
  <2>1. job'[x] = jobs[x]  BY <1>4 DEF Wakes
  <2>2. jobs # Roused  BY <2>1, RousedFacts
  <2>3. jobs = job /\ \A k \in Keys : Draining(k) => DrainsOn(k)
    BY <2>2 DEF Wakes
  <2>4. job[x].key \in Keys  BY <2>1, <2>3, JobFacts DEF Types, Asking
  <2>5. Draining(job[x].key)  BY <2>1, <2>3 DEF ParkedForAReason
  <2>6. QED  BY <2>1, <2>3, <2>4, <2>5
<1>5. QED  BY <1>3, <1>4

\* A pool with the same retiring keys, each with at least its leases, drains on.
LEMMA StillDraining ==
  ASSUME Types, pool' \in Pool,
         \A k \in pool.retiring : pool.lent[k] > 0 =>
            k \in pool'.retiring /\ pool'.lent[k] > 0
  PROVE  \A k \in Keys : Draining(k) => DrainsOn(k)
BY DEF Draining, DrainsOn

\* Acquire wakes the waiters whenever it evicts or resets.
LEMMA AcquireWakes ==
  ASSUME Types, Rest, NEW t \in Crawls,
         Reuse(t) \/ Launch(t) \/ LaunchFails(t) \/ CancelLaunch(t)
  PROVE  \E jobs : Wakes(t, jobs)
<1> DEFINE k == job[t].key
<1>1. job[t] \in Job /\ job[t].pc = "get"
  BY DEF Types, Reuse, Launch, LaunchFails, CancelLaunch, Launches
<1>2. k \in Keys  BY <1>1, JobFacts DEF Asking
<1>3. pool \in Pool /\ pool' \in Pool /\ pool.lent \in [Keys -> Nat]
      /\ pool.retiring \in SUBSET Keys
  BY PoolParts DEF Types, Rest
<1>0. job \in [Crawls -> Job] /\ Roused \in [Crawls -> Job]  BY RousedFacts DEF Types
<1>4. \A c : Leased(t, c).pc # "parked"  BY DEF Leased, Work
<1>5. Idle.pc # "parked"  BY DEF Idle, Work
<1>6. CASE Reuse(t)
  <2>1. pool'.retiring = pool.retiring /\ pool'.lent = [pool.lent EXCEPT ![k] = @ + 1]
    BY <1>6 DEF Reuse, State
  <2>2. \A h \in Keys : Draining(h) => DrainsOn(h)
    BY <1>2, <1>3, <2>1, StillDraining
  <2>3. Wakes(t, job)  BY <1>0, <1>4, <1>6, <2>2 DEF Reuse, Wakes
  <2>4. QED  BY <2>3
<1>7. CASE Launch(t)
  <2>1. PICK ks \in Evictions, c \in Ctxs : \E o \in Closings(pool, ks) :
          /\ pool' = Lend(o.pool, k, c, "on")
          /\ job' = [Notified(ks) EXCEPT ![t] = Leased(t, c)]
    BY <1>7 DEF Launch
  <2>2. CASE ks = {}
    <3>1. pool' = Lend(pool, k, c, "on")  BY <1>3, <2>1, <2>2, ClosingsFacts
    <3>2. pool'.retiring = pool.retiring /\ pool'.lent = [pool.lent EXCEPT ![k] = @ + 1]
      BY <3>1 DEF Lend, State
    <3>3. \A h \in Keys : Draining(h) => DrainsOn(h)
      BY <1>2, <1>3, <3>2, StillDraining
    <3>4. job' = [job EXCEPT ![t] = Leased(t, c)]  BY <2>1, <2>2 DEF Notified
    <3>5. Wakes(t, job)  BY <1>0, <1>4, <3>3, <3>4 DEF Wakes
    <3>6. QED  BY <3>5
  <2>3. CASE ks # {}
    <3>1. job' = [Roused EXCEPT ![t] = Leased(t, c)]  BY <2>1, <2>3 DEF Notified
    <3>2. Wakes(t, Roused)  BY <1>0, <1>4, <3>1 DEF Wakes
    <3>3. QED  BY <3>2
  <2>4. QED  BY <2>2, <2>3
<1>8. CASE LaunchFails(t)
  <2>1. PICK ks \in Evictions, how \in {"error", "late"} :
          \E o \in Closings(pool, ks) :
            /\ pool' = FailedLaunch(o.pool, k, how)
            /\ job' = [(IF how = "late" THEN Roused ELSE Notified(ks)) EXCEPT ![t] = Idle]
    BY <1>8 DEF LaunchFails, Settle, Outcome
  <2>2. CASE ks = {} /\ how = "error"
    <3>1. pool' = FailedLaunch(pool, k, how)  BY <1>3, <2>1, <2>2, ClosingsFacts
    <3>2. pool'.retiring = pool.retiring /\ pool'.lent = pool.lent
      BY <2>2, <3>1 DEF FailedLaunch, State
    <3>3. \A h \in Keys : Draining(h) => DrainsOn(h)  BY <1>3, <3>2, StillDraining
    <3>4. Wakes(t, job)  BY <1>0, <1>5, <2>1, <2>2, <3>3 DEF Notified, Wakes
    <3>5. QED  BY <3>4
  <2>3. CASE ks # {} \/ how = "late"
    <3>1. job' = [Roused EXCEPT ![t] = Idle]  BY <2>1, <2>3 DEF Notified
    <3>2. Wakes(t, Roused)  BY <1>0, <1>5, <3>1 DEF Wakes
    <3>3. QED  BY <3>2
  <2>4. QED  BY <2>2, <2>3
<1>9. CASE CancelLaunch(t)
  <2>1. PICK gone \in SUBSET Keys, launched \in BOOLEAN : \E o \in Closings(pool, gone) :
          /\ pool' = IF launched THEN FailedLaunch(o.pool, k, "late") ELSE o.pool
          /\ job' = [(IF launched THEN Roused ELSE Notified(gone)) EXCEPT ![t] = Idle]
    BY <1>9, EvictionKeys DEF CancelLaunch
  <2>2. CASE gone = {} /\ ~launched
    <3>1. pool' = pool  BY <1>3, <2>1, <2>2, ClosingsFacts
    <3>2. \A h \in Keys : Draining(h) => DrainsOn(h)  BY <3>1 DEF Draining, DrainsOn
    <3>3. Wakes(t, job)  BY <1>0, <1>5, <2>1, <2>2, <3>2 DEF Notified, Wakes
    <3>4. QED  BY <3>3
  <2>3. CASE gone # {} \/ launched
    <3>1. job' = [Roused EXCEPT ![t] = Idle]  BY <2>1, <2>3 DEF Notified
    <3>2. Wakes(t, Roused)  BY <1>0, <1>5, <3>1 DEF Wakes
    <3>3. QED  BY <3>2
  <2>4. QED  BY <2>2, <2>3
<1>10. QED  BY <1>6, <1>7, <1>8, <1>9

\* Invalidations and releases that change the pool wake the waiters, but for a
\* release that leaves other leases of its key out.
LEMMA TidyWakes ==
  ASSUME Types, Rest, NEW t \in Crawls,
         Invalidate(t) \/ Discard(t) \/ Release(t)
  PROVE  \E jobs : Wakes(t, jobs)
<1> DEFINE k == job[t].key
<1>1. job[t] \in Job /\ job[t].pc \in Leases
  BY DEF Types, Invalidate, Discard, Release, Leases
<1>2. k \in Keys  BY <1>1, JobFacts
<1>3. pool \in Pool /\ pool' \in Pool /\ pool.lent \in [Keys -> Nat]
      /\ pool.retiring \in SUBSET Keys
  BY PoolParts DEF Types, Rest
<1>0. job \in [Crawls -> Job] /\ Roused \in [Crawls -> Job]  BY RousedFacts DEF Types
<1>4. At(t, "close").pc # "parked" /\ At(t, "release").pc # "parked"  BY DEF At, Work
<1>5. NextAttempt(t).pc # "parked"  BY DEF NextAttempt, Idle, Work
<1>6. CASE (Invalidate(t) \/ Discard(t)) /\ ~Current(t)
  <2>1. /\ pool' = pool
        /\ \/ job' = [job EXCEPT ![t] = At(t, "close")]
           \/ job' = [job EXCEPT ![t] = At(t, "release")]
    BY <1>6 DEF Invalidate, Discard
  <2>2. \A h \in Keys : Draining(h) => DrainsOn(h)  BY <2>1 DEF Draining, DrainsOn
  <2>3. Wakes(t, job)  BY <1>0, <1>4, <2>1, <2>2 DEF Wakes
  <2>4. QED  BY <2>3
<1>7. CASE (Invalidate(t) \/ Discard(t)) /\ Current(t)
  <2>1. \/ job' = [Roused EXCEPT ![t] = At(t, "close")]
        \/ job' = [Roused EXCEPT ![t] = At(t, "release")]
    BY <1>7 DEF Invalidate, Discard, Settle
  <2>2. Wakes(t, Roused)  BY <1>0, <1>4, <2>1 DEF Wakes
  <2>3. QED  BY <2>2
<1>8. CASE Release(t)
  <2>1. job[t].pc = "release"  BY <1>8 DEF Release
  <2>2. PICK expired \in BOOLEAN :
          \E o \in Retirements(t, Returned(t, expired)) :
            /\ pool' = o.pool
            /\ job' = [(IF Returned(t, expired).lent[k] > 0 THEN job ELSE Roused)
                         EXCEPT ![t] = NextAttempt(t)]
    BY <1>8 DEF Release, Settle
  <2> DEFINE p == Returned(t, expired)
  <2>3. /\ p \in Pool
        /\ p.lent = [pool.lent EXCEPT ![k] = IF @ = 0 THEN 0 ELSE @ - 1]
        /\ pool.retiring \subseteq p.retiring
    BY <2>1, ReturnedFacts
  <2>4. PICK o \in Retirements(t, p) :
            /\ pool' = o.pool
            /\ job' = [(IF p.lent[k] > 0 THEN job ELSE Roused) EXCEPT ![t] = NextAttempt(t)]
    BY <2>2
  <2> HIDE DEF p
  <2>5. CASE p.lent[k] > 0
    <3>1. pool' = p
      <4>1. p.lent[job[t].key] > 0 => o.pool = p
        BY <2>1, <2>3, RetirementsFacts, ZenonT(30)
      <4>2. QED  BY <2>4, <2>5, <4>1
    <3>2. \A h \in Keys : Draining(h) => DrainsOn(h)
      BY <1>2, <1>3, <2>3, <2>5, <3>1 DEF Draining, DrainsOn
    <3>3. job' = [job EXCEPT ![t] = NextAttempt(t)]  BY <2>4, <2>5
    <3>4. Wakes(t, job)  BY <1>0, <1>5, <3>2, <3>3 DEF Wakes
    <3>5. QED  BY <3>4
  <2>6. CASE ~(p.lent[k] > 0)
    <3>1. job' = [Roused EXCEPT ![t] = NextAttempt(t)]  BY <2>4, <2>6
    <3>2. Wakes(t, Roused)  BY <1>0, <1>5, <3>1 DEF Wakes
    <3>3. QED  BY <3>2
  <2>7. QED  BY <2>5, <2>6
<1>9. QED  BY <1>6, <1>7, <1>8

\* Steps that leave the pool alone, and Park.
LEMMA QuietWakes ==
  ASSUME Types, NEW t \in Crawls,
         \/ \E k \in Keys : Fetch(t, k)
         \/ Admit(t) \/ Park(t) \/ BackOff(t) \/ Page(t)
         \/ ClosePage(t) \/ CloseFails(t) \/ Cancel(t)
  PROVE  \E jobs : Wakes(t, jobs)
<1>1. pool' = pool
  BY DEF Fetch, Admit, Park, BackOff, Page, Done, Closed, ClosePage, CloseFails, Cancel
<1>2. \A k \in Keys : Draining(k) => DrainsOn(k)  BY <1>1 DEF Draining, DrainsOn
<1>3. job \in [Crawls -> Job]  BY DEF Types
<1>4. CASE \E k \in Keys : Fetch(t, k)  BY <1>2, <1>3, <1>4 DEF Fetch, Work, Wakes
<1>5. CASE Admit(t)    BY <1>2, <1>3, <1>5 DEF Admit, At, Work, Wakes
<1>6. CASE Park(t)
  <2>1. job'[t] = At(t, "parked") /\ \A x \in Crawls \ {t} : job'[x] = job[x]
    BY <1>3, <1>6 DEF Park
  <2>2. DrainsOn(job[t].key)  BY <1>1, <1>6 DEF Park, Draining, DrainsOn
  <2>3. QED  BY <1>2, <2>1, <2>2 DEF At, Work, Wakes
<1>7. CASE BackOff(t)  BY <1>2, <1>3, <1>7 DEF BackOff, Idle, Work, Wakes
<1>8. CASE Done(t)     BY <1>2, <1>3, <1>8 DEF Done, Work, Wakes
<1>9. CASE Closed(t)   BY <1>2, <1>3, <1>9 DEF Closed, Work, Wakes
<1>10. CASE ClosePage(t)   BY <1>2, <1>3, <1>10 DEF ClosePage, At, Work, Wakes
<1>11. CASE CloseFails(t)  BY <1>2, <1>3, <1>11 DEF CloseFails, At, Work, Wakes
<1>12. CASE Cancel(t)
  <2>1. job'[t].pc # "parked" /\ \A x \in Crawls \ {t} : job'[x] = job[x]
    BY <1>3, <1>12 DEF Cancel, Idle, Work, Asking
  <2>2. QED  BY <1>2, <2>1 DEF Wakes
<1>13. QED
  BY <1>4, <1>5, <1>6, <1>7, <1>8, <1>9, <1>10, <1>11, <1>12 DEF Page

\* A step of the environment changes neither the leases nor who is retiring.
LEMMA OutsideWakes ==
  ASSUME Types, ParkedForAReason,
         \/ \E c \in Ctxs : Crash(c)
         \/ \E k \in Keys : BackoffOver(k)
         \/ DriverDies
  PROVE  ParkedForAReason'
<1>1. job' = job /\ pool'.retiring = pool.retiring /\ pool'.lent = pool.lent
  BY DEF Crash, BackoffOver, DriverDies, State
<1>2. QED  BY <1>1 DEF ParkedForAReason, Draining

\* Every step leaves only crawls parked that have a reason to be.
LEMMA ParkedStep == Counts /\ ParkedForAReason /\ [Next]_vars => ParkedForAReason'
<1> SUFFICES ASSUME Counts, ParkedForAReason, [Next]_vars PROVE ParkedForAReason'
  OBVIOUS
<1>0. Types /\ LeasesExact  BY DEF Counts
<1>1. ASSUME NEW t \in Crawls,
             \/ \E k \in Keys : Fetch(t, k)
             \/ Admit(t) \/ Get(t) \/ Page(t) \/ Tidy(t) \/ Cancel(t) \/ CancelLaunch(t)
      PROVE  ParkedForAReason'
  <2>1. CASE \/ \E k \in Keys : Fetch(t, k)
             \/ Admit(t) \/ Park(t) \/ BackOff(t) \/ Page(t)
             \/ ClosePage(t) \/ CloseFails(t) \/ Cancel(t)
    BY <1>0, <2>1, QuietWakes, WakesSuffices
  <2>2. CASE Reuse(t) \/ Launch(t) \/ LaunchFails(t) \/ CancelLaunch(t)
    <3>1. Rest
      BY <1>0, <2>2, ReuseEffect, LaunchEffect, LaunchFailsEffect, CancelLaunchEffect
    <3>2. QED  BY <1>0, <2>2, <3>1, AcquireWakes, WakesSuffices
  <2>3. CASE Invalidate(t) \/ Discard(t) \/ Release(t)
    <3>1. Rest  BY <1>0, <2>3, DiscardEffect, ReleaseEffect
    <3>2. QED  BY <1>0, <2>3, <3>1, TidyWakes, WakesSuffices
  <2>4. QED  BY <1>1, <2>1, <2>2, <2>3 DEF Get, Tidy
<1>2. CASE \/ \E c \in Ctxs : Crash(c)
           \/ \E k \in Keys : BackoffOver(k)
           \/ DriverDies
  BY <1>0, <1>2, OutsideWakes
<1>3. CASE CloseAll
  BY <1>3 DEF CloseAll, Idle, Work, ParkedForAReason
<1>4. CASE UNCHANGED vars  BY <1>4 DEF vars, ParkedForAReason, Draining
<1>5. QED  BY <1>1, <1>2, <1>3, <1>4 DEF Next

\* No wake-up is lost: a crawl waits on the condition only while the context of
\* its profile is retiring and leased, and then RetirementsEnd and the lease
\* counts say that a lease is out whose release will notify it.
THEOREM NoLostWakeUp == Spec => []ParkedForAReason
<1>1. Init => ParkedForAReason  BY DEF Init, Idle, Work, ParkedForAReason
<1>2. Counts /\ ParkedForAReason /\ [Next]_vars => (Counts /\ ParkedForAReason)'
  BY CountsStep, ParkedStep
<1>3. QED  BY CountsInit, <1>1, <1>2, PTL DEF Spec

---------------------------------------------------------------------------
(* The contexts.                                                           *)

\* Closing contexts adds none; what it drops without a failure it was asked to
\* drop, unless the driver was gone or the browser of one had crashed already.
LEMMA ClosingsTracked ==
  ASSUME NEW p \in Pool, NEW ks \in SUBSET Keys, NEW o \in Closings(p, ks)
  PROVE  /\ \A k \in Keys : o.pool.ctx[k] \in {p.ctx[k], None}
         /\ \A k \in ks : o.pool.ctx[k] = None
         /\ o.pool.driver = p.driver \/ o.pool.ctx = NoCtx
         /\ o.pool.driver = "dead" => o.pool = p
         /\ \/ \A k \in Keys \ ks : o.pool.ctx[k] = p.ctx[k]
            \/ p.driver # "on"
            \/ ~({p.ctx[k] : k \in ks} \subseteq open)
            \/ o.faults > 0
<1>1. CASE ks = {}
  <2>1. o.pool = p  BY <1>1, ClosingsFacts
  <2>2. QED  BY <1>1, <2>1
<1>2. CASE ks # {} /\ p.driver = "on" /\ o = Outcome(Dropped(p, ks), 0)
  <2>1. /\ o.pool.ctx = [k \in Keys |-> IF k \in ks THEN None ELSE p.ctx[k]]
        /\ o.pool.driver = "on"
    BY <1>2 DEF Outcome, Dropped, State
  <2>2. QED  BY <1>2, <2>1
<1>3. CASE /\ ks # {}
           /\ o = Outcome(Reset(p),
                    IF p.driver = "on" /\ {p.ctx[k] : k \in ks} \subseteq open
                    THEN 1 ELSE 0)
  <2>1. o.pool.ctx = NoCtx /\ o.pool.driver = "off"
    BY <1>3 DEF Outcome, Reset, State
  <2>2. \/ p.driver # "on" \/ ~({p.ctx[k] : k \in ks} \subseteq open)
        \/ o.faults = 1
    BY <1>3 DEF Outcome
  <2>3. \A k \in Keys : o.pool.ctx[k] = None  BY <2>1 DEF NoCtx
  <2>4. QED  BY <2>1, <2>2, <2>3
<1>4. QED  BY <1>1, <1>2, <1>3 DEF Closings

\* A failed launch drops no context, or all of them.
LEMMA FailedLaunchTracked ==
  ASSUME NEW p \in Pool, NEW k \in Keys, NEW how \in {"error", "late"}
  PROVE  LET q == FailedLaunch(p, k, how) IN
         /\ q.ctx = p.ctx \/ q.ctx = NoCtx
         /\ q.driver = p.driver \/ q.driver = "on" \/ q.ctx = NoCtx
BY DEF FailedLaunch, Reset, State

\* A step that launches nothing: it may drop contexts, and it closes the browser
\* of what it drops.
Sheds ==
  /\ \A k \in Keys : pool'.ctx[k] \in {pool.ctx[k], None}
  /\ open' \subseteq open
  /\ pool'.ctx = pool.ctx \/ open' \subseteq TrackedIn(pool')
  /\ pool'.driver = "on" \/ pool'.driver = pool.driver \/ open' = {}

\* It is enough to look at the pool that was settled with.
LEMMA SettledSheds ==
  ASSUME Types, pool' \in Pool, open' = KeepOpen(pool'),
         \A k \in Keys : pool'.ctx[k] \in {pool.ctx[k], None},
         pool'.driver = "on" \/ pool'.driver = pool.driver \/ pool'.ctx = NoCtx
  PROVE  Sheds
<1>1. pool'.ctx = NoCtx => TrackedIn(pool') = {}
  BY DEF TrackedIn, Tracked, NoCtx
<1>2. QED  BY <1>1 DEF Sheds, KeepOpen

\* Only a launch adds a context.
LEMMA OnlyLaunchAdds ==
  ASSUME Counts, Next, \A t \in Crawls : ~Launch(t)
  PROVE  Sheds
<1>0. Types /\ LeasesExact /\ pool \in Pool  BY DEF Counts, Types
<1>1. CASE UNCHANGED pool /\ open' \subseteq open
  BY <1>1 DEF Sheds
<1>2. CASE \/ \E t \in Crawls :
                \/ \E k \in Keys : Fetch(t, k)
                \/ Admit(t) \/ Park(t) \/ BackOff(t) \/ Page(t)
                \/ ClosePage(t) \/ CloseFails(t) \/ Cancel(t)
                \/ (Invalidate(t) \/ Discard(t)) /\ ~Current(t)
           \/ \E c \in Ctxs : Crash(c)
  BY <1>1, <1>2 DEF Fetch, Admit, Park, BackOff, Page, Done, Closed, ClosePage,
                    CloseFails, Cancel, Invalidate, Discard, Crash
<1>3. CASE (\E t \in Crawls : Reuse(t)) \/ (\E k \in Keys : BackoffOver(k)) \/ DriverDies
  BY <1>3 DEF Reuse, BackoffOver, DriverDies, State, Sheds
<1>4. CASE (\E t \in Crawls : Discard(t) /\ Current(t)) \/ CloseAll
  <2>1. pool' = Reset(pool) /\ open' = KeepOpen(pool')
    BY <1>4 DEF Discard, Settle, Outcome, CloseAll
  <2>2. pool' \in Pool /\ pool'.ctx = NoCtx
    BY <1>0, <2>1, ResetFacts DEF Reset, State
  <2>3. QED  BY <1>0, <2>1, <2>2, SettledSheds DEF NoCtx
<1>5. ASSUME NEW t \in Crawls, LaunchFails(t)  PROVE Sheds
  <2> DEFINE k == job[t].key
  <2>1. k \in Keys
    BY <1>0, <1>5, JobFacts DEF Types, LaunchFails, Launches, Asking
  <2>2. PICK ks \in Evictions, how \in {"error", "late"} : \E o \in Closings(pool, ks) :
          pool' = FailedLaunch(o.pool, k, how) /\ open' = KeepOpen(pool')
    BY <1>5 DEF LaunchFails, Settle, Outcome
  <2>3. PICK o \in Closings(pool, ks) :
          pool' = FailedLaunch(o.pool, k, how) /\ open' = KeepOpen(pool')
    BY <2>2
  <2>4. /\ o.pool \in Pool /\ \A h \in Keys : o.pool.ctx[h] \in {pool.ctx[h], None}
        /\ o.pool.driver = pool.driver \/ o.pool.ctx = NoCtx
    BY <1>0, EvictionKeys, ClosingsFacts, ClosingsTracked
  <2>5. /\ pool' \in Pool
        /\ pool'.ctx = o.pool.ctx \/ pool'.ctx = NoCtx
        /\ \/ pool'.driver = o.pool.driver \/ pool'.driver = "on"
           \/ pool'.ctx = NoCtx
    BY <2>1, <2>3, <2>4, FailedLaunchFacts, FailedLaunchTracked
  <2>6. QED  BY <1>0, <2>3, <2>4, <2>5, SettledSheds DEF NoCtx
<1>6. ASSUME NEW t \in Crawls, CancelLaunch(t)  PROVE Sheds
  <2> DEFINE k == job[t].key
  <2>1. k \in Keys
    BY <1>0, <1>6, JobFacts DEF Types, CancelLaunch, Launches, Asking
  <2>2. PICK gone \in SUBSET Keys, launched \in BOOLEAN : \E o \in Closings(pool, gone) :
          /\ pool' = IF launched THEN FailedLaunch(o.pool, k, "late") ELSE o.pool
          /\ open' = KeepOpen(pool')
    BY <1>6, EvictionKeys DEF CancelLaunch
  <2>3. PICK o \in Closings(pool, gone) :
          /\ pool' = IF launched THEN FailedLaunch(o.pool, k, "late") ELSE o.pool
          /\ open' = KeepOpen(pool')
    BY <2>2
  <2>4. /\ o.pool \in Pool /\ \A h \in Keys : o.pool.ctx[h] \in {pool.ctx[h], None}
        /\ o.pool.driver = pool.driver \/ o.pool.ctx = NoCtx
    BY <1>0, ClosingsFacts, ClosingsTracked
  <2>5. /\ pool' \in Pool
        /\ pool'.ctx = o.pool.ctx \/ pool'.ctx = NoCtx
        /\ \/ pool'.driver = o.pool.driver \/ pool'.driver = "on"
           \/ pool'.ctx = NoCtx
    BY <2>1, <2>3, <2>4, FailedLaunchFacts, FailedLaunchTracked
  <2>6. QED  BY <1>0, <2>3, <2>4, <2>5, SettledSheds DEF NoCtx
<1>7. ASSUME NEW t \in Crawls, Invalidate(t), Current(t)  PROVE Sheds
  <2>1. {job[t].key} \in SUBSET Keys
    BY <1>0, <1>7, JobFacts DEF Types, Invalidate, Leases
  <2>2. PICK o \in Closings(pool, {job[t].key}) : pool' = o.pool /\ open' = KeepOpen(o.pool)
    BY <1>7 DEF Invalidate, Settle
  <2>3. QED  BY <1>0, <2>1, <2>2, ClosingsFacts, ClosingsTracked, SettledSheds
<1>8. ASSUME NEW t \in Crawls, Release(t)  PROVE Sheds
  <2>1. PICK expired \in BOOLEAN : \E o \in Retirements(t, Returned(t, expired)) :
          pool' = o.pool /\ open' = KeepOpen(o.pool)
    BY <1>8 DEF Release, Settle
  <2> DEFINE p == Returned(t, expired)
  <2>2. PICK o \in Retirements(t, p) : pool' = o.pool /\ open' = KeepOpen(o.pool)
    BY <2>1
  <2>3. job[t].pc = "release" /\ {job[t].key} \in SUBSET Keys
    BY <1>0, <1>8, JobFacts DEF Types, Release, Leases
  <2>4. p \in Pool /\ p.ctx = pool.ctx /\ p.driver = pool.driver
    BY <1>0, <2>3, ReturnedFacts DEF Returned, State
  <2> HIDE DEF p
  <2>5. o.pool = p \/ \E q \in Closings(p, {job[t].key}) : o.pool = q.pool
    BY DEF Retirements, Outcome
  <2>6. /\ o.pool \in Pool /\ \A h \in Keys : o.pool.ctx[h] \in {p.ctx[h], None}
        /\ o.pool.driver = p.driver \/ o.pool.ctx = NoCtx
    BY <2>3, <2>4, <2>5, ClosingsFacts, ClosingsTracked
  <2>7. QED  BY <1>0, <2>2, <2>4, <2>6, SettledSheds
<1>9. QED
  BY <1>2, <1>3, <1>4, <1>5, <1>6, <1>7, <1>8 DEF Next, Get, Tidy

\* The profiles whose context is in use are not more than the leases, and a crawl
\* that is about to launch holds a permit without a lease.
LEMMA LentBounded ==
  ASSUME Counts, NEW t \in Crawls, job[t].pc = "get"
  PROVE  LET lent == {k \in Tracked(pool) : pool.lent[k] > 0} IN
         IsFiniteSet(lent) /\ Cardinality(lent) < Size
<1> DEFINE lent == {k \in Tracked(pool) : pool.lent[k] > 0}
           busy == {x \in Crawls : job[x].pc \in Leases}
           used_by == {x \in busy : job[x].key \in lent}
           key == [x \in used_by |-> job[x].key]
<1>0. Types /\ SlotsExact /\ LeasesExact  BY DEF Counts
<1>1. ASSUME NEW k \in lent  PROVE \E x \in used_by : job[x].key = k
  <2>1. k \in Keys /\ pool.lent[k] # 0  BY DEF Tracked
  <2>2. Cardinality(LeasesOf(k)) # 0  BY <1>0, <2>1 DEF LeasesExact
  <2>3. LeasesOf(k) # {}  BY <2>2, FS_EmptySet
  <2>4. QED  BY <2>3 DEF LeasesOf
<1>2. key \in Surjection(used_by, lent)
  <2>1. key \in [used_by -> lent]  OBVIOUS
  <2>2. \A k \in lent : \E x \in used_by : key[x] = k  BY <1>1
  <2> HIDE DEF key, used_by, lent
  <2>3. QED  BY <2>1, <2>2 DEF Surjection
<1>3. Holders \in SUBSET Crawls /\ IsFiniteSet(Holders)
  BY FS_Subset, PoolConstants, Holders \in SUBSET Crawls DEF Holders
<1>4. used_by \in SUBSET (Holders \ {t}) /\ t \in Holders
  BY DEF Holders, Leases
<1>5. /\ IsFiniteSet(Holders \ {t})
      /\ Cardinality(Holders \ {t}) = Cardinality(Holders) - 1
  BY <1>3, <1>4, FS_RemoveElement
<1>6. IsFiniteSet(used_by) /\ Cardinality(used_by) <= Cardinality(Holders \ {t})
  BY <1>4, <1>5, FS_Subset
<1> HIDE DEF key, used_by
<1>7. IsFiniteSet(lent) /\ Cardinality(lent) <= Cardinality(used_by)
  <2> HIDE DEF lent
  <2>1. QED  BY <1>2, <1>6, FS_Surjection
<1>8. /\ Cardinality(lent) \in Nat /\ Cardinality(used_by) \in Nat
      /\ Cardinality(Holders) \in Nat
  BY <1>3, <1>6, <1>7, FS_CardinalityType
<1>9. slots \in Nat /\ slots + Cardinality(Holders) = Size /\ Size \in Nat
  BY <1>0, PoolConstants DEF Types, SlotsExact
<1> HIDE DEF lent
<1>10. Cardinality(lent) < Size  BY <1>5, <1>6, <1>7, <1>8, <1>9
<1>11. QED  BY <1>7, <1>10 DEF lent

\* The eviction before a launch leaves room for one more context.
LEMMA EvictionMakesRoom ==
  ASSUME Counts, BrowsersBounded, NEW t \in Crawls, job[t].pc = "get", NEW ks \in Evictions
  PROVE  /\ IsFiniteSet(Tracked(pool) \ ks)
         /\ Cardinality(Tracked(pool) \ ks) < Size
<1> DEFINE T == Tracked(pool)
           idle == {k \in T : pool.lent[k] = 0}
           lent == {k \in T : pool.lent[k] > 0}
           excess == Cardinality(T) + 1 - Ceiling
<1>1. T \in SUBSET Keys /\ IsFiniteSet(T)
  BY FS_Subset, PoolConstants, Tracked(pool) \in SUBSET Keys DEF Tracked
<1>2. Cardinality(T) \in Nat  BY <1>1, FS_CardinalityType
<1>3. Ceiling \in Nat \ {0} /\ Ceiling <= Size /\ Size \in Nat
  BY PoolConstants DEF Ceiling
<1>4. \A k \in T : pool.lent[k] \in Nat
  BY <1>1, PoolParts DEF Counts, Types
<1>5. T \ idle = lent  BY <1>4
<1>6. IsFiniteSet(lent) /\ Cardinality(lent) < Size  BY LentBounded
<1>7. idle \in SUBSET T  OBVIOUS
<1>8. \/ ks = {} /\ Cardinality(T) < Ceiling
      \/ ks = idle
      \/ /\ Cardinality(T) >= Ceiling
         /\ ks \in SUBSET idle /\ Cardinality(ks) = excess
  BY <1>2, <1>3 DEF Evictions
<1>9. ASSUME ks \in SUBSET T, Cardinality(ks) = excess, Cardinality(T) >= Ceiling
      PROVE  IsFiniteSet(T \ ks) /\ Cardinality(T \ ks) < Size
  <2> HIDE DEF T, excess
  <2>1. /\ IsFiniteSet(ks) /\ IsFiniteSet(T \ ks)
        /\ Cardinality(T \ ks) = Cardinality(T) - Cardinality(T \cap ks)
    BY <1>1, <1>9, FS_Difference, FS_Subset
  <2>2. T \cap ks = ks  BY <1>9
  <2>3. Cardinality(T \ ks) = Cardinality(T) - excess
    BY <1>9, <2>1, <2>2
  <2>4. QED  BY <1>2, <1>3, <2>1, <2>3 DEF excess
<1> HIDE DEF T, idle, lent, excess
<1>10. CASE ks = {} /\ Cardinality(T) < Ceiling
  <2>1. T \ ks = T  BY <1>10
  <2>2. QED  BY <1>1, <1>2, <1>3, <1>10, <2>1 DEF T
<1>11. CASE ks = idle
  BY <1>5, <1>6, <1>11 DEF T
<1>12. CASE Cardinality(T) >= Ceiling /\ ks \in SUBSET idle /\ Cardinality(ks) = excess
  <2>1. ks \in SUBSET T  BY <1>7, <1>12
  <2>2. QED  BY <1>9, <1>12, <2>1 DEF T
<1>13. QED  BY <1>8, <1>10, <1>11, <1>12

\* A launch evicts ks with outcome o, adds c and closes the browsers it evicts.
Added(t, ks, c, o) ==
  /\ Fresh(c) /\ job'[t] = Leased(t, c)
  /\ pool'.ctx = [o.pool.ctx EXCEPT ![job[t].key] = c]
  /\ o.pool.ctx \in [Keys -> Ctxs \cup {None}]
  /\ \A k \in Keys : o.pool.ctx[k] \in {pool.ctx[k], None}
  /\ \A k \in ks : o.pool.ctx[k] = None
  /\ open' = KeepOpen(o.pool) \cup {c}
  /\ pool'.driver = "on" /\ Faults(o.faults)

\* A launch puts a context nobody has into the pool, beside what its eviction
\* left.
LEMMA LaunchAdds ==
  ASSUME Counts, NEW t \in Crawls, Launch(t)
  PROVE  /\ job[t].pc = "get" /\ job[t].key \in Keys /\ pool.ctx[job[t].key] = None
         /\ \E ks \in Evictions, c \in Ctxs : \E o \in Closings(pool, ks) :
              Added(t, ks, c, o)
<1>0. pool \in Pool /\ job \in [Crawls -> Job] /\ Roused \in [Crawls -> Job]
  BY RousedFacts DEF Counts, Types
<1>1. job[t].pc = "get" /\ pool.ctx[job[t].key] = None  BY DEF Launch, Launches
<1>2. job[t].key \in Keys  BY <1>0, <1>1, JobFacts DEF Asking
<1>3. PICK ks \in Evictions, c \in Ctxs : \E o \in Closings(pool, ks) :
        /\ Fresh(c)
        /\ pool' = Lend(o.pool, job[t].key, c, "on")
        /\ open' = KeepOpen(o.pool) \cup {c}
        /\ Faults(o.faults)
        /\ job' = [Notified(ks) EXCEPT ![t] = Leased(t, c)]
  BY DEF Launch
<1>4. PICK o \in Closings(pool, ks) :
        /\ Fresh(c)
        /\ pool' = Lend(o.pool, job[t].key, c, "on")
        /\ open' = KeepOpen(o.pool) \cup {c}
        /\ Faults(o.faults)
        /\ job' = [Notified(ks) EXCEPT ![t] = Leased(t, c)]
  BY <1>3
<1>5. /\ o.pool \in Pool /\ \A k \in Keys : o.pool.ctx[k] \in {pool.ctx[k], None}
      /\ \A k \in ks : o.pool.ctx[k] = None
  BY <1>0, EvictionKeys, ClosingsFacts, ClosingsTracked
<1>6. o.pool.ctx \in [Keys -> Ctxs \cup {None}]  BY <1>5, PoolParts
<1>7. pool'.ctx = [o.pool.ctx EXCEPT ![job[t].key] = c] /\ pool'.driver = "on"
  BY <1>4 DEF Lend, State
<1>8. job'[t] = Leased(t, c)
  <2>1. Notified(ks) \in [Crawls -> Job]  BY <1>0 DEF Notified
  <2>2. QED  BY <1>4, <2>1
<1>9. Added(t, ks, c, o)  BY <1>4, <1>5, <1>6, <1>7, <1>8 DEF Added
<1>10. QED  BY <1>1, <1>2, <1>9

\* The pool never keeps more warm browsers than its size, leased or idle,
\* whatever CRAWL_PROFILE_MAX is and whichever closings fail.
THEOREM WarmBrowsersBounded == Spec => []BrowsersBounded
<1>1. Init => BrowsersBounded
  <2> SUFFICES ASSUME Init  PROVE BrowsersBounded
    OBVIOUS
  <2>1. Tracked(pool) = {}  BY DEF Init, State, NoCtx, Tracked
  <2>2. QED  BY <2>1, FS_EmptySet, PoolConstants DEF BrowsersBounded
<1>2. Counts /\ BrowsersBounded /\ [Next]_vars => BrowsersBounded'
  <2> SUFFICES ASSUME Counts, BrowsersBounded, [Next]_vars  PROVE BrowsersBounded'
    OBVIOUS
  <2>0. IsFiniteSet(Tracked(pool)) /\ Cardinality(Tracked(pool)) <= Size /\ Size \in Nat
    BY FS_Subset, PoolConstants, Tracked(pool) \in SUBSET Keys DEF Tracked, BrowsersBounded
  <2>1. ASSUME \A k \in Keys : pool'.ctx[k] \in {pool.ctx[k], None}
        PROVE  BrowsersBounded'
    <3>1. Tracked(pool') \in SUBSET Tracked(pool)  BY <2>1 DEF Tracked
    <3>2. Cardinality(Tracked(pool')) <= Cardinality(Tracked(pool))
      BY <2>0, <3>1, FS_Subset
    <3>3. Cardinality(Tracked(pool)) \in Nat /\ Cardinality(Tracked(pool')) \in Nat
      BY <2>0, <3>1, FS_Subset, FS_CardinalityType
    <3>4. QED  BY <2>0, <3>2, <3>3 DEF BrowsersBounded
  <2>2. ASSUME NEW t \in Crawls, Launch(t)  PROVE BrowsersBounded'
    <3> DEFINE k == job[t].key
    <3>1. job[t].pc = "get" /\ k \in Keys  BY <2>2, LaunchAdds
    <3>2. PICK ks \in Evictions, c \in Ctxs : \E o \in Closings(pool, ks) : Added(t, ks, c, o)
      BY <2>2, LaunchAdds
    <3>3. PICK o \in Closings(pool, ks) : Added(t, ks, c, o)  BY <3>2
    <3> DEFINE kept == Tracked(pool) \ ks
    <3>4. Tracked(pool') \in SUBSET (kept \cup {k})
      BY <3>1, <3>3, EvictionKeys DEF Added, Tracked
    <3>5. IsFiniteSet(kept) /\ Cardinality(kept) < Size
      BY <3>1, EvictionMakesRoom
    <3> HIDE DEF kept, k
    <3>6. /\ IsFiniteSet(kept \cup {k})
          /\ Cardinality(kept \cup {k}) \in {Cardinality(kept), Cardinality(kept) + 1}
      BY <3>5, FS_AddElement
    <3>7. /\ Cardinality(kept) \in Nat /\ Cardinality(Tracked(pool')) \in Nat
          /\ Cardinality(Tracked(pool')) <= Cardinality(kept \cup {k})
      BY <3>4, <3>5, <3>6, FS_Subset, FS_CardinalityType
    <3>8. QED  BY <2>0, <3>5, <3>6, <3>7 DEF BrowsersBounded
  <2>3. CASE UNCHANGED vars  BY <2>3 DEF vars, BrowsersBounded
  <2>4. QED  BY <2>1, <2>2, <2>3, OnlyLaunchAdds DEF Sheds
<1>3. QED  BY CountsInit, CountsStep, <1>1, <1>2, PTL DEF Spec

---------------------------------------------------------------------------
(* What interrupts a crawl.                                                *)

\* The actions of one crawl.
Step(t) ==
  \/ \E k \in Keys : Fetch(t, k)
  \/ Admit(t) \/ Get(t) \/ Page(t) \/ Tidy(t) \/ Cancel(t) \/ CancelLaunch(t)

\* A crawl goes on with the lease it had.
KeepsLease(t) ==
  /\ job[t].pc \in Leases
  /\ job'[t].key = job[t].key /\ job'[t].ctx = job[t].ctx

\* Nobody's lease is touched by another crawl.
LEMMA OthersKeep ==
  ASSUME Counts, NEW t \in Crawls, Step(t), NEW x \in Crawls, x # t
  PROVE  /\ job'[x] \in {job[x], Roused[x]}
         /\ job[x].pc \in Leases \/ job'[x].pc \in Leases => job'[x] = job[x]
<1>1. \E jobs : \E w \in Job : Accounts(t, w, jobs)
  BY AskEffect, ReuseEffect, LaunchEffect, LaunchFailsEffect, CancelLaunchEffect,
     PageEffect, DiscardEffect, ReleaseEffect, CancelEffect
     DEF Step, Get, Page, Tidy, Counts
<1>2. PICK jobs : \E w \in Job : Accounts(t, w, jobs)  BY <1>1
<1>3. PICK w \in Job : Accounts(t, w, jobs)  BY <1>2
<1>4. jobs \in {job, Roused} /\ job' = [jobs EXCEPT ![t] = w]  BY <1>3 DEF Accounts
<1>5. job \in [Crawls -> Job] /\ Roused \in [Crawls -> Job]
  BY RousedFacts DEF Counts, Types
<1>6. job'[x] = jobs[x]  BY <1>4, <1>5
<1>7. Roused[x] = IF job[x].pc = "parked"
                  THEN Work("get", job[x].key, None, job[x].retry) ELSE job[x]
  BY DEF Roused
<1>8. Roused[x].pc \in Leases \/ job[x].pc \in Leases => Roused[x] = job[x]
  BY <1>7 DEF Work, Leases
<1>9. QED  BY <1>4, <1>6, <1>8

\* A lease is one the crawl had, or it is taken in this step.
LEMMA LeaseMoves ==
  ASSUME Counts, NEW t \in Crawls, Step(t), NEW x \in Crawls, job'[x].pc \in Leases
  PROVE  KeepsLease(x) \/ (x = t /\ (Reuse(t) \/ Launch(t)))
<1>0. job \in [Crawls -> Job] /\ Roused \in [Crawls -> Job] /\ Types
  BY RousedFacts DEF Counts, Types
<1>1. CASE x # t
  BY <1>1, OthersKeep DEF KeepsLease
<1>2. CASE x = t /\ ((\E k \in Keys : Fetch(t, k)) \/ Admit(t) \/ Park(t) \/ BackOff(t))
  BY <1>0, <1>2 DEF Fetch, Admit, Park, BackOff, At, Work, Idle, Leases
<1>3. CASE x = t /\ Page(t)
  BY <1>0, <1>3 DEF Page, Done, Closed, Work, KeepsLease, Leases
<1>4. CASE x = t /\ (ClosePage(t) \/ CloseFails(t))
  BY <1>0, <1>4 DEF ClosePage, CloseFails, At, Work, KeepsLease, Leases
<1>5. CASE x = t /\ (Invalidate(t) \/ Discard(t))
  <2>1. \E jobs \in {job, Roused}, pc \in {"close", "release"} :
          job' = [jobs EXCEPT ![t] = At(t, pc)]
    BY <1>5 DEF Invalidate, Discard, Settle
  <2>2. \E pc \in {"close", "release"} : job'[t] = At(t, pc)  BY <1>0, <2>1
  <2>3. job[t].pc \in Leases  BY <1>5 DEF Invalidate, Discard, Leases
  <2>4. QED  BY <1>5, <2>2, <2>3 DEF At, Work, KeepsLease
<1>6. CASE x = t /\ Release(t)
  <2>1. \E jobs \in {job, Roused} : job' = [jobs EXCEPT ![t] = NextAttempt(t)]
    BY <1>6 DEF Release, Settle
  <2>2. job'[t] = NextAttempt(t)  BY <1>0, <2>1
  <2>3. QED  BY <1>6, <2>2 DEF NextAttempt, Work, Idle, Leases
<1>7. CASE x = t /\ Cancel(t)
  <2>1. job'[t] = IF job[t].pc \in Asking THEN Idle
                  ELSE Work(IF job[t].pc = "leased" THEN "close" ELSE job[t].pc,
                            job[t].key, job[t].ctx, "no")
    BY <1>0, <1>7 DEF Cancel
  <2>2. job[t].pc \in Leases
    BY <1>0, <1>7, <2>1, JobFacts DEF Cancel, Idle, Work, Leases
  <2>3. job[t].pc \notin Asking  BY <2>2 DEF Leases, Asking
  <2>4. QED  BY <1>7, <2>1, <2>2, <2>3 DEF Work, KeepsLease
<1>8. CASE x = t /\ (LaunchFails(t) \/ CancelLaunch(t))
  <2>1. \E jobs \in {job, Roused} : job' = [jobs EXCEPT ![t] = Idle]
    BY <1>8 DEF LaunchFails, CancelLaunch, Settle, Notified
  <2>2. job'[t] = Idle  BY <1>0, <2>1
  <2>3. QED  BY <1>8, <2>2 DEF Idle, Work, Leases
<1>9. QED
  BY <1>1, <1>2, <1>3, <1>4, <1>5, <1>6, <1>7, <1>8 DEF Step, Get, Tidy

\* The pool is whole: browsers are up only under a running driver, only for
\* contexts it tracks, each for one key, and a lease of a tracked context is a
\* lease of that context's key.
Whole ==
  /\ pool.driver # "on" => open = {}
  /\ open \subseteq TrackedIn(pool)
  /\ \A h, k \in Keys : pool.ctx[h] = pool.ctx[k] => h = k \/ pool.ctx[k] = None
  /\ \A x \in Crawls, k \in Keys :
       job[x].pc \in Leases /\ job[x].ctx = pool.ctx[k] => job[x].key = k

\* An empty pool is whole.
LEMMA WholeInit == Init => Whole
BY DEF Init, Whole, State, NoCtx, Idle, Work, Leases, TrackedIn

\* A launch keeps the pool whole: its context is fresh.
LEMMA LaunchWhole ==
  ASSUME Counts, Whole, NEW t \in Crawls, Launch(t)
  PROVE  Whole'
<1> DEFINE k == job[t].key
<1>0. job[t].pc = "get" /\ k \in Keys /\ pool.ctx[k] = None /\ Step(t)
  BY LaunchAdds DEF Step, Get
<1>1. PICK ks \in Evictions, c \in Ctxs : \E o \in Closings(pool, ks) : Added(t, ks, c, o)
  BY LaunchAdds
<1>2. PICK o \in Closings(pool, ks) : Added(t, ks, c, o)  BY <1>1
<1>3. /\ c \notin TrackedIn(pool) /\ \A x \in Crawls : job[x].ctx # c
      /\ c # None
  BY <1>2, PoolConstants DEF Added, Fresh, Unused
<1>4. /\ pool'.ctx[k] = c
      /\ \A h \in Keys : h # k => pool'.ctx[h] \in {pool.ctx[h], None}
      /\ \A h \in Keys : h # k => pool'.ctx[h] = o.pool.ctx[h]
      /\ o.pool.ctx[k] = None
  BY <1>0, <1>2 DEF Added
<1>5. \A h \in Keys : pool'.ctx[h] = c <=> h = k
  BY <1>0, <1>3, <1>4 DEF TrackedIn, Tracked
<1>6. open' \subseteq (open \cap TrackedIn(o.pool)) \cup {c} /\ pool'.driver = "on"
  BY <1>2 DEF Added, KeepOpen
<1>7. \A x \in Crawls : job'[x].pc \in Leases =>
        \/ x = t /\ job'[x] = Leased(t, c)
        \/ KeepsLease(x) /\ job'[x].ctx # c
  BY <1>0, <1>2, <1>3, LeaseMoves DEF Added, KeepsLease, Reuse
<1>8. TrackedIn(o.pool) \cup {c} \subseteq TrackedIn(pool')
  BY <1>0, <1>3, <1>4 DEF TrackedIn, Tracked
<1>9. (pool.driver # "on" => open = {})'  BY <1>6
<1>10. (open \subseteq TrackedIn(pool))'  BY <1>6, <1>8
<1>11. (\A h, j \in Keys : pool.ctx[h] = pool.ctx[j] => h = j \/ pool.ctx[j] = None)'
  BY <1>3, <1>4, <1>5 DEF Whole
<1>12. ASSUME NEW x \in Crawls, NEW h \in Keys,
              job'[x].pc \in Leases, job'[x].ctx = pool'.ctx[h]
       PROVE  job'[x].key = h
  <2>1. CASE x = t /\ job'[x] = Leased(t, c)
    BY <1>5, <1>12, <2>1 DEF Leased, Work
  <2>2. CASE KeepsLease(x) /\ job'[x].ctx # c
    <3>1. job[x].ctx # None /\ job[x].pc \in Leases
      BY <2>2, JobFacts, PoolConstants DEF KeepsLease, Counts, Types
    <3>2. h # k /\ pool.ctx[h] = job[x].ctx
      BY <1>4, <1>12, <2>2, <3>1 DEF KeepsLease
    <3>3. QED  BY <2>2, <3>1, <3>2 DEF Whole, KeepsLease
  <2>3. QED  BY <1>7, <1>12, <2>1, <2>2
<1>13. QED  BY <1>9, <1>10, <1>11, <1>12 DEF Whole

\* So does a step that launches nothing.
LEMMA ShedWhole ==
  ASSUME Counts, Whole, Sheds,
         \A x \in Crawls : job'[x].pc \in Leases => KeepsLease(x) \/ Reuse(x)
  PROVE  Whole'
<1>0. job \in [Crawls -> Job] /\ pool \in Pool  BY DEF Counts, Types
<1>1. (pool.driver # "on" => open = {})'  BY DEF Whole, Sheds
<1>2. (open \subseteq TrackedIn(pool))'
  <2>1. pool'.ctx = pool.ctx => TrackedIn(pool') = TrackedIn(pool)
    BY DEF TrackedIn, Tracked
  <2>2. QED  BY <2>1 DEF Whole, Sheds
<1>3. (\A h, j \in Keys : pool.ctx[h] = pool.ctx[j] => h = j \/ pool.ctx[j] = None)'
  BY DEF Whole, Sheds
<1>4. ASSUME NEW x \in Crawls, NEW h \in Keys,
             job'[x].pc \in Leases, job'[x].ctx = pool'.ctx[h]
      PROVE  job'[x].key = h
  <2>1. CASE KeepsLease(x)
    <3>1. job[x].ctx # None /\ job[x].pc \in Leases
      BY <1>0, <2>1, JobFacts, PoolConstants DEF KeepsLease
    <3>2. pool.ctx[h] = job[x].ctx  BY <1>4, <2>1, <3>1 DEF KeepsLease, Sheds
    <3>3. QED  BY <2>1, <3>1, <3>2 DEF Whole, KeepsLease
  <2>2. CASE Reuse(x)
    <3>1. /\ job[x].pc = "get" /\ pool.ctx[job[x].key] # None
          /\ job'[x] = Leased(x, pool.ctx[job[x].key])
          /\ pool'.ctx = pool.ctx
      BY <1>0, <2>2 DEF Reuse, State
    <3>2. job[x].key \in Keys  BY <1>0, <3>1, JobFacts DEF Asking
    <3>3. job'[x].key = job[x].key /\ job'[x].ctx = pool.ctx[job[x].key]
      BY <3>1 DEF Leased, Work
    <3>4. QED  BY <1>4, <3>1, <3>2, <3>3 DEF Whole
  <2>3. QED  BY <1>4, <2>1, <2>2
<1>5. QED  BY <1>1, <1>2, <1>3, <1>4 DEF Whole

\* Every step keeps the pool whole.
LEMMA WholeStep == Counts /\ Whole /\ [Next]_vars => Whole'
<1> SUFFICES ASSUME Counts, Whole, [Next]_vars  PROVE Whole'
  OBVIOUS
<1>1. CASE \E t \in Crawls : Launch(t)
  BY <1>1, LaunchWhole
<1>2. CASE Next /\ \A t \in Crawls : ~Launch(t)
  <2>1. Sheds  BY <1>2, OnlyLaunchAdds
  <2>2. ASSUME NEW t \in Crawls, Step(t)  PROVE Whole'
    BY <1>2, <2>1, <2>2, LeaseMoves, ShedWhole
  <2>3. ASSUME job' = job  PROVE Whole'
    BY <2>1, <2>3, ShedWhole DEF KeepsLease
  <2>4. \/ \E t \in Crawls : Step(t)
        \/ job' = job
    BY <1>2 DEF Next, Step, Crash, BackoffOver, DriverDies, CloseAll
  <2>5. QED  BY <2>2, <2>3, <2>4
<1>3. CASE UNCHANGED vars
  BY <1>3 DEF vars, Whole
<1>4. QED  BY <1>1, <1>2, <1>3

\* A failure or a cancellation is on record in used.
LEMMA FaultCounts ==
  ASSUME Types, used' = used
  PROVE  /\ \A n \in Nat : Faults(n) => n = 0
         /\ ~Cancelled
BY DEF Types, Faults, Cancelled

\* Closing a healthy driver's healthy contexts without a failure drops these and
\* no others.
LEMMA HealthyClosing ==
  ASSUME Whole, NEW p \in Pool, p.ctx = pool.ctx, p.driver = "on",
         NEW ks \in SUBSET Keys, {p.ctx[k] : k \in ks} \subseteq open,
         NEW o \in Closings(p, ks), o.faults = 0,
         NEW k \in Keys \ ks, pool.ctx[k] \in open
  PROVE  pool.ctx[k] \in KeepOpen(o.pool)
<1>1. o.pool.ctx[k] = pool.ctx[k]  BY ClosingsTracked
<1>2. pool.ctx[k] # None
  BY DEF Whole, TrackedIn, Tracked
<1>3. QED  BY <1>1, <1>2 DEF KeepOpen, TrackedIn, Tracked

\* Without trouble and without a failure or a cancellation in the step, the
\* browser of a leased page stays, unless another lease of it has lost its page.
LEMMA NothingInterrupts ==
  ASSUME Counts, Whole, Next, ~InTrouble, used' = used,
         NEW t \in Crawls, job[t].pc = "leased", job[t].ctx \in open,
         ~PageLost(job[t].ctx)
  PROVE  job[t].ctx \in open'
<1> DEFINE k == job[t].key
           c == job[t].ctx
<1>0. /\ Types /\ pool \in Pool /\ LeasesExact
      /\ job \in [Crawls -> Job]
  BY DEF Counts, Types
<1>1. job[t].pc \in Leases /\ k \in Keys /\ pool.lent[k] \in Nat \ {0}
  BY <1>0, Counted DEF Leases
<1>2. pool.ctx[k] = c /\ c # None
  BY <1>1 DEF Whole, TrackedIn, Tracked
<1>3. pool.driver = "on"  BY DEF Whole
<1>4. \A j \in Keys : pool.ctx[j] # None => pool.ctx[j] \in open
  BY DEF InTrouble, TrackedIn, Tracked
<1>5. \A n \in Nat : Faults(n) => n = 0
  BY <1>0, FaultCounts
<1>6. ~Cancelled /\ ~Faults(1)
  <2>1. 1 \in Nat /\ 1 # 0  OBVIOUS
  <2>2. QED  BY <1>0, <2>1, FaultCounts
<1>7. ASSUME NEW ks \in Evictions, NEW o \in Closings(pool, ks), o.faults = 0
      PROVE  c \in KeepOpen(o.pool)
  <2>1. ks \in SUBSET Keys /\ k \notin ks
    BY <1>1, EvictionKeys
  <2>2. {pool.ctx[j] : j \in ks} \subseteq open
    BY <1>4 DEF Evictions, Tracked
  <2>3. QED  BY <1>0, <1>1, <1>2, <1>3, <1>7, <2>1, <2>2, HealthyClosing
<1>8. ASSUME NEW x \in Crawls, Launch(x)  PROVE c \in open'
  <2>1. PICK ks \in Evictions, d \in Ctxs : \E o \in Closings(pool, ks) : Added(x, ks, d, o)
    BY <1>8, LaunchAdds
  <2>2. PICK o \in Closings(pool, ks) : Added(x, ks, d, o)  BY <2>1
  <2>3. o.faults = 0
    BY <1>0, <1>5, <2>2, EvictionKeys, ClosingsFacts DEF Added
  <2>4. QED  BY <1>7, <2>2, <2>3 DEF Added
<1>9. ASSUME NEW x \in Crawls, LaunchFails(x)  PROVE FALSE
  <2>1. PICK ks \in Evictions, how \in {"error", "late"} : \E o \in Closings(pool, ks) :
          Faults(IF o.pool.driver = "dead" THEN o.faults ELSE o.faults + 1)
    BY <1>9 DEF LaunchFails, Settle, Outcome
  <2>2. PICK o \in Closings(pool, ks) :
          Faults(IF o.pool.driver = "dead" THEN o.faults ELSE o.faults + 1)
    BY <2>1
  <2>3. o.pool.driver # "dead" /\ o.faults \in Nat
    BY <1>0, <1>3, EvictionKeys, ClosingsFacts, ClosingsTracked
  <2>4. Faults(o.faults + 1)  BY <2>2, <2>3
  <2>5. QED  BY <1>5, <2>3, <2>4
<1>10. ASSUME NEW x \in Crawls, Invalidate(x) \/ Discard(x)  PROVE c \in open'
  <2> DEFINE h == job[x].key
  <2>1. CASE UNCHANGED open  BY <2>1
  <2>2. CASE Discard(x) /\ Current(x)
    BY <2>2 DEF Discard, InTrouble
  <2>3. CASE Invalidate(x) /\ Current(x)
    <3>1. job[x].pc = "broken" /\ h \in Keys /\ job[x].ctx \in Ctxs
      BY <1>0, <2>3, JobFacts DEF Invalidate, Leases
    <3>2. h # k
      BY <1>2, <2>3, <3>1 DEF Current, PageLost
    <3>3. PICK o \in Closings(pool, {h}) : open' = KeepOpen(o.pool) /\ Faults(o.faults)
      BY <2>3 DEF Invalidate, Settle
    <3>4. o.faults = 0
      BY <1>0, <1>5, <3>1, <3>3, ClosingsFacts
    <3>5. {pool.ctx[j] : j \in {h}} \subseteq open
      BY <1>4, <2>3, <3>1, PoolConstants DEF Current
    <3>6. {h} \in SUBSET Keys /\ k \in Keys \ {h} /\ pool.ctx[k] \in open
      BY <1>1, <1>2, <3>1, <3>2
    <3>7. pool.ctx[k] \in KeepOpen(o.pool)
      BY <1>0, <1>3, <3>3, <3>4, <3>5, <3>6, HealthyClosing
    <3>8. QED  BY <1>2, <3>3, <3>7
  <2>4. QED  BY <1>10, <2>1, <2>2, <2>3 DEF Invalidate, Discard
<1>11. ASSUME NEW x \in Crawls, Release(x)  PROVE c \in open'
  <2>1. PICK expired \in BOOLEAN : \E o \in Retirements(x, Returned(x, expired)) :
          pool' = o.pool /\ open' = KeepOpen(o.pool) /\ Faults(o.faults)
    BY <1>11 DEF Release, Settle
  <2> DEFINE p == Returned(x, expired)
             h == job[x].key
  <2>2. PICK o \in Retirements(x, p) :
          pool' = o.pool /\ open' = KeepOpen(o.pool) /\ Faults(o.faults)
    BY <2>1
  <2>3. job[x].pc = "release" /\ h \in Keys /\ job[x].ctx \in Ctxs /\ x # t
    BY <1>0, <1>11, JobFacts DEF Release, Leases
  <2>4. p \in Pool /\ p.ctx = pool.ctx /\ p.driver = "on"
    BY <1>0, <1>3, <2>3, ReturnedFacts DEF Returned, State
  <2> HIDE DEF p
  <2>5. CASE o.pool = p
    <3>1. c \in TrackedIn(p)  BY <1>1, <1>2, <2>4 DEF TrackedIn, Tracked
    <3>2. QED  BY <2>2, <2>5, <3>1 DEF KeepOpen
  <2>6. CASE o.pool # p
    <3>1. p.lent[h] = 0
      <4>1. p.lent[h] \in Nat  BY <2>3, <2>4, PoolParts
      <4>2. QED  BY <2>6, <4>1 DEF Retirements, Outcome
    <3>2. PICK q \in Closings(p, {h}) :
            /\ o.pool = q.pool
            /\ o.faults = 0 => q.faults = 0
            /\ p.ctx[h] # None
      <4>1. PICK q \in Closings(p, {h}) :
              /\ o.pool = q.pool
              /\ o.faults \in {q.faults, q.faults + 1}
              /\ p.ctx[h] # None
        <5>1. Current(x) => p.ctx[h] # None  BY <2>3, <2>4, PoolConstants DEF Current
        <5>2. QED  BY <2>6, <5>1 DEF Retirements, Outcome
      <4>2. q.faults \in Nat  BY <2>3, <2>4, ClosingsFacts
      <4>3. QED  BY <4>1, <4>2
    <3>3. o.faults = 0
      BY <1>0, <1>5, <2>2, <2>3, <2>4, RetirementsFacts
    <3>4. pool'.lent[h] = 0  BY <2>2, <2>3, <2>4, <3>1, <3>2, ClosingsFacts
    <3>5. h # k
      <4>1. job'[t] = job[t]
        BY <1>1, <1>11, <2>3, OthersKeep DEF Step, Tidy
      <4>2. PICK i \in Keys : i = k  BY <1>1
      <4>3. pool'.lent[i] = Cardinality(LeasesOf(i)')
        BY CountsStep DEF Counts, LeasesExact
      <4>4. t \in LeasesOf(i)'  BY <1>1, <4>1, <4>2 DEF LeasesOf
      <4>5. IsFiniteSet(LeasesOf(i)')
        BY FS_Subset, PoolConstants, LeasesOf(i)' \in SUBSET Crawls DEF LeasesOf
      <4>6. pool'.lent[i] # 0  BY <4>3, <4>4, <4>5, FS_EmptySet
      <4>7. QED  BY <3>4, <4>2, <4>6
    <3>6. {p.ctx[j] : j \in {h}} \subseteq open
      BY <1>4, <2>3, <2>4, <3>2
    <3>7. {h} \in SUBSET Keys /\ k \in Keys \ {h} /\ pool.ctx[k] \in open
      BY <1>1, <1>2, <2>3, <3>5
    <3>8. pool.ctx[k] \in KeepOpen(q.pool)
      BY <2>4, <3>2, <3>3, <3>6, <3>7, HealthyClosing
    <3>9. QED  BY <1>2, <2>2, <3>2, <3>8
  <2>7. QED  BY <2>5, <2>6
<1>12. CASE \E x \in Crawls :
              \/ \E j \in Keys : Fetch(x, j)
              \/ Admit(x) \/ Park(x) \/ Reuse(x) \/ BackOff(x) \/ Page(x)
              \/ ClosePage(x) \/ CloseFails(x)
  BY <1>12 DEF Fetch, Admit, Park, Reuse, BackOff, Page, Done, Closed, ClosePage,
               CloseFails
<1>13. CASE \E x \in Crawls : Cancel(x) \/ CancelLaunch(x)
  BY <1>6, <1>13 DEF Cancel, CancelLaunch
<1>14. CASE \/ \E d \in Ctxs : Crash(d)
            \/ \E j \in Keys : BackoffOver(j)
            \/ DriverDies
  BY <1>6, <1>14 DEF Crash, BackoffOver, DriverDies
<1>15. CASE CloseAll
  BY <1>15 DEF CloseAll, Idle, Work
<1>16. QED
  BY <1>8, <1>9, <1>10, <1>11, <1>12, <1>13, <1>14, <1>15 DEF Next, Get, Tidy

\* Recycling, eviction and the late failure of an old lease never close a
\* healthy context under a crawl, at any size of the pool and of the budget of
\* failures; only a page that is lost on that very context does.
THEOREM LeasesUninterrupted == Spec => OnlyFailuresInterrupt
<1> DEFINE Unharmed == \A t \in Crawls :
             (job[t].pc = "leased" /\ job[t].ctx \in open \ open')
               => used' # used \/ InTrouble \/ PageLost(job[t].ctx)
<1>1. Counts /\ Whole /\ [Next]_vars => [Unharmed]_vars
  BY NothingInterrupts
<1>2. QED  BY CountsInit, CountsStep, WholeInit, WholeStep, <1>1, PTL DEF Spec, OnlyFailuresInterrupt

=============================================================================
