------------------------- MODULE CrawlQueueProofs -------------------------
(***************************************************************************)
(* Proofs about CrawlQueue, for any number of URLs, processes, runners and *)
(* clients and any bounds: the types, that no claim is stranded, and that  *)
(* the in-flight map is exact.  The second part holds of one process on    *)
(* the table only, because a second one resets the claims of the first: no *)
(* claim has two holders, a row fails only when its budget is spent, the   *)
(* budget grows with restarts only, a paused tick keeps to manual seeds,   *)
(* and the queue implements JobQueue.                                      *)
(***************************************************************************)
EXTENDS CrawlQueue, TLAPS

---------------------------------------------------------------------------
(* The statements of db.py keep the table's type.                          *)

\* INSERT ... ON CONFLICT DO NOTHING keeps the types of row and fetched.
LEMMA EnqueueType ==
  ASSUME row \in [Urls -> Row], fetched \in [Urls -> BOOLEAN], NEW u \in Urls,
         NEW lane \in {"fast", "cf"}, NEW source \in {"manual", "other"},
         queue_enqueue(u, lane, source)
  PROVE  row' \in [Urls -> Row] /\ fetched' \in [Urls -> BOOLEAN]
<1>1. Entry("pending", lane, 0, source) \in Row
  BY DEF Entry, Row, Status
<1>2. CASE Active(u)   BY <1>2 DEF queue_enqueue
<1>3. CASE ~Active(u)  BY <1>1, <1>3 DEF queue_enqueue
<1>4. QED  BY <1>2, <1>3

\* What an UPDATE makes of one row is a row.
LEMMA RowType ==
  ASSUME NEW r \in Row, NEW x \in Status
  PROVE  /\ Leased(r) \in Row /\ GivenBack(r) \in Row /\ Routed(r) \in Row
         /\ Marked(r, x) \in Row
BY DEF Row, Status, Entry, Leased, GivenBack, Routed, Marked

\* Each UPDATE keeps the type of row.
LEMMA UpdateType ==
  ASSUME row \in [Urls -> Row], NEW u \in Urls,
         NEW status \in {"pending", "done", "failed"},
         \/ queue_claim(u)
         \/ queue_release(u)
         \/ queue_finish(u, status)
         \/ queue_route_to_cf(u)
  PROVE  row' \in [Urls -> Row]
<1>1. /\ Leased(row[u]) \in Row /\ GivenBack(row[u]) \in Row
      /\ Routed(row[u]) \in Row /\ Marked(row[u], status) \in Row
  BY RowType DEF Status
<1>2. QED
  BY <1>1 DEF queue_claim, queue_release, queue_finish, queue_route_to_cf

\* So does the reset of a boot.
LEMMA ResetType ==
  ASSUME row \in [Urls -> Row], queue_reset_in_flight
  PROVE  row' \in [Urls -> Row]
<1>1. \A v \in Urls : Marked(row[v], "pending") \in Row
  BY RowType DEF Status
<1>2. QED  BY <1>1 DEF queue_reset_in_flight

\* A task that moves to another program counter, or to idle, keeps its type.
LEMMA GotoType ==
  ASSUME job \in [Tasks -> Job], NEW t \in Tasks, NEW l \in Pc, Goto(t, l),
         \A w \in Tasks : job[w].pc # "idle" => job[w].url \in Urls,
         job[t].pc # "idle"
  PROVE  /\ job' \in [Tasks -> Job]
         /\ \A w \in Tasks : job'[w].pc # "idle" => job'[w].url \in Urls
<1>1. Idle \in Job /\ Idle.pc = "idle"
  BY DEF Idle, Work, Job, Pc, Kind, Outcome
<1>2. QED  BY <1>1 DEF Goto, Job

\* What Spend leaves of the counters is again a record of naturals.
LEMMA SpendType ==
  ASSUME used \in [Bounds -> Nat], NEW what \in Bounds, NEW bound,
         Spend(what, bound)
  PROVE  used' \in [Bounds -> Nat] /\ used'[what] > 0
BY DEF Spend

\* What a task is given to do, and what it is told, is a job.
LEMMA WorkType ==
  ASSUME NEW pc \in Pc, NEW u \in Urls \cup {None}, NEW kind \in Kind,
         NEW need \in BOOLEAN, NEW out \in Outcome
  PROVE  /\ Work(pc, u, kind, need, out) \in Job
         /\ Work(pc, u, kind, need, out).url = u
         /\ Work(pc, u, kind, need, out).pc = pc
BY DEF Work, Job

\* So is what a task becomes when it has learned its outcome.
LEMMA ToldType ==
  ASSUME job \in [Tasks -> Job], NEW t \in Tasks, NEW pc \in Pc, NEW out \in Outcome,
         job[t].url \in Urls
  PROVE  Told(t, pc, out) \in Job /\ Told(t, pc, out).url \in Urls
<1>1. job[t].kind \in Kind /\ job[t].need \in BOOLEAN  BY DEF Job
<1>2. QED  BY <1>1, WorkType DEF Told

\* Idle is a job at "idle".
LEMMA IdleType == Idle \in Job /\ Idle.pc = "idle"
BY DEF Idle, Work, Job, Pc, Kind, Outcome

\* A task that gets a new job keeps the type of job.
LEMMA JobType ==
  ASSUME job \in [Tasks -> Job], NEW t \in Tasks, NEW w \in Job,
         \A x \in Tasks : job[x].pc # "idle" => job[x].url \in Urls,
         w.pc # "idle" => w.url \in Urls,
         job' = [job EXCEPT ![t] = w]
  PROVE  /\ job' \in [Tasks -> Job]
         /\ \A x \in Tasks : job'[x].pc # "idle" => job'[x].url \in Urls
OBVIOUS

\* An in-flight map with a new entry is an in-flight map.
LEMMA OwnerType ==
  ASSUME owner \in [Procs -> [Urls -> Tasks \cup {None}]], NEW p \in Procs,
         NEW u \in Urls, NEW t \in Tasks \cup {None},
         owner' = [owner EXCEPT ![p][u] = t]
  PROVE  owner' \in [Procs -> [Urls -> Tasks \cup {None}]]
OBVIOUS

---------------------------------------------------------------------------
(* Type correctness.                                                       *)

\* The initial states have the types TypeOK gives them.
LEMMA InitType == Init => TypeOK
<1>1. NoRow \in Row  BY DEF NoRow, Row, Status
<1>3. ASSUME Init
      PROVE  /\ row \in [Urls -> Row]
             /\ page \in [Urls -> {"absent", "fresh", "stale", "backoff"}]
             /\ job \in [Tasks -> Job]
             /\ \A t \in Tasks : job[t].pc = "idle"
  BY <1>1, <1>3, IdleType DEF Init
<1>4. ASSUME Init
      PROVE  /\ used \in [Bounds -> Nat]
             /\ owner \in [Procs -> [Urls -> Tasks \cup {None}]]
             /\ fetched \in [Urls -> BOOLEAN]
             /\ todo \in [Procs -> SUBSET Urls]
  BY <1>4 DEF Init
<1>5. ASSUME Init
      PROVE  /\ mode \in [Procs -> {"down", "up", "stopping"}]
             /\ phase \in [Procs -> {"idle", "begin", "fast", "cf", "refresh"}]
             /\ manual \in [Procs -> BOOLEAN]
             /\ halt \in [Procs -> {"run", "deadline", "abort"}]
             /\ stranded \in SUBSET Urls /\ paused \in BOOLEAN /\ late \in SUBSET Urls
  BY <1>5 DEF Init
<1>6. QED  BY <1>3, <1>4, <1>5 DEF TypeOK

\* Every step of a process keeps the types: boot, stop, crash, tick phases.
LEMMA ProcessType ==
  ASSUME TypeOK, NEW p \in Procs,
         \/ Boot(p) \/ BeginStop(p) \/ EndStop(p) \/ Crash(p)
         \/ StartTick(p) \/ NextPhase(p) \/ Deadline(p)
  PROVE  TypeOK'
<1> USE DEF TypeOK, db, ctl, tick, tasks
<1>1. CASE Boot(p)       BY <1>1, ResetType, SpendType DEF Bounds, Boot
<1>2. CASE BeginStop(p)  BY <1>2 DEF BeginStop
<1>3. CASE EndStop(p)    BY <1>3 DEF EndStop
<1>4. CASE Crash(p)      BY <1>4, IdleType, ConstantsOK DEF Crash
<1>5. CASE StartTick(p)  BY <1>5 DEF StartTick
<1>6. CASE NextPhase(p)
  BY <1>6 DEF NextPhase, PhaseAfter, Selection, Ready, Watchlist, PhaseOver
<1>7. CASE Deadline(p)   BY <1>7, SpendType DEF Bounds, Deadline
<1>8. QED  BY <1>1, <1>2, <1>3, <1>4, <1>5, <1>6, <1>7

\* Every request, switch and passage of time keeps the types.
LEMMA RequestType ==
  ASSUME TypeOK,
         \/ SetPaused
         \/ \E u \in Urls : PageAges(u) \/ LateFault(u) \/ LateEnqueue(u)
         \/ \E u \in Urls, source \in Sources : Enqueue(u, source)
         \/ \E t \in Clients, u \in Urls : Fetch(t, u) \/ Refresh(t, u)
         \/ \E t \in Clients, requeue \in BOOLEAN : Orphan(t, requeue)
  PROVE  TypeOK'
<1> USE DEF TypeOK, db, ctl, tick, tasks
<1>1. CASE SetPaused  BY <1>1, SpendType DEF Bounds, SetPaused
<1>2. ASSUME NEW u \in Urls, PageAges(u) \/ LateFault(u)  PROVE TypeOK'
  BY <1>2, SpendType DEF Bounds, PageAges, LateFault
<1>3. ASSUME NEW u \in Urls, LateEnqueue(u)  PROVE TypeOK'
  BY <1>3, EnqueueType DEF LateEnqueue
<1>4. ASSUME NEW u \in Urls, NEW source \in Sources, Enqueue(u, source)
      PROVE  TypeOK'
  <2>1. source \in {"manual", "other"}  BY ConstantsOK
  <2>2. QED  BY <1>4, <2>1, EnqueueType, SpendType DEF Bounds, Enqueue
<1>5. ASSUME NEW t \in Clients, NEW u \in Urls, Fetch(t, u) \/ Refresh(t, u)
      PROVE  TypeOK'
  <2>1. PICK w \in Job : job' = [job EXCEPT ![t] = w] /\ w.url = u
    <3>1. CASE Fetch(t, u)
      <4> DEFINE w == Work("start", u, "probe", page[u] # "absent", "none")
      <4>1. w \in Job /\ w.url = u  BY DEF Work, Job, Pc, Kind, Outcome
      <4>2. job' = [job EXCEPT ![t] = w]  BY <3>1 DEF Fetch
      <4> HIDE DEF w
      <4>3. QED  BY <4>1, <4>2
    <3>2. CASE Refresh(t, u)
      <4> DEFINE w == Work("start", u, "direct", FALSE, "none")
      <4>1. w \in Job /\ w.url = u  BY DEF Work, Job, Pc, Kind, Outcome
      <4>2. job' = [job EXCEPT ![t] = w]  BY <3>2 DEF Refresh
      <4> HIDE DEF w
      <4>3. QED  BY <4>1, <4>2
    <3>3. QED  BY <1>5, <3>1, <3>2
  <2>2. /\ job' \in [Tasks -> Job]
        /\ \A x \in Tasks : job'[x].pc # "idle" => job'[x].url \in Urls
    BY <2>1, JobType DEF Tasks
  <2>3. used' \in [Bounds -> Nat]
    BY <1>5, SpendType DEF Fetch, Refresh, Bounds
  <2>4. QED  BY <1>5, <2>2, <2>3 DEF Fetch, Refresh
<1>6. ASSUME NEW t \in Clients, NEW requeue \in BOOLEAN, Orphan(t, requeue)
      PROVE  TypeOK'
  <2>1. /\ t \in Tasks /\ job[t] \in Job
        /\ job[t].pc \in Pc /\ job[t].out \in Outcome
        /\ job[t].url \in Urls \cup {None}
    BY DEF Tasks, Job
  <2> DEFINE w == Work(job[t].pc, job[t].url, "orphan", FALSE, job[t].out)
  <2>2. w \in Job /\ w.url = job[t].url /\ w.pc = job[t].pc
    BY <2>1 DEF Work, Job, Kind
  <2>3. job' = [job EXCEPT ![t] = w]
    BY <1>6 DEF Orphan
  <2> HIDE DEF w
  <2>4. /\ job' \in [Tasks -> Job]
        /\ \A x \in Tasks : job'[x].pc # "idle" => job'[x].url \in Urls
    BY <2>1, <2>2, <2>3, JobType
  <2>5. late' \in SUBSET Urls
    BY <1>6 DEF Orphan, Tasks
  <2>6. QED  BY <1>6, <2>4, <2>5 DEF Orphan
<1>7. QED  BY <1>1, <1>2, <1>3, <1>4, <1>5, <1>6

\* Every step of a runner or of a request's task keeps the types.
LEMMA StepType ==
  ASSUME TypeOK, NEW t \in Tasks, Step(t)
  PROVE  TypeOK'
<1> USE DEF TypeOK, db, ctl, tick, tasks
<1>1. CASE Take(t)
  <2>1. PICK u \in todo[ProcOf[t]] :
          /\ todo' = [todo EXCEPT ![ProcOf[t]] = @ \ {u}]
          /\ job' = [job EXCEPT ![t] =
               IF phase[ProcOf[t]] = "refresh"
               THEN Work("start", u, "refresh", TRUE, "none")
               ELSE Work("claim", u, phase[ProcOf[t]], FALSE, "none")]
    BY <1>1 DEF Take
  <2>2. ProcOf[t] \in Procs /\ u \in Urls
    BY <2>1, ConstantsOK
  <2>3. phase[ProcOf[t]] \in {"fast", "cf", "refresh"}
    BY <1>1 DEF Take
  <2>4. QED
    <3> DEFINE w == IF phase[ProcOf[t]] = "refresh"
                    THEN Work("start", u, "refresh", TRUE, "none")
                    ELSE Work("claim", u, phase[ProcOf[t]], FALSE, "none")
    <3>1. w \in Job /\ w.url = u
      BY <2>2, <2>3 DEF Work, Job, Pc, Kind, Outcome
    <3>2. job' = [job EXCEPT ![t] = w]  BY <2>1
    <3> HIDE DEF w
    <3>3. /\ job' \in [Tasks -> Job]
          /\ \A x \in Tasks : job'[x].pc # "idle" => job'[x].url \in Urls
      BY <2>2, <3>1, <3>2, JobType
    <3>4. todo' \in [Procs -> SUBSET Urls]
      BY <2>1, <2>2
    <3>5. QED  BY <1>1, <3>3, <3>4 DEF Take
<1>2. CASE Claim(t)  BY <1>2, UpdateType, GotoType DEF Claim, Pc
<1>3. CASE Start(t)
  <2>1. ProcOf[t] \in Procs /\ job[t].url \in Urls  BY <1>3, ConstantsOK DEF Start
  <2>2. owner' \in [Procs -> [Urls -> Tasks \cup {None}]]
    BY <1>3, <2>1, OwnerType DEF Start
  <2>3. Goto(t, "own") \/ Goto(t, "join")  BY <1>3 DEF Start
  <2>4. /\ job' \in [Tasks -> Job]
        /\ \A x \in Tasks : job'[x].pc # "idle" => job'[x].url \in Urls
    BY <1>3, <2>3, GotoType DEF Start, Pc
  <2>5. QED  BY <1>3, <2>2, <2>4 DEF Start
<1>4. ASSUME NEW out \in {"ok", "challenge", "error"}, Finish(t, out)
      PROVE  TypeOK'
  <2>1. ProcOf[t] \in Procs /\ job[t].url \in Urls  BY <1>4, ConstantsOK DEF Finish
  <2>2. owner' \in [Procs -> [Urls -> Tasks \cup {None}]]  BY <1>4, <2>1 DEF Finish
  <2>3. \A w \in Tasks : w = t \/ Waits(w, t) =>
          Told(w, "settle", out) \in Job /\ Told(w, "settle", out).url \in Urls
    BY <1>4, <2>1 DEF Told, Work, Waits, Job, Pc, Outcome
  <2>4. /\ job' \in [Tasks -> Job]
        /\ \A x \in Tasks : job'[x].pc # "idle" => job'[x].url \in Urls
    BY <1>4, <2>3 DEF Finish
  <2>5. /\ page' \in [Urls -> {"absent", "fresh", "stale", "backoff"}]
        /\ fetched' \in [Urls -> BOOLEAN]
    BY <1>4 DEF Finish
  <2>6. QED  BY <1>4, <2>2, <2>4, <2>5 DEF Finish
<1>5. CASE SettleOk(t)
  BY <1>5, UpdateType, GotoType DEF SettleOk, After, Pc
<1>6. CASE SettleChallenge(t)
  BY <1>6, UpdateType, EnqueueType, GotoType DEF SettleChallenge, After, Pc
<1>7. CASE SettleError(t)
  <2>1. CASE Drain(t)
    <3> DEFINE w == Told(t, "fail", queue_verdict(job[t].url))
    <3>1. w \in Job /\ w.url = job[t].url
      BY DEF Told, Work, queue_verdict, Job, Pc, Outcome
    <3>2. job' = [job EXCEPT ![t] = w]  BY <1>7, <2>1 DEF SettleError
    <3>3. job[t].pc # "idle"  BY <1>7 DEF SettleError
    <3> HIDE DEF w
    <3>4. /\ job' \in [Tasks -> Job]
          /\ \A x \in Tasks : job'[x].pc # "idle" => job'[x].url \in Urls
      BY <3>1, <3>2, <3>3, JobType
    <3>5. QED  BY <1>7, <3>4 DEF SettleError
  <2>2. CASE ~Drain(t)
    BY <1>7, <2>2, GotoType DEF SettleError, Pc
  <2>3. QED  BY <2>1, <2>2
<1>8. CASE Route(t)    BY <1>8, UpdateType, GotoType DEF Route, Pc
<1>9. CASE Bump(t)     BY <1>9, GotoType DEF Bump, refresh_fail_bump, Pc
<1>10. CASE Fail(t)    BY <1>10, UpdateType, GotoType DEF Fail, After, Pc
<1>11. CASE Release(t) BY <1>11, UpdateType, GotoType DEF Release, Pc
<1>12. QED
  BY <1>1, <1>2, <1>3, <1>4, <1>5, <1>6, <1>7, <1>8, <1>9, <1>10, <1>11 DEF Step

\* A cancellation and a failed statement keep the types.
LEMMA InterruptType ==
  ASSUME TypeOK, NEW t \in Tasks, Cancel(t) \/ DbFault(t)
  PROVE  TypeOK'
<1> USE DEF TypeOK, db, ctl, tick, tasks
<1> ProcOf[t] \in Procs  BY ConstantsOK
<1>1. CASE Cancel(t)
  <2>1. CASE job[t].pc = "own"
    <3>1. owner' \in [Procs -> [Urls -> Tasks \cup {None}]]
      BY <1>1, <2>1, OwnerType DEF Cancel
    <3>2. /\ Told(t, "release", "none") \in Job
          /\ Told(t, "release", "none").url \in Urls
      BY <2>1 DEF Told, Work, Job, Pc, Outcome
    <3>3. \A w \in Tasks : Waits(w, t) =>
            Told(w, "settle", "error") \in Job /\ Told(w, "settle", "error").url \in Urls
      BY DEF Told, Work, Waits, Job, Pc, Outcome
    <3>4. /\ job' \in [Tasks -> Job]
          /\ \A x \in Tasks : job'[x].pc # "idle" => job'[x].url \in Urls
      <4>1. \A w \in Tasks :
              \/ job'[w] \in Job /\ job'[w].url \in Urls
              \/ job'[w] = Idle
              \/ job'[w] = job[w]
        BY <1>1, <2>1, <3>2, <3>3 DEF Cancel
      <4>2. job' = [w \in Tasks |-> job'[w]]  BY <1>1, <2>1 DEF Cancel
      <4>3. QED  BY <4>1, <4>2, IdleType
    <3>5. QED  BY <1>1, <3>1, <3>4 DEF Cancel
  <2>2. CASE job[t].pc # "own"
    BY <1>1, <2>2, GotoType DEF Cancel, CancelTo, Pc
  <2>3. QED  BY <2>1, <2>2
<1>2. CASE DbFault(t)
  <2>1. job[t].pc # "idle" /\ job[t].url \in Urls  BY <1>2 DEF DbFault
  <2>2. Told(t, "settle", "error") \in Job /\ Told(t, "settle", "error").url \in Urls
    BY <2>1 DEF Told, Work, Job, Pc, Outcome
  <2>3. \/ job' = [job EXCEPT ![t] = Told(t, "settle", "error")]
        \/ \E l \in {"idle", "bump"} : Goto(t, l)
    BY <1>2 DEF DbFault, FaultTo
  <2>4. /\ job' \in [Tasks -> Job]
        /\ \A x \in Tasks : job'[x].pc # "idle" => job'[x].url \in Urls
    BY <2>1, <2>2, <2>3, GotoType, JobType DEF Pc
  <2>5. halt' \in [Procs -> {"run", "deadline", "abort"}]
    BY <1>2 DEF DbFault
  <2>6. used' \in [Bounds -> Nat]
    BY <1>2, SpendType DEF DbFault, Bounds
  <2>7. stranded' \in SUBSET Urls  BY <1>2 DEF DbFault
  <2>8. QED  BY <1>2, <2>4, <2>5, <2>6, <2>7 DEF DbFault
<1>3. QED  BY <1>1, <1>2

\* Every variable keeps its type in every reachable state: a row's status, lane
\* and attempts, the in-flight map, and the work of every task.
THEOREM TypeCorrect == Spec => []TypeOK
<1>1. Init => TypeOK  BY InitType
<1>2. TypeOK /\ [Next]_vars => TypeOK'
  <2> SUFFICES ASSUME TypeOK, [Next]_vars  PROVE TypeOK'
    OBVIOUS
  <2>1. CASE Next
    BY <2>1, ProcessType, RequestType, StepType, InterruptType DEF Next, Environment
  <2>2. CASE UNCHANGED vars
    BY <2>2 DEF TypeOK, vars, db, ctl, tick, tasks
  <2>3. QED  BY <2>1, <2>2
<1>3. QED  BY <1>1, <1>2, PTL DEF Spec

---------------------------------------------------------------------------
(* No claim is stranded: what the statements and the moves of a task do.   *)

\* Goto touches one task, and leaves it what it works on unless it goes idle.
LEMMA GotoEffect ==
  ASSUME job \in [Tasks -> Job], NEW t \in Tasks, NEW l \in Pc, Goto(t, l)
  PROVE  /\ \A w \in Tasks : w # t => job'[w] = job[w]
         /\ l = "idle" => job'[t].pc = "idle"
         /\ l # "idle" => /\ job'[t].pc = l
                          /\ job'[t].url = job[t].url
                          /\ job'[t].kind = job[t].kind
BY IdleType DEF Goto, Job

\* A new job touches one task.
LEMMA JobEffect ==
  ASSUME job \in [Tasks -> Job], NEW t \in Tasks, NEW w,
         job' = [job EXCEPT ![t] = w]
  PROVE  job'[t] = w /\ \A x \in Tasks : x # t => job'[x] = job[x]
OBVIOUS

\* What Work and Told write into a job.
LEMMA WorkFields ==
  ASSUME NEW pc, NEW u, NEW kind, NEW need, NEW out
  PROVE  /\ Work(pc, u, kind, need, out).pc = pc
         /\ Work(pc, u, kind, need, out).url = u
         /\ Work(pc, u, kind, need, out).kind = kind
BY DEF Work

\* The fields of what Told builds.
LEMMA ToldFields ==
  ASSUME NEW t \in Tasks, NEW pc, NEW out
  PROVE  /\ Told(t, pc, out).pc = pc
         /\ Told(t, pc, out).url = job[t].url
         /\ Told(t, pc, out).kind = job[t].kind
BY WorkFields DEF Told

\* A row that is released, finished or routed is not in flight afterwards.
LEMMA Settled ==
  ASSUME row \in [Urls -> Row], NEW u \in Urls,
         NEW status \in {"pending", "done", "failed"},
         queue_release(u) \/ queue_finish(u, status) \/ queue_route_to_cf(u)
  PROVE  /\ \A v \in Urls : v # u => row'[v] = row[v]
         /\ row'[u].status # "in_flight"
<1>1. /\ GivenBack(row[u]).status = "pending" /\ Routed(row[u]).status = "pending"
      /\ Marked(row[u], status).status = status
  BY DEF GivenBack, Routed, Marked, Entry
<1>2. CASE queue_release(u)          BY <1>1, <1>2 DEF queue_release, InFlight
<1>3. CASE queue_finish(u, status)   BY <1>1, <1>3 DEF queue_finish, InFlight
<1>4. CASE queue_route_to_cf(u)
  BY <1>1, <1>4 DEF queue_route_to_cf, Active
<1>5. QED  BY <1>2, <1>3, <1>4

\* A claim changes its own row, and only a pending one.
LEMMA ClaimEffect ==
  ASSUME row \in [Urls -> Row], NEW u \in Urls, queue_claim(u)
  PROVE  /\ \A v \in Urls : v # u => row'[v] = row[v]
         /\ row[u].status # "pending" => row' = row
BY DEF queue_claim

\* An insert puts no row in flight.
LEMMA EnqueueEffect ==
  ASSUME row \in [Urls -> Row], NEW u \in Urls, NEW lane, NEW source,
         queue_enqueue(u, lane, source)
  PROVE  \A v \in Urls : InFlight(v)' => InFlight(v)
<1>1. Entry("pending", lane, 0, source).status = "pending"
  BY DEF Entry
<1>2. QED  BY <1>1 DEF queue_enqueue, InFlight

\* What has to be shown of a step: whatever it leaves in flight has a holder
\* afterwards, or was in flight and kept the holders it had.
Keeps(u) ==
  InFlight(u)' => \/ \E w \in Tasks : Holds(w, u)'
                  \/ InFlight(u) /\ \A w \in Tasks : Holds(w, u) => Holds(w, u)'

\* A step that keeps every holder, and forgets no stranded row, keeps the
\* invariant.
LEMMA OwnedStep ==
  ASSUME ClaimsOwned,
         \A u \in Urls : u \in stranded /\ InFlight(u) => u \in stranded',
         \A u \in Urls : Keeps(u)
  PROVE  ClaimsOwned'
BY DEF ClaimsOwned, Keeps

\* Tasks dropped with all they hold, their rows recorded as stranded, keep the
\* invariant.
LEMMA DroppedOwned ==
  ASSUME ClaimsOwned, NEW T \in SUBSET Tasks, row' = row,
         stranded' = stranded \cup {u \in Urls : Dropped(u, T)},
         \A w \in Tasks \ T : job'[w] = job[w]
  PROVE  ClaimsOwned'
<1> SUFFICES ASSUME NEW u \in Urls, InFlight(u)', u \notin stranded'
             PROVE  \E w \in Tasks : Holds(w, u)'
  BY DEF ClaimsOwned
<1>1. InFlight(u) /\ u \notin stranded /\ ~Dropped(u, T)  BY DEF InFlight
<1>2. PICK w \in Tasks : Holds(w, u)  BY <1>1 DEF ClaimsOwned
<1>3. w \notin T  BY <1>1, <1>2 DEF Dropped
<1>4. Holds(w, u)'  BY <1>2, <1>3 DEF Holds, Claimed, Drain
<1>5. QED  BY <1>4

\* Steps of processes, requests and time: a crash and a boot are the two that
\* lose a holder; the one records the rows it strands, the other resets them.
LEMMA EnvironmentOwned ==
  ASSUME TypeOK, ClaimsOwned,
         \/ \E p \in Procs : \/ Boot(p) \/ BeginStop(p) \/ EndStop(p) \/ Crash(p)
                            \/ StartTick(p) \/ NextPhase(p) \/ Deadline(p)
         \/ SetPaused
         \/ \E u \in Urls : PageAges(u) \/ LateFault(u) \/ LateEnqueue(u)
         \/ \E u \in Urls, source \in Sources : Enqueue(u, source)
         \/ \E t \in Clients, u \in Urls : Fetch(t, u) \/ Refresh(t, u)
         \/ \E t \in Clients, requeue \in BOOLEAN : Orphan(t, requeue)
  PROVE  ClaimsOwned'
<1> USE DEF db, ctl, tick, tasks
<1>1. ASSUME NEW p \in Procs, Boot(p)  PROVE ClaimsOwned'
  <2>1. \A v \in Urls : Marked(row[v], "pending").status = "pending"
    BY DEF Marked, Entry
  <2>2. \A v \in Urls : row'[v].status # "in_flight"
    BY <1>1, <2>1 DEF Boot, queue_reset_in_flight, InFlight
  <2>3. QED  BY <2>2 DEF ClaimsOwned, InFlight
<1>2. ASSUME NEW p \in Procs, Crash(p)  PROVE ClaimsOwned'
  <2>1. TasksOf(p) \in SUBSET Tasks /\ row' = row
    BY <1>2 DEF TasksOf, Crash
  <2>2. \A w \in Tasks \ TasksOf(p) : job'[w] = job[w]
    BY <1>2 DEF TasksOf, Crash
  <2>3. QED  BY <1>2, <2>1, <2>2, DroppedOwned DEF Crash
<1>3. ASSUME NEW p \in Procs,
             \/ BeginStop(p) \/ EndStop(p) \/ StartTick(p) \/ NextPhase(p)
             \/ Deadline(p)
      PROVE  ClaimsOwned'
  <2>1. row' = row /\ job' = job /\ stranded' = stranded
    BY <1>3 DEF BeginStop, EndStop, StartTick, NextPhase, Deadline
  <2>3. \A u \in Urls : Keeps(u)
    BY <2>1 DEF Keeps, InFlight, Holds, Claimed, Drain
  <2>4. QED  BY <2>1, <2>3, OwnedStep
<1>4. ASSUME \/ SetPaused
             \/ \E u \in Urls : PageAges(u) \/ LateFault(u) \/ LateEnqueue(u)
             \/ \E u \in Urls, source \in Sources : Enqueue(u, source)
      PROVE  ClaimsOwned'
  <2>1. job' = job /\ stranded' = stranded
    BY <1>4 DEF SetPaused, PageAges, LateFault, LateEnqueue, Enqueue
  <2>3. \A v \in Urls : InFlight(v)' => InFlight(v)
    BY <1>4, EnqueueEffect
    DEF SetPaused, PageAges, LateFault, LateEnqueue, Enqueue, InFlight, TypeOK
  <2>4. \A u \in Urls : Keeps(u)
    BY <2>1, <2>3 DEF Keeps, Holds, Claimed, Drain
  <2>5. QED  BY <2>1, <2>4, OwnedStep
<1>5. ASSUME NEW t \in Clients,
             \/ \E u \in Urls : Fetch(t, u) \/ Refresh(t, u)
             \/ \E requeue \in BOOLEAN : Orphan(t, requeue)
      PROVE  ClaimsOwned'
  <2>1. row' = row /\ stranded' = stranded /\ t \in Tasks
    BY <1>5 DEF Fetch, Refresh, Orphan, Tasks
  <2>3. \A w \in Tasks : w # t => job'[w] = job[w]
    BY <1>5, <2>1 DEF Fetch, Refresh, Orphan, TypeOK
  <2>4. ~Claimed(t)
    BY <1>5 DEF Fetch, Refresh, Orphan, Claimed, Drain
  <2>5. \A u \in Urls : Keeps(u)
    BY <2>1, <2>3, <2>4 DEF Keeps, InFlight, Holds, Claimed, Drain
  <2>6. QED  BY <2>1, <2>5, OwnedStep
<1>6. QED  BY <1>1, <1>2, <1>3, <1>4, <1>5

\* Steps of tasks: a holder that stops holding has settled its row first.
LEMMA TaskOwned ==
  ASSUME TypeOK, ClaimsOwned, NEW t \in Tasks, Step(t) \/ Cancel(t) \/ DbFault(t)
  PROVE  ClaimsOwned'
<1> USE DEF db, ctl, tick, tasks
<1> /\ row \in [Urls -> Row] /\ job \in [Tasks -> Job]
    /\ job[t].pc # "idle" => job[t].url \in Urls
  BY DEF TypeOK
<1>1. CASE DbFault(t)
  <2>1. /\ row' = row
        /\ \A w \in Tasks \ {t} : job'[w] = job[w]
    BY <1>1, GotoEffect DEF DbFault, FaultTo, Pc
  <2>2. CASE job[t].pc = "settle" /\ job[t].out = "ok"
    <3>1. stranded' = stranded /\ job'[t] = Told(t, "settle", "error")
      BY <1>1, <2>2, JobEffect DEF DbFault
    <3>2. \A u \in Urls : Keeps(u)
      BY <2>1, <2>2, <3>1, ToldFields DEF Keeps, InFlight, Holds, Claimed, Drain
    <3>3. QED  BY <3>1, <3>2, OwnedStep
  <2>3. CASE ~(job[t].pc = "settle" /\ job[t].out = "ok")
    BY <1>1, <2>1, <2>3, DroppedOwned DEF DbFault
  <2>4. QED  BY <2>2, <2>3
<1>2. ASSUME Step(t) \/ Cancel(t),
             \A u \in Urls : Keeps(u)
      PROVE  ClaimsOwned'
  <2>1. \A u \in Urls : u \in stranded /\ InFlight(u) => u \in stranded'
    BY <1>2 DEF Step, Take, Claim, Start, Finish, SettleOk, SettleChallenge,
                SettleError, Route, Bump, Fail, Release, Cancel, InFlight
  <2>2. QED  BY <1>2, <2>1, OwnedStep
<1>3. ASSUME Take(t) \/ Claim(t)  PROVE \A u \in Urls : Keeps(u)
  <2>1. ~Claimed(t)
    BY <1>3 DEF Take, Claim, Claimed, Drain
  <2>2. \A w \in Tasks : w # t => job'[w] = job[w]
    BY <1>3, GotoEffect DEF Take, Claim, Pc
  <2>3. CASE Take(t)
    BY <2>1, <2>2, <2>3 DEF Take, Keeps, InFlight, Holds, Claimed, Drain
  <2>4. CASE Claim(t)
    <3>1. \A v \in Urls : v # job[t].url => row'[v] = row[v]
      BY <2>4, ClaimEffect DEF Claim
    <3>2. CASE row[job[t].url].status # "pending"
      BY <2>1, <2>2, <2>4, <3>2, ClaimEffect
      DEF Claim, Keeps, InFlight, Holds, Claimed, Drain
    <3>3. CASE row[job[t].url].status = "pending"
      <4>1. /\ job'[t].pc \in {"start", "release"} /\ job'[t].url = job[t].url
            /\ job'[t].kind = job[t].kind
        BY <2>4, <3>3, GotoEffect DEF Claim, Pc
      <4>2. Holds(t, job[t].url)'
        BY <2>4, <4>1 DEF Claim, Holds, Claimed, Drain
      <4>3. Keeps(job[t].url)
        BY <4>2 DEF Keeps
      <4>4. ASSUME NEW v \in Urls, v # job[t].url  PROVE Keeps(v)
        BY <2>1, <2>2, <3>1, <4>4 DEF Keeps, InFlight, Holds, Claimed, Drain
      <4>5. QED  BY <4>3, <4>4
    <3>4. QED  BY <3>2, <3>3
  <2>5. QED  BY <1>3, <2>3, <2>4
<1>4. CASE Start(t)
  <2>1. row' = row  BY <1>4 DEF Start
  <2>2. \A w \in Tasks : w # t => job'[w] = job[w]
    BY <1>4, GotoEffect DEF Start, Pc
  <2>3. /\ job'[t].pc \in {"own", "join"} /\ job'[t].url = job[t].url
        /\ job'[t].kind = job[t].kind /\ job[t].pc = "start"
    BY <1>4, GotoEffect DEF Start, Pc
  <2>4. \A w \in Tasks, u \in Urls : Holds(w, u) => Holds(w, u)'
    BY <2>2, <2>3 DEF Holds, Claimed, Drain
  <2>5. \A u \in Urls : Keeps(u)  BY <2>1, <2>4 DEF Keeps, InFlight
  <2>6. QED  BY <1>2, <1>4, <2>5 DEF Step
<1>5. ASSUME NEW out \in {"ok", "challenge", "error"}, Finish(t, out)
      PROVE  ClaimsOwned'
  <2>1. row' = row  BY <1>5 DEF Finish
  <2>2. \A w \in Tasks :
          \/ job'[w] = job[w]
          \/ /\ job[w].pc \in {"own", "join"}
             /\ job'[w] = Told(w, "settle", out)
    BY <1>5 DEF Finish, Waits
  <2>3. \A w \in Tasks, u \in Urls : Holds(w, u) => Holds(w, u)'
    BY <2>2, ToldFields DEF Holds, Claimed, Drain
  <2>4. \A u \in Urls : Keeps(u)  BY <2>1, <2>3 DEF Keeps, InFlight
  <2>5. QED  BY <1>2, <1>5, <2>4 DEF Step
\* a task other than t keeps what it holds; t's own row has left in_flight
<1>6. ASSUME \A w \in Tasks : w # t => job'[w] = job[w],
             \/ ~Claimed(t) /\ \A v \in Urls : InFlight(v)' => InFlight(v)
             \/ /\ \A v \in Urls : v # job[t].url => row'[v] = row[v]
                /\ row'[job[t].url].status # "in_flight"
      PROVE  \A u \in Urls : Keeps(u)
  <2>1. CASE ~Claimed(t) /\ \A v \in Urls : InFlight(v)' => InFlight(v)
    BY <1>6, <2>1 DEF Keeps, Holds, Claimed, Drain
  <2>2. CASE /\ \A v \in Urls : v # job[t].url => row'[v] = row[v]
             /\ row'[job[t].url].status # "in_flight"
    BY <1>6, <2>2 DEF Keeps, InFlight, Holds, Claimed, Drain
  <2>3. QED  BY <1>6, <2>1, <2>2
<1>7. CASE SettleOk(t) \/ Fail(t) \/ Release(t)
  <2>1. \A w \in Tasks : w # t => job'[w] = job[w]
    BY <1>7, GotoEffect DEF SettleOk, Fail, Release, After, Pc
  <2>2. CASE Drain(t) \/ ~SettleOk(t)
    <3>1. job[t].url \in Urls
      BY <1>7 DEF SettleOk, Fail, Release
    <3>2. /\ \A v \in Urls : v # job[t].url => row'[v] = row[v]
          /\ row'[job[t].url].status # "in_flight"
      BY <1>7, <2>2, <3>1, Settled DEF SettleOk, Fail, Release
    <3>3. QED  BY <1>2, <1>6, <1>7, <2>1, <3>2 DEF Step
  <2>3. CASE ~Drain(t) /\ SettleOk(t)
    <3>1. row' = row /\ ~Claimed(t)  BY <2>3 DEF SettleOk, Claimed
    <3>2. QED  BY <1>2, <1>6, <1>7, <2>1, <3>1 DEF Step, InFlight
  <2>4. QED  BY <2>2, <2>3
<1>8. CASE SettleChallenge(t) \/ Route(t) \/ Bump(t)
  <2>1. \A w \in Tasks : w # t => job'[w] = job[w]
    BY <1>8, GotoEffect DEF SettleChallenge, Route, Bump, After, Pc
  <2>2. job[t].url \in Urls
    BY <1>8 DEF SettleChallenge, Route, Bump
  <2>3. \/ ~Claimed(t) /\ \A v \in Urls : InFlight(v)' => InFlight(v)
        \/ /\ \A v \in Urls : v # job[t].url => row'[v] = row[v]
           /\ row'[job[t].url].status # "in_flight"
    <3>1. CASE queue_route_to_cf(job[t].url)  BY <2>2, <3>1, Settled
    <3>2. CASE ~Claimed(t) /\ queue_enqueue(job[t].url, "cf", "other")
      BY <2>2, <3>2, EnqueueEffect
    <3>3. CASE ~Claimed(t) /\ row' = row  BY <3>3 DEF InFlight
    <3>4. QED
      BY <1>8, <3>1, <3>2, <3>3 DEF SettleChallenge, Route, Bump, Claimed, Drain
  <2>4. QED  BY <1>2, <1>6, <1>8, <2>1, <2>3 DEF Step
<1>9. CASE SettleError(t)
  <2>1. row' = row  BY <1>9 DEF SettleError
  <2>2. /\ \A w \in Tasks : w # t => job'[w] = job[w]
        /\ Drain(t) => job'[t] = Told(t, "fail", queue_verdict(job[t].url))
    BY <1>9, GotoEffect, JobEffect DEF SettleError, Pc
  <2>3. \A w \in Tasks, u \in Urls : Holds(w, u) => Holds(w, u)'
    BY <2>2, ToldFields DEF Holds, Claimed, Drain
  <2>4. \A u \in Urls : Keeps(u)  BY <2>1, <2>3 DEF Keeps, InFlight
  <2>5. QED  BY <1>2, <1>9, <2>4 DEF Step
<1>10. CASE Cancel(t)
  <2>1. row' = row  BY <1>10 DEF Cancel
  <2>2. CASE job[t].pc = "own"
    <3>1. \A w \in Tasks :
            \/ job'[w] = job[w]
            \/ w = t /\ (Drain(t) => job'[w] = Told(w, "release", "none"))
            \/ job[w].pc = "join" /\ job'[w] = Told(w, "settle", "error")
      BY <1>10, <2>2 DEF Cancel, Waits
    <3>2. \A w \in Tasks, u \in Urls : Holds(w, u) => Holds(w, u)'
      BY <3>1, ToldFields DEF Holds, Claimed, Drain
    <3>3. \A u \in Urls : Keeps(u)  BY <2>1, <3>2 DEF Keeps, InFlight
    <3>4. QED  BY <1>2, <1>10, <3>3
  <2>3. CASE job[t].pc # "own"
    <3>1. Goto(t, CancelTo(t)) /\ CancelTo(t) \in Pc
      BY <1>10, <2>3 DEF Cancel, CancelTo, Pc
    <3>2. /\ \A w \in Tasks : w # t => job'[w] = job[w]
          /\ Claimed(t) => /\ job'[t].pc = "release" /\ job'[t].url = job[t].url
                           /\ job'[t].kind = job[t].kind
      BY <3>1, GotoEffect DEF CancelTo, Claimed, Drain
    <3>3. \A w \in Tasks, u \in Urls : Holds(w, u) => Holds(w, u)'
      BY <3>2 DEF Holds, Claimed, Drain
    <3>4. \A u \in Urls : Keeps(u)  BY <2>1, <3>3 DEF Keeps, InFlight
    <3>5. QED  BY <1>2, <1>10, <3>4
  <2>4. QED  BY <2>2, <2>3
<1>11. QED
  BY <1>1, <1>2, <1>3, <1>4, <1>5, <1>7, <1>8, <1>9, <1>10 DEF Step

\* Every in_flight row has a runner that will still settle it, or is one whose
\* own claim a crash or a failed statement has dropped since the last boot: for
\* any number of processes on the table, under every cancellation, deadline,
\* shutdown, reroute and restart.
THEOREM NoStrandedClaim == Spec => []ClaimsOwned
<1>1. Init => ClaimsOwned
  BY DEF Init, ClaimsOwned, InFlight, NoRow
<1>2. TypeOK /\ ClaimsOwned /\ [Next]_vars => ClaimsOwned'
  <2> SUFFICES ASSUME TypeOK, ClaimsOwned, [Next]_vars  PROVE ClaimsOwned'
    OBVIOUS
  <2>1. CASE Next
    BY <2>1, EnvironmentOwned, TaskOwned DEF Next, Environment
  <2>2. CASE UNCHANGED vars
    BY <2>2 DEF ClaimsOwned, InFlight, Holds, Claimed, Drain, vars, db, ctl, tick, tasks
  <2>3. QED  BY <2>1, <2>2
<1>3. QED  BY <1>1, <1>2, TypeCorrect, PTL DEF Spec

---------------------------------------------------------------------------
(* The in-flight map is exact.                                             *)

\* The three parts of DedupExact: an entry names the task that crawls, a task
\* that crawls has the entry, and a task that waits has a crawl to wait for.
EntryCrawls(p, u) ==
  owner[p][u] # None => /\ owner[p][u] \in Tasks
                        /\ job[owner[p][u]].pc = "own"
                        /\ job[owner[p][u]].url = u
                        /\ ProcOf[owner[p][u]] = p
CrawlHasEntry(t) == job[t].pc = "own" => owner[ProcOf[t]][job[t].url] = t
WaitHasCrawl(t)  == job[t].pc = "join" => owner[ProcOf[t]][job[t].url] # None

\* The parts of DedupExact, for each entry and each task.
LEMMA DedupParts ==
  ASSUME TypeOK
  PROVE  DedupExact <=> /\ \A p \in Procs, u \in Urls : EntryCrawls(p, u)
                        /\ \A t \in Tasks : CrawlHasEntry(t) /\ WaitHasCrawl(t)
BY DEF DedupExact, EntryCrawls, CrawlHasEntry, WaitHasCrawl, TypeOK

\* A step that leaves the map alone, and every task that crawls or waits, or
\* neither crawls nor waits afterwards, keeps the map exact.
LEMMA DedupStep ==
  ASSUME TypeOK, TypeOK', DedupExact, owner' = owner,
         \A w \in Tasks :
           \/ job'[w].pc = job[w].pc /\ job'[w].url = job[w].url
           \/ job[w].pc # "own" /\ job'[w].pc \notin {"own", "join"}
  PROVE  DedupExact'
<1>1. /\ \A p \in Procs, u \in Urls : EntryCrawls(p, u)
      /\ \A t \in Tasks : CrawlHasEntry(t) /\ WaitHasCrawl(t)
  BY DedupParts
<1>2. ASSUME NEW p \in Procs, NEW u \in Urls  PROVE EntryCrawls(p, u)'
  BY <1>1 DEF EntryCrawls
<1>3. ASSUME NEW t \in Tasks  PROVE CrawlHasEntry(t)' /\ WaitHasCrawl(t)'
  BY <1>1 DEF CrawlHasEntry, WaitHasCrawl
<1>4. QED  BY <1>2, <1>3 DEF DedupExact, EntryCrawls, CrawlHasEntry, WaitHasCrawl

\* A new entry changes one place of the map.
LEMMA OwnerEffect ==
  ASSUME owner \in [Procs -> [Urls -> Tasks \cup {None}]], NEW p \in Procs,
         NEW u \in Urls, NEW t, owner' = [owner EXCEPT ![p][u] = t]
  PROVE  /\ owner'[p][u] = t
         /\ \A q \in Procs, v \in Urls : q # p \/ v # u => owner'[q][v] = owner[q][v]
OBVIOUS

\* When a crawl ends, finished or cancelled, its entry goes and with it every
\* task that waited for it.
LEMMA CrawlEnds ==
  ASSUME TypeOK, TypeOK', DedupExact, NEW t \in Tasks, job[t].pc = "own",
         owner' = [owner EXCEPT ![ProcOf[t]][job[t].url] = None],
         job'[t].pc \notin {"own", "join"},
         \A w \in Tasks : w # t => IF Waits(w, t) THEN job'[w].pc = "settle"
                                  ELSE job'[w] = job[w]
  PROVE  DedupExact'
<1> DEFINE p == ProcOf[t]
           u == job[t].url
<1>1. /\ \A q \in Procs, v \in Urls : EntryCrawls(q, v)
      /\ \A w \in Tasks : CrawlHasEntry(w) /\ WaitHasCrawl(w)
  BY DedupParts
<1>2. p \in Procs /\ u \in Urls /\ \A w \in Tasks : ProcOf[w] \in Procs
  BY ConstantsOK DEF TypeOK
<1>3. /\ owner'[p][u] = None
      /\ \A q \in Procs, v \in Urls : q # p \/ v # u => owner'[q][v] = owner[q][v]
  BY <1>2, OwnerEffect DEF TypeOK
<1>4. owner[p][u] = t
  BY <1>1 DEF CrawlHasEntry
<1>5. \A w \in Tasks : /\ job[w].pc # "idle" => job[w].url \in Urls
                       /\ job'[w].pc # "idle" => job'[w].url \in Urls
  BY DEF TypeOK
<1> HIDE DEF p, u
<1>6. ASSUME NEW q \in Procs, NEW v \in Urls  PROVE EntryCrawls(q, v)'
  <2>1. CASE q = p /\ v = u
    BY <1>3, <2>1 DEF EntryCrawls
  <2>2. CASE q # p \/ v # u
    <3>1. owner'[q][v] = owner[q][v]  BY <1>3, <2>2
    <3>2. CASE owner[q][v] = None  BY <3>1, <3>2 DEF EntryCrawls
    <3>3. CASE owner[q][v] # None
      <4>1. /\ owner[q][v] \in Tasks /\ job[owner[q][v]].pc = "own"
            /\ job[owner[q][v]].url = v /\ ProcOf[owner[q][v]] = q
        BY <1>1, <3>3 DEF EntryCrawls
      <4>2. owner[q][v] # t  BY <2>2, <4>1 DEF p, u
      <4>3. job'[owner[q][v]] = job[owner[q][v]]  BY <4>1, <4>2 DEF Waits
      <4>4. QED  BY <3>1, <4>1, <4>3 DEF EntryCrawls
    <3>4. QED  BY <3>2, <3>3
  <2>3. QED  BY <2>1, <2>2
<1>7. ASSUME NEW w \in Tasks  PROVE CrawlHasEntry(w)' /\ WaitHasCrawl(w)'
  <2>1. CASE w = t \/ Waits(w, t)
    BY <2>1 DEF CrawlHasEntry, WaitHasCrawl
  <2>2. CASE w # t /\ ~Waits(w, t)
    <3>1. job'[w] = job[w]  BY <2>2
    <3>2. CASE job[w].pc = "own"
      <4>1. owner[ProcOf[w]][job[w].url] = w  BY <1>1, <3>2 DEF CrawlHasEntry
      <4>2. ProcOf[w] # p \/ job[w].url # u  BY <1>4, <2>2, <4>1
      <4>3. QED
        BY <1>2, <1>3, <1>5, <3>1, <3>2, <4>1, <4>2 DEF CrawlHasEntry, WaitHasCrawl
    <3>3. CASE job[w].pc = "join"
      <4>1. owner[ProcOf[w]][job[w].url] # None  BY <1>1, <3>3 DEF WaitHasCrawl
      <4>2. ProcOf[w] # p \/ job[w].url # u  BY <2>2, <3>3 DEF Waits, p, u
      <4>3. QED
        BY <1>2, <1>3, <1>5, <3>1, <3>3, <4>1, <4>2 DEF CrawlHasEntry, WaitHasCrawl
    <3>4. CASE job[w].pc \notin {"own", "join"}
      BY <3>1, <3>4 DEF CrawlHasEntry, WaitHasCrawl
    <3>5. QED  BY <3>2, <3>3, <3>4
  <2>3. QED  BY <2>1, <2>2
<1>8. QED  BY <1>6, <1>7 DEF DedupExact, EntryCrawls, CrawlHasEntry, WaitHasCrawl

\* crawl_deduped starts a crawl only where there is no entry, and waits only
\* where there is one.
LEMMA StartExact ==
  ASSUME TypeOK, TypeOK', DedupExact, NEW t \in Tasks, Start(t)
  PROVE  DedupExact'
<1> DEFINE p == ProcOf[t]
           u == job[t].url
<1>1. /\ \A q \in Procs, v \in Urls : EntryCrawls(q, v)
      /\ \A w \in Tasks : CrawlHasEntry(w) /\ WaitHasCrawl(w)
  BY DedupParts
<1>2. p \in Procs /\ u \in Urls /\ \A w \in Tasks : ProcOf[w] \in Procs
  BY ConstantsOK DEF TypeOK, Start
<1>3. /\ \A w \in Tasks : w # t => job'[w] = job[w]
      /\ job'[t].pc \in {"own", "join"} /\ job'[t].url = u /\ job[t].pc = "start"
  BY GotoEffect DEF Start, Pc, TypeOK
<1>4. \A w \in Tasks : job[w].pc # "idle" => job[w].url \in Urls
  BY DEF TypeOK
<1>5. t # None  BY ConstantsOK
<1>6. CASE owner[p][u] = None
  <2>1. owner' = [owner EXCEPT ![p][u] = t] /\ job'[t].pc = "own"
    BY <1>6, GotoEffect DEF Start, Pc, TypeOK
  <2>2. /\ owner'[p][u] = t
        /\ \A q \in Procs, v \in Urls : q # p \/ v # u => owner'[q][v] = owner[q][v]
    BY <1>2, <2>1, OwnerEffect DEF TypeOK
  <2> HIDE DEF p, u
  <2>3. ASSUME NEW q \in Procs, NEW v \in Urls  PROVE EntryCrawls(q, v)'
    <3>1. CASE q = p /\ v = u
      BY <1>3, <2>1, <2>2, <3>1 DEF EntryCrawls, p
    <3>2. CASE q # p \/ v # u
      BY <1>1, <1>3, <2>2, <3>2 DEF EntryCrawls
    <3>3. QED  BY <3>1, <3>2
  <2>4. ASSUME NEW w \in Tasks  PROVE CrawlHasEntry(w)' /\ WaitHasCrawl(w)'
    <3>1. CASE w = t
      BY <1>3, <2>1, <2>2, <3>1 DEF CrawlHasEntry, WaitHasCrawl, p
    <3>2. CASE w # t
      <4>1. job'[w] = job[w]  BY <1>3, <3>2
      <4>2. CASE job[w].pc \in {"own", "join"}
        <5>1. owner[ProcOf[w]][job[w].url] # None
          BY <1>1, <4>2, ConstantsOK DEF CrawlHasEntry, WaitHasCrawl
        <5>2. ProcOf[w] # p \/ job[w].url # u  BY <1>6, <5>1
        <5>3. owner'[ProcOf[w]][job[w].url] = owner[ProcOf[w]][job[w].url]
          BY <1>2, <1>4, <2>2, <4>2, <5>2
        <5>4. QED  BY <1>1, <4>1, <5>3 DEF CrawlHasEntry, WaitHasCrawl
      <4>3. CASE job[w].pc \notin {"own", "join"}
        BY <4>1, <4>3 DEF CrawlHasEntry, WaitHasCrawl
      <4>4. QED  BY <4>2, <4>3
    <3>3. QED  BY <3>1, <3>2
  <2>5. QED  BY <2>3, <2>4 DEF DedupExact, EntryCrawls, CrawlHasEntry, WaitHasCrawl
<1>7. CASE owner[p][u] # None
  <2>1. owner' = owner /\ job'[t].pc = "join"
    BY <1>7, GotoEffect DEF Start, Pc, TypeOK
  <2> HIDE DEF p, u
  <2>2. ASSUME NEW q \in Procs, NEW v \in Urls  PROVE EntryCrawls(q, v)'
    BY <1>1, <1>3, <2>1 DEF EntryCrawls
  <2>3. ASSUME NEW w \in Tasks  PROVE CrawlHasEntry(w)' /\ WaitHasCrawl(w)'
    <3>1. CASE w = t
      BY <1>3, <1>7, <2>1, <3>1 DEF CrawlHasEntry, WaitHasCrawl, p
    <3>2. CASE w # t
      BY <1>1, <1>3, <2>1, <3>2 DEF CrawlHasEntry, WaitHasCrawl
    <3>3. QED  BY <3>1, <3>2
  <2>4. QED  BY <2>2, <2>3 DEF DedupExact, EntryCrawls, CrawlHasEntry, WaitHasCrawl
<1>8. QED  BY <1>6, <1>7

\* A crash empties the map of its process with the tasks that use it.
LEMMA CrashExact ==
  ASSUME TypeOK, DedupExact, NEW p \in Procs, Crash(p)
  PROVE  DedupExact'
<1>1. /\ \A q \in Procs, v \in Urls : EntryCrawls(q, v)
      /\ \A w \in Tasks : CrawlHasEntry(w) /\ WaitHasCrawl(w)
  BY DedupParts
<1>2. /\ \A w \in Tasks : job'[w] = IF ProcOf[w] = p THEN Idle ELSE job[w]
      /\ \A v \in Urls : owner'[p][v] = None
      /\ \A q \in Procs : q # p => owner'[q] = owner[q]
  BY DEF Crash, TypeOK
<1>3. ASSUME NEW q \in Procs, NEW v \in Urls  PROVE EntryCrawls(q, v)'
  BY <1>1, <1>2 DEF EntryCrawls
<1>4. ASSUME NEW w \in Tasks  PROVE CrawlHasEntry(w)' /\ WaitHasCrawl(w)'
  <2>1. CASE ProcOf[w] = p
    BY <1>2, <2>1, IdleType DEF CrawlHasEntry, WaitHasCrawl
  <2>2. CASE ProcOf[w] # p
    BY <1>1, <1>2, <2>2, ConstantsOK DEF CrawlHasEntry, WaitHasCrawl
  <2>3. QED  BY <2>1, <2>2
<1>5. QED  BY <1>3, <1>4 DEF DedupExact, EntryCrawls, CrawlHasEntry, WaitHasCrawl

\* Every other step leaves the map alone and neither ends a crawl nor starts one.
LEMMA QuietExact ==
  ASSUME TypeOK, TypeOK', DedupExact,
         \/ \E p \in Procs : \/ Boot(p) \/ BeginStop(p) \/ EndStop(p)
                            \/ StartTick(p) \/ NextPhase(p) \/ Deadline(p)
         \/ SetPaused
         \/ \E u \in Urls : PageAges(u) \/ LateFault(u) \/ LateEnqueue(u)
         \/ \E u \in Urls, source \in Sources : Enqueue(u, source)
         \/ \E t \in Clients, u \in Urls : Fetch(t, u) \/ Refresh(t, u)
         \/ \E t \in Clients, requeue \in BOOLEAN : Orphan(t, requeue)
         \/ \E t \in Tasks : \/ Take(t) \/ Claim(t) \/ SettleOk(t)
                            \/ SettleChallenge(t) \/ SettleError(t) \/ Route(t)
                            \/ Bump(t) \/ Fail(t) \/ Release(t) \/ DbFault(t)
                            \/ (Cancel(t) /\ job[t].pc # "own")
  PROVE  DedupExact'
<1> USE DEF db, ctl, tick, tasks
<1> job \in [Tasks -> Job]  BY DEF TypeOK
<1>1. CASE \/ \E p \in Procs : \/ Boot(p) \/ BeginStop(p) \/ EndStop(p)
                              \/ StartTick(p) \/ NextPhase(p) \/ Deadline(p)
           \/ SetPaused
           \/ \E u \in Urls : PageAges(u) \/ LateFault(u) \/ LateEnqueue(u)
           \/ \E u \in Urls, source \in Sources : Enqueue(u, source)
  <2>1. owner' = owner /\ job' = job
    BY <1>1 DEF Boot, BeginStop, EndStop, StartTick, NextPhase, Deadline, SetPaused,
                PageAges, LateFault, LateEnqueue, Enqueue
  <2>2. QED  BY <2>1, DedupStep
<1>2. ASSUME NEW t \in Clients,
             \/ \E u \in Urls : Fetch(t, u) \/ Refresh(t, u)
             \/ \E requeue \in BOOLEAN : Orphan(t, requeue)
      PROVE  DedupExact'
  <2>1. owner' = owner /\ t \in Tasks  BY <1>2 DEF Fetch, Refresh, Orphan, Tasks
  <2>2. \A w \in Tasks : w # t => job'[w] = job[w]
    BY <1>2, <2>1 DEF Fetch, Refresh, Orphan
  <2>3. \/ job'[t].pc = job[t].pc /\ job'[t].url = job[t].url
        \/ job[t].pc = "idle" /\ job'[t].pc = "start"
    <3>1. ASSUME NEW u \in Urls, Fetch(t, u) \/ Refresh(t, u)
          PROVE  job[t].pc = "idle" /\ job'[t].pc = "start"
      BY <2>1, <3>1 DEF Fetch, Refresh, Work
    <3>2. ASSUME NEW requeue \in BOOLEAN, Orphan(t, requeue)
          PROVE  job'[t].pc = job[t].pc /\ job'[t].url = job[t].url
      BY <2>1, <3>2 DEF Orphan, Work
    <3>3. QED  BY <1>2, <3>1, <3>2
  <2>4. QED  BY <2>1, <2>2, <2>3, DedupStep
<1>3. ASSUME NEW t \in Tasks,
             \/ Take(t) \/ Claim(t) \/ SettleOk(t) \/ SettleChallenge(t)
             \/ SettleError(t) \/ Route(t) \/ Bump(t) \/ Fail(t) \/ Release(t)
             \/ DbFault(t) \/ (Cancel(t) /\ job[t].pc # "own")
      PROVE  DedupExact'
  <2>1. owner' = owner
    BY <1>3 DEF Take, Claim, SettleOk, SettleChallenge, SettleError, Route, Bump,
                Fail, Release, DbFault, Cancel
  <2>2. job[t].pc # "own"
    BY <1>3 DEF Take, Claim, SettleOk, SettleChallenge, SettleError, Route, Bump,
                Fail, Release, DbFault
  <2>3. /\ \A w \in Tasks : w # t => job'[w] = job[w]
        /\ job'[t].pc \notin {"own", "join"}
    <3>1. CASE Take(t)
      BY <3>1 DEF Take, Work
    <3>2. CASE Claim(t) \/ SettleOk(t) \/ SettleChallenge(t) \/ Route(t) \/ Bump(t)
               \/ Fail(t) \/ Release(t) \/ (Cancel(t) /\ job[t].pc # "own")
      <4> DEFINE L == {"idle", "claim_cancelled", "start", "route", "bump", "release"}
      <4>1. PICK l \in L : Goto(t, l)
        <5>1. CASE Claim(t)  BY <5>1 DEF Claim
        <5>2. CASE SettleOk(t) \/ Fail(t)  BY <5>2 DEF SettleOk, Fail, After
        <5>3. CASE SettleChallenge(t)  BY <5>3 DEF SettleChallenge, After
        <5>4. CASE Route(t) \/ Bump(t) \/ Release(t)  BY <5>4 DEF Route, Bump, Release
        <5>5. CASE Cancel(t) /\ job[t].pc # "own"  BY <5>5 DEF Cancel, CancelTo
        <5>6. QED  BY <3>2, <5>1, <5>2, <5>3, <5>4, <5>5
      <4>2. l \in Pc  BY DEF Pc
      <4>3. QED  BY <4>1, <4>2, GotoEffect
    <3>3. CASE SettleError(t) \/ DbFault(t)
      <4>1. \/ Goto(t, "idle") \/ Goto(t, "bump")
            \/ job' = [job EXCEPT ![t] = Told(t, "fail", queue_verdict(job[t].url))]
            \/ job' = [job EXCEPT ![t] = Told(t, "settle", "error")]
        BY <3>3 DEF SettleError, DbFault, FaultTo
      <4>2. CASE Goto(t, "idle")  BY <4>2, GotoEffect DEF Pc
      <4>3. CASE Goto(t, "bump")  BY <4>3, GotoEffect DEF Pc
      <4>4. ASSUME NEW pc \in {"fail", "settle"}, NEW out,
                   job' = [job EXCEPT ![t] = Told(t, pc, out)]
            PROVE  /\ \A w \in Tasks : w # t => job'[w] = job[w]
                   /\ job'[t].pc \notin {"own", "join"}
        <5>1. job'[t] = Told(t, pc, out)  BY <4>4, JobEffect
        <5>2. QED  BY <4>4, <5>1, ToldFields
      <4>5. QED  BY <4>1, <4>2, <4>3, <4>4
    <3>4. QED  BY <1>3, <3>1, <3>2, <3>3
  <2>4. QED  BY <2>1, <2>2, <2>3, DedupStep
<1>4. QED  BY <1>1, <1>2, <1>3

\* In every process the in-flight map is exact: one crawl per URL, every entry
\* backed by the task that crawls, and no waiter left behind when a crawl ends
\* or its owner is cancelled.
THEOREM InFlightMapExact == Spec => []DedupExact
<1>1. Init => DedupExact
  BY IdleType, ConstantsOK DEF Init, DedupExact
<1>2. TypeOK /\ TypeOK' /\ DedupExact /\ [Next]_vars => DedupExact'
  <2> SUFFICES ASSUME TypeOK, TypeOK', DedupExact, [Next]_vars  PROVE DedupExact'
    OBVIOUS
  <2>1. ASSUME NEW t \in Tasks, NEW out \in {"ok", "challenge", "error"},
               Finish(t, out)
        PROVE  DedupExact'
    <3>1. /\ job[t].pc = "own"
          /\ owner' = [owner EXCEPT ![ProcOf[t]][job[t].url] = None]
          /\ \A w \in Tasks : job'[w] = IF w = t \/ Waits(w, t)
                                       THEN Told(w, "settle", out) ELSE job[w]
      BY <2>1 DEF Finish
    <3>2. /\ job'[t].pc \notin {"own", "join"}
          /\ \A w \in Tasks : w # t => IF Waits(w, t) THEN job'[w].pc = "settle"
                                      ELSE job'[w] = job[w]
      BY <3>1, ToldFields
    <3>3. QED  BY <3>1, <3>2, CrawlEnds
  <2>2. ASSUME NEW t \in Tasks, Cancel(t), job[t].pc = "own"  PROVE DedupExact'
    <3>1. /\ owner' = [owner EXCEPT ![ProcOf[t]][job[t].url] = None]
          /\ \A w \in Tasks : w # t => job'[w] = IF Waits(w, t)
                                               THEN Told(w, "settle", "error")
                                               ELSE job[w]
          /\ job'[t] = IF Drain(t) THEN Told(t, "release", "none") ELSE Idle
      BY <2>2 DEF Cancel
    <3>2. /\ job'[t].pc \notin {"own", "join"}
          /\ \A w \in Tasks : w # t => IF Waits(w, t) THEN job'[w].pc = "settle"
                                      ELSE job'[w] = job[w]
      BY <3>1, ToldFields, IdleType
    <3>3. QED  BY <2>2, <3>1, <3>2, CrawlEnds
  <2>3. CASE Next
    <3>1. ASSUME NEW t \in Tasks, Step(t) \/ Cancel(t) \/ DbFault(t)
          PROVE  DedupExact'
      <4>1. CASE Start(t)  BY <4>1, StartExact
      <4>2. CASE \E out \in {"ok", "challenge", "error"} : Finish(t, out)
        BY <2>1, <4>2
      <4>3. CASE Cancel(t) /\ job[t].pc = "own"  BY <2>2, <4>3
      <4>4. CASE \/ Take(t) \/ Claim(t) \/ SettleOk(t) \/ SettleChallenge(t)
                 \/ SettleError(t) \/ Route(t) \/ Bump(t) \/ Fail(t) \/ Release(t)
                 \/ DbFault(t) \/ (Cancel(t) /\ job[t].pc # "own")
        BY <4>4, QuietExact
      <4>5. QED  BY <3>1, <4>1, <4>2, <4>3, <4>4 DEF Step
    <3>2. ASSUME NEW p \in Procs, Crash(p)  PROVE DedupExact'
      BY <3>2, CrashExact
    <3>3. CASE \/ \E p \in Procs : \/ Boot(p) \/ BeginStop(p) \/ EndStop(p)
                                  \/ StartTick(p) \/ NextPhase(p) \/ Deadline(p)
               \/ SetPaused
               \/ \E u \in Urls : PageAges(u) \/ LateFault(u) \/ LateEnqueue(u)
               \/ \E u \in Urls, source \in Sources : Enqueue(u, source)
               \/ \E t \in Clients, u \in Urls : Fetch(t, u) \/ Refresh(t, u)
               \/ \E t \in Clients, requeue \in BOOLEAN : Orphan(t, requeue)
      BY <3>3, QuietExact
    <3>4. QED  BY <2>3, <3>1, <3>2, <3>3 DEF Next, Environment
  <2>4. CASE UNCHANGED vars
    BY <2>4, DedupStep DEF vars, tasks
  <2>5. QED  BY <2>3, <2>4
<1>3. QED  BY <1>1, <1>2, TypeCorrect, PTL DEF Spec

---------------------------------------------------------------------------
(* One process on the table.                                               *)
(*                                                                         *)
(* Two invariants carry what holds of it.  Exclusive says what the tick's  *)
(* select, take and join make of the runners, whatever the table says.     *)
(* Held says what the row of a claim looks like until its runner decides   *)
(* on it; it needs that no other process decides meanwhile.                *)

OneProcess == \A p, q \in Procs : p = q

Busy(t) == job[t].pc # "idle"

\* Between phases nothing is selected and no runner works; the runners of a
\* process work on different URLs, none of them still to be taken; only drains
\* claim, fail and release; a tick that found the pause switch on never
\* refreshes the watchlist.
Joined(p) ==
  phase[p] \in {"idle", "begin"} => todo[p] = {} /\ IdleAll(TasksOf(p) \cap Runners)
Distinct(t, w) ==
  /\ t \in Runners /\ w \in Runners /\ Busy(t) /\ Busy(w)
  /\ ProcOf[t] = ProcOf[w] /\ job[t].url = job[w].url
  => t = w
Placed(t) ==
  /\ Drain(t) => t \in Runners
  /\ job[t].pc \in {"claim", "claim_cancelled", "fail", "release"} => Drain(t)
  /\ t \in Runners /\ Busy(t) =>
       /\ job[t].url \notin todo[ProcOf[t]]
       /\ Drain(t) \/ (job[t].kind = "refresh" /\ phase[ProcOf[t]] = "refresh")
Exclusive ==
  /\ \A p \in Procs : Joined(p) /\ (manual[p] => phase[p] # "refresh")
  /\ \A t \in Tasks : Placed(t)
  /\ \A t, w \in Tasks : Distinct(t, w)

\* The row of a claim, until its runner decides on it: it is still active and,
\* in a paused tick, a manual seed; after a good crawl its content is there;
\* and the verdict of a failed one still agrees with the attempts of the row.
Wanted(p, u) == Active(u) /\ (manual[p] => row[u].source = "manual")
HeldTodo(p) == phase[p] \in {"fast", "cf"} => \A u \in todo[p] : Wanted(p, u)
HeldTask(t) ==
  /\ Drain(t) /\ job[t].pc \in {"claim", "claim_cancelled", "start", "own", "join",
                                "settle", "fail"}
       => Wanted(ProcOf[t], job[t].url)
  /\ Drain(t) /\ job[t].pc = "settle" /\ job[t].out = "ok" => fetched[job[t].url]
  /\ job[t].pc = "fail" =>
       /\ job[t].out \in {"retry", "giveup"}
       /\ InFlight(job[t].url) =>
            (job[t].out = "retry" <=> row[job[t].url].attempts < MaxAttempts)
Held == (\A p \in Procs : HeldTodo(p)) /\ (\A t \in Tasks : HeldTask(t))

---------------------------------------------------------------------------
(* Exclusive.                                                              *)

\* A task goes idle, or goes on with the URL it has.
Continues(w) ==
  \/ job'[w].pc = "idle" /\ (Drain(w)' => Drain(w))
  \/ /\ Busy(w) /\ job'[w].url = job[w].url
     /\ \/ job'[w].kind = job[w].kind
        \/ job[w].kind = "probe" /\ job'[w].kind = "orphan"
     /\ \/ job'[w].pc \in {"claim", "claim_cancelled", "fail", "release"} => Drain(w)
        \/ job'[w] = job[w]

\* A step that leaves the tick alone and in which every task goes idle or goes
\* on with its URL keeps the runners apart.
LEMMA ContinuesExclusive ==
  ASSUME TypeOK, Exclusive, UNCHANGED <<phase, manual, todo>>,
         \A w \in Tasks : Continues(w)
  PROVE  Exclusive'
<1>1. ASSUME NEW p \in Procs  PROVE Joined(p)' /\ (manual'[p] => phase'[p] # "refresh")
  BY <1>1 DEF Exclusive, Joined, IdleAll, TasksOf, Tasks, Continues, Busy
<1>2. ASSUME NEW t \in Tasks  PROVE Placed(t)'
  BY <1>2 DEF Exclusive, Placed, Continues, Busy, Drain
<1>3. ASSUME NEW t \in Tasks, NEW w \in Tasks  PROVE Distinct(t, w)'
  BY <1>3 DEF Exclusive, Distinct, Continues, Busy
<1>4. QED  BY <1>1, <1>2, <1>3 DEF Exclusive

\* A task that is told its outcome, moved to a program counter or left alone
\* continues.
LEMMA GotoContinues ==
  ASSUME TypeOK, NEW t \in Tasks, NEW l \in Pc, Goto(t, l), Busy(t),
         l \in {"claim", "claim_cancelled", "fail", "release"} => Drain(t)
  PROVE  \A w \in Tasks : Continues(w)
<1>1. job \in [Tasks -> Job]  BY DEF TypeOK
<1>2. Idle.kind = "none"  BY DEF Idle, Work
<1>3. l = "idle" => job'[t] = Idle  BY <1>1 DEF Goto
<1>4. QED  BY <1>1, <1>2, <1>3, GotoEffect, IdleType DEF Continues, Busy, Drain

\* What is told an outcome continues, and so does what joined it.
LEMMA ToldContinues ==
  ASSUME TypeOK, NEW t \in Tasks, Busy(t), NEW pc, NEW out,
         pc \in {"settle"} \/ Drain(t), pc # "idle",
         job'[t] = Told(t, pc, out)
  PROVE  Continues(t)
BY ToldFields DEF Continues, Busy

\* Every step but those of the tick, of a new job and of a crash lets the tasks
\* continue.
LEMMA TasksContinue ==
  ASSUME TypeOK, Exclusive,
         \/ \E p \in Procs : Boot(p) \/ BeginStop(p) \/ EndStop(p) \/ Deadline(p)
         \/ SetPaused
         \/ \E u \in Urls : PageAges(u) \/ LateFault(u) \/ LateEnqueue(u)
         \/ \E u \in Urls, source \in Sources : Enqueue(u, source)
         \/ \E t \in Clients, requeue \in BOOLEAN : Orphan(t, requeue)
         \/ \E t \in Tasks : Cancel(t) \/ DbFault(t) \/ (Step(t) /\ ~Take(t))
  PROVE  UNCHANGED <<phase, manual, todo>> /\ \A w \in Tasks : Continues(w)
<1> USE DEF db, ctl, tick, tasks
<1> job \in [Tasks -> Job]  BY DEF TypeOK
<1>1. CASE \/ \E p \in Procs : Boot(p) \/ BeginStop(p) \/ EndStop(p) \/ Deadline(p)
           \/ SetPaused
           \/ \E u \in Urls : PageAges(u) \/ LateFault(u) \/ LateEnqueue(u)
           \/ \E u \in Urls, source \in Sources : Enqueue(u, source)
  <2>1. UNCHANGED <<phase, manual, todo, job>>
    BY <1>1 DEF Boot, BeginStop, EndStop, Deadline, SetPaused, PageAges, LateFault,
                LateEnqueue, Enqueue
  <2>2. QED  BY <2>1 DEF Continues, Busy, Drain
<1>2. ASSUME NEW t \in Clients, NEW requeue \in BOOLEAN, Orphan(t, requeue)
      PROVE  UNCHANGED <<phase, manual, todo>> /\ \A w \in Tasks : Continues(w)
  <2>1. /\ t \in Tasks /\ Busy(t) /\ job[t].kind = "probe"
        /\ job' = [job EXCEPT ![t] =
                     Work(job[t].pc, job[t].url, "orphan", FALSE, job[t].out)]
        /\ UNCHANGED <<phase, manual, todo>>
    BY <1>2 DEF Orphan, Tasks, Busy
  <2>2. job[t].pc \notin {"claim", "claim_cancelled", "fail", "release"}
    BY <2>1 DEF Exclusive, Placed, Drain
  <2>3. /\ job'[t].pc = job[t].pc /\ job'[t].url = job[t].url /\ job'[t].kind = "orphan"
        /\ \A w \in Tasks : w # t => job'[w] = job[w]
    BY <2>1 DEF Work
  <2>4. QED  BY <2>1, <2>2, <2>3 DEF Continues, Busy, Drain
<1>3. ASSUME NEW t \in Tasks, Cancel(t)
      PROVE  UNCHANGED <<phase, manual, todo>> /\ \A w \in Tasks : Continues(w)
  <2>0. Busy(t) /\ UNCHANGED <<phase, manual, todo>>  BY <1>3 DEF Cancel, Busy
  <2>1. CASE job[t].pc = "own"
    <3>1. \A w \in Tasks :
            job'[w] = IF w = t
                      THEN IF Drain(t) THEN Told(t, "release", "none") ELSE Idle
                      ELSE IF Waits(w, t) THEN Told(w, "settle", "error") ELSE job[w]
      BY <1>3, <2>1 DEF Cancel
    <3>2. ASSUME NEW w \in Tasks  PROVE Continues(w)
      <4>1. CASE w = t /\ Drain(t)
        BY <2>0, <3>1, <4>1, ToldContinues
      <4>2. CASE w = t /\ ~Drain(t)
        BY <3>1, <4>2, IdleType DEF Continues, Drain, Idle, Work
      <4>3. CASE w # t /\ Waits(w, t)
        <5>1. Busy(w)  BY <4>3 DEF Waits, Busy
        <5>2. QED  BY <3>1, <4>3, <5>1, ToldContinues
      <4>4. CASE w # t /\ ~Waits(w, t)
        BY <3>1, <4>4 DEF Continues, Busy, Drain
      <4>5. QED  BY <4>1, <4>2, <4>3, <4>4
    <3>3. QED  BY <2>0, <3>2
  <2>2. CASE job[t].pc # "own"
    <3>1. Goto(t, CancelTo(t)) /\ CancelTo(t) \in Pc
      BY <1>3, <2>2 DEF Cancel, CancelTo, Pc
    <3>2. CancelTo(t) \in {"claim", "claim_cancelled", "fail", "release"} => Drain(t)
      BY DEF CancelTo, Exclusive, Placed
    <3>3. QED  BY <2>0, <3>1, <3>2, GotoContinues
  <2>3. QED  BY <2>1, <2>2
<1>4. ASSUME NEW t \in Tasks, DbFault(t)
      PROVE  UNCHANGED <<phase, manual, todo>> /\ \A w \in Tasks : Continues(w)
  <2>0. Busy(t) /\ UNCHANGED <<phase, manual, todo>>  BY <1>4 DEF DbFault, Busy
  <2>1. \/ \E l \in {"idle", "bump"} : Goto(t, l)
        \/ job' = [job EXCEPT ![t] = Told(t, "settle", "error")]
    BY <1>4 DEF DbFault, FaultTo
  <2>2. CASE \E l \in {"idle", "bump"} : Goto(t, l)
    BY <2>0, <2>2, GotoContinues DEF Pc
  <2>3. CASE job' = [job EXCEPT ![t] = Told(t, "settle", "error")]
    <3>1. job'[t] = Told(t, "settle", "error") /\ \A w \in Tasks : w # t => job'[w] = job[w]
      BY <2>3, JobEffect
    <3>2. Continues(t)  BY <2>0, <3>1, ToldContinues
    <3>3. QED  BY <2>0, <3>1, <3>2 DEF Continues, Busy, Drain
  <2>4. QED  BY <2>1, <2>2, <2>3
<1>5. ASSUME NEW t \in Tasks, Step(t), ~Take(t)
      PROVE  UNCHANGED <<phase, manual, todo>> /\ \A w \in Tasks : Continues(w)
  <2>0. Busy(t) /\ UNCHANGED <<phase, manual, todo>>
    BY <1>5 DEF Step, Claim, Start, Finish, SettleOk, SettleChallenge, SettleError,
                Route, Bump, Fail, Release, Busy
  <2>1. CASE \E out \in {"ok", "challenge", "error"} : Finish(t, out)
    <3>1. PICK out \in {"ok", "challenge", "error"} : Finish(t, out)  BY <2>1
    <3>2. \A w \in Tasks : job'[w] = IF w = t \/ Waits(w, t) THEN Told(w, "settle", out)
                                    ELSE job[w]
      BY <3>1 DEF Finish
    <3>3. ASSUME NEW w \in Tasks  PROVE Continues(w)
      <4>1. CASE w = t \/ Waits(w, t)
        <5>1. Busy(w)  BY <2>0, <4>1 DEF Waits, Busy
        <5>2. QED  BY <3>2, <4>1, <5>1, ToldContinues
      <4>2. CASE ~(w = t \/ Waits(w, t))
        BY <3>2, <4>2 DEF Continues, Busy, Drain
      <4>3. QED  BY <4>1, <4>2
    <3>4. QED  BY <2>0, <3>3
  <2>2. CASE SettleError(t) /\ Drain(t)
    <3>1. /\ job'[t] = Told(t, "fail", queue_verdict(job[t].url))
          /\ \A w \in Tasks : w # t => job'[w] = job[w]
      BY <2>2, JobEffect DEF SettleError
    <3>2. Continues(t)  BY <2>0, <2>2, <3>1, ToldContinues
    <3>3. QED  BY <2>0, <3>1, <3>2 DEF Continues, Busy, Drain
  <2>3. CASE \/ Claim(t) \/ Start(t) \/ SettleOk(t) \/ SettleChallenge(t) \/ Route(t)
             \/ (SettleError(t) /\ ~Drain(t)) \/ Bump(t) \/ Fail(t) \/ Release(t)
    <3> DEFINE L == {"idle", "start", "own", "join", "route", "bump"}
    <3>1. \E l \in L \cup {"release"} : Goto(t, l) /\ (l = "release" => Drain(t))
      <4>1. CASE Claim(t)  BY <4>1 DEF Claim
      <4>2. CASE Start(t)  BY <4>2 DEF Start
      <4>3. CASE SettleOk(t) \/ Fail(t)  BY <4>3 DEF SettleOk, Fail, After
      <4>4. CASE SettleChallenge(t)  BY <4>4 DEF SettleChallenge, After
      <4>5. CASE Route(t) \/ Bump(t) \/ Release(t) \/ (SettleError(t) /\ ~Drain(t))
        BY <4>5 DEF Route, Bump, Release, SettleError
      <4>6. QED  BY <2>3, <4>1, <4>2, <4>3, <4>4, <4>5
    <3>2. PICK l \in L \cup {"release"} : Goto(t, l) /\ (l = "release" => Drain(t))
      BY <3>1
    <3>3. l \in Pc  BY DEF Pc
    <3>4. QED  BY <2>0, <3>2, <3>3, GotoContinues
  <2>4. QED  BY <1>5, <2>1, <2>2, <2>3 DEF Step
<1>6. QED  BY <1>1, <1>2, <1>3, <1>4, <1>5

\* A new request is no runner's, and never a drain.
LEMMA RequestExclusive ==
  ASSUME TypeOK, Exclusive, NEW t \in Clients, NEW u \in Urls,
         Fetch(t, u) \/ Refresh(t, u)
  PROVE  Exclusive'
<1>1. /\ UNCHANGED <<phase, manual, todo>> /\ t \in Tasks /\ t \notin Runners
      /\ \A w \in Tasks : w # t => job'[w] = job[w]
  <2>1. t \in Tasks /\ t \notin Runners  BY ConstantsOK DEF Tasks
  <2>2. UNCHANGED <<phase, manual, todo>>  BY DEF Fetch, Refresh, tick
  <2>3. ASSUME NEW w \in Tasks, w # t  PROVE job'[w] = job[w]
    BY <2>3 DEF Fetch, Refresh, TypeOK
  <2>4. QED  BY <2>1, <2>2, <2>3
<1>2. job'[t].pc = "start" /\ job'[t].kind \in {"probe", "direct"}
  <2>1. CASE Fetch(t, u)    BY <1>1, <2>1 DEF Fetch, Work, TypeOK
  <2>2. CASE Refresh(t, u)  BY <1>1, <2>2 DEF Refresh, Work, TypeOK
  <2>3. QED  BY <2>1, <2>2
<1>3. ASSUME NEW p \in Procs  PROVE Joined(p)' /\ (manual'[p] => phase'[p] # "refresh")
  BY <1>1, <1>3 DEF Exclusive, Joined, IdleAll, TasksOf
<1>4. ASSUME NEW w \in Tasks  PROVE Placed(w)'
  BY <1>1, <1>2, <1>4 DEF Exclusive, Placed, Busy, Drain
<1>5. ASSUME NEW v \in Tasks, NEW w \in Tasks  PROVE Distinct(v, w)'
  BY <1>1, <1>5 DEF Exclusive, Distinct, Busy
<1>6. QED  BY <1>3, <1>4, <1>5 DEF Exclusive

\* What taking a URL changes: one runner and the selection of its process.
LEMMA TakeEffect ==
  ASSUME TypeOK, NEW t \in Tasks, Take(t)
  PROVE  LET p == ProcOf[t] IN
         /\ p \in Procs /\ t \in Runners /\ ~Busy(t)
         /\ UNCHANGED <<phase, manual, row, fetched>>
         /\ phase[p] \in {"fast", "cf", "refresh"}
         /\ \A w \in Tasks : w # t => job'[w] = job[w]
         /\ \E u \in todo[p] :
              /\ todo'[p] = todo[p] \ {u}
              /\ \A q \in Procs : q # p => todo'[q] = todo[q]
              /\ job'[t].url = u
              /\ phase[p] = "refresh" => job'[t].kind = "refresh" /\ job'[t].pc = "start"
              /\ phase[p] # "refresh" => job'[t].kind = phase[p] /\ job'[t].pc = "claim"
<1> DEFINE p == ProcOf[t]
<1>0. p \in Procs /\ t \in Runners /\ ~Busy(t)  BY ConstantsOK DEF Take, Busy
<1>1. PICK u \in todo[p] :
        /\ todo' = [todo EXCEPT ![p] = @ \ {u}]
        /\ job' = [job EXCEPT ![t] =
             IF phase[p] = "refresh" THEN Work("start", u, "refresh", TRUE, "none")
             ELSE Work("claim", u, phase[p], FALSE, "none")]
  BY DEF Take
<1>2. /\ UNCHANGED <<phase, manual, row, fetched>>
      /\ phase[p] \in {"fast", "cf", "refresh"}
  BY DEF Take, db
<1>3. /\ \A w \in Tasks : w # t => job'[w] = job[w]
      /\ job'[t] = IF phase[p] = "refresh" THEN Work("start", u, "refresh", TRUE, "none")
                   ELSE Work("claim", u, phase[p], FALSE, "none")
  BY <1>1 DEF TypeOK
<1>4. /\ job'[t].url = u
      /\ phase[p] = "refresh" => job'[t].kind = "refresh" /\ job'[t].pc = "start"
      /\ phase[p] # "refresh" => job'[t].kind = phase[p] /\ job'[t].pc = "claim"
  BY <1>3 DEF Work
<1>5. todo'[p] = todo[p] \ {u} /\ \A q \in Procs : q # p => todo'[q] = todo[q]
  BY <1>0, <1>1 DEF TypeOK
<1>6. QED  BY <1>0, <1>1, <1>2, <1>3, <1>4, <1>5

\* A runner takes a URL that was selected and that nobody else has taken.
LEMMA TakeExclusive ==
  ASSUME TypeOK, Exclusive, NEW t \in Tasks, Take(t)
  PROVE  Exclusive'
<1> DEFINE p == ProcOf[t]
<1>0. /\ p \in Procs /\ t \in Runners /\ ~Busy(t)
      /\ phase' = phase /\ manual' = manual /\ phase[p] \in {"fast", "cf", "refresh"}
      /\ \A w \in Tasks : w # t => job'[w] = job[w]
  BY TakeEffect
<1>1. PICK u \in todo[p] :
        /\ todo'[p] = todo[p] \ {u}
        /\ \A q \in Procs : q # p => todo'[q] = todo[q]
        /\ job'[t].url = u
        /\ phase[p] = "refresh" => job'[t].kind = "refresh" /\ job'[t].pc = "start"
        /\ phase[p] # "refresh" => job'[t].kind = phase[p] /\ job'[t].pc = "claim"
  BY TakeEffect
<1> HIDE DEF p
<1>4. ASSUME NEW q \in Procs  PROVE Joined(q)' /\ (manual'[q] => phase'[q] # "refresh")
  BY <1>0, <1>1, <1>4 DEF Exclusive, Joined, IdleAll, TasksOf, p
<1>5. ASSUME NEW w \in Tasks  PROVE Placed(w)'
  <2>1. CASE w = t
    BY <1>0, <1>1, <2>1 DEF Placed, Drain, p
  <2>2. CASE w # t
    <3>1. ProcOf[w] \in Procs  BY ConstantsOK
    <3>2. QED  BY <1>0, <1>1, <2>2, <3>1 DEF Exclusive, Placed, Drain, Busy, p
  <2>3. QED  BY <2>1, <2>2
<1>6. ASSUME NEW v \in Tasks, NEW w \in Tasks  PROVE Distinct(v, w)'
  <2>1. \A x \in Tasks : x \in Runners /\ Busy(x) /\ ProcOf[x] = p => job[x].url # u
    BY <1>1 DEF Exclusive, Placed
  <2>2. QED  BY <1>0, <1>1, <2>1 DEF Exclusive, Distinct, Busy, p
<1>7. QED  BY <1>4, <1>5, <1>6 DEF Exclusive

\* A phase ends when its runners have been joined, a tick starts with none, and
\* a crash leaves none.
LEMMA TickExclusive ==
  ASSUME TypeOK, Exclusive, NEW p \in Procs,
         StartTick(p) \/ NextPhase(p) \/ Crash(p)
  PROVE  Exclusive'
<1>1. CASE StartTick(p)
  <2>1. /\ UNCHANGED <<todo, job>> /\ phase[p] = "idle" /\ phase'[p] = "begin"
        /\ \A q \in Procs : q # p => phase'[q] = phase[q] /\ manual'[q] = manual[q]
    BY <1>1 DEF StartTick, tasks, TypeOK
  <2>2. ASSUME NEW q \in Procs
        PROVE  Joined(q)' /\ (manual'[q] => phase'[q] # "refresh")
    BY <2>1, <2>2 DEF Exclusive, Joined, IdleAll
  <2>3. ASSUME NEW w \in Tasks  PROVE Placed(w)'
    <3>1. w \in Runners /\ Busy(w) => ProcOf[w] # p /\ ProcOf[w] \in Procs
      BY <2>1, ConstantsOK DEF Exclusive, Joined, IdleAll, TasksOf, Busy
    <3>2. QED  BY <2>1, <3>1 DEF Exclusive, Placed, Busy, Drain
  <2>4. QED  BY <2>1, <2>2, <2>3 DEF Exclusive, Distinct, Busy
<1>2. CASE NextPhase(p)
  <2>1. /\ job' = job /\ IdleAll(TasksOf(p) \cap Runners)
        /\ phase' = [phase EXCEPT ![p] = PhaseAfter(p)]
        /\ todo' = [todo EXCEPT ![p] = Selection(p, PhaseAfter(p))]
        /\ manual' = IF PhaseAfter(p) = "idle" THEN [manual EXCEPT ![p] = FALSE] ELSE manual
        /\ phase[p] \in {"begin", "fast", "cf", "refresh"}
    BY <1>2 DEF NextPhase, PhaseOver, tasks, TypeOK
  <2>2. /\ PhaseAfter(p) \in {"idle", "fast", "cf", "refresh"}
        /\ PhaseAfter(p) = "idle" => Selection(p, PhaseAfter(p)) = {}
        /\ manual[p] => PhaseAfter(p) # "refresh"
    BY <2>1 DEF PhaseAfter, Selection
  <2>3. /\ phase'[p] = PhaseAfter(p) /\ todo'[p] = Selection(p, PhaseAfter(p))
        /\ manual'[p] => manual[p]
        /\ \A q \in Procs : q # p => /\ phase'[q] = phase[q] /\ manual'[q] = manual[q]
                                     /\ todo'[q] = todo[q]
    BY <2>1 DEF TypeOK
  <2>4. ASSUME NEW q \in Procs
        PROVE  Joined(q)' /\ (manual'[q] => phase'[q] # "refresh")
    BY <2>1, <2>2, <2>3, <2>4 DEF Exclusive, Joined, IdleAll
  <2>5. ASSUME NEW w \in Tasks  PROVE Placed(w)'
    <3>1. w \in Runners /\ Busy(w) => ProcOf[w] # p /\ ProcOf[w] \in Procs
      BY <2>1, ConstantsOK DEF IdleAll, TasksOf, Busy
    <3>2. QED  BY <2>1, <2>3, <3>1 DEF Exclusive, Placed, Busy, Drain
  <2>6. QED  BY <2>1, <2>4, <2>5 DEF Exclusive, Distinct, Busy
<1>3. CASE Crash(p)
  <2>1. /\ \A w \in Tasks : job'[w] = IF ProcOf[w] = p THEN Idle ELSE job[w]
        /\ phase'[p] = "idle" /\ todo'[p] = {} /\ ~manual'[p]
        /\ \A q \in Procs : q # p => /\ phase'[q] = phase[q] /\ manual'[q] = manual[q]
                                     /\ todo'[q] = todo[q]
    BY <1>3 DEF Crash, TypeOK
  <2>2. ASSUME NEW q \in Procs
        PROVE  Joined(q)' /\ (manual'[q] => phase'[q] # "refresh")
    BY <2>1, <2>2, IdleType DEF Exclusive, Joined, IdleAll, TasksOf
  <2>3. ASSUME NEW w \in Tasks  PROVE Placed(w)'
    <3>1. CASE ProcOf[w] = p
      BY <2>1, <3>1 DEF Placed, Busy, Drain, Idle, Work
    <3>2. CASE ProcOf[w] # p
      BY <2>1, <3>2, ConstantsOK DEF Exclusive, Placed, Busy, Drain
    <3>3. QED  BY <3>1, <3>2
  <2>4. ASSUME NEW v \in Tasks, NEW w \in Tasks  PROVE Distinct(v, w)'
    BY <2>1, <2>4, IdleType DEF Exclusive, Distinct, Busy
  <2>5. QED  BY <2>2, <2>3, <2>4 DEF Exclusive
<1>4. QED  BY <1>1, <1>2, <1>3

\* The runners of a process never work on the same URL, for any number of
\* processes.
LEMMA ExclusiveAlways == Spec => []Exclusive
<1>1. Init => Exclusive
  <2> SUFFICES ASSUME Init  PROVE Exclusive
    OBVIOUS
  <2>1. \A t \in Tasks : job[t] = Idle  BY DEF Init
  <2>2. Idle.pc = "idle" /\ Idle.kind = "none"  BY DEF Idle, Work
  <2>3. \A p \in Procs : phase[p] = "idle" /\ todo[p] = {} /\ ~manual[p]  BY DEF Init
  <2>4. QED
    BY <2>1, <2>2, <2>3 DEF Exclusive, Joined, Placed, Distinct, IdleAll, TasksOf, Busy, Drain
<1>2. TypeOK /\ Exclusive /\ [Next]_vars => Exclusive'
  <2> SUFFICES ASSUME TypeOK, Exclusive, [Next]_vars  PROVE Exclusive'
    OBVIOUS
  <2>1. CASE Next
    <3>1. CASE \/ \E p \in Procs : Boot(p) \/ BeginStop(p) \/ EndStop(p) \/ Deadline(p)
               \/ SetPaused
               \/ \E u \in Urls : PageAges(u) \/ LateFault(u) \/ LateEnqueue(u)
               \/ \E u \in Urls, source \in Sources : Enqueue(u, source)
               \/ \E t \in Clients, requeue \in BOOLEAN : Orphan(t, requeue)
               \/ \E t \in Tasks : Cancel(t) \/ DbFault(t) \/ (Step(t) /\ ~Take(t))
      BY <3>1, TasksContinue, ContinuesExclusive
    <3>2. CASE \E t \in Clients, u \in Urls : Fetch(t, u) \/ Refresh(t, u)
      BY <3>2, RequestExclusive
    <3>3. CASE \E t \in Tasks : Take(t)
      BY <3>3, TakeExclusive
    <3>4. CASE \E p \in Procs : StartTick(p) \/ NextPhase(p) \/ Crash(p)
      BY <3>4, TickExclusive
    <3>5. QED  BY <2>1, <3>1, <3>2, <3>3, <3>4 DEF Next, Environment
  <2>2. CASE UNCHANGED vars
    BY <2>2, ContinuesExclusive DEF vars, tick, tasks, Continues, Busy, Drain
  <2>3. QED  BY <2>1, <2>2
<1>3. QED  BY <1>1, <1>2, TypeCorrect, PTL DEF Spec

\* With one process, no two runners ever work on the same claim: the runners of
\* a tick never share a URL, and nobody but them claims.
THEOREM SingleHolder ==
  ASSUME OneProcess
  PROVE  Spec => []OneHolder
<1>1. Exclusive => OneHolder
  <2> SUFFICES ASSUME Exclusive, NEW t \in Tasks, NEW w \in Tasks, Claimed(t), Claimed(w),
                      job[t].url = job[w].url
               PROVE  t = w
    BY DEF OneHolder
  <2>1. t \in Runners /\ w \in Runners /\ Busy(t) /\ Busy(w)
    BY DEF Exclusive, Placed, Claimed, Busy
  <2>2. ProcOf[t] = ProcOf[w]  BY ConstantsOK, OneProcess DEF OneProcess
  <2>3. QED  BY <2>1, <2>2 DEF Exclusive, Distinct
<1>2. QED  BY <1>1, ExclusiveAlways, PTL

---------------------------------------------------------------------------
(* Held.                                                                   *)

\* A statement is gentle to a row when it neither decides on an active one nor
\* puts one in flight, and leaves attempts in flight as they are.
Gentle(v) ==
  /\ Active(v) => /\ Active(v)' /\ row'[v].source = row[v].source
                  /\ fetched[v] => fetched'[v]
  /\ InFlight(v)' => InFlight(v) /\ row'[v].attempts = row[v].attempts

\* All statements but a claim and a decision are gentle to every row.
LEMMA GentleStatements ==
  ASSUME TypeOK,
         \/ row' = row /\ \A v \in Urls : fetched[v] => fetched'[v]
         \/ queue_reset_in_flight /\ fetched' = fetched
         \/ \E u \in Urls, lane \in {"fast", "cf"}, source \in {"manual", "other"} :
              queue_enqueue(u, lane, source)
         \/ (\E u \in Urls : queue_release(u) \/ queue_route_to_cf(u)) /\ fetched' = fetched
  PROVE  \A v \in Urls : Gentle(v)
<1> USE DEF Gentle, Active, InFlight
<1> row \in [Urls -> Row] /\ fetched \in [Urls -> BOOLEAN]  BY DEF TypeOK
<1>1. CASE row' = row /\ \A v \in Urls : fetched[v] => fetched'[v]
  BY <1>1
<1>2. CASE queue_reset_in_flight /\ fetched' = fetched
  <2>1. \A v \in Urls : /\ Marked(row[v], "pending").status = "pending"
                        /\ Marked(row[v], "pending").source = row[v].source
    BY DEF Marked, Entry
  <2>2. QED  BY <1>2, <2>1 DEF queue_reset_in_flight
<1>3. ASSUME NEW u \in Urls, NEW lane \in {"fast", "cf"}, NEW source \in {"manual", "other"},
             queue_enqueue(u, lane, source)
      PROVE  \A v \in Urls : Gentle(v)
  <2>1. Entry("pending", lane, 0, source).status = "pending"  BY DEF Entry
  <2>2. QED  BY <1>3, <2>1 DEF queue_enqueue
<1>4. ASSUME NEW u \in Urls, queue_release(u) \/ queue_route_to_cf(u), fetched' = fetched
      PROVE  \A v \in Urls : Gentle(v)
  <2>1. /\ GivenBack(row[u]).status = "pending" /\ GivenBack(row[u]).source = row[u].source
        /\ Routed(row[u]).status = "pending" /\ Routed(row[u]).source = row[u].source
    BY DEF GivenBack, Routed, Entry
  <2>2. QED  BY <1>4, <2>1 DEF queue_release, queue_route_to_cf
<1>5. QED  BY <1>1, <1>2, <1>3, <1>4

\* What is held stays held under a gentle statement.
LEMMA TaskKeeps ==
  ASSUME TypeOK, Exclusive, NEW w \in Tasks, HeldTask(w), job'[w] = job[w],
         manual' = manual, Busy(w) => Gentle(job[w].url)
  PROVE  HeldTask(w)'
<1>1. job[w].pc = "fail" => Drain(w)  BY DEF Exclusive, Placed
<1>2. QED  BY <1>1 DEF HeldTask, Wanted, Gentle, Busy, Drain

\* A pass that loses URLs only still has gentle ones left.
LEMMA TodoKeeps ==
  ASSUME TypeOK, NEW p \in Procs, HeldTodo(p), phase' = phase, manual' = manual,
         \A v \in todo'[p] : v \in todo[p] /\ Gentle(v)
  PROVE  HeldTodo(p)'
BY DEF HeldTodo, Wanted, Gentle

\* A task that is idle, has its row behind it or never had one holds nothing.
LEMMA HoldsNothing ==
  ASSUME NEW t \in Tasks,
         \/ job'[t].pc \in {"idle", "release", "route", "bump"}
         \/ job'[t].kind \notin {"fast", "cf"} /\ job'[t].pc # "fail"
  PROVE  HeldTask(t)'
BY DEF HeldTask, Drain

\* A step whose statement is gentle to every row.
LEMMA GentleHeld ==
  ASSUME TypeOK, Exclusive, Held, UNCHANGED <<phase, manual, todo>>,
         \A v \in Urls : Gentle(v),
         \A w \in Tasks : job'[w] = job[w] \/ HeldTask(w)'
  PROVE  Held'
<1>1. ASSUME NEW w \in Tasks  PROVE HeldTask(w)'
  BY TaskKeeps DEF Held, TypeOK, Busy
<1>2. ASSUME NEW p \in Procs  PROVE HeldTodo(p)'
  BY TodoKeeps DEF Held, TypeOK
<1>3. QED  BY <1>1, <1>2 DEF Held

\* A step of a runner on its own row: with one process nobody else minds.
LEMMA OwnRowHeld ==
  ASSUME OneProcess, TypeOK, Exclusive, Held, UNCHANGED <<phase, manual, todo>>,
         NEW t \in Tasks, Drain(t), Busy(t),
         \A v \in Urls : v # job[t].url => Gentle(v),
         \A w \in Tasks : w # t => job'[w] = job[w],
         HeldTask(t)'
  PROVE  Held'
<1>1. /\ t \in Runners /\ \A p \in Procs : job[t].url \notin todo[p]
      /\ \A w \in Tasks : w \in Runners /\ Busy(w) /\ w # t => job[w].url # job[t].url
  BY ConstantsOK DEF Exclusive, Placed, Distinct, OneProcess
<1>2. ASSUME NEW w \in Tasks, w # t  PROVE HeldTask(w)'
  <2>1. CASE Drain(w) /\ Busy(w)
    <3>1. Gentle(job[w].url)  BY <1>1, <1>2, <2>1 DEF Exclusive, Placed, TypeOK, Busy
    <3>2. QED  BY <1>2, <3>1, TaskKeeps DEF Held
  <2>2. CASE ~Busy(w)
    BY <1>2, <2>2, HoldsNothing DEF Busy
  <2>3. CASE ~Drain(w)
    <3>1. job[w].pc # "fail"  BY <2>3 DEF Exclusive, Placed
    <3>2. QED  BY <1>2, <2>3, <3>1, HoldsNothing DEF Drain
  <2>4. QED  BY <2>1, <2>2, <2>3
<1>3. ASSUME NEW p \in Procs  PROVE HeldTodo(p)'
  BY <1>1, TodoKeeps DEF Held, TypeOK
<1>4. QED  BY <1>2, <1>3 DEF Held

\* Steps of processes, requests and time.
LEMMA EnvironmentHeld ==
  ASSUME TypeOK, Exclusive, Held,
         \/ \E p \in Procs : Boot(p) \/ BeginStop(p) \/ EndStop(p) \/ Deadline(p)
         \/ SetPaused
         \/ \E u \in Urls : PageAges(u) \/ LateFault(u) \/ LateEnqueue(u)
         \/ \E u \in Urls, source \in Sources : Enqueue(u, source)
         \/ \E t \in Clients, u \in Urls : Fetch(t, u) \/ Refresh(t, u)
         \/ \E t \in Clients, requeue \in BOOLEAN : Orphan(t, requeue)
  PROVE  Held'
<1> USE DEF db, ctl, tick, tasks
<1> job \in [Tasks -> Job]  BY DEF TypeOK
<1>1. CASE \/ \E p \in Procs : BeginStop(p) \/ EndStop(p) \/ Deadline(p)
           \/ SetPaused
           \/ \E u \in Urls : PageAges(u) \/ LateFault(u)
  <2>1. UNCHANGED <<phase, manual, todo, job, row, fetched>>
    BY <1>1 DEF BeginStop, EndStop, Deadline, SetPaused, PageAges, LateFault
  <2>2. QED  BY <2>1, GentleStatements, GentleHeld
<1>2. ASSUME NEW p \in Procs, Boot(p)  PROVE Held'
  <2>1. UNCHANGED <<phase, manual, todo, job, fetched>> /\ queue_reset_in_flight
    BY <1>2 DEF Boot
  <2>2. QED  BY <2>1, GentleStatements, GentleHeld
<1>3. CASE \/ \E u \in Urls : LateEnqueue(u)
           \/ \E u \in Urls, source \in Sources : Enqueue(u, source)
  <2>1. UNCHANGED <<phase, manual, todo, job>>
    BY <1>3 DEF LateEnqueue, Enqueue
  <2>2. \E u \in Urls, source \in {"manual", "other"} : queue_enqueue(u, "fast", source)
    BY <1>3, ConstantsOK DEF LateEnqueue, Enqueue
  <2>3. QED  BY <2>1, <2>2, GentleStatements, GentleHeld
<1>4. ASSUME NEW t \in Clients,
             \/ \E u \in Urls : Fetch(t, u) \/ Refresh(t, u)
             \/ \E requeue \in BOOLEAN : Orphan(t, requeue)
      PROVE  Held'
  <2>1. UNCHANGED <<phase, manual, todo, row, fetched>> /\ t \in Tasks
    BY <1>4 DEF Fetch, Refresh, Orphan, Tasks
  <2>2. \A w \in Tasks : w # t => job'[w] = job[w]
    BY <1>4, <2>1 DEF Fetch, Refresh, Orphan
  <2>3. job'[t].kind \in {"probe", "direct", "orphan"} /\ job'[t].pc # "fail"
    <3>1. ASSUME NEW u \in Urls, Fetch(t, u)
          PROVE  job'[t].kind = "probe" /\ job'[t].pc = "start"
      BY <2>1, <3>1 DEF Fetch, Work
    <3>2. ASSUME NEW u \in Urls, Refresh(t, u)
          PROVE  job'[t].kind = "direct" /\ job'[t].pc = "start"
      BY <2>1, <3>2 DEF Refresh, Work
    <3>3. ASSUME NEW requeue \in BOOLEAN, Orphan(t, requeue)
          PROVE  job'[t].kind = "orphan" /\ job'[t].pc = job[t].pc /\ job[t].pc # "fail"
      BY <2>1, <3>3 DEF Orphan, Work, Exclusive, Placed, Drain
    <3>4. QED  BY <1>4, <3>1, <3>2, <3>3
  <2>4. HeldTask(t)'  BY <2>1, <2>3, HoldsNothing
  <2>5. QED  BY <2>1, <2>2, <2>4, GentleStatements, GentleHeld
<1>5. QED  BY <1>1, <1>2, <1>3, <1>4

\* A phase selects rows that are wanted, a runner takes one of them; a tick
\* starts and a crash leaves without any.
LEMMA TickHeld ==
  ASSUME TypeOK, Exclusive, Held,
         \/ \E p \in Procs : StartTick(p) \/ NextPhase(p) \/ Crash(p)
         \/ \E t \in Tasks : Take(t)
  PROVE  Held'
<1> USE DEF db, ctl, tick, tasks
<1> /\ \A t \in Tasks : ProcOf[t] \in Procs
    /\ \A t \in Tasks : job[t].pc = "fail" => Drain(t)
    /\ \A t \in Tasks : Drain(t) => t \in Runners
  BY ConstantsOK DEF Exclusive, Placed
<1>1. ASSUME NEW p \in Procs, StartTick(p)  PROVE Held'
  <2>1. /\ UNCHANGED <<row, fetched, job, todo>> /\ phase[p] = "idle" /\ phase'[p] = "begin"
        /\ \A q \in Procs : q # p => phase'[q] = phase[q] /\ manual'[q] = manual[q]
    BY <1>1 DEF StartTick, TypeOK
  <2>2. ASSUME NEW w \in Tasks  PROVE HeldTask(w)'
    <3>1. CASE Drain(w) /\ Busy(w)
      <4>1. ProcOf[w] # p
        BY <2>1, <3>1 DEF Exclusive, Joined, IdleAll, TasksOf, Busy
      <4>2. QED  BY <2>1, <4>1 DEF Held, HeldTask, Wanted, Active, InFlight, Drain
    <3>2. CASE ~(Drain(w) /\ Busy(w))
      BY <2>1, <3>2 DEF HeldTask, Drain, Busy
    <3>3. QED  BY <3>1, <3>2
  <2>3. ASSUME NEW q \in Procs  PROVE HeldTodo(q)'
    BY <2>1 DEF Held, HeldTodo, Wanted, Active
  <2>4. QED  BY <2>2, <2>3 DEF Held
<1>2. ASSUME NEW p \in Procs, NextPhase(p)  PROVE Held'
  <2>1. /\ UNCHANGED <<row, fetched, job>> /\ IdleAll(TasksOf(p) \cap Runners)
        /\ phase'[p] = PhaseAfter(p) /\ todo'[p] = Selection(p, PhaseAfter(p))
        /\ \A q \in Procs : q # p => /\ phase'[q] = phase[q] /\ manual'[q] = manual[q]
                                     /\ todo'[q] = todo[q]
        /\ PhaseAfter(p) # "idle" => manual' = manual
    BY <1>2 DEF NextPhase, PhaseOver, TypeOK
  <2>2. ASSUME NEW w \in Tasks  PROVE HeldTask(w)'
    <3>1. CASE Drain(w) /\ Busy(w)
      <4>1. ProcOf[w] # p
        BY <2>1, <3>1 DEF IdleAll, TasksOf, Busy
      <4>2. QED  BY <2>1, <4>1 DEF Held, HeldTask, Wanted, Active, InFlight, Drain
    <3>2. CASE ~(Drain(w) /\ Busy(w))
      BY <2>1, <3>2 DEF HeldTask, Drain, Busy
    <3>3. QED  BY <3>1, <3>2
  <2>3. ASSUME NEW q \in Procs  PROVE HeldTodo(q)'
    <3>1. CASE q # p
      BY <2>1, <3>1 DEF Held, HeldTodo, Wanted, Active
    <3>2. CASE q = p
      <4>1. ASSUME PhaseAfter(p) \in {"fast", "cf"}, NEW u \in Selection(p, PhaseAfter(p))
            PROVE  row[u].status = "pending" /\ (manual[p] => row[u].source = "manual")
        BY <4>1 DEF Selection, Ready
      <4>2. QED  BY <2>1, <3>2, <4>1 DEF HeldTodo, Wanted, Active
    <3>3. QED  BY <3>1, <3>2
  <2>4. QED  BY <2>2, <2>3 DEF Held
<1>3. ASSUME NEW p \in Procs, Crash(p)  PROVE Held'
  <2>1. /\ \A w \in Tasks : job'[w] = IF ProcOf[w] = p THEN Idle ELSE job[w]
        /\ UNCHANGED <<row, fetched>> /\ phase'[p] = "idle"
        /\ \A q \in Procs : q # p => /\ phase'[q] = phase[q] /\ manual'[q] = manual[q]
                                     /\ todo'[q] = todo[q]
    BY <1>3 DEF Crash, TypeOK
  <2>2. ASSUME NEW w \in Tasks  PROVE HeldTask(w)'
    <3>1. CASE ProcOf[w] = p
      BY <2>1, <3>1, IdleType, HoldsNothing
    <3>2. CASE ProcOf[w] # p
      BY <2>1, <3>2 DEF Held, HeldTask, Wanted, Active, InFlight, Drain
    <3>3. QED  BY <3>1, <3>2
  <2>3. ASSUME NEW q \in Procs  PROVE HeldTodo(q)'
    BY <2>1 DEF Held, HeldTodo, Wanted, Active
  <2>4. QED  BY <2>2, <2>3 DEF Held
<1>4. ASSUME NEW t \in Tasks, Take(t)  PROVE Held'
  <2> DEFINE p == ProcOf[t]
  <2>1. /\ UNCHANGED <<phase, manual, row, fetched>>
        /\ phase[p] \in {"fast", "cf", "refresh"}
        /\ \A w \in Tasks : w # t => job'[w] = job[w]
    BY <1>4, TakeEffect
  <2>2. PICK u \in todo[p] :
          /\ \A q \in Procs : todo'[q] \subseteq todo[q]
          /\ job'[t].url = u
          /\ phase[p] = "refresh" => job'[t].kind = "refresh" /\ job'[t].pc = "start"
          /\ phase[p] # "refresh" => job'[t].pc = "claim"
    BY <1>4, TakeEffect
  <2>3. \A v \in Urls : Gentle(v)  BY <2>1, GentleStatements
  <2>4. HeldTask(t)'
    <3>1. CASE phase[p] = "refresh"
      BY <2>2, <3>1, HoldsNothing
    <3>2. CASE phase[p] # "refresh"
      <4>1. Wanted(p, u)  BY <2>1, <3>2 DEF Held, HeldTodo
      <4>2. QED  BY <2>1, <2>2, <3>2, <4>1 DEF HeldTask, Wanted, Active, Drain
    <3>3. QED  BY <3>1, <3>2
  <2>5. ASSUME NEW w \in Tasks  PROVE HeldTask(w)'
    BY <2>1, <2>3, <2>4, TaskKeeps DEF Held, TypeOK, Busy
  <2>6. ASSUME NEW q \in Procs  PROVE HeldTodo(q)'
    BY <2>1, <2>2, <2>3, TodoKeeps DEF Held, TypeOK
  <2>7. QED  BY <2>5, <2>6 DEF Held
<1>5. QED  BY <1>1, <1>2, <1>3, <1>4

\* A step of a task that decides on nothing but its own row.
LEMMA TaskHeld ==
  ASSUME OneProcess, TypeOK, Exclusive, Held, NEW t \in Tasks,
         Cancel(t) \/ DbFault(t) \/ (Step(t) /\ ~Take(t))
  PROVE  Held'
<1> USE DEF db, ctl, tick, tasks
<1>0. /\ UNCHANGED <<phase, manual, todo>> /\ HeldTask(t)
      /\ job \in [Tasks -> Job] /\ row \in [Urls -> Row] /\ fetched \in [Urls -> BOOLEAN]
      /\ Busy(t) => job[t].url \in Urls
  BY TasksContinue DEF Held, TypeOK, Busy
<1>1. CASE Cancel(t)
  <2>1. row' = row /\ fetched' = fetched  BY <1>1 DEF Cancel
  <2>2. CASE job[t].pc = "own"
    <3>1. \A w \in Tasks :
            job'[w] = IF w = t
                      THEN IF Drain(t) THEN Told(t, "release", "none") ELSE Idle
                      ELSE IF Waits(w, t) THEN Told(w, "settle", "error") ELSE job[w]
      BY <1>1, <2>2 DEF Cancel
    <3>2. ASSUME NEW w \in Tasks  PROVE job'[w] = job[w] \/ HeldTask(w)'
      <4>1. CASE w = t
        <5>1. job'[t].pc \in {"release", "idle"}  BY <3>1, <4>1, IdleType, ToldFields
        <5>2. QED  BY <4>1, <5>1, HoldsNothing
      <4>2. CASE w # t /\ Waits(w, t)
        <5>0. job'[w] = Told(w, "settle", "error")  BY <3>1, <4>2
        <5>1. /\ job'[w].pc = "settle" /\ job'[w].out = "error"
              /\ job'[w].url = job[w].url /\ job'[w].kind = job[w].kind
          BY <5>0 DEF Told, Work
        <5>2. job[w].pc = "join"  BY <4>2 DEF Waits
        <5>3. QED
          BY <1>0, <2>1, <5>1, <5>2 DEF Held, HeldTask, Drain, Wanted, Active
      <4>3. CASE w # t /\ ~Waits(w, t)
        BY <3>1, <4>3
      <4>4. QED  BY <4>1, <4>2, <4>3
    <3>3. QED  BY <1>0, <2>1, <3>2, GentleStatements, GentleHeld
  <2>3. CASE job[t].pc # "own"
    <3>1. Goto(t, CancelTo(t)) /\ CancelTo(t) \in Pc
      BY <1>1, <2>3 DEF Cancel, CancelTo, Pc
    <3>2. CASE CancelTo(t) \in {"idle", "release"}
      <4>1. job'[t].pc \in {"idle", "release"} /\ \A w \in Tasks : w # t => job'[w] = job[w]
        BY <1>0, <3>1, <3>2, GotoEffect
      <4>2. QED  BY <1>0, <2>1, <4>1, HoldsNothing, GentleStatements, GentleHeld
    <3>3. CASE CancelTo(t) = "claim_cancelled"
      <4>1. /\ job[t].pc = "claim" /\ job'[t].pc = "claim_cancelled"
            /\ job'[t].url = job[t].url /\ job'[t].kind = job[t].kind
            /\ \A w \in Tasks : w # t => job'[w] = job[w]
        BY <1>0, <3>1, <3>3, GotoEffect DEF CancelTo
      <4>2. HeldTask(t)'
        BY <1>0, <2>1, <4>1 DEF HeldTask, Drain, Wanted, Active
      <4>3. QED  BY <1>0, <2>1, <4>1, <4>2, GentleStatements, GentleHeld
    <3>4. QED  BY <3>2, <3>3 DEF CancelTo
  <2>4. QED  BY <2>2, <2>3
<1>2. CASE DbFault(t)
  <2>1. row' = row /\ fetched' = fetched  BY <1>2 DEF DbFault
  <2>2. CASE Goto(t, "idle")
    <3>1. job'[t].pc = "idle" /\ \A w \in Tasks : w # t => job'[w] = job[w]
      BY <1>0, <2>2, GotoEffect DEF Pc
    <3>2. QED  BY <1>0, <2>1, <3>1, HoldsNothing, GentleStatements, GentleHeld
  <2>3. CASE job[t].pc = "settle" /\ job' = [job EXCEPT ![t] = Told(t, "settle", "error")]
    <3>1. /\ job'[t].pc = "settle" /\ job'[t].out = "error"
          /\ job'[t].url = job[t].url /\ job'[t].kind = job[t].kind
          /\ \A w \in Tasks : w # t => job'[w] = job[w]
      BY <1>0, <2>3 DEF Told, Work
    <3>2. HeldTask(t)'
      BY <1>0, <2>1, <2>3, <3>1 DEF HeldTask, Drain, Wanted, Active
    <3>3. QED  BY <1>0, <2>1, <3>1, <3>2, GentleStatements, GentleHeld
  <2>4. CASE job[t].kind = "probe" /\ Goto(t, "bump")
    <3>1. /\ job'[t].pc = "bump" /\ job'[t].kind = job[t].kind
          /\ \A w \in Tasks : w # t => job'[w] = job[w]
      BY <1>0, <2>4, GotoEffect DEF Pc
    <3>2. QED
      BY <1>0, <2>1, <2>4, <3>1, HoldsNothing, GentleStatements, GentleHeld DEF Drain
  <2>5. QED  BY <1>2, <2>2, <2>3, <2>4 DEF DbFault, FaultTo
<1>3. CASE Claim(t)
  <2>1. /\ Drain(t) /\ Busy(t) /\ queue_claim(job[t].url) /\ fetched' = fetched
        /\ job[t].pc \in {"claim", "claim_cancelled"}
    BY <1>3 DEF Claim, Busy
  <2>2. \A v \in Urls : v # job[t].url => Gentle(v)
    BY <1>0, <2>1, ClaimEffect DEF Gentle, Active, InFlight
  <2>3. \E l \in {"idle", "start", "release"} :
          Goto(t, l) /\ (l = "start" => row[job[t].url].status = "pending")
    BY <1>3 DEF Claim
  <2>4. PICK l \in {"idle", "start", "release"} :
          Goto(t, l) /\ (l = "start" => row[job[t].url].status = "pending")
    BY <2>3
  <2>5. /\ \A w \in Tasks : w # t => job'[w] = job[w]
        /\ job'[t].pc = l
        /\ l # "idle" => job'[t].url = job[t].url /\ job'[t].kind = job[t].kind
    BY <1>0, <2>4, GotoEffect DEF Pc
  <2>6. HeldTask(t)'
    <3>1. CASE l \in {"idle", "release"}
      BY <2>5, <3>1, HoldsNothing
    <3>2. CASE l = "start"
      <4>1. /\ row'[job[t].url].status = "in_flight"
            /\ row'[job[t].url].source = row[job[t].url].source
        BY <1>0, <2>1, <2>4, <3>2 DEF queue_claim, Leased, Entry
      <4>2. QED
        BY <1>0, <2>1, <2>5, <3>2, <4>1 DEF HeldTask, Drain, Wanted, Active
    <3>3. QED  BY <3>1, <3>2
  <2>7. QED  BY <1>0, <2>1, <2>2, <2>5, <2>6, OwnRowHeld
<1>4. CASE Start(t)
  <2>1. \E l \in {"own", "join"} : Goto(t, l)  BY <1>4 DEF Start
  <2>2. /\ row' = row /\ fetched' = fetched /\ job[t].pc = "start"
        /\ job'[t].pc \in {"own", "join"}
        /\ job'[t].url = job[t].url /\ job'[t].kind = job[t].kind
        /\ \A w \in Tasks : w # t => job'[w] = job[w]
    BY <1>0, <1>4, <2>1, GotoEffect DEF Start, Pc
  <2>3. HeldTask(t)'
    BY <1>0, <2>2 DEF HeldTask, Drain, Wanted, Active
  <2>4. QED  BY <1>0, <2>2, <2>3, GentleStatements, GentleHeld
<1>5. ASSUME NEW out \in {"ok", "challenge", "error"}, Finish(t, out)  PROVE Held'
  <2>1. /\ row' = row /\ job[t].pc = "own"
        /\ \A w \in Tasks : job'[w] = IF w = t \/ Waits(w, t) THEN Told(w, "settle", out)
                                     ELSE job[w]
    BY <1>5 DEF Finish
  <2>2. /\ \A v \in Urls : fetched[v] => fetched'[v]
        /\ out = "ok" => fetched'[job[t].url]
    BY <1>0, <1>5, <2>1 DEF Finish, Busy
  <2>3. ASSUME NEW w \in Tasks  PROVE job'[w] = job[w] \/ HeldTask(w)'
    <3>1. CASE w = t \/ Waits(w, t)
      <4>0. job'[w] = Told(w, "settle", out)  BY <2>1, <3>1
      <4>1. /\ job'[w].pc = "settle" /\ job'[w].out = out
            /\ job'[w].url = job[w].url /\ job'[w].kind = job[w].kind
        BY <4>0 DEF Told, Work
      <4>2. job[w].pc \in {"own", "join"} /\ job[w].url = job[t].url
        BY <2>1, <3>1 DEF Waits
      <4>3. QED
        BY <1>0, <2>1, <2>2, <4>1, <4>2 DEF Held, HeldTask, Drain, Wanted, Active
    <3>2. CASE ~(w = t \/ Waits(w, t))
      BY <2>1, <3>2
    <3>3. QED  BY <3>1, <3>2
  <2>4. QED  BY <1>0, <2>1, <2>2, <2>3, GentleStatements, GentleHeld
<1>6. CASE SettleError(t) /\ Drain(t)
  <2>1. /\ row' = row /\ fetched' = fetched /\ job[t].pc = "settle"
        /\ job'[t] = Told(t, "fail", queue_verdict(job[t].url))
        /\ \A w \in Tasks : w # t => job'[w] = job[w]
    BY <1>0, <1>6 DEF SettleError
  <2>2. /\ job'[t].pc = "fail" /\ job'[t].out = queue_verdict(job[t].url)
        /\ job'[t].url = job[t].url /\ job'[t].kind = job[t].kind
    BY <2>1 DEF Told, Work
  <2>3. HeldTask(t)'
    BY <1>0, <2>1, <2>2 DEF HeldTask, Drain, Wanted, Active, queue_verdict, InFlight
  <2>4. QED  BY <1>0, <2>1, <2>3, GentleStatements, GentleHeld
<1>7. CASE (SettleOk(t) /\ Drain(t)) \/ Fail(t)
  <2>1. \E l \in {"idle", "release"} : Goto(t, l)  BY <1>7 DEF SettleOk, Fail, After
  <2>2. /\ job'[t].pc \in {"idle", "release"}
        /\ \A w \in Tasks : w # t => job'[w] = job[w]
    BY <1>0, <2>1, GotoEffect DEF Pc
  <2>3. Drain(t) /\ Busy(t)
    BY <1>7 DEF SettleOk, Fail, Exclusive, Placed, Busy
  <2>4. /\ \E status \in {"pending", "done", "failed"} : queue_finish(job[t].url, status)
        /\ fetched' = fetched
    BY <1>7 DEF SettleOk, Fail
  <2>5. \A v \in Urls : v # job[t].url => Gentle(v)
    BY <1>0, <2>3, <2>4, Settled DEF Gentle, Active, InFlight
  <2>6. QED  BY <1>0, <2>2, <2>3, <2>5, HoldsNothing, OwnRowHeld
<1>8. CASE \/ (SettleOk(t) /\ ~Drain(t)) \/ SettleChallenge(t) \/ Route(t)
           \/ (SettleError(t) /\ ~Drain(t)) \/ Bump(t) \/ Release(t)
  <2>1. Busy(t)
    BY <1>8 DEF SettleOk, SettleChallenge, SettleError, Route, Bump, Release, Busy
  <2>2. \E l \in {"idle", "release", "route", "bump"} : Goto(t, l)
    <3>1. CASE SettleOk(t)  BY <3>1 DEF SettleOk, After
    <3>2. CASE SettleChallenge(t)  BY <3>2 DEF SettleChallenge, After
    <3>3. CASE Route(t) \/ Bump(t) \/ Release(t) \/ (SettleError(t) /\ ~Drain(t))
      BY <3>3 DEF Route, Bump, Release, SettleError
    <3>4. QED  BY <1>8, <3>1, <3>2, <3>3
  <2>3. /\ job'[t].pc \in {"idle", "release", "route", "bump"}
        /\ \A w \in Tasks : w # t => job'[w] = job[w]
    BY <1>0, <2>2, GotoEffect DEF Pc
  <2>4. \/ row' = row /\ fetched' = fetched
        \/ \E u \in Urls, lane \in {"fast", "cf"}, source \in {"manual", "other"} :
              queue_enqueue(u, lane, source)
        \/ (\E u \in Urls : queue_release(u) \/ queue_route_to_cf(u)) /\ fetched' = fetched
    <3>1. CASE (SettleOk(t) /\ ~Drain(t)) \/ Bump(t) \/ (SettleError(t) /\ ~Drain(t))
      BY <3>1 DEF SettleOk, SettleError, Bump
    <3>2. CASE Route(t) \/ Release(t)
      BY <1>0, <2>1, <3>2 DEF Route, Release
    <3>3. CASE SettleChallenge(t)
      <4>1. \/ queue_route_to_cf(job[t].url) /\ fetched' = fetched
            \/ queue_enqueue(job[t].url, "cf", "other")
            \/ row' = row /\ fetched' = fetched
        BY <3>3 DEF SettleChallenge
      <4>2. QED  BY <1>0, <2>1, <4>1
    <3>4. QED  BY <1>8, <3>1, <3>2, <3>3
  <2>5. \A v \in Urls : Gentle(v)
    BY <2>4, GentleStatements
  <2>6. QED  BY <1>0, <2>3, <2>5, HoldsNothing, GentleHeld
<1>9. QED
  BY <1>1, <1>2, <1>3, <1>4, <1>5, <1>6, <1>7, <1>8 DEF Step

\* With one process, the row of a claim stays what its runner thinks it is.
LEMMA HeldAlways ==
  ASSUME OneProcess
  PROVE  Spec => []Held
<1>1. Init => Held
  <2> SUFFICES ASSUME Init  PROVE Held
    OBVIOUS
  <2>1. \A t \in Tasks : job[t] = Idle  BY DEF Init
  <2>2. Idle.pc = "idle" /\ Idle.kind = "none"  BY DEF Idle, Work
  <2>3. \A p \in Procs : phase[p] = "idle"  BY DEF Init
  <2>4. QED  BY <2>1, <2>2, <2>3 DEF Held, HeldTodo, HeldTask, Drain
<1>2. TypeOK /\ Exclusive /\ Held /\ [Next]_vars => Held'
  <2> SUFFICES ASSUME TypeOK, Exclusive, Held, [Next]_vars  PROVE Held'
    OBVIOUS
  <2>1. CASE Next
    BY <2>1, EnvironmentHeld, TickHeld, TaskHeld DEF Next, Environment, Step
  <2>2. CASE UNCHANGED vars
    BY <2>2, GentleStatements, GentleHeld DEF vars, db, tick, tasks
  <2>3. QED  BY <2>1, <2>2
<1>3. QED  BY <1>1, <1>2, TypeCorrect, ExclusiveAlways, PTL DEF Spec

\* With one process, a tick that found the pause switch on crawls manual seeds
\* and nothing else: what its drains hold was selected as one and stays one, and
\* it has no refresh phase.
THEOREM PausedTickKeepsToSeeds ==
  ASSUME OneProcess
  PROVE  Spec => []PausedTickIsManual
<1>1. Exclusive /\ Held => PausedTickIsManual
  <2> SUFFICES ASSUME Exclusive, Held, NEW t \in Runners, manual[ProcOf[t]],
                      job[t].pc = "own"
               PROVE  row[job[t].url].source = "manual"
    BY DEF PausedTickIsManual
  <2>1. t \in Tasks /\ ProcOf[t] \in Procs  BY ConstantsOK DEF Tasks
  <2>2. Drain(t)  BY <2>1 DEF Exclusive, Placed, Busy
  <2>3. QED  BY <2>1, <2>2 DEF Held, HeldTask, Wanted
<1>2. QED  BY <1>1, ExclusiveAlways, HeldAlways, PTL

---------------------------------------------------------------------------
(* What a step does to the table.                                          *)

\* A decision on a row in flight is the one its attempts and its content ask
\* for.
Deserved(u, status) ==
  InFlight(u) =>
    /\ status = "pending" => row[u].attempts < MaxAttempts
    /\ status = "failed" => row[u].attempts >= MaxAttempts
    /\ status = "done" => fetched[u]

Update(u) ==
  \/ queue_claim(u) \/ queue_release(u) \/ queue_route_to_cf(u)
  \/ \E status \in {"pending", "done", "failed"} :
       queue_finish(u, status) /\ Deserved(u, status)

Insert(u) ==
  \E lane \in {"fast", "cf"}, source \in {"manual", "other"} :
    queue_enqueue(u, lane, source)

Store(u) == row' = row /\ fetched' = [fetched EXCEPT ![u] = TRUE]

\* With one process, a step is a boot, or at most one statement, and a statement
\* that decides has its reason although the reason was read a step earlier.
LEMMA OneStatement ==
  ASSUME TypeOK, Exclusive, Held, Next
  PROVE  \/ UNCHANGED <<row, fetched>>
         \/ \E p \in Procs : Boot(p)
         \/ \E u \in Urls : Insert(u) \/ Store(u) \/ (Update(u) /\ fetched' = fetched)
<1> USE DEF db, ctl, tick, tasks
<1>1. CASE \/ \E p \in Procs : \/ Boot(p) \/ BeginStop(p) \/ EndStop(p) \/ Crash(p)
                              \/ StartTick(p) \/ NextPhase(p) \/ Deadline(p)
           \/ SetPaused
           \/ \E u \in Urls : PageAges(u) \/ LateFault(u)
           \/ \E t \in Clients, u \in Urls : Fetch(t, u) \/ Refresh(t, u)
           \/ \E t \in Clients, requeue \in BOOLEAN : Orphan(t, requeue)
           \/ \E t \in Tasks : Cancel(t) \/ DbFault(t)
  BY <1>1 DEF BeginStop, EndStop, Crash, StartTick, NextPhase, Deadline, SetPaused,
              PageAges, LateFault, Fetch, Refresh, Orphan, Cancel, DbFault
<1>2. CASE \/ \E u \in Urls : LateEnqueue(u)
           \/ \E u \in Urls, source \in Sources : Enqueue(u, source)
  BY <1>2, ConstantsOK DEF LateEnqueue, Enqueue, Insert
<1>3. ASSUME NEW t \in Tasks, Step(t)
      PROVE  \/ UNCHANGED <<row, fetched>>
             \/ \E u \in Urls : Insert(u) \/ Store(u) \/ (Update(u) /\ fetched' = fetched)
  <2>0. HeldTask(t) /\ (Busy(t) => job[t].url \in Urls)  BY DEF Held, TypeOK, Busy
  <2>1. CASE Take(t) \/ Start(t) \/ SettleError(t) \/ Bump(t)
    BY <2>1 DEF Take, Start, SettleError, Bump
  <2>2. CASE Claim(t) \/ Route(t) \/ Release(t)
    BY <2>0, <2>2 DEF Claim, Route, Release, Busy, Update
  <2>3. CASE \E out \in {"ok", "challenge", "error"} : Finish(t, out)
    BY <2>0, <2>3 DEF Finish, Busy, Store
  <2>4. CASE SettleOk(t)
    <3>1. CASE Drain(t)
      <4>1. Deserved(job[t].url, "done")
        BY <2>0, <2>4, <3>1 DEF SettleOk, HeldTask, Deserved
      <4>2. QED  BY <2>0, <2>4, <3>1, <4>1 DEF SettleOk, Busy, Update
    <3>2. CASE ~Drain(t)  BY <2>4, <3>2 DEF SettleOk
    <3>3. QED  BY <3>1, <3>2
  <2>5. CASE SettleChallenge(t)
    BY <2>0, <2>5 DEF SettleChallenge, Busy, Insert, Update
  <2>6. CASE Fail(t)
    <3>1. job[t].out \in {"retry", "giveup"} /\ job[t].url \in Urls /\ fetched' = fetched
      BY <2>0, <2>6 DEF Fail, HeldTask, Busy
    <3>2. row[job[t].url].attempts \in Nat  BY <3>1 DEF TypeOK, Row
    <3>3. CASE job[t].out = "retry"
      <4>1. Deserved(job[t].url, "pending") /\ queue_finish(job[t].url, "pending")
        BY <2>0, <2>6, <3>3 DEF Fail, HeldTask, Deserved
      <4>2. QED  BY <3>1, <4>1 DEF Update
    <3>4. CASE job[t].out = "giveup"
      <4>1. Deserved(job[t].url, "failed")
        BY <2>0, <2>6, <3>2, <3>4, ConstantsOK DEF Fail, HeldTask, Deserved
      <4>2. queue_finish(job[t].url, "failed")
        BY <2>6, <3>4 DEF Fail
      <4>3. QED  BY <3>1, <4>1, <4>2 DEF Update
    <3>5. QED  BY <3>1, <3>3, <3>4
  <2>7. QED  BY <1>3, <2>1, <2>2, <2>3, <2>4, <2>5, <2>6 DEF Step
<1>4. QED  BY <1>1, <1>2, <1>3 DEF Next, Environment

\* The ways in which a row moves: queued anew, leased, given back, sent to the
\* challenge lane, decided on.
Moved(u) ==
  \/ /\ ~Active(u) /\ fetched' = [fetched EXCEPT ![u] = FALSE]
     /\ row'[u].status = "pending" /\ row'[u].attempts = 0
  \/ /\ row[u].status = "pending" /\ fetched' = fetched
     /\ row'[u].status = "in_flight" /\ row'[u].attempts = row[u].attempts + 1
  \/ /\ InFlight(u) /\ fetched' = fetched /\ row'[u].status = "pending"
     /\ row'[u].attempts = IF row[u].attempts = 0 THEN 0 ELSE row[u].attempts - 1
  \/ /\ Active(u) /\ fetched' = fetched
     /\ row'[u].status = "pending" /\ row'[u].attempts = 0
  \/ /\ InFlight(u) /\ fetched' = fetched /\ Deserved(u, row'[u].status)
     /\ row'[u].status \in {"pending", "done", "failed"}
     /\ row'[u].attempts = row[u].attempts

\* What each statement makes of the row it names, and that it names one.
LEMMA RowAfter ==
  ASSUME TypeOK, NEW u \in Urls,
         Insert(u) \/ Store(u) \/ (Update(u) /\ fetched' = fetched)
  PROVE  /\ \A v \in Urls : v # u => row'[v] = row[v]
         /\ \/ Moved(u)
            \/ row' = row /\ (fetched' = fetched \/ Store(u))
<1> USE DEF TypeOK, Moved
<1>1. CASE Store(u)
  BY <1>1 DEF Store
<1>2. CASE Insert(u)
  <2>1. PICK lane \in {"fast", "cf"}, source \in {"manual", "other"} :
          queue_enqueue(u, lane, source)
    BY <1>2 DEF Insert
  <2>2. /\ Entry("pending", lane, 0, source).status = "pending"
        /\ Entry("pending", lane, 0, source).attempts = 0
    BY DEF Entry
  <2>3. QED  BY <2>1, <2>2 DEF queue_enqueue
<1>3. CASE queue_claim(u) /\ fetched' = fetched
  <2>1. /\ Leased(row[u]).status = "in_flight"
        /\ Leased(row[u]).attempts = row[u].attempts + 1
    BY DEF Leased, Entry
  <2>2. QED  BY <1>3, <2>1 DEF queue_claim
<1>4. CASE queue_release(u) /\ fetched' = fetched
  <2>1. /\ GivenBack(row[u]).status = "pending"
        /\ GivenBack(row[u]).attempts =
             IF row[u].attempts = 0 THEN 0 ELSE row[u].attempts - 1
    BY DEF GivenBack, Entry
  <2>2. QED  BY <1>4, <2>1 DEF queue_release
<1>5. CASE queue_route_to_cf(u) /\ fetched' = fetched
  <2>1. Routed(row[u]).status = "pending" /\ Routed(row[u]).attempts = 0
    BY DEF Routed, Entry
  <2>2. QED  BY <1>5, <2>1 DEF queue_route_to_cf
<1>6. ASSUME NEW status \in {"pending", "done", "failed"}, fetched' = fetched,
             queue_finish(u, status), Deserved(u, status)
      PROVE  /\ \A v \in Urls : v # u => row'[v] = row[v]
             /\ \/ row' = row
                \/ /\ InFlight(u) /\ row'[u].status = status
                   /\ row'[u].attempts = row[u].attempts
  <2>1. /\ Marked(row[u], status).status = status
        /\ Marked(row[u], status).attempts = row[u].attempts
    BY DEF Marked, Entry
  <2>2. QED  BY <1>6, <2>1 DEF queue_finish
<1>7. QED  BY <1>1, <1>2, <1>3, <1>4, <1>5, <1>6 DEF Update

\* What a boot makes of each row.
LEMMA RowAfterBoot ==
  ASSUME TypeOK, NEW p \in Procs, Boot(p)
  PROVE  /\ fetched' = fetched
         /\ \A v \in Urls :
              IF InFlight(v)
              THEN row'[v].status = "pending" /\ row'[v].attempts = row[v].attempts
              ELSE row'[v] = row[v]
<1>1. \A v \in Urls : /\ Marked(row[v], "pending").status = "pending"
                      /\ Marked(row[v], "pending").attempts = row[v].attempts
  BY DEF Marked, Entry
<1>2. QED  BY <1>1 DEF Boot, queue_reset_in_flight

\* With one process, a row is marked failed only when its budget is spent,
\* although queue_done reads the counter in one statement and acts on it in the
\* next.
THEOREM FailureIsDeserved ==
  ASSUME OneProcess
  PROVE  Spec => []FailedOnlyWhenSpent
<1>1. Init => FailedOnlyWhenSpent  BY DEF Init, NoRow, FailedOnlyWhenSpent
<1>2. /\ TypeOK /\ Exclusive /\ Held /\ FailedOnlyWhenSpent /\ [Next]_vars
      => FailedOnlyWhenSpent'
  <2> SUFFICES ASSUME TypeOK, Exclusive, Held, FailedOnlyWhenSpent, [Next]_vars
               PROVE  FailedOnlyWhenSpent'
    OBVIOUS
  <2>1. CASE UNCHANGED <<row, fetched>>
    BY <2>1 DEF FailedOnlyWhenSpent
  <2>2. ASSUME NEW p \in Procs, Boot(p)  PROVE FailedOnlyWhenSpent'
    BY <2>2, RowAfterBoot DEF FailedOnlyWhenSpent
  <2>3. ASSUME NEW u \in Urls,
               Insert(u) \/ Store(u) \/ (Update(u) /\ fetched' = fetched)
        PROVE  FailedOnlyWhenSpent'
    BY <2>3, RowAfter DEF FailedOnlyWhenSpent, Moved, Deserved
  <2>4. QED  BY <2>1, <2>2, <2>3, OneStatement DEF vars, db
<1>3. QED  BY <1>1, <1>2, TypeCorrect, ExclusiveAlways, HeldAlways, PTL DEF Spec

---------------------------------------------------------------------------
(* The budget.                                                             *)

\* Before the first boot nothing runs; a row that waits for its next claim has
\* room for it, with one claim to spare for every restart.
Quiet ==
  used.boots = 0 =>
    /\ \A p \in Procs : mode[p] = "down" /\ phase[p] = "idle"
    /\ IdleAll(Tasks) /\ late = {}
Roomy == \A u \in Urls : row[u].status = "pending" => row[u].attempts + 1 < MaxAttempts + used.boots
Booted == Quiet /\ AttemptsBounded /\ Roomy

\* Boots are only ever added.
LEMMA BootsGrow ==
  ASSUME TypeOK, [Next]_vars
  PROVE  /\ used.boots \in Nat /\ used'.boots \in Nat /\ used'.boots >= used.boots
         /\ \A p \in Procs : Boot(p) => used'.boots = used.boots + 1
<1> USE DEF TypeOK, db, ctl, tick, tasks
<1>1. ASSUME NEW what \in Bounds, NEW bound, Spend(what, bound)
      PROVE  used'.boots \in Nat /\ used'.boots >= used.boots
  BY <1>1 DEF Spend, Bounds
<1>2. ASSUME NEW p \in Procs, Boot(p)  PROVE used'.boots = used.boots + 1
  BY <1>2 DEF Boot, Spend, Bounds
<1>3. /\ used.boots \in Nat
      /\ used' = used => used'.boots \in Nat /\ used'.boots >= used.boots
  BY DEF Bounds
<1>4. ASSUME Next, used' # used
      PROVE  \E what \in Bounds, bound \in Nat : Spend(what, bound)
  <2>1. ASSUME NEW t \in Tasks, Step(t)  PROVE used' = used
    BY <2>1 DEF Step, Take, Claim, Start, Finish, SettleOk, SettleChallenge,
                SettleError, Route, Bump, Fail, Release
  <2>2. CASE \E p \in Procs : Boot(p) \/ Deadline(p)
    BY <2>2, ConstantsOK DEF Boot, Deadline, Bounds
  <2>3. ASSUME NEW p \in Procs,
               EndStop(p) \/ StartTick(p) \/ NextPhase(p) \/ BeginStop(p) \/ Crash(p)
        PROVE  used' = used
    BY <2>3 DEF EndStop, StartTick, NextPhase, BeginStop, Crash
  <2>4. CASE SetPaused \/ \E u \in Urls, source \in Sources : Enqueue(u, source)
    BY <2>4, ConstantsOK DEF SetPaused, Enqueue, Bounds
  <2>5. CASE \E t \in Clients, u \in Urls : Fetch(t, u) \/ Refresh(t, u)
    BY <2>5, ConstantsOK DEF Fetch, Refresh, Bounds
  <2>6. CASE \/ \E u \in Urls : LateFault(u)
             \/ \E t \in Tasks : DbFault(t)
    BY <2>6, ConstantsOK DEF LateFault, DbFault, Bounds
  <2>7. ASSUME \/ \E u \in Urls : LateEnqueue(u) \/ PageAges(u)
               \/ \E t \in Clients, requeue \in BOOLEAN : Orphan(t, requeue)
               \/ \E t \in Tasks : Cancel(t)
        PROVE  used' = used
    BY <2>7 DEF LateEnqueue, PageAges, Orphan, Cancel
  <2>8. QED
    BY <1>4, <2>1, <2>2, <2>3, <2>4, <2>5, <2>6, <2>7 DEF Next, Environment
<1>5. CASE Next       BY <1>1, <1>2, <1>3, <1>4, <1>5
<1>6. CASE UNCHANGED vars
  <2>1. used' = used  BY <1>6 DEF vars
  <2>2. QED  BY <1>2, <1>3, <2>1
<1>7. QED  BY <1>5, <1>6

\* Only a boot ends the quiet.
LEMMA QuietUntilBoot ==
  ASSUME TypeOK, Quiet, used.boots = 0, [Next]_vars
  PROVE  (\E p \in Procs : Boot(p)) \/ (Quiet' /\ row' = row)
<1> USE DEF db, ctl, tick, tasks
<1>1. /\ \A p \in Procs : mode[p] = "down" /\ phase[p] = "idle"
      /\ \A t \in Tasks : job[t].pc = "idle"
      /\ late = {} /\ ~Serving
  BY ConstantsOK DEF Quiet, IdleAll, Serving, Up
<1>2. CASE UNCHANGED vars
  BY <1>2 DEF vars, Quiet, IdleAll
<1>3. CASE \E u \in Urls : PageAges(u)
  BY <1>3 DEF PageAges, Quiet, IdleAll
<1>4. CASE Next /\ ~(\E u \in Urls : PageAges(u))
  <2>1. ASSUME NEW t \in Tasks  PROVE ~Step(t) /\ ~Cancel(t) /\ ~DbFault(t)
    BY <1>1, <2>1, ConstantsOK
       DEF Step, Take, Claim, Start, Finish, SettleOk, SettleChallenge, SettleError,
           Route, Bump, Fail, Release, Cancel, DbFault, Up
  <2>2. ASSUME NEW p \in Procs
        PROVE  ~EndStop(p) /\ ~StartTick(p) /\ ~NextPhase(p) /\ ~BeginStop(p) /\ ~Crash(p)
               /\ ~Deadline(p)
    BY <1>1, <2>2 DEF EndStop, StartTick, NextPhase, PhaseOver, BeginStop, Crash, Deadline, Up
  <2>3. ~SetPaused /\ \A u \in Urls, source \in Sources : ~Enqueue(u, source)
    BY <1>1 DEF SetPaused, Enqueue
  <2>4. ASSUME NEW t \in Clients
        PROVE  /\ \A u \in Urls : ~Fetch(t, u) /\ ~Refresh(t, u)
               /\ \A requeue \in BOOLEAN : ~Orphan(t, requeue)
    BY <1>1, <2>4, ConstantsOK DEF Fetch, Refresh, Orphan, Tasks, Up
  <2>5. \A u \in Urls : ~LateFault(u) /\ ~LateEnqueue(u)
    BY <1>1 DEF LateFault, LateEnqueue
  <2>6. QED  BY <1>4, <2>1, <2>2, <2>3, <2>4, <2>5 DEF Next, Environment
<1>5. QED  BY <1>2, <1>3, <1>4

\* With one process, the retry budget is exceeded by at most one claim per
\* restart: a boot gives the rows in flight back with their attempt still
\* counted, and every other way back to the queue leaves room for a claim.
THEOREM BudgetGrowsByBoots ==
  ASSUME OneProcess
  PROVE  Spec => []AttemptsBounded
<1>1. Init => Booted
  <2> SUFFICES ASSUME Init  PROVE Booted
    OBVIOUS
  <2>1. /\ \A u \in Urls : row[u].status = "none" /\ row[u].attempts = 0
        /\ used.boots = 0
    BY DEF Init, NoRow, Bounds
  <2>2. Quiet
    BY IdleType DEF Init, Quiet, IdleAll
  <2>3. QED  BY <2>1, <2>2, ConstantsOK DEF Booted, AttemptsBounded, Roomy
<1>2. TypeOK /\ Exclusive /\ Held /\ Booted /\ [Next]_vars => Booted'
  <2> SUFFICES ASSUME TypeOK, Exclusive, Held, Booted, [Next]_vars  PROVE Booted'
    OBVIOUS
  <2>0. /\ used.boots \in Nat /\ used'.boots \in Nat /\ used'.boots >= used.boots
        /\ MaxAttempts \in Nat /\ MaxAttempts > 0
        /\ \A u \in Urls : row[u].attempts \in Nat
    BY BootsGrow, ConstantsOK DEF TypeOK, Row
  <2>1. CASE \E p \in Procs : Boot(p)
    <3>1. PICK p \in Procs : Boot(p)  BY <2>1
    <3>2. used'.boots = used.boots + 1  BY <3>1, BootsGrow
    <3>3. Quiet'  BY <2>0, <3>2 DEF Quiet
    <3>4. ASSUME NEW u \in Urls
          PROVE  /\ row'[u].attempts < MaxAttempts + used'.boots
                 /\ row'[u].status = "pending" =>
                      row'[u].attempts + 1 < MaxAttempts + used'.boots
      BY <2>0, <3>1, <3>2, RowAfterBoot DEF Booted, AttemptsBounded, Roomy
    <3>5. QED  BY <3>3, <3>4 DEF Booted, AttemptsBounded, Roomy
  <2>2. CASE UNCHANGED <<row, fetched>> /\ Quiet'
    BY <2>0, <2>2 DEF Booted, AttemptsBounded, Roomy
  <2>3. CASE used.boots > 0 /\ ~\E p \in Procs : Boot(p)
    <3>1. Quiet'  BY <2>0, <2>3 DEF Quiet
    <3>2. CASE UNCHANGED <<row, fetched>>
      BY <2>2, <3>1, <3>2
    <3>3. ASSUME NEW u \in Urls,
                 Insert(u) \/ Store(u) \/ (Update(u) /\ fetched' = fetched),
                 NEW v \in Urls
          PROVE  /\ row'[v].attempts < MaxAttempts + used'.boots
                 /\ row'[v].status = "pending" =>
                      row'[v].attempts + 1 < MaxAttempts + used'.boots
      <4>1. /\ row[v].attempts < MaxAttempts + used.boots
            /\ row[v].status = "pending" => row[v].attempts + 1 < MaxAttempts + used.boots
        BY DEF Booted, AttemptsBounded, Roomy
      <4>2. CASE row'[v] = row[v]
        BY <2>0, <4>1, <4>2
      <4>3. CASE v = u /\ row'[u] # row[u]
        <5>1. Moved(u)  BY <3>3, <4>3, RowAfter
        <5>2. QED  BY <2>0, <2>3, <4>1, <4>3, <5>1 DEF Moved, Deserved
      <4>4. QED  BY <3>3, <4>2, <4>3, RowAfter
    <3>4. QED
      BY <2>3, <3>1, <3>2, <3>3, OneStatement
         DEF Booted, AttemptsBounded, Roomy, vars, db
  <2>4. CASE used.boots = 0 /\ Quiet' /\ row' = row
    BY <2>0, <2>4 DEF Booted, AttemptsBounded, Roomy
  <2>5. QED  BY <2>0, <2>1, <2>3, <2>4, QuietUntilBoot DEF Booted
<1>3. QED
  BY <1>1, <1>2, TypeCorrect, ExclusiveAlways, HeldAlways, PTL DEF Spec, Booted

---------------------------------------------------------------------------
(* The queue implements JobQueue.                                          *)

states == [v \in Urls |-> row[v].status]
claims == [v \in Urls |-> row[v].attempts]

\* A row that moves alone is one step of its job.
LEMMA MoveIsJobStep ==
  ASSUME TypeOK, NEW u \in Urls, Moved(u), \A v \in Urls : v # u => row'[v] = row[v]
  PROVE  Jobs!Next
<1> USE DEF states, claims
<1>1. /\ states' = [states EXCEPT ![u] = row'[u].status]
      /\ claims' = [claims EXCEPT ![u] = row'[u].attempts]
  OBVIOUS
<1>2. /\ states[u] = row[u].status /\ claims[u] = row[u].attempts
      /\ row[u].status \in Status /\ row[u].attempts \in Nat
  BY DEF TypeOK, Row
<1>3. CASE /\ ~Active(u) /\ fetched' = [fetched EXCEPT ![u] = FALSE]
           /\ row'[u].status = "pending" /\ row'[u].attempts = 0
  <2>1. Jobs!Submit(u)  BY <1>1, <1>2, <1>3 DEF Jobs!Submit, Active, Status
  <2>2. QED  BY <2>1 DEF Jobs!Next
<1>4. CASE /\ row[u].status = "pending" /\ fetched' = fetched
           /\ row'[u].status = "in_flight" /\ row'[u].attempts = row[u].attempts + 1
  <2>1. Jobs!Lease(u)  BY <1>1, <1>2, <1>4 DEF Jobs!Lease
  <2>2. QED  BY <2>1 DEF Jobs!Next
<1>5. CASE /\ InFlight(u) /\ fetched' = fetched /\ row'[u].status = "pending"
           /\ row'[u].attempts = IF row[u].attempts = 0 THEN 0 ELSE row[u].attempts - 1
  <2> DEFINE uncounted == IF row[u].attempts = 0 THEN {} ELSE {u}
  <2>1. /\ states' = [v \in Urls |-> IF v \in {u} THEN "pending" ELSE states[v]]
        /\ claims' = [v \in Urls |-> IF v \in uncounted THEN claims[v] - 1 ELSE claims[v]]
        /\ states[u] = "in_flight" /\ fetched' = fetched
        /\ uncounted \in SUBSET {u} /\ {u} \in SUBSET Urls
    BY <1>1, <1>2, <1>5 DEF InFlight
  <2>2. Jobs!Return({u})  BY <2>1 DEF Jobs!Return
  <2>3. QED  BY <2>1, <2>2 DEF Jobs!Next
<1>6. CASE /\ Active(u) /\ fetched' = fetched
           /\ row'[u].status = "pending" /\ row'[u].attempts = 0
  <2>1. Jobs!Reroute(u)  BY <1>1, <1>2, <1>6 DEF Jobs!Reroute, Active
  <2>2. QED  BY <2>1 DEF Jobs!Next
<1>7. CASE /\ InFlight(u) /\ fetched' = fetched /\ Deserved(u, row'[u].status)
           /\ row'[u].status \in {"pending", "done", "failed"}
           /\ row'[u].attempts = row[u].attempts
  <2>1. claims' = claims  BY <1>1, <1>2, <1>7
  <2>2. CASE row'[u].status = "done"
    <3>1. Jobs!Complete(u)
      BY <1>1, <1>2, <1>7, <2>1, <2>2 DEF Jobs!Complete, InFlight, Deserved
    <3>2. QED  BY <3>1 DEF Jobs!Next
  <2>3. CASE row'[u].status = "failed"
    <3>1. Jobs!GiveUp(u)
      BY <1>1, <1>2, <1>7, <2>1, <2>3 DEF Jobs!GiveUp, InFlight, Deserved
    <3>2. QED  BY <3>1 DEF Jobs!Next
  <2>4. CASE row'[u].status = "pending"
    <3>1. /\ states' = [v \in Urls |-> IF v \in {u} THEN "pending" ELSE states[v]]
          /\ claims' = [v \in Urls |-> IF v \in {} THEN claims[v] - 1 ELSE claims[v]]
          /\ states[u] = "in_flight" /\ fetched' = fetched
          /\ {} \in SUBSET {u} /\ {u} \in SUBSET Urls
      BY <1>1, <1>2, <1>7, <2>1, <2>4 DEF InFlight
    <3>2. Jobs!Return({u})  BY <3>1 DEF Jobs!Return
    <3>3. QED  BY <3>1, <3>2 DEF Jobs!Next
  <2>5. QED  BY <1>7, <2>2, <2>3, <2>4
<1>8. QED  BY <1>3, <1>4, <1>5, <1>6, <1>7 DEF Moved

\* So is a boot, of every job it finds leased.
LEMMA BootIsJobStep ==
  ASSUME TypeOK, NEW p \in Procs, Boot(p)
  PROVE  Jobs!Next
<1> PICK leased \in SUBSET Urls : leased = {v \in Urls : InFlight(v)}
  OBVIOUS
<1>1. /\ states' = [v \in Urls |-> IF v \in leased THEN "pending" ELSE states[v]]
      /\ claims' = [v \in Urls |-> IF v \in {} THEN claims[v] - 1 ELSE claims[v]]
      /\ \A v \in leased : states[v] = "in_flight"
      /\ {} \in SUBSET leased /\ fetched' = fetched
  BY RowAfterBoot DEF states, claims, InFlight
<1>2. Jobs!Return(leased)  BY <1>1 DEF states, claims, Jobs!Return
<1>3. QED  BY <1>2 DEF Jobs!Next

\* With one process, the table and everything that moves a row of it implement
\* JobQueue: nothing drops a queued URL or revives a finished one, nothing
\* finishes without a claim, is called done without its content, or is given up
\* with budget left.
THEOREM QueueImplementsJobs ==
  ASSUME OneProcess
  PROVE  Spec => ImplementsJobQueue
<1>1. Init => Jobs!Init
  <2> SUFFICES ASSUME Init  PROVE Jobs!Init
    OBVIOUS
  <2>1. /\ [u \in Urls |-> row[u].status] = [u \in Urls |-> "none"]
        /\ [u \in Urls |-> row[u].attempts] = [u \in Urls |-> 0]
        /\ fetched = [u \in Urls |-> FALSE]
    BY DEF Init, NoRow
  <2>2. QED  BY <2>1 DEF Jobs!Init
<1>2. TypeOK /\ Exclusive /\ Held /\ [Next]_vars => [Jobs!Next]_(Jobs!vars)
  <2> SUFFICES ASSUME TypeOK, Exclusive, Held, [Next]_vars
               PROVE  [Jobs!Next]_(Jobs!vars)
    OBVIOUS
  <2>1. CASE UNCHANGED <<row, fetched>>
    BY <2>1 DEF Jobs!vars
  <2>2. ASSUME NEW p \in Procs, Boot(p)  PROVE Jobs!Next
    BY <2>2, BootIsJobStep
  <2>3. ASSUME NEW u \in Urls,
               Insert(u) \/ Store(u) \/ (Update(u) /\ fetched' = fetched)
        PROVE  [Jobs!Next]_(Jobs!vars)
    <3>1. CASE Moved(u) /\ \A v \in Urls : v # u => row'[v] = row[v]
      BY <3>1, MoveIsJobStep
    <3>2. CASE Store(u)
      <4>1. Jobs!Fetch(u)  BY <3>2 DEF Store, Jobs!Fetch
      <4>2. QED  BY <4>1 DEF Jobs!Next
    <3>3. CASE row' = row /\ fetched' = fetched
      BY <3>3 DEF Jobs!vars
    <3>4. QED  BY <2>3, <3>1, <3>2, <3>3, RowAfter
  <2>4. QED  BY <2>1, <2>2, <2>3, OneStatement DEF vars, db
<1>3. QED
  BY <1>1, <1>2, TypeCorrect, ExclusiveAlways, HeldAlways, PTL
     DEF Spec, ImplementsJobQueue, Jobs!Spec

=============================================================================
