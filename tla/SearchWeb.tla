----------------------------- MODULE SearchWeb -----------------------------
(***************************************************************************)
(* Searches (search_web.py) over the local index and the provider gateway  *)
(* (providers/), the dashboard that reorders, toggles and limits providers *)
(* meanwhile (app.py), and the quota ledger and provider state in the      *)
(* database (db.py).  Every statement and every provider call is a step.   *)
(*                                                                         *)
(* Left out: search_log, hit counters, event_log, last_error, last_served  *)
(* and timings, which nothing decides on, and the stored quota_limit, which *)
(* quota_used_limit does not use.  The ledger is that of the current month, *)
(* because both the check and the bump name the month they run in.         *)
(***************************************************************************)
EXTENDS LocalGate

CONSTANTS
  Searchers,    \* tasks that serve searches
  Writers,      \* tasks that serve PUT /api/providers/order
  EnvOrder,     \* SEARCH_PROVIDERS: the pool in its default order
  Configured,   \* the providers with a key
  EnvLimit,     \* <PROVIDER>_QUOTA_MONTHLY; 0: none
  Limits,       \* values PATCH may set as a limit
  Indexes,      \* what fn_search_local may return: sequences of rows
  K,            \* results asked for
  Unset,        \* NULL
  MaxPatches,   \* bound: PATCH and PUT requests
  MaxMonths,    \* bound: months
  MaxUsed       \* bound: no search asks the providers once one has served as many

Pool == ToSet(EnvOrder)

ASSUME SearchConstants ==
  /\ IsFiniteSet(Searchers) /\ EnvOrder \in Seq(Pool) /\ Len(EnvOrder) = Cardinality(Pool)
  /\ Configured \subseteq Pool /\ EnvLimit \in [Pool -> Nat] /\ Limits \subseteq Int
  /\ Unset \notin Int /\ K \in Nat \ {0} /\ MaxPatches \in Nat /\ MaxMonths \in Nat
  /\ MaxUsed \in Nat

VARIABLES
  state,    \* provider_state: the enabled, limit_override and sort_order columns
  used,     \* provider_quota.used of the current month
  job,      \* what each search is doing
  todo,     \* names a reorder has still to insert, with their positions
  months,   \* how many month ends have passed
  patches,  \* how many dashboard requests were made
  ceiling   \* history: the highest limit of a provider this month; Unset: none

vars == <<state, used, job, todo, months, patches, ceiling>>

\* rows: what an auto search has found in the index, to fall back on; rest: the
\* providers still to be tried, the current one first; seen: the used it read;
\* tried: history, the providers that were passed over or failed it
Idle   == [pc |-> "idle", rows |-> <<>>, rest |-> <<>>, seen |-> 0, tried |-> {}]
\* a provider without a row is enabled
Init ==
  /\ state = [enabled |-> Pool, limit |-> [p \in Pool |-> Unset],
              pos |-> [p \in Pool |-> Unset]]
  /\ used = [p \in Pool |-> 0]
  /\ job = [s \in Searchers |-> Idle]
  /\ todo = [w \in Writers |-> <<>>]
  /\ months = 0 /\ patches = 0
  /\ ceiling = [p \in Pool |-> IF EnvLimit[p] = 0 THEN Unset ELSE EnvLimit[p]]

---------------------------------------------------------------------------
(* The order of the providers.                                             *)

\* where a provider stands in the default order, which also stands for its name
Place(p) == CHOOSE i \in DOMAIN EnvOrder : EnvOrder[i] = p

\* get_provider_order: by position, then by name
RuntimeOrder ==
  LET placed == {p \in Pool : state.pos[p] # Unset}
      before == {pq \in placed \X placed :
                   \/ state.pos[pq[1]] < state.pos[pq[2]]
                   \/ state.pos[pq[1]] = state.pos[pq[2]] /\ Place(pq[1]) < Place(pq[2])}
  IN  Arranged(placed, before)

\* mutant: an override stands for the whole pool
ordered_override == IF RuntimeOrder = <<>> THEN EnvOrder ELSE RuntimeOrder

\* the runtime order, then whatever of the pool it misses
ordered_providers ==
  RuntimeOrder
    \o Arranged(Pool \ ToSet(RuntimeOrder),
                {pq \in Pool \X Pool : Place(pq[1]) < Place(pq[2])})

\* set_provider_order, its UPDATE; a reset inserts nothing
PutOrder(w) ==
  /\ todo[w] = <<>> /\ patches < MaxPatches
  /\ \E names \in SetToSeqs(Pool) \cup {<<>>} :
       todo' = [todo EXCEPT ![w] = [i \in DOMAIN names |-> <<names[i], i - 1>>]]
  /\ state' = [state EXCEPT !.pos = [p \in Pool |-> Unset]]
  /\ patches' = patches + 1
  /\ UNCHANGED <<used, job, months, ceiling>>

\* and one INSERT per name; a statement that fails ends the request
InsertPosition(w) ==
  /\ todo[w] # <<>>
  /\ state' = [state EXCEPT !.pos[Head(todo[w])[1]] = Head(todo[w])[2]]
  /\ todo' = [todo EXCEPT ![w] = Tail(@)]
  /\ UNCHANGED <<used, job, months, patches, ceiling>>
InsertFails(w) ==
  /\ todo[w] # <<>>
  /\ todo' = [todo EXCEPT ![w] = <<>>]
  /\ UNCHANGED <<state, used, job, months, patches, ceiling>>

---------------------------------------------------------------------------
(* The dashboard's switches, and the calendar.                             *)

\* the limit in effect; 0 and NULL mean no limit
Limit(p) == IF state.limit[p] # Unset THEN state.limit[p] ELSE EnvLimit[p]
Highest(a, b) == IF a = Unset \/ b \in {0, Unset} THEN Unset ELSE IF a > b THEN a ELSE b

\* api_provider_patch; a request with both fields is two such statements
PatchEnabled(p) ==
  /\ patches < MaxPatches
  /\ state' = [state EXCEPT !.enabled = IF p \in @ THEN @ \ {p} ELSE @ \cup {p}]
  /\ patches' = patches + 1
  /\ UNCHANGED <<used, job, todo, months, ceiling>>
PatchLimit(p) ==
  /\ patches < MaxPatches
  /\ \E n \in Limits : state' = [state EXCEPT !.limit[p] = n]
  /\ ceiling' = [ceiling EXCEPT ![p] = Highest(@, Limit(p)')]
  /\ patches' = patches + 1
  /\ UNCHANGED <<used, job, todo, months>>

\* a new month starts a new ledger
MonthEnds ==
  /\ months < MaxMonths
  /\ months' = months + 1
  /\ used' = [p \in Pool |-> 0]
  /\ ceiling' = [p \in Pool |-> IF Limit(p) = 0 THEN Unset ELSE Limit(p)]
  /\ UNCHANGED <<state, job, todo, patches>>

---------------------------------------------------------------------------
(* A search.                                                               *)

Move(s, j) ==
  /\ job' = [job EXCEPT ![s] = j]
  /\ UNCHANGED <<state, used, todo, months, patches, ceiling>>
Step(s, pc, then) ==
  /\ job[s].pc = pc
  /\ Move(s, [job[s] EXCEPT !.pc = then])

\* _search_local_index: the rows that are fresh enough, as the index ranks them;
\* none when it fails, and it is not asked when the caller wants a live answer
search_local_index(mode) == IF mode = "provider" THEN {<<>>} ELSE Indexes \cup {<<>>}

\* the mode and what the index returned decide where the answer comes from; local
\* mode has no other source
Search(s) ==
  /\ job[s].pc = "idle"
  /\ \E mode \in {"auto", "local", "provider"}, jobs \in BOOLEAN :
     \E rows \in search_local_index(mode) :
       LET serves == CASE mode = "local"    -> rows # <<>>
                       [] mode = "auto"     -> choose_serving(rows, K, jobs).serve
                       [] mode = "provider" -> FALSE
       IN  \/ /\ serves
              /\ Move(s, [Idle EXCEPT !.pc = "local"])
           \/ /\ ~ serves /\ mode = "local"
              /\ Move(s, [Idle EXCEPT !.pc = "empty"])
           \/ /\ ~ serves /\ mode # "local"
              /\ \A p \in Pool : used[p] < MaxUsed
              /\ Move(s, [Idle EXCEPT !.pc = "order", !.rows = rows])

\* Gateway.search: the order is read once
ReadOrder(s) ==
  /\ job[s].pc = "order"
  /\ Move(s, [job[s] EXCEPT !.pc = "state", !.rest = ordered_providers])

\* every provider was skipped or has failed: serve what the index had
Exhausted(s) ==
  /\ job[s].pc = "state" /\ job[s].rest = <<>>
  /\ Move(s, [job[s] EXCEPT !.pc = IF job[s].rows # <<>> THEN "degraded" ELSE "error"])

Provider(s) == Head(job[s].rest)

\* mutant: the loop breaks where it should continue
skipped_breaks(s) ==
  [job[s] EXCEPT !.pc = "state", !.rest = <<>>, !.seen = 0, !.tried = @ \cup {Provider(s)}]

\* the loop continues with the next provider
Skipped(s) ==
  [job[s] EXCEPT !.pc = "state", !.rest = Tail(@), !.seen = 0, !.tried = @ \cup {Provider(s)}]

Available(p) == p \in state.enabled /\ p \in Configured
\* _provider_available: the toggle and the key, then the ledger, then the limit
ReadState(s) ==
  /\ job[s].pc = "state" /\ job[s].rest # <<>>
  /\ Move(s, IF Available(Provider(s)) THEN [job[s] EXCEPT !.pc = "used"] ELSE Skipped(s))
ReadUsed(s) ==
  /\ job[s].pc = "used"
  /\ Move(s, [job[s] EXCEPT !.pc = "limit", !.seen = used[Provider(s)]])

\* mutant: the last call of the quota is one too many
spent_late(seen, p) == Limit(p) # 0 /\ seen > Limit(p)

Spent(seen, p) == Limit(p) # 0 /\ seen >= Limit(p)
ReadLimit(s) ==
  /\ job[s].pc = "limit"
  /\ Move(s, IF Spent(job[s].seen, Provider(s)) THEN Skipped(s)
             ELSE [job[s] EXCEPT !.pc = "call", !.seen = 0])

\* an adapter answers, or raises for the network, an HTTP status of 400 or
\* more or an unexpected shape; no results is a failure too
Answers(s) == Step(s, "call", "bump")
Fails(s) ==
  /\ job[s].pc = "call"
  /\ Move(s, Skipped(s))

\* quota_bump, in the month it runs in
Bump(s) ==
  /\ job[s].pc = "bump"
  /\ used' = [used EXCEPT ![Provider(s)] = @ + 1]
  /\ job' = [job EXCEPT ![s].pc = "enqueue"]
  /\ UNCHANGED <<state, todo, months, patches, ceiling>>

\* the answer goes out: a provider's once its URLs are queued
Answer(s) ==
  /\ job[s].pc \in {"local", "empty", "degraded", "error", "enqueue"}
  /\ Move(s, Idle)

\* the client leaves or the process stops, at any await
Abandon(s) ==
  /\ job[s].pc # "idle"
  /\ Move(s, Idle)

Progress(s) ==
  \/ ReadOrder(s) \/ Exhausted(s) \/ ReadState(s) \/ ReadUsed(s) \/ ReadLimit(s)
  \/ Answers(s) \/ Fails(s) \/ Bump(s) \/ Answer(s)

Next ==
  \/ \E s \in Searchers : Search(s) \/ Progress(s) \/ Abandon(s)
  \/ \E w \in Writers : PutOrder(w) \/ InsertPosition(w) \/ InsertFails(w)
  \/ \E p \in Pool : PatchEnabled(p) \/ PatchLimit(p)
  \/ MonthEnds

Spec == Init /\ [][Next]_vars

---------------------------------------------------------------------------
(* Properties.                                                             *)

\* a search that may still count against p on the strength of what it has read
Counting(p) ==
  {s \in Searchers :
     /\ job[s].pc \in {"limit", "call", "bump"} /\ Provider(s) = p
     /\ job[s].pc = "limit" => job[s].seen < ceiling[p]}

\* The quota is checked before the call and counted after it, and both reads
\* of the check are separate statements: concurrent searches overshoot the
\* highest limit of the month by fewer calls than there are searches, never more.
QuotaOvershootBounded ==
  \A p \in Pool :
    ceiling[p] # Unset /\ ceiling[p] > 0
      => used[p] + Cardinality(Counting(p)) < ceiling[p] + Cardinality(Searchers)

\* The order a search would read is the whole pool, each provider once, also
\* between the statements of a reorder, of two reorders at once, and after one
\* that failed half-way.
PoolStaysComplete ==
  /\ Len(ordered_providers) = Cardinality(Pool)
  /\ ToSet(ordered_providers) = Pool

\* The index is the last resort: rows that did not pass the gate, or an error when there
\* are none, are the answer only after every provider of the pool was passed over or
\* failed in this very search, however often the order was rewritten and the switches
\* were turned meanwhile; and no provider is called again that had failed it.
LastResort ==
  \A s \in Searchers :
    /\ job[s].pc \in {"degraded", "error"} => job[s].tried = Pool
    /\ job[s].pc = "error" => job[s].rows = <<>>
    /\ job[s].pc = "call" => Provider(s) \notin job[s].tried

=============================================================================
