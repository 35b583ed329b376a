---------------------------- MODULE CrawlProofs ----------------------------
(***************************************************************************)
(* Theorems about Crawl, for any callers, requests, sites and settings:    *)
(* every crawl uses the processing pool as the pool expects it, a stealth  *)
(* worker never outlives its permit, no wall is stored as a success, and   *)
(* no slot of a lane is lost.  The first part is about ProcessingPool      *)
(* alone, for any finite set of callers and any number of threads.         *)
(***************************************************************************)
EXTENDS Crawl, SequenceLemmas

---------------------------------------------------------------------------
(* The processing pool by itself.                                          *)

Shapes ==
  /\ active \in Nat
  /\ stage \in [Callers -> Stages]
  /\ wakes \subseteq Callers
  /\ orphans \in Nat

\* The three facts lean on each other: a release may only subtract because the
\* thread that ends is counted, and a slot may only be left free because
\* whoever sleeps has been woken.
PoolInv == Shapes /\ SlotsExact /\ NoLostWake

---------------------------------------------------------------------------
\* The threads that run a caller's job are finitely many.
LEMMA RunningFinite ==
  ASSUME SlotsExact
  PROVE  IsFiniteSet(running) /\ Cardinality(running) \in Nat
<1>1. running \subseteq Callers
  BY DEF SlotsExact
<1>2. IsFiniteSet(running)
  BY <1>1, PoolAssumption, FS_Subset
<1> QED
  BY <1>2, FS_CardinalityType

\* An empty pool is in order.
LEMMA InitPool == PoolInit => PoolInv
<1> SUFFICES ASSUME PoolInit PROVE PoolInv
  OBVIOUS
<1>1. running = {} /\ Cardinality({}) = 0
  BY FS_EmptySet DEF PoolInit
<1> QED
  BY <1>1, PoolAssumption DEF PoolInit, PoolInv, Shapes, Stages, SlotsExact, NoLostWake

\* Ask and Retry: a slot with a thread behind it, or a future and no slot free.
LEMMA AcquireKeeps ==
  ASSUME PoolInv, NEW c \in Callers, stage[c] \in {"out", "woken"}, try_acquire(c)
  PROVE  PoolInv'
<1> USE DEF PoolInv, Shapes, Stages, SlotsExact
<1>1. CASE active < Workers
  <2>1. /\ active' = active + 1 /\ running' = running \cup {c} /\ orphans' = orphans
        /\ stage' = [stage EXCEPT ![c] = "running"] /\ wakes' = wakes \ {c}
    BY <1>1, PoolAssumption DEF try_acquire
  <2>2. c \notin running
    OBVIOUS
  <2>3. Cardinality(running') = Cardinality(running) + 1
    BY <2>1, <2>2, RunningFinite, FS_AddElement
  <2>4. running' = {d \in Callers : stage'[d] = "running"}
    BY <2>1
  <2>5. NoLostWake'
    BY <1>1, <2>1 DEF NoLostWake
  <2> QED
    BY <1>1, <2>1, <2>3, <2>4, <2>5, RunningFinite, PoolAssumption
<1>2. CASE active >= Workers
  <2>1. /\ UNCHANGED <<active, running, orphans>>
        /\ stage' = [stage EXCEPT ![c] = "waiting"] /\ wakes' = wakes \ {c}
    BY <1>2, PoolAssumption DEF try_acquire
  <2>2. running' = {d \in Callers : stage'[d] = "running"}
    BY <2>1
  <2> QED
    BY <1>2, <2>1, <2>2, RunningFinite, PoolAssumption DEF NoLostWake
<1> QED
  BY <1>1, <1>2, PoolAssumption

\* A thread ends, whoever it worked for.
LEMMA FinishKeeps ==
  ASSUME PoolInv, NEW c \in Callers, Finish(c) \/ FinishOrphan
  PROVE  PoolInv'
<1> USE DEF PoolInv, Shapes, Stages, SlotsExact
<1>1. /\ active' = active - 1 /\ active > 0
      /\ wakes' = wakes \cup Sleeping
      /\ stage' \in [Callers -> Stages] /\ orphans' \in Nat
      /\ running' = {d \in Callers : stage'[d] = "running"}
      /\ \A d \in Callers : stage'[d] = "waiting" => d \in Sleeping
      /\ IsFiniteSet(running') /\ active' = Cardinality(running') + orphans'
  <2>1. CASE Finish(c)
    <3>1. /\ c \in running /\ running' = running \ {c} /\ orphans' = orphans
          /\ stage' = [stage EXCEPT ![c] = "done"]
          /\ active' = active - 1 /\ wakes' = wakes \cup Sleeping
      BY <2>1 DEF Finish, release
    <3>2. IsFiniteSet(running') /\ Cardinality(running') = Cardinality(running) - 1
      BY <3>1, RunningFinite, FS_RemoveElement
    <3>3. Cardinality(running') \in Nat
      BY <3>2, FS_CardinalityType
    <3>4. active > 0 /\ active' = Cardinality(running') + orphans'
      BY <3>1, <3>2, <3>3, RunningFinite
    <3> QED
      BY <3>1, <3>2, <3>4 DEF Sleeping
  <2>2. CASE FinishOrphan
    <3>1. /\ orphans > 0 /\ orphans' = orphans - 1 /\ UNCHANGED <<stage, running>>
          /\ active' = active - 1 /\ wakes' = wakes \cup Sleeping
      BY <2>2 DEF FinishOrphan, release
    <3> QED
      BY <3>1, RunningFinite DEF Sleeping
  <2> QED
    BY <2>1, <2>2
<1>2. Cardinality(running') \in Nat
  BY <1>1, FS_CardinalityType
<1>3. NoLostWake'
  BY <1>1 DEF NoLostWake, Sleeping
<1> QED
  BY <1>1, <1>2, <1>3, PoolAssumption DEF Sleeping

\* A caller that gives up takes its wake-up with it, and leaves its thread.
LEMMA LeaveKeeps ==
  ASSUME PoolInv, NEW c \in Callers, Leave(c)
  PROVE  PoolInv'
<1> USE DEF PoolInv, Shapes, Stages, SlotsExact
<1>1. /\ stage' = [stage EXCEPT ![c] = "out"] /\ wakes' = wakes \ {c} /\ active' = active
      /\ running' = running \ {c}
      /\ orphans' = orphans + (IF c \in running THEN 1 ELSE 0)
  BY DEF Leave
<1>2. active' = Cardinality(running') + orphans'
  <2>0. active = Cardinality(running) + orphans /\ Cardinality(running) \in Nat
    BY RunningFinite
  <2>1. CASE c \in running
    <3>1. orphans' = orphans + 1
      BY <1>1, <2>1
    <3>2. Cardinality(running') = Cardinality(running) - 1
      BY <1>1, <2>1, RunningFinite, FS_RemoveElement
    <3> HIDE DEF PoolInv, Shapes, Stages, SlotsExact
    <3>3. orphans \in Nat
      BY DEF PoolInv, Shapes
    <3> QED
      BY <1>1, <2>0, <3>1, <3>2, <3>3
  <2>2. CASE c \notin running
    <3>1. running' = running
      BY <1>1, <2>2
    <3>2. orphans' = orphans
      BY <1>1, <2>2
    <3>3. Cardinality(running') = Cardinality(running)
      BY <3>1
    <3> HIDE DEF PoolInv, Shapes, Stages, SlotsExact
    <3> QED
      BY <1>1, <2>0, <3>2, <3>3
  <2> QED
    BY <2>1, <2>2
<1>3. running' = {d \in Callers : stage'[d] = "running"}
  BY <1>1
<1>4. NoLostWake'
  BY <1>1 DEF NoLostWake
<1> QED
  BY <1>1, <1>2, <1>3, <1>4

\* The steps that neither take a slot nor give one back.
LEMMA QuietKeeps ==
  ASSUME PoolInv, NEW c \in Callers, SubmitFails(c) \/ Wake(c) \/ Return(c)
  PROVE  PoolInv'
<1>1. UNCHANGED <<active, running, orphans>>
  BY DEF SubmitFails, Wake, Return
<1>2. running' = {d \in Callers : stage'[d] = "running"}
  BY DEF PoolInv, Shapes, SlotsExact, SubmitFails, Wake, Return
<1>3. Shapes'
  BY DEF PoolInv, Shapes, Stages, SubmitFails, Wake, Return, Sleeping
<1>4. NoLostWake'
  BY DEF PoolInv, Shapes, NoLostWake, SubmitFails, Wake, Return, Sleeping
<1> QED
  BY <1>1, <1>2, <1>3, <1>4 DEF PoolInv, SlotsExact

\* Every step keeps the pool in order.
LEMMA PoolStep == PoolInv /\ [PoolNext]_poolVars => PoolInv'
<1> SUFFICES ASSUME PoolInv, [PoolNext]_poolVars PROVE PoolInv'
  OBVIOUS
<1>1. ASSUME NEW c \in Callers, Ask(c) \/ Retry(c) PROVE PoolInv'
  BY <1>1, AcquireKeeps DEF Ask, Retry
<1>2. ASSUME NEW c \in Callers, Finish(c) PROVE PoolInv'
  BY <1>2, FinishKeeps
<1>3. ASSUME NEW c \in Callers, Leave(c) PROVE PoolInv'
  BY <1>3, LeaveKeeps
<1>4. ASSUME NEW c \in Callers, SubmitFails(c) \/ Wake(c) \/ Return(c) PROVE PoolInv'
  BY <1>4, QuietKeeps
<1>5. CASE FinishOrphan
  <2>1. CASE Callers = {}
    BY <1>5, <2>1, RunningFinite, FS_EmptySet, PoolAssumption
    DEF FinishOrphan, release, PoolInv, Shapes, SlotsExact, NoLostWake, Sleeping
  <2>2. CASE Callers # {}
    BY <1>5, <2>2, FinishKeeps
  <2> QED
    BY <2>1, <2>2
<1>6. CASE UNCHANGED poolVars
  BY <1>6 DEF poolVars, PoolInv, Shapes, SlotsExact, NoLostWake
<1> QED
  BY <1>1, <1>2, <1>3, <1>4, <1>5, <1>6 DEF PoolNext

\* The pool is in order in every reachable state.
LEMMA PoolInvariant == PoolSpec => []PoolInv
  BY InitPool, PoolStep, PTL DEF PoolSpec

\* A slot of the processing pool (engine.py:147-239) is taken exactly as long
\* as its thread runs, and never more of them than there are threads.
THEOREM PoolSlots == PoolSpec => []SlotsExact
<1>1. PoolInv => SlotsExact
  BY DEF PoolInv
<1> QED
  BY <1>1, PoolInvariant, PTL

\* Nobody sleeps for ever beside a free slot: every sleeping caller has a
\* wake-up under way while a slot is free (engine.py:191-239).
THEOREM PoolWakes == PoolSpec => []NoLostWake
<1>1. PoolInv => NoLostWake
  BY DEF PoolInv
<1> QED
  BY <1>1, PoolInvariant, PTL

---------------------------------------------------------------------------
(* The processing pool as crawls use it.                                   *)

\* A caller that gives up moves as the pool allows.
LEMMA GiveUpMoves ==
  ASSUME NEW c \in Callers, GiveUp(c)
  PROVE  [PoolNext]_poolVars
  BY DEF GiveUp, PoolNext, poolVars

\* Whatever a crawl does to the pool is one of the pool's own steps.
LEMMA PoolRefined == [Next]_vars => [PoolNext]_poolVars
<1> SUFFICES ASSUME [Next]_vars PROVE [PoolNext]_poolVars
  OBVIOUS
<1>1. ASSUME NEW c \in Callers,
             \/ Enter(c) \/ ResolveShort(c) \/ Climb(c) \/ TopReached(c) \/ HttpGet(c)
             \/ Recover(c) \/ Spawn(c) \/ StealthAnswers(c) \/ StealthBackstop(c) \/ Stop(c)
      PROVE  UNCHANGED poolVars
  BY <1>1 DEF Enter, ResolveShort, Climb, TopReached, HttpGet, Recover, Spawn, StealthAnswers,
              StealthBackstop, Stop
<1>2. ASSUME NEW c \in Callers, Navigate(c) \/ Click(c) \/ Deliver(c)
      PROVE  Ask(c) \/ UNCHANGED poolVars
  BY <1>2 DEF Navigate, Click, Deliver
<1>3. ASSUME NEW c \in Callers, Verdict(c) \/ Processed(c) PROVE Return(c)
  BY <1>3 DEF Verdict, Processed
<1>4. ASSUME NEW c \in Callers, BudgetSpent(c) \/ TierFails(c) PROVE [PoolNext]_poolVars
  BY <1>4, GiveUpMoves DEF BudgetSpent, TierFails
<1>5. ASSUME NEW c \in Callers, ProcessTimeout(c) PROVE Leave(c)
  BY <1>5 DEF ProcessTimeout
<1>6. ASSUME NEW c \in Callers, Refused(c) PROVE SubmitFails(c)
  BY <1>6 DEF Refused
<1>7. ASSUME NEW c \in Callers, Cancel(c) PROVE [PoolNext]_poolVars
  BY <1>7, GiveUpMoves DEF Cancel
<1>8. CASE PoolMoves
  BY <1>8 DEF PoolMoves, PoolNext
<1>9. CASE Done \/ UNCHANGED vars
  BY <1>9 DEF Done, vars
<1> QED
  BY <1>1, <1>2, <1>3, <1>4, <1>5, <1>6, <1>7, <1>8, <1>9 DEF Next, PoolNext

\* The crawls implement the processing pool: admission, release and abandoned
\* threads (engine.py:147-267) are what ProcessingPool says of them, at every
\* await at which a crawl may be cancelled or overdue.
THEOREM CrawlUsesPool == Spec => PoolSpec
<1>1. Init => PoolInit
  BY DEF Init
<1> QED
  BY <1>1, PoolRefined, PTL DEF Spec, PoolSpec

\* So no crawl holds a slot without a thread, or leaves one behind.
THEOREM CrawlSlotsExact == Spec => []SlotsExact
  BY CrawlUsesPool, PoolSlots, PTL

\* Nor does a crawl sleep beside a free slot that nobody tells it of.
THEOREM CrawlWakes == Spec => []NoLostWake
  BY CrawlUsesPool, PoolWakes, PTL

---------------------------------------------------------------------------
(***************************************************************************)
(* One crawl at a time moves, and only until its end                       *)
(***************************************************************************)
Places == {"lane", "resolve", "ladder", "http", "browser", "probe", "click", "recover",
           "permit", "stealth", "stop", "captured", "process", "end"}

CrawlShapes ==
  /\ pc \in [Callers -> Places]
  /\ DOMAIN result = Callers /\ DOMAIN page = Callers
  /\ enabled \subseteq {"http", "browser", "stealth"}

\* The size of a page is checked when it is handed to the engine, and a wall is
\* looked for when it comes back from its thread.
CleanInv ==
  \A c \in Callers :
    /\ pc[c] = "process" => ~Oversized(page[c])
    /\ result[c] = "ok" => pc[c] = "end" /\ ~is_wall(page[c]) /\ ~Oversized(page[c])

HasWorker == {"stealth", "stop"}
StealthInv == StealthOwned /\ permits \in Nat

CrawlInv == CrawlShapes /\ CleanInv /\ StealthInv

\* What a step of c may do to it, and leaves to the others.
Moved(c) ==
  /\ CrawlShapes'
  /\ \A d \in Callers \ {c} : pc'[d] = pc[d] /\ page'[d] = page[d] /\ result'[d] = result[d]
  /\ pc'[c] = "process" => ~Oversized(page'[c])
  /\ result'[c] = "ok" => pc'[c] = "end" /\ ~is_wall(page'[c]) /\ ~Oversized(page'[c])

KeepsWorker(c) ==
  /\ UNCHANGED <<permits, procs>>
  /\ pc[c] \in HasWorker <=> pc'[c] \in HasWorker

\* A step of one crawl that keeps its own promise keeps those of all.
LEMMA MovedKeepsClean ==
  ASSUME CrawlInv, NEW c \in Callers, Moved(c)
  PROVE  CrawlShapes' /\ CleanInv'
  BY DEF CrawlInv, CleanInv, Moved

\* A step that neither starts nor ends a worker process keeps the permits
\* exact.
LEMMA MovedKeepsWorkers ==
  ASSUME CrawlInv, NEW c \in Callers, Moved(c), KeepsWorker(c)
  PROVE  StealthInv'
<1>1. procs' = {d \in Callers : pc'[d] \in {"stealth", "stop"}}
  BY DEF CrawlInv, StealthInv, StealthOwned, Moved, KeepsWorker, HasWorker
<1> QED
  BY <1>1 DEF CrawlInv, StealthInv, StealthOwned, KeepsWorker

\* There are finitely many worker processes.
LEMMA WorkersFinite ==
  ASSUME StealthOwned
  PROVE  IsFiniteSet(procs) /\ Cardinality(procs) \in Nat
<1>1. procs \subseteq Callers
  BY DEF StealthOwned
<1> QED
  BY <1>1, PoolAssumption, FS_Subset, FS_CardinalityType

\* No crawl has promised anything at first.
LEMMA InitCrawl == Init => CrawlInv
<1> SUFFICES ASSUME Init PROVE CrawlInv
  OBVIOUS
<1>1. CrawlShapes
  <2>1. enabled \subseteq {"http", "browser", "stealth"}
    BY SettingsAssumption DEF Init
  <2> QED
    BY <2>1 DEF Init, CrawlShapes, Places
<1>2. CleanInv
  BY DEF Init, CleanInv
<1>3. StealthInv
  <2>1. procs = {} /\ {c \in Callers : pc[c] \in {"stealth", "stop"}} = {}
    BY DEF Init
  <2>2. Cardinality(procs) = 0 /\ permits \in Nat /\ permits = StealthMax
    BY <2>1, FS_EmptySet, StealthAssumption DEF Init
  <2> QED
    BY <2>1, <2>2 DEF StealthInv, StealthOwned
<1> QED
  BY <1>1, <1>2, <1>3 DEF CrawlInv

\* A crawl that goes elsewhere, and perhaps takes another page along.
LEMMA GotoMoves ==
  ASSUME CrawlInv, NEW c \in Callers, pc[c] # "end",
         NEW where \in Places, Goto(c, where), where = "process" => ~Oversized(page[c]),
         UNCHANGED <<page, result, enabled>>
  PROVE  Moved(c) /\ pc'[c] = where
  BY DEF CrawlInv, CrawlShapes, CleanInv, Moved, Goto

\* A crawl that goes on with another page keeps its promise.
LEMMA CarryMoves ==
  ASSUME CrawlInv, NEW c \in Callers, pc[c] # "end",
         NEW where \in Places \ {"process"}, Goto(c, where),
         NEW pg, page' = [page EXCEPT ![c] = pg], UNCHANGED <<result, enabled>>
  PROVE  Moved(c) /\ pc'[c] = where
  BY DEF CrawlInv, CrawlShapes, CleanInv, Moved, Goto

\* A crawl that turns to another tier keeps its promise.
LEMMA AdvanceMoves ==
  ASSUME CrawlInv, NEW c \in Callers, pc[c] # "end", NEW i, Advance(c, i), UNCHANGED enabled
  PROVE  Moved(c) /\ pc'[c] = "ladder"
  BY CarryMoves DEF Advance, Places

\* A crawl that hands a page on to the engine keeps its promise.
LEMMA RenderMoves ==
  ASSUME CrawlInv, NEW c \in Callers, pc[c] # "end", NEW pg, Render(c, pg), UNCHANGED enabled
  PROVE  Moved(c) /\ pc'[c] = "captured"
  BY CarryMoves DEF Render, Places

\* A crawl that ends keeps its promise if success means a clean page.
LEMMA EndMoves ==
  ASSUME CrawlInv, NEW c \in Callers, NEW how, End(c, how), UNCHANGED enabled,
         how = "ok" => ~is_wall(page[c]) /\ ~Oversized(page[c])
  PROVE  Moved(c) /\ pc'[c] = "end"
<1>1. pc'[c] = "end" /\ result'[c] = how /\ (how = "ok" => page'[c] = page[c])
  BY DEF CrawlInv, CrawlShapes, End, Goto
<1>2. \A d \in Callers \ {c} : pc'[d] = pc[d] /\ page'[d] = page[d] /\ result'[d] = result[d]
  BY DEF CrawlInv, CrawlShapes, End, Goto
<1>3. CrawlShapes'
  BY DEF CrawlInv, CrawlShapes, End, Goto, Places
<1> QED
  BY <1>1, <1>2, <1>3 DEF Moved

\* A crawl that ends with the best partial it has claims no success.
LEMMA PartialMoves ==
  ASSUME CrawlInv, NEW c \in Callers, End(c, Partial(c)), UNCHANGED enabled
  PROVE  Moved(c) /\ pc'[c] = "end"
<1>1. Partial(c) # "ok"
  BY DEF Partial
<1> QED
  BY <1>1, EndMoves

\* A browser tier that has settled on a page keeps its promise.
LEMMA SettleMoves ==
  ASSUME CrawlInv, NEW c \in Callers, pc[c] # "end", NEW pg, Settle(c, pg), UNCHANGED enabled
  PROVE  Moved(c) /\ pc'[c] \in {"recover", "captured"}
  BY CarryMoves, RenderMoves DEF Settle, Gone, Places

\* The engine's loop, and the tiers that need no process of their own.
LEMMA LadderKeeps ==
  ASSUME CrawlInv, NEW c \in Callers,
         \/ Enter(c) \/ ResolveShort(c) \/ Climb(c) \/ TopReached(c) \/ HttpGet(c)
         \/ Recover(c) \/ TierFails(c) \/ ProcessTimeout(c)
  PROVE  Moved(c) /\ KeepsWorker(c)
<1>1. CASE Enter(c)
  BY <1>1, GotoMoves DEF Enter, KeepsWorker, HasWorker, NotStealth, Outside, Places
<1>2. CASE ResolveShort(c)
  BY <1>2, GotoMoves, EndMoves
  DEF ResolveShort, KeepsWorker, HasWorker, NotStealth, Outside, Places
<1>3. CASE Climb(c)
  <2>1. PICK tier : \/ tier \notin enabled /\ Advance(c, at[c] + 1)
                    \/ /\ tier \in enabled
                       /\ Goto(c, IF tier = "stealth" THEN "permit" ELSE tier)
                       /\ UNCHANGED <<result, page>>
    BY <1>3 DEF Climb
  <2>2. pc[c] = "ladder" /\ UNCHANGED <<enabled, permits, procs>>
    BY <1>3 DEF Climb, NotStealth, Outside
  <2>3. CASE Advance(c, at[c] + 1)
    BY <2>2, <2>3, AdvanceMoves DEF KeepsWorker, HasWorker
  <2>4. CASE /\ tier \in enabled
             /\ Goto(c, IF tier = "stealth" THEN "permit" ELSE tier)
             /\ UNCHANGED <<result, page>>
    <3>1. (IF tier = "stealth" THEN "permit" ELSE tier) \in {"permit", "http", "browser"}
      BY <2>4 DEF CrawlInv, CrawlShapes
    <3> QED
      BY <2>2, <2>4, <3>1, GotoMoves DEF KeepsWorker, HasWorker, Places
  <2> QED
    BY <2>1, <2>3, <2>4
<1>4. CASE TopReached(c)
  BY <1>4, PartialMoves DEF TopReached, KeepsWorker, HasWorker, NotStealth, Outside
<1>5. CASE HttpGet(c)
  BY <1>5, PartialMoves, RenderMoves DEF HttpGet, KeepsWorker, HasWorker, NotStealth, Outside
<1>6. CASE Recover(c)
  BY <1>6, PartialMoves, RenderMoves DEF Recover, KeepsWorker, HasWorker, NotStealth, Outside
<1>7. CASE TierFails(c)
  BY <1>7, AdvanceMoves DEF TierFails, KeepsWorker, HasWorker, NotStealth, Outside
<1>8. CASE ProcessTimeout(c)
  BY <1>8, AdvanceMoves DEF ProcessTimeout, KeepsWorker, HasWorker, NotStealth, Outside
<1> QED
  BY <1>1, <1>2, <1>3, <1>4, <1>5, <1>6, <1>7, <1>8

\* The steps around the processing pool.
LEMMA ProcessingKeeps ==
  ASSUME CrawlInv, NEW c \in Callers,
         \/ Navigate(c) \/ Verdict(c) \/ Click(c) \/ BudgetSpent(c)
         \/ Deliver(c) \/ Processed(c) \/ Refused(c)
  PROVE  Moved(c) /\ KeepsWorker(c)
<1> USE DEF KeepsWorker, HasWorker
<1>1. CASE Navigate(c)
  BY <1>1, AdvanceMoves, PartialMoves, CarryMoves DEF Navigate, NotStealth, Outside, Places
<1>2. CASE Verdict(c)
  BY <1>2, SettleMoves, EndMoves, GotoMoves DEF Verdict, NotStealth, Outside, Places
<1>3. CASE Click(c)
  BY <1>3, PartialMoves, GotoMoves DEF Click, NotStealth, Outside, Places
<1>4. CASE BudgetSpent(c)
  BY <1>4, SettleMoves DEF BudgetSpent, NotStealth, Outside
<1>5. CASE Deliver(c)
  BY <1>5, PartialMoves, GotoMoves DEF Deliver, NotStealth, Outside, Places
<1>6. CASE Processed(c)
  <2>1. pc[c] = "process" /\ UNCHANGED <<enabled, permits, procs>>
    BY <1>6 DEF Processed, NotStealth, Outside
  <2>2. ~Oversized(page[c])
    BY <2>1 DEF CrawlInv, CleanInv
  <2>3. CASE \E i : Advance(c, i)
    BY <2>1, <2>3, AdvanceMoves
  <2>4. CASE End(c, "error")
    BY <2>1, <2>4, EndMoves
  <2>5. CASE ~is_wall(page[c]) /\ End(c, "ok")
    BY <2>1, <2>2, <2>5, EndMoves
  <2>6. CASE Goto(c, "ladder") /\ page' = [page EXCEPT ![c] = NoPage] /\ UNCHANGED result
    <3>1. "ladder" \in Places \ {"process"} /\ pc[c] # "end"
      BY <2>1 DEF Places
    <3>2. UNCHANGED <<result, enabled>>
      BY <2>1, <2>6
    <3> QED
      BY <2>1, <2>6, <3>1, <3>2, CarryMoves
  <2> QED
    BY <1>6, <2>3, <2>4, <2>5, <2>6 DEF Processed
<1>7. CASE Refused(c)
  BY <1>7, AdvanceMoves, EndMoves DEF Refused, NotStealth
<1> QED
  BY <1>1, <1>2, <1>3, <1>4, <1>5, <1>6, <1>7

\* The stealth tier, from its permit to the end of its process.
LEMMA StealthMoves ==
  ASSUME CrawlInv, NEW c \in Callers,
         Spawn(c) \/ StealthAnswers(c) \/ StealthBackstop(c) \/ Stop(c) \/ Cancel(c)
  PROVE  Moved(c)
<1>1. CASE Spawn(c)
  BY <1>1, GotoMoves DEF Spawn, Outside, Places
<1>2. CASE StealthAnswers(c)
  BY <1>2, CarryMoves, GotoMoves DEF StealthAnswers, Stopping, Outside, Places
<1>3. CASE StealthBackstop(c)
  BY <1>3, GotoMoves DEF StealthBackstop, Stopping, Outside, Places
<1>4. CASE Stop(c)
  BY <1>4, RenderMoves, AdvanceMoves, EndMoves DEF Stop, Outside
<1>5. CASE Cancel(c)
  <2>1. UNCHANGED enabled
    BY <1>5 DEF Cancel
  <2>2. CASE pc[c] = "lane" /\ Goto(c, "end") /\ result' = [result EXCEPT ![c] = "cancelled"]
             /\ UNCHANGED page
    <3>1. CrawlShapes'
      BY <2>1, <2>2 DEF Goto, CrawlInv, CrawlShapes, Places
    <3>2. pc'[c] = "end" /\ result'[c] = "cancelled"
      BY <2>2 DEF Goto, CrawlInv, CrawlShapes
    <3>3. \A d \in Callers \ {c} : pc'[d] = pc[d] /\ page'[d] = page[d] /\ result'[d] = result[d]
      BY <2>2 DEF Goto, CrawlInv, CrawlShapes
    <3> QED
      BY <3>1, <3>2, <3>3 DEF Moved
  <2>3. CASE pc[c] \in {"stealth", "stop"} /\ Stopping(c, "cancelled") /\ UNCHANGED <<page, result>>
    BY <2>1, <2>3, GotoMoves DEF Stopping, Places
  <2>4. CASE End(c, "cancelled")
    BY <2>1, <2>4, EndMoves
  <2> QED
    BY <1>5, <2>2, <2>3, <2>4 DEF Cancel
<1> QED
  BY <1>1, <1>2, <1>3, <1>4, <1>5

\* A permit goes with the process that is started, and comes back with the one
\* that has been killed; a cancellation in between changes neither.
LEMMA StealthKeeps ==
  ASSUME CrawlInv, NEW c \in Callers,
         Spawn(c) \/ StealthAnswers(c) \/ StealthBackstop(c) \/ Stop(c) \/ Cancel(c)
  PROVE  StealthInv'
<1>0. Moved(c) /\ procs = {d \in Callers : pc[d] \in {"stealth", "stop"}}
      /\ permits \in Nat /\ permits + Cardinality(procs) = StealthMax
  BY StealthMoves DEF CrawlInv, StealthInv, StealthOwned
<1>f. IsFiniteSet(procs) /\ Cardinality(procs) \in Nat
  BY WorkersFinite DEF CrawlInv, StealthInv
<1>1. CASE Spawn(c)
  <2>1. /\ c \notin procs /\ procs' = procs \cup {c} /\ permits > 0 /\ permits' = permits - 1
        /\ pc'[c] = "stealth"
    BY <1>0, <1>1 DEF Spawn, Goto, CrawlInv, CrawlShapes
  <2>2. procs' = {d \in Callers : pc'[d] \in {"stealth", "stop"}}
    BY <1>0, <2>1 DEF Moved
  <2>3. Cardinality(procs') = Cardinality(procs) + 1
    BY <1>f, <2>1, FS_AddElement
  <2> QED
    BY <1>0, <1>f, <2>1, <2>2, <2>3 DEF StealthInv, StealthOwned
<1>2. CASE Stop(c)
  <2>1. /\ c \in procs /\ procs' = procs \ {c} /\ permits' = permits + 1
        /\ pc'[c] \notin {"stealth", "stop"}
    BY <1>0, <1>2 DEF Stop, Render, Advance, End, Goto, CrawlInv, CrawlShapes
  <2>2. procs' = {d \in Callers : pc'[d] \in {"stealth", "stop"}}
    BY <1>0, <2>1 DEF Moved
  <2>3. Cardinality(procs') = Cardinality(procs) - 1
    BY <1>f, <2>1, FS_RemoveElement
  <2> QED
    BY <1>0, <1>f, <2>1, <2>2, <2>3 DEF StealthInv, StealthOwned
<1>3. CASE StealthAnswers(c) \/ StealthBackstop(c) \/ Cancel(c)
  <2>1. KeepsWorker(c)
    BY <1>3 DEF StealthAnswers, StealthBackstop, Cancel, Stopping, End, Goto, Outside,
                KeepsWorker, HasWorker, CrawlInv, CrawlShapes
  <2> QED
    BY <1>0, <2>1, MovedKeepsWorkers
<1> QED
  BY <1>1, <1>2, <1>3

\* Every step keeps the promises of all crawls.
LEMMA CrawlStep == CrawlInv /\ [Next]_vars => CrawlInv'
<1> SUFFICES ASSUME CrawlInv, [Next]_vars PROVE CrawlInv'
  OBVIOUS
<1>1. ASSUME NEW c \in Callers, Moved(c), KeepsWorker(c) PROVE CrawlInv'
  BY <1>1, MovedKeepsClean, MovedKeepsWorkers DEF CrawlInv
<1>2. ASSUME NEW c \in Callers,
             \/ Enter(c) \/ ResolveShort(c) \/ Climb(c) \/ TopReached(c) \/ HttpGet(c)
             \/ Recover(c) \/ TierFails(c) \/ ProcessTimeout(c)
      PROVE  CrawlInv'
  BY <1>1, <1>2, LadderKeeps
<1>3. ASSUME NEW c \in Callers,
             \/ Navigate(c) \/ Verdict(c) \/ Click(c) \/ BudgetSpent(c)
             \/ Deliver(c) \/ Processed(c) \/ Refused(c)
      PROVE  CrawlInv'
  BY <1>1, <1>3, ProcessingKeeps
<1>4. ASSUME NEW c \in Callers,
             Spawn(c) \/ StealthAnswers(c) \/ StealthBackstop(c) \/ Stop(c) \/ Cancel(c)
      PROVE  CrawlInv'
  BY <1>4, StealthMoves, StealthKeeps, MovedKeepsClean DEF CrawlInv
<1>5. CASE PoolMoves \/ Done \/ UNCHANGED vars
  BY <1>5 DEF PoolMoves, Done, vars, crawlVars, CrawlInv, CrawlShapes, CleanInv, StealthInv,
              StealthOwned
<1> QED
  BY <1>2, <1>3, <1>4, <1>5 DEF Next

\* The promises hold in every reachable state.
LEMMA CrawlAlways == Spec => []CrawlInv
  BY InitCrawl, CrawlStep, PTL DEF Spec

\* No more stealth workers live than there are permits, and none without one,
\* whatever cancels a crawl and when (stealth.py:39-53, 145-180).
THEOREM StealthBounded == Spec => []StealthOwned
<1>1. CrawlInv => StealthOwned
  BY DEF CrawlInv, StealthInv
<1> QED
  BY <1>1, CrawlAlways, PTL

\* No bot wall and no oversized document is ever accepted, on whatever way the
\* page reached the engine (engine.py:61-109, 270-279).
THEOREM NoWallStored == Spec => []AcceptedIsClean
<1>1. CrawlInv => AcceptedIsClean
  BY DEF CrawlInv, CleanInv, AcceptedIsClean
<1> QED
  BY <1>1, CrawlAlways, PTL

---------------------------------------------------------------------------
(***************************************************************************)
(* The ladder of a crawl and the slots of the lanes                        *)
(***************************************************************************)
\* The ladder of a crawl has rungs, and stays as it is.
LEMMA LadderFacts ==
  ASSUME ask \in Starts, NEW c \in Callers
  PROVE  /\ Len(Ladder(c)) \in Nat \ {0} /\ DOMAIN Ladder(c) = 1 .. Len(Ladder(c))
         /\ Lane(c) \in DOMAIN Slots
<1> DEFINE site == ask[c].url.site
           tiers == {"http", "browser", "stealth"}
<1>1. site \in DOMAIN POLICY /\ Lane(c) \in DOMAIN Slots
  BY StartsAssumption DEF Lane
<1>2. \A s \in DOMAIN POLICY : POLICY[s] \in Seq(tiers) /\ POLICY[s] # <<>>
  <2>1. DOMAIN POLICY = {"nytimes", "walmart", "reddit", "brave", "default"}
    BY DEF POLICY
  <2>2. /\ POLICY["nytimes"] = <<"http", "browser", "stealth">>
        /\ POLICY["walmart"] = <<"http", "browser", "stealth">>
        /\ POLICY["reddit"] = <<"browser", "stealth">>
        /\ POLICY["brave"] = <<"browser">>
        /\ POLICY["default"] = <<"http", "browser">>
    BY DEF POLICY
  <2>3. /\ <<"http", "browser", "stealth">> \in Seq(tiers)
        /\ <<"browser", "stealth">> \in Seq(tiers)
        /\ <<"browser">> \in Seq(tiers)
        /\ <<"http", "browser">> \in Seq(tiers)
    OBVIOUS
  <2>4. /\ <<"http", "browser", "stealth">> # <<>> /\ <<"browser", "stealth">> # <<>>
        /\ <<"browser">> # <<>> /\ <<"http", "browser">> # <<>>
    OBVIOUS
  <2> QED
    BY <2>1, <2>2, <2>3, <2>4
<1>3. crawl_plan(ask[c].url) \in DOMAIN POLICY
  <2>1. "default" \in DOMAIN POLICY
    BY DEF POLICY
  <2> QED
    BY <1>1, <2>1 DEF crawl_plan
<1> HIDE DEF tiers
<1>4. Ladder(c) \in Seq(tiers) /\ Ladder(c) # <<>>
  BY <1>2, <1>3 DEF Ladder
<1> QED
  BY <1>1, <1>4

\* The places in which a crawl holds a slot, and those in which it is on a rung.
Within == Places \ {"lane", "end"}
Trying == Within \ {"resolve", "ladder"}

\* The crawls that hold a slot of a lane.
Riders(l) == {c \in Callers : Lane(c) = l /\ pc[c] \notin {"lane", "end"}}

\* A crawl is on its ladder or past it, in the pool only where it waits for a
\* verdict or a fit, and a slot of its lane is out as long as it is inside.
LaneInv ==
  /\ ask \in Starts
  /\ free \in [DOMAIN Slots -> Nat]
  /\ DOMAIN at = Callers
  /\ \A c \in Callers :
       /\ at[c] \in 1 .. Len(Ladder(c)) + 1
       /\ pc[c] \in Trying => at[c] <= Len(Ladder(c))
       /\ InPool(c) => pc[c] \in {"probe", "process"}
       /\ result[c] = "" <=> pc[c] # "end"
  /\ \A l \in DOMAIN Slots : free[l] + Cardinality(Riders(l)) = Slots[l]

\* What a step of c does to its place on the ladder and to the slot of its lane:
\* a slot is taken at the entrance, kept inside, and given back at the end.
Walks(c) ==
  /\ UNCHANGED ask /\ DOMAIN at' = Callers /\ pc'[c] \in Places
  /\ \A d \in Callers \ {c} : pc'[d] = pc[d] /\ at'[d] = at[d] /\ result'[d] = result[d]
  /\ at'[c] \in 1 .. Len(Ladder(c)) + 1
  /\ pc'[c] \in Trying => at'[c] <= Len(Ladder(c))
  /\ result'[c] = "" <=> pc'[c] # "end"
  /\ \/ (pc[c] \in Within <=> pc'[c] \in Within) /\ UNCHANGED free
     \/ /\ pc[c] = "lane" /\ pc'[c] \in Within
        /\ free[Lane(c)] > 0 /\ free' = [free EXCEPT ![Lane(c)] = @ - 1]
     \/ /\ pc[c] \in Within /\ pc'[c] = "end"
        /\ free' = [free EXCEPT ![Lane(c)] = @ + 1]

\* What it does to the processing pool.
Pooled(c) ==
  /\ \A d \in Callers \ {c} : stage'[d] = stage[d]
  /\ stage'[c] # "out" => pc'[c] \in {"probe", "process"}

\* What the proofs below rest on.
Base == CrawlInv /\ LaneInv /\ stage \in [Callers -> Stages]

\* Slots are counted: whoever gives one up, or takes one, changes the number of
\* those that hold one by as much.
LEMMA LanesCounted ==
  ASSUME Base, NEW c \in Callers, Walks(c), NEW l \in DOMAIN Slots
  PROVE  /\ free' \in [DOMAIN Slots -> Nat]
         /\ free'[l] + Cardinality(Riders(l)') = Slots[l]
<1>1. /\ free \in [DOMAIN Slots -> Nat] /\ free[l] + Cardinality(Riders(l)) = Slots[l]
      /\ Lane(c) \in DOMAIN Slots /\ UNCHANGED ask /\ pc \in [Callers -> Places]
      /\ Slots[l] \in Nat
  BY LadderFacts, StartsAssumption DEF Base, LaneInv, CrawlInv, CrawlShapes, Walks
<1>2. IsFiniteSet(Riders(l)) /\ Cardinality(Riders(l)) \in Nat
  <2>1. Riders(l) \in SUBSET Callers
    BY DEF Riders
  <2> HIDE DEF Riders
  <2> QED
    BY <2>1, PoolAssumption, FS_Subset, FS_CardinalityType
<1>3. /\ \A d \in Callers : d \in Riders(l) <=> Lane(d) = l /\ pc[d] \in Within
      /\ \A d \in Callers : d \in Riders(l)' <=> Lane(d) = l /\ pc'[d] \in Within
      /\ Riders(l) \subseteq Callers /\ Riders(l)' \subseteq Callers
      /\ \A d \in Callers \ {c} : pc'[d] = pc[d]
  BY <1>1 DEF Riders, Lane, Within, Walks
<1>4. PICK S : S = Riders(l)
  OBVIOUS
<1>5. PICK T : T = Riders(l)'
  OBVIOUS
<1>6. CASE (pc[c] \in Within <=> pc'[c] \in Within) /\ UNCHANGED free
  <2>1. T = S
    BY <1>3, <1>4, <1>5, <1>6
  <2> QED
    BY <1>1, <1>4, <1>5, <1>6, <2>1
<1>7. CASE /\ pc[c] = "lane" /\ pc'[c] \in Within
           /\ free[Lane(c)] > 0 /\ free' = [free EXCEPT ![Lane(c)] = @ - 1]
  <2>1. free' \in [DOMAIN Slots -> Nat]
    BY <1>1, <1>7
  <2>2. CASE Lane(c) = l
    <3>1. c \notin S /\ T = S \cup {c}
      BY <1>3, <1>4, <1>5, <1>7, <2>2 DEF Within
    <3>2. Cardinality(T) = Cardinality(S) + 1
      BY <1>2, <1>4, <3>1, FS_AddElement
    <3> QED
      BY <1>1, <1>2, <1>4, <1>5, <1>7, <2>1, <2>2, <3>2
  <2>3. CASE Lane(c) # l
    <3>1. T = S
      BY <1>3, <1>4, <1>5, <2>3
    <3> QED
      BY <1>1, <1>4, <1>5, <1>7, <2>1, <2>3, <3>1
  <2> QED
    BY <2>2, <2>3
<1>8. CASE /\ pc[c] \in Within /\ pc'[c] = "end"
           /\ free' = [free EXCEPT ![Lane(c)] = @ + 1]
  <2>1. free' \in [DOMAIN Slots -> Nat]
    BY <1>1, <1>8
  <2>2. CASE Lane(c) = l
    <3>1. c \in S /\ T = S \ {c}
      BY <1>3, <1>4, <1>5, <1>8, <2>2 DEF Within
    <3>2. Cardinality(T) = Cardinality(S) - 1
      BY <1>2, <1>4, <3>1, FS_RemoveElement
    <3> QED
      BY <1>1, <1>2, <1>4, <1>5, <1>8, <2>1, <2>2, <3>2
  <2>3. CASE Lane(c) # l
    <3>1. T = S
      BY <1>3, <1>4, <1>5, <2>3
    <3> QED
      BY <1>1, <1>4, <1>5, <1>8, <2>1, <2>3, <3>1
  <2> QED
    BY <2>2, <2>3
<1> QED
  BY <1>6, <1>7, <1>8 DEF Walks

\* A step that moves one crawl as it should keeps the count of all.
LEMMA WalkKeepsLanes ==
  ASSUME Base, NEW c \in Callers, Walks(c), Pooled(c)
  PROVE  LaneInv'
<1>1. \A d \in Callers : Ladder(d)' = Ladder(d)
  BY DEF Walks, Ladder
<1>2. \A l \in DOMAIN Slots : /\ free' \in [DOMAIN Slots -> Nat]
                              /\ free'[l] + Cardinality(Riders(l)') = Slots[l]
  BY LanesCounted
<1>3. free' \in [DOMAIN Slots -> Nat]
  <2>1. Lane(c) \in DOMAIN Slots
    BY LadderFacts DEF Base, LaneInv
  <2> QED
    BY <1>2, <2>1
<1>4. ASSUME NEW d \in Callers
      PROVE  /\ at'[d] \in 1 .. Len(Ladder(d)) + 1
             /\ pc'[d] \in Trying => at'[d] <= Len(Ladder(d))
             /\ stage'[d] # "out" => pc'[d] \in {"probe", "process"}
             /\ result'[d] = "" <=> pc'[d] # "end"
  <2>1. CASE d = c
    BY <2>1 DEF Walks, Pooled
  <2>2. CASE d # c
    <3>1. /\ pc'[d] = pc[d] /\ at'[d] = at[d] /\ result'[d] = result[d] /\ stage'[d] = stage[d]
      BY <2>2 DEF Walks, Pooled
    <3> QED
      BY <3>1 DEF Base, LaneInv, InPool
  <2> QED
    BY <2>1, <2>2
<1> QED
  BY <1>1, <1>2, <1>3, <1>4 DEF LaneInv, InPool, Walks, Base

\* The moves the actions are made of.
LEMMA GotoWalks ==
  ASSUME Base, NEW c \in Callers, pc[c] \in Within, NEW where \in Within, Goto(c, where),
         where \in Trying => at[c] <= Len(Ladder(c)), UNCHANGED <<ask, free, result, at>>
  PROVE  Walks(c) /\ pc'[c] = where
<1>1. pc'[c] = where /\ \A d \in Callers \ {c} : pc'[d] = pc[d]
  BY DEF Base, CrawlInv, CrawlShapes, Goto
<1>2. /\ DOMAIN at' = Callers /\ at'[c] \in 1 .. Len(Ladder(c)) + 1
      /\ result'[c] = "" /\ where \in Places /\ where # "end"
  BY DEF Base, LaneInv, Within
<1> QED
  BY <1>1, <1>2 DEF Walks

\* A crawl that turns to another tier stays on its ladder and in its lane.
LEMMA AdvanceWalks ==
  ASSUME Base, NEW c \in Callers, pc[c] \in Within, NEW i \in 1 .. Len(Ladder(c)) + 1,
         Advance(c, i), UNCHANGED ask
  PROVE  Walks(c) /\ pc'[c] = "ladder"
<1>1. pc'[c] = "ladder" /\ \A d \in Callers \ {c} : pc'[d] = pc[d]
  BY DEF Base, CrawlInv, CrawlShapes, Advance, Goto
<1>2. /\ DOMAIN at' = Callers /\ at'[c] = i /\ \A d \in Callers \ {c} : at'[d] = at[d]
      /\ UNCHANGED <<free, result>> /\ result[c] = ""
  BY DEF Base, LaneInv, Advance, Within
<1>3. "ladder" \in Within /\ "ladder" \notin Trying /\ "ladder" \in Places
  BY DEF Within, Trying, Places
<1> QED
  BY <1>1, <1>2, <1>3 DEF Walks

\* So does one that hands a page on to the engine.
LEMMA RenderWalks ==
  ASSUME Base, NEW c \in Callers, pc[c] \in Trying, NEW pg, Render(c, pg), UNCHANGED ask
  PROVE  Walks(c) /\ pc'[c] = "captured"
<1>1. at[c] <= Len(Ladder(c)) /\ pc[c] \in Within /\ "captured" \in Within
  BY DEF Base, LaneInv, Trying, Within, Places
<1> QED
  BY <1>1, GotoWalks DEF Render

\* A crawl that ends returns the slot of its lane.
LEMMA EndWalks ==
  ASSUME Base, NEW c \in Callers, pc[c] \in Within, NEW how, how # "", End(c, how), UNCHANGED ask
  PROVE  Walks(c) /\ pc'[c] = "end"
<1>1. pc'[c] = "end" /\ \A d \in Callers \ {c} : pc'[d] = pc[d]
  BY DEF Base, CrawlInv, CrawlShapes, End, Goto
<1>2. result'[c] = how /\ \A d \in Callers \ {c} : result'[d] = result[d]
  BY DEF Base, CrawlInv, CrawlShapes, End
<1>3. /\ DOMAIN at' = Callers /\ at'[c] \in 1 .. Len(Ladder(c)) + 1
      /\ UNCHANGED at /\ free' = [free EXCEPT ![Lane(c)] = @ + 1]
  BY DEF Base, LaneInv, End
<1>4. "end" \in Places /\ "end" \notin Trying
  BY DEF Places, Trying, Within
<1> QED
  BY <1>1, <1>2, <1>3, <1>4 DEF Walks

\* So does one that ends with the best partial it has.
LEMMA PartialWalks ==
  ASSUME Base, NEW c \in Callers, pc[c] \in Within, End(c, Partial(c)), UNCHANGED ask
  PROVE  Walks(c) /\ pc'[c] = "end"
<1>1. Partial(c) # ""
  BY DEF Partial
<1> QED
  BY <1>1, EndWalks

\* A browser tier that has settled on a page stays in its lane.
LEMMA SettleWalks ==
  ASSUME Base, NEW c \in Callers, pc[c] \in Trying, NEW pg, Settle(c, pg), UNCHANGED ask
  PROVE  Walks(c)
<1>1. at[c] <= Len(Ladder(c)) /\ pc[c] \in Within /\ "recover" \in Within
  BY DEF Base, LaneInv, Trying, Within, Places
<1>2. CASE Gone(c, pg)
  BY <1>1, <1>2, GotoWalks DEF Settle
<1>3. CASE ~Gone(c, pg)
  BY <1>3, RenderWalks DEF Settle
<1> QED
  BY <1>2, <1>3

\* An escalation leads to a rung of the ladder, or to the next one.
LEMMA NextIndex ==
  ASSUME Base, NEW c \in Callers, pc[c] \in Trying, NEW tier
  PROVE  /\ next_index(c, tier) \in 1 .. Len(Ladder(c)) + 1
         /\ at[c] + 1 \in 1 .. Len(Ladder(c)) + 1
<1>1. /\ at[c] \in 1 .. Len(Ladder(c)) + 1 /\ at[c] <= Len(Ladder(c))
      /\ Len(Ladder(c)) \in Nat /\ DOMAIN Ladder(c) = 1 .. Len(Ladder(c))
  BY LadderFacts DEF Base, LaneInv
<1>2. CASE \E i \in DOMAIN Ladder(c) : i > at[c] /\ Ladder(c)[i] = tier
  <2>1. next_index(c, tier) \in DOMAIN Ladder(c)
    BY <1>2 DEF next_index
  <2> QED
    BY <1>1, <2>1
<1>3. CASE ~\E i \in DOMAIN Ladder(c) : i > at[c] /\ Ladder(c)[i] = tier
  BY <1>1, <1>3 DEF next_index
<1> QED
  BY <1>1, <1>2, <1>3

\* Who has nothing in the pool, and who takes it out.
LEMMA QuietPooled ==
  ASSUME Base, NEW c \in Callers, UNCHANGED poolVars, pc[c] \notin {"probe", "process"}
  PROVE  Pooled(c)
BY DEF Base, LaneInv, InPool, Pooled, poolVars

\* Whoever leaves the pool has nothing in it.
LEMMA OutPooled ==
  ASSUME Base, NEW c \in Callers, Return(c) \/ Leave(c) \/ SubmitFails(c) \/ GiveUp(c)
  PROVE  Pooled(c)
BY DEF Base, Return, Leave, SubmitFails, GiveUp, InPool, Pooled, poolVars

\* Whoever asks for a processing slot is at a place that waits for one.
LEMMA AskPooled ==
  ASSUME Base, NEW c \in Callers, Ask(c), pc'[c] \in {"probe", "process"}
  PROVE  Pooled(c)
BY DEF Base, Ask, try_acquire, Pooled

\* The engine's loop, and the tiers that need no process of their own.
LEMMA LadderWalks ==
  ASSUME Base, NEW c \in Callers,
         \/ Enter(c) \/ ResolveShort(c) \/ Climb(c) \/ TopReached(c) \/ HttpGet(c)
         \/ Recover(c) \/ TierFails(c) \/ ProcessTimeout(c)
  PROVE  Walks(c) /\ Pooled(c)
<1>0. /\ Len(Ladder(c)) \in Nat \ {0} /\ at[c] \in 1 .. Len(Ladder(c)) + 1
      /\ UNCHANGED ask
  BY LadderFacts
     DEF Base, LaneInv, Enter, ResolveShort, Climb, TopReached, HttpGet, Recover, TierFails,
         ProcessTimeout, Outside
<1>1. CASE Enter(c)
  <2>1. PICK where \in {"resolve", "ladder"} : Goto(c, where)
    BY <1>1 DEF Enter
  <2>2. /\ pc[c] = "lane" /\ free[Lane(c)] > 0 /\ free' = [free EXCEPT ![Lane(c)] = @ - 1]
        /\ UNCHANGED <<poolVars, at, result>>
    BY <1>1 DEF Enter
  <2>3. pc'[c] = where /\ \A d \in Callers \ {c} : pc'[d] = pc[d]
    BY <2>1 DEF Base, CrawlInv, CrawlShapes, Goto
  <2>4. where \in Within /\ where \in Places /\ where \notin Trying /\ where # "end"
    BY DEF Within, Trying, Places
  <2>5. DOMAIN at' = Callers /\ result'[c] = ""
    BY <2>2 DEF Base, LaneInv
  <2>6. Walks(c)
    BY <1>0, <2>2, <2>3, <2>4, <2>5 DEF Walks
  <2> QED
    BY <2>2, <2>6, QuietPooled
<1>2. CASE ResolveShort(c)
  <2>1. pc[c] = "resolve" /\ UNCHANGED poolVars
    BY <1>2 DEF ResolveShort
  <2>2. /\ "resolve" \in Within /\ "ladder" \in Within /\ "ladder" \notin Trying
    BY DEF Within, Trying, Places
  <2>3. \/ Goto(c, "ladder") /\ UNCHANGED <<free, result, at>>
        \/ End(c, "error")
    BY <1>2 DEF ResolveShort
  <2> QED
    BY <1>0, <2>1, <2>2, <2>3, GotoWalks, EndWalks, QuietPooled
<1>3. CASE Climb(c)
  <2>1. pc[c] = "ladder" /\ UNCHANGED poolVars /\ at[c] <= Len(Ladder(c)) /\ "ladder" \in Within
    BY <1>3 DEF Climb, Within, Places
  <2>2. PICK tier : \/ tier \notin enabled /\ Advance(c, at[c] + 1)
                    \/ /\ tier \in enabled
                       /\ Goto(c, IF tier = "stealth" THEN "permit" ELSE tier)
                       /\ UNCHANGED <<free, result, at>>
    BY <1>3 DEF Climb
  <2>3. at[c] + 1 \in 1 .. Len(Ladder(c)) + 1
    BY <1>0, <2>1
  <2>4. tier \in enabled => (IF tier = "stealth" THEN "permit" ELSE tier) \in Within
    BY DEF Base, CrawlInv, CrawlShapes, Within, Places
  <2> QED
    BY <1>0, <2>1, <2>2, <2>3, <2>4, GotoWalks, AdvanceWalks, QuietPooled
<1>4. CASE TopReached(c)
  BY <1>0, <1>4, PartialWalks, QuietPooled DEF TopReached, Within, Places
<1>5. CASE HttpGet(c)
  <2>1. pc[c] = "http" /\ UNCHANGED poolVars /\ pc[c] \in Trying /\ pc[c] \in Within
    BY <1>5 DEF HttpGet, Trying, Within, Places
  <2>2. (\E pg : Render(c, pg)) \/ End(c, Partial(c))
    BY <1>5 DEF HttpGet
  <2> QED
    BY <1>0, <2>1, <2>2, RenderWalks, PartialWalks, QuietPooled
<1>6. CASE Recover(c)
  <2>1. pc[c] = "recover" /\ UNCHANGED poolVars /\ pc[c] \in Trying /\ pc[c] \in Within
    BY <1>6 DEF Recover, Trying, Within, Places
  <2>2. (\E pg : Render(c, pg)) \/ End(c, Partial(c))
    BY <1>6 DEF Recover
  <2> QED
    BY <1>0, <2>1, <2>2, RenderWalks, PartialWalks, QuietPooled
<1>7. CASE TierFails(c) \/ ProcessTimeout(c)
  <2>1. pc[c] \in Trying /\ pc[c] \in Within
    BY <1>7 DEF TierFails, ProcessTimeout, Trying, Within, Places
  <2>2. Advance(c, at[c] + 1) /\ (GiveUp(c) \/ Leave(c))
    BY <1>7 DEF TierFails, ProcessTimeout
  <2> QED
    BY <1>0, <2>1, <2>2, AdvanceWalks, NextIndex, OutPooled
<1> QED
  BY <1>1, <1>2, <1>3, <1>4, <1>5, <1>6, <1>7

\* The steps around the processing pool.
LEMMA ProcessingWalks ==
  ASSUME Base, NEW c \in Callers,
         \/ Navigate(c) \/ Verdict(c) \/ Click(c) \/ BudgetSpent(c)
         \/ Deliver(c) \/ Processed(c) \/ Refused(c)
  PROVE  Walks(c) /\ Pooled(c)
<1>1. UNCHANGED ask /\ pc[c] \in Trying /\ pc[c] \in Within
  BY DEF Navigate, Verdict, Click, BudgetSpent, Deliver, Processed, Refused, Outside,
         Trying, Within, Places
<1>2. /\ at[c] <= Len(Ladder(c)) /\ at[c] + 1 \in 1 .. Len(Ladder(c)) + 1
      /\ \A tier : next_index(c, tier) \in 1 .. Len(Ladder(c)) + 1
  BY <1>1, NextIndex DEF Base, LaneInv
<1>3. {"probe", "process", "click", "ladder"} \subseteq Within /\ "ladder" \notin Trying
  BY DEF Within, Trying, Places
<1>4. CASE Navigate(c)
  <2>1. pc[c] = "browser"
    BY <1>4 DEF Navigate
  <2>2. \/ (Advance(c, at[c] + 1) \/ End(c, Partial(c))) /\ UNCHANGED poolVars
        \/ Ask(c) /\ Goto(c, "probe") /\ UNCHANGED <<free, result, at>>
    BY <1>4 DEF Navigate
  <2> QED
    BY <1>1, <1>2, <1>3, <2>1, <2>2, AdvanceWalks, PartialWalks, GotoWalks, QuietPooled, AskPooled
<1>5. CASE Verdict(c)
  <2>1. Return(c)
    BY <1>5 DEF Verdict
  <2>2. \/ Settle(c, Reread(c)) \/ End(c, "challenge")
        \/ Goto(c, "click") /\ UNCHANGED <<free, result, at>>
    BY <1>5 DEF Verdict
  <2> QED
    BY <1>1, <1>2, <1>3, <2>1, <2>2, SettleWalks, EndWalks, GotoWalks, OutPooled
<1>6. CASE Click(c)
  <2>1. pc[c] = "click"
    BY <1>6 DEF Click
  <2>2. \/ End(c, Partial(c)) /\ UNCHANGED poolVars
        \/ Ask(c) /\ Goto(c, "probe") /\ UNCHANGED <<free, result, at>>
    BY <1>6 DEF Click
  <2> QED
    BY <1>1, <1>2, <1>3, <2>1, <2>2, PartialWalks, GotoWalks, QuietPooled, AskPooled
<1>7. CASE BudgetSpent(c)
  BY <1>1, <1>7, SettleWalks, OutPooled DEF BudgetSpent
<1>8. CASE Deliver(c)
  <2>1. pc[c] = "captured"
    BY <1>8 DEF Deliver
  <2>2. \/ End(c, Partial(c)) /\ UNCHANGED poolVars
        \/ Ask(c) /\ Goto(c, "process") /\ UNCHANGED <<free, result, at>>
    BY <1>8 DEF Deliver
  <2> QED
    BY <1>1, <1>2, <1>3, <2>1, <2>2, PartialWalks, GotoWalks, QuietPooled, AskPooled
<1>9. CASE Processed(c)
  <2>1. Return(c)
    BY <1>9 DEF Processed
  <2>2. \/ Advance(c, at[c] + 1) \/ \E tier : Advance(c, next_index(c, tier))
        \/ End(c, "error") \/ End(c, "ok")
        \/ Goto(c, "ladder") /\ at' = [at EXCEPT ![c] = @ + 1] /\ UNCHANGED <<free, result>>
    BY <1>9 DEF Processed
  <2>3. CASE Goto(c, "ladder") /\ at' = [at EXCEPT ![c] = @ + 1] /\ UNCHANGED <<free, result>>
    <3>1. pc'[c] = "ladder" /\ \A d \in Callers \ {c} : pc'[d] = pc[d]
      BY <2>3 DEF Base, CrawlInv, CrawlShapes, Goto
    <3>2. /\ DOMAIN at' = Callers /\ at'[c] = at[c] + 1 /\ result'[c] = ""
          /\ \A d \in Callers \ {c} : at'[d] = at[d]
      BY <1>1, <2>3 DEF Base, LaneInv, Within
    <3>3. "ladder" \in Places
      BY DEF Places
    <3>4. Walks(c)
      BY <1>1, <1>2, <1>3, <2>3, <3>1, <3>2, <3>3 DEF Walks
    <3> QED
      BY <2>1, <3>4, OutPooled
  <2>4. CASE Advance(c, at[c] + 1) \/ \E tier : Advance(c, next_index(c, tier))
    BY <1>1, <1>2, <2>1, <2>4, AdvanceWalks, OutPooled
  <2>5. CASE End(c, "error") \/ End(c, "ok")
    BY <1>1, <2>1, <2>5, EndWalks, OutPooled
  <2> QED
    BY <2>2, <2>3, <2>4, <2>5
<1>10. CASE Refused(c)
  <2>1. SubmitFails(c) /\ (Advance(c, at[c] + 1) \/ End(c, "error"))
    BY <1>10 DEF Refused
  <2> QED
    BY <1>1, <1>2, <2>1, AdvanceWalks, EndWalks, OutPooled
<1> QED
  BY <1>4, <1>5, <1>6, <1>7, <1>8, <1>9, <1>10

\* The stealth tier, and a cancellation: before a slot is taken there is none
\* to give back, and the one of a stealth crawl goes back after its process.
LEMMA StealthWalks ==
  ASSUME Base, NEW c \in Callers,
         Spawn(c) \/ StealthAnswers(c) \/ StealthBackstop(c) \/ Stop(c) \/ Cancel(c)
  PROVE  Walks(c) /\ Pooled(c)
<1>0. UNCHANGED ask
  BY DEF Spawn, StealthAnswers, StealthBackstop, Stop, Cancel, Outside
<1>1. /\ {"stealth", "stop"} \subseteq Within /\ {"stealth", "stop"} \subseteq Trying
      /\ {"permit"} \subseteq Trying \cap Within
  BY DEF Within, Trying, Places
<1>2. pc[c] \in Trying => /\ at[c] <= Len(Ladder(c))
                          /\ at[c] + 1 \in 1 .. Len(Ladder(c)) + 1
  BY NextIndex DEF Base, LaneInv
<1>3. CASE Spawn(c)
  <2>1. pc[c] = "permit" /\ Goto(c, "stealth") /\ UNCHANGED <<poolVars, free, at, result>>
    BY <1>3 DEF Spawn
  <2> QED
    BY <1>0, <1>1, <1>2, <2>1, GotoWalks, QuietPooled
<1>4. CASE StealthAnswers(c) \/ StealthBackstop(c)
  <2>1. /\ pc[c] \in {"stealth", "stop"} /\ Goto(c, "stop")
        /\ UNCHANGED <<poolVars, free, at, result>>
    BY <1>4 DEF StealthAnswers, StealthBackstop, Stopping
  <2>2. pc[c] \in Within /\ pc[c] \in Trying
    BY <1>1, <2>1
  <2> QED
    BY <1>0, <1>1, <1>2, <2>1, <2>2, GotoWalks, QuietPooled
<1>5. CASE Stop(c)
  <2>1. /\ pc[c] = "stop" /\ UNCHANGED poolVars
        /\ Render(c, page[c]) \/ Advance(c, at[c] + 1) \/ End(c, "cancelled")
    BY <1>5 DEF Stop
  <2>2. pc[c] \in Within /\ pc[c] \in Trying
    BY <1>1, <2>1
  <2> QED
    BY <1>0, <1>2, <2>1, <2>2, RenderWalks, AdvanceWalks, EndWalks, QuietPooled
<1>6. CASE Cancel(c)
  <2>1. CASE /\ pc[c] = "lane" /\ Goto(c, "end") /\ result' = [result EXCEPT ![c] = "cancelled"]
             /\ UNCHANGED <<poolVars, free, at>>
    <3>1. /\ pc'[c] = "end" /\ result'[c] = "cancelled"
          /\ \A d \in Callers \ {c} : pc'[d] = pc[d] /\ result'[d] = result[d]
      BY <2>1 DEF Base, CrawlInv, CrawlShapes, Goto
    <3>2. DOMAIN at' = Callers /\ at'[c] \in 1 .. Len(Ladder(c)) + 1
      BY <2>1 DEF Base, LaneInv
    <3>3. "end" \in Places /\ "end" \notin Trying /\ "end" \notin Within /\ "lane" \notin Within
      BY DEF Places, Trying, Within
    <3>4. Walks(c)
      BY <1>0, <2>1, <3>1, <3>2, <3>3 DEF Walks
    <3> QED
      BY <2>1, <3>4, QuietPooled
  <2>2. CASE /\ pc[c] \in {"stealth", "stop"} /\ Stopping(c, "cancelled")
             /\ UNCHANGED <<poolVars, free, at, result>>
    <3>1. pc[c] \in Within /\ pc[c] \in Trying /\ Goto(c, "stop")
      BY <1>1, <2>2 DEF Stopping
    <3> QED
      BY <1>0, <1>1, <1>2, <2>2, <3>1, GotoWalks, QuietPooled
  <2>3. CASE /\ pc[c] \notin {"lane", "stealth", "stop", "end"}
             /\ GiveUp(c) /\ End(c, "cancelled")
    <3>1. pc[c] \in Within
      BY <2>3 DEF Base, CrawlInv, CrawlShapes, Within
    <3> QED
      BY <1>0, <2>3, <3>1, EndWalks, OutPooled
  <2> QED
    BY <1>6, <2>1, <2>2, <2>3 DEF Cancel
<1> QED
  BY <1>3, <1>4, <1>5, <1>6

\* The loop and the threads of the pool serve those only that wait in it.
LEMMA StillLanes ==
  ASSUME Base, SlotsExact, PoolMoves \/ Done \/ UNCHANGED vars
  PROVE  LaneInv'
<1>1. UNCHANGED <<ask, free, pc, at, result>>
  BY DEF PoolMoves, Done, vars, crawlVars
<1>2. \A d \in Callers : stage'[d] # "out" => stage[d] # "out"
  <2>1. ASSUME NEW c \in Callers, Wake(c) \/ Retry(c) \/ Finish(c)
        PROVE  stage[c] # "out" /\ \A d \in Callers \ {c} : stage'[d] = stage[d]
    BY <2>1 DEF Wake, Retry, try_acquire, Finish, Base, SlotsExact
  <2>2. CASE UNCHANGED stage
    BY <2>2
  <2> QED
    BY <2>1, <2>2 DEF PoolMoves, FinishOrphan, Done, vars, poolVars
<1>3. \A d \in Callers : Ladder(d)' = Ladder(d) /\ Lane(d)' = Lane(d)
  BY <1>1 DEF Ladder, Lane
<1>4. \A l : Riders(l)' = Riders(l)
  BY <1>1 DEF Riders, Lane
<1> QED
  BY <1>1, <1>2, <1>3, <1>4 DEF Base, LaneInv, InPool

\* All slots are free at first and every crawl is at the foot of its ladder.
LEMMA LaneInit == Init => LaneInv
<1> SUFFICES ASSUME Init PROVE LaneInv
  OBVIOUS
<1>1. ask \in Starts /\ free \in [DOMAIN Slots -> Nat] /\ DOMAIN at = Callers
  BY StartsAssumption DEF Init
<1>2. \A l \in DOMAIN Slots : free[l] + Cardinality(Riders(l)) = Slots[l]
  <2>1. \A l : Riders(l) = {}
    BY DEF Init, Riders
  <2>2. \A l \in DOMAIN Slots : Slots[l] \in Nat /\ free[l] = Slots[l]
    BY StartsAssumption DEF Init
  <2> QED
    BY <2>1, <2>2, FS_EmptySet
<1>3. ASSUME NEW c \in Callers
      PROVE  /\ at[c] \in 1 .. Len(Ladder(c)) + 1
             /\ pc[c] \in Trying => at[c] <= Len(Ladder(c))
             /\ InPool(c) => pc[c] \in {"probe", "process"}
             /\ result[c] = "" <=> pc[c] # "end"
  <2>1. Len(Ladder(c)) \in Nat \ {0} /\ at[c] = 1
    BY <1>1, LadderFacts DEF Init
  <2>2. pc[c] = "lane" /\ result[c] = "" /\ stage[c] = "out"
    BY DEF Init, PoolInit
  <2>3. "lane" \notin Trying
    BY DEF Trying, Within
  <2>4. at[c] \in 1 .. Len(Ladder(c)) + 1
    BY <2>1
  <2>5. (pc[c] \in Trying => at[c] <= Len(Ladder(c))) /\ pc[c] # "end"
    BY <2>2, <2>3
  <2> QED
    BY <2>2, <2>4, <2>5 DEF InPool
<1> QED
  BY <1>1, <1>2, <1>3 DEF LaneInv

\* Every step keeps the slots of the lanes and the places on the ladders.
LEMMA LaneStep == CrawlInv /\ PoolInv /\ LaneInv /\ [Next]_vars => LaneInv'
<1> SUFFICES ASSUME CrawlInv, PoolInv, LaneInv, [Next]_vars PROVE LaneInv'
  OBVIOUS
<1>0. Base /\ SlotsExact
  BY DEF Base, PoolInv, Shapes
<1>1. ASSUME NEW c \in Callers,
             \/ Enter(c) \/ ResolveShort(c) \/ Climb(c) \/ TopReached(c) \/ HttpGet(c)
             \/ Recover(c) \/ TierFails(c) \/ ProcessTimeout(c)
      PROVE  LaneInv'
  BY <1>0, <1>1, LadderWalks, WalkKeepsLanes
<1>2. ASSUME NEW c \in Callers,
             \/ Navigate(c) \/ Verdict(c) \/ Click(c) \/ BudgetSpent(c)
             \/ Deliver(c) \/ Processed(c) \/ Refused(c)
      PROVE  LaneInv'
  BY <1>0, <1>2, ProcessingWalks, WalkKeepsLanes
<1>3. ASSUME NEW c \in Callers,
             Spawn(c) \/ StealthAnswers(c) \/ StealthBackstop(c) \/ Stop(c) \/ Cancel(c)
      PROVE  LaneInv'
  BY <1>0, <1>3, StealthWalks, WalkKeepsLanes
<1>4. CASE PoolMoves \/ Done \/ UNCHANGED vars
  BY <1>0, <1>4, StillLanes
<1> QED
  BY <1>1, <1>2, <1>3, <1>4 DEF Next

\* The slots of the lanes are counted exactly: one is held by every crawl that
\* has entered its lane and not ended, whatever ended it (queue.py:84),
\* and no crawl climbs past its ladder or leaves a job of its own in the pool.
THEOREM LanesExact == Spec => []TypeOK
<1>1. CrawlInv /\ PoolInv /\ LaneInv => TypeOK
  <2> SUFFICES ASSUME CrawlInv, PoolInv, LaneInv PROVE TypeOK
    OBVIOUS
  <2>1. PoolTypeOK
    <3>1. Cardinality(running) \in Nat /\ running \subseteq Callers
      BY RunningFinite DEF PoolInv, SlotsExact
    <3> QED
      BY <3>1, PoolAssumption DEF PoolInv, Shapes, SlotsExact, PoolTypeOK
  <2>2. \A l \in DOMAIN Slots :
          free[l] + Cardinality({c \in Callers : Lane(c) = l /\ pc[c] \notin {"lane", "end"}}) = Slots[l]
    BY DEF LaneInv, Riders
  <2>3. ASSUME NEW c \in Callers
        PROVE  /\ pc[c] \in {"lane", "resolve", "ladder", "http", "browser", "probe", "click", "recover",
                             "permit", "stealth", "stop", "captured", "process", "end"}
               /\ at[c] \in 1 .. Len(Ladder(c)) + 1
               /\ InPool(c) => pc[c] \in {"probe", "process"}
    BY DEF LaneInv, CrawlInv, CrawlShapes, Places
  <2>4. \A c \in Callers : (result[c] = "") = (pc[c] # "end")
    <3>1. \A c \in Callers : (result[c] = "") <=> (pc[c] # "end")
      BY DEF LaneInv
    <3> QED
      BY <3>1, Zenon
  <2>5. free \in [DOMAIN Slots -> Nat]
    BY DEF LaneInv
  <2> QED
    BY <2>1, <2>2, <2>3, <2>4, <2>5, Zenon DEF TypeOK
<1>2. Spec => []PoolInv
  BY CrawlUsesPool, PoolInvariant, PTL
<1> QED
  BY <1>1, <1>2, LaneInit, LaneStep, CrawlAlways, PTL DEF Spec

=============================================================================
