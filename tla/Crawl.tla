------------------------------- MODULE Crawl -------------------------------
(***************************************************************************)
(* Crawls walking their tier ladders (crawl/engine.py, crawl/tiers/*.py):  *)
(* each holds a slot of its lane, climbs from tier to tier until an        *)
(* extractor accepts a page, shares the processing pool with the others,   *)
(* and may be cancelled or run into one of its deadlines at any await.     *)
(* What a site answers, how long it takes and what an extractor makes of   *)
(* it are the environment's choice.  Browser contexts: see BrowserPool.    *)
(***************************************************************************)
EXTENDS ProcessingPool, HttpDownload, Botwall, TLC

CONSTANTS
  Starts,      \* what may be asked for: functions from Callers to [lane, url]
  Settings,    \* the possible sets of tiers that are registered and switched on
  Slots,       \* lane -> CRAWL_MAX_PARALLEL, CRAWL_CHALLENGE_PARALLEL
  StealthMax,  \* CRAWL_STEALTH_MAX_PARALLEL
  Pages,       \* what a site may serve: [status, mime, doc, size, shell]
  MaxFaults    \* bound: cancellations and refused jobs

ASSUME StealthAssumption == StealthMax \in Nat \ {0}
ASSUME SettingsAssumption == Settings \subseteq SUBSET {"http", "browser", "stealth"}

VARIABLES
  ask,         \* the request of each crawl: [lane, url]
  enabled,     \* the tiers by_name finds
  free,        \* lane -> slots left in its semaphore
  pc,          \* where each crawl is
  at,          \* its index into the ladder
  page,        \* the page it would hand to the engine
  shown,       \* what its browser shows
  best,        \* does it hold a fit that its gate refused?
  then,        \* what follows the cleanup of its stealth worker
  permits,     \* permits left in the stealth semaphore
  procs,       \* crawls whose stealth worker and browsers are alive
  result,      \* how it ended
  faults

crawlVars == <<ask, enabled, free, pc, at, page, shown, best, then, permits, procs, result, faults>>
vars == <<poolVars, crawlVars>>

NoPage == [status |-> 0, mime |-> "", doc |-> <<>>, size |-> 0, shell |-> FALSE]

-----------------------------------------------------------------------------
(***************************************************************************)
(* The plan of a crawl                                                     *)
(***************************************************************************)
\* match: one site for every ladder the table has
POLICY == [nytimes |-> <<"http", "browser", "stealth">>,
           walmart |-> <<"http", "browser", "stealth">>,
           reddit  |-> <<"browser", "stealth">>,
           brave   |-> <<"browser">>,
           default |-> <<"http", "browser">>]

ASSUME StartsAssumption ==
  /\ Slots \in [DOMAIN Slots -> Nat]
  /\ \A start \in Starts, c \in Callers :
       start[c].lane \in DOMAIN Slots /\ start[c].url.site \in DOMAIN POLICY

\* sites whose extractor reads one kind of page only
ItemSites == {"walmart", "reddit"}

\* _crawl_plan: any other page of such a site is crawled like an unknown site
crawl_plan(url) == IF url.site \in ItemSites /\ ~url.item THEN "default" ELSE url.site

Ladder(c)  == POLICY[crawl_plan(ask[c].url)]
Lane(c)    == ask[c].lane

\* the tier an extractor may ask for
Escalations(c) ==
  CASE crawl_plan(ask[c].url) = "nytimes"             -> {"stealth"}
    [] crawl_plan(ask[c].url) \in {"default", "reddit"} -> {"browser"}
    [] OTHER                                          -> {}

\* _next_index_after_escalation: never back
next_index(c, tier) ==
  IF \E i \in DOMAIN Ladder(c) : i > at[c] /\ Ladder(c)[i] = tier
  THEN CHOOSE i \in DOMAIN Ladder(c) : Ladder(c)[i] = tier
  ELSE at[c] + 1

\* resolve_short_url: HEAD may be refused, so GET decides unless HEAD named a
\* page off the shortener; no name at all fails the crawl
resolve_headers(head, get) ==
  IF head = "named" THEN "named" ELSE IF get = "named" THEN "named" ELSE "none"

Oversized(pg) == pg.size > MaxBytes
is_wall(pg)   == is_botwall(pg.status, pg.mime = "html", pg.doc)
PermanentErrors == {400, 404, 405, 410, 451}

-----------------------------------------------------------------------------
(***************************************************************************)
(* Steps several handlers share                                            *)
(***************************************************************************)
Init ==
  /\ PoolInit
  /\ ask \in Starts
  /\ enabled \in Settings
  /\ free = Slots
  /\ pc = [c \in Callers |-> "lane"]
  /\ at = [c \in Callers |-> 1]
  /\ page = [c \in Callers |-> NoPage]
  /\ shown = [c \in Callers |-> NoPage]
  /\ best = [c \in Callers |-> FALSE]
  /\ then = [c \in Callers |-> ""]
  /\ permits = StealthMax
  /\ procs = {}
  /\ result = [c \in Callers |-> ""]
  /\ faults = 0

Goto(c, where) == pc' = [pc EXCEPT ![c] = where]

\* the next tier of the loop in crawl
Advance(c, i) ==
  /\ Goto(c, "ladder")
  /\ at' = [at EXCEPT ![c] = i]
  /\ page' = [page EXCEPT ![c] = NoPage]
  /\ shown' = [shown EXCEPT ![c] = NoPage]
  /\ UNCHANGED <<free, result, best>>

\* crawl returns or raises: the slot of the lane goes back
End(c, how) ==
  /\ Goto(c, "end")
  /\ result' = [result EXCEPT ![c] = how]
  /\ free' = [free EXCEPT ![Lane(c)] = @ + 1]
  /\ page' = [page EXCEPT ![c] = IF how = "ok" THEN @ ELSE NoPage]
  /\ shown' = [shown EXCEPT ![c] = NoPage]
  /\ UNCHANGED <<at, best>>

Partial(c) == IF best[c] THEN "partial" ELSE "empty"

\* a tier hands its page to the engine
Render(c, pg) ==
  /\ Goto(c, "captured")
  /\ page' = [page EXCEPT ![c] = pg]
  /\ shown' = [shown EXCEPT ![c] = NoPage]
  /\ UNCHANGED <<free, result, at, best>>

InPool(c) == stage[c] # "out"

\* mutant: the future of a crawl that is gone stays behind
give_up_nothing(c) == UNCHANGED poolVars

GiveUp(c) == IF InPool(c) THEN Leave(c) ELSE UNCHANGED poolVars

NotStealth == UNCHANGED <<then, permits, procs>>
Outside    == UNCHANGED <<ask, enabled, faults>>

-----------------------------------------------------------------------------
(***************************************************************************)
(* The loop of the engine                                                  *)
(***************************************************************************)
\* crawl_deduped: one slot of the lane for the whole crawl
Enter(c) ==
  /\ pc[c] = "lane"
  /\ free[Lane(c)] > 0
  /\ free' = [free EXCEPT ![Lane(c)] = @ - 1]
  /\ Goto(c, IF ask[c].url.short THEN "resolve" ELSE "ladder")
  /\ NotStealth /\ Outside
  /\ UNCHANGED <<poolVars, at, page, shown, best, result>>

ResolveShort(c) ==
  /\ pc[c] = "resolve"
  /\ \E head, get \in {"named", "shortener", "refused"} :
       \/ /\ resolve_headers(head, get) = "named"
          /\ Goto(c, "ladder")
          /\ UNCHANGED <<free, result, at, page, shown, best>>
       \/ resolve_headers(head, get) # "named" /\ End(c, "error")
  /\ NotStealth /\ Outside
  /\ UNCHANGED poolVars

\* a tier that is switched off is passed over; else its fetch starts
Climb(c) ==
  /\ pc[c] = "ladder"
  /\ at[c] <= Len(Ladder(c))
  /\ LET tier == Ladder(c)[at[c]] IN
       \/ tier \notin enabled /\ Advance(c, at[c] + 1)
       \/ /\ tier \in enabled
          /\ Goto(c, IF tier = "stealth" THEN "permit" ELSE tier)
          /\ UNCHANGED <<free, result, at, page, shown, best>>
  /\ NotStealth /\ Outside
  /\ UNCHANGED poolVars

\* every tier has been tried
TopReached(c) ==
  /\ pc[c] = "ladder"
  /\ at[c] > Len(Ladder(c))
  /\ End(c, Partial(c))
  /\ NotStealth /\ Outside
  /\ UNCHANGED poolVars

\* crawl, after the fetch: check_html_size, then run_processing
Deliver(c) ==
  /\ pc[c] = "captured"
  /\ \/ Oversized(page[c]) /\ End(c, Partial(c)) /\ UNCHANGED poolVars
     \/ /\ ~Oversized(page[c])
        /\ Ask(c)
        /\ Goto(c, "process")
        /\ UNCHANGED <<free, result, at, page, shown, best>>
  /\ NotStealth /\ Outside

\* mutant: the engine trusts the browser tier, which has looked at the page
ProcessedUnscanned(c) ==
  /\ pc[c] = "process"
  /\ Return(c)
  /\ \/ is_wall(page[c]) /\ Ladder(c)[at[c]] # "browser" /\ Advance(c, at[c] + 1)
     \/ End(c, "ok")
  /\ NotStealth /\ Outside

\* _process_rendered: a wall, an escalation, an extractor that breaks, or a
\* fit that the gate accepts or not
Processed(c) ==
  /\ pc[c] = "process"
  /\ Return(c)
  /\ \/ is_wall(page[c]) /\ Advance(c, at[c] + 1)
     \/ /\ ~is_wall(page[c])
        /\ \/ \E tier \in Escalations(c) : Advance(c, next_index(c, tier))
           \/ End(c, "error")
           \/ End(c, "ok")
           \/ /\ Goto(c, "ladder")
              /\ at' = [at EXCEPT ![c] = @ + 1]
              /\ best' = [best EXCEPT ![c] = TRUE]
              /\ page' = [page EXCEPT ![c] = NoPage]
              /\ UNCHANGED <<free, result, shown>>
  /\ NotStealth /\ Outside

\* mutant: the deadline covers the job but not the wait for a thread
ProcessTimeoutRunning(c) ==
  /\ pc[c] = "process"
  /\ stage[c] \in {"running", "done"}
  /\ Leave(c)
  /\ Advance(c, at[c] + 1)
  /\ NotStealth /\ Outside

\* the deadline of run_processing covers admission and job
ProcessTimeout(c) ==
  /\ pc[c] = "process"
  /\ Leave(c)
  /\ Advance(c, at[c] + 1)
  /\ NotStealth /\ Outside

-----------------------------------------------------------------------------
(***************************************************************************)
(* The http and the browser tier                                           *)
(***************************************************************************)
\* HttpTier.fetch; any page may lie behind a redirect that libcurl finds too long
HttpGet(c) ==
  /\ pc[c] = "http"
  /\ \E pg \in Pages, end \in {"done", "filesize"} :
       LET hop  == [status |-> pg.status, mime |-> IF pg.mime = "html" THEN "text" ELSE pg.mime,
                    length |-> 0, loc |-> FALSE, chunks |-> <<pg.size>>]
           what == FetchOutcome(HopEvents(hop), end)
       IN  \/ what = "rendered" /\ Render(c, pg)
           \/ what = "rejected" /\ End(c, Partial(c))
  /\ NotStealth /\ Outside
  /\ UNCHANGED poolVars

\* BrowserTier._crawl up to the first _botwall
Navigate(c) ==
  /\ pc[c] = "browser"
  /\ \E pg \in Pages :
       \/ pg.status \in PermanentErrors /\ Advance(c, at[c] + 1) /\ UNCHANGED poolVars
       \/ pg.status \notin PermanentErrors /\ Oversized(pg) /\ End(c, Partial(c)) /\ UNCHANGED poolVars
       \/ /\ pg.status \notin PermanentErrors /\ ~Oversized(pg)
          /\ Ask(c)
          /\ Goto(c, "probe")
          /\ page' = [page EXCEPT ![c] = pg]
          /\ shown' = [shown EXCEPT ![c] = pg]
          /\ UNCHANGED <<free, result, at, best>>
  /\ NotStealth /\ Outside

\* _is_walmart_item_404
Gone(c, pg) == ask[c].url.site = "walmart" /\ ask[c].url.item /\ pg.shell

\* an item page that is gone is looked for by search
Settle(c, pg) ==
  IF Gone(c, pg)
  THEN /\ Goto(c, "recover")
       /\ page' = [page EXCEPT ![c] = pg]
       /\ shown' = [shown EXCEPT ![c] = NoPage]
       /\ UNCHANGED <<free, result, at, best>>
  ELSE Render(c, pg)

\* the page of the challenge loop keeps the status and type of the first answer
Reread(c) == [shown[c] EXCEPT !.status = page[c].status, !.mime = page[c].mime]

\* the verdict on what the browser shows: a wall sends the fast lane away and
\* makes the CF lane click
Verdict(c) ==
  /\ pc[c] = "probe"
  /\ Return(c)
  /\ \/ ~is_wall(Reread(c)) /\ Settle(c, Reread(c))
     \/ is_wall(Reread(c)) /\ Lane(c) = "fast" /\ End(c, "challenge")
     \/ /\ is_wall(Reread(c)) /\ Lane(c) = "cf"
        /\ Goto(c, "click")
        /\ UNCHANGED <<free, result, at, page, shown, best>>
  /\ NotStealth /\ Outside

\* one round of _click_until_clean
Click(c) ==
  /\ pc[c] = "click"
  /\ \E pg \in Pages :
       \/ Oversized(pg) /\ End(c, Partial(c)) /\ UNCHANGED poolVars
       \/ /\ ~Oversized(pg)
          /\ Ask(c)
          /\ Goto(c, "probe")
          /\ shown' = [shown EXCEPT ![c] = pg]
          /\ UNCHANGED <<free, result, at, best, page>>
  /\ NotStealth /\ Outside

\* the challenge budget is spent: the first page is what remains
BudgetSpent(c) ==
  /\ pc[c] \in {"probe", "click"}
  /\ Lane(c) = "cf"
  /\ GiveUp(c)
  /\ Settle(c, page[c])
  /\ NotStealth /\ Outside

\* _walmart_recover_item_url: no better item, or another page, unchecked
Recover(c) ==
  /\ pc[c] = "recover"
  /\ \/ Render(c, page[c])
     \/ \E pg \in Pages :
          \/ Oversized(pg) /\ End(c, Partial(c))
          \/ ~Oversized(pg) /\ Render(c, [pg EXCEPT !.mime = page[c].mime])
  /\ NotStealth /\ Outside
  /\ UNCHANGED poolVars

\* a tier raises, or its backstop cancels it
TierFails(c) ==
  /\ pc[c] \in {"http", "browser", "probe", "click", "recover", "permit"}
  /\ GiveUp(c)
  /\ Advance(c, at[c] + 1)
  /\ NotStealth /\ Outside

-----------------------------------------------------------------------------
(***************************************************************************)
(* The stealth tier: a process of its own, killed before its permit goes   *)
(***************************************************************************)
Spawn(c) ==
  /\ pc[c] = "permit"
  /\ permits > 0
  /\ permits' = permits - 1
  /\ procs' = procs \cup {c}
  /\ Goto(c, "stealth")
  /\ Outside
  /\ UNCHANGED <<poolVars, free, at, page, shown, best, then, result>>

Stopping(c, next) == Goto(c, "stop") /\ then' = [then EXCEPT ![c] = next]

\* the worker sends its page, or fails in any way, an oversized page included
StealthAnswers(c) ==
  /\ pc[c] = "stealth"
  /\ \/ \E pg \in Pages :
          ~Oversized(pg) /\ Stopping(c, "render") /\ page' = [page EXCEPT ![c] = pg]
     \/ Stopping(c, "next") /\ UNCHANGED page
  /\ Outside
  /\ UNCHANGED <<poolVars, free, at, shown, best, permits, procs, result>>

\* the backstop, while the worker runs or while it is being stopped
StealthBackstop(c) ==
  /\ pc[c] = "stealth" \/ (pc[c] = "stop" /\ then[c] = "render")
  /\ Stopping(c, "next")
  /\ Outside
  /\ UNCHANGED <<poolVars, free, at, page, shown, best, permits, procs, result>>

\* _stop_worker has killed and joined the process; the permit goes back
Stop(c) ==
  /\ pc[c] = "stop"
  /\ procs' = procs \ {c}
  /\ permits' = permits + 1
  /\ then' = [then EXCEPT ![c] = ""]
  /\ \/ then[c] = "render" /\ Render(c, page[c])
     \/ then[c] = "next" /\ Advance(c, at[c] + 1)
     \/ then[c] = "cancelled" /\ End(c, "cancelled")
  /\ Outside
  /\ UNCHANGED poolVars

-----------------------------------------------------------------------------
(***************************************************************************)
(* Faults                                                                  *)
(***************************************************************************)
\* mutant: the permit goes back at once, the process dies later or never
CancelAbandons(c) ==
  /\ faults < MaxFaults
  /\ faults' = faults + 1
  /\ pc[c] \notin {"end", "lane"}
  /\ GiveUp(c)
  /\ End(c, "cancelled")
  /\ permits' = permits + (IF c \in procs THEN 1 ELSE 0)
  /\ UNCHANGED <<then, procs, ask, enabled>>

\* The client, the tick or the process gives up on a crawl.  The worker of
\* the stealth tier is stopped first; its permit is returned after that.
Cancel(c) ==
  /\ faults < MaxFaults
  /\ faults' = faults + 1
  /\ \/ /\ pc[c] = "lane"
        /\ Goto(c, "end")
        /\ result' = [result EXCEPT ![c] = "cancelled"]
        /\ UNCHANGED <<poolVars, free, at, page, shown, best, then>>
     \/ /\ pc[c] \in {"stealth", "stop"}
        /\ Stopping(c, "cancelled")
        /\ UNCHANGED <<poolVars, free, at, page, shown, best, result>>
     \/ /\ pc[c] \notin {"lane", "stealth", "stop", "end"}
        /\ GiveUp(c)
        /\ End(c, "cancelled")
        /\ UNCHANGED then
  /\ UNCHANGED <<permits, procs, ask, enabled>>

\* the executor takes no job: an error of the tier, or of the whole crawl
Refused(c) ==
  /\ faults < MaxFaults
  /\ faults' = faults + 1
  /\ SubmitFails(c)
  /\ \/ pc[c] = "probe" /\ Advance(c, at[c] + 1)
     \/ pc[c] \in {"captured", "process"} /\ End(c, "error")
  /\ NotStealth
  /\ UNCHANGED <<ask, enabled>>

-----------------------------------------------------------------------------
PoolMoves ==
  /\ \/ \E c \in Callers : Wake(c) \/ Retry(c) \/ Finish(c)
     \/ FinishOrphan
  /\ UNCHANGED crawlVars

Done == (\A c \in Callers : pc[c] = "end") /\ orphans = 0 /\ UNCHANGED vars

Next ==
  \/ \E c \in Callers :
       \/ Enter(c) \/ ResolveShort(c) \/ Climb(c) \/ TopReached(c)
       \/ HttpGet(c) \/ Navigate(c) \/ Verdict(c) \/ Click(c) \/ BudgetSpent(c)
       \/ Recover(c) \/ TierFails(c)
       \/ Spawn(c) \/ StealthAnswers(c) \/ StealthBackstop(c) \/ Stop(c)
       \/ Deliver(c) \/ Processed(c) \/ ProcessTimeout(c)
       \/ Cancel(c) \/ Refused(c)
  \/ PoolMoves
  \/ Done

\* Deadlines fire, loops turn, workers that are killed die, and a semaphore
\* serves its waiters in order.  No site needs to answer, no thread to end.
Fairness ==
  \A c \in Callers :
    /\ SF_vars(Enter(c))
    /\ WF_vars(ResolveShort(c))
    /\ WF_vars(Climb(c) \/ TopReached(c))
    /\ WF_vars(TierFails(c))
    /\ WF_vars(StealthBackstop(c))
    /\ WF_vars(Stop(c))
    /\ WF_vars(Deliver(c))
    /\ WF_vars(ProcessTimeout(c))

Spec == Init /\ [][Next]_vars /\ Fairness

-----------------------------------------------------------------------------
TypeOK ==
  /\ PoolTypeOK
  /\ free \in [DOMAIN Slots -> Nat]
  /\ \A c \in Callers :
       /\ pc[c] \in {"lane", "resolve", "ladder", "http", "browser", "probe", "click", "recover",
                     "permit", "stealth", "stop", "captured", "process", "end"}
       /\ at[c] \in 1 .. Len(Ladder(c)) + 1
       /\ InPool(c) => pc[c] \in {"probe", "process"}
       /\ (result[c] = "") = (pc[c] # "end")
  /\ \A l \in DOMAIN Slots :
       free[l] + Cardinality({c \in Callers : Lane(c) = l /\ pc[c] \notin {"lane", "end"}}) = Slots[l]

(***************************************************************************)
(* What is stored as a success is never a wall or an oversized document,   *)
(* although the page may change after the tier has looked at it: a         *)
(* recovered item page, and a challenge that outlived its budget, reach    *)
(* the engine unchecked.                                                   *)
(***************************************************************************)
AcceptedIsClean ==
  \A c \in Callers : result[c] = "ok" => ~is_wall(page[c]) /\ ~Oversized(page[c])

(***************************************************************************)
(* A stealth worker never outlives its permit: whatever cancels the crawl, *)
(* and whenever, the process is gone before the permit serves another one, *)
(* so no more than CRAWL_STEALTH_MAX_PARALLEL browsers of it exist.        *)
(***************************************************************************)
StealthOwned ==
  /\ procs = {c \in Callers : pc[c] \in {"stealth", "stop"}}
  /\ permits + Cardinality(procs) = StealthMax

(***************************************************************************)
(* Every crawl ends, with sites that never answer and threads that never   *)
(* come back, through both lanes and behind whoever holds their slots.     *)
(***************************************************************************)
CrawlEnds == \A c \in Callers : <>(pc[c] = "end")

(***************************************************************************)
(* "Click the turnstile checkbox until the wall clears": once the browser  *)
(* shows a page that is no wall, the CF lane does not click again.         *)
(***************************************************************************)
ClickUntilClear ==
  [][\A c \in Callers : pc[c] = "probe" /\ pc'[c] = "click" => is_wall(shown[c])]_vars

=============================================================================
