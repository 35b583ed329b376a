----------------------------- MODULE JobQueue -----------------------------
(***************************************************************************)
(* What the crawl queue promises, one job per URL: a job is queued, leased *)
(* to a worker and given back until its content has been fetched or its    *)
(* retry budget is spent.  A queued job is never dropped, a finished job   *)
(* never comes back to life, and nothing finishes without a lease.         *)
(***************************************************************************)
EXTENDS Naturals

CONSTANTS Urls, Budget

VARIABLES
  state,  \* none, pending, in_flight (leased), done or failed
  tries,  \* leases that count against the budget
  have    \* has the content been fetched since the job was queued?

vars == <<state, tries, have>>

Init ==
  /\ state = [u \in Urls |-> "none"]
  /\ tries = [u \in Urls |-> 0]
  /\ have = [u \in Urls |-> FALSE]

Submit(u) ==
  /\ state[u] \in {"none", "done", "failed"}
  /\ state' = [state EXCEPT ![u] = "pending"]
  /\ tries' = [tries EXCEPT ![u] = 0]
  /\ have' = [have EXCEPT ![u] = FALSE]

Lease(u) ==
  /\ state[u] = "pending"
  /\ state' = [state EXCEPT ![u] = "in_flight"]
  /\ tries' = [tries EXCEPT ![u] = @ + 1]
  /\ UNCHANGED have

\* the leases of S end undecided: a retry, a cancellation, a restart
Return(S) ==
  /\ \A u \in S : state[u] = "in_flight"
  /\ state' = [u \in Urls |-> IF u \in S THEN "pending" ELSE state[u]]
  /\ \E uncounted \in SUBSET S :
       tries' = [u \in Urls |-> IF u \in uncounted THEN tries[u] - 1 ELSE tries[u]]
  /\ UNCHANGED have

\* the job starts over on the challenge lane
Reroute(u) ==
  /\ state[u] \in {"pending", "in_flight"}
  /\ state' = [state EXCEPT ![u] = "pending"]
  /\ tries' = [tries EXCEPT ![u] = 0]
  /\ UNCHANGED have

Fetch(u) ==
  /\ have' = [have EXCEPT ![u] = TRUE]
  /\ UNCHANGED <<state, tries>>

Complete(u) ==
  /\ state[u] = "in_flight" /\ have[u]
  /\ state' = [state EXCEPT ![u] = "done"]
  /\ UNCHANGED <<tries, have>>

GiveUp(u) ==
  /\ state[u] = "in_flight" /\ tries[u] >= Budget
  /\ state' = [state EXCEPT ![u] = "failed"]
  /\ UNCHANGED <<tries, have>>

Next ==
  \/ \E u \in Urls : \/ Submit(u) \/ Lease(u) \/ Reroute(u)
                     \/ Fetch(u) \/ Complete(u) \/ GiveUp(u)
  \/ \E S \in SUBSET Urls : Return(S)

Spec == Init /\ [][Next]_vars

=============================================================================
