--------------------------- MODULE ProcessingPool ---------------------------
(***************************************************************************)
(* The pool of threads that scans and extracts HTML (crawl/engine.py): one *)
(* slot per thread, taken under a lock before a job is submitted and given *)
(* back when the thread really ends.  A caller that gives up leaves its    *)
(* thread running; a caller that finds no slot registers a future that     *)
(* every release wakes, and tries again when it runs.                      *)
(***************************************************************************)
EXTENDS Integers, FiniteSets

CONSTANTS
  Callers,     \* the coroutines that may call run_processing
  Workers      \* CRAWL_EXTRACT_MAX_PARALLEL

ASSUME PoolAssumption == IsFiniteSet(Callers) /\ Workers \in Nat \ {0}

VARIABLES
  active,      \* _active, the slots taken
  stage,       \* where each caller is
  wakes,       \* the callers whose future has a wake-up on its way
  running,     \* the callers whose job a thread is running
  orphans      \* how many threads run a job whose caller has left

poolVars == <<active, stage, wakes, running, orphans>>

\* out; registered in _waiters with a pending or a settled future; waiting
\* for its thread; and its result is there
Stages == {"out", "waiting", "woken", "running", "done"}
Sleeping == {c \in Callers : stage[c] = "waiting"}

PoolInit ==
  /\ active = 0
  /\ stage = [c \in Callers |-> "out"]
  /\ wakes = {}
  /\ running = {}
  /\ orphans = 0

\* _try_acquire and submit: a slot and a thread, or a fresh future
try_acquire(c) ==
  /\ wakes' = wakes \ {c}
  /\ UNCHANGED orphans
  /\ \/ /\ active < Workers
        /\ active' = active + 1
        /\ running' = running \cup {c}
        /\ stage' = [stage EXCEPT ![c] = "running"]
     \/ /\ active >= Workers
        /\ stage' = [stage EXCEPT ![c] = "waiting"]
        /\ UNCHANGED <<active, running>>

Ask(c) == stage[c] = "out" /\ try_acquire(c)

\* the executor refuses the job: the slot that was taken goes back
SubmitFails(c) ==
  /\ stage[c] \in {"out", "woken"}
  /\ active < Workers
  /\ stage' = [stage EXCEPT ![c] = "out"]
  /\ wakes' = wakes \cup Sleeping
  /\ UNCHANGED <<active, running, orphans>>

\* the loop runs _wake_processing_waiter, then the coroutine tries again
Wake(c) ==
  /\ stage[c] = "waiting"
  /\ c \in wakes
  /\ stage' = [stage EXCEPT ![c] = "woken"]
  /\ wakes' = wakes \ {c}
  /\ UNCHANGED <<active, running, orphans>>

Retry(c) == stage[c] = "woken" /\ try_acquire(c)

\* mutant: one waiter is told that a slot is free
release_one ==
  /\ active' = active - 1
  /\ IF Sleeping = {} THEN UNCHANGED wakes
                      ELSE \E w \in Sleeping : wakes' = wakes \cup {w}

\* _release: every sleeping future is woken
release ==
  /\ active' = active - 1
  /\ wakes' = wakes \cup Sleeping

\* _finished: the thread of a caller that still waits, or of one that left
Finish(c) ==
  /\ c \in running
  /\ release
  /\ running' = running \ {c}
  /\ stage' = [stage EXCEPT ![c] = "done"]
  /\ UNCHANGED orphans

FinishOrphan ==
  /\ orphans > 0
  /\ release
  /\ orphans' = orphans - 1
  /\ UNCHANGED <<stage, running>>

\* the caller takes its result
Return(c) ==
  /\ stage[c] = "done"
  /\ stage' = [stage EXCEPT ![c] = "out"]
  /\ UNCHANGED <<active, wakes, running, orphans>>

\* mutant: the slot is given back with the caller, whose thread goes on
LeaveWithSlot(c) ==
  /\ stage[c] # "out"
  /\ stage' = [stage EXCEPT ![c] = "out"]
  /\ running' = running \ {c}
  /\ orphans' = orphans + (IF c \in running THEN 1 ELSE 0)
  /\ active' = active - (IF c \in running THEN 1 ELSE 0)
  /\ wakes' = (wakes \ {c}) \cup (IF c \in running THEN Sleeping ELSE {})

\* A deadline or a cancellation reaches the caller.  Its future is forgotten,
\* its thread runs on and keeps the slot.
Leave(c) ==
  /\ stage[c] # "out"
  /\ stage' = [stage EXCEPT ![c] = "out"]
  /\ wakes' = wakes \ {c}
  /\ running' = running \ {c}
  /\ orphans' = orphans + (IF c \in running THEN 1 ELSE 0)
  /\ UNCHANGED active

PoolNext ==
  \/ \E c \in Callers :
       Ask(c) \/ SubmitFails(c) \/ Wake(c) \/ Retry(c) \/ Finish(c) \/ Return(c) \/ Leave(c)
  \/ FinishOrphan

PoolSpec == PoolInit /\ [][PoolNext]_poolVars

PoolTypeOK ==
  /\ active \in 0 .. Workers
  /\ stage \in [Callers -> Stages]
  /\ wakes \subseteq Callers
  /\ running \subseteq Callers
  /\ orphans \in 0 .. Workers

(***************************************************************************)
(* A slot is taken exactly as long as a thread runs, whoever has given up  *)
(* in the meantime, so that a job never queues behind another one inside   *)
(* the executor.                                                           *)
(***************************************************************************)
SlotsExact ==
  /\ running = {c \in Callers : stage[c] = "running"}
  /\ active = Cardinality(running) + orphans
  /\ active <= Workers

(***************************************************************************)
(* While a slot is free nobody sleeps on a future that nothing will settle:*)
(* the wake-up of a caller that gave up, or that another caller overtook,  *)
(* is never the only one.                                                  *)
(***************************************************************************)
NoLostWake ==
  active < Workers => \A c \in Callers : stage[c] = "waiting" => c \in wakes

=============================================================================
