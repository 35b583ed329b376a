----------------------------- MODULE MCService -----------------------------
(***************************************************************************)
(* Instances of Service for TLC.                                           *)
(***************************************************************************)
EXTENDS Service, TLC

\* Budgets and texts of every shape are tried before the process boots.
Lists(set, n) == UNION {[1 .. k -> set] : k \in 1 .. n}
Budgets ==
  UNION {[strategy : STRATEGIES, lens : [1 .. k -> {0, 1, 3, 7}], fetches : [1 .. k -> {0, 1, 4}],
          budget : {0, 1, 2, 5, 12}, per_page : {0, 2}] : k \in 1 .. 2}
Letters == {"w", "<", ">"} \cup Blank
NoBudget == [strategy |-> "even", lens |-> <<>>, fetches |-> <<>>, budget |-> 0, per_page |-> 0]

VARIABLE sample
NoSample == [budget |-> NoBudget, text |-> <<>>, chars |-> 0]
Samples  ==
  [budget : Budgets, text : {<<>>}, chars : {0}]
  \cup UNION {[budget : {NoBudget}, text : [1 .. k -> Letters], chars : 0 .. k] : k \in 1 .. 5}

MCInit == Init /\ sample \in Samples \cup {NoSample}
Tried  == sample # NoSample /\ sample' = NoSample /\ UNCHANGED vars
MCNext == Tried \/ (sample = NoSample /\ Next /\ UNCHANGED sample)
MCSpec == MCInit /\ [][MCNext]_<<vars, sample>> /\ Fairness /\ WF_<<vars, sample>>(Tried)

\* The budget of a bulk fetch is kept, and its cuts are clean: see
\* AllocationSound and HeadCutSound.
TruncationSound ==
  /\ sample.budget # NoBudget =>
       AllocationSound(sample.budget.strategy, sample.budget.lens, sample.budget.fetches,
                       sample.budget.budget, sample.budget.per_page)
  /\ sample.text # <<>> => HeadCutSound(sample.text, sample.chars)

\* What truncation.py:41 says of the strategy that keeps the end of a page:
\* "Keep the last n chars, advanced to a safe boundary."
TailWithinBudget ==
  sample.text # <<>> => Len(truncate_page(sample.text, sample.chars, "tail")) <= sample.chars

=============================================================================
