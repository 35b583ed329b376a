----------------------------- MODULE LocalGate -----------------------------
(***************************************************************************)
(* Which local rows may answer a search (search_web.py): the candidate     *)
(* window, the job-board penalty, the gates, the per-domain cap and the    *)
(* choice of a serving path.                                               *)
(*                                                                         *)
(* A row is what fn_search_local returns, reduced to what is decided on:   *)
(* url, domain ("" when none can be parsed), whether its coverage and its  *)
(* distinctive coverage reach their thresholds, its similarity in percent  *)
(* (0: NULL), its score, and whether its URL is a job board.               *)
(***************************************************************************)
EXTENDS Arrange, SequencesExt, TLC

CONSTANTS
  GateMinK,      \* SEARCH_GATE_MIN_K
  TopBySim,      \* SEARCH_TOP_BY_SIM
  MinSim,        \* LOCAL_MIN_SIMILARITY, percent
  StrongSim,     \* LOCAL_PARTIAL_MIN_SIMILARITY, percent
  PartialMin,    \* LOCAL_PARTIAL_MIN_PASSING
  MaxPerDomain,  \* SEARCH_MAX_PER_DOMAIN
  Penalty        \* SEARCH_JOB_BOARD_PENALTY, percent

\* 0 stands for a similarity of NULL, which never passes: so the limit is above it
ASSUME GateConstants ==
  /\ GateMinK \in Nat /\ TopBySim \in Nat /\ MaxPerDomain \in Nat \ {0}
  /\ PartialMin \in Nat \ {0} /\ Penalty \in 0 .. 100
  /\ MinSim \in Nat \ {0} /\ StrongSim \in Nat

First(n, rows) == SubSeq(rows, 1, IF n < Len(rows) THEN n ELSE Len(rows))

\* python's sort is stable: rows whose keys are equal keep their order
Order(key) ==
  {ij \in (DOMAIN key) \X (DOMAIN key) :
     LET i == ij[1]
         j == ij[2]
     IN  \/ key[i][1] > key[j][1]
         \/ key[i][1] = key[j][1] /\ key[i][2] > key[j][2]
         \/ key[i] = key[j] /\ i < j}
Sorted(rows, key) ==
  LET places == Arranged(DOMAIN rows, Order(key))
  IN  [n \in DOMAIN rows |-> rows[places[n]]]

Urls(rows) == {rows[i].url : i \in DOMAIN rows}

\* mutant: the window is the top rows by score alone
candidate_head(rows, k) == First(IF GateMinK > k THEN GateMinK ELSE k, rows)

BySim(rows) == [i \in DOMAIN rows |-> <<rows[i].sim, 0>>]
Others(rows, head) ==
  LET Other(r) == r.sim > 0 /\ r.url \notin Urls(head)
  IN  Filter(Sorted(rows, BySim(rows)), Other)

\* the top rows by score (the input order) and the most similar of the others
candidate_rows(rows, k) ==
  LET head == First(IF GateMinK > k THEN GateMinK ELSE k, rows)
  IN  head \o First(TopBySim, Others(rows, head))

Penalised(r) ==
  IF ~ r.board THEN r
  ELSE [r EXCEPT !.sim = (@ * Penalty) \div 100, !.score = (@ * Penalty) \div 100]
job_board_penalty(rows) == [i \in DOMAIN rows |-> Penalised(rows[i])]

\* mutant: distinctive terms are not asked for
passes_without_terms(r) == r.cov /\ r.sim >= MinSim

passes_local_gate(r) == r.cov /\ r.sim >= MinSim /\ r.dist
passes_partial_gate(r) == r.sim >= StrongSim

\* auto mode only; a query that asks for jobs is not penalised
BySimAndScore(rows) == [i \in DOMAIN rows |-> <<rows[i].sim, rows[i].score>>]
gate_local_rows(rows, k, jobs) ==
  LET window  == candidate_rows(rows, k)
      passing == Filter(IF jobs THEN window ELSE job_board_penalty(window),
                        passes_local_gate)
  IN  Sorted(passing, BySimAndScore(passing))

\* mutant: the count of a domain starts anew with every other domain
cap_neighbours(rows) ==
  LET KeepNext(out, r) ==
        IF /\ Len(out) >= MaxPerDomain
           /\ \A i \in Len(out) - MaxPerDomain + 1 .. Len(out) : out[i].dom = r.dom
        THEN out ELSE Append(out, r)
  IN  FoldLeft(KeepNext, <<>>, rows)

Full(out, domain) == Cardinality({i \in DOMAIN out : out[i].dom = domain}) >= MaxPerDomain
Keep(out, r) == IF r.dom # "" /\ Full(out, r.dom) THEN out ELSE Append(out, r)
cap_per_domain(rows) == FoldLeft(Keep, <<>>, rows)

\* the local answer of auto mode, or serve = FALSE: ask the providers
choose_serving(rows, k, jobs) ==
  LET passing == gate_local_rows(rows, k, jobs)
      strong  == Filter(passing, passes_partial_gate)
      full    == Len(passing) >= k
      base    == IF full \/ Len(passing) >= PartialMin THEN passing ELSE strong
      capped  == cap_per_domain(base)
  IN  [serve |-> base # <<>>, rows |-> First(k, capped),
       degraded |-> full /\ Len(capped) < k]

---------------------------------------------------------------------------
(* What the gate promises (docs/ranking.md), stated without its algorithm. *)

\* rows that may be served, with the similarity the gate sees
Worth(rows, jobs) ==
  {r \in {IF jobs THEN rows[i] ELSE job_board_penalty(rows)[i] : i \in DOMAIN rows} :
     r.cov /\ r.dist /\ r.sim >= MinSim}
SameDomain(S, r) == {q \in S : q.dom = r.dom /\ q.dom # ""}

\* An auto answer from the index holds only worthy rows, at most MaxPerDomain
\* of a domain, the most similar first; a row is left out only when its domain
\* is full of rows at least as similar, when k are served, or when the answer
\* is restricted to strong rows because too few pass.  The providers are asked
\* only when fewer than k and fewer than PartialMin rows are worthy and none
\* is strong.  (For windows that reach every row: Len(rows) <= GateMinK + TopBySim.)
AnswerSound(worth, k, out) ==
  LET served == {out.rows[i] : i \in DOMAIN out.rows}
      enough == Cardinality(worth) >= k \/ Cardinality(worth) >= PartialMin
      base   == IF enough THEN worth ELSE {r \in worth : r.sim >= StrongSim}
  IN  /\ out.serve <=> base # {}
      /\ out.serve =>
           /\ served \subseteq base /\ Len(out.rows) = Cardinality(served)
           /\ \A i, j \in DOMAIN out.rows : i < j => out.rows[i].sim >= out.rows[j].sim
           /\ \A r \in served : Cardinality(SameDomain(served, r)) <= MaxPerDomain
           /\ \A r \in base \ served :
                \/ Cardinality({q \in SameDomain(served, r) : q.sim >= r.sim}) = MaxPerDomain
                \/ Len(out.rows) = k /\ \A q \in served : q.sim >= r.sim
           /\ out.degraded <=> Cardinality(worth) >= k /\ Len(out.rows) < k

GateSound(rows, k, jobs) ==
  AnswerSound(Worth(rows, jobs), k, choose_serving(rows, k, jobs))

=============================================================================
