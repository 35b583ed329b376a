---------------------------- MODULE MCSearchWeb ----------------------------
(***************************************************************************)
(* Instances of SearchWeb for TLC.                                         *)
(***************************************************************************)
EXTENDS SearchWeb

CONSTANTS p1, p2

Chain   == <<p1, p2>>
Quotas  == p1 :> 1 @@ p2 :> 0

\* the kinds of rows the gate tells apart
Kind(dom, sim, cov, dist, board) ==
  [dom |-> dom, sim |-> sim, cov |-> cov, dist |-> dist, board |-> board]
Domains == {"a", "b", ""}
Plain   == {Kind(ds[1], ds[2], TRUE, TRUE, FALSE) : ds \in Domains \X {40, 60}}
Special == {Kind("a", 60, TRUE, TRUE, TRUE), Kind("b", 80, TRUE, TRUE, TRUE),
            Kind("a", 60, TRUE, FALSE, FALSE), Kind("b", 60, FALSE, TRUE, FALSE),
            Kind("b", 0, TRUE, TRUE, FALSE), Kind("a", 20, TRUE, TRUE, FALSE)}
Kinds   == Plain \cup Special

\* rows as the index returns them: by descending score
Rows(kinds) ==
  [i \in DOMAIN kinds |->
     [url |-> i, dom |-> kinds[i].dom, sim |-> kinds[i].sim, cov |-> kinds[i].cov,
      dist |-> kinds[i].dist, board |-> kinds[i].board, score |-> 100 - i]]
RowLists == {Rows(kinds) : kinds \in SeqOf(Kinds, 3)}

\* a row that serves a query for jobs only
FewIndexes == {Rows(<<Kind("b", 50, TRUE, TRUE, TRUE)>>)}

\* One decision of the gate, on any short list of rows, comes before the
\* concurrent part starts: the gate has no state of its own.
VARIABLE query
NoQuery == [rows |-> <<>>, k |-> 0, jobs |-> FALSE]
Queries == [rows : RowLists, k : 1 .. 3, jobs : BOOLEAN]

MCInit == Init /\ query \in Queries
Decided == query # NoQuery /\ query' = NoQuery /\ UNCHANGED vars
MCNext == Decided \/ (query = NoQuery /\ Next /\ UNCHANGED query)
MCSpec == MCInit /\ [][MCNext]_<<vars, query>>

\* The local answers of auto mode keep what the gate promises: see GateSound.
LocalAnswersSound == query # NoQuery => GateSound(query.rows, query.k, query.jobs)

Symmetric == Permutations(Searchers) \cup Permutations(Writers)

=============================================================================
