-------------------------- MODULE SearchWebProofs --------------------------
(***************************************************************************)
(* Theorems about searches and the quota, for any searches, providers,     *)
(* limits and dashboard requests.                                          *)
(***************************************************************************)
EXTENDS MCSearchWeb, SequenceLemmas, SequenceTheorems

\* What the searches that count against p under the limit c would be.
CountingAt(p, c) ==
  {s \in Searchers :
     /\ job[s].pc \in {"limit", "call", "bump"} /\ Provider(s) = p
     /\ job[s].pc = "limit" => job[s].seen < c}

\* A search is a record; what it has read of the ledger is a number, and the
\* provider it asks is one that has a key.  The others it has still to try are
\* not looked into: nothing here depends on what the order holds.
Fields == {"pc", "rows", "rest", "seen", "tried"}
IsJob(j) ==
  /\ DOMAIN j = Fields
  /\ j.seen \in Nat
  /\ j.pc \in {"used", "limit", "call", "bump"} => Head(j.rest) \in Pool
Types ==
  /\ job = [s \in Searchers |-> job[s]] /\ \A s \in Searchers : IsJob(job[s])
  /\ used \in [Pool -> Nat]
  /\ ceiling \in [Pool -> Int \cup {Unset}]
  /\ state = [enabled |-> state.enabled, limit |-> state.limit, pos |-> state.pos]
  /\ state.limit \in [Pool -> Int \cup {Unset}]

\* The ceiling of the month is not below the limit in effect.
CeilingHolds ==
  \A p \in Pool : ceiling[p] # Unset => Limit(p) # 0 /\ Limit(p) <= ceiling[p]

\* The bound holds for every limit from the ceiling up, and not only for the
\* ceiling: a limit that is raised lets searches count that would have been
\* turned away, but by then some of the calls they read about had been counted.
AnyCeiling ==
  \A p \in Pool : ceiling[p] # Unset =>
    \A c \in Nat \ {0} : ceiling[p] <= c =>
      used[p] + Cardinality(CountingAt(p, c)) < c + Cardinality(Searchers)

Quota == Types /\ CeilingHolds /\ AnyCeiling

\* A search with some of its fields changed.
LEMMA Altered ==
  ASSUME NEW j, DOMAIN j = Fields, NEW pc, NEW rows, NEW rest, NEW n, NEW tried
  PROVE  /\ LET k == [j EXCEPT !.pc = pc] IN
              /\ DOMAIN k = Fields /\ k.pc = pc /\ k.rows = j.rows
              /\ k.rest = j.rest /\ k.seen = j.seen /\ k.tried = j.tried
         /\ LET k == [j EXCEPT !.pc = pc, !.rows = rows] IN
              /\ DOMAIN k = Fields /\ k.pc = pc /\ k.rows = rows
              /\ k.rest = j.rest /\ k.seen = j.seen /\ k.tried = j.tried
         /\ LET k == [j EXCEPT !.pc = pc, !.seen = n] IN
              /\ DOMAIN k = Fields /\ k.pc = pc /\ k.rows = j.rows
              /\ k.rest = j.rest /\ k.seen = n /\ k.tried = j.tried
         /\ LET k == [j EXCEPT !.pc = pc, !.rest = rest] IN
              /\ DOMAIN k = Fields /\ k.pc = pc /\ k.rows = j.rows
              /\ k.rest = rest /\ k.seen = j.seen /\ k.tried = j.tried
         /\ LET k == [j EXCEPT !.pc = pc, !.rest = rest, !.seen = n, !.tried = tried] IN
              /\ DOMAIN k = Fields /\ k.pc = pc /\ k.rows = j.rows
              /\ k.rest = rest /\ k.seen = n /\ k.tried = tried
BY DEF Fields

\* The searches that count are a part of all searches.
LEMMA CountingBound ==
  ASSUME NEW p, NEW c
  PROVE  /\ IsFiniteSet(CountingAt(p, c)) /\ IsFiniteSet(Searchers)
         /\ Cardinality(CountingAt(p, c)) \in Nat /\ Cardinality(Searchers) \in Nat
         /\ Cardinality(CountingAt(p, c)) <= Cardinality(Searchers)
<1>1. CountingAt(p, c) \in SUBSET Searchers /\ IsFiniteSet(Searchers)
  BY SearchConstants DEF CountingAt
<1> HIDE DEF CountingAt
<1>2. QED  BY <1>1, FS_Subset, FS_CardinalityType

\* The bound for every ceiling gives the bound for the highest limit.
LEMMA QuotaBounded == Quota => QuotaOvershootBounded
<1> SUFFICES ASSUME Quota, NEW p \in Pool, ceiling[p] # Unset, ceiling[p] > 0
    PROVE used[p] + Cardinality(Counting(p)) < ceiling[p] + Cardinality(Searchers)
  BY DEF QuotaOvershootBounded
<1>1. ceiling[p] \in Nat \ {0}  BY DEF Quota, Types
<1>2. Counting(p) = CountingAt(p, ceiling[p])  BY DEF Counting, CountingAt
<1>3. QED  BY <1>1, <1>2 DEF Quota, AnyCeiling

\* Nothing has been counted at first.
LEMMA QuotaInit == Init => Quota
<1> SUFFICES ASSUME Init  PROVE Quota
  OBVIOUS
<1> USE SearchConstants
<1>1. Types  BY DEF Init, Types, Idle, IsJob, Fields
<1>2. CeilingHolds  BY DEF Init, CeilingHolds, Limit
<1>3. ASSUME NEW p, NEW c  PROVE CountingAt(p, c) = {}
  BY DEF Init, CountingAt, Idle
<1>4. AnyCeiling
  <2> SUFFICES ASSUME NEW p \in Pool, NEW c \in Nat \ {0}
      PROVE used[p] + Cardinality(CountingAt(p, c)) < c + Cardinality(Searchers)
    BY DEF AnyCeiling
  <2>1. used[p] = 0  BY DEF Init
  <2>2. Cardinality(CountingAt(p, c)) = 0  BY <1>3, FS_EmptySet
  <2>3. QED  BY <2>1, <2>2, CountingBound
<1>5. QED  BY <1>1, <1>2, <1>4 DEF Quota

\* A search moves to another step, and counts against nobody it did not count
\* against before, unless it has just read a ledger below the limit.
LEMMA MoveKeeps ==
  ASSUME Quota, NEW s \in Searchers, NEW j, IsJob(j), Move(s, j),
         \/ j.pc \notin {"limit", "call", "bump"}
         \/ /\ j.pc \in {"call", "bump"} /\ j.rest = job[s].rest
            /\ job[s].pc \in {"limit", "call"}
            /\ job[s].pc = "limit" => ~Spent(job[s].seen, Provider(s))
         \/ j.pc = "limit" /\ j.seen = used[Head(j.rest)]
  PROVE  Quota'
<1> USE DEF Quota
<1>0. /\ job' = [job EXCEPT ![s] = j]
      /\ UNCHANGED <<state, used, todo, months, patches, ceiling>>
  BY DEF Move
<1>1. job'[s] = j /\ \A x \in Searchers : x # s => job'[x] = job[x]
  BY <1>0 DEF Types
<1>2. Types'  BY <1>0, <1>1 DEF Types
<1>3. CeilingHolds'  BY <1>0 DEF CeilingHolds, Limit
<1>4. ASSUME NEW p \in Pool, ceiling[p] # Unset, NEW c \in Nat \ {0}, ceiling[p] <= c
      PROVE used[p] + Cardinality(CountingAt(p, c)') < c + Cardinality(Searchers)
  <2>0. /\ used[p] \in Nat /\ ceiling[p] \in Int
        /\ Limit(p) # 0 /\ Limit(p) <= ceiling[p] /\ Limit(p) \in Int
    BY <1>4, SearchConstants DEF Types, CeilingHolds, Limit
  <2>1. CASE CountingAt(p, c)' \subseteq CountingAt(p, c)
    <3> DEFINE S == CountingAt(p, c)
               T == CountingAt(p, c)'
    <3>1. IsFiniteSet(S) /\ Cardinality(S) \in Nat /\ Cardinality(Searchers) \in Nat
      BY CountingBound
    <3>2. used[p] + Cardinality(S) < c + Cardinality(Searchers)
      BY <1>4 DEF AnyCeiling
    <3> HIDE DEF S, T
    <3>3. Cardinality(T) <= Cardinality(S) /\ Cardinality(T) \in Nat
      BY <2>1, <3>1, FS_Subset, FS_CardinalityType DEF S, T
    <3>4. QED  BY <2>0, <3>1, <3>2, <3>3 DEF T
  <2>2. CASE used[p] < c
    <3> DEFINE T == CountingAt(p, c)'
    <3>1. T \in SUBSET Searchers /\ IsFiniteSet(Searchers)
      BY SearchConstants DEF CountingAt
    <3> HIDE DEF T
    <3>2. /\ Cardinality(T) <= Cardinality(Searchers)
          /\ Cardinality(T) \in Nat /\ Cardinality(Searchers) \in Nat
      BY <3>1, FS_Subset, FS_CardinalityType
    <3>3. QED  BY <2>0, <2>2, <3>2 DEF T
  <2>3. CASE used[p] >= c
    <3>1. ASSUME NEW x \in CountingAt(p, c)'  PROVE x \in CountingAt(p, c)
      <4>1. x # s => x \in CountingAt(p, c)
        BY <1>1, <3>1 DEF CountingAt, Provider
      <4>2. CASE x = s
        <5>1. /\ j.pc \in {"limit", "call", "bump"} /\ Head(j.rest) = p
              /\ j.pc = "limit" => j.seen < c
          BY <1>1, <3>1, <4>2 DEF CountingAt, Provider
        <5>2. j.pc # "limit"  BY <2>0, <2>3, <5>1
        <5>3. /\ Provider(s) = p /\ job[s].pc \in {"limit", "call"}
              /\ job[s].pc = "limit" => ~Spent(job[s].seen, p)
          BY <5>1, <5>2 DEF Provider
        <5>4. job[s].pc = "limit" => job[s].seen < c
          BY <1>4, <2>0, <5>3 DEF Spent, Types, IsJob
        <5>5. QED  BY <4>2, <5>3, <5>4 DEF CountingAt
      <4>3. QED  BY <4>1, <4>2
    <3>2. QED  BY <2>1, <3>1
  <2>4. QED  BY <2>0, <2>2, <2>3
<1>5. AnyCeiling'  BY <1>0, <1>4 DEF AnyCeiling
<1>6. QED  BY <1>2, <1>3, <1>5

\* The bump counts the call, and the search counts no longer.
LEMMA BumpKeeps ==
  ASSUME Quota, NEW s \in Searchers, Bump(s)
  PROVE  Quota'
<1> USE DEF Quota
<1>0. /\ job[s].pc = "bump"
      /\ used' = [used EXCEPT ![Provider(s)] = @ + 1]
      /\ job' = [job EXCEPT ![s].pc = "enqueue"]
      /\ UNCHANGED <<state, ceiling>>
  BY DEF Bump
<1>1. /\ job'[s] = [job[s] EXCEPT !.pc = "enqueue"]
      /\ \A x \in Searchers : x # s => job'[x] = job[x]
      /\ job' = [x \in Searchers |-> job'[x]]
  BY <1>0 DEF Types
<1>2. job'[s].pc = "enqueue" /\ IsJob(job'[s])
  <2>1. IsJob(job[s])  BY DEF Types
  <2>2. QED  BY <1>1, <2>1, Altered DEF IsJob
<1>3. Types'
  <2>1. used' \in [Pool -> Nat]
    <3>1. Provider(s) \in Pool  BY <1>0 DEF Types, IsJob, Provider
    <3>2. QED  BY <1>0, <3>1 DEF Types
  <2>2. \A x \in Searchers : IsJob(job'[x])  BY <1>1, <1>2 DEF Types
  <2>3. QED  BY <1>0, <1>1, <2>1, <2>2 DEF Types
<1>4. CeilingHolds'  BY <1>0 DEF CeilingHolds, Limit
<1>5. ASSUME NEW p \in Pool, ceiling[p] # Unset, NEW c \in Nat \ {0}, ceiling[p] <= c
      PROVE used'[p] + Cardinality(CountingAt(p, c)') < c + Cardinality(Searchers)
  <2> DEFINE S == CountingAt(p, c)
             T == CountingAt(p, c)'
  <2>1. /\ IsFiniteSet(S) /\ Cardinality(S) \in Nat /\ Cardinality(Searchers) \in Nat
        /\ used[p] \in Nat
    BY CountingBound DEF Types
  <2>2. used[p] + Cardinality(S) < c + Cardinality(Searchers)
    BY <1>5 DEF AnyCeiling
  <2>3. T = S \ {s}
    BY <1>1, <1>2 DEF CountingAt, Provider
  <2>4. s \in S <=> Provider(s) = p
    BY <1>0 DEF CountingAt
  <2>5. used'[p] = IF Provider(s) = p THEN used[p] + 1 ELSE used[p]
    BY <1>0 DEF Types
  <2> HIDE DEF S, T
  <2>6. IsFiniteSet(S \ {s}) /\ Cardinality(S \ {s}) = IF s \in S THEN Cardinality(S) - 1
                                                       ELSE Cardinality(S)
    BY <2>1, FS_RemoveElement
  <2>7. QED  BY <2>1, <2>2, <2>3, <2>4, <2>5, <2>6 DEF T
<1>6. AnyCeiling'  BY <1>0, <1>5 DEF AnyCeiling
<1>7. QED  BY <1>3, <1>4, <1>6

\* The dashboard may raise a limit or lift it: the ceiling only rises.
LEMMA PatchKeeps ==
  ASSUME Quota, NEW q \in Pool, PatchLimit(q)
  PROVE  Quota'
<1> USE DEF Quota
<1>0. PICK n \in Limits :
        /\ state' = [state EXCEPT !.limit[q] = n]
        /\ ceiling' = [ceiling EXCEPT ![q] = Highest(@, Limit(q)')]
        /\ UNCHANGED <<used, job>>
  BY DEF PatchLimit
<1>1. n \in Int /\ n # Unset  BY SearchConstants
<1>2. /\ state'.limit = [state.limit EXCEPT ![q] = n]
      /\ state' = [enabled |-> state'.enabled, limit |-> state'.limit, pos |-> state'.pos]
  BY <1>0 DEF Types
<1>3. /\ Limit(q)' = n
      /\ \A p \in Pool \ {q} : Limit(p)' = Limit(p) /\ ceiling'[p] = ceiling[p]
  BY <1>0, <1>1, <1>2 DEF Limit, Types
<1>4. ceiling'[q] = Highest(ceiling[q], n) /\ ceiling' \in [Pool -> Int \cup {Unset}]
  <2>1. ceiling' = [ceiling EXCEPT ![q] = Highest(@, n)]  BY <1>0, <1>3
  <2>2. Highest(ceiling[q], n) \in Int \cup {Unset}  BY <1>1 DEF Types, Highest
  <2>3. QED  BY <2>1, <2>2 DEF Types
<1>5. Types'  BY <1>0, <1>1, <1>2, <1>4 DEF Types
<1>6. \A p \in Pool : ceiling'[p] # Unset =>
        /\ ceiling[p] # Unset /\ ceiling[p] <= ceiling'[p]
        /\ Limit(p)' # 0 /\ Limit(p)' <= ceiling'[p]
  <2>1. ceiling'[q] # Unset =>
          /\ ceiling[q] # Unset /\ ceiling[q] <= ceiling'[q] /\ n # 0 /\ n <= ceiling'[q]
    BY <1>1, <1>4 DEF Highest, Types
  <2>2. QED  BY <1>3, <2>1 DEF CeilingHolds, Types
<1>7. CeilingHolds'  BY <1>6 DEF CeilingHolds
<1>8. ASSUME NEW p \in Pool, ceiling'[p] # Unset, NEW c \in Nat \ {0}, ceiling'[p] <= c
      PROVE used'[p] + Cardinality(CountingAt(p, c)') < c + Cardinality(Searchers)
  <2>1. ceiling[p] # Unset /\ ceiling[p] <= c  BY <1>4, <1>6, <1>8 DEF Types
  <2>2. CountingAt(p, c)' = CountingAt(p, c)  BY <1>0 DEF CountingAt, Provider
  <2>3. QED  BY <1>0, <2>1, <2>2 DEF AnyCeiling
<1>9. AnyCeiling'  BY <1>8 DEF AnyCeiling
<1>10. QED  BY <1>5, <1>7, <1>9

\* A new month forgets what was used, not who is still calling.
LEMMA MonthKeeps ==
  ASSUME Quota, MonthEnds
  PROVE  Quota'
<1> USE DEF Quota
<1>0. /\ used' = [p \in Pool |-> 0]
      /\ ceiling' = [p \in Pool |-> IF Limit(p) = 0 THEN Unset ELSE Limit(p)]
      /\ UNCHANGED <<state, job>>
  BY DEF MonthEnds
<1>1. \A p \in Pool : Limit(p) \in Int  BY SearchConstants DEF Limit, Types
<1>2. ceiling' \in [Pool -> Int \cup {Unset}]  BY <1>0, <1>1
<1>3. Types'  BY <1>0, <1>2 DEF Types
<1>4. CeilingHolds'  BY <1>0, <1>1 DEF CeilingHolds, Limit
<1>5. ASSUME NEW p \in Pool, NEW c \in Nat \ {0}
      PROVE used'[p] + Cardinality(CountingAt(p, c)') < c + Cardinality(Searchers)
  <2>1. CountingAt(p, c)' = CountingAt(p, c)  BY <1>0 DEF CountingAt, Provider
  <2>2. QED  BY <1>0, <2>1, CountingBound
<1>6. AnyCeiling'  BY <1>5 DEF AnyCeiling
<1>7. QED  BY <1>3, <1>4, <1>6

\* The other steps of a search only move it.
LEMMA SearchKeeps ==
  ASSUME Quota, NEW s \in Searchers,
         Search(s) \/ Progress(s) \/ Abandon(s)
  PROVE  Quota'
<1>0. IsJob(job[s])  BY DEF Quota, Types
<1>1. IsJob(Idle) /\ Idle.pc = "idle"  BY DEF IsJob, Idle, Fields
<1>2. ASSUME NEW j, IsJob(j), Move(s, j), j.pc \notin {"limit", "call", "bump"}
      PROVE Quota'
  BY <1>2, MoveKeeps
<1>3. CASE Search(s)
  <2>1. \/ \E pc \in {"local", "empty"} : Move(s, [Idle EXCEPT !.pc = pc])
        \/ \E rows : Move(s, [Idle EXCEPT !.pc = "order", !.rows = rows])
    BY <1>3 DEF Search
  <2>2. \A pc \in {"local", "empty"} :
          IsJob([Idle EXCEPT !.pc = pc]) /\ [Idle EXCEPT !.pc = pc].pc = pc
    BY <1>1, Altered DEF IsJob
  <2>3. ASSUME NEW rows
        PROVE  /\ IsJob([Idle EXCEPT !.pc = "order", !.rows = rows])
               /\ [Idle EXCEPT !.pc = "order", !.rows = rows].pc = "order"
    BY <1>1, Altered DEF IsJob
  <2>4. QED  BY <1>2, <2>1, <2>2, <2>3
<1>4. CASE Answer(s) \/ Abandon(s)
  BY <1>1, <1>2, <1>4 DEF Answer, Abandon
<1>5. CASE ReadOrder(s)
  <2> DEFINE j == [job[s] EXCEPT !.pc = "state", !.rest = ordered_providers]
  <2>1. Move(s, j)  BY <1>5 DEF ReadOrder
  <2>2. IsJob(j) /\ j.pc = "state"  BY <1>0, Altered DEF IsJob
  <2> HIDE DEF j
  <2>3. QED  BY <1>2, <2>1, <2>2
<1>6. CASE Exhausted(s)
  <2>1. PICK pc \in {"degraded", "error"} : Move(s, [job[s] EXCEPT !.pc = pc])
    BY <1>6 DEF Exhausted
  <2> DEFINE j == [job[s] EXCEPT !.pc = pc]
  <2>2. IsJob(j) /\ j.pc = pc  BY <1>0, Altered DEF IsJob
  <2> HIDE DEF j
  <2>3. QED  BY <1>2, <2>1, <2>2 DEF j
<1>7. IsJob(Skipped(s)) /\ Skipped(s).pc = "state"
  <2>1. Skipped(s) = [job[s] EXCEPT !.pc = "state", !.rest = Tail(job[s].rest), !.seen = 0,
                                    !.tried = job[s].tried \cup {Provider(s)}]
    BY DEF Skipped
  <2>2. QED  BY <1>0, <2>1, Altered DEF IsJob
<1>8. CASE ReadState(s)
  <2>1. CASE Available(Provider(s))
    <3> DEFINE j == [job[s] EXCEPT !.pc = "used"]
    <3>1. Move(s, j)  BY <1>8, <2>1 DEF ReadState
    <3>2. Head(job[s].rest) \in Pool  BY <2>1, SearchConstants DEF Available, Provider
    <3>3. IsJob(j) /\ j.pc = "used"  BY <1>0, <3>2, Altered DEF IsJob
    <3> HIDE DEF j
    <3>4. QED  BY <1>2, <3>1, <3>3
  <2>2. CASE ~Available(Provider(s))
    <3>1. Move(s, Skipped(s))  BY <1>8, <2>2 DEF ReadState
    <3>2. QED  BY <1>2, <1>7, <3>1
  <2>3. QED  BY <2>1, <2>2
<1>9. CASE ReadUsed(s)
  <2> DEFINE j == [job[s] EXCEPT !.pc = "limit", !.seen = used[Provider(s)]]
  <2>1. job[s].pc = "used" /\ Move(s, j)  BY <1>9 DEF ReadUsed
  <2>2. Provider(s) = Head(job[s].rest) /\ Provider(s) \in Pool
    BY <1>0, <2>1 DEF Provider, IsJob
  <2>3. used[Provider(s)] \in Nat  BY <2>2 DEF Quota, Types
  <2>4. IsJob(j) /\ j.pc = "limit" /\ j.seen = used[Head(j.rest)]
    BY <1>0, <2>2, <2>3, Altered DEF IsJob
  <2> HIDE DEF j
  <2>5. QED  BY <2>1, <2>4, MoveKeeps
<1>10. CASE ReadLimit(s)
  <2>1. CASE Spent(job[s].seen, Provider(s))
    <3>1. Move(s, Skipped(s))  BY <1>10, <2>1 DEF ReadLimit
    <3>2. QED  BY <1>2, <1>7, <3>1
  <2>2. CASE ~Spent(job[s].seen, Provider(s))
    <3> DEFINE j == [job[s] EXCEPT !.pc = "call", !.seen = 0]
    <3>1. job[s].pc = "limit" /\ Move(s, j)  BY <1>10, <2>2 DEF ReadLimit
    <3>2. IsJob(j) /\ j.pc = "call" /\ j.rest = job[s].rest
      BY <1>0, <3>1, Altered DEF IsJob
    <3> HIDE DEF j
    <3>3. QED  BY <2>2, <3>1, <3>2, MoveKeeps
  <2>3. QED  BY <2>1, <2>2
<1>11. CASE Answers(s)
  <2> DEFINE j == [job[s] EXCEPT !.pc = "bump"]
  <2>1. job[s].pc = "call" /\ Move(s, j)  BY <1>11 DEF Answers, Step
  <2>2. IsJob(j) /\ j.pc = "bump" /\ j.rest = job[s].rest
    BY <1>0, <2>1, Altered DEF IsJob
  <2> HIDE DEF j
  <2>3. QED  BY <2>1, <2>2, MoveKeeps
<1>12. CASE Fails(s)
  BY <1>2, <1>7, <1>12 DEF Fails
<1>13. CASE Bump(s)
  BY <1>13, BumpKeeps
<1>14. QED
  BY <1>3, <1>4, <1>5, <1>6, <1>8, <1>9, <1>10, <1>11, <1>12, <1>13 DEF Progress

\* Every step keeps the bound.
LEMMA QuotaStep == Quota /\ [Next]_vars => Quota'
<1> SUFFICES ASSUME Quota, [Next]_vars  PROVE Quota'
  OBVIOUS
<1> USE DEF Quota
<1>1. ASSUME UNCHANGED <<used, job, ceiling>>, UNCHANGED state.limit,
             state' = [enabled |-> state'.enabled, limit |-> state'.limit, pos |-> state'.pos]
      PROVE Quota'
  <2>1. Types'  BY <1>1 DEF Types
  <2>2. CeilingHolds'  BY <1>1 DEF CeilingHolds, Limit
  <2>3. \A p, c : CountingAt(p, c)' = CountingAt(p, c)  BY <1>1 DEF CountingAt, Provider
  <2>4. AnyCeiling'  BY <1>1, <2>3 DEF AnyCeiling
  <2>5. QED  BY <2>1, <2>2, <2>4
<1>2. CASE \E w \in Writers : PutOrder(w) \/ InsertPosition(w) \/ InsertFails(w)
  BY <1>1, <1>2 DEF PutOrder, InsertPosition, InsertFails, Types
<1>3. CASE \E p \in Pool : PatchEnabled(p)
  BY <1>1, <1>3 DEF PatchEnabled, Types
<1>4. CASE UNCHANGED vars
  BY <1>1, <1>4 DEF vars, Types
<1>5. QED
  BY <1>2, <1>3, <1>4, SearchKeeps, PatchKeeps, MonthKeeps DEF Next

\* Concurrent searches overshoot the highest limit of the month by fewer calls
\* than there are searches, however the dashboard moves the limit.
THEOREM QuotaOvershoot == Spec => []QuotaOvershootBounded
BY QuotaInit, QuotaStep, QuotaBounded, PTL DEF Spec

---------------------------------------------------------------------------
(* The order of the providers.                                             *)

\* A position is a number or unset, and a reorder has numbers for names of the
\* pool still to insert.
Reorders ==
  /\ state = [enabled |-> state.enabled, limit |-> state.limit, pos |-> state.pos]
  /\ state.pos \in [Pool -> Int \cup {Unset}]
  /\ todo \in [Writers -> Seq(Pool \X Int)]

\* The pool is finite, and two providers do not share a place in it.
LEMMA Places ==
  /\ IsFiniteSet(Pool)
  /\ \A p \in Pool : Place(p) \in Int
  /\ \A p, q \in Pool : Place(p) = Place(q) => p = q
<1>1. EnvOrder \in Seq(Pool) /\ Pool = {EnvOrder[i] : i \in DOMAIN EnvOrder}
  BY SearchConstants DEF Pool, ToSet
<1>2. DOMAIN EnvOrder = 1 .. Len(EnvOrder) /\ Len(EnvOrder) \in Nat
  BY <1>1
<1>3. \A p \in Pool : Place(p) \in DOMAIN EnvOrder /\ EnvOrder[Place(p)] = p
  BY <1>1 DEF Place
<1>4. IsFiniteSet(Pool)
  <2>1. IsFiniteSet(1 .. Len(EnvOrder))  BY <1>2, FS_Interval
  <2>2. EnvOrder \in Surjection(DOMAIN EnvOrder, Pool)
    BY <1>1, <1>2 DEF Surjection
  <2>3. QED  BY <1>2, <2>1, <2>2, FS_Surjection
<1>5. QED  BY <1>2, <1>3, <1>4

\* Whatever positions the table holds, the order is a list of all of the pool.
LEMMA WholeOrder ==
  ASSUME Reorders
  PROVE  /\ ordered_providers \in Seq(Pool)
         /\ \A p \in Pool : \E n \in DOMAIN ordered_providers : ordered_providers[n] = p
         /\ Len(ordered_providers) = Cardinality(Pool)
<1> DEFINE placed == {p \in Pool : state.pos[p] # Unset}
           before == {pq \in placed \X placed :
                        \/ state.pos[pq[1]] < state.pos[pq[2]]
                        \/ state.pos[pq[1]] = state.pos[pq[2]] /\ Place(pq[1]) < Place(pq[2])}
           others == Pool \ ToSet(RuntimeOrder)
           among  == {pq \in Pool \X Pool : Place(pq[1]) < Place(pq[2])}
           rest   == Arranged(others, among)
<1>1. \A p \in placed : p \in Pool /\ state.pos[p] \in Int
  BY SearchConstants DEF Reorders
<1>2. IsFiniteSet(placed) /\ IsFiniteSet(others)
  BY Places, FS_Subset
<1>3. StrictOrder(placed, before)
  BY <1>1, Places DEF StrictOrder
<1>4. StrictOrder(others, among)
  BY Places DEF StrictOrder
<1>5. /\ RuntimeOrder \in Seq(placed) /\ Len(RuntimeOrder) = Cardinality(placed)
      /\ \A p \in placed : \E n \in DOMAIN RuntimeOrder : RuntimeOrder[n] = p
  <2>1. RuntimeOrder = Arranged(placed, before)  BY DEF RuntimeOrder
  <2> HIDE DEF placed, before
  <2>2. QED  BY <1>2, <1>3, <2>1, ArrangedFacts
<1>6. /\ rest \in Seq(others) /\ Len(rest) = Cardinality(others)
      /\ \A p \in others : \E n \in DOMAIN rest : rest[n] = p
  <2> HIDE DEF others, among
  <2>1. QED  BY <1>2, <1>4, ArrangedFacts
<1>7. ordered_providers = RuntimeOrder \o rest  BY DEF ordered_providers
<1>8. ToSet(RuntimeOrder) = placed
  <2> HIDE DEF placed
  <2>1. \A n \in DOMAIN RuntimeOrder : RuntimeOrder[n] \in placed  BY <1>5
  <2>2. QED  BY <1>5, <2>1 DEF ToSet
<1>9. others = Pool \ placed  BY <1>8
<1>10. Cardinality(placed) + Cardinality(others) = Cardinality(Pool)
  <2>1. Cardinality(Pool \ placed) = Cardinality(Pool) - Cardinality(Pool \cap placed)
    BY Places, FS_Difference, <1>2
  <2>2. Pool \cap placed = placed
    OBVIOUS
  <2>3. /\ Cardinality(Pool) \in Nat /\ Cardinality(placed) \in Nat
        /\ Cardinality(others) \in Nat
    BY Places, <1>2, FS_CardinalityType
  <2> HIDE DEF placed, others
  <2>4. QED  BY <1>9, <2>1, <2>2, <2>3
<1>11. placed \cup others = Pool  BY <1>9
<1> HIDE DEF placed, others, before, among, rest
<1>12. RuntimeOrder \in Seq(Pool) /\ rest \in Seq(Pool)  BY <1>5, <1>6, <1>11
<1>13. ordered_providers \in Seq(Pool)  BY <1>7, <1>12
<1>14. ASSUME NEW p \in Pool  PROVE \E n \in DOMAIN ordered_providers : ordered_providers[n] = p
  <2>1. CASE p \in placed
    <3>1. PICK n \in DOMAIN RuntimeOrder : RuntimeOrder[n] = p  BY <1>5, <2>1
    <3>2. /\ n \in DOMAIN (RuntimeOrder \o rest)
          /\ (RuntimeOrder \o rest)[n] = RuntimeOrder[n]
      <4>1. n \in 1 .. Len(RuntimeOrder)  BY <1>12, <3>1, ConcatFacts
      <4>2. n \in 1 .. Len(RuntimeOrder) + Len(rest)  BY <1>12, <4>1, ConcatFacts
      <4>3. QED  BY <1>12, <4>1, <4>2, ConcatFacts
    <3>3. QED  BY <1>7, <3>1, <3>2
  <2>2. CASE p \in others
    <3>1. PICK n \in DOMAIN rest : rest[n] = p  BY <1>6, <2>2
    <3>2. /\ Len(RuntimeOrder) + n \in DOMAIN (RuntimeOrder \o rest)
          /\ (RuntimeOrder \o rest)[Len(RuntimeOrder) + n] = rest[n]
      <4>1. n \in 1 .. Len(rest)  BY <1>12, <3>1, ConcatFacts
      <4>2. Len(RuntimeOrder) + n \in 1 .. Len(RuntimeOrder) + Len(rest)
        BY <1>12, <4>1, ConcatFacts
      <4>3. QED  BY <1>12, <4>1, <4>2, ConcatFacts
    <3>3. QED  BY <1>7, <3>1, <3>2
  <2>3. QED  BY <1>11, <2>1, <2>2
<1>15. Len(ordered_providers) = Cardinality(Pool)
  BY <1>5, <1>6, <1>7, <1>10, <1>12, ConcatFacts
<1>16. QED  BY <1>13, <1>14, <1>15

\* So a search reads the whole pool, each provider once.
LEMMA AnyOrderComplete == Reorders => PoolStaysComplete
<1> SUFFICES ASSUME Reorders  PROVE PoolStaysComplete
  OBVIOUS
<1>1. \A n \in DOMAIN ordered_providers : ordered_providers[n] \in Pool
  BY WholeOrder
<1>2. ToSet(ordered_providers) = Pool  BY <1>1, WholeOrder DEF ToSet
<1>3. QED  BY <1>2, WholeOrder DEF PoolStaysComplete

\* The statements of a reorder write positions only.
LEMMA ReordersStep == Reorders /\ [Next]_vars => Reorders'
<1> SUFFICES ASSUME Reorders, [Next]_vars  PROVE Reorders'
  OBVIOUS
<1>1. ASSUME NEW w \in Writers, PutOrder(w)  PROVE Reorders'
  <2>1. PICK names \in SetToSeqs(Pool) \cup {<<>>} :
          todo' = [todo EXCEPT ![w] = [i \in DOMAIN names |-> <<names[i], i - 1>>]]
    BY <1>1 DEF PutOrder
  <2>2. names \in Seq(Pool)
    <3>1. CASE names = <<>>  BY <3>1
    <3>2. CASE names \in SetToSeqs(Pool)
      <4>1. Cardinality(Pool) \in Nat  BY Places, FS_CardinalityType
      <4>2. names \in [1 .. Cardinality(Pool) -> Pool]  BY <3>2 DEF SetToSeqs
      <4>3. QED  BY <4>1, <4>2
    <3>3. QED  BY <2>1, <3>1, <3>2
  <2> DEFINE inserts == [i \in DOMAIN names |-> <<names[i], i - 1>>]
  <2>3. inserts \in Seq(Pool \X Int)
    <3>1. Len(names) \in Nat /\ DOMAIN names = 1 .. Len(names)  BY <2>2
    <3>2. inserts \in [1 .. Len(names) -> Pool \X Int]  BY <2>2, <3>1
    <3>3. QED  BY <3>1, <3>2
  <2>4. state' = [state EXCEPT !.pos = [p \in Pool |-> Unset]]  BY <1>1 DEF PutOrder
  <2> HIDE DEF inserts
  <2>5. todo' \in [Writers -> Seq(Pool \X Int)]  BY <2>1, <2>3 DEF Reorders, inserts
  <2>6. QED  BY <2>4, <2>5 DEF Reorders
<1>2. ASSUME NEW w \in Writers, InsertPosition(w)  PROVE Reorders'
  <2>1. todo[w] \in Seq(Pool \X Int) /\ todo[w] # <<>>
    BY <1>2 DEF Reorders, InsertPosition
  <2>2. Head(todo[w]) \in Pool \X Int /\ Tail(todo[w]) \in Seq(Pool \X Int)
    BY <2>1
  <2>3. todo' = [todo EXCEPT ![w] = Tail(todo[w])]  BY <1>2 DEF InsertPosition
  <2>4. state' = [state EXCEPT !.pos[Head(todo[w])[1]] = Head(todo[w])[2]]
    BY <1>2 DEF InsertPosition
  <2>5. PICK p \in Pool, n \in Int : Head(todo[w]) = <<p, n>>  BY <2>2
  <2>6. state' = [state EXCEPT !.pos[p] = n]  BY <2>4, <2>5
  <2>7. QED  BY <2>2, <2>3, <2>6 DEF Reorders
<1>3. ASSUME NEW w \in Writers, InsertFails(w)  PROVE Reorders'
  BY <1>3 DEF InsertFails, Reorders
<1>4. ASSUME NEW p \in Pool, PatchEnabled(p) \/ PatchLimit(p)  PROVE Reorders'
  BY <1>4 DEF PatchEnabled, PatchLimit, Reorders
<1>5. CASE MonthEnds  BY <1>5 DEF MonthEnds, Reorders
<1>6. CASE UNCHANGED vars  BY <1>6 DEF vars, Reorders
<1>7. ASSUME NEW s \in Searchers, Search(s) \/ Progress(s) \/ Abandon(s)  PROVE Reorders'
  <2>1. state' = state /\ todo' = todo
    BY <1>7 DEF Search, Progress, ReadOrder, Exhausted, ReadState, ReadUsed, ReadLimit,
                Answers, Fails, Bump, Answer, Abandon, Move, Step
  <2>2. QED  BY <2>1 DEF Reorders
<1>8. QED  BY <1>1, <1>2, <1>3, <1>4, <1>5, <1>6, <1>7 DEF Next

\* The order a search reads is the whole pool, each provider once, between any
\* statements of any number of reorders, finished or not.
THEOREM PoolComplete == Spec => []PoolStaysComplete
<1>1. Init => Reorders  BY DEF Init, Reorders
<1>2. QED  BY <1>1, ReordersStep, AnyOrderComplete, PTL DEF Spec

---------------------------------------------------------------------------
(* The index as a last resort.                                             *)

\* A search asks the providers that are left, each once, and the others are those
\* it has tried.
Asking == {"state", "used", "limit", "call", "bump", "enqueue"}
IsLeft(rest, tried) ==
  /\ rest \in Seq(Pool) /\ \A m, n \in DOMAIN rest : rest[m] = rest[n] => m = n
  /\ \A p \in Pool : p \in tried <=> \A n \in DOMAIN rest : rest[n] # p
  /\ tried \subseteq Pool
Resort(j) ==
  /\ j.pc = "order" => j.tried = {}
  /\ j.pc \in Asking => IsLeft(j.rest, j.tried)
  /\ j.pc \in {"used", "limit", "call"} => j.rest # <<>>
  /\ j.pc \in {"degraded", "error"} => j.tried = Pool
  /\ j.pc = "error" => j.rows = <<>>
Resorts == \A s \in Searchers : Resort(job[s])

\* The first of a list without repetitions, and what is left without it.
LEMMA LeftAfter ==
  ASSUME NEW rest, NEW tried, IsLeft(rest, tried), rest # <<>>
  PROVE  IsLeft(Tail(rest), tried \cup {Head(rest)}) /\ Head(rest) \notin tried
<1>1. /\ rest \in Seq(Pool) /\ Len(rest) \in Nat \ {0} /\ DOMAIN rest = 1 .. Len(rest)
      /\ 1 \in DOMAIN rest /\ Head(rest) = rest[1] /\ Head(rest) \in Pool
  BY DEF IsLeft
<1>2. PICK left : left = Tail(rest)
  OBVIOUS
<1>3. /\ left \in Seq(Pool) /\ Len(left) = Len(rest) - 1
      /\ DOMAIN left = 1 .. Len(left)
      /\ \A n \in DOMAIN left : n + 1 \in DOMAIN rest /\ left[n] = rest[n + 1]
  BY <1>1, <1>2
<1>4. ASSUME NEW m \in DOMAIN left, NEW n \in DOMAIN left, left[m] = left[n]
      PROVE  m = n
  <2>1. m + 1 = n + 1  BY <1>3, <1>4 DEF IsLeft
  <2>2. m \in Int /\ n \in Int  BY <1>3
  <2>3. QED  BY <2>1, <2>2
<1>5. ASSUME NEW p \in Pool
      PROVE  p \in tried \cup {Head(rest)} <=> \A n \in DOMAIN left : left[n] # p
  <2>1. CASE p = Head(rest)
    <3>1. ASSUME NEW n \in DOMAIN left  PROVE left[n] # p
      <4>1. n + 1 \in DOMAIN rest /\ left[n] = rest[n + 1] /\ n \in Nat \ {0}
        BY <1>1, <1>3
      <4>2. n + 1 # 1  BY <4>1
      <4>3. QED  BY <1>1, <2>1, <4>1, <4>2 DEF IsLeft
    <3>2. QED  BY <2>1, <3>1
  <2>2. CASE p # Head(rest)
    <3>1. ASSUME NEW n \in DOMAIN rest, rest[n] = p
          PROVE  \E m \in DOMAIN left : left[m] = p
      <4>1. n # 1 /\ n \in 1 .. Len(rest)  BY <1>1, <2>2, <3>1
      <4>2. n - 1 \in DOMAIN left  BY <1>1, <1>3, <4>1
      <4>3. left[n - 1] = rest[n - 1 + 1] /\ n - 1 + 1 = n  BY <1>3, <4>1, <4>2
      <4>4. QED  BY <3>1, <4>2, <4>3
    <3>2. ASSUME NEW m \in DOMAIN left, left[m] = p
          PROVE  \E n \in DOMAIN rest : rest[n] = p
      BY <1>3, <3>2
    <3>3. p \in tried <=> \A n \in DOMAIN rest : rest[n] # p  BY DEF IsLeft
    <3>4. QED  BY <2>2, <3>1, <3>2, <3>3
  <2>3. QED  BY <2>1, <2>2
<1>6. Head(rest) \notin tried  BY <1>1 DEF IsLeft
<1>7. QED  BY <1>1, <1>2, <1>3, <1>4, <1>5, <1>6 DEF IsLeft

\* Before any is tried, the whole order is left.
LEMMA OrderLeft == Reorders => IsLeft(ordered_providers, {})
<1> SUFFICES ASSUME Reorders  PROVE IsLeft(ordered_providers, {})
  OBVIOUS
<1>1. PICK order : order = ordered_providers
  OBVIOUS
<1>2. /\ order \in Seq(Pool) /\ Len(order) = Cardinality(Pool)
      /\ \A p \in Pool : \E n \in DOMAIN order : order[n] = p
  BY <1>1, AnyOrderComplete, WholeOrder
<1>3. PICK len \in Nat : len = Len(order)  BY <1>2
<1>4. DOMAIN order = 1 .. len /\ order \in [1 .. len -> Pool]  BY <1>2, <1>3
<1>5. order \in Surjection(1 .. len, Pool)
  BY <1>2, <1>4 DEF Surjection
<1>6. IsFiniteSet(1 .. len) /\ Cardinality(1 .. len) = len  BY FirstCount
<1>7. order \in Injection(1 .. len, Pool)
  BY ONLY <1>2, <1>3, <1>5, <1>6, FS_SurjSameCardinalityImpliesInj
<1>8. \A m, n \in DOMAIN order : order[m] = order[n] => m = n
  BY <1>4, <1>7 DEF Injection, IsInjective
<1>9. QED  BY <1>1, <1>2, <1>8 DEF IsLeft

\* What a search does to its own record is all that happens to the records.
LEMMA ResortKept ==
  ASSUME Types, Resorts, NEW s \in Searchers, NEW j, job' = [job EXCEPT ![s] = j], Resort(j)
  PROVE  Resorts'
<1>1. job'[s] = j /\ \A x \in Searchers : x # s => job'[x] = job[x]
  BY DEF Types
<1>2. \A x \in Searchers : Resort(job'[x])  BY <1>1 DEF Resorts
<1>3. QED  BY <1>2 DEF Resorts, Resort, IsLeft

\* Every step of a search goes on with the providers that are left.
LEMMA SearchResorts ==
  ASSUME Types, Reorders, Resorts, NEW s \in Searchers, Search(s) \/ Progress(s) \/ Abandon(s)
  PROVE  Resorts'
<1>0. DOMAIN job[s] = Fields /\ Resort(job[s])  BY DEF Types, IsJob, Resorts
<1>1. DOMAIN Idle = Fields /\ Idle.pc = "idle" /\ Idle.rows = <<>> /\ Idle.tried = {}
  BY DEF Idle, Fields
<1>2. ASSUME NEW j, Move(s, j), Resort(j)  PROVE Resorts'
  BY <1>2, ResortKept DEF Move
<1>3. CASE Search(s)
  <2>1. \/ \E pc \in {"local", "empty"} : Move(s, [Idle EXCEPT !.pc = pc])
        \/ \E rows : Move(s, [Idle EXCEPT !.pc = "order", !.rows = rows])
    BY <1>3 DEF Search
  <2>2. ASSUME NEW pc \in {"local", "empty"}  PROVE Resort([Idle EXCEPT !.pc = pc])
    <3>1. [Idle EXCEPT !.pc = pc].pc = pc  BY <1>1, Altered
    <3>2. QED  BY <3>1 DEF Resort, Asking
  <2>3. ASSUME NEW rows  PROVE Resort([Idle EXCEPT !.pc = "order", !.rows = rows])
    <3>1. LET k == [Idle EXCEPT !.pc = "order", !.rows = rows]
          IN  k.pc = "order" /\ k.tried = {}
      BY <1>1, Altered
    <3>2. QED  BY <3>1 DEF Resort, Asking
  <2>4. QED  BY <1>2, <2>1, <2>2, <2>3
<1>4. CASE Exhausted(s)
  <2> DEFINE pc == IF job[s].rows # <<>> THEN "degraded" ELSE "error"
             j == [job[s] EXCEPT !.pc = pc]
  <2>1. Move(s, j) /\ job[s].pc = "state" /\ job[s].rest = <<>>  BY <1>4 DEF Exhausted
  <2>2. job[s].tried = Pool
    <3>1. IsLeft(<<>>, job[s].tried)  BY <1>0, <2>1 DEF Resort, Asking
    <3>2. QED  BY <3>1 DEF IsLeft
  <2>3. pc \in {"degraded", "error"} /\ (pc = "error" => job[s].rows = <<>>)
    OBVIOUS
  <2> HIDE DEF pc
  <2>4. j.pc = pc /\ j.rows = job[s].rows /\ j.tried = job[s].tried  BY <1>0, Altered
  <2> HIDE DEF j
  <2>5. Resort(j)  BY <2>2, <2>3, <2>4 DEF Resort, Asking
  <2>6. QED  BY <1>2, <2>1, <2>5
<1>5. ASSUME job[s].pc \in Asking, job[s].rest # <<>>  PROVE Resort(Skipped(s))
  <2>1. Skipped(s) = [job[s] EXCEPT !.pc = "state", !.rest = Tail(job[s].rest), !.seen = 0,
                                    !.tried = job[s].tried \cup {Provider(s)}]
    BY DEF Skipped
  <2>2. /\ Skipped(s).pc = "state" /\ Skipped(s).rest = Tail(job[s].rest)
        /\ Skipped(s).tried = job[s].tried \cup {Head(job[s].rest)}
    BY <1>0, <2>1, Altered DEF Provider
  <2>3. IsLeft(Skipped(s).rest, Skipped(s).tried)
    BY <1>0, <1>5, <2>2, LeftAfter DEF Resort
  <2>4. QED  BY <2>2, <2>3 DEF Resort, Asking
<1>6. ASSUME NEW pc \in {"used", "bump"}, job[s].pc \in Asking,
             pc = "used" => job[s].rest # <<>>
      PROVE  Resort([job[s] EXCEPT !.pc = pc])
  <2>1. LET k == [job[s] EXCEPT !.pc = pc]
        IN  k.pc = pc /\ k.rest = job[s].rest /\ k.tried = job[s].tried
    BY <1>0, Altered
  <2>2. QED  BY <1>0, <1>6, <2>1 DEF Resort, Asking
<1>7. ASSUME NEW pc \in {"limit", "call"}, NEW n, job[s].pc \in Asking, job[s].rest # <<>>
      PROVE  Resort([job[s] EXCEPT !.pc = pc, !.seen = n])
  <2>1. LET k == [job[s] EXCEPT !.pc = pc, !.seen = n]
        IN  k.pc = pc /\ k.rest = job[s].rest /\ k.tried = job[s].tried
    BY <1>0, Altered
  <2>2. QED  BY <1>0, <1>7, <2>1 DEF Resort, Asking
<1>8. CASE Answer(s) \/ Abandon(s)
  <2>1. Resort(Idle)  BY <1>1 DEF Resort, Asking
  <2>2. QED  BY <1>2, <1>8, <2>1 DEF Answer, Abandon
<1>9. CASE ReadOrder(s)
  <2> DEFINE j == [job[s] EXCEPT !.pc = "state", !.rest = ordered_providers]
  <2>1. Move(s, j) /\ job[s].tried = {}  BY <1>0, <1>9 DEF ReadOrder, Resort
  <2>2. j.pc = "state" /\ j.rest = ordered_providers /\ j.tried = {}
    BY <1>0, <2>1, Altered
  <2> HIDE DEF j
  <2>3. Resort(j)  BY <2>2, OrderLeft DEF Resort, Asking
  <2>4. QED  BY <1>2, <2>1, <2>3
<1>10. CASE ReadState(s)
  <2>1. /\ job[s].pc \in Asking /\ job[s].rest # <<>>
        /\ Move(s, Skipped(s)) \/ Move(s, [job[s] EXCEPT !.pc = "used"])
    BY <1>10 DEF ReadState, Asking
  <2>2. QED  BY <1>2, <1>5, <1>6, <2>1
<1>11. CASE ReadUsed(s) \/ ReadLimit(s)
  <2>1. /\ job[s].pc \in {"used", "limit"}
        /\ \/ Move(s, Skipped(s))
           \/ \E pc \in {"limit", "call"} : \E n : Move(s, [job[s] EXCEPT !.pc = pc, !.seen = n])
    BY <1>11 DEF ReadUsed, ReadLimit
  <2>2. job[s].pc \in Asking /\ job[s].rest # <<>>  BY <1>0, <2>1 DEF Resort, Asking
  <2>3. QED  BY <1>2, <1>5, <1>7, <2>1, <2>2
<1>12. CASE Answers(s) \/ Fails(s)
  <2>1. /\ job[s].pc = "call"
        /\ Move(s, Skipped(s)) \/ Move(s, [job[s] EXCEPT !.pc = "bump"])
    BY <1>12 DEF Answers, Fails, Step
  <2>2. job[s].pc \in Asking /\ job[s].rest # <<>>  BY <1>0, <2>1 DEF Resort, Asking
  <2>3. QED  BY <1>2, <1>5, <1>6, <2>1, <2>2
<1>13. CASE Bump(s)
  <2>1. job[s].pc = "bump" /\ job' = [job EXCEPT ![s].pc = "enqueue"]  BY <1>13 DEF Bump
  <2> DEFINE j == [job[s] EXCEPT !.pc = "enqueue"]
  <2>2. job' = [job EXCEPT ![s] = j]  BY <2>1
  <2>3. j.pc = "enqueue" /\ j.rest = job[s].rest /\ j.tried = job[s].tried
    BY <1>0, Altered
  <2> HIDE DEF j
  <2>4. Resort(j)  BY <1>0, <2>1, <2>3 DEF Resort, Asking
  <2>5. QED  BY <2>2, <2>4, ResortKept
<1>14. QED
  BY <1>3, <1>4, <1>8, <1>9, <1>10, <1>11, <1>12, <1>13 DEF Progress

\* A search answers from below the gate, or with an error, only when every provider was
\* passed over or failed in it, whatever happened to their order and switches, and calls
\* no provider twice.
THEOREM IndexIsLastResort == Spec => []LastResort
<1>1. Init => Resorts /\ Reorders
  BY DEF Init, Resorts, Resort, Asking, Idle, Reorders
<1>2. Quota /\ Reorders /\ Resorts /\ [Next]_vars => Resorts'
  <2> SUFFICES ASSUME Types, Reorders, Resorts, [Next]_vars  PROVE Resorts'
    BY DEF Quota
  <2>1. CASE \E s \in Searchers : Search(s) \/ Progress(s) \/ Abandon(s)
    BY <2>1, SearchResorts
  <2>2. CASE \/ \E w \in Writers : PutOrder(w) \/ InsertPosition(w) \/ InsertFails(w)
             \/ \E p \in Pool : PatchEnabled(p) \/ PatchLimit(p)
             \/ MonthEnds
             \/ UNCHANGED vars
    <3>1. job' = job
      BY <2>2 DEF PutOrder, InsertPosition, InsertFails, PatchEnabled, PatchLimit,
                  MonthEnds, vars
    <3>2. QED  BY <3>1 DEF Resorts, Resort, IsLeft
  <2>3. QED  BY <2>1, <2>2 DEF Next
<1>3. Resorts => LastResort
  <2> SUFFICES ASSUME Resorts, NEW s \in Searchers
      PROVE  /\ job[s].pc \in {"degraded", "error"} => job[s].tried = Pool
             /\ job[s].pc = "error" => job[s].rows = <<>>
             /\ job[s].pc = "call" => Provider(s) \notin job[s].tried
    BY DEF LastResort
  <2>1. Resort(job[s])  BY DEF Resorts
  <2>2. ASSUME job[s].pc = "call"  PROVE Provider(s) \notin job[s].tried
    <3>1. IsLeft(job[s].rest, job[s].tried) /\ job[s].rest # <<>>
      BY <2>1, <2>2 DEF Resort, Asking
    <3>2. QED  BY <3>1, LeftAfter DEF Provider
  <2>3. QED  BY <2>1, <2>2 DEF Resort
<1>4. QED  BY QuotaInit, QuotaStep, ReordersStep, <1>1, <1>2, <1>3, PTL DEF Spec

---------------------------------------------------------------------------
(* The gate.                                                               *)

\* What the index returns, for any URLs and domains.
RowsOf(Url, Domain) ==
  [url : Url, dom : Domain, sim : Nat, cov : BOOLEAN, dist : BOOLEAN, board : BOOLEAN,
   score : Int]

\* A penalty leaves a row what it is, and does not make it more similar.
LEMMA PenaltyFacts ==
  ASSUME NEW Url, NEW Domain, NEW r \in RowsOf(Url, Domain)
  PROVE  /\ Penalised(r) \in RowsOf(Url, Domain)
         /\ Penalised(r).url = r.url /\ Penalised(r).dom = r.dom
         /\ Penalised(r).cov = r.cov /\ Penalised(r).dist = r.dist
         /\ Penalised(r).sim > 0 => r.sim > 0
<1>1. PICK s : s = r.sim * Penalty
  OBVIOUS
<1>2. r.sim \in Nat /\ r.score \in Int /\ Penalty \in Int /\ Penalty >= 0
  BY GateConstants DEF RowsOf
<1>3. s \in Nat /\ (r.sim = 0 => s = 0)  BY <1>1, <1>2
<1>4. s \div 100 \in Nat /\ (s = 0 => s \div 100 = 0)  BY ONLY <1>3
<1>5. PICK t : t = r.score * Penalty
  OBVIOUS
<1>6. t \div 100 \in Int
  <2>1. t \in Int  BY <1>2, <1>5
  <2>2. QED  BY ONLY <2>1
<1>7. Penalised(r) = IF ~ r.board THEN r
                     ELSE [r EXCEPT !.sim = s \div 100, !.score = t \div 100]
  BY <1>1, <1>5 DEF Penalised
<1>8. PICK u \in Nat : u = s \div 100 /\ (u > 0 => r.sim > 0)  BY <1>2, <1>3, <1>4
<1>9. PICK v \in Int : v = t \div 100  BY <1>6
<1>10. Penalised(r) = IF ~ r.board THEN r ELSE [r EXCEPT !.sim = u, !.score = v]
  BY <1>7, <1>8, <1>9
<1>11. QED  BY <1>8, <1>10 DEF RowsOf

\* What the first n rows of a list are.
IsFirst(out, n, list) ==
  /\ ListOf(out, {out[i] : i \in DOMAIN out})
  /\ Len(out) = IF n < Len(list) THEN n ELSE Len(list)
  /\ \A i \in DOMAIN out : i \in DOMAIN list /\ i <= n /\ out[i] = list[i]
  /\ \A i \in DOMAIN list : i <= n => i \in DOMAIN out
  /\ Len(list) <= n => out = list

\* First gives them.
LEMMA FirstLists ==
  ASSUME NEW list, NEW S, ListOf(list, S), NEW n \in Nat, NEW out, out = First(n, list)
  PROVE  IsFirst(out, n, list)
<1> DEFINE m     == IF n < Len(list) THEN n ELSE Len(list)
           first == First(n, list)
           part  == {first[i] : i \in DOMAIN first}
<1>1. list \in Seq(S) /\ Len(list) \in Nat /\ DOMAIN list = 1 .. Len(list) /\ m \in Nat /\ m <= Len(list)
  BY DEF ListOf
<1>2. /\ first \in Seq(S) /\ Len(first) = m
      /\ \A i \in 1 .. m : first[i] = list[i]
  <2>1. /\ SubSeq(list, 1, m) \in Seq(S)
        /\ Len(SubSeq(list, 1, m)) = IF 1 <= m THEN m - 1 + 1 ELSE 0
        /\ \A i \in 1 .. m - 1 + 1 : SubSeq(list, 1, m)[i] = list[1 + i - 1]
    BY <1>1, SubSeqProperties
  <2>2. first = SubSeq(list, 1, m)  BY DEF First
  <2> HIDE DEF m, first
  <2>3. Len(first) = m  BY <1>1, <2>1, <2>2
  <2>4. ASSUME NEW i \in 1 .. m  PROVE first[i] = list[i]
    <3>1. i \in 1 .. m - 1 + 1 /\ 1 + i - 1 = i  BY <1>1
    <3>2. QED  BY <2>1, <2>2, <3>1
  <2>5. QED  BY <2>1, <2>2, <2>3, <2>4
<1> HIDE DEF m, first
<1>3. DOMAIN first = 1 .. m  BY <1>1, <1>2
<1>4. \A i \in DOMAIN first : i \in DOMAIN list /\ i <= m /\ first[i] = list[i]
  BY <1>1, <1>2, <1>3
<1>5. ListOf(first, part)
  <2>1. \A i \in DOMAIN first : first[i] \in part  BY <1>4
  <2>2. first \in Seq(part)
    <3>1. \A i \in 1 .. m : first[i] \in part  BY <1>3, <2>1
    <3> HIDE DEF part
    <3>2. first \in [1 .. m -> part]  BY <1>2, <1>3, <3>1
    <3>3. QED  BY ONLY <1>1, <3>2
  <2>3. \A x \in part : \E i \in DOMAIN first : first[i] = x  BY <1>4
  <2>4. \A i, j \in DOMAIN first : first[i] = first[j] => i = j
    BY <1>4 DEF ListOf
  <2>5. QED  BY <2>2, <2>3, <2>4 DEF ListOf
<1>6. m \in Nat /\ m <= n /\ (Len(list) <= n => m = Len(list))
      /\ \A i \in 1 .. Len(list) : i <= n => i <= m
  <2>1. PICK N \in Nat : N = Len(list)  BY <1>1
  <2>2. m = IF n < N THEN n ELSE N  BY <2>1 DEF m
  <2>3. /\ m \in Nat /\ m <= n /\ (N <= n => m = N)
        /\ \A i \in 1 .. N : i <= n => i <= m
    BY <2>2
  <2>4. QED  BY ONLY <2>1, <2>3
<1>7. \A i \in DOMAIN list : i <= n => i \in DOMAIN first
  <2> SUFFICES ASSUME NEW i \in DOMAIN list, i <= n  PROVE i \in DOMAIN first
    OBVIOUS
  <2>1. i \in 1 .. Len(list) /\ i \in Int /\ i >= 1  BY <1>1
  <2>2. QED  BY <1>3, <1>6, <2>1
<1>8. Len(list) <= n => first = list
  <2> SUFFICES ASSUME Len(list) <= n  PROVE first = list
    OBVIOUS
  <2>1. m = Len(list)  BY <1>6
  <2>2. QED  BY <1>1, <1>2, <2>1
<1>9. \A i \in DOMAIN first : i <= n
  <2>1. \A i \in 1 .. m : i <= n  BY ONLY <1>6, n \in Nat
  <2>2. QED  BY <1>3, <2>1
<1>10. IsFirst(first, n, list)
  BY <1>2, <1>4, <1>5, <1>7, <1>8, <1>9 DEF IsFirst, m
<1>11. QED  BY <1>10 DEF first

\* A list sorted by similarity first holds the same rows, the most similar first.
LEMMA MostSimilarFirst ==
  ASSUME NEW list, NEW S, ListOf(list, S), \A x \in S : x.sim \in Int,
         NEW key, DOMAIN key = DOMAIN list, NEW second \in [DOMAIN list -> Int],
         \A i \in DOMAIN list : key[i] = <<list[i].sim, second[i]>>,
         NEW out, out = Sorted(list, key)
  PROVE  /\ ListOf(out, S) /\ Len(out) = Len(list)
         /\ \A m, n \in DOMAIN out : m < n => out[m].sim >= out[n].sim
<1>1. PICK R, places : R = Order(key) /\ places = Arranged(DOMAIN list, R)
  OBVIOUS
<1>2. \A i \in DOMAIN list : i \in Int /\ list[i].sim \in Int /\ second[i] \in Int
  BY DEF ListOf
<1>3. \A i, j \in DOMAIN list :
        <<i, j>> \in R <=>
          \/ list[i].sim > list[j].sim
          \/ list[i].sim = list[j].sim /\ second[i] > second[j]
          \/ list[i].sim = list[j].sim /\ second[i] = second[j] /\ i < j
  <2> SUFFICES ASSUME NEW i \in DOMAIN list, NEW j \in DOMAIN list
      PROVE  <<i, j>> \in R <=>
               \/ list[i].sim > list[j].sim
               \/ list[i].sim = list[j].sim /\ second[i] > second[j]
               \/ list[i].sim = list[j].sim /\ second[i] = second[j] /\ i < j
    OBVIOUS
  <2>1. <<i, j>> \in Order(key) <=>
          \/ key[i][1] > key[j][1]
          \/ key[i][1] = key[j][1] /\ key[i][2] > key[j][2]
          \/ key[i] = key[j] /\ i < j
    BY DEF Order
  <2>2. PICK a, b, c, d :
          a = list[i].sim /\ b = list[j].sim /\ c = second[i] /\ d = second[j]
    OBVIOUS
  <2>3. key[i] = <<a, c>> /\ key[j] = <<b, d>>  BY <2>2
  <2>4. <<i, j>> \in R <=> a > b \/ (a = b /\ c > d) \/ (a = b /\ c = d /\ i < j)
    BY ONLY <1>1, <2>1, <2>3
  <2>5. QED  BY ONLY <2>2, <2>4
<1>4. StrictOrder(DOMAIN list, R)
  <2>1. \A i \in DOMAIN list : <<i, i>> \notin R  BY <1>2, <1>3
  <2>2. \A i, j, k \in DOMAIN list : <<i, j>> \in R /\ <<j, k>> \in R => <<i, k>> \in R
    BY <1>2, <1>3
  <2>3. \A i, j \in DOMAIN list : i # j => <<i, j>> \in R \/ <<j, i>> \in R
    BY <1>2, <1>3
  <2>4. QED  BY <2>1, <2>2, <2>3 DEF StrictOrder
<1>5. out = SortOf(list, R)  BY <1>1 DEF Sorted, SortOf
<1>6. Sorts(list, S, R, places, out)
  BY ONLY ListOf(list, S), <1>1, <1>4, <1>5, SortLists, Zenon
<1>7. ASSUME NEW m \in DOMAIN out, NEW n \in DOMAIN out, m < n
      PROVE  out[m].sim >= out[n].sim
  <2>1. PICK i \in DOMAIN list, j \in DOMAIN list :
          out[m] = list[i] /\ out[n] = list[j] /\ <<i, j>> \in R
    BY <1>6, <1>7 DEF Sorts
  <2>2. list[i].sim >= list[j].sim  BY <1>2, <1>3, <2>1
  <2>3. QED  BY <2>1, <2>2
<1>8. QED  BY <1>6, <1>7 DEF Sorts

\* Without repetitions, some rows of S, and all that have a similarity.
HoldsSimilar(list, S) ==
  \E W \in SUBSET S : ListOf(list, W) /\ \A r \in S : r.sim > 0 => r \in W

\* The candidate window holds every row that has a similarity.
LEMMA WindowFacts ==
  ASSUME NEW Url, NEW Domain, NEW S \in SUBSET RowsOf(Url, Domain), NEW rows, ListOf(rows, S),
         \A x, y \in S : x.url = y.url => x = y,
         Len(rows) <= GateMinK + TopBySim, NEW k \in Nat
  PROVE  HoldsSimilar(candidate_rows(rows, k), S)
<1>1. PICK first \in Nat : /\ first = IF GateMinK > k THEN GateMinK ELSE k
                           /\ first >= GateMinK
  BY GateConstants
<1>2. PICK head : head = First(first, rows)
  OBVIOUS
<1>3. PICK H : H = {head[i] : i \in DOMAIN head}
  OBVIOUS
<1>4. /\ ListOf(head, H) /\ Len(head) = IF first < Len(rows) THEN first ELSE Len(rows)
      /\ H \subseteq S
  <2>1. /\ ListOf(head, H) /\ Len(head) = IF first < Len(rows) THEN first ELSE Len(rows)
        /\ \A i \in DOMAIN head : i \in DOMAIN rows /\ head[i] = rows[i]
    BY <1>2, <1>3, FirstLists DEF IsFirst
  <2>2. \A i \in DOMAIN rows : rows[i] \in S  BY DEF ListOf
  <2>3. QED  BY <1>3, <2>1, <2>2
<1>5. PICK sorted : sorted = Sorted(rows, BySim(rows))
  OBVIOUS
<1>6. ListOf(sorted, S)
  <2>1. PICK second \in [DOMAIN rows -> Int] : \A i \in DOMAIN rows : second[i] = 0
    <3>1. [i \in DOMAIN rows |-> 0] \in [DOMAIN rows -> Int]
      OBVIOUS
    <3>2. QED  BY <3>1
  <2>2. PICK key : key = BySim(rows)
    OBVIOUS
  <2>3. DOMAIN key = DOMAIN rows  BY <2>2 DEF BySim
  <2>4. \A i \in DOMAIN rows : key[i] = <<rows[i].sim, second[i]>>  BY <2>1, <2>2 DEF BySim
  <2>5. \A x \in S : x.sim \in Int  BY DEF RowsOf
  <2>6. QED  BY ONLY ListOf(rows, S), <1>5, <2>1, <2>2, <2>3, <2>4, <2>5, MostSimilarFirst
<1>7. PICK P : P = {r \in S : r.sim > 0 /\ r.url \notin Urls(head)}
  OBVIOUS
<1>8. PICK others : /\ candidate_rows(rows, k) = head \o First(TopBySim, others)
                    /\ others = FilterOf(sorted, P)
  <2> DEFINE Other(r) == r.sim > 0 /\ r.url \notin Urls(head)
  <2>1. candidate_rows(rows, k) = head \o First(TopBySim, Others(rows, head))
    BY <1>1, <1>2 DEF candidate_rows
  <2>2. Others(rows, head) = FilterOf(sorted, P)
    <3>1. \A i \in DOMAIN sorted : Other(sorted[i]) <=> sorted[i] \in P
      BY <1>6, <1>7 DEF ListOf
    <3>2. {i \in DOMAIN sorted : Other(sorted[i])} = {i \in DOMAIN sorted : sorted[i] \in P}
      BY <3>1
    <3>3. QED  BY <1>5, <3>2 DEF Others, Filter, FilterOf, PlacesOf
  <2>3. QED  BY <2>1, <2>2
<1>9. ListOf(others, P)
  <2>1. PICK places : places = PlacesOf(sorted, P)
    OBVIOUS
  <2>2. P \in SUBSET S  BY <1>7
  <2>3. Filters(sorted, P, places, others)
    BY ONLY <1>6, <1>8, <2>1, <2>2, FilterLists
  <2>4. QED  BY <2>3 DEF Filters
<1>10. H \cap P = {}
  <2>1. \A x \in H : x.url \in Urls(head)  BY <1>4 DEF ListOf, Urls
  <2>2. QED  BY <1>7, <2>1
<1>11. Len(others) \in Nat /\ Len(others) <= TopBySim
  <2>1. /\ IsFiniteSet(S) /\ Cardinality(S) = Len(rows) /\ Len(rows) \in Nat
        /\ IsFiniteSet(H) /\ Cardinality(H) = Len(head) /\ Len(head) \in Nat
        /\ IsFiniteSet(P) /\ Cardinality(P) = Len(others) /\ Len(others) \in Nat
    BY <1>4, <1>9, ListsCount
  <2>2. H \cup P \subseteq S  BY <1>4, <1>7
  <2>3. /\ IsFiniteSet(H \cup P)
        /\ Cardinality(H \cup P) = Cardinality(H) + Cardinality(P) - Cardinality(H \cap P)
    BY <2>1, FS_Union
  <2>4. Cardinality(H \cap P) = 0  BY <1>10, FS_EmptySet
  <2>5. Cardinality(H \cup P) <= Cardinality(S)  BY <2>1, <2>2, FS_Subset
  <2>6. PICK h \in Nat, p \in Nat, n \in Nat :
          h = Len(head) /\ p = Len(others) /\ n = Len(rows)
    BY <2>1
  <2>7. h + p <= n /\ n <= GateMinK + TopBySim /\ h = IF first < n THEN first ELSE n
    BY <1>4, <2>1, <2>3, <2>4, <2>5, <2>6
  <2>8. p <= TopBySim  BY ONLY <1>1, <2>6, <2>7, GateConstants
  <2>9. QED  BY <2>6, <2>8
<1>12. First(TopBySim, others) = others
  <2>1. PICK out : out = First(TopBySim, others)
    OBVIOUS
  <2>2. TopBySim \in Nat  BY GateConstants
  <2>3. IsFirst(out, TopBySim, others)  BY ONLY <1>9, <2>1, <2>2, FirstLists
  <2>4. QED  BY <1>11, <2>1, <2>3 DEF IsFirst
<1>13. ListOf(candidate_rows(rows, k), H \cup P)
  BY <1>4, <1>8, <1>9, <1>10, <1>12, ListsBoth
<1>14. ASSUME NEW r \in S, r.sim > 0  PROVE r \in H \cup P
  <2>1. CASE r.url \notin Urls(head)  BY <1>7, <1>14, <2>1
  <2>2. CASE r.url \in Urls(head)
    <3>1. PICK i \in DOMAIN head : head[i].url = r.url  BY <2>2 DEF Urls
    <3>2. head[i] \in H  BY <1>4 DEF ListOf
    <3>3. head[i] = r  BY <1>4, <3>1, <3>2
    <3>4. QED  BY <3>2, <3>3
  <2>3. QED  BY <2>1, <2>2
<1>15. H \cup P \in SUBSET S  BY <1>4, <1>7
<1>16. QED  BY <1>13, <1>14, <1>15 DEF HoldsSimilar

\* What the gate sees of a row.
Seen(r, jobs) == IF jobs THEN r ELSE Penalised(r)

\* It is a row with the same URL, and no more similar than it was.
LEMMA SeenFacts ==
  ASSUME NEW Url, NEW Domain, NEW r \in RowsOf(Url, Domain), NEW jobs \in BOOLEAN
  PROVE  /\ Seen(r, jobs) \in RowsOf(Url, Domain) /\ Seen(r, jobs).url = r.url
         /\ Seen(r, jobs).sim > 0 => r.sim > 0
BY PenaltyFacts DEF Seen

\* A list of S without repetitions, the most similar first.
Ranked(list, S) ==
  /\ ListOf(list, S)
  /\ \A m, n \in DOMAIN list : m < n => list[m].sim >= list[n].sim

\* The rows that pass the gate are the worthy ones, the most similar first.
LEMMA GatedFacts ==
  ASSUME NEW Url, NEW Domain, NEW S \in SUBSET RowsOf(Url, Domain), NEW rows, ListOf(rows, S),
         \A x, y \in S : x.url = y.url => x = y,
         Len(rows) <= GateMinK + TopBySim, NEW k \in Nat, NEW jobs \in BOOLEAN,
         NEW out, out = gate_local_rows(rows, k, jobs)
  PROVE  Ranked(out, Worth(rows, jobs)) /\ Worth(rows, jobs) \subseteq RowsOf(Url, Domain)
<1>1. PICK window : window = candidate_rows(rows, k)
  OBVIOUS
<1>2. PICK W \in SUBSET S : ListOf(window, W) /\ \A r \in S : r.sim > 0 => r \in W
  <2>1. HoldsSimilar(candidate_rows(rows, k), S)
    BY WindowFacts
  <2>2. QED  BY <1>1, <2>1 DEF HoldsSimilar
<1>3. PICK list : list = [i \in DOMAIN window |-> Seen(window[i], jobs)]
  OBVIOUS
<1>4. PICK T : T = {Seen(r, jobs) : r \in W}
  OBVIOUS
<1>5. \A r \in S : /\ Seen(r, jobs) \in RowsOf(Url, Domain) /\ Seen(r, jobs).url = r.url
                   /\ Seen(r, jobs).sim > 0 => r.sim > 0
  <2> SUFFICES ASSUME NEW r \in S
      PROVE  /\ Seen(r, jobs) \in RowsOf(Url, Domain) /\ Seen(r, jobs).url = r.url
             /\ Seen(r, jobs).sim > 0 => r.sim > 0
    OBVIOUS
  <2>1. r \in RowsOf(Url, Domain)
    OBVIOUS
  <2>2. QED  BY ONLY <2>1, jobs \in BOOLEAN, SeenFacts
<1>6. ListOf(list, T)
  <2>1. /\ DOMAIN list = DOMAIN window
        /\ \A i \in DOMAIN window : window[i] \in W /\ list[i] = Seen(window[i], jobs)
    BY <1>2, <1>3 DEF ListOf
  <2>2. \A i \in DOMAIN list : list[i] \in T  BY <1>4, <2>1
  <2>3. list \in Seq(T)
    <3>1. PICK N \in Nat : DOMAIN window = 1 .. N  BY <1>2 DEF ListOf
    <3>2. list \in [1 .. N -> T]  BY <1>3, <2>1, <2>2, <3>1
    <3>3. QED  BY ONLY <3>1, <3>2
  <2>4. \A x \in T : \E i \in DOMAIN list : list[i] = x
    <3> SUFFICES ASSUME NEW x \in T  PROVE \E i \in DOMAIN list : list[i] = x
      OBVIOUS
    <3>1. PICK r \in W : x = Seen(r, jobs)  BY <1>4
    <3>2. PICK i \in DOMAIN window : window[i] = r  BY <1>2 DEF ListOf
    <3>3. QED  BY <2>1, <3>1, <3>2
  <2>5. ASSUME NEW i \in DOMAIN list, NEW j \in DOMAIN list, list[i] = list[j]  PROVE i = j
    <3>1. PICK x \in W, y \in W : x = window[i] /\ y = window[j]  BY <2>1
    <3>2. Seen(x, jobs) = Seen(y, jobs)  BY <2>1, <2>5, <3>1
    <3>3. x.url = y.url  BY <1>5, <3>2
    <3>4. x = y  BY <3>3
    <3>5. QED  BY <1>2, <2>1, <3>1, <3>4 DEF ListOf
  <2>6. QED  BY <2>3, <2>4, <2>5 DEF ListOf
<1>7. PICK P : P = {r \in T : r.cov /\ r.sim >= MinSim /\ r.dist}
  OBVIOUS
<1>8. P = Worth(rows, jobs) /\ P \subseteq RowsOf(Url, Domain)
  <2>1. Worth(rows, jobs) = {r \in {Seen(rows[i], jobs) : i \in DOMAIN rows} :
                               r.cov /\ r.dist /\ r.sim >= MinSim}
    <3>1. \A i \in DOMAIN rows :
            (IF jobs THEN rows[i] ELSE job_board_penalty(rows)[i]) = Seen(rows[i], jobs)
      BY DEF Seen, job_board_penalty
    <3>2. QED  BY <3>1 DEF Worth
  <2>2. ASSUME NEW i \in DOMAIN rows, Seen(rows[i], jobs).sim >= MinSim
        PROVE  Seen(rows[i], jobs) \in T
    <3>1. rows[i] \in S  BY DEF ListOf
    <3>2. Seen(rows[i], jobs).sim > 0
      <4>1. Seen(rows[i], jobs).sim \in Nat  BY <1>5, <3>1 DEF RowsOf
      <4>2. QED  BY ONLY <2>2, <4>1, GateConstants
    <3>3. rows[i] \in W  BY <1>2, <1>5, <3>1, <3>2
    <3>4. QED  BY <1>4, <3>3
  <2>3. \A r \in T : \E i \in DOMAIN rows : r = Seen(rows[i], jobs)
    BY <1>4 DEF ListOf
  <2>4. P = Worth(rows, jobs)  BY <1>7, <2>1, <2>2, <2>3
  <2>5. T \subseteq RowsOf(Url, Domain)  BY <1>4, <1>5
  <2>6. QED  BY <1>7, <2>4, <2>5
<1>9. PICK passing : passing = FilterOf(list, P)
  OBVIOUS
<1>10. out = Sorted(passing, BySimAndScore(passing))
  <2>1. list = IF jobs THEN window ELSE job_board_penalty(window)
    <3>1. CASE jobs
      <4>1. \A i \in DOMAIN window : Seen(window[i], jobs) = window[i]  BY <3>1 DEF Seen
      <4>2. window = [i \in DOMAIN window |-> window[i]]  BY <1>2 DEF ListOf
      <4>3. QED  BY <1>3, <3>1, <4>1, <4>2
    <3>2. CASE ~ jobs
      <4>1. \A i \in DOMAIN window : Seen(window[i], jobs) = Penalised(window[i])
        BY <3>2 DEF Seen
      <4>2. QED  BY <1>3, <3>2, <4>1 DEF job_board_penalty
    <3>3. QED  BY <3>1, <3>2
  <2>2. {i \in DOMAIN list : passes_local_gate(list[i])} = {i \in DOMAIN list : list[i] \in P}
    <3>1. \A i \in DOMAIN list : passes_local_gate(list[i]) <=> list[i] \in P
      BY <1>6, <1>7 DEF ListOf, passes_local_gate
    <3>2. QED  BY <3>1
  <2>3. Filter(list, passes_local_gate) = passing
    BY <1>9, <2>2 DEF Filter, FilterOf, PlacesOf
  <2>4. QED  BY <1>1, <2>1, <2>3 DEF gate_local_rows
<1>11. ListOf(passing, P)
  <2>1. PICK places : places = PlacesOf(list, P)
    OBVIOUS
  <2>2. P \in SUBSET T  BY <1>7
  <2>3. Filters(list, P, places, passing)
    BY ONLY <1>6, <1>9, <2>1, <2>2, FilterLists
  <2>4. QED  BY <2>3 DEF Filters
<1>12. /\ ListOf(out, P)
       /\ \A m, n \in DOMAIN out : m < n => out[m].sim >= out[n].sim
  <2>1. PICK second : second = [i \in DOMAIN passing |-> passing[i].score]
    OBVIOUS
  <2>2. PICK key : key = BySimAndScore(passing)
    OBVIOUS
  <2>3. \A r \in P : r.sim \in Int /\ r.score \in Int  BY <1>8 DEF RowsOf
  <2>4. second \in [DOMAIN passing -> Int]  BY <1>11, <2>1, <2>3 DEF ListOf
  <2>5. DOMAIN key = DOMAIN passing  BY <2>2 DEF BySimAndScore
  <2>6. \A i \in DOMAIN passing : key[i] = <<passing[i].sim, second[i]>>
    BY <2>1, <2>2 DEF BySimAndScore
  <2>7. \A r \in P : r.sim \in Int  BY <2>3
  <2>8. QED  BY ONLY <1>10, <1>11, <2>2, <2>4, <2>5, <2>6, <2>7, MostSimilarFirst
<1>13. QED  BY <1>8, <1>12 DEF Ranked

\* What the cap has kept of the first n rows: out[i] was at at[i]; no domain has too
\* many, but those without one ("none"); a row that was dropped found its domain full of
\* rows that came before it.
DomainAt(out, domain) == {i \in DOMAIN out : out[i].dom = domain}
FullBefore(out, at, domain, j) ==
  Cardinality({i \in DomainAt(out, domain) : at[i] < j}) >= MaxPerDomain
KeptAt(none, base, n, out, at) ==
  /\ at \in [DOMAIN out -> 1 .. n]
  /\ \A i \in DOMAIN out : out[i] = base[at[i]]
  /\ \A i, j \in DOMAIN out : i < j => at[i] < at[j]
  /\ \A domain : domain # none => Cardinality(DomainAt(out, domain)) <= MaxPerDomain
  /\ \A j \in 1 .. n : \/ \E i \in DOMAIN out : at[i] = j
                       \/ base[j].dom # none /\ FullBefore(out, at, base[j].dom, j)
Capped(none, base, n, out) == \E at : KeptAt(none, base, n, out, at)

\* Some positions of a list are finitely many.
LEMMA SomePositions ==
  ASSUME NEW B, NEW out \in Seq(B), NEW T \in SUBSET DOMAIN out
  PROVE  IsFiniteSet(T) /\ Cardinality(T) \in Nat
<1>1. PICK n \in Nat : DOMAIN out = 1 .. n
  OBVIOUS
<1>2. IsFiniteSet(1 .. n)  BY FS_Interval
<1>3. IsFiniteSet(T)  BY <1>1, <1>2, FS_Subset
<1>4. QED  BY <1>3, FS_CardinalityType

\* A row of a full domain is dropped.
LEMMA CapDrops ==
  ASSUME NEW none, NEW B, NEW base \in Seq(B), NEW n \in Nat, n < Len(base),
         NEW out \in Seq(B), NEW at, KeptAt(none, base, n, out, at),
         NEW r, r = base[n + 1], r.dom # none, Full(out, r.dom)
  PROVE  KeptAt(none, base, n + 1, out, at)
<1>1. /\ at \in [DOMAIN out -> 1 .. n]
      /\ \A i \in DOMAIN out : out[i] = base[at[i]]
      /\ \A i, j \in DOMAIN out : i < j => at[i] < at[j]
      /\ \A domain : domain # none => Cardinality(DomainAt(out, domain)) <= MaxPerDomain
      /\ \A j \in 1 .. n : \/ \E i \in DOMAIN out : at[i] = j
                           \/ base[j].dom # none /\ FullBefore(out, at, base[j].dom, j)
  BY DEF KeptAt
<1>2. FullBefore(out, at, r.dom, n + 1)
  <2>1. \A i \in DOMAIN out : at[i] < n + 1  BY <1>1
  <2>2. {i \in DomainAt(out, r.dom) : at[i] < n + 1} = DomainAt(out, r.dom)
    BY <2>1 DEF DomainAt
  <2>3. Cardinality(DomainAt(out, r.dom)) >= MaxPerDomain  BY Zenon DEF Full, DomainAt
  <2>4. QED  BY <2>2, <2>3 DEF FullBefore
<1>3. ASSUME NEW j \in 1 .. n + 1
      PROVE  \/ \E i \in DOMAIN out : at[i] = j
             \/ base[j].dom # none /\ FullBefore(out, at, base[j].dom, j)
  <2>1. CASE j = n + 1  BY <1>2, <2>1
  <2>2. CASE j # n + 1
    <3>1. j \in 1 .. n  BY <2>2
    <3>2. QED  BY <1>1, <3>1
  <2>3. QED  BY <2>1, <2>2
<1>4. at \in [DOMAIN out -> 1 .. n + 1]
  <2>1. \A i \in DOMAIN out : at[i] \in 1 .. n + 1  BY <1>1
  <2>2. QED  BY <1>1, <2>1
<1>5. QED  BY <1>1, <1>3, <1>4 DEF KeptAt

\* A row of any other domain is kept.
LEMMA CapKeeps ==
  ASSUME NEW none, NEW B, NEW base \in Seq(B), NEW n \in Nat, n < Len(base),
         NEW out \in Seq(B), NEW at, KeptAt(none, base, n, out, at),
         NEW r \in B, r = base[n + 1], ~ (r.dom # none /\ Full(out, r.dom))
  PROVE  Capped(none, base, n + 1, Append(out, r))
<1>1. /\ at \in [DOMAIN out -> 1 .. n]
      /\ \A i \in DOMAIN out : out[i] = base[at[i]]
      /\ \A i, j \in DOMAIN out : i < j => at[i] < at[j]
      /\ \A domain : domain # none => Cardinality(DomainAt(out, domain)) <= MaxPerDomain
      /\ \A j \in 1 .. n : \/ \E i \in DOMAIN out : at[i] = j
                           \/ base[j].dom # none /\ FullBefore(out, at, base[j].dom, j)
  BY DEF KeptAt
<1>2. r.dom = none \/ ~ Full(out, r.dom)
  OBVIOUS
<1>3. PICK len \in Nat : len = Len(out) /\ DOMAIN out = 1 .. len
  OBVIOUS
<1>4. PICK new : new = Append(out, r)
  OBVIOUS
<1>5. /\ new \in Seq(B) /\ DOMAIN new = 1 .. len + 1
      /\ new[len + 1] = r /\ \A i \in 1 .. len : new[i] = out[i]
  BY <1>3, <1>4
<1>6. PICK to : to = [i \in 1 .. len + 1 |-> IF i = len + 1 THEN n + 1 ELSE at[i]]
  OBVIOUS
<1>7. /\ to \in [DOMAIN new -> 1 .. n + 1]
      /\ to[len + 1] = n + 1 /\ \A i \in 1 .. len : to[i] = at[i] /\ at[i] \in 1 .. n
  <2>1. \A i \in 1 .. len : at[i] \in 1 .. n /\ at[i] \in 1 .. n + 1
    BY ONLY <1>1, <1>3, n \in Nat
  <2>2. /\ to[len + 1] = n + 1 /\ \A i \in 1 .. len : to[i] = at[i]
    BY <1>6
  <2>3. \A i \in 1 .. len + 1 : to[i] \in 1 .. n + 1
    <3>1. \A i \in 1 .. len + 1 : i = len + 1 \/ i \in 1 .. len
      OBVIOUS
    <3>2. QED  BY <2>1, <2>2, <3>1
  <2>4. QED  BY <1>5, <1>6, <2>1, <2>2, <2>3
<1>8. \A i \in 1 .. len + 1 : i \in Int /\ (i = len + 1 \/ (i \in 1 .. len /\ i < len + 1))
  OBVIOUS
<1>9. \A i \in DOMAIN new : new[i] = base[to[i]]
  BY <1>1, <1>3, <1>5, <1>7, <1>8
<1>10. \A i, j \in DOMAIN new : i < j => to[i] < to[j]
  <2> SUFFICES ASSUME NEW i \in DOMAIN new, NEW j \in DOMAIN new, i < j
      PROVE  to[i] < to[j]
    OBVIOUS
  <2>1. i \in 1 .. len  BY <1>5, <1>8
  <2>2. CASE j = len + 1  BY <1>7, <2>1, <2>2
  <2>3. CASE j \in 1 .. len  BY <1>1, <1>3, <1>7, <2>1, <2>3
  <2>4. QED  BY <1>5, <1>8, <2>2, <2>3
<1>11. ASSUME NEW domain, domain # none
       PROVE  Cardinality(DomainAt(new, domain)) <= MaxPerDomain
  <2>1. IsFiniteSet(DomainAt(out, domain)) /\ Cardinality(DomainAt(out, domain)) \in Nat
    <3>1. DomainAt(out, domain) \in SUBSET DOMAIN out  BY DEF DomainAt
    <3>2. QED  BY <3>1, SomePositions
  <2>2. CASE r.dom # domain
    <3>1. DomainAt(new, domain) = DomainAt(out, domain)
      BY <1>3, <1>5, <1>8, <2>2 DEF DomainAt
    <3>2. QED  BY <1>1, <1>11, <3>1
  <2>3. CASE r.dom = domain
    <3>1. DomainAt(new, domain) = DomainAt(out, domain) \cup {len + 1}
      BY <1>3, <1>5, <1>8, <2>3 DEF DomainAt
    <3>2. len + 1 \notin DomainAt(out, domain)  BY <1>3 DEF DomainAt
    <3>3. Cardinality(DomainAt(new, domain)) = Cardinality(DomainAt(out, domain)) + 1
      BY <2>1, <3>1, <3>2, FS_AddElement
    <3>4. ~ (Cardinality(DomainAt(out, domain)) >= MaxPerDomain)
      BY <1>2, <1>11, <2>3 DEF Full, DomainAt
    <3>5. QED  BY <2>1, <3>3, <3>4, GateConstants
  <2>4. QED  BY <2>2, <2>3
<1>12. ASSUME NEW j \in 1 .. n + 1
       PROVE  \/ \E i \in DOMAIN new : to[i] = j
              \/ base[j].dom # none /\ FullBefore(new, to, base[j].dom, j)
  <2>1. CASE j = n + 1
    <3>1. len + 1 \in DOMAIN new /\ to[len + 1] = j  BY <1>5, <1>7, <2>1
    <3>2. QED  BY <3>1
  <2>2. CASE j # n + 1
    <3>1. j \in 1 .. n /\ ~ (n + 1 < j)  BY <2>2
    <3>2. CASE \E i \in DOMAIN out : at[i] = j
      <4>1. PICK i \in 1 .. len : at[i] = j  BY <1>3, <3>2
      <4>2. i \in DOMAIN new  BY <1>5, <4>1
      <4>3. QED  BY <1>7, <4>1, <4>2
    <3>3. CASE base[j].dom # none /\ FullBefore(out, at, base[j].dom, j)
      <4>1. PICK domain : domain = base[j].dom
        OBVIOUS
      <4>2. {i \in DomainAt(new, domain) : to[i] < j} = {i \in DomainAt(out, domain) : at[i] < j}
        BY <1>3, <1>5, <1>7, <1>8, <3>1 DEF DomainAt
      <4>3. FullBefore(new, to, domain, j)  BY <3>3, <4>1, <4>2 DEF FullBefore
      <4>4. QED  BY <3>3, <4>1, <4>3
    <3>4. QED  BY <1>1, <3>1, <3>2, <3>3
  <2>3. QED  BY <2>1, <2>2
<1>13. KeptAt(none, base, n + 1, new, to)
  BY <1>7, <1>9, <1>10, <1>11, <1>12 DEF KeptAt
<1>14. QED  BY <1>4, <1>13 DEF Capped

\* One row more.
LEMMA KeepCaps ==
  ASSUME NEW none, none = "", NEW B, NEW base \in Seq(B), NEW n \in Nat, n < Len(base),
         NEW out \in Seq(B), NEW r \in B, r = base[n + 1], Capped(none, base, n, out)
  PROVE  Capped(none, base, n + 1, Keep(out, r))
<1>1. Keep(out, r) = IF r.dom # none /\ Full(out, r.dom) THEN out ELSE Append(out, r)
  BY Zenon DEF Keep
<1>2. PICK at : KeptAt(none, base, n, out, at)  BY Zenon DEF Capped
<1>3. CASE r.dom # none /\ Full(out, r.dom)
  <2>1. KeptAt(none, base, n + 1, out, at)
    BY ONLY <1>2, <1>3, base \in Seq(B), n \in Nat, n < Len(base), out \in Seq(B),
            r = base[n + 1], CapDrops
  <2>2. Keep(out, r) = out  BY ONLY <1>1, <1>3
  <2>3. QED  BY ONLY <2>1, <2>2 DEF Capped
<1>4. CASE ~ (r.dom # none /\ Full(out, r.dom))
  <2>1. Capped(none, base, n + 1, Append(out, r))
    BY ONLY <1>2, <1>4, base \in Seq(B), n \in Nat, n < Len(base), out \in Seq(B), r \in B,
            r = base[n + 1], CapKeeps
  <2>2. Keep(out, r) = Append(out, r)  BY ONLY <1>1, <1>4
  <2>3. QED  BY ONLY <2>1, <2>2
<1>5. QED  BY ONLY <1>3, <1>4

\* What the cap does to a list.
LEMMA CapFacts ==
  ASSUME NEW none, none = "", NEW B, NEW base \in Seq(B)
  PROVE  /\ cap_per_domain(base) \in Seq(B)
         /\ Capped(none, base, Len(base), cap_per_domain(base))
<1> DEFINE N == Len(base)
           A == Seq(B)
           F == [ai \in A \X (1 .. N) |-> Keep(ai[1], base[ai[2]])]
           iter == CHOOSE it : it = [t \in SUBSET DOMAIN base |->
                     IF t = {} THEN <<>> ELSE Keep(it[t \ {Max(t)}], base[Max(t)])]
           f == [n \in 0 .. N |-> iter[1 .. n]]
<1>1. cap_per_domain(base) = iter[DOMAIN base]
  BY Zenon DEF cap_per_domain, FoldLeft, MapThenFoldSet
<1>2. \A out \in A : \A r \in B : Keep(out, r) \in A
  <2> SUFFICES ASSUME NEW out \in A, NEW r \in B  PROVE Keep(out, r) \in A
    OBVIOUS
  <2>1. Keep(out, r) = out \/ Keep(out, r) = Append(out, r)  BY Zenon DEF Keep
  <2>2. Append(out, r) \in A  BY ONLY out \in A, r \in B
  <2>3. QED  BY ONLY <2>1, <2>2, out \in A
<1>3. N \in Nat /\ DOMAIN base = 1 .. N /\ \A i \in 1 .. N : base[i] \in B
  BY ONLY base \in Seq(B)
<1>4. \A a \in A : \A i \in 1 .. N : F[<<a, i>>] = Keep(a, base[i])
  BY ONLY TRUE
<1>5. F \in [A \X (1 .. N) -> A]  BY ONLY <1>2, <1>3
<1>6. <<>> \in A
  BY ONLY TRUE
<1> HIDE DEF F, N, A
<1>7. PICK g : Folds(A, <<>>, N, F, g)
  BY ONLY <1>3, <1>5, <1>6, FoldExists
<1>8. ASSUME NEW t \in SUBSET (1 .. N)
      PROVE  g[t] = IF t = {} THEN <<>> ELSE Keep(g[t \ {Max(t)}], base[Max(t)])
  <2>1. CASE t = {}  BY ONLY <1>7, <2>1, t \in SUBSET (1 .. N) DEF Folds
  <2>2. CASE t # {}
    <3>1. Max(t) \in 1 .. N  BY ONLY <1>3, <2>2, MaxFacts, t \in SUBSET (1 .. N)
    <3>2. g[t \ {Max(t)}] \in A  BY ONLY <1>7, t \in SUBSET (1 .. N) DEF Folds
    <3>3. QED  BY ONLY <1>4, <1>7, <2>2, <3>1, <3>2, t \in SUBSET (1 .. N) DEF Folds
  <2>3. QED  BY ONLY <2>1, <2>2
<1>9. g = [t \in SUBSET DOMAIN base |->
            IF t = {} THEN <<>> ELSE Keep(g[t \ {Max(t)}], base[Max(t)])]
  BY ONLY <1>3, <1>7, <1>8 DEF Folds
<1>10. iter = [t \in SUBSET DOMAIN base |->
                IF t = {} THEN <<>> ELSE Keep(iter[t \ {Max(t)}], base[Max(t)])]
  BY ONLY <1>9
<1> HIDE DEF iter
<1>11. iter[{}] = <<>>
  <2>1. {} \in SUBSET DOMAIN base
    OBVIOUS
  <2>2. QED  BY ONLY <1>10, <2>1
<1>12. ASSUME NEW t \in SUBSET (1 .. N), t # {}, iter[t \ {Max(t)}] \in A
       PROVE  iter[t] = F[<<iter[t \ {Max(t)}], Max(t)>>]
  <2>1. Max(t) \in 1 .. N  BY ONLY <1>3, <1>12, MaxFacts
  <2>2. iter[t] = Keep(iter[t \ {Max(t)}], base[Max(t)])  BY ONLY <1>3, <1>10, <1>12
  <2>3. QED  BY ONLY <1>4, <1>12, <2>1, <2>2
<1>13. Runs(A, <<>>, N, F, f)
  <2>1. PICK fold : fold = iter
    OBVIOUS
  <2>2. PICK empty \in A : empty = <<>>  BY <1>6
  <2>3. fold[{}] = empty  BY ONLY <1>11, <2>1, <2>2
  <2>4. \A t \in SUBSET (1 .. N) :
          t # {} /\ fold[t \ {Max(t)}] \in A => fold[t] = F[<<fold[t \ {Max(t)}], Max(t)>>]
    BY ONLY <1>12, <2>1
  <2>5. Runs(A, empty, N, F, AfterEach(fold, N))
    BY ONLY <1>3, <1>5, <2>2, <2>3, <2>4, FoldRuns
  <2>6. QED  BY <2>1, <2>5, <2>2, Zenon DEF AfterEach
<1>14. /\ f \in [0 .. N -> A] /\ f[0] = <<>>
       /\ \A i \in 1 .. N : f[i] = F[<<f[i - 1], i>>]
  BY ONLY <1>13 DEF Runs
<1>15. cap_per_domain(base) = f[N]
  BY ONLY <1>1, <1>3
<1> HIDE DEF f
<1> DEFINE S == {n \in 0 .. N : Capped(none, base, n, f[n])}
<1>16. 0 \in S
  <2>1. /\ <<>> \in [DOMAIN <<>> -> 1 .. 0]
        /\ \A i, j \in DOMAIN <<>> : i < j => FALSE
        /\ \A i \in DOMAIN <<>> : FALSE
    BY ONLY TRUE
  <2>2. \A domain : Cardinality(DomainAt(<<>>, domain)) <= MaxPerDomain
    <3>1. \A domain : DomainAt(<<>>, domain) = {}  BY ONLY TRUE DEF DomainAt
    <3>2. Cardinality({}) = 0  BY ONLY FS_EmptySet
    <3>3. \A domain : Cardinality(DomainAt(<<>>, domain)) = 0  BY <3>1, <3>2, Zenon
    <3>4. MaxPerDomain \in Nat /\ 0 <= MaxPerDomain  BY ONLY GateConstants
    <3>5. QED  BY ONLY <3>3, <3>4
  <2>3. \A j \in 1 .. 0 : FALSE  BY ONLY TRUE
  <2>4. KeptAt(none, base, 0, <<>>, <<>>)
    BY ONLY <2>1, <2>2, <2>3 DEF KeptAt
  <2>5. 0 \in 0 .. N  BY ONLY <1>3
  <2>6. QED  BY ONLY <1>14, <2>4, <2>5 DEF Capped
<1>17. ASSUME NEW n \in Nat, n < N, n \in S  PROVE n + 1 \in S
  <2>1. /\ n \in 0 .. N /\ n + 1 \in 1 .. N /\ (n + 1) - 1 = n /\ n + 1 \in 0 .. N
    BY ONLY <1>3, <1>17, n \in Nat
  <2>2. PICK out \in A, r \in B : out = f[n] /\ r = base[n + 1]
    BY ONLY <1>3, <1>14, <2>1
  <2>3. f[n + 1] = Keep(out, r)
    <3>1. f[n + 1] = F[<<f[n], n + 1>>]  BY ONLY <1>14, <2>1
    <3>2. QED  BY ONLY <1>4, <2>1, <2>2, <3>1
  <2>4. Capped(none, base, n, out)  BY ONLY <1>17, <2>2
  <2>5. n < Len(base) /\ out \in Seq(B)  BY ONLY <1>17, <2>2 DEF N, A
  <2>6. Capped(none, base, n + 1, Keep(out, r))
    BY <2>2, <2>4, <2>5, KeepCaps, Zenon
  <2>7. QED  BY ONLY <2>1, <2>3, <2>6
<1> HIDE DEF S
<1>18. \A n \in 0 .. N : n \in S  BY ONLY <1>3, <1>16, <1>17, UpTo
<1>19. N \in 0 .. N  BY ONLY <1>3
<1>20. Capped(none, base, N, f[N])  BY ONLY <1>18, <1>19 DEF S
<1>21. f[N] \in Seq(B)  BY ONLY <1>14, <1>19 DEF A
<1>22. QED  BY ONLY <1>15, <1>20, <1>21 DEF N

\* What an answer of at most k rows, taken from those of B, has to be.
ServedFrom(none, B, k, out) ==
  LET served    == {out[i] : i \in DOMAIN out}
      Shares(r) == {q \in served : q.dom = r.dom}
  IN  /\ served \subseteq B /\ Len(out) = Cardinality(served)
      /\ \A i, j \in DOMAIN out : i < j => out[i].sim >= out[j].sim
      /\ \A r \in served : r.dom # none => Cardinality(Shares(r)) <= MaxPerDomain
      /\ \A r \in B \ served :
           \/ /\ r.dom # none
              /\ Cardinality({q \in Shares(r) : q.sim >= r.sim}) = MaxPerDomain
           \/ Len(out) = k /\ \A q \in served : q.sim >= r.sim

\* The first k of what the cap keeps of a list are such an answer.
LEMMA CappedAnswers ==
  ASSUME NEW none, NEW B, \A r \in B : r.sim \in Int, NEW base, Ranked(base, B),
         NEW capped \in Seq(B), Capped(none, base, Len(base), capped),
         NEW k \in Nat, NEW out, out = First(k, capped)
  PROVE  ServedFrom(none, B, k, out) /\ IsFirst(out, k, capped)
<1>1. /\ ListOf(base, B)
      /\ \A m, n \in DOMAIN base : m < n => base[m].sim >= base[n].sim
  BY DEF Ranked
<1>2. PICK N \in Nat : N = Len(base) /\ DOMAIN base = 1 .. N  BY <1>1 DEF ListOf
<1>3. PICK at :
        /\ at \in [DOMAIN capped -> 1 .. N]
        /\ \A i \in DOMAIN capped : capped[i] = base[at[i]]
        /\ \A i, j \in DOMAIN capped : i < j => at[i] < at[j]
        /\ \A domain : domain # none => Cardinality(DomainAt(capped, domain)) <= MaxPerDomain
        /\ \A j \in 1 .. N : \/ \E i \in DOMAIN capped : at[i] = j
                             \/ base[j].dom # none /\ FullBefore(capped, at, base[j].dom, j)
  BY <1>2 DEF Capped, KeptAt
<1>4. /\ \A i \in DOMAIN capped : i \in Int /\ at[i] \in Int /\ at[i] \in DOMAIN base
      /\ \A j \in DOMAIN base : j \in Int /\ base[j] \in B /\ base[j].sim \in Int
  BY <1>1, <1>2, <1>3 DEF ListOf
<1>5. PICK C : C = {capped[i] : i \in DOMAIN capped}
  OBVIOUS
<1>6. ListOf(capped, C)
  <2>1. capped \in Seq(C)  BY <1>5
  <2>2. \A x \in C : \E i \in DOMAIN capped : capped[i] = x  BY <1>5
  <2>3. ASSUME NEW i \in DOMAIN capped, NEW j \in DOMAIN capped, capped[i] = capped[j]
        PROVE  i = j
    <3>1. at[i] = at[j]  BY <1>1, <1>3, <1>4, <2>3 DEF ListOf
    <3>2. ~ (at[i] < at[j]) /\ ~ (at[j] < at[i])  BY <1>4, <3>1
    <3>3. ~ (i < j) /\ ~ (j < i)  BY <1>3, <3>2
    <3>4. QED  BY <1>4, <3>3
  <2>4. QED  BY <2>1, <2>2, <2>3 DEF ListOf
<1>7. PICK served : served = {out[i] : i \in DOMAIN out}
  OBVIOUS
<1>8. /\ ListOf(out, served) /\ IsFirst(out, k, capped)
      /\ Len(out) = IF k < Len(capped) THEN k ELSE Len(capped)
      /\ \A i \in DOMAIN out : i \in DOMAIN capped /\ i <= k /\ out[i] = capped[i]
      /\ \A i \in DOMAIN capped : i <= k => i \in DOMAIN out
  <2>1. IsFirst(out, k, capped)
    BY ONLY <1>6, k \in Nat, out = First(k, capped), FirstLists
  <2>2. QED  BY ONLY <1>7, <2>1 DEF IsFirst
<1>9. PICK len \in Nat : len = Len(capped) /\ DOMAIN capped = 1 .. len
  OBVIOUS
<1>10. served \subseteq B /\ IsFiniteSet(served) /\ Cardinality(served) = Len(out)
  <2>1. \A i \in DOMAIN out : out[i] \in B  BY <1>3, <1>4, <1>8
  <2>2. QED  BY <1>7, <1>8, <2>1, ListsCount
<1>11. \A i, j \in DOMAIN capped : i < j => capped[i].sim >= capped[j].sim
  <2> SUFFICES ASSUME NEW i \in DOMAIN capped, NEW j \in DOMAIN capped, i < j
      PROVE  capped[i].sim >= capped[j].sim
    OBVIOUS
  <2>1. at[i] < at[j] /\ at[i] \in DOMAIN base /\ at[j] \in DOMAIN base  BY <1>3, <1>4
  <2>2. base[at[i]].sim >= base[at[j]].sim  BY <1>1, <2>1
  <2>3. QED  BY <1>3, <2>2
<1>12. ASSUME NEW domain, domain # none
       PROVE  /\ IsFiniteSet({q \in served : q.dom = domain})
              /\ Cardinality({q \in served : q.dom = domain}) \in Nat
              /\ Cardinality({q \in served : q.dom = domain}) <= MaxPerDomain
  <2>1. PICK T : T = {i \in DOMAIN out : out[i].dom = domain}
    OBVIOUS
  <2>2. T \in SUBSET DOMAIN out  BY <2>1
  <2>3. PICK D : D = {q \in served : q.dom = domain} /\ D = At(out, T)
    BY <1>7, <2>1 DEF At
  <2>4. IsFiniteSet(D) /\ Cardinality(T) \in Nat /\ Cardinality(D) = Cardinality(T)
    BY ONLY <1>8, <2>2, <2>3, ListsSome
  <2>5. T \subseteq DomainAt(capped, domain)  BY <1>8, <2>1 DEF DomainAt
  <2>6. DomainAt(capped, domain) \in SUBSET DOMAIN capped  BY DEF DomainAt
  <2>7. IsFiniteSet(DomainAt(capped, domain)) /\ Cardinality(DomainAt(capped, domain)) \in Nat
    BY <2>6, SomePositions
  <2>8. Cardinality(T) <= Cardinality(DomainAt(capped, domain))  BY <2>5, <2>7, FS_Subset
  <2>9. Cardinality(DomainAt(capped, domain)) <= MaxPerDomain  BY <1>3, <1>12
  <2>10. PICK c \in Nat, d \in Nat :
           c = Cardinality(T) /\ d = Cardinality(DomainAt(capped, domain))
    BY <2>4, <2>7
  <2>11. c <= MaxPerDomain  BY ONLY <2>8, <2>9, <2>10, GateConstants
  <2>12. QED  BY <2>3, <2>4, <2>10, <2>11
<1>13. ASSUME NEW j \in DOMAIN base, NEW i \in DOMAIN capped, at[i] <= j, i \notin DOMAIN out
       PROVE  Len(out) = k /\ \A q \in served : q.sim >= base[j].sim
  <2>1. i > k /\ k < len
    <3>1. ~ (i <= k) /\ i \in Int /\ i <= len  BY <1>8, <1>9, <1>13
    <3>2. QED  BY ONLY <3>1, k \in Nat, len \in Nat
  <2>2. Len(out) = k  BY <1>8, <1>9, <2>1
  <2>3. ASSUME NEW q \in served  PROVE q.sim >= base[j].sim
    <3>1. PICK m \in DOMAIN out : q = out[m]  BY <1>7
    <3>2. m \in DOMAIN capped /\ m <= k /\ q = capped[m] /\ m \in Int /\ i \in Int
      BY <1>4, <1>8, <3>1
    <3>3. m < i  BY ONLY <2>1, <3>2, k \in Nat
    <3>4. at[m] < at[i] /\ at[m] \in Int /\ at[i] \in Int /\ j \in Int
      BY <1>3, <1>4, <3>2, <3>3
    <3>5. at[m] < j  BY ONLY <1>13, <3>4
    <3>6. at[m] \in DOMAIN base /\ q = base[at[m]]  BY <1>3, <1>4, <3>2
    <3>7. QED  BY <1>1, <3>5, <3>6
  <2>4. QED  BY <2>2, <2>3
<1>14. ASSUME NEW r \in B \ served
       PROVE  \/ /\ r.dom # none
                 /\ Cardinality({q \in {q \in served : q.dom = r.dom} : q.sim >= r.sim}) = MaxPerDomain
              \/ Len(out) = k /\ \A q \in served : q.sim >= r.sim
  <2>1. PICK j \in DOMAIN base : base[j] = r  BY <1>1 DEF ListOf
  <2>2. CASE \E i \in DOMAIN capped : at[i] = j
    <3>1. PICK i \in DOMAIN capped : at[i] = j  BY <2>2
    <3>2. i \notin DOMAIN out  BY <1>3, <1>7, <1>8, <1>14, <2>1, <3>1
    <3>3. at[i] <= j  BY <1>4, <3>1
    <3>4. QED  BY <1>13, <2>1, <3>2, <3>3
  <2>3. CASE r.dom # none /\ FullBefore(capped, at, r.dom, j)
    <3>1. PICK T : T = {i \in DomainAt(capped, r.dom) : at[i] < j}
      OBVIOUS
    <3>2. T \in SUBSET DOMAIN capped /\ \A i \in T : at[i] < j /\ capped[i].dom = r.dom
      BY <3>1 DEF DomainAt
    <3>3. Cardinality(T) >= MaxPerDomain  BY <2>3, <3>1 DEF FullBefore
    <3>4. CASE T \subseteq DOMAIN out
      <4>1. PICK I : /\ I = At(out, T)
                     /\ Cardinality(T) \in Nat /\ Cardinality(I) = Cardinality(T)
        <5>1. PICK I : I = At(out, T)
          OBVIOUS
        <5>2. T \in SUBSET DOMAIN out  BY <3>4
        <5>3. Cardinality(T) \in Nat /\ Cardinality(I) = Cardinality(T)
          BY ONLY <1>8, <5>1, <5>2, ListsSome
        <5>4. QED  BY <5>1, <5>3
      <4>2. PICK Q, D : /\ D = {q \in served : q.dom = r.dom}
                        /\ Q = {q \in D : q.sim >= r.sim}
        OBVIOUS
      <4>3. \A i \in T : out[i] \in served /\ out[i].dom = r.dom /\ out[i].sim >= r.sim
        <5> SUFFICES ASSUME NEW i \in T
            PROVE  out[i] \in served /\ out[i].dom = r.dom /\ out[i].sim >= r.sim
          OBVIOUS
        <5>1. /\ i \in DOMAIN out /\ out[i] = capped[i] /\ capped[i].dom = r.dom
              /\ i \in DOMAIN capped /\ at[i] < j
          BY <1>8, <3>2, <3>4
        <5>2. at[i] \in DOMAIN base /\ capped[i] = base[at[i]]  BY <1>3, <1>4, <5>1
        <5>3. base[at[i]].sim >= base[j].sim  BY <1>1, <5>1, <5>2
        <5>4. QED  BY <1>7, <2>1, <5>1, <5>2, <5>3
      <4>4. I \subseteq Q  BY <4>1, <4>2, <4>3 DEF At
      <4>5. IsFiniteSet(D) /\ Cardinality(D) \in Nat /\ Cardinality(D) <= MaxPerDomain
        BY <1>12, <2>3, <4>2
      <4>6. Q \subseteq D  BY <4>2
      <4>7. IsFiniteSet(Q) /\ Cardinality(Q) \in Nat /\ Cardinality(Q) <= Cardinality(D)
        BY <4>5, <4>6, FS_Subset, FS_CardinalityType
      <4>8. Cardinality(T) <= Cardinality(Q)  BY <4>1, <4>4, <4>7, FS_Subset
      <4>9. PICK t \in Nat, q \in Nat, d \in Nat :
              t = Cardinality(T) /\ q = Cardinality(Q) /\ d = Cardinality(D)
        BY <4>1, <4>5, <4>7
      <4>10. q = MaxPerDomain
        BY ONLY <3>3, <4>5, <4>7, <4>8, <4>9, GateConstants
      <4>11. QED  BY <2>3, <4>2, <4>9, <4>10
    <3>5. CASE ~ (T \subseteq DOMAIN out)
      <4>1. PICK i \in T : i \notin DOMAIN out  BY <3>5
      <4>2. i \in DOMAIN capped /\ at[i] <= j  BY <1>4, <3>2
      <4>3. QED  BY <1>13, <2>1, <4>1, <4>2
    <3>6. QED  BY <3>4, <3>5
  <2>4. QED  BY <1>2, <1>3, <2>1, <2>2, <2>3
<1>15. \A i, j \in DOMAIN out : i < j => out[i].sim >= out[j].sim  BY <1>8, <1>11
<1>16. \A r \in served : r.dom # none =>
         Cardinality({q \in served : q.dom = r.dom}) <= MaxPerDomain
  BY <1>12
<1>17. ServedFrom(none, B, k, out)
  BY <1>7, <1>10, <1>14, <1>15, <1>16 DEF ServedFrom
<1>18. QED  BY <1>8, <1>17

\* Every local answer keeps what the gate promises: for any rows with URLs of their own,
\* as many as the window reaches, any number wanted, and any thresholds.
THEOREM GateAlwaysSound ==
  ASSUME NEW Url, NEW Domain, NEW rows \in Seq(RowsOf(Url, Domain)),
         \A i, j \in DOMAIN rows : rows[i].url = rows[j].url => i = j,
         Len(rows) <= GateMinK + TopBySim, NEW k \in Nat, NEW jobs \in BOOLEAN
  PROVE  GateSound(rows, k, jobs)
<1>1. PICK none : none = ""
  OBVIOUS
<1>2. PICK S : S = {rows[i] : i \in DOMAIN rows}
  OBVIOUS
<1>3. /\ S \in SUBSET RowsOf(Url, Domain) /\ ListOf(rows, S)
      /\ \A x, y \in S : x.url = y.url => x = y
  <2>1. S \subseteq RowsOf(Url, Domain)  BY <1>2
  <2>2. rows \in Seq(S)  BY <1>2
  <2>3. \A x \in S : \E i \in DOMAIN rows : rows[i] = x  BY <1>2
  <2>4. \A i, j \in DOMAIN rows : rows[i] = rows[j] => i = j
    OBVIOUS
  <2>5. \A x, y \in S : x.url = y.url => x = y  BY <2>3
  <2>6. QED  BY <2>1, <2>2, <2>3, <2>4, <2>5 DEF ListOf
<1>4. PICK passing, worth : /\ passing = gate_local_rows(rows, k, jobs)
                            /\ worth = Worth(rows, jobs)
  OBVIOUS
<1>5. /\ ListOf(passing, worth) /\ \A r \in worth : r.sim \in Int
      /\ \A m, n \in DOMAIN passing : m < n => passing[m].sim >= passing[n].sim
  <2>1. Ranked(passing, worth) /\ worth \subseteq RowsOf(Url, Domain)
    BY <1>3, <1>4, GatedFacts
  <2>2. \A r \in RowsOf(Url, Domain) : r.sim \in Int  BY DEF RowsOf
  <2>3. QED  BY <2>1, <2>2 DEF Ranked
<1>6. IsFiniteSet(worth) /\ Cardinality(worth) = Len(passing) /\ Len(passing) \in Nat
  BY <1>5, ListsCount
<1>7. PICK best : best = {r \in worth : r.sim >= StrongSim}
  OBVIOUS
<1>8. PICK strong : strong = FilterOf(passing, best)
  OBVIOUS
<1>9. /\ ListOf(strong, best)
      /\ \A m, n \in DOMAIN strong : m < n => strong[m].sim >= strong[n].sim
  <2>1. PICK places : places = PlacesOf(passing, best)
    OBVIOUS
  <2>2. best \in SUBSET worth  BY <1>7
  <2>3. Filters(passing, best, places, strong)
    BY ONLY <1>5, <1>8, <2>1, <2>2, FilterLists
  <2>4. ASSUME NEW m \in DOMAIN strong, NEW n \in DOMAIN strong, m < n
        PROVE  strong[m].sim >= strong[n].sim
    <3>1. /\ places[m] \in DOMAIN passing /\ places[n] \in DOMAIN passing
          /\ strong[m] = passing[places[m]] /\ strong[n] = passing[places[n]]
          /\ places[m] < places[n]
      BY <2>3, <2>4 DEF Filters
    <3>2. QED  BY <1>5, <3>1
  <2>5. QED  BY <2>3, <2>4 DEF Filters
<1>10. Filter(passing, passes_partial_gate) = strong
  <2>1. \A i \in DOMAIN passing : passes_partial_gate(passing[i]) <=> passing[i] \in best
    BY <1>5, <1>7 DEF ListOf, passes_partial_gate
  <2>2. {i \in DOMAIN passing : passes_partial_gate(passing[i])}
          = {i \in DOMAIN passing : passing[i] \in best}
    BY <2>1
  <2>3. QED  BY <1>8, <2>2 DEF Filter, FilterOf, PlacesOf
<1>11. PICK enough \in BOOLEAN :
         enough <=> Len(passing) >= k \/ Len(passing) >= PartialMin
  OBVIOUS
<1>12. PICK list, B : list = (IF enough THEN passing ELSE strong)
                      /\ B = (IF enough THEN worth ELSE best)
  OBVIOUS
<1>13. /\ ListOf(list, B) /\ \A r \in B : r.sim \in Int
       /\ \A m, n \in DOMAIN list : m < n => list[m].sim >= list[n].sim
  BY <1>5, <1>7, <1>9, <1>12
<1>14. PICK capped, first : capped = cap_per_domain(list) /\ first = First(k, capped)
  OBVIOUS
<1>15. capped \in Seq(B) /\ Capped(none, list, Len(list), capped)
  <2>1. list \in Seq(B)  BY <1>13 DEF ListOf
  <2>2. QED  BY <1>1, <1>14, <2>1, CapFacts, Zenon
<1>16. ServedFrom(none, B, k, first) /\ IsFirst(first, k, capped)
  <2>1. Ranked(list, B) /\ \A r \in B : r.sim \in Int  BY <1>13 DEF Ranked
  <2>2. QED  BY ONLY <1>14, <1>15, <2>1, k \in Nat, CappedAnswers
<1>17. PICK out : out = choose_serving(rows, k, jobs)
  OBVIOUS
<1>18. /\ out.serve = (list # <<>>) /\ out.rows = first
       /\ out.degraded = (Len(passing) >= k /\ Len(capped) < k)
  BY <1>4, <1>10, <1>11, <1>12, <1>14, <1>17 DEF choose_serving
<1>19. out.serve <=> B # {}
  <2>1. list # <<>> <=> B # {}  BY <1>13 DEF ListOf
  <2>2. QED  BY <1>18, <2>1
<1>20. PICK served : served = {first[i] : i \in DOMAIN first}
  OBVIOUS
<1>21. /\ served \subseteq B /\ Len(first) = Cardinality(served)
       /\ \A i, j \in DOMAIN first : i < j => first[i].sim >= first[j].sim
       /\ \A r \in served :
            r.dom # none => Cardinality({q \in served : q.dom = r.dom}) <= MaxPerDomain
       /\ \A r \in B \ served :
            \/ /\ r.dom # none
               /\ Cardinality({q \in {q \in served : q.dom = r.dom} : q.sim >= r.sim})
                    = MaxPerDomain
            \/ Len(first) = k /\ \A q \in served : q.sim >= r.sim
  BY <1>16, <1>20 DEF ServedFrom
<1>22. \A r : SameDomain(served, r)
                = {q \in served : q.dom = r.dom /\ q.dom # none}
  BY <1>1, Zenon DEF SameDomain
<1>23. ASSUME NEW r, r.dom # none
       PROVE  SameDomain(served, r) = {q \in served : q.dom = r.dom}
  BY ONLY <1>22, <1>23
<1>24. ASSUME NEW r \in served  PROVE Cardinality(SameDomain(served, r)) <= MaxPerDomain
  <2>1. CASE r.dom # none  BY ONLY <1>21, <1>23, <2>1, r \in served
  <2>2. CASE r.dom = none
    <3>1. SameDomain(served, r) = {}  BY ONLY <1>22, <2>2
    <3>2. QED  BY ONLY <3>1, FS_EmptySet, GateConstants
  <2>3. QED  BY ONLY <2>1, <2>2
<1>25. ASSUME NEW r \in B \ served
       PROVE  \/ Cardinality({q \in SameDomain(served, r) : q.sim >= r.sim}) = MaxPerDomain
              \/ Len(first) = k /\ \A q \in served : q.sim >= r.sim
  <2>1. CASE r.dom # none
    <3>1. SameDomain(served, r) = {q \in served : q.dom = r.dom}  BY ONLY <1>23, <2>1
    <3>2. QED  BY ONLY <1>21, <3>1, r \in B \ served
  <2>2. CASE r.dom = none  BY ONLY <1>21, <2>2, r \in B \ served
  <2>3. QED  BY ONLY <2>1, <2>2
<1>26. out.degraded <=> Cardinality(worth) >= k /\ Len(out.rows) < k
  <2>1. PICK c \in Nat : c = Len(capped)  BY <1>15
  <2>2. Len(first) = IF k < c THEN k ELSE c  BY <1>16, <2>1 DEF IsFirst
  <2>4. Len(first) < k <=> c < k  BY ONLY <2>2, k \in Nat, c \in Nat
  <2>3. QED  BY ONLY <1>6, <1>18, <2>1, <2>4
<1>27. B = IF Cardinality(worth) >= k \/ Cardinality(worth) >= PartialMin
           THEN worth ELSE {r \in worth : r.sim >= StrongSim}
  BY ONLY <1>6, <1>7, <1>11, <1>12
<1>28. served = {out.rows[i] : i \in DOMAIN out.rows}  BY ONLY <1>18, <1>20
<1>29. out.serve =>
         /\ served \subseteq B /\ Len(out.rows) = Cardinality(served)
         /\ \A i, j \in DOMAIN out.rows : i < j => out.rows[i].sim >= out.rows[j].sim
         /\ \A r \in served : Cardinality(SameDomain(served, r)) <= MaxPerDomain
         /\ \A r \in B \ served :
              \/ Cardinality({q \in SameDomain(served, r) : q.sim >= r.sim}) = MaxPerDomain
              \/ Len(out.rows) = k /\ \A q \in served : q.sim >= r.sim
         /\ (out.degraded <=> Cardinality(worth) >= k /\ Len(out.rows) < k)
  BY ONLY <1>18, <1>21, <1>24, <1>25, <1>26
<1>30. AnswerSound(worth, k, out)
  BY ONLY <1>19, <1>27, <1>28, <1>29 DEF AnswerSound
<1>31. QED  BY <1>4, <1>17, <1>30, Zenon DEF GateSound

Described(kind) ==
  /\ kind.dom \in Domains /\ kind.sim \in Nat
  /\ kind.cov \in BOOLEAN /\ kind.dist \in BOOLEAN /\ kind.board \in BOOLEAN

\* What the searches of the model ask: short lists of rows, each with a URL of its own.
LEMMA QueriesTyped ==
  ASSUME NEW q \in Queries
  PROVE  /\ q.rows \in Seq(RowsOf(Nat, Domains)) /\ Len(q.rows) <= 3
         /\ \A i, j \in DOMAIN q.rows : q.rows[i].url = q.rows[j].url => i = j
         /\ q.k \in Nat /\ q.jobs \in BOOLEAN
<1>1. q.rows \in RowLists /\ q.k \in 1 .. 3 /\ q.jobs \in BOOLEAN  BY DEF Queries
<1>2. PICK kinds : kinds \in SeqOf(Kinds, 3) /\ q.rows = Rows(kinds)
  BY <1>1 DEF RowLists
<1>3. PICK len \in 0 .. 3 : kinds \in [1 .. len -> Kinds]
  BY <1>2 DEF SeqOf
<1>4. \A kind \in Kinds : Described(kind)
  <2>1. ASSUME NEW d \in Domains, NEW sim \in Nat,
               NEW c \in BOOLEAN, NEW t \in BOOLEAN, NEW b \in BOOLEAN
        PROVE  Described(Kind(d, sim, c, t, b))
    BY DEF Kind, Described
  <2>2. "a" \in Domains /\ "b" \in Domains
    BY Zenon DEF Domains
  <2>3. 0 \in Nat /\ 20 \in Nat /\ 40 \in Nat /\ 60 \in Nat /\ 80 \in Nat
    OBVIOUS
  <2>4. TRUE \in BOOLEAN /\ FALSE \in BOOLEAN
    OBVIOUS
  <2>5. ASSUME NEW d \in Domains, NEW sim \in {40, 60}
        PROVE  Described(Kind(d, sim, TRUE, TRUE, FALSE))
    <3>1. d \in Domains /\ sim \in Nat  BY <2>2, <2>3, Zenon
    <3>2. QED  BY <2>1, <2>4, <3>1, Zenon
  <2>6. ASSUME NEW kind \in Plain  PROVE Described(kind)
    <3>1. PICK ds \in Domains \X {40, 60} : kind = Kind(ds[1], ds[2], TRUE, TRUE, FALSE)
      BY DEF Plain
    <3>2. PICK d \in Domains, sim \in {40, 60} : d = ds[1] /\ sim = ds[2]
      BY ONLY ds \in Domains \X {40, 60}
    <3>3. QED  BY <2>5, <3>1, <3>2, Zenon
  <2>7. /\ Described(Kind("a", 60, TRUE, TRUE, TRUE)) /\ Described(Kind("b", 80, TRUE, TRUE, TRUE))
        /\ Described(Kind("a", 60, TRUE, FALSE, FALSE))
    BY <2>1, <2>2, <2>3, <2>4, Zenon
  <2>8. /\ Described(Kind("b", 60, FALSE, TRUE, FALSE))
        /\ Described(Kind("b", 0, TRUE, TRUE, FALSE)) /\ Described(Kind("a", 20, TRUE, TRUE, FALSE))
    BY <2>1, <2>2, <2>3, <2>4, Zenon
  <2>9. \A kind \in Special : Described(kind)
    BY <2>7, <2>8, Zenon DEF Special
  <2>10. QED  BY <2>6, <2>9, Zenon DEF Kinds
<1>5. PICK rows : rows = [i \in 1 .. len |->
     [url |-> i, dom |-> kinds[i].dom, sim |-> kinds[i].sim, cov |-> kinds[i].cov,
      dist |-> kinds[i].dist, board |-> kinds[i].board, score |-> 100 - i]]
  OBVIOUS
<1>6. q.rows = rows
  BY <1>2, <1>3, <1>5 DEF Rows
<1>7. \A i \in 1 .. len : rows[i] \in RowsOf(Nat, Domains) /\ rows[i].url = i
  BY <1>3, <1>4, <1>5 DEF RowsOf, Described
<1>8. DOMAIN rows = 1 .. len /\ rows \in [1 .. len -> RowsOf(Nat, Domains)]
  BY <1>5, <1>7
<1>9. rows \in Seq(RowsOf(Nat, Domains)) /\ Len(rows) = len
  BY <1>3, <1>8
<1>10. QED  BY <1>1, <1>3, <1>6, <1>7, <1>8, <1>9

\* Every local answer that is decided keeps what the gate promises, whatever
\* the gate's settings are, when its window reaches every row.
THEOREM LocalAnswers ==
  ASSUME 3 <= GateMinK + TopBySim
  PROVE  MCSpec => []LocalAnswersSound
<1> DEFINE Asked == query # NoQuery => query \in Queries
<1>1. MCInit => Asked  BY DEF MCInit
<1>2. Asked /\ [MCNext]_<<vars, query>> => Asked'
  BY DEF MCNext, Decided
<1>3. Asked => LocalAnswersSound
  <2> SUFFICES ASSUME query # NoQuery, query \in Queries
               PROVE  GateSound(query.rows, query.k, query.jobs)
    BY DEF LocalAnswersSound
  <2>1. PICK rows, k, jobs : rows = query.rows /\ k = query.k /\ jobs = query.jobs
    OBVIOUS
  <2>2. /\ rows \in Seq(RowsOf(Nat, Domains)) /\ Len(rows) <= 3
        /\ \A i, j \in DOMAIN rows : rows[i].url = rows[j].url => i = j
        /\ k \in Nat /\ jobs \in BOOLEAN
    BY <2>1, QueriesTyped
  <2>3. Len(rows) <= GateMinK + TopBySim
    <3>1. Len(rows) \in Nat  BY <2>2
    <3>2. QED  BY ONLY <2>2, <3>1, 3 <= GateMinK + TopBySim, GateConstants
  <2>4. GateSound(rows, k, jobs)
    BY ONLY <2>2, <2>3, GateAlwaysSound
  <2>5. QED  BY <2>1, <2>4
<1>4. QED  BY <1>1, <1>2, <1>3, PTL DEF MCSpec

=============================================================================
