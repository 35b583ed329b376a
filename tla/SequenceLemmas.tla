--------------------------- MODULE SequenceLemmas ---------------------------
(***************************************************************************)
(* Facts about the operators on lists that the models are built from: what *)
(* an arrangement is, what a fold computes, and induction over a range.    *)
(***************************************************************************)
EXTENDS Arrange, SequencesExt, FiniteSetTheorems, SequenceTheorems, WellFoundedInduction, TLAPS

\* A set of numbers that holds 0 and goes on from each of its members up to n
\* holds every number up to n.
LEMMA UpTo ==
  ASSUME NEW n \in Nat, NEW S, 0 \in S, \A i \in Nat : i < n /\ i \in S => i + 1 \in S
  PROVE  \A i \in 0 .. n : i \in S
<1> DEFINE missing == {i \in 0 .. n : i \notin S}
<1> SUFFICES ASSUME missing # {}  PROVE FALSE
  OBVIOUS
<1>1. missing \subseteq Nat
  OBVIOUS
<1>2. PICK R : R = OpToRel(<, Nat)
  OBVIOUS
<1>3. IsWellFoundedOn(R, Nat)  BY <1>2, NatLessThanWellFounded
<1>4. missing # {}
  OBVIOUS
<1>5. \A i \in 0 .. n : i \in S \/ i \in missing
  OBVIOUS
<1>6. \A i \in missing : i \in 0 .. n /\ i \notin S
  OBVIOUS
<1> HIDE DEF missing
<1>7. PICK least \in missing : \A j \in missing : <<j, least>> \notin R
  BY <1>1, <1>3, <1>4, WFMin
<1>8. \A j \in missing : ~(j < least)
  BY <1>1, <1>2, <1>7 DEF OpToRel
<1>9. least \in Nat /\ least # 0 /\ least - 1 \in 0 .. n /\ least - 1 < n /\ least - 1 < least
  BY <1>6
<1>10. least - 1 \in S  BY <1>5, <1>8, <1>9
<1>11. (least - 1) + 1 \in S  BY <1>9, <1>10
<1>12. QED  BY <1>6, <1>9, <1>11

\* What "before" has to be for an arrangement to be determined.
StrictOrder(S, Before) ==
  /\ \A x \in S : <<x, x>> \notin Before
  /\ \A x, y, z \in S : <<x, y>> \in Before /\ <<y, z>> \in Before => <<x, z>> \in Before
  /\ \A x, y \in S : x # y => <<x, y>> \in Before \/ <<y, x>> \in Before

\* Fewer elements stand before an element than before a later one, and an
\* element is not before itself.
LEMMA Ranks ==
  ASSUME NEW S, IsFiniteSet(S), NEW R, StrictOrder(S, R)
  PROVE  LET rank(x) == Cardinality({y \in S : <<y, x>> \in R}) IN
         /\ \A x \in S : rank(x) \in 0 .. Cardinality(S) - 1
         /\ \A x, y \in S : <<x, y>> \in R => rank(x) < rank(y)
<1> DEFINE Below(x) == {y \in S : <<y, x>> \in R}
<1>1. \A x : IsFiniteSet(Below(x)) /\ Cardinality(Below(x)) \in Nat
  BY FS_Subset, FS_CardinalityType
<1>2. ASSUME NEW x \in S  PROVE Cardinality(Below(x)) \in 0 .. Cardinality(S) - 1
  <2>1. Below(x) \subseteq S \ {x}  BY DEF StrictOrder
  <2>2. IsFiniteSet(S \ {x}) /\ Cardinality(S \ {x}) = Cardinality(S) - 1
    BY FS_RemoveElement
  <2>3. Cardinality(Below(x)) <= Cardinality(S \ {x})  BY <2>1, <2>2, FS_Subset
  <2>4. Cardinality(S) \in Nat  BY FS_CardinalityType
  <2> HIDE DEF Below
  <2>5. QED  BY <1>1, <2>2, <2>3, <2>4
<1>3. ASSUME NEW x \in S, NEW y \in S, <<x, y>> \in R
      PROVE  Cardinality(Below(x)) < Cardinality(Below(y))
  <2>1. Below(x) \subseteq Below(y)  BY <1>3 DEF StrictOrder
  <2>2. x \in Below(y) /\ x \notin Below(x)  BY <1>3 DEF StrictOrder
  <2>3. Below(x) # Below(y)  BY <2>2
  <2>4. Cardinality(Below(x)) <= Cardinality(Below(y))
    BY <1>1, <2>1, FS_Subset
  <2>5. Cardinality(Below(x)) # Cardinality(Below(y))
    BY <1>1, <2>1, <2>3, FS_Subset
  <2> HIDE DEF Below
  <2>6. QED  BY <1>1, <2>4, <2>5
<1>4. QED  BY <1>2, <1>3

\* An arrangement is a list of the set, each element once, in the order.
LEMMA ArrangedFacts ==
  ASSUME NEW S, IsFiniteSet(S), NEW R, StrictOrder(S, R)
  PROVE  /\ Cardinality(S) \in Nat
         /\ Arranged(S, R) \in Seq(S) /\ Len(Arranged(S, R)) = Cardinality(S)
         /\ \A x \in S : \E n \in DOMAIN Arranged(S, R) : Arranged(S, R)[n] = x
         /\ \A m, n \in DOMAIN Arranged(S, R) :
              m < n => <<Arranged(S, R)[m], Arranged(S, R)[n]>> \in R
<1> DEFINE size    == Cardinality(S)
           rank(x) == Cardinality({y \in S : <<y, x>> \in R})
           ranks   == [x \in S |-> rank(x)]
           seq     == Arranged(S, R)
<1>1. size \in Nat  BY FS_CardinalityType
<1>2. /\ \A x \in S : rank(x) \in 0 .. size - 1
      /\ \A x, y \in S : <<x, y>> \in R => rank(x) < rank(y)
  BY Ranks
<1>3. seq = [n \in 1 .. size |-> CHOOSE x \in S : rank(x) = n - 1]
  BY DEF Arranged
<1> HIDE DEF size, rank, seq
<1>4. \A x, y \in S : rank(x) = rank(y) => x = y
  <2> SUFFICES ASSUME NEW x \in S, NEW y \in S, x # y  PROVE rank(x) # rank(y)
    OBVIOUS
  <2>1. <<x, y>> \in R \/ <<y, x>> \in R  BY DEF StrictOrder
  <2>2. rank(x) \in Int /\ rank(y) \in Int  BY <1>1, <1>2
  <2>3. QED  BY <1>2, <2>1, <2>2
<1>5. \A m \in 0 .. size - 1 : \E x \in S : rank(x) = m
  <2> DEFINE numbers == 0 .. size - 1
             image   == {rank(x) : x \in S}
  <2>1. ranks \in Bijection(S, image)
    <3>1. ranks \in [S -> image]
      OBVIOUS
    <3>2. QED  BY <1>4, <3>1 DEF Bijection, Injection, Surjection, IsInjective
  <2>2. IsFiniteSet(image) /\ Cardinality(image) = size
    <3>1. ExistsBijection(S, image)  BY <2>1 DEF ExistsBijection
    <3> HIDE DEF image
    <3>2. QED  BY <3>1, FS_Bijection DEF size
  <2>3. IsFiniteSet(numbers) /\ Cardinality(numbers) = size
    BY <1>1, FS_Interval
  <2>4. image \subseteq numbers  BY <1>2
  <2>5. image = numbers  BY <2>2, <2>3, <2>4, FS_Subset
  <2>6. QED  BY <2>5
<1>6. \A n \in 1 .. size : seq[n] \in S /\ rank(seq[n]) = n - 1
  <2> SUFFICES ASSUME NEW n \in 1 .. size  PROVE seq[n] \in S /\ rank(seq[n]) = n - 1
    OBVIOUS
  <2>1. n - 1 \in 0 .. size - 1  BY <1>1
  <2>2. \E x \in S : rank(x) = n - 1  BY <1>5, <2>1
  <2>3. seq[n] = CHOOSE x \in S : rank(x) = n - 1  BY <1>3
  <2>4. QED  BY <2>2, <2>3
<1>7. seq \in Seq(S) /\ Len(seq) = size /\ DOMAIN seq = 1 .. size
  BY <1>1, <1>3, <1>6
<1>8. ASSUME NEW x \in S  PROVE \E n \in DOMAIN seq : seq[n] = x
  <2>1. rank(x) \in 0 .. size - 1  BY <1>2
  <2>2. PICK n : n = rank(x) + 1
    OBVIOUS
  <2>3. n \in 1 .. size /\ n - 1 = rank(x)  BY <1>1, <2>1, <2>2
  <2>4. seq[n] = x  BY <1>4, <1>6, <2>3
  <2>5. QED  BY <1>7, <2>3, <2>4
<1>9. ASSUME NEW m \in DOMAIN seq, NEW n \in DOMAIN seq, m < n
      PROVE  <<seq[m], seq[n]>> \in R
  <2>1. /\ seq[m] \in S /\ seq[n] \in S /\ m \in Int /\ n \in Int
        /\ rank(seq[m]) = m - 1 /\ rank(seq[n]) = n - 1
    BY <1>1, <1>6, <1>7, <1>9
  <2>2. seq[m] # seq[n]  BY <1>9, <2>1
  <2>3. ~(rank(seq[n]) < rank(seq[m]))  BY <1>9, <2>1
  <2>4. <<seq[n], seq[m]>> \notin R  BY <1>2, <2>1, <2>3
  <2>5. QED  BY <2>1, <2>2, <2>4 DEF StrictOrder
<1>10. QED  BY <1>1, <1>7, <1>8, <1>9 DEF size, seq

\* Where the elements of two lists are in the list of both.
LEMMA ConcatFacts ==
  ASSUME NEW S, NEW a \in Seq(S), NEW b \in Seq(S)
  PROVE  /\ a \o b \in Seq(S) /\ Len(a \o b) = Len(a) + Len(b)
         /\ Len(a) \in Nat /\ Len(b) \in Nat
         /\ DOMAIN a = 1 .. Len(a) /\ DOMAIN b = 1 .. Len(b)
         /\ DOMAIN (a \o b) = 1 .. Len(a) + Len(b)
         /\ \A n \in 1 .. Len(a) : (a \o b)[n] = a[n]
         /\ \A n \in 1 .. Len(b) : (a \o b)[Len(a) + n] = b[n]
         /\ \A n \in 1 .. Len(a) + Len(b) :
              n \in 1 .. Len(a) \/ n - Len(a) \in 1 .. Len(b)
<1>1. /\ Len(a) \in Nat /\ Len(b) \in Nat
      /\ DOMAIN a = 1 .. Len(a) /\ DOMAIN b = 1 .. Len(b)
  OBVIOUS
<1>2. a \o b \in Seq(S) /\ Len(a \o b) = Len(a) + Len(b)
  OBVIOUS
<1>3. \A n \in 1 .. Len(a) : (a \o b)[n] = a[n]
  OBVIOUS
<1>4. \A n \in 1 .. Len(b) : (a \o b)[Len(a) + n] = b[n]
  OBVIOUS
<1>5. \A n \in 1 .. Len(a) + Len(b) : n \in 1 .. Len(a) \/ n - Len(a) \in 1 .. Len(b)
  BY <1>1
<1>6. QED  BY <1>1, <1>2, <1>3, <1>4, <1>5

---------------------------------------------------------------------------
(* Folds.                                                                  *)

\* A set of positions that is not empty has a last one.
LEMMA LastExists ==
  ASSUME NEW L \in Nat, NEW S \in SUBSET (1 .. L), S # {}
  PROVE  \E i \in S : \A j \in S : i >= j
<1> DEFINE T == {L - i : i \in S}
<1>1. \A i \in S : i \in Nat /\ L - i \in Nat
  OBVIOUS
<1>2. T \subseteq Nat /\ T # {}
  BY <1>1
<1>3. PICK R : R = OpToRel(<, Nat)
  OBVIOUS
<1>4. IsWellFoundedOn(R, Nat)
  BY <1>3, NatLessThanWellFounded
<1> HIDE DEF T
<1>5. PICK t \in T : \A x \in T : <<x, t>> \notin R
  BY <1>2, <1>4, WFMin
<1>6. \A x \in T : ~(x < t)
  BY <1>2, <1>3, <1>5 DEF OpToRel
<1>7. PICK i \in S : t = L - i
  BY <1>5 DEF T
<1>8. ASSUME NEW j \in S
      PROVE  i >= j
  <2>1. L - j \in T
    BY DEF T
  <2>2. ~(L - j < t)
    BY <1>6, <2>1
  <2> QED
    BY <1>1, <1>7, <2>2
<1> QED
  BY <1>8

\* The largest of some positions.
LEMMA MaxFacts ==
  ASSUME NEW L \in Nat, NEW S \in SUBSET (1 .. L), S # {}
  PROVE  Max(S) \in S /\ \A j \in S : Max(S) >= j
BY LastExists DEF Max

\* The largest of the first n positions, and the others.
LEMMA MaxOfFirst ==
  ASSUME NEW n \in Nat, n # 0
  PROVE  Max(1 .. n) = n /\ (1 .. n) \ {Max(1 .. n)} = 1 .. n - 1 /\ 1 .. n # {}
<1>1. 1 .. n # {} /\ n \in 1 .. n
  OBVIOUS
<1>2. Max(1 .. n) \in 1 .. n /\ Max(1 .. n) >= n
  BY <1>1, MaxFacts
<1>3. Max(1 .. n) = n  BY <1>2
<1>4. (1 .. n) \ {n} = 1 .. n - 1
  OBVIOUS
<1>5. QED  BY <1>1, <1>3, <1>4

\* The states that a number of steps passes through, when G says what each does.
Runs(A, base, N, G, h) ==
  /\ h \in [0 .. N -> A]
  /\ h[0] = base
  /\ \A i \in 1 .. N : h[i] = G[<<h[i - 1], i>>]

\* They exist.
LEMMA RunExists ==
  ASSUME NEW A, NEW base \in A, NEW N \in Nat, NEW G \in [A \X (1 .. N) -> A]
  PROVE  \E h : Runs(A, base, N, G, h)
<1> DEFINE Upto(n, h) ==
             /\ h \in [0 .. n -> A]
             /\ h[0] = base
             /\ \A i \in 1 .. n : h[i] = G[<<h[i - 1], i>>]
           S == {n \in 0 .. N : \E h : Upto(n, h)}
<1>1. 0 \in S
  <2>1. Upto(0, [n \in 0 .. 0 |-> base])
    OBVIOUS
  <2> HIDE DEF Upto
  <2>2. 0 \in 0 .. N /\ \E h : Upto(0, h)  BY <2>1
  <2>3. QED  BY <2>2
<1>2. ASSUME NEW n \in Nat, n < N, n \in S  PROVE n + 1 \in S
  <2>1. PICK h : Upto(n, h)  BY <1>2
  <2>2. h \in [0 .. n -> A]  BY <2>1
  <2>3. h[n] \in A /\ n + 1 \in 1 .. N  BY <1>2, <2>2
  <2>4. PICK a \in A : a = G[<<h[n], n + 1>>]  BY <2>3
  <2> DEFINE k == [i \in 0 .. n + 1 |-> IF i = n + 1 THEN a ELSE h[i]]
  <2>5. k \in [0 .. n + 1 -> A]  BY <2>2
  <2>6. k[0] = base  BY <2>1
  <2>7. \A i \in 0 .. n : k[i] = h[i]  BY <2>2
  <2>8. ASSUME NEW i \in 1 .. n + 1  PROVE k[i] = G[<<k[i - 1], i>>]
    <3>1. CASE i = n + 1
      <4>1. k[i] = a /\ i - 1 = n /\ k[n] = h[n]  BY <2>7, <3>1
      <4>2. QED  BY <2>4, <3>1, <4>1
    <3>2. CASE i # n + 1
      <4>1. i \in 1 .. n /\ i \in 0 .. n /\ i - 1 \in 0 .. n  BY <3>2
      <4>2. h[i] = G[<<h[i - 1], i>>]  BY <2>1, <4>1
      <4>3. QED  BY <2>7, <4>1, <4>2
    <3>3. QED  BY <3>1, <3>2
  <2>9. Upto(n + 1, k)  BY <2>5, <2>6, <2>8
  <2> HIDE DEF k, Upto
  <2>10. QED  BY <1>2, <2>9
<1>3. N \in S
  <2> HIDE DEF S
  <2>1. \A i \in 0 .. N : i \in S  BY <1>1, <1>2, UpTo
  <2>2. QED  BY <2>1
<1>4. QED  BY <1>3 DEF Runs

\* Two runs that start alike and go alike for a while agree that far.
LEMMA RunsAgree ==
  ASSUME NEW m \in Nat, NEW h, NEW k, h[0] = k[0],
         \A i \in 1 .. m : h[i - 1] = k[i - 1] => h[i] = k[i]
  PROVE  \A i \in 0 .. m : h[i] = k[i]
<1> DEFINE S == {i \in 0 .. m : h[i] = k[i]}
<1>1. 0 \in S
  OBVIOUS
<1>2. ASSUME NEW i \in Nat, i < m, i \in S  PROVE i + 1 \in S
  <2>1. i + 1 \in 1 .. m /\ (i + 1) - 1 = i  BY <1>2
  <2>2. h[i] = k[i]  BY <1>2
  <2>3. h[i + 1] = k[i + 1]  BY <2>1, <2>2
  <2>4. QED  BY <2>1, <2>3
<1> HIDE DEF S
<1>3. \A i \in 0 .. m : i \in S  BY <1>1, <1>2, UpTo
<1>4. QED  BY <1>3 DEF S

\* A run that stands still from m on ends where it was at m.
LEMMA RunRests ==
  ASSUME NEW N \in Nat, NEW m \in 0 .. N, NEW h,
         \A i \in m + 1 .. N : h[i] = h[i - 1]
  PROVE  h[N] = h[m]
<1> DEFINE S == {i \in 0 .. N - m : h[m + i] = h[m]}
<1>1. 0 \in S
  OBVIOUS
<1>2. ASSUME NEW i \in Nat, i < N - m, i \in S  PROVE i + 1 \in S
  <2>1. m + (i + 1) \in m + 1 .. N /\ (m + (i + 1)) - 1 = m + i  BY <1>2
  <2>2. h[m + (i + 1)] = h[m + i]  BY <2>1
  <2>3. h[m + i] = h[m]  BY <1>2
  <2>4. QED  BY <1>2, <2>2, <2>3
<1> HIDE DEF S
<1>3. N - m \in Nat
  OBVIOUS
<1>4. N - m \in S  BY <1>1, <1>2, <1>3, UpTo
<1>5. m + (N - m) = N
  OBVIOUS
<1>6. QED  BY <1>4, <1>5 DEF S

\* The recursion over sets of positions that a fold is defined by.
Folds(A, base, N, F, g) ==
  /\ g \in [SUBSET (1 .. N) -> A]
  /\ \A t \in SUBSET (1 .. N) :
       g[t] = IF t = {} THEN base ELSE F[<<g[t \ {Max(t)}], Max(t)>>]

\* It has a solution: run over all positions, and let only those of the set count.
LEMMA FoldExists ==
  ASSUME NEW A, NEW base \in A, NEW N \in Nat, NEW F \in [A \X (1 .. N) -> A]
  PROVE  \E g : Folds(A, base, N, F, g)
<1> DEFINE G(t) == [ai \in A \X (1 .. N) |-> IF ai[2] \in t THEN F[ai] ELSE ai[1]]
           run(t) == CHOOSE h : Runs(A, base, N, G(t), h)
           g == [t \in SUBSET (1 .. N) |-> run(t)[N]]
<1>1. ASSUME NEW t  PROVE Runs(A, base, N, G(t), run(t))
  <2>1. G(t) \in [A \X (1 .. N) -> A]
    OBVIOUS
  <2> HIDE DEF G
  <2>2. QED  BY <2>1, RunExists
<1>2. \A t : \A a \in A : \A i \in 1 .. N :
        G(t)[<<a, i>>] = IF i \in t THEN F[<<a, i>>] ELSE a
  OBVIOUS
<1> HIDE DEF G, run
<1>3. ASSUME NEW t  PROVE
        /\ run(t) \in [0 .. N -> A] /\ run(t)[0] = base
        /\ \A i \in 1 .. N : run(t)[i] = IF i \in t THEN F[<<run(t)[i - 1], i>>] ELSE run(t)[i - 1]
  <2>1. run(t) \in [0 .. N -> A] /\ run(t)[0] = base  BY <1>1 DEF Runs
  <2>2. ASSUME NEW i \in 1 .. N
        PROVE  run(t)[i] = IF i \in t THEN F[<<run(t)[i - 1], i>>] ELSE run(t)[i - 1]
    <3>1. run(t)[i] = G(t)[<<run(t)[i - 1], i>>]  BY <1>1 DEF Runs
    <3>2. i - 1 \in 0 .. N
      OBVIOUS
    <3>3. run(t)[i - 1] \in A  BY <2>1, <3>2
    <3>4. QED  BY <1>2, <3>1, <3>3
  <2>3. QED  BY <2>1, <2>2
<1>4. g \in [SUBSET (1 .. N) -> A]  BY <1>3
<1>5. ASSUME NEW t \in SUBSET (1 .. N), t = {}  PROVE g[t] = base
  <2>1. ASSUME NEW i \in 0 + 1 .. N  PROVE run(t)[i] = run(t)[i - 1]
    <3>1. i \in 1 .. N /\ i \notin t  BY <1>5
    <3>2. QED  BY <1>3, <3>1
  <2>2. run(t)[N] = run(t)[0]  BY <2>1, RunRests
  <2>3. QED  BY <1>3, <2>2
<1>6. ASSUME NEW t \in SUBSET (1 .. N), t # {}
      PROVE  g[t] = F[<<g[t \ {Max(t)}], Max(t)>>]
  <2>1. PICK m \in t : m = Max(t) /\ \A j \in t : m >= j
    BY <1>6, MaxFacts
  <2>2. m \in 1 .. N
    OBVIOUS
  <2> DEFINE u == t \ {m}
  <2>3. \A i \in 1 .. m - 1 : run(t)[i - 1] = run(u)[i - 1] => run(t)[i] = run(u)[i]
    <3> SUFFICES ASSUME NEW i \in 1 .. m - 1, run(t)[i - 1] = run(u)[i - 1]
        PROVE run(t)[i] = run(u)[i]
      OBVIOUS
    <3>1. i \in 1 .. N /\ (i \in t <=> i \in u)  BY <2>2
    <3> HIDE DEF u
    <3>2. run(t)[i] = IF i \in t THEN F[<<run(t)[i - 1], i>>] ELSE run(t)[i - 1]
      BY <1>3, <3>1
    <3>3. run(u)[i] = IF i \in u THEN F[<<run(u)[i - 1], i>>] ELSE run(u)[i - 1]
      BY <1>3, <3>1
    <3>4. QED  BY <3>1, <3>2, <3>3
  <2>4. run(t)[m - 1] = run(u)[m - 1]
    <3>1. m - 1 \in Nat /\ m - 1 \in 0 .. m - 1  BY <2>2
    <3>2. run(t)[0] = run(u)[0]  BY <1>3
    <3>3. PICK h, k : h = run(t) /\ k = run(u)
      OBVIOUS
    <3>4. \A i \in 1 .. m - 1 : h[i - 1] = k[i - 1] => h[i] = k[i]  BY <2>3, <3>3
    <3>5. h[0] = k[0]  BY <3>2, <3>3
    <3>6. \A i \in 0 .. m - 1 : h[i] = k[i]  BY <3>1, <3>4, <3>5, RunsAgree
    <3>7. QED  BY <3>1, <3>3, <3>6
  <2>5. run(t)[N] = run(t)[m]
    <3>1. ASSUME NEW i \in m + 1 .. N  PROVE run(t)[i] = run(t)[i - 1]
      <4>1. i \in 1 .. N /\ i \notin t  BY <2>1, <2>2
      <4>2. QED  BY <1>3, <4>1
    <3>2. m \in 0 .. N  BY <2>2
    <3>3. QED  BY <3>1, <3>2, RunRests
  <2>6. run(u)[N] = run(u)[m - 1]
    <3>1. ASSUME NEW i \in (m - 1) + 1 .. N  PROVE run(u)[i] = run(u)[i - 1]
      <4>1. i \in 1 .. N /\ i \notin u  BY <2>1, <2>2
      <4>2. QED  BY <1>3, <4>1
    <3>2. m - 1 \in 0 .. N  BY <2>2
    <3>3. QED  BY <3>1, <3>2, RunRests
  <2>7. run(t)[m] = F[<<run(t)[m - 1], m>>]  BY <1>3, <2>2
  <2>8. g[t] = run(t)[N] /\ g[u] = run(u)[N]
    OBVIOUS
  <2> HIDE DEF g, u
  <2>9. g[t] = F[<<g[u], m>>]  BY <2>4, <2>5, <2>6, <2>7, <2>8
  <2>10. QED  BY <2>1, <2>9 DEF u
<1> HIDE DEF g
<1>7. Folds(A, base, N, F, g)  BY <1>4, <1>5, <1>6 DEF Folds
<1>8. QED  BY <1>7

\* What a fold comes to over the first n positions.
AfterEach(fold, N) == [n \in 0 .. N |-> fold[1 .. n]]

\* A fold runs through the states that its step function gives.
LEMMA FoldRuns ==
  ASSUME NEW A, NEW base \in A, NEW N \in Nat, NEW F \in [A \X (1 .. N) -> A], NEW fold,
         fold[{}] = base,
         \A t \in SUBSET (1 .. N) :
           t # {} /\ fold[t \ {Max(t)}] \in A => fold[t] = F[<<fold[t \ {Max(t)}], Max(t)>>]
  PROVE  Runs(A, base, N, F, AfterEach(fold, N))
<1> DEFINE f == [n \in 0 .. N |-> fold[1 .. n]]
           S == {n \in 0 .. N : f[n] \in A}
<1>1. f[0] = base
  <2>1. 1 .. 0 = {} /\ 0 \in 0 .. N
    OBVIOUS
  <2>2. QED  BY <2>1
<1>2. ASSUME NEW i \in 1 .. N, f[i - 1] \in A  PROVE f[i] = F[<<f[i - 1], i>>]
  <2>1. i \in Nat /\ i # 0 /\ i \in 0 .. N /\ i - 1 \in 0 .. N /\ 1 .. i \in SUBSET (1 .. N)
    OBVIOUS
  <2>2. Max(1 .. i) = i /\ (1 .. i) \ {Max(1 .. i)} = 1 .. i - 1 /\ 1 .. i # {}
    BY <2>1, MaxOfFirst
  <2>3. f[i] = fold[1 .. i] /\ f[i - 1] = fold[1 .. i - 1]  BY <2>1
  <2> HIDE DEF f
  <2>4. QED  BY <1>2, <2>1, <2>2, <2>3
<1> HIDE DEF f
<1>3. 0 \in S  BY <1>1
<1>4. ASSUME NEW n \in Nat, n < N, n \in S  PROVE n + 1 \in S
  <2>1. n + 1 \in 1 .. N /\ (n + 1) - 1 = n /\ n + 1 \in 0 .. N  BY <1>4
  <2>2. f[n] \in A  BY <1>4
  <2>3. f[n + 1] = F[<<f[n], n + 1>>]  BY <1>2, <2>1, <2>2
  <2>4. f[n + 1] \in A  BY <2>1, <2>2, <2>3
  <2>5. QED  BY <2>1, <2>4
<1> HIDE DEF S
<1>5. \A n \in 0 .. N : n \in S  BY <1>3, <1>4, UpTo
<1>6. \A n \in 0 .. N : f[n] \in A  BY <1>5 DEF S
<1>7. ASSUME NEW i \in 1 .. N  PROVE f[i] = F[<<f[i - 1], i>>]
  <2>1. i - 1 \in 0 .. N
    OBVIOUS
  <2>2. QED  BY <1>2, <1>6, <2>1
<1>8. f \in [0 .. N -> A]  BY <1>6 DEF f
<1>9. Runs(A, base, N, F, f)  BY <1>1, <1>7, <1>8 DEF Runs
<1>10. QED  BY <1>9 DEF AfterEach, f

---------------------------------------------------------------------------
(* Lists without repetitions.                                              *)

\* A list of a set holds each of its elements once.
ListOf(list, S) ==
  /\ list \in Seq(S)
  /\ \A x \in S : \E n \in DOMAIN list : list[n] = x
  /\ \A m, n \in DOMAIN list : list[m] = list[n] => m = n

\* The first n positions are n.
LEMMA FirstCount == \A n \in Nat : IsFiniteSet(1 .. n) /\ Cardinality(1 .. n) = n
BY FS_Interval

\* As many as it has places.
LEMMA ListsCount ==
  ASSUME NEW list, NEW S, ListOf(list, S)
  PROVE  /\ Len(list) \in Nat /\ DOMAIN list = 1 .. Len(list)
         /\ IsFiniteSet(S) /\ Cardinality(S) = Len(list)
<1>1. list \in Seq(S) /\ Len(list) \in Nat /\ DOMAIN list = 1 .. Len(list)
  BY DEF ListOf
<1>2. list \in Bijection(1 .. Len(list), S)
  BY <1>1 DEF ListOf, Bijection, Injection, Surjection, IsInjective
<1>3. IsFiniteSet(1 .. Len(list)) /\ Cardinality(1 .. Len(list)) = Len(list)
  BY <1>1, FS_Interval
<1>4. ExistsBijection(1 .. Len(list), S)  BY <1>2 DEF ExistsBijection
<1>5. IsFiniteSet(S) /\ Cardinality(S) = Cardinality(1 .. Len(list))
  BY <1>3, <1>4, FS_Bijection
<1>6. QED  BY <1>1, <1>3, <1>5

\* The places that a filter keeps, in their order.
LEMMA PlacesKept ==
  ASSUME NEW n \in Nat, NEW kept \in SUBSET (1 .. n), NEW R, NEW places,
         R = {ij \in kept \X kept : ij[1] < ij[2]}, places = Arranged(kept, R)
  PROVE  /\ Cardinality(kept) \in Nat /\ places \in Seq(kept)
         /\ Len(places) = Cardinality(kept) /\ DOMAIN places = 1 .. Cardinality(kept)
         /\ \A i \in kept : \E m \in DOMAIN places : places[m] = i
         /\ \A l, m \in DOMAIN places : l < m => places[l] < places[m]
<1>1. IsFiniteSet(kept)
  <2>1. IsFiniteSet(1 .. n)  BY FS_Interval
  <2>2. QED  BY <2>1, FS_Subset
<1>2. StrictOrder(kept, R)  BY DEF StrictOrder
<1>3. \A i, j : <<i, j>> \in R => i < j
  OBVIOUS
<1>4. StrictOrder(kept, R) /\ places = Arranged(kept, R)  BY <1>2
<1>5. /\ Cardinality(kept) \in Nat /\ places \in Seq(kept)
      /\ Len(places) = Cardinality(kept)
      /\ \A i \in kept : \E m \in DOMAIN places : places[m] = i
      /\ \A l, m \in DOMAIN places : l < m => <<places[l], places[m]>> \in R
  BY ONLY <1>1, <1>4, ArrangedFacts
<1>6. DOMAIN places = 1 .. Cardinality(kept)  BY <1>5
<1>7. \A l, m \in DOMAIN places : l < m => places[l] < places[m]
  BY ONLY <1>3, <1>5
<1>8. QED  BY <1>5, <1>6, <1>7

\* Where the elements of P are in a list, and the list of them.
PlacesOf(list, P) ==
  LET kept == {i \in DOMAIN list : list[i] \in P}
  IN  Arranged(kept, {ij \in kept \X kept : ij[1] < ij[2]})
FilterOf(list, P) == [n \in DOMAIN PlacesOf(list, P) |-> list[PlacesOf(list, P)[n]]]

\* What a filter does: out holds the elements of P, from these places, in their order.
Filters(list, P, places, out) ==
  /\ ListOf(out, P) /\ DOMAIN places = DOMAIN out
  /\ \A n \in DOMAIN out : places[n] \in DOMAIN list /\ out[n] = list[places[n]]
  /\ \A m, n \in DOMAIN out : m < n => places[m] < places[n]

\* A filter lists what passes, in the same order.
LEMMA FilterLists ==
  ASSUME NEW list, NEW S, ListOf(list, S), NEW P \in SUBSET S, NEW places, NEW out,
         places = PlacesOf(list, P), out = FilterOf(list, P)
  PROVE  Filters(list, P, places, out)
<1>0. PICK kept : /\ kept = {i \in DOMAIN list : list[i] \in P}
                  /\ places = Arranged(kept, {ij \in kept \X kept : ij[1] < ij[2]})
                  /\ out = [n \in DOMAIN places |-> list[places[n]]]
  BY DEF PlacesOf, FilterOf
<1>1. list \in Seq(S) /\ Len(list) \in Nat /\ DOMAIN list = 1 .. Len(list)
  BY DEF ListOf
<1>2. /\ Cardinality(kept) \in Nat /\ places \in Seq(kept)
      /\ Len(places) = Cardinality(kept) /\ DOMAIN places = 1 .. Cardinality(kept)
      /\ \A i \in kept : \E m \in DOMAIN places : places[m] = i
      /\ \A l, m \in DOMAIN places : l < m => places[l] < places[m]
  <2>1. PICK N \in Nat : N = Len(list)  BY <1>1
  <2>2. kept \in SUBSET (1 .. N)  BY <1>0, <1>1, <2>1
  <2>3. PICK R : R = {ij \in kept \X kept : ij[1] < ij[2]} /\ places = Arranged(kept, R)
    BY <1>0
  <2> DEFINE Kept(seq) ==
        /\ Cardinality(kept) \in Nat /\ seq \in Seq(kept)
        /\ Len(seq) = Cardinality(kept) /\ DOMAIN seq = 1 .. Cardinality(kept)
        /\ \A i \in kept : \E m \in DOMAIN seq : seq[m] = i
        /\ \A l, m \in DOMAIN seq : l < m => seq[l] < seq[m]
  <2>4. \A seq : seq = Arranged(kept, R) => Kept(seq)
    BY ONLY <2>1, <2>2, <2>3, PlacesKept
  <2> HIDE DEF Kept
  <2>5. Kept(places)  BY ONLY <2>3, <2>4
  <2>6. QED  BY ONLY <2>5 DEF Kept
<1>3. \A n \in DOMAIN places : places[n] \in DOMAIN list /\ places[n] \in Int /\ list[places[n]] \in P
  BY <1>0, <1>1, <1>2
<1>4. out \in Seq(P) /\ Len(out) = Cardinality(kept) /\ DOMAIN out = DOMAIN places
  <2>1. \A n \in DOMAIN places : list[places[n]] \in P  BY <1>3
  <2>2. out \in [DOMAIN places -> P]  BY <1>0, <2>1
  <2>3. PICK N \in Nat : N = Cardinality(kept)  BY <1>2
  <2>4. out \in [1 .. N -> P]  BY <1>2, <2>2, <2>3
  <2>5. out \in Seq(P) /\ Len(out) = N  BY ONLY <2>3, <2>4
  <2>6. QED  BY <2>2, <2>3, <2>5
<1>5. ASSUME NEW x \in P  PROVE \E n \in DOMAIN out : out[n] = x
  <2>1. PICK i \in DOMAIN list : list[i] = x  BY DEF ListOf
  <2>2. i \in kept  BY <1>0, <2>1
  <2>3. PICK m \in DOMAIN places : places[m] = i  BY <1>2, <2>2
  <2>4. QED  BY <1>0, <1>4, <2>1, <2>3
<1>6. ASSUME NEW m \in DOMAIN out, NEW n \in DOMAIN out, out[m] = out[n]  PROVE m = n
  <2>1. m \in DOMAIN places /\ n \in DOMAIN places /\ m \in Int /\ n \in Int
    BY <1>2, <1>4
  <2>2. list[places[m]] = list[places[n]]  BY <1>0, <1>6, <2>1
  <2>3. places[m] = places[n]  BY <1>3, <2>1, <2>2 DEF ListOf
  <2>4. places[m] \in Int /\ places[n] \in Int  BY <1>3, <2>1
  <2>5. ~(places[m] < places[n]) /\ ~(places[n] < places[m])  BY <2>3, <2>4
  <2>6. ~(m < n) /\ ~(n < m)  BY <1>2, <2>1, <2>5
  <2>7. QED  BY <2>1, <2>6
<1>7. ListOf(out, P)  BY <1>4, <1>5, <1>6 DEF ListOf
<1>8. \A n \in DOMAIN out : places[n] \in DOMAIN list /\ out[n] = list[places[n]]
  BY <1>0, <1>3, <1>4
<1>9. \A m, n \in DOMAIN out : m < n => places[m] < places[n]
  BY ONLY <1>2, <1>4
<1>10. QED  BY <1>4, <1>7, <1>8, <1>9 DEF Filters

\* A list in another order.
SortOf(list, R) == [n \in DOMAIN list |-> list[Arranged(DOMAIN list, R)[n]]]

\* What a sort does: out holds the same elements, from these places, in the order.
Sorts(list, S, R, places, out) ==
  /\ ListOf(out, S) /\ Len(out) = Len(list) /\ DOMAIN out = DOMAIN list
  /\ \A n \in DOMAIN out : places[n] \in DOMAIN list /\ out[n] = list[places[n]]
  /\ \A m, n \in DOMAIN out : m < n => <<places[m], places[n]>> \in R
  /\ \A i \in DOMAIN list : \E n \in DOMAIN out : places[n] = i

\* Sorting a list lists the same set, in the order of the sort.
LEMMA SortLists ==
  ASSUME NEW list, NEW S, ListOf(list, S), NEW R, StrictOrder(DOMAIN list, R),
         NEW places, places = Arranged(DOMAIN list, R), NEW out, out = SortOf(list, R)
  PROVE  Sorts(list, S, R, places, out)
<1>0. out = [n \in DOMAIN list |-> list[places[n]]]
  BY DEF SortOf
<1>1. list \in Seq(S) /\ Len(list) \in Nat /\ DOMAIN list = 1 .. Len(list)
  BY DEF ListOf
<1>2. IsFiniteSet(DOMAIN list) /\ Cardinality(DOMAIN list) = Len(list)
  <2>1. PICK N \in Nat : N = Len(list)  BY <1>1
  <2>2. IsFiniteSet(1 .. N) /\ Cardinality(1 .. N) = N
    BY FirstCount
  <2>3. DOMAIN list = 1 .. N  BY <1>1, <2>1
  <2>4. QED  BY ONLY <2>1, <2>2, <2>3
<1>3. /\ places \in Seq(DOMAIN list) /\ Len(places) = Len(list)
      /\ \A i \in DOMAIN list : \E n \in DOMAIN places : places[n] = i
      /\ \A m, n \in DOMAIN places : m < n => <<places[m], places[n]>> \in R
  BY <1>2, ArrangedFacts
<1>4. DOMAIN places = DOMAIN list /\ \A n \in DOMAIN places : places[n] \in DOMAIN list
  BY <1>1, <1>3
<1>5. out \in Seq(S) /\ Len(out) = Len(list) /\ DOMAIN out = DOMAIN list
  <2>1. \A n \in 1 .. Len(list) : list[places[n]] \in S  BY <1>1, <1>4
  <2>2. out \in [1 .. Len(list) -> S]  BY <1>0, <1>1, <2>1
  <2>3. QED  BY <1>0, <1>1, <2>2
<1>6. ASSUME NEW x \in S  PROVE \E n \in DOMAIN out : out[n] = x
  <2>1. PICK i \in DOMAIN list : list[i] = x  BY DEF ListOf
  <2>2. PICK n \in DOMAIN places : places[n] = i  BY <1>3, <2>1
  <2>3. QED  BY <1>0, <1>4, <1>5, <2>1, <2>2
<1>7. ASSUME NEW m \in DOMAIN out, NEW n \in DOMAIN out, out[m] = out[n]  PROVE m = n
  <2>1. m \in DOMAIN places /\ n \in DOMAIN places /\ m \in Int /\ n \in Int
    BY <1>1, <1>4, <1>5
  <2>2. list[places[m]] = list[places[n]]  BY <1>0, <1>4, <1>7, <2>1
  <2>3. places[m] = places[n]  BY <1>4, <2>1, <2>2 DEF ListOf
  <2>4. <<places[m], places[n]>> \notin R /\ <<places[n], places[m]>> \notin R
    BY <1>4, <2>1, <2>3 DEF StrictOrder
  <2>5. ~(m < n) /\ ~(n < m)  BY <1>3, <2>1, <2>4
  <2>6. QED  BY <2>1, <2>5
<1>8. ListOf(out, S)  BY <1>5, <1>6, <1>7 DEF ListOf
<1>9. /\ \A n \in DOMAIN out : places[n] \in DOMAIN list /\ out[n] = list[places[n]]
      /\ \A m, n \in DOMAIN out : m < n => <<places[m], places[n]>> \in R
      /\ \A i \in DOMAIN list : \E n \in DOMAIN out : places[n] = i
  <2>1. \A n \in DOMAIN list : places[n] \in DOMAIN list  BY <1>4
  <2>2. \A n \in DOMAIN list : out[n] = list[places[n]]  BY <1>0
  <2>3. \A m, n \in DOMAIN list : m < n => <<places[m], places[n]>> \in R
    BY ONLY <1>3, <1>4
  <2>4. \A i \in DOMAIN list : \E n \in DOMAIN list : places[n] = i
    BY ONLY <1>3, <1>4
  <2>5. QED  BY ONLY <1>5, <2>1, <2>2, <2>3, <2>4
<1>10. QED  BY ONLY <1>5, <1>8, <1>9 DEF Sorts

\* Two lists with nothing in common, one after the other.
LEMMA ListsBoth ==
  ASSUME NEW a, NEW A, ListOf(a, A), NEW b, NEW B, ListOf(b, B), A \cap B = {}
  PROVE  ListOf(a \o b, A \cup B)
<1> DEFINE both == a \o b
           S    == A \cup B
<1>1. a \in Seq(S) /\ b \in Seq(S)  BY DEF ListOf
<1>2. PICK la \in Nat, lb \in Nat : la = Len(a) /\ lb = Len(b)  BY DEF ListOf
<1>3. /\ both \in Seq(S) /\ DOMAIN a = 1 .. la /\ DOMAIN b = 1 .. lb
      /\ DOMAIN both = 1 .. la + lb
      /\ \A n \in 1 .. la : both[n] = a[n]
      /\ \A n \in 1 .. lb : both[la + n] = b[n]
      /\ \A n \in 1 .. la + lb : n \in 1 .. la \/ n - la \in 1 .. lb
  <2> HIDE DEF S
  <2>1. QED  BY <1>1, <1>2, ConcatFacts
<1> HIDE DEF both
<1>4. /\ \A n \in 1 .. la : a[n] \in A
      /\ \A n \in 1 .. lb : b[n] \in B
  BY <1>3 DEF ListOf
<1>5. \A n \in 1 .. la + lb :
        \/ n \in 1 .. la /\ both[n] = a[n]
        \/ n - la \in 1 .. lb /\ both[n] = b[n - la] /\ n = la + (n - la)
  <2> SUFFICES ASSUME NEW n \in 1 .. la + lb, n \notin 1 .. la
      PROVE  n - la \in 1 .. lb /\ both[n] = b[n - la] /\ n = la + (n - la)
    BY <1>3
  <2>1. n - la \in 1 .. lb /\ n = la + (n - la)  BY <1>3
  <2>2. QED  BY <1>3, <2>1
<1>6. ASSUME NEW x \in S  PROVE \E n \in DOMAIN both : both[n] = x
  <2>1. CASE x \in A
    <3>1. PICK n \in 1 .. la : a[n] = x  BY <1>3, <2>1 DEF ListOf
    <3>2. QED  BY <1>3, <3>1
  <2>2. CASE x \in B
    <3>1. PICK n \in 1 .. lb : b[n] = x  BY <1>3, <2>2 DEF ListOf
    <3>2. la + n \in 1 .. la + lb  BY <3>1
    <3>3. QED  BY <1>3, <3>1, <3>2
  <2>3. QED  BY <2>1, <2>2
<1>7. ASSUME NEW m \in DOMAIN both, NEW n \in DOMAIN both, both[m] = both[n]  PROVE m = n
  <2>1. m \in 1 .. la + lb /\ n \in 1 .. la + lb /\ m \in Int /\ n \in Int  BY <1>3
  <2>2. CASE m \in 1 .. la /\ n \in 1 .. la
    <3>1. a[m] = a[n]  BY <1>3, <1>7, <2>2
    <3>2. QED  BY <1>3, <2>2, <3>1 DEF ListOf
  <2>3. CASE m \notin 1 .. la /\ n \notin 1 .. la
    <3>1. /\ m - la \in 1 .. lb /\ n - la \in 1 .. lb /\ b[m - la] = b[n - la]
      BY <1>5, <1>7, <2>1, <2>3
    <3>2. m - la = n - la  BY <1>3, <3>1 DEF ListOf
    <3>3. QED  BY <2>1, <3>2
  <2>4. CASE m \in 1 .. la /\ n \notin 1 .. la
    <3>1. both[m] \in A /\ both[n] \in B  BY <1>4, <1>5, <2>1, <2>4, <1>3
    <3>2. QED  BY <1>7, <3>1
  <2>5. CASE m \notin 1 .. la /\ n \in 1 .. la
    <3>1. both[n] \in A /\ both[m] \in B  BY <1>4, <1>5, <2>1, <2>5, <1>3
    <3>2. QED  BY <1>7, <3>1
  <2>6. QED  BY <2>2, <2>3, <2>4, <2>5
<1>8. QED  BY <1>3, <1>6, <1>7 DEF ListOf, both

\* What is at some places of a list.
At(list, T) == {list[i] : i \in T}

\* Some places of a list hold as many elements.
LEMMA ListsSome ==
  ASSUME NEW list, NEW S, ListOf(list, S), NEW T \in SUBSET DOMAIN list,
         NEW image, image = At(list, T)
  PROVE  /\ IsFiniteSet(T) /\ Cardinality(T) \in Nat
         /\ IsFiniteSet(image) /\ Cardinality(image) = Cardinality(T)
<1> DEFINE f == [i \in T |-> list[i]]
<1>0. image = {list[i] : i \in T}  BY DEF At
<1>1. IsFiniteSet(T) /\ Cardinality(T) \in Nat
  <2>1. PICK n \in Nat : DOMAIN list = 1 .. n  BY DEF ListOf
  <2>2. IsFiniteSet(1 .. n)  BY FirstCount
  <2>3. IsFiniteSet(T)  BY <2>1, <2>2, FS_Subset
  <2>4. QED  BY <2>3, FS_CardinalityType
<1>2. f \in Bijection(T, image)
  <2>1. f \in [T -> image]  BY <1>0
  <2>2. \A i, j \in T : f[i] = f[j] => i = j  BY DEF ListOf
  <2>3. \A x \in image : \E i \in T : f[i] = x  BY <1>0
  <2> HIDE DEF f
  <2>4. QED  BY <2>1, <2>2, <2>3 DEF Bijection, Injection, Surjection, IsInjective
<1>3. ExistsBijection(T, image)  BY <1>2 DEF ExistsBijection
<1>4. IsFiniteSet(image) /\ Cardinality(image) = Cardinality(T)
  BY <1>1, <1>3, FS_Bijection
<1>5. QED  BY <1>1, <1>4

\* Two runs that start together and step alike end together.
LEMMA RunsMeet ==
  ASSUME NEW m \in Nat, NEW h, NEW k, h[0] = k[0],
         \A i \in 1 .. m : h[i - 1] = k[i - 1] => h[i] = k[i]
  PROVE  h[m] = k[m]
BY RunsAgree

---------------------------------------------------------------------------
(* What a step function makes of a list, element by element.               *)

Over(step, A, list) == [xi \in A \X (1 .. Len(list)) |-> step[<<xi[1], list[xi[2]]>>]]
Through(step, A, list, a, h) == Runs(A, a, Len(list), Over(step, A, list), h)
Ends(step, A, list, a) == (CHOOSE h : Through(step, A, list, a, h))[Len(list)]

\* From a to end through h.
Passes(step, list, n, a, h, end) ==
  h[0] = a /\ h[n] = end /\ \A i \in 1 .. n : h[i] = step[<<h[i - 1], list[i]>>]

\* The states it passes through exist, and are determined by step and start.
LEMMA ThroughFacts ==
  ASSUME NEW A, NEW T, NEW step \in [A \X T -> A], NEW list \in Seq(T), NEW a \in A
  PROVE  /\ \E h : Through(step, A, list, a, h)
         /\ Ends(step, A, list, a) \in A
         /\ \A h : Through(step, A, list, a, h) =>
              Passes(step, list, Len(list), a, h, Ends(step, A, list, a))
<1>1. PICK N : N = Len(list)
  OBVIOUS
<1>2. N \in Nat /\ \A i \in 1 .. N : list[i] \in T  BY <1>1
<1>3. PICK G : G = [xi \in A \X (1 .. N) |-> step[<<xi[1], list[xi[2]]>>]]
  OBVIOUS
<1>4. G \in [A \X (1 .. N) -> A] /\ \A x \in A : \A i \in 1 .. N : G[<<x, i>>] = step[<<x, list[i]>>]
  BY ONLY <1>2, <1>3, step \in [A \X T -> A]
<1>5. \A h : Through(step, A, list, a, h) <=> Runs(A, a, N, G, h)
  BY <1>1, <1>3 DEF Through, Over
<1>6. \E h : Runs(A, a, N, G, h)  BY ONLY <1>2, <1>4, RunExists, a \in A
<1>7. ASSUME NEW h, Runs(A, a, N, G, h)
      PROVE  /\ h \in [0 .. N -> A] /\ h[0] = a
             /\ \A i \in 1 .. N : h[i] = step[<<h[i - 1], list[i]>>]
  <2>1. /\ h \in [0 .. N -> A] /\ h[0] = a
        /\ \A i \in 1 .. N : h[i] = G[<<h[i - 1], i>>]
    BY <1>7 DEF Runs
  <2>2. ASSUME NEW i \in 1 .. N  PROVE h[i] = step[<<h[i - 1], list[i]>>]
    <3>1. i - 1 \in 0 .. N  BY <1>2
    <3>2. h[i - 1] \in A  BY ONLY <2>1, <3>1
    <3>3. QED  BY ONLY <1>4, <2>1, <3>2, i \in 1 .. N
  <2>3. QED  BY <2>1, <2>2
<1>8. PICK c : c = CHOOSE h : Runs(A, a, N, G, h)
  OBVIOUS
<1>9. Runs(A, a, N, G, c)  BY ONLY <1>6, <1>8
<1>10. Ends(step, A, list, a) = c[N]
  <2>1. (CHOOSE h : Through(step, A, list, a, h)) = CHOOSE h : Runs(A, a, N, G, h)
    BY ONLY <1>5
  <2>2. QED  BY <1>1, <1>8, <2>1 DEF Ends
<1>11. ASSUME NEW h, Runs(A, a, N, G, h)  PROVE h[N] = c[N]
  <2>1. h[0] = c[0]  BY <1>7, <1>9, <1>11
  <2>2. \A i \in 1 .. N : h[i - 1] = c[i - 1] => h[i] = c[i]
    BY <1>7, <1>9, <1>11
  <2>3. N \in Nat  BY <1>2
  <2>4. QED  BY ONLY <2>1, <2>2, <2>3, RunsMeet, Zenon
<1>12. c[N] \in A  BY <1>2, <1>7, <1>9
<1>13. ASSUME NEW h, Through(step, A, list, a, h)
       PROVE  Passes(step, list, Len(list), a, h, Ends(step, A, list, a))
  <2>1. Runs(A, a, N, G, h)  BY <1>5, <1>13
  <2>2. Passes(step, list, N, a, h, c[N])  BY <1>7, <1>11, <2>1 DEF Passes
  <2>3. QED  BY ONLY <1>1, <1>10, <2>2
<1>14. QED  BY <1>5, <1>6, <1>10, <1>12, <1>13

\* Whatever they are, they end where the list ends.
LEMMA ThroughEnds ==
  ASSUME NEW A, NEW T, NEW step \in [A \X T -> A], NEW list \in Seq(T), NEW a \in A,
         NEW h, Through(step, A, list, a, h), NEW n, n = Len(list)
  PROVE  Passes(step, list, n, a, h, Ends(step, A, list, a))
BY ThroughFacts, Zenon

\* There are such states.
LEMMA ThroughAgain ==
  ASSUME NEW A, NEW T, NEW step \in [A \X T -> A], NEW list \in Seq(T), NEW a \in A,
         NEW n, n = Len(list)
  PROVE  \E h : Passes(step, list, n, a, h, Ends(step, A, list, a))
<1>1. PICK h : Through(step, A, list, a, h)  BY ThroughFacts
<1>2. QED  BY <1>1, ThroughEnds

\* No element changes nothing.
LEMMA EndsNone ==
  ASSUME NEW A, NEW T, NEW step \in [A \X T -> A], NEW a \in A
  PROVE  Ends(step, A, <<>>, a) = a
<1>1. PICK list : list = <<>>
  OBVIOUS
<1>0. list \in Seq(T) /\ 0 = Len(list)  BY <1>1
<1>2. PICK h : Passes(step, list, 0, a, h, Ends(step, A, list, a))
  BY <1>0, ThroughAgain, Zenon
<1>3. QED  BY <1>1, <1>2 DEF Passes

IsEnd(step, A, list, a, end) == Ends(step, A, list, a) = end

\* One element is one step.
LEMMA EndsOne ==
  ASSUME NEW A, NEW T, NEW step \in [A \X T -> A], NEW a \in A, NEW e \in T
  PROVE  IsEnd(step, A, <<e>>, a, step[<<a, e>>])
<1>1. PICK list : list = <<e>>
  OBVIOUS
<1>0. list \in Seq(T) /\ 1 = Len(list) /\ list[1] = e  BY <1>1
<1>2. PICK h : Passes(step, list, 1, a, h, Ends(step, A, list, a))
  BY <1>0, ThroughAgain, Zenon
<1>3. h[0] = a /\ h[1] = Ends(step, A, list, a) /\ h[1] = step[<<h[0], list[1]>>]
  <2>1. 1 \in 1 .. 1 /\ 1 - 1 = 0
    OBVIOUS
  <2>2. QED  BY ONLY <1>2, <2>1 DEF Passes
<1>4. QED  BY ONLY <1>0, <1>1, <1>3 DEF IsEnd

GoesOn(step, A, u, v, w, a) == Ends(step, A, w, a) = Ends(step, A, v, Ends(step, A, u, a))

\* A list after another goes on from where the other ends.
LEMMA EndsBoth ==
  ASSUME NEW A, NEW T, NEW step \in [A \X T -> A], NEW a \in A,
         NEW u \in Seq(T), NEW v \in Seq(T), NEW w, w = u \o v
  PROVE  GoesOn(step, A, u, v, w, a)
<1>1. w = u \o v
  OBVIOUS
<1>2. PICK m, n, mn : m = Len(u) /\ n = Len(v) /\ mn = Len(w)
  OBVIOUS
<1>3. /\ m \in Nat /\ n \in Nat /\ w \in Seq(T) /\ mn = m + n
      /\ \A i \in 1 .. m : w[i] = u[i]
      /\ \A i \in 1 .. n : w[m + i] = v[i]
  BY <1>1, <1>2, ConcatFacts
<1>4. w \in Seq(T)  BY <1>3
<1>5. PICK b, end, last : /\ b = Ends(step, A, u, a) /\ end = Ends(step, A, w, a)
                          /\ last = Ends(step, A, v, b)
  OBVIOUS
<1>6. b \in A  BY <1>5, ThroughFacts
<1>7. PICK h : Passes(step, w, mn, a, h, end)
  BY <1>2, <1>4, <1>5, ThroughAgain, Zenon
<1>8. PICK g : Passes(step, u, m, a, g, b)
  BY <1>2, <1>5, ThroughAgain, Zenon
<1>9. PICK k : Passes(step, v, n, b, k, last)
  BY <1>2, <1>5, <1>6, ThroughAgain, Zenon
<1>10. h[0] = a /\ h[m + n] = end /\ \A i \in 1 .. m + n : h[i] = step[<<h[i - 1], w[i]>>]
  BY ONLY <1>3, <1>7 DEF Passes
<1>11. g[0] = a /\ g[m] = b /\ \A i \in 1 .. m : g[i] = step[<<g[i - 1], u[i]>>]
  BY ONLY <1>8 DEF Passes
<1>12. k[0] = b /\ k[n] = last /\ \A i \in 1 .. n : k[i] = step[<<k[i - 1], v[i]>>]
  BY ONLY <1>9 DEF Passes
<1>13. h[m] = g[m]
  <2>1. h[0] = g[0]  BY ONLY <1>10, <1>11
  <2>2. ASSUME NEW i \in 1 .. m, h[i - 1] = g[i - 1]  PROVE h[i] = g[i]
    <3>1. i \in 1 .. m + n  BY ONLY <1>3, i \in 1 .. m
    <3>2. QED  BY ONLY <1>3, <1>10, <1>11, <2>2, <3>1
  <2>3. m \in Nat  BY <1>3
  <2>4. QED  BY ONLY <2>1, <2>2, <2>3, RunsMeet, Zenon
<1>14. PICK f : f = [i \in 0 .. n |-> h[m + i]]
  OBVIOUS
<1>15. \A i \in 0 .. n : f[i] = h[m + i]  BY ONLY <1>14
<1>16. f[n] = k[n]
  <2>1. f[0] = k[0]
    <3>1. m \in Nat /\ n \in Nat  BY <1>3
    <3>2. f[0] = h[m]  BY ONLY <1>15, <3>1
    <3>3. QED  BY ONLY <1>11, <1>12, <1>13, <3>2
  <2>2. ASSUME NEW i \in 1 .. n, f[i - 1] = k[i - 1]  PROVE f[i] = k[i]
    <3>1. /\ m + i \in 1 .. m + n /\ (m + i) - 1 = m + (i - 1)
          /\ i - 1 \in 0 .. n /\ i \in 0 .. n
      BY ONLY <1>3, i \in 1 .. n
    <3>2. h[m + i] = step[<<h[(m + i) - 1], w[m + i]>>]  BY ONLY <1>10, <3>1
    <3>3. w[m + i] = v[i]  BY ONLY <1>3, i \in 1 .. n
    <3>4. f[i] = h[m + i] /\ f[i - 1] = h[m + (i - 1)]  BY ONLY <1>15, <3>1
    <3>5. f[i] = step[<<f[i - 1], v[i]>>]  BY ONLY <3>1, <3>2, <3>3, <3>4
    <3>6. QED  BY ONLY <1>12, <2>2, <3>5, i \in 1 .. n
  <2>3. n \in Nat  BY <1>3
  <2>4. QED  BY ONLY <2>1, <2>2, <2>3, RunsMeet, Zenon
<1>17. h[m + n] = k[n]
  <2>1. n \in Nat /\ n \in 0 .. n  BY <1>3
  <2>2. QED  BY ONLY <1>15, <1>16, <2>1
<1>18. QED  BY <1>1, <1>4, <1>5, <1>10, <1>12, <1>17 DEF GoesOn

\* What the equation of a fold asks of its solution, with the steps taken as a
\* function; and what it means to follow that equation as long as the types hold.
Solved(A, T, step, list, a, g) ==
  /\ g \in [SUBSET DOMAIN list -> A]
  /\ \A t \in SUBSET DOMAIN list :
       /\ t = {} => g[t] = a
       /\ t # {} => /\ g[t \ {Max(t)}] \in A /\ list[Max(t)] \in T
                    /\ g[t] = step[<<g[t \ {Max(t)}], list[Max(t)]>>]
Follows(A, T, step, list, a, iter) ==
  /\ iter[{}] = a
  /\ \A t \in SUBSET DOMAIN list :
       t # {} /\ iter[t \ {Max(t)}] \in A /\ list[Max(t)] \in T
         => iter[t] = step[<<iter[t \ {Max(t)}], list[Max(t)]>>]

\* What a fold is defined by, for a step function.
LEMMA FoldSolved ==
  ASSUME NEW A, NEW T, NEW step \in [A \X T -> A], NEW list \in Seq(T), NEW a \in A
  PROVE  \E g : Solved(A, T, step, list, a, g)
<1>1. PICK N \in Nat : N = Len(list) /\ DOMAIN list = 1 .. N /\ \A i \in 1 .. N : list[i] \in T
  OBVIOUS
<1>2. PICK G : G = [xi \in A \X (1 .. N) |-> step[<<xi[1], list[xi[2]]>>]]
  OBVIOUS
<1>3. G \in [A \X (1 .. N) -> A] /\ \A x \in A : \A i \in 1 .. N : G[<<x, i>>] = step[<<x, list[i]>>]
  BY ONLY <1>1, <1>2, step \in [A \X T -> A]
<1>4. PICK g : Folds(A, a, N, G, g)  BY ONLY <1>1, <1>3, FoldExists, a \in A
<1>5. ASSUME NEW t \in SUBSET (1 .. N), t # {}
      PROVE  /\ g[t \ {Max(t)}] \in A /\ list[Max(t)] \in T
             /\ g[t] = step[<<g[t \ {Max(t)}], list[Max(t)]>>]
  <2>1. Max(t) \in 1 .. N  BY ONLY <1>1, <1>5, MaxFacts
  <2>2. g[t \ {Max(t)}] \in A  BY ONLY <1>4, t \in SUBSET (1 .. N) DEF Folds
  <2>3. QED  BY ONLY <1>1, <1>3, <1>4, <1>5, <2>1, <2>2 DEF Folds
<1>6. Solved(A, T, step, list, a, g)  BY ONLY <1>1, <1>4, <1>5 DEF Folds, Solved
<1>7. QED  BY <1>6

EndsAt(step, A, list, a, iter, D) == iter[D] = Ends(step, A, list, a)

\* Whatever solves it ends where the steps do.
LEMMA FoldEnds ==
  ASSUME NEW A, NEW T, NEW step \in [A \X T -> A], NEW list \in Seq(T), NEW a \in A,
         NEW iter, Follows(A, T, step, list, a, iter), NEW D, D = DOMAIN list
  PROVE  EndsAt(step, A, list, a, iter, D)
<1>1. PICK N \in Nat : N = Len(list) /\ DOMAIN list = 1 .. N /\ \A i \in 1 .. N : list[i] \in T
  OBVIOUS
<1>2. PICK G : G = [xi \in A \X (1 .. N) |-> step[<<xi[1], list[xi[2]]>>]]
  OBVIOUS
<1>3. G \in [A \X (1 .. N) -> A] /\ \A x \in A : \A i \in 1 .. N : G[<<x, i>>] = step[<<x, list[i]>>]
  BY ONLY <1>1, <1>2, step \in [A \X T -> A]
<1>4. ASSUME NEW t \in SUBSET (1 .. N), t # {} /\ iter[t \ {Max(t)}] \in A
      PROVE  iter[t] = G[<<iter[t \ {Max(t)}], Max(t)>>]
  <2>1. Max(t) \in 1 .. N  BY ONLY <1>1, <1>4, MaxFacts
  <2>2. iter[t] = step[<<iter[t \ {Max(t)}], list[Max(t)]>>]
    BY ONLY <1>1, <1>4, <2>1, Follows(A, T, step, list, a, iter) DEF Follows
  <2>3. QED  BY ONLY <1>3, <1>4, <2>1, <2>2
<1>5. Runs(A, a, N, G, AfterEach(iter, N))
  <2>1. iter[{}] = a  BY DEF Follows
  <2>2. QED  BY ONLY <1>1, <1>3, <1>4, <2>1, FoldRuns, a \in A
<1>6. Through(step, A, list, a, AfterEach(iter, N))
  BY <1>1, <1>2, <1>5 DEF Through, Over
<1>7. AfterEach(iter, N)[N] = Ends(step, A, list, a)
  <2>1. N = Len(list)  BY <1>1
  <2>2. Passes(step, list, N, a, AfterEach(iter, N), Ends(step, A, list, a))
    BY <1>6, <2>1, ThroughEnds, Zenon
  <2>3. QED  BY ONLY <2>2 DEF Passes
<1>8. AfterEach(iter, N)[N] = iter[1 .. N]  BY ONLY <1>1 DEF AfterEach
<1>9. QED  BY ONLY <1>1, <1>7, <1>8, D = DOMAIN list DEF EndsAt

\* The lists between the first and the last of FlattenSeq.
Builds(T, parts, N, c) ==
  /\ c \in [0 .. N -> Seq(T)] /\ c[0] = <<>> /\ c[N] = FlattenSeq(parts)
  /\ \A i \in 1 .. N : c[i] = c[i - 1] \o parts[i]

\* Lists one after the other: the list of all is built up list by list.
LEMMA FlattenBuilds ==
  ASSUME NEW T, NEW parts \in Seq(Seq(T)), NEW N, N = Len(parts)
  PROVE  \E c : Builds(T, parts, N, c)
<1>1. N \in Nat /\ DOMAIN parts = 1 .. N /\ \A i \in 1 .. N : parts[i] \in Seq(T)
  OBVIOUS
<1>2. PICK cat : cat = [xs \in Seq(T) \X (1 .. N) |-> xs[1] \o parts[xs[2]]]
  OBVIOUS
<1>3. \A x, y \in Seq(T) : x \o y \in Seq(T)
  OBVIOUS
<1>4. /\ cat \in [Seq(T) \X (1 .. N) -> Seq(T)]
      /\ \A x \in Seq(T) : \A i \in 1 .. N : cat[<<x, i>>] = x \o parts[i]
  BY ONLY <1>1, <1>2, <1>3
<1>5. <<>> \in Seq(T)
  OBVIOUS
<1>6. PICK c : Runs(Seq(T), <<>>, N, cat, c)
  BY <1>1, <1>4, <1>5, RunExists
<1>7. /\ c \in [0 .. N -> Seq(T)] /\ c[0] = <<>>
      /\ \A i \in 1 .. N : c[i] = cat[<<c[i - 1], i>>]
  BY <1>6 DEF Runs
<1>8. \A i \in 1 .. N : c[i] = c[i - 1] \o parts[i]
  <2> SUFFICES ASSUME NEW i \in 1 .. N  PROVE c[i] = c[i - 1] \o parts[i]
    OBVIOUS
  <2>1. i - 1 \in 0 .. N  BY <1>1
  <2>2. c[i - 1] \in Seq(T)  BY <1>7, <2>1
  <2>3. QED  BY ONLY <1>4, <1>7, <2>2, i \in 1 .. N
<1>9. c[N] = FlattenSeq(parts)
  <2>1. CASE N = 0
    <3>1. parts = <<>>  BY <1>1, <2>1
    <3>2. FlattenSeq(parts) = parts  BY <2>1 DEF FlattenSeq
    <3>3. QED  BY <1>7, <2>1, <3>1, <3>2
  <2>2. CASE N # 0
    <3> DEFINE flatten == CHOOSE f : f = [i \in 1 .. Len(parts) |->
                            IF i = 1 THEN parts[i] ELSE f[i - 1] \o parts[i]]
    <3>1. FlattenSeq(parts) = flatten[Len(parts)]  BY <2>2 DEF FlattenSeq
    <3>2. PICK g : g = [i \in 1 .. N |-> c[i]]
      OBVIOUS
    <3>3. g = [i \in 1 .. N |-> IF i = 1 THEN parts[i] ELSE g[i - 1] \o parts[i]]
      <4>1. ASSUME NEW i \in 1 .. N, i # 1  PROVE g[i] = g[i - 1] \o parts[i]
        <5>1. i - 1 \in 1 .. N  BY <1>1, <4>1
        <5>2. QED  BY ONLY <1>8, <3>2, <5>1, i \in 1 .. N
      <4>2. ASSUME NEW i \in 1 .. N, i = 1  PROVE g[i] = parts[i]
        <5>1. c[1] = c[0] \o parts[1]
          <6>1. 1 \in 1 .. N /\ 1 - 1 = 0  BY <4>2
          <6>2. QED  BY ONLY <1>8, <6>1
        <5>2. c[1] = parts[1]
          <6>1. parts[1] \in Seq(T)  BY <1>1, <4>2
          <6>2. <<>> \o parts[1] = parts[1]  BY ONLY <6>1
          <6>3. QED  BY ONLY <1>7, <5>1, <6>2
        <5>3. QED  BY ONLY <3>2, <4>2, <5>2
      <4>3. QED  BY ONLY <3>2, <4>1, <4>2
    <3>4. flatten = [i \in 1 .. N |-> IF i = 1 THEN parts[i] ELSE flatten[i - 1] \o parts[i]]
      BY ONLY <3>3, N = Len(parts)
    <3> HIDE DEF flatten
    <3>5. PICK e : e = [i \in 0 .. N |-> IF i = 0 THEN <<>> ELSE flatten[i]]
      OBVIOUS
    <3>6. e[0] = c[0]  BY ONLY <1>1, <1>7, <3>5
    <3>7. ASSUME NEW i \in 1 .. N, e[i - 1] = c[i - 1]  PROVE e[i] = c[i]
      <4>0. i \in 0 .. N /\ i - 1 \in 0 .. N  BY ONLY <1>1, i \in 1 .. N
      <4>1. CASE i = 1
        <5>1. e[i] = parts[i]  BY ONLY <3>4, <3>5, <4>0, <4>1, i \in 1 .. N
        <5>2. c[i] = <<>> \o parts[i]
          <6>1. i - 1 = 0  BY ONLY <4>1
          <6>2. c[i] = c[i - 1] \o parts[i]  BY <1>8
          <6>3. QED  BY ONLY <1>7, <6>1, <6>2
        <5>3. parts[i] \in Seq(T)  BY <1>1
        <5>4. <<>> \o parts[i] = parts[i]  BY ONLY <5>3
        <5>5. QED  BY ONLY <5>1, <5>2, <5>4
      <4>2. CASE i # 1
        <5>0. flatten[i] = flatten[i - 1] \o parts[i]  BY ONLY <3>4, <4>2, i \in 1 .. N
        <5>1. e[i] = flatten[i - 1] \o parts[i]
          <6>1. i # 0  BY ONLY <1>1, i \in 1 .. N
          <6>2. QED  BY ONLY <3>5, <4>0, <5>0, <6>1
        <5>2. i - 1 # 0  BY ONLY <4>2, i \in 1 .. N
        <5>3. e[i - 1] = flatten[i - 1]  BY ONLY <3>5, <4>0, <5>2
        <5>4. QED  BY ONLY <1>8, <3>7, <5>1, <5>3, i \in 1 .. N
      <4>3. QED  BY ONLY <4>1, <4>2
    <3>8. N \in Nat  BY <1>1
    <3>9. e[N] = c[N]  BY ONLY <3>6, <3>7, <3>8, RunsMeet, Zenon
    <3>10. e[N] = flatten[N]  BY ONLY <2>2, <3>5, <3>8
    <3>11. QED  BY ONLY <3>1, <3>9, <3>10, N = Len(parts)
  <2>3. QED  BY <2>1, <2>2
<1>10. Builds(T, parts, N, c)  BY ONLY <1>7, <1>8, <1>9 DEF Builds
<1>11. QED  BY <1>10

\* The states between the lists that make up a list.
ByParts(step, A, parts, N, a, h) ==
  /\ h \in [0 .. N -> A] /\ h[0] = a /\ h[N] = Ends(step, A, FlattenSeq(parts), a)
  /\ \A i \in 1 .. N : h[i] = Ends(step, A, parts[i], h[i - 1])

\* What steps make of it, they make list by list.
LEMMA EndsFlat ==
  ASSUME NEW A, NEW T, NEW step \in [A \X T -> A], NEW a \in A,
         NEW parts \in Seq(Seq(T)), NEW N, N = Len(parts)
  PROVE  \E h : ByParts(step, A, parts, N, a, h)
<1>1. N \in Nat /\ DOMAIN parts = 1 .. N /\ \A i \in 1 .. N : parts[i] \in Seq(T)
  OBVIOUS
<1>0. PICK c : Builds(T, parts, N, c)
  BY FlattenBuilds, Zenon
<1>2. /\ c \in [0 .. N -> Seq(T)] /\ c[0] = <<>> /\ c[N] = FlattenSeq(parts)
      /\ \A i \in 1 .. N : c[i] = c[i - 1] \o parts[i]
  BY ONLY <1>0 DEF Builds
<1>3. PICK h : h = [i \in 0 .. N |-> Ends(step, A, c[i], a)]
  OBVIOUS
<1>4. \A i \in 0 .. N : h[i] = Ends(step, A, c[i], a)  BY ONLY <1>3
<1>5. \A i \in 0 .. N : c[i] \in Seq(T)  BY <1>2
<1>6. \A i \in 0 .. N : h[i] \in A
  <2> SUFFICES ASSUME NEW i \in 0 .. N  PROVE h[i] \in A
    OBVIOUS
  <2>1. c[i] \in Seq(T)  BY <1>5
  <2>2. Ends(step, A, c[i], a) \in A  BY <2>1, ThroughFacts, Zenon
  <2>3. QED  BY <1>4, <2>2
<1>7. h[0] = a
  <2>1. Ends(step, A, <<>>, a) = a  BY EndsNone, Zenon
  <2>2. 0 \in 0 .. N  BY <1>1
  <2>3. QED  BY ONLY <1>2, <1>4, <2>1, <2>2
<1>8. ASSUME NEW i \in 1 .. N  PROVE h[i] = Ends(step, A, parts[i], h[i - 1])
  <2>1. i \in 0 .. N /\ i - 1 \in 0 .. N  BY ONLY <1>1, i \in 1 .. N
  <2>2. c[i - 1] \in Seq(T) /\ parts[i] \in Seq(T)  BY <1>1, <1>5, <2>1
  <2>3. PICK u \in Seq(T), v \in Seq(T) : u = c[i - 1] /\ v = parts[i]
    BY <2>2
  <2>0. PICK w : w = u \o v
    OBVIOUS
  <2>4. Ends(step, A, w, a) = Ends(step, A, v, Ends(step, A, u, a))
    <3>1. GoesOn(step, A, u, v, w, a)  BY <2>0, EndsBoth, Zenon
    <3>2. QED  BY ONLY <3>1 DEF GoesOn
  <2>5. QED  BY ONLY <1>2, <1>4, <2>0, <2>1, <2>3, <2>4, i \in 1 .. N
<1>9. h[N] = Ends(step, A, FlattenSeq(parts), a)
  BY ONLY <1>1, <1>2, <1>4
<1>10. h \in [0 .. N -> A]  BY ONLY <1>3, <1>6
<1>11. ByParts(step, A, parts, N, a, h)  BY ONLY <1>7, <1>8, <1>9, <1>10 DEF ByParts
<1>12. QED  BY <1>11

\* A list whose every element changes nothing changes nothing.
LEMMA EndsStays ==
  ASSUME NEW A, NEW T, NEW step \in [A \X T -> A], NEW a \in A, NEW list \in Seq(T),
         \A i \in DOMAIN list : step[<<a, list[i]>>] = a
  PROVE  Ends(step, A, list, a) = a
<1>1. PICK n : n = Len(list)
  OBVIOUS
<1>2. n \in Nat /\ DOMAIN list = 1 .. n  BY ONLY <1>1, list \in Seq(T)
<1>3. PICK end : end = Ends(step, A, list, a)
  OBVIOUS
<1>4. PICK h : Passes(step, list, n, a, h, end)
  BY <1>1, <1>3, ThroughAgain, Zenon
<1>5. PICK k : k = [i \in 0 .. n |-> a]
  OBVIOUS
<1>6. h[0] = k[0]  BY ONLY <1>2, <1>4, <1>5 DEF Passes
<1>7. ASSUME NEW i \in 1 .. n, h[i - 1] = k[i - 1]  PROVE h[i] = k[i]
  <2>1. i \in 0 .. n /\ i - 1 \in 0 .. n  BY ONLY <1>2, i \in 1 .. n
  <2>2. h[i] = step[<<h[i - 1], list[i]>>]  BY ONLY <1>4, i \in 1 .. n DEF Passes
  <2>3. step[<<a, list[i]>>] = a  BY <1>2
  <2>4. QED  BY ONLY <1>5, <1>7, <2>1, <2>2, <2>3
<1>8. h[n] = k[n]  BY ONLY <1>2, <1>6, <1>7, RunsMeet, Zenon
<1>9. k[n] = a  BY ONLY <1>2, <1>5
<1>10. QED  BY ONLY <1>3, <1>4, <1>8, <1>9 DEF Passes

\* A list that ends in a state which keeps what was shown, and shows more.
ShowsMore(step, A, list, state, o, more) == Ends(step, A, list, state[o]) = state[o \o more]

\* A list whose every element is kept is kept.
LEMMA EndsKept ==
  ASSUME NEW A, NEW T, NEW step \in [A \X T -> A], NEW list \in Seq(T),
         NEW state \in [Seq(T) -> A], NEW o \in Seq(T),
         \A i \in DOMAIN list : \A x \in Seq(T) :
           step[<<state[x], list[i]>>] = state[Append(x, list[i])]
  PROVE  ShowsMore(step, A, list, state, o, list)
<1>1. PICK n : n = Len(list)
  OBVIOUS
<1>2. n \in Nat /\ DOMAIN list = 1 .. n /\ \A i \in 1 .. n : list[i] \in T
  BY ONLY <1>1, list \in Seq(T)
<1>3. PICK a, end : a = state[o] /\ end = Ends(step, A, list, a)
  OBVIOUS
<1>4. a \in A  BY <1>3
<1>5. PICK h : Passes(step, list, n, a, h, end)
  BY <1>1, <1>3, <1>4, ThroughAgain, Zenon
<1>6. PICK x : x = [i \in 0 .. n |-> o \o SubSeq(list, 1, i)]
  OBVIOUS
<1>7. \A i \in 0 .. n : x[i] = o \o SubSeq(list, 1, i) /\ SubSeq(list, 1, i) \in Seq(T)
  <2> SUFFICES ASSUME NEW i \in 0 .. n
               PROVE  x[i] = o \o SubSeq(list, 1, i) /\ SubSeq(list, 1, i) \in Seq(T)
    OBVIOUS
  <2>1. SubSeq(list, 1, i) \in Seq(T)  BY ONLY <1>1, <1>2, list \in Seq(T), i \in 0 .. n
  <2>2. QED  BY ONLY <1>6, <2>1, i \in 0 .. n
<1>8. \A i \in 0 .. n : x[i] \in Seq(T)
  <2>1. \A u \in Seq(T) : o \o u \in Seq(T)  BY ONLY o \in Seq(T)
  <2>2. QED  BY ONLY <1>7, <2>1
<1>9. PICK k : k = [i \in 0 .. n |-> state[x[i]]]
  OBVIOUS
<1>10. h[0] = k[0]
  <2>1. 0 \in 0 .. n  BY ONLY <1>2
  <2>2. SubSeq(list, 1, 0) = <<>>  BY ONLY list \in Seq(T)
  <2>3. o \o <<>> = o  BY ONLY o \in Seq(T)
  <2>4. x[0] = o  BY ONLY <1>7, <2>1, <2>2, <2>3
  <2>5. QED  BY ONLY <1>3, <1>5, <1>9, <2>1, <2>4 DEF Passes
<1>11. ASSUME NEW i \in 1 .. n, h[i - 1] = k[i - 1]  PROVE h[i] = k[i]
  <2>1. i \in 0 .. n /\ i - 1 \in 0 .. n  BY ONLY <1>2, i \in 1 .. n
  <2>2. h[i] = step[<<h[i - 1], list[i]>>]  BY ONLY <1>5, i \in 1 .. n DEF Passes
  <2>3. x[i - 1] \in Seq(T)  BY ONLY <1>8, <2>1
  <2>4. step[<<state[x[i - 1]], list[i]>>] = state[Append(x[i - 1], list[i])]
    BY <1>2, <2>3
  <2>5. Append(x[i - 1], list[i]) = x[i]
    <3>1. PICK u, v, e : u = SubSeq(list, 1, i - 1) /\ v = SubSeq(list, 1, i) /\ e = list[i]
      OBVIOUS
    <3>2. u \in Seq(T) /\ e \in T  BY ONLY <1>2, <1>7, <2>1, <3>1, i \in 1 .. n
    <3>3. v = Append(u, e)
      BY ONLY <1>1, <1>2, <3>1, list \in Seq(T), i \in 1 .. n
    <3>4. Append(o \o u, e) = o \o Append(u, e)
      <4>1. PICK one : one = <<e>>
        OBVIOUS
      <4>2. one \in Seq(T)  BY ONLY <3>2, <4>1
      <4>3. o \o u \in Seq(T)  BY ONLY <3>2, o \in Seq(T)
      <4>4. Append(o \o u, e) = (o \o u) \o one  BY <3>2, <4>1, <4>3, AppendIsConcat
      <4>5. Append(u, e) = u \o one  BY <3>2, <4>1, AppendIsConcat
      <4>6. (o \o u) \o one = o \o (u \o one)
        BY <3>2, <4>2, ConcatAssociative
      <4>7. QED  BY ONLY <4>4, <4>5, <4>6
    <3>5. QED  BY ONLY <1>7, <2>1, <3>1, <3>3, <3>4
  <2>6. QED  BY ONLY <1>9, <1>11, <2>1, <2>2, <2>4, <2>5
<1>12. h[n] = k[n]  BY ONLY <1>2, <1>10, <1>11, RunsMeet, Zenon
<1>13. k[n] = state[o \o list]
  <2>1. n \in 0 .. n  BY ONLY <1>2
  <2>2. SubSeq(list, 1, n) = list  BY ONLY <1>1, list \in Seq(T)
  <2>3. QED  BY ONLY <1>7, <1>9, <2>1, <2>2
<1>14. QED  BY ONLY <1>3, <1>5, <1>12, <1>13 DEF Passes, ShowsMore

ShowsParts(step, A, parts, shows, state) ==
  Ends(step, A, FlattenSeq(parts), state[<<>>]) = state[FlattenSeq(shows)]

\* Lists that each show their part show all of the parts.
LEMMA EndsShown ==
  ASSUME NEW A, NEW T, NEW step \in [A \X T -> A], NEW parts \in Seq(Seq(T)),
         NEW shows \in Seq(Seq(T)), NEW N, N = Len(parts), N = Len(shows),
         NEW state \in [Seq(T) -> A],
         \A i \in 1 .. N : \A o \in Seq(T) : ShowsMore(step, A, parts[i], state, o, shows[i])
  PROVE  ShowsParts(step, A, parts, shows, state)
<1>1. N \in Nat  BY ONLY N = Len(parts), parts \in Seq(Seq(T))
<1>2. PICK a : a = state[<<>>]
  OBVIOUS
<1>3. a \in A
  <2>1. <<>> \in Seq(T)
    OBVIOUS
  <2>2. QED  BY <1>2, <2>1
<1>4. PICK h : ByParts(step, A, parts, N, a, h)
  BY <1>3, EndsFlat, Zenon
<1>5. PICK c : Builds(T, shows, N, c)
  BY FlattenBuilds, Zenon
<1>6. PICK k : k = [i \in 0 .. N |-> state[c[i]]]
  OBVIOUS
<1>7. h[0] = k[0]  BY ONLY <1>1, <1>2, <1>4, <1>5, <1>6 DEF ByParts, Builds
<1>8. ASSUME NEW i \in 1 .. N, h[i - 1] = k[i - 1]  PROVE h[i] = k[i]
  <2>1. i \in 0 .. N /\ i - 1 \in 0 .. N  BY ONLY <1>1, i \in 1 .. N
  <2>2. h[i] = Ends(step, A, parts[i], h[i - 1])  BY ONLY <1>4, i \in 1 .. N DEF ByParts
  <2>3. c[i - 1] \in Seq(T) /\ c[i] = c[i - 1] \o shows[i]
    BY ONLY <1>5, <2>1, i \in 1 .. N DEF Builds
  <2>4. ShowsMore(step, A, parts[i], state, c[i - 1], shows[i])  BY <2>3
  <2>5. Ends(step, A, parts[i], state[c[i - 1]]) = state[c[i]]
    BY ONLY <2>3, <2>4 DEF ShowsMore
  <2>6. QED  BY ONLY <1>6, <1>8, <2>1, <2>2, <2>5
<1>9. h[N] = k[N]  BY ONLY <1>1, <1>7, <1>8, RunsMeet, Zenon
<1>10. k[N] = state[FlattenSeq(shows)]  BY ONLY <1>1, <1>5, <1>6 DEF Builds
<1>11. QED  BY ONLY <1>2, <1>4, <1>9, <1>10 DEF ByParts, ShowsParts

---------------------------------------------------------------------------
(* Parts of a list, and sums.                                              *)

\* A set of positions that is not empty has a first one.
LEMMA FirstExists ==
  ASSUME NEW L \in Nat, NEW S \in SUBSET (1 .. L), S # {}
  PROVE  \E i \in S : \A j \in S : i <= j
<1>1. S \subseteq Nat
  OBVIOUS
<1>2. PICK R : R = OpToRel(<, Nat)
  OBVIOUS
<1>3. IsWellFoundedOn(R, Nat)
  BY <1>2, NatLessThanWellFounded
<1>4. PICK i \in S : \A x \in S : <<x, i>> \notin R
  BY <1>1, <1>3, WFMin
<1>5. \A x \in S : ~(x < i)
  BY <1>1, <1>2, <1>4 DEF OpToRel
<1>6. QED  BY <1>1, <1>5

\* A part of a list.
LEMMA PartFacts ==
  ASSUME NEW T, NEW list \in Seq(T), NEW a \in Nat \ {0}, NEW b \in Nat, a <= b + 1, b <= Len(list)
  PROVE  /\ SubSeq(list, a, b) \in Seq(T) /\ Len(SubSeq(list, a, b)) = b - a + 1
         /\ DOMAIN SubSeq(list, a, b) = 1 .. b - a + 1
         /\ \A i \in 1 .. b - a + 1 : SubSeq(list, a, b)[i] = list[a + i - 1]
<1>1. DOMAIN list = 1 .. Len(list) /\ Len(list) \in Nat /\ \A i \in 1 .. Len(list) : list[i] \in T
  OBVIOUS
<1>2. PICK part, m : part = SubSeq(list, a, b) /\ m = b - a + 1
  OBVIOUS
<1>3. part = [i \in 1 .. m |-> list[a + i - 1]]
  BY <1>2
<1>4. m \in Nat /\ \A i \in 1 .. m : list[a + i - 1] \in T
  <2>1. m \in Nat /\ \A i \in 1 .. m : a + i - 1 \in 1 .. Len(list)  BY <1>1, <1>2
  <2>2. QED  BY ONLY <1>1, <2>1
<1>5. part \in Seq(T) /\ Len(part) = m /\ DOMAIN part = 1 .. m  BY ONLY <1>3, <1>4
<1>6. \A i \in 1 .. m : part[i] = list[a + i - 1]  BY ONLY <1>3
<1>7. QED  BY ONLY <1>2, <1>5, <1>6

\* A part of a part of a list is a part of the list.
LEMMA PartOfPart ==
  ASSUME NEW T, NEW list \in Seq(T), NEW c \in Nat, NEW i \in c .. Len(list),
         NEW text, text = SubSeq(list, c + 1, i), NEW a \in 1 .. i - c, NEW b \in a .. i - c
  PROVE  SubSeq(text, a, b) = SubSeq(list, c + a, c + b)
<1>1. c \in Nat /\ i \in Nat /\ i <= Len(list) /\ Len(list) \in Nat /\ c <= i
  OBVIOUS
<1>2. a \in Nat /\ b \in Nat /\ 1 <= a /\ a <= b /\ b <= i - c
  BY <1>1
<1>3. c + 1 \in Nat \ {0} /\ c + 1 <= i + 1  BY ONLY <1>1
<1>4. /\ text \in Seq(T) /\ Len(text) = i - (c + 1) + 1
      /\ \A m \in 1 .. i - (c + 1) + 1 : text[m] = list[(c + 1) + m - 1]
  BY ONLY <1>1, <1>3, PartFacts, list \in Seq(T), text = SubSeq(list, c + 1, i)
<1>5. Len(text) = i - c  BY ONLY <1>1, <1>4
<1>6. PICK x, y, p : x = SubSeq(text, a, b) /\ y = SubSeq(list, c + a, c + b) /\ p = b - a + 1
  OBVIOUS
<1>7. x = [m \in 1 .. p |-> text[a + m - 1]]
  BY ONLY <1>2, <1>6
<1>8. y = [m \in 1 .. p |-> list[c + a + m - 1]]
  <2>1. y = [m \in 1 .. (c + b) - (c + a) + 1 |-> list[c + a + m - 1]]
    BY ONLY <1>1, <1>2, <1>6
  <2>2. (c + b) - (c + a) + 1 = p  BY ONLY <1>1, <1>2, <1>6
  <2>3. QED  BY ONLY <2>1, <2>2
<1>9. \A m \in 1 .. p : text[a + m - 1] = list[c + a + m - 1]
  <2> SUFFICES ASSUME NEW m \in 1 .. p  PROVE text[a + m - 1] = list[c + a + m - 1]
    OBVIOUS
  <2>1. a + m - 1 \in 1 .. i - (c + 1) + 1 /\ (c + 1) + (a + m - 1) - 1 = c + a + m - 1
    BY ONLY <1>1, <1>2, <1>6, m \in 1 .. p
  <2>2. QED  BY ONLY <1>4, <2>1
<1>10. QED  BY ONLY <1>6, <1>7, <1>8, <1>9

\* What a list holds that is two lists, one behind the other.
Behind(a, b, x) ==
  /\ Len(x) = Len(a) + Len(b) /\ DOMAIN x = 1 .. Len(a) + Len(b)
  /\ \A i \in 1 .. Len(a) : x[i] = a[i]
  /\ \A i \in 1 .. Len(b) : x[Len(a) + i] = b[i]

\* That is what concatenation makes.
LEMMA BehindFacts ==
  ASSUME NEW T, NEW a \in Seq(T), NEW b \in Seq(T), NEW x, x = a \o b
  PROVE  Behind(a, b, x) /\ x \in Seq(T)
<1>1. /\ a \o b \in Seq(T) /\ Len(a \o b) = Len(a) + Len(b)
      /\ DOMAIN (a \o b) = 1 .. Len(a) + Len(b)
      /\ \A n \in 1 .. Len(a) : (a \o b)[n] = a[n]
      /\ \A n \in 1 .. Len(b) : (a \o b)[Len(a) + n] = b[n]
  BY ConcatFacts
<1>2. QED  BY ONLY <1>1, x = a \o b DEF Behind

\* The sums of a list of numbers, one after the other.
LEMMA SumUp ==
  ASSUME NEW n \in Nat, NEW f \in [1 .. n -> Nat]
  PROVE  \E s : /\ s \in [0 .. n -> Nat] /\ s[0] = 0
                /\ \A i \in 1 .. n : s[i] = s[i - 1] + f[i]
<1>1. PICK A, G : A = Nat /\ G = [xi \in A \X (1 .. n) |-> xi[1] + f[xi[2]]]
  OBVIOUS
<1>2. G \in [A \X (1 .. n) -> A] /\ \A x \in A : \A i \in 1 .. n : G[<<x, i>>] = x + f[i]
  BY <1>1
<1>3. PICK s : Runs(A, 0, n, G, s)
  <2>1. 0 \in A  BY <1>1
  <2>2. QED  BY <1>2, <2>1, RunExists
<1>4. /\ s \in [0 .. n -> A] /\ s[0] = 0
      /\ \A i \in 1 .. n : s[i] = G[<<s[i - 1], i>>]
  BY ONLY <1>3 DEF Runs
<1>5. ASSUME NEW i \in 1 .. n  PROVE s[i] = s[i - 1] + f[i]
  <2>1. i - 1 \in 0 .. n
    OBVIOUS
  <2>2. QED  BY ONLY <1>2, <1>4, <2>1, i \in 1 .. n
<1>6. QED  BY ONLY <1>1, <1>4, <1>5

\* w adds up the numbers y from some number on.
Climbs(p, w, y) ==
  /\ w[0] \in Int
  /\ \A i \in 1 .. p : y[i] \in Int /\ w[i] = w[i - 1] + y[i]
Apart(p, w, v) == w[p] - w[0] = v[p] - v[0] /\ w[p] \in Int /\ v[p] \in Int

\* Two sums of the same numbers stay as far apart as they begin.
LEMMA SumsApart ==
  ASSUME NEW p \in Nat, NEW w, NEW v, NEW y, Climbs(p, w, y), Climbs(p, v, y)
  PROVE  Apart(p, w, v)
<1>0. /\ w[0] \in Int /\ v[0] \in Int
      /\ \A i \in 1 .. p : y[i] \in Int /\ w[i] = w[i - 1] + y[i] /\ v[i] = v[i - 1] + y[i]
  BY ONLY Climbs(p, w, y), Climbs(p, v, y) DEF Climbs
<1> DEFINE S == {i \in 0 .. p : w[i] - w[0] = v[i] - v[0] /\ w[i] \in Int /\ v[i] \in Int}
<1>1. 0 \in S
  BY <1>0
<1>2. ASSUME NEW d \in Nat, d < p, d \in S  PROVE d + 1 \in S
  <2>1. d + 1 \in 1 .. p /\ d + 1 \in 0 .. p /\ (d + 1) - 1 = d  BY <1>2
  <2>2. PICK w0, w1, w2, v0, v1, v2, z : /\ w0 = w[0] /\ w1 = w[d] /\ w2 = w[d + 1] /\ v0 = v[0]
                                      /\ v1 = v[d] /\ v2 = v[d + 1] /\ z = y[d + 1]
    OBVIOUS
  <2>3. w1 - w0 = v1 - v0 /\ w1 \in Int /\ v1 \in Int  BY <1>2, <2>2
  <2>4. w2 = w1 + z /\ v2 = v1 + z /\ z \in Int  BY <1>0, <2>1, <2>2
  <2>5. w0 \in Int /\ v0 \in Int  BY <1>0, <2>2
  <2>6. w2 - w0 = v2 - v0 /\ w2 \in Int /\ v2 \in Int  BY ONLY <2>3, <2>4, <2>5
  <2>7. QED  BY ONLY <2>1, <2>2, <2>6
<1> HIDE DEF S
<1>3. \A i \in 0 .. p : i \in S  BY ONLY <1>1, <1>2, UpTo, p \in Nat
<1>4. p \in S  BY ONLY <1>3, p \in Nat
<1>5. QED  BY <1>4 DEF S, Apart

=============================================================================
