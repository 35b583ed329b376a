------------------------------ MODULE Arrange ------------------------------
(***************************************************************************)
(* What sort(), ORDER BY and a comprehension that filters a list have in   *)
(* common: a finite set laid out by a strict total order on it.            *)
(***************************************************************************)
EXTENDS Integers, Sequences, FiniteSets

\* the element with n - 1 others before it stands at n; Before: a set of pairs
Arranged(S, Before) ==
  [n \in 1 .. Cardinality(S) |->
     CHOOSE x \in S : Cardinality({y \in S : <<y, x>> \in Before}) = n - 1]

\* the elements of a list that pass, in its order
Filter(list, Test(_)) ==
  LET kept   == {i \in DOMAIN list : Test(list[i])}
      places == Arranged(kept, {ij \in kept \X kept : ij[1] < ij[2]})
  IN  [n \in DOMAIN places |-> list[places[n]]]

=============================================================================
