------------------------------ MODULE Sublists ------------------------------
(***************************************************************************)
(* Some elements of a list, in the order they have there.                       *)
(***************************************************************************)
EXTENDS Naturals, Sequences, FiniteSets

(* The places, a finite set of numbers, from the least to the greatest *)
InOrder(places) ==
  CHOOSE f \in [1..Cardinality(places) -> places] :
    \A a, b \in 1..Cardinality(places) : a < b => f[a] < f[b]

Sublist(list, places) ==
  [k \in 1..Cardinality(places) |-> list[InOrder(places)[k]]]
=============================================================================
