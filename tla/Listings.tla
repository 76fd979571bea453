------------------------------ MODULE Listings ------------------------------
(***************************************************************************)
(* Sets of numbers as sequences in order, and what is kept of a sequence.  *)
(***************************************************************************)
EXTENDS Naturals, SequencesExt

InOrder(times) ==
  [i \in 1..Cardinality(times) |->
     CHOOSE t \in times : Cardinality({s \in times : s < t}) = i - 1]

\* The elements of seq at these positions.
Picked(seq, positions) ==
  LET order == InOrder(positions)
  IN  [n \in DOMAIN order |-> seq[order[n]]]
=============================================================================
