------------------------------ MODULE MCResume ------------------------------
(* Resume with interchangeable workers. *)
EXTENDS Resume, TLC

Symmetry == Permutations(Workers)
=============================================================================
