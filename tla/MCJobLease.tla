---------------------------- MODULE MCJobLease ----------------------------
(* JobLease and its ledger on a small instance. *)
EXTENDS JobLeaseLedger, TLC

WorkerSymmetry == Permutations(Workers)
=============================================================================
