--------------------------- MODULE JobLeaseLedger ---------------------------
(* The refinement mapping from the lease protocol to the ledger.           *)
EXTENDS JobLease

\* What GET /ingest/status shows of a row, less the difference between queued
\* and running.
Phase(j) == IF status[j] \in {"queued", "running"} THEN "open" ELSE status[j]

Ledger == INSTANCE JobLedger WITH
  phase    <- [j \in Jobs |-> Phase(j)],
  recorded <- done,
  charged  <- attempts

\* The protocol implements the ledger.
ImplementsLedger == Ledger!Spec
=============================================================================
