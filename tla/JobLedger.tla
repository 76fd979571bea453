------------------------------ MODULE JobLedger ------------------------------
(***************************************************************************)
(* What the jobs table promises to those who watch it (GET /ingest/status, *)
(* an operator, the worker that claims next), with no worker, lease, epoch *)
(* or network in sight.  A job's stages are recorded one at a time, in     *)
(* pipeline order and once each, and nothing recorded is taken back; it is *)
(* finished only with every stage recorded; it is charged a failure at     *)
(* most MaxAttempts times and is not worked on again after the last one.   *)
(*                                                                         *)
(* Two things it does NOT promise, because the code does not: a failed job *)
(* may still gain a stage or be finished (its worker's request was handled *)
(* after its report of failure), and a finished job may be charged a       *)
(* failure (its worker gave up on the response to complete).               *)
(***************************************************************************)
EXTENDS Naturals

CONSTANTS Jobs, NumStages, MaxAttempts

VARIABLES
  phase,      \* "open" (queued or running), "failed" or "complete"
  recorded,   \* the stages on record
  charged     \* failures charged

vars == <<phase, recorded, charged>>

Stages == 1..NumStages

Init ==
  /\ phase    = [j \in Jobs |-> "open"]
  /\ recorded = [j \in Jobs |-> {}]
  /\ charged  = [j \in Jobs |-> 0]

Record(j) ==
  /\ \E s \in Stages \ recorded[j] :
       /\ \A t \in Stages : t < s => t \in recorded[j]
       /\ recorded' = [recorded EXCEPT ![j] = @ \cup {s}]
  /\ UNCHANGED <<phase, charged>>

Finish(j) ==
  /\ recorded[j] = Stages
  /\ phase' = [phase EXCEPT ![j] = "complete"]
  /\ UNCHANGED <<recorded, charged>>

Charge(j) ==
  /\ charged[j] < MaxAttempts
  /\ phase'   = [phase EXCEPT ![j] = "failed"]
  /\ charged' = [charged EXCEPT ![j] = @ + 1]
  /\ UNCHANGED recorded

Reopen(j) ==
  /\ phase[j] = "failed"
  /\ charged[j] < MaxAttempts
  /\ phase' = [phase EXCEPT ![j] = "open"]
  /\ UNCHANGED <<recorded, charged>>

Next == \E j \in Jobs : Record(j) \/ Finish(j) \/ Charge(j) \/ Reopen(j)

Spec == Init /\ [][Next]_vars
=============================================================================
