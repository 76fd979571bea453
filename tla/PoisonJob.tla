------------------------------ MODULE PoisonJob ------------------------------
(***************************************************************************)
(* Jobs that no worker can finish: does the retry limit drop them from the *)
(* queue, and do the others get their turn?                                *)
(*                                                                         *)
(* The claim order, the lease and the attempt counter of ingest/lease.py   *)
(* without the network and the epochs that JobLease is about: a call is    *)
(* answered at once and a row has one worker.  So nothing here is bounded  *)
(* but the number of jobs, and a job may be leased for ever.               *)
(***************************************************************************)
EXTENDS Naturals, FiniteSetsExt

CONSTANTS NumJobs, Workers,
          MaxAttempts,   \* lease.MAX_ATTEMPTS
          Fate           \* what running a job comes to, for each of them

Jobs == 1..NumJobs

ASSUME FateAssumption ==
  Fate \in [Jobs -> {"finishes", "raises", "kills"}] /\ MaxAttempts \in Nat \ {0}

VARIABLES status, lease, attempts,   \* columns of the jobs row
          runs                       \* the job each worker runs, 0 for none

vars == <<status, lease, attempts, runs>>

Init ==
  /\ status   = [j \in Jobs |-> "queued"]
  /\ lease    = [j \in Jobs |-> "null"]
  /\ attempts = [j \in Jobs |-> 0]
  /\ runs     = [w \in Workers |-> 0]

\* The WHERE clause of claim.
Eligible(j) ==
  \/ status[j] = "queued"
  \/ status[j] = "running" /\ lease[j] = "lapsed"
  \/ status[j] = "failed" /\ attempts[j] < MaxAttempts

\* ORDER BY id LIMIT 1.
Claim(w) ==
  /\ runs[w] = 0
  /\ \E j \in Jobs : Eligible(j)
  /\ LET j == Min({i \in Jobs : Eligible(i)})
     IN  /\ status' = [status EXCEPT ![j] = "running"]
         /\ lease'  = [lease EXCEPT ![j] = "live"]
         /\ runs'   = [runs EXCEPT ![w] = j]
  /\ UNCHANGED attempts

Stop(w) == runs' = [runs EXCEPT ![w] = 0]

\* Every stage pushed, complete.
Finish(w) ==
  /\ runs[w] # 0
  /\ Fate[runs[w]] = "finishes"
  /\ status' = [status EXCEPT ![runs[w]] = "complete"]
  /\ Stop(w)
  /\ UNCHANGED <<lease, attempts>>

\* Mutant: fail leaves attempts to the caller.
RaiseUncharged(w) ==
  /\ runs[w] # 0
  /\ Fate[runs[w]] = "raises"
  /\ status' = [status EXCEPT ![runs[w]] = "failed"]
  /\ Stop(w)
  /\ UNCHANGED <<lease, attempts>>

\* A stage raises: the except clause of run_one_distributed calls fail.
Raise(w) ==
  /\ runs[w] # 0
  /\ Fate[runs[w]] = "raises"
  /\ status'   = [status EXCEPT ![runs[w]] = "failed"]
  /\ attempts' = [attempts EXCEPT ![runs[w]] = @ + 1]
  /\ Stop(w)
  /\ UNCHANGED lease

\* A stage takes the process down (out of memory, a crash in a native library):
\* nothing is called, and whatever supervises the worker starts it again.
Die(w) ==
  /\ runs[w] # 0
  /\ Fate[runs[w]] = "kills"
  /\ Stop(w)
  /\ UNCHANGED <<status, lease, attempts>>

\* Nobody renews the lease of a row that nobody runs.
Lapse(j) ==
  /\ lease[j] = "live"
  /\ \A w \in Workers : runs[w] # j
  /\ lease' = [lease EXCEPT ![j] = "lapsed"]
  /\ UNCHANGED <<status, attempts, runs>>

End(w) == Finish(w) \/ Raise(w) \/ Die(w)

Next == (\E w \in Workers : Claim(w) \/ End(w)) \/ (\E j \in Jobs : Lapse(j))

\* Workers poll, jobs end one way or another, time passes.
Fairness ==
  /\ \A w \in Workers : WF_vars(Claim(w)) /\ WF_vars(End(w))
  /\ \A j \in Jobs : WF_vars(Lapse(j))

Spec == Init /\ [][Next]_vars /\ Fairness

-----------------------------------------------------------------------------
Dropped(j) == status[j] = "failed" /\ attempts[j] = MaxAttempts

Settled(j) == IF Fate[j] = "finishes" THEN status[j] = "complete" ELSE Dropped(j)

\* A job gets its turn and comes to its end, the broken ones included, as long
\* as no job enqueued before it takes workers down: a retried failure does not
\* starve what stands behind it in the queue.
OlderJobsSettle ==
  \A j \in Jobs : (\A i \in 1..j : Fate[i] # "kills") => <>[]Settled(j)

\* "A permanently-broken job must not be re-claimed forever" (lease.py): every
\* job that cannot be finished ends up dropped, however it breaks.
BrokenJobsAreDropped ==
  \A j \in Jobs : Fate[j] # "finishes" => <>[]Dropped(j)
=============================================================================
