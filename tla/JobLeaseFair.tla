---------------------------- MODULE JobLeaseFair ----------------------------
(***************************************************************************)
(* JobLease with a bounded number of mishaps and fair scheduling: does     *)
(* every enqueued job come to an end?                                      *)
(*                                                                         *)
(* A mishap is what the deployment does not do for ever: a worker dies, a  *)
(* message is lost, a client gives up on an answer that was still coming,  *)
(* a lease lapses although its holder is alive (a slow download, before    *)
(* the heartbeat starts, or heartbeats that come too late).                *)
(***************************************************************************)
EXTENDS JobLease

CONSTANT MaxFaults   \* bound: mishaps in a behaviour

VARIABLE faults

fairVars == <<vars, faults>>

Mishap(A) == A /\ faults < MaxFaults /\ faults' = faults + 1
Normal(A) == A /\ UNCHANGED faults

\* The call w is blocked on can no longer be answered: the 30 s timeout of the
\* HTTP client, or the connection, will raise.
Unanswerable(w) ==
  /\ reply[w] = "none"
  /\ IF pc[w] = "claiming" THEN w \notin claims
     ELSE /\ ~\E r \in net : r.from = w /\ Awaited(r)
          /\ ~\E j \in Jobs : ~Unlocked(j) /\ lock[j].from = w /\ Awaited(lock[j])

\* Nobody works on the row, so nobody renews its lease.
Abandoned(j) == ~\E w \in Workers : Holds(w, j)

MainStep(w) ==
  \/ SendClaim(w)    \/ ReadClaim(w)    \/ Fetched(w)
  \/ StartStage(w)   \/ StopFenced(w)
  \/ SendPush(w)     \/ ReadPush(w)
  \/ SendComplete(w) \/ ReadComplete(w)
  \/ SendFail(w)     \/ ReadFail(w)
  \/ Unanswerable(w) /\ CallRaises(w)

Optional(w) == WorkRaises(w) \/ SendHeartbeat(w)

Handle(r) == ServeHeartbeat(r) \/ BeginPush(r) \/ ServeComplete(r) \/ ServeFail(r)

\* A heartbeat thread's requests do not stand in a queue with its worker's calls.
HandleBeats(w) == \E r \in net : r.from = w /\ r.op = "heartbeat" /\ Handle(r)
HandleCalls(w) == \E r \in net : r.from = w /\ r.op # "heartbeat" /\ Handle(r)

EndPush(j) == CommitPush(j) \/ AbortPush(j)

LapseAbandoned(j) == Abandoned(j) /\ Lapse(j)

FaultyStep ==
  \/ \E w \in Workers : \/ Crash(w) \/ LoseClaim(w)
                        \/ ~Unanswerable(w) /\ CallRaises(w)
  \/ \E j \in Jobs : ~Abandoned(j) /\ Lapse(j)
  \/ \E r \in net : LoseRequest(r)

FairNext ==
  \/ \E w \in Workers : Normal(\/ MainStep(w)   \/ Optional(w)
                               \/ ServeClaim(w) \/ HandleBeats(w) \/ HandleCalls(w))
  \/ \E j \in Jobs : Normal(EndPush(j) \/ LapseAbandoned(j))
  \/ Mishap(FaultyStep)

\* Threads are scheduled, sent requests are handled, transactions end, time
\* passes.  Nothing obliges a stage to fail or a heartbeat to be sent.
Fairness ==
  /\ \A w \in Workers : /\ WF_fairVars(Normal(MainStep(w)))
                        /\ WF_fairVars(Normal(ServeClaim(w)))
                        /\ WF_fairVars(Normal(HandleBeats(w)))
                        /\ WF_fairVars(Normal(HandleCalls(w)))
  /\ \A j \in Jobs : /\ WF_fairVars(Normal(EndPush(j)))
                     /\ WF_fairVars(Normal(LapseAbandoned(j)))

FairSpec == Init /\ faults = 0 /\ [][FairNext]_fairVars /\ Fairness

-----------------------------------------------------------------------------
Settled(j) ==
  \/ status[j] = "complete"
  \/ status[j] = "failed" /\ attempts[j] = MaxAttempts

\* Every job ends up complete or out of attempts and stays so, through worker
\* deaths, lost requests and answers, and premature lapses: no row is stranded
\* in 'running', and workers do not take a job from each other for ever.
EveryJobSettles == \A j \in Jobs : <>[]Settled(j)
=============================================================================
