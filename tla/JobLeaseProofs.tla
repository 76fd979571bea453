--------------------------- MODULE JobLeaseProofs ---------------------------
(***************************************************************************)
(* Proofs about JobLease, for every number of jobs, workers, stages,       *)
(* attempts, leases and requests in flight.                                *)
(***************************************************************************)
EXTENDS JobLeaseLedger, TLAPS

\* The requests that may still change their rows: sent and not yet handled, or
\* a push whose transaction is open.
Pending == net \cup ({lock[j] : j \in Jobs} \ {NoRequest})

\* The pcs at which a worker knows exactly what its row has on record, plus
\* "pushing", where it may be one stage behind.
Aligned == {"claiming", "fetching", "looping", "computing", "pushing", "completing"}

\* A worker past its claim has a job, one that has not sent it has none.
SessionsOpen ==
  \A w \in Workers :
    /\ pc[w] \notin {"idle", "claiming"} \/ (pc[w] = "claiming" /\ reply[w] = "ok")
         => session[w].job \in Jobs
    /\ pc[w] = "idle" => session[w].job = 0

\* No epoch is in use that its row has not reached.
EpochsIssued ==
  /\ \A w \in Workers : session[w].job # 0 => session[w].epoch <= epoch[session[w].job]
  /\ \A r \in net : r.epoch <= epoch[r.job]

\* An epoch of a row belongs to one worker: its session and its requests.
OneSender ==
  /\ \A v, w \in Workers :
       session[v].job # 0 /\ session[v].job = session[w].job
         /\ session[v].epoch = session[w].epoch => v = w
  /\ \A r \in Pending, w \in Workers : InSession(w, r) => w = r.from
  /\ \A q, r \in Pending :
       q.job = r.job /\ q.epoch = r.epoch => q.from = r.from

\* In an epoch at most one push is pending, it is the sender's next stage, and
\* while its sender waits for it nobody has answered.
OnePush ==
  /\ \A q, r \in Pending :
       /\ q.op = "push" /\ r.op = "push"
       /\ q.job = r.job /\ q.epoch = r.epoch
       => q = r
  /\ \A r \in net, j \in Jobs : lock[j] # r
  /\ \A r \in Pending, w \in Workers :
       r.op = "push" /\ InSession(w, r) =>
         /\ pc[w] \in {"pushing", "erring", "failing"}
         /\ (pc[w] = "pushing") => (IsNext(w, r.stage) /\ reply[w] = "none")

\* A pending push finds the earlier stages on record, and its own not yet if
\* it can still pass the fence.
PushesFit ==
  \A r \in Pending : r.op = "push" =>
    /\ r.stage \in Stages
    /\ \A t \in Stages : t < r.stage => t \in done[r.job]
    /\ FencePasses(r) => r.stage \notin done[r.job]

\* The holder of a row still has to do exactly what is not on record, save for
\* a push whose answer it has not read.
HolderKnows ==
  \A w \in Workers : session[w].job # 0 =>
    /\ Holds(w, session[w].job) /\ pc[w] \in Aligned =>
         \A s \in session[w].todo \cap done[session[w].job] :
           pc[w] = "pushing" /\ IsNext(w, s)
    /\ (pc[w] = "pushing" /\ reply[w] = "ok") =>
         \A s \in Stages : IsNext(w, s) => s \in done[session[w].job]

\* complete is sent for a job with every stage on record.
CompletesFit == \A r \in net : r.op = "complete" => done[r.job] = Stages

\* Whatever may still charge a row an attempt leaves room for it.
ChargesFit ==
  /\ \A j \in Jobs : status[j] \in {"queued", "running"} => attempts[j] < MaxAttempts
  /\ \A r \in net : r.op = "fail" =>
       /\ r.stage = 0
       /\ FencePasses(r) => attempts[r.job] < MaxAttempts
       /\ \A w \in Workers : InSession(w, r) => pc[w] = "failing"
  /\ \A w \in Workers :
       session[w].job # 0 /\ Holds(w, session[w].job) /\ pc[w] # "failing"
         => attempts[session[w].job] < MaxAttempts

IInv ==
  /\ TypeOK /\ SessionsOpen
  /\ EpochsIssued /\ AdmittedPushHoldsRow
  /\ OneSender /\ OnePush /\ PushesFit
  /\ NothingForgotten /\ HolderKnows
  /\ StagesInOrder /\ CompletesFit /\ CompleteHasAllStages
  /\ ChargesFit /\ AttemptsBounded

-----------------------------------------------------------------------------
(* What the helpers of the actions do.                                     *)

\* w has put r in flight: a call of its own session that was not there before.
Sends(w, r) ==
  /\ r.from = w /\ r.job = session[w].job /\ r.epoch = session[w].epoch
  /\ r \notin net
  /\ net' = net \cup {r}

\* The fields of a worker's session have the types its record says.
LEMMA SessionType ==
  ASSUME TypeOK, NEW w \in Workers
  PROVE  /\ session[w] \in Sessions
         /\ session[w].job \in Jobs \cup {0}
         /\ session[w].epoch \in Epochs
         /\ session[w].todo \subseteq Stages
  <1>1. session[w] \in Sessions
    BY DEF TypeOK
  <1>2. QED
    BY <1>1 DEF Sessions

\* A call that is sent is a request of its sender's own session.
LEMMA SendEffect ==
  ASSUME TypeOK, NEW w \in Workers, session[w].job \in Jobs,
         NEW kind \in {"push", "complete", "fail", "heartbeat"},
         NEW s \in 0..NumStages, Send(Request(w, kind, s))
  PROVE  \E r \in Requests : r.op = kind /\ r.stage = s /\ Sends(w, r)
  <1>1. session[w].epoch \in Epochs
    BY SessionType
  <1>2. Request(w, kind, s) \in Requests
    BY <1>1 DEF Request, Requests
  <1>3. QED
    BY <1>2 DEF Request, Send, Sends

\* Acknowledged, a stage leaves todo; nothing else about any session changes.
LEMMA ReadPushEffect ==
  ASSUME TypeOK, NEW w \in Workers, NEW s \in Stages,
         session' = [session EXCEPT ![w].todo = @ \ {s}]
  PROVE  /\ session' \in [Workers -> Sessions]
         /\ session'[w].todo = session[w].todo \ {s}
         /\ \A v \in Workers : /\ session'[v].job = session[v].job
                               /\ session'[v].epoch = session[v].epoch
                               /\ v # w => session'[v] = session[v]
  <1>1. session[w] \in Sessions
    BY SessionType
  <1>2. [session[w] EXCEPT !.todo = @ \ {s}] \in Sessions
    BY <1>1 DEF Sessions
  <1>3. session' = [session EXCEPT ![w] = [session[w] EXCEPT !.todo = @ \ {s}]]
    OBVIOUS
  <1>4. /\ session' \in [Workers -> Sessions]
        /\ session'[w] = [session[w] EXCEPT !.todo = @ \ {s}]
        /\ \A v \in Workers : v # w => session'[v] = session[v]
    BY <1>2, <1>3 DEF TypeOK
  <1>5. /\ session'[w].todo = session[w].todo \ {s}
        /\ session'[w].job = session[w].job
        /\ session'[w].epoch = session[w].epoch
    BY <1>1, <1>4 DEF Sessions
  <1>6. QED
    BY <1>4, <1>5

\* A worker that forgets its session is idle and leaves the others alone.
LEMMA ForgetEffect ==
  ASSUME TypeOK, NEW w \in Workers, Forget(w)
  PROVE  /\ pc' \in [Workers -> PCs]
         /\ session' \in [Workers -> Sessions]
         /\ reply' \in [Workers -> {"none", "ok", "stale", "idle"}]
         /\ fenced' \in [Workers -> BOOLEAN]
         /\ session'[w].job = 0 /\ session'[w].todo = {}
         /\ pc'[w] = "idle" /\ reply'[w] = "none"
         /\ \A v \in Workers : v # w => /\ session'[v] = session[v]
                                        /\ pc'[v] = pc[v]
                                        /\ reply'[v] = reply[v]
  <1>1. NoSession \in Sessions
    BY SizesAssumption DEF NoSession, Sessions, Epochs
  <1>2. QED
    BY <1>1 DEF Forget, TypeOK, PCs, NoSession

\* A claim leases one row anew; a claimant that still waits gets the session.
LEMMA GrantEffect ==
  ASSUME TypeOK, NEW w \in Workers, NEW j \in Jobs, Grant(w, j)
  PROVE  /\ epoch' \in [Jobs -> Epochs]
         /\ epoch'[j] = epoch[j] + 1
         /\ \A i \in Jobs : i # j => epoch'[i] = epoch[i]
         /\ session' \in [Workers -> Sessions]
         /\ \A v \in Workers : v # w => session'[v] = session[v] /\ reply'[v] = reply[v]
         /\ \/ /\ pc[w] = "claiming" /\ reply'[w] = "ok"
               /\ session'[w].job = j /\ session'[w].epoch = epoch[j] + 1
               /\ session'[w].todo = Stages \ done[j]
            \/ pc[w] # "claiming" /\ UNCHANGED <<session, reply>>
  <1>1. epoch[j] + 1 \in Epochs
    BY SizesAssumption DEF Grant, TypeOK, Epochs
  <1> DEFINE new == [job |-> j, epoch |-> epoch[j] + 1, todo |-> Stages \ done[j]]
  <1>2. new \in Sessions
    BY <1>1 DEF Sessions, TypeOK
  <1>3. new.job = j /\ new.epoch = epoch[j] + 1 /\ new.todo = Stages \ done[j]
    OBVIOUS
  <1>4. /\ epoch' \in [Jobs -> Epochs]
        /\ epoch'[j] = epoch[j] + 1
        /\ \A i \in Jobs : i # j => epoch'[i] = epoch[i]
    BY <1>1 DEF Grant, TypeOK
  <1> HIDE DEF new
  <1>5. CASE pc[w] = "claiming"
    <2>1. session' = [session EXCEPT ![w] = new] /\ reply' = [reply EXCEPT ![w] = "ok"]
      BY <1>5 DEF Grant, new
    <2>2. QED
      BY <1>2, <1>3, <1>4, <1>5, <2>1 DEF TypeOK
  <1>6. CASE pc[w] # "claiming"
    BY <1>4, <1>6 DEF Grant, TypeOK
  <1>7. QED
    BY <1>5, <1>6

\* The coordinator answers at most the worker that is blocked on the request.
LEMMA AnswerEffect ==
  ASSUME TypeOK, NEW r \in Requests, NEW kind \in {"ok", "stale"}, Answer(r, kind)
  PROVE  /\ reply' \in [Workers -> {"none", "ok", "stale", "idle"}]
         /\ \A w \in Workers : reply'[w] # reply[w] =>
              /\ w = r.from /\ reply'[w] = kind /\ InSession(w, r)
              /\ r.op = "push"     => pc[w] = "pushing"
              /\ r.op = "complete" => pc[w] = "completing"
              /\ r.op = "fail"     => pc[w] = "failing"
  <1>1. r.from \in Workers /\ r.op \in {"push", "complete", "fail", "heartbeat"}
    BY DEF Requests
  <1>2. QED
    BY <1>1 DEF Answer, Awaited, TypeOK

-----------------------------------------------------------------------------
(* The three kinds of step.                                                *)

\* w sends r: a heartbeat, or the call its main thread goes on to wait for.
Sent(w, r) ==
  /\ Sends(w, r)
  /\ session[w].job \in Jobs
  /\ UNCHANGED <<rowVars, session, fenced, claims>>
  /\ r.op \in {"push", "complete", "fail"} =>
       /\ pc' = [pc EXCEPT ![w] = CASE r.op = "push"     -> "pushing"
                                    [] r.op = "complete" -> "completing"
                                    [] r.op = "fail"     -> "failing"]
       /\ reply' = [reply EXCEPT ![w] = "none"]
  /\ r.op = "push"      => pc[w] = "computing" /\ r.stage \in Stages /\ IsNext(w, r.stage)
  /\ r.op = "complete"  => pc[w] = "looping" /\ session[w].todo = {}
  /\ r.op = "fail"      => pc[w] = "erring" /\ r.stage = 0
  /\ r.op = "heartbeat" => UNCHANGED <<pc, reply>>

\* What a step that neither sends a request nor leases a row may do to a row.
RowSettles(j) ==
  /\ \/ lock'[j] \in {lock[j], NoRequest}
     \/ /\ Unlocked(j)
        /\ lock'[j] \in net \ net'
        /\ lock'[j].op = "push" /\ lock'[j].job = j /\ FencePasses(lock'[j])
  /\ \/ done'[j] = done[j]
     \/ ~Unlocked(j) /\ lock'[j] = NoRequest /\ done'[j] = done[j] \cup {lock[j].stage}
  /\ \/ status'[j] = status[j] /\ attempts'[j] = attempts[j]
     \/ /\ \E r \in net : r.op = "complete" /\ r.job = j
        /\ status'[j] = "complete" /\ attempts'[j] = attempts[j]
     \/ /\ \E r \in net \ net' : r.op = "fail" /\ r.job = j /\ FencePasses(r)
        /\ status'[j] = "failed" /\ attempts'[j] = attempts[j] + 1

\* The ways from one pc to another that leave todo alone.
Moves == {<<"idle", "claiming">>, <<"claiming", "fetching">>, <<"fetching", "looping">>,
          <<"looping", "computing">>} \cup {"fetching", "computing", "pushing", "completing"} \X {"erring"}

\* ... and to a worker: it ends its session or moves on in it, and if it waits
\* for a push then an answer comes from the one transaction that took the push.
WorkerSettles(w) == session'[w].job # 0 =>
  /\ session'[w].job = session[w].job /\ session'[w].epoch = session[w].epoch
  /\ \/ /\ pc'[w] = pc[w] \/ <<pc[w], pc'[w]>> \in Moves
        /\ session'[w].todo = session[w].todo
     \/ /\ pc[w] = "pushing" /\ pc'[w] = "looping" /\ reply[w] = "ok"
        /\ \E s \in Stages : IsNext(w, s) /\ session'[w].todo = session[w].todo \ {s}
  /\ \/ reply'[w] = reply[w]
     \/ pc'[w] # "pushing"
     \/ /\ reply'[w] = "stale"
        /\ \E r \in net \ net' : r.op = "push" /\ InSession(w, r) /\ ~FencePasses(r)
     \/ \E j \in Jobs : /\ ~Unlocked(j) /\ InSession(w, lock[j])
                        /\ lock'[j] = NoRequest
                        /\ done'[j] = done[j] \cup {lock[j].stage}

Settles ==
  /\ net' \subseteq net
  /\ UNCHANGED epoch
  /\ \A j \in Jobs : RowSettles(j)
  /\ \A w \in Workers : WorkerSettles(w)

StepKinds ==
  \/ \E w \in Workers, r \in Requests : Sent(w, r)
  \/ \E w \in Workers, j \in Jobs : Claimable(j) /\ Grant(w, j) /\ UNCHANGED net
  \/ Settles

\* A worker that goes on past its claim was granted a job.
LEMMA SessionsOpenStep == TypeOK /\ SessionsOpen /\ [Next]_vars => SessionsOpen'
  <1> SUFFICES ASSUME TypeOK, SessionsOpen, [Next]_vars PROVE SessionsOpen'
    OBVIOUS
  <1>1. ASSUME NEW w \in Workers, SendClaim(w) PROVE SessionsOpen'
    BY <1>1 DEF SendClaim, rowVars, workerVars, SessionsOpen, TypeOK
  <1>2. ASSUME NEW w \in Workers, ReadClaim(w) PROVE SessionsOpen'
    BY <1>2, ForgetEffect DEF ReadClaim, Goto, rowVars, workerVars, SessionsOpen, TypeOK
  <1>3. ASSUME NEW w \in Workers, Fetched(w) PROVE SessionsOpen'
    BY <1>3 DEF Fetched, Goto, rowVars, workerVars, SessionsOpen, TypeOK
  <1>4. ASSUME NEW w \in Workers, StartStage(w) PROVE SessionsOpen'
    BY <1>4 DEF StartStage, Goto, rowVars, workerVars, SessionsOpen, TypeOK
  <1>5. ASSUME NEW w \in Workers, StopFenced(w) PROVE SessionsOpen'
    BY <1>5, ForgetEffect DEF StopFenced, rowVars, workerVars, SessionsOpen, TypeOK
  <1>6. ASSUME NEW w \in Workers, SendPush(w) PROVE SessionsOpen'
    <2>1. session[w].job \in Jobs /\ session[w].job # 0
      BY <1>6 DEF SendPush, Jobs, SessionsOpen
    <2>2. PICK s \in Stages : IsNext(w, s) /\ Call(w, "push", s, "pushing")
      BY <1>6 DEF SendPush
    <2>3. PICK r \in Requests : r.op = "push" /\ r.stage = s /\ Sends(w, r)
      BY <2>1, <2>2, SendEffect DEF Call, Stages
    <2>4. QED
      BY <1>6, <2>1, <2>2, <2>3 DEF SendPush, Call, Sends, rowVars, workerVars, SessionsOpen, TypeOK
  <1>7. ASSUME NEW w \in Workers, ReadPush(w) PROVE SessionsOpen'
    <2>1. CASE Forget(w)
      BY <1>7, <2>1, ForgetEffect DEF ReadPush, rowVars, workerVars, SessionsOpen, TypeOK
    <2>2. ASSUME NEW s \in Stages, IsNext(w, s), reply[w] = "ok",
                 session' = [session EXCEPT ![w].todo = @ \ {s}],
                 Goto(w, "looping"), UNCHANGED <<reply, fenced>>
          PROVE  SessionsOpen'
      BY <1>7, <2>2, ReadPushEffect DEF ReadPush, Goto, rowVars, workerVars, SessionsOpen, TypeOK
    <2>3. QED
      BY <1>7, <2>1, <2>2 DEF ReadPush
  <1>8. ASSUME NEW w \in Workers, SendComplete(w) PROVE SessionsOpen'
    <2>1. session[w].job \in Jobs /\ session[w].job # 0
      BY <1>8 DEF SendComplete, Jobs, SessionsOpen
    <2>2. PICK r \in Requests : r.op = "complete" /\ r.stage = 0 /\ Sends(w, r)
      BY <1>8, <2>1, SendEffect, SizesAssumption DEF SendComplete, Call
    <2>3. QED
      BY <1>8, <2>1, <2>2 DEF SendComplete, Call, Sends, rowVars, workerVars, SessionsOpen, TypeOK
  <1>9. ASSUME NEW w \in Workers, ReadComplete(w) PROVE SessionsOpen'
    BY <1>9, ForgetEffect DEF ReadComplete, rowVars, workerVars, SessionsOpen, TypeOK
  <1>10. ASSUME NEW w \in Workers, WorkRaises(w) PROVE SessionsOpen'
    BY <1>10 DEF WorkRaises, Goto, rowVars, workerVars, SessionsOpen, TypeOK
  <1>11. ASSUME NEW w \in Workers, CallRaises(w) PROVE SessionsOpen'
    BY <1>11, ForgetEffect DEF CallRaises, Goto, rowVars, workerVars, SessionsOpen, TypeOK
  <1>12. ASSUME NEW w \in Workers, SendFail(w) PROVE SessionsOpen'
    <2>1. session[w].job \in Jobs /\ session[w].job # 0
      BY <1>12 DEF SendFail, Jobs, SessionsOpen
    <2>2. PICK r \in Requests : r.op = "fail" /\ r.stage = 0 /\ Sends(w, r)
      BY <1>12, <2>1, SendEffect, SizesAssumption DEF SendFail, Call
    <2>3. QED
      BY <1>12, <2>1, <2>2 DEF SendFail, Call, Sends, rowVars, workerVars, SessionsOpen, TypeOK
  <1>13. ASSUME NEW w \in Workers, ReadFail(w) PROVE SessionsOpen'
    BY <1>13, ForgetEffect DEF ReadFail, rowVars, workerVars, SessionsOpen, TypeOK
  <1>14. ASSUME NEW w \in Workers, Crash(w) PROVE SessionsOpen'
    BY <1>14, ForgetEffect DEF Crash, rowVars, workerVars, SessionsOpen, TypeOK
  <1>15. ASSUME NEW w \in Workers, SendHeartbeat(w) PROVE SessionsOpen'
    <2>1. session[w].job \in Jobs /\ session[w].job # 0
      BY <1>15 DEF SendHeartbeat, Jobs, SessionsOpen, Beating
    <2>2. PICK r \in Requests : r.op = "heartbeat" /\ r.stage = 0 /\ Sends(w, r)
      BY <1>15, <2>1, SendEffect, SizesAssumption DEF SendHeartbeat
    <2>3. QED
      BY <1>15, <2>1, <2>2 DEF SendHeartbeat, Sends, rowVars, workerVars, SessionsOpen, TypeOK
  <1>16. ASSUME NEW w \in Workers, ServeClaim(w) PROVE SessionsOpen'
    <2>1. ASSUME NEW j \in Jobs, Claimable(j), Grant(w, j) PROVE SessionsOpen'
      BY <1>16, <2>1, GrantEffect DEF ServeClaim, Grant, Claimable, rowVars, workerVars, SessionsOpen, TypeOK
    <2>2. CASE NothingEligible(w)
      BY <1>16, <2>2 DEF ServeClaim, NothingEligible, rowVars, workerVars, SessionsOpen, TypeOK
    <2>3. QED
      BY <1>16, <2>1, <2>2 DEF ServeClaim
  <1>17. ASSUME NEW w \in Workers, LoseClaim(w) PROVE SessionsOpen'
    BY <1>17 DEF LoseClaim, rowVars, workerVars, SessionsOpen, TypeOK
  <1>18. ASSUME NEW r \in net, ServeHeartbeat(r) PROVE SessionsOpen'
    BY <1>18 DEF ServeHeartbeat, rowVars, workerVars, SessionsOpen, TypeOK
  <1>19. ASSUME NEW r \in net, BeginPush(r) PROVE SessionsOpen'
    <2>1. r \in Requests
      BY DEF TypeOK
    <2>2. QED
      BY <1>19, <2>1, AnswerEffect DEF BeginPush, rowVars, workerVars, SessionsOpen, TypeOK
  <1>20. ASSUME NEW r \in net, ServeComplete(r) PROVE SessionsOpen'
    <2>1. r \in Requests
      BY DEF TypeOK
    <2>2. QED
      BY <1>20, <2>1, AnswerEffect DEF ServeComplete, rowVars, workerVars, SessionsOpen, TypeOK
  <1>21. ASSUME NEW r \in net, ServeFail(r) PROVE SessionsOpen'
    <2>1. r \in Requests
      BY DEF TypeOK
    <2>2. QED
      BY <1>21, <2>1, AnswerEffect DEF ServeFail, rowVars, workerVars, SessionsOpen, TypeOK
  <1>22. ASSUME NEW r \in net, LoseRequest(r) PROVE SessionsOpen'
    BY <1>22 DEF LoseRequest, rowVars, workerVars, SessionsOpen, TypeOK
  <1>23. ASSUME NEW j \in Jobs, CommitPush(j) PROVE SessionsOpen'
    <2>1. lock[j] \in Requests /\ lock[j].op = "push"
      BY <1>23 DEF CommitPush, Unlocked, TypeOK
    <2>2. QED
      BY <1>23, <2>1, AnswerEffect DEF CommitPush, rowVars, workerVars, SessionsOpen, TypeOK
  <1>24. ASSUME NEW j \in Jobs, AbortPush(j) PROVE SessionsOpen'
    BY <1>24 DEF AbortPush, rowVars, workerVars, SessionsOpen, TypeOK
  <1>25. ASSUME NEW j \in Jobs, Lapse(j) PROVE SessionsOpen'
    BY <1>25 DEF Lapse, rowVars, workerVars, SessionsOpen, TypeOK
  <1>26. CASE UNCHANGED vars
    BY <1>26 DEF vars, rowVars, workerVars, SessionsOpen, TypeOK
  <1>27. QED
    BY <1>1, <1>2, <1>3, <1>4, <1>5, <1>6, <1>7, <1>8, <1>9, <1>10, <1>11, <1>12, <1>13,
       <1>14, <1>15, <1>16, <1>17, <1>18, <1>19, <1>20, <1>21, <1>22, <1>23, <1>24, <1>25, <1>26
       DEF Next, WorkerStep, ServerStep, EnvironmentStep

\* Every step sends a request, leases a row, or does neither.
LEMMA StepKind == TypeOK /\ SessionsOpen /\ [Next]_vars => StepKinds
  <1> SUFFICES ASSUME TypeOK, SessionsOpen, [Next]_vars PROVE StepKinds
    OBVIOUS
  <1>1. ASSUME NEW w \in Workers, SendClaim(w) PROVE StepKinds
    BY <1>1 DEF SendClaim, rowVars, workerVars, StepKinds, Settles, RowSettles, WorkerSettles, Moves, Unlocked, TypeOK
  <1>2. ASSUME NEW w \in Workers, ReadClaim(w) PROVE StepKinds
    BY <1>2, ForgetEffect DEF ReadClaim, Goto, rowVars, workerVars, StepKinds, Settles, RowSettles, WorkerSettles, Moves, Unlocked, TypeOK
  <1>3. ASSUME NEW w \in Workers, Fetched(w) PROVE StepKinds
    BY <1>3 DEF Fetched, Goto, rowVars, workerVars, StepKinds, Settles, RowSettles, WorkerSettles, Moves, Unlocked, TypeOK
  <1>4. ASSUME NEW w \in Workers, StartStage(w) PROVE StepKinds
    BY <1>4 DEF StartStage, Goto, rowVars, workerVars, StepKinds, Settles, RowSettles, WorkerSettles, Moves, Unlocked, TypeOK
  <1>5. ASSUME NEW w \in Workers, StopFenced(w) PROVE StepKinds
    BY <1>5, ForgetEffect DEF StopFenced, rowVars, workerVars, StepKinds, Settles, RowSettles, WorkerSettles, Moves, Unlocked, TypeOK
  <1>6. ASSUME NEW w \in Workers, SendPush(w) PROVE StepKinds
    <2>1. session[w].job \in Jobs
      BY <1>6 DEF SendPush, SessionsOpen
    <2>2. PICK s \in Stages : IsNext(w, s) /\ Call(w, "push", s, "pushing")
      BY <1>6 DEF SendPush
    <2>3. PICK r \in Requests : r.op = "push" /\ r.stage = s /\ Sends(w, r)
      BY <2>1, <2>2, SendEffect DEF Call, Stages
    <2>4. Sent(w, r)
      BY <1>6, <2>1, <2>2, <2>3 DEF SendPush, Call, Sent, TypeOK
    <2>5. QED
      BY <2>4 DEF StepKinds
  <1>7. ASSUME NEW w \in Workers, ReadPush(w) PROVE StepKinds
    <2>1. CASE Forget(w)
      BY <1>7, <2>1, ForgetEffect DEF ReadPush, rowVars, StepKinds, Settles, RowSettles, WorkerSettles, Moves, Unlocked, TypeOK
    <2>2. ASSUME NEW s \in Stages, IsNext(w, s), reply[w] = "ok",
                 session' = [session EXCEPT ![w].todo = @ \ {s}],
                 pc' = [pc EXCEPT ![w] = "looping"], UNCHANGED reply
          PROVE  StepKinds
      <3>1. \A v \in Workers : WorkerSettles(v)
        BY <1>7, <2>2, ReadPushEffect DEF ReadPush, WorkerSettles, TypeOK
      <3>2. QED
        BY <1>7, <3>1 DEF ReadPush, rowVars, StepKinds, Settles, RowSettles
    <2>3. QED
      BY <1>7, <2>1, <2>2 DEF ReadPush, Goto
  <1>8. ASSUME NEW w \in Workers, SendComplete(w) PROVE StepKinds
    <2>1. session[w].job \in Jobs
      BY <1>8 DEF SendComplete, SessionsOpen
    <2>2. PICK r \in Requests : r.op = "complete" /\ r.stage = 0 /\ Sends(w, r)
      BY <1>8, <2>1, SendEffect, SizesAssumption DEF SendComplete, Call
    <2>3. Sent(w, r)
      BY <1>8, <2>1, <2>2 DEF SendComplete, Sent, Call
    <2>4. QED
      BY <2>3 DEF StepKinds
  <1>9. ASSUME NEW w \in Workers, ReadComplete(w) PROVE StepKinds
    BY <1>9, ForgetEffect DEF ReadComplete, rowVars, workerVars, StepKinds, Settles, RowSettles, WorkerSettles, Moves, Unlocked, TypeOK
  <1>10. ASSUME NEW w \in Workers, WorkRaises(w) PROVE StepKinds
    BY <1>10 DEF WorkRaises, Goto, rowVars, workerVars, StepKinds, Settles, RowSettles, WorkerSettles, Moves, Unlocked, TypeOK
  <1>11. ASSUME NEW w \in Workers, CallRaises(w) PROVE StepKinds
    BY <1>11, ForgetEffect DEF CallRaises, Goto, rowVars, workerVars, StepKinds, Settles, RowSettles, WorkerSettles, Moves, Unlocked, TypeOK
  <1>12. ASSUME NEW w \in Workers, SendFail(w) PROVE StepKinds
    <2>1. session[w].job \in Jobs
      BY <1>12 DEF SendFail, SessionsOpen
    <2>2. PICK r \in Requests : r.op = "fail" /\ r.stage = 0 /\ Sends(w, r)
      BY <1>12, <2>1, SendEffect, SizesAssumption DEF SendFail, Call
    <2>3. Sent(w, r)
      BY <1>12, <2>1, <2>2 DEF SendFail, Sent, Call
    <2>4. QED
      BY <2>3 DEF StepKinds
  <1>13. ASSUME NEW w \in Workers, ReadFail(w) PROVE StepKinds
    BY <1>13, ForgetEffect DEF ReadFail, rowVars, workerVars, StepKinds, Settles, RowSettles, WorkerSettles, Moves, Unlocked, TypeOK
  <1>14. ASSUME NEW w \in Workers, Crash(w) PROVE StepKinds
    BY <1>14, ForgetEffect DEF Crash, rowVars, workerVars, StepKinds, Settles, RowSettles, WorkerSettles, Moves, Unlocked, TypeOK
  <1>15. ASSUME NEW w \in Workers, SendHeartbeat(w) PROVE StepKinds
    <2>1. session[w].job \in Jobs
      BY <1>15 DEF SendHeartbeat, SessionsOpen, Beating
    <2>2. PICK r \in Requests : r.op = "heartbeat" /\ r.stage = 0 /\ Sends(w, r)
      BY <1>15, <2>1, SendEffect, SizesAssumption DEF SendHeartbeat
    <2>3. Sent(w, r)
      BY <1>15, <2>1, <2>2 DEF SendHeartbeat, Sent, rowVars, workerVars
    <2>4. QED
      BY <2>3 DEF StepKinds
  <1>16. ASSUME NEW w \in Workers, ServeClaim(w) PROVE StepKinds
    <2>1. ASSUME NEW j \in Jobs, Claimable(j), Grant(w, j) PROVE StepKinds
      BY <1>16, <2>1 DEF ServeClaim, StepKinds
    <2>2. CASE NothingEligible(w)
      BY <1>16, <2>2 DEF ServeClaim, NothingEligible, rowVars, StepKinds, Settles, RowSettles, WorkerSettles, Moves, Unlocked, TypeOK
    <2>3. QED
      BY <1>16, <2>1, <2>2 DEF ServeClaim
  <1>17. ASSUME NEW w \in Workers, LoseClaim(w) PROVE StepKinds
    BY <1>17 DEF LoseClaim, rowVars, workerVars, StepKinds, Settles, RowSettles, WorkerSettles, Moves, Unlocked, TypeOK
  <1>18. ASSUME NEW r \in net, ServeHeartbeat(r) PROVE StepKinds
    BY <1>18 DEF ServeHeartbeat, rowVars, workerVars, StepKinds, Settles, RowSettles, WorkerSettles, Moves, Unlocked, TypeOK
  <1>19. ASSUME NEW r \in net, BeginPush(r) PROVE StepKinds
    <2>1. r \in Requests
      BY DEF TypeOK
    <2>2. ASSUME NEW v \in Workers PROVE WorkerSettles(v)
      <3>1. CASE reply'[v] = reply[v]
        BY <1>19, <3>1 DEF BeginPush, WorkerSettles
      <3>2. CASE reply'[v] # reply[v]
        BY <1>19, <2>1, <3>2, AnswerEffect DEF BeginPush, WorkerSettles
      <3>3. QED
        BY <3>1, <3>2
    <2>3. ASSUME NEW j \in Jobs PROVE RowSettles(j)
      BY <1>19, <2>1 DEF BeginPush, RowSettles, Requests, TypeOK, Unlocked
    <2>4. QED
      BY <1>19, <2>2, <2>3 DEF BeginPush, StepKinds, Settles
  <1>20. ASSUME NEW r \in net, ServeComplete(r) PROVE StepKinds
    <2>1. r \in Requests
      BY DEF TypeOK
    <2>2. ASSUME NEW v \in Workers PROVE WorkerSettles(v)
      <3>1. CASE reply'[v] = reply[v]
        BY <1>20, <3>1 DEF ServeComplete, WorkerSettles
      <3>2. CASE reply'[v] # reply[v]
        BY <1>20, <2>1, <3>2, AnswerEffect DEF ServeComplete, WorkerSettles
      <3>3. QED
        BY <3>1, <3>2
    <2>3. ASSUME NEW j \in Jobs PROVE RowSettles(j)
      BY <1>20, <2>1 DEF ServeComplete, RowSettles, Requests, TypeOK
    <2>4. QED
      BY <1>20, <2>2, <2>3 DEF ServeComplete, StepKinds, Settles
  <1>21. ASSUME NEW r \in net, ServeFail(r) PROVE StepKinds
    <2>1. r \in Requests
      BY DEF TypeOK
    <2>2. ASSUME NEW v \in Workers PROVE WorkerSettles(v)
      <3>1. CASE reply'[v] = reply[v]
        BY <1>21, <3>1 DEF ServeFail, WorkerSettles
      <3>2. CASE reply'[v] # reply[v]
        BY <1>21, <2>1, <3>2, AnswerEffect DEF ServeFail, WorkerSettles
      <3>3. QED
        BY <3>1, <3>2
    <2>3. ASSUME NEW j \in Jobs PROVE RowSettles(j)
      BY <1>21, <2>1 DEF ServeFail, RowSettles, Requests, TypeOK
    <2>4. QED
      BY <1>21, <2>2, <2>3 DEF ServeFail, StepKinds, Settles
  <1>22. ASSUME NEW r \in net, LoseRequest(r) PROVE StepKinds
    BY <1>22 DEF LoseRequest, rowVars, workerVars, StepKinds, Settles, RowSettles, WorkerSettles, Moves, Unlocked, TypeOK
  <1>23. ASSUME NEW j \in Jobs, CommitPush(j) PROVE StepKinds
    <2>1. lock[j] \in Requests /\ lock[j].op = "push"
      BY <1>23 DEF CommitPush, Unlocked, TypeOK
    <2>2. lock'[j] = NoRequest /\ done'[j] = done[j] \cup {lock[j].stage}
      BY <1>23 DEF CommitPush, TypeOK
    <2>3. ASSUME NEW v \in Workers PROVE WorkerSettles(v)
      <3>1. CASE reply'[v] = reply[v]
        BY <1>23, <3>1 DEF CommitPush, WorkerSettles
      <3>2. CASE reply'[v] # reply[v]
        <4>1. InSession(v, lock[j])
          BY <1>23, <2>1, <3>2, AnswerEffect DEF CommitPush
        <4>2. QED
          BY <1>23, <2>2, <4>1 DEF CommitPush, WorkerSettles
      <3>3. QED
        BY <3>1, <3>2
    <2>4. ASSUME NEW i \in Jobs PROVE RowSettles(i)
      BY <1>23, <2>2 DEF CommitPush, RowSettles, TypeOK
    <2>5. QED
      BY <1>23, <2>3, <2>4 DEF CommitPush, StepKinds, Settles
  <1>24. ASSUME NEW j \in Jobs, AbortPush(j) PROVE StepKinds
    BY <1>24 DEF AbortPush, Unlocked, TypeOK, workerVars, StepKinds, Settles, RowSettles, WorkerSettles, Moves
  <1>25. ASSUME NEW j \in Jobs, Lapse(j) PROVE StepKinds
    BY <1>25 DEF Lapse, rowVars, workerVars, StepKinds, Settles, RowSettles, WorkerSettles, Moves, Unlocked, TypeOK
  <1>26. CASE UNCHANGED vars
    BY <1>26 DEF StepKinds, vars, rowVars, workerVars, Settles, RowSettles, WorkerSettles, Moves, Unlocked, TypeOK
  <1>27. QED
    BY <1>1, <1>2, <1>3, <1>4, <1>5, <1>6, <1>7, <1>8, <1>9, <1>10, <1>11, <1>12, <1>13,
       <1>14, <1>15, <1>16, <1>17, <1>18, <1>19, <1>20, <1>21, <1>22, <1>23, <1>24, <1>25, <1>26
       DEF Next, WorkerStep, ServerStep, EnvironmentStep

\* The state keeps its shape.
LEMMA TypeStep == TypeOK /\ SessionsOpen /\ PushesFit /\ [Next]_vars => TypeOK'
  <1> SUFFICES ASSUME TypeOK, SessionsOpen, PushesFit, [Next]_vars PROVE TypeOK'
    OBVIOUS
  <1>1. ASSUME NEW w \in Workers, SendClaim(w) PROVE TypeOK'
    BY <1>1 DEF SendClaim, rowVars, workerVars, TypeOK, PCs, Statuses, Leases
  <1>2. ASSUME NEW w \in Workers, ReadClaim(w) PROVE TypeOK'
    BY <1>2, ForgetEffect DEF ReadClaim, Goto, rowVars, workerVars, TypeOK, PCs, Statuses, Leases
  <1>3. ASSUME NEW w \in Workers, Fetched(w) PROVE TypeOK'
    BY <1>3 DEF Fetched, Goto, rowVars, workerVars, TypeOK, PCs, Statuses, Leases
  <1>4. ASSUME NEW w \in Workers, StartStage(w) PROVE TypeOK'
    BY <1>4 DEF StartStage, Goto, rowVars, workerVars, TypeOK, PCs, Statuses, Leases
  <1>5. ASSUME NEW w \in Workers, StopFenced(w) PROVE TypeOK'
    BY <1>5, ForgetEffect DEF StopFenced, rowVars, workerVars, TypeOK, PCs, Statuses, Leases
  <1>6. ASSUME NEW w \in Workers, SendPush(w) PROVE TypeOK'
    <2>1. session[w].job \in Jobs
      BY <1>6 DEF SendPush, SessionsOpen
    <2>2. PICK s \in Stages : Call(w, "push", s, "pushing")
      BY <1>6 DEF SendPush
    <2>3. PICK r \in Requests : Sends(w, r)
      BY <2>1, <2>2, SendEffect DEF Call, Stages
    <2>4. QED
      BY <1>6, <2>2, <2>3 DEF SendPush, Call, Sends, rowVars, TypeOK, PCs
  <1>7. ASSUME NEW w \in Workers, ReadPush(w) PROVE TypeOK'
    <2>1. CASE Forget(w)
      BY <1>7, <2>1, ForgetEffect DEF ReadPush, rowVars, TypeOK
    <2>2. ASSUME NEW s \in Stages, session' = [session EXCEPT ![w].todo = @ \ {s}],
                 Goto(w, "looping"), UNCHANGED <<reply, fenced>>
          PROVE  TypeOK'
      BY <1>7, <2>2, ReadPushEffect DEF ReadPush, Goto, rowVars, TypeOK, PCs
    <2>3. QED
      BY <1>7, <2>1, <2>2 DEF ReadPush
  <1>8. ASSUME NEW w \in Workers, SendComplete(w) PROVE TypeOK'
    <2>1. session[w].job \in Jobs
      BY <1>8 DEF SendComplete, SessionsOpen
    <2>2. PICK r \in Requests : Sends(w, r)
      BY <1>8, <2>1, SendEffect, SizesAssumption DEF SendComplete, Call
    <2>3. QED
      BY <1>8, <2>2 DEF SendComplete, Sends, Call, rowVars, TypeOK, PCs
  <1>9. ASSUME NEW w \in Workers, ReadComplete(w) PROVE TypeOK'
    BY <1>9, ForgetEffect DEF ReadComplete, rowVars, workerVars, TypeOK, PCs, Statuses, Leases
  <1>10. ASSUME NEW w \in Workers, WorkRaises(w) PROVE TypeOK'
    BY <1>10 DEF WorkRaises, Goto, rowVars, workerVars, TypeOK, PCs, Statuses, Leases
  <1>11. ASSUME NEW w \in Workers, CallRaises(w) PROVE TypeOK'
    BY <1>11, ForgetEffect DEF CallRaises, Goto, rowVars, workerVars, TypeOK, PCs, Statuses, Leases
  <1>12. ASSUME NEW w \in Workers, SendFail(w) PROVE TypeOK'
    <2>1. session[w].job \in Jobs
      BY <1>12 DEF SendFail, SessionsOpen
    <2>2. PICK r \in Requests : Sends(w, r)
      BY <1>12, <2>1, SendEffect, SizesAssumption DEF SendFail, Call
    <2>3. QED
      BY <1>12, <2>2 DEF SendFail, Sends, Call, rowVars, TypeOK, PCs
  <1>13. ASSUME NEW w \in Workers, ReadFail(w) PROVE TypeOK'
    BY <1>13, ForgetEffect DEF ReadFail, rowVars, workerVars, TypeOK, PCs, Statuses, Leases
  <1>14. ASSUME NEW w \in Workers, Crash(w) PROVE TypeOK'
    BY <1>14, ForgetEffect DEF Crash, rowVars, workerVars, TypeOK, PCs, Statuses, Leases
  <1>15. ASSUME NEW w \in Workers, SendHeartbeat(w) PROVE TypeOK'
    <2>1. session[w].job \in Jobs
      BY <1>15 DEF SendHeartbeat, SessionsOpen, Beating
    <2>2. PICK r \in Requests : Sends(w, r)
      BY <1>15, <2>1, SendEffect, SizesAssumption DEF SendHeartbeat
    <2>3. QED
      BY <1>15, <2>2 DEF SendHeartbeat, Sends, workerVars, rowVars, TypeOK, PCs
  <1>16. ASSUME NEW w \in Workers, ServeClaim(w) PROVE TypeOK'
    <2>1. ASSUME NEW j \in Jobs, Grant(w, j) PROVE TypeOK'
      <3>1. reply' \in [Workers -> {"none", "ok", "stale", "idle"}]
        BY <2>1 DEF Grant, TypeOK
      <3>2. QED
        BY <1>16, <2>1, <3>1, GrantEffect DEF ServeClaim, Grant, TypeOK, Statuses, Leases
    <2>2. CASE NothingEligible(w)
      BY <1>16, <2>2 DEF ServeClaim, NothingEligible, rowVars, TypeOK
    <2>3. QED
      BY <1>16, <2>1, <2>2 DEF ServeClaim
  <1>17. ASSUME NEW w \in Workers, LoseClaim(w) PROVE TypeOK'
    BY <1>17 DEF LoseClaim, rowVars, workerVars, TypeOK, PCs, Statuses, Leases
  <1>18. ASSUME NEW r \in net, ServeHeartbeat(r) PROVE TypeOK'
    BY <1>18 DEF ServeHeartbeat, rowVars, workerVars, TypeOK, PCs, Statuses, Leases
  <1>19. ASSUME NEW r \in net, BeginPush(r) PROVE TypeOK'
    <2>1. r \in Requests
      BY DEF TypeOK
    <2>2. QED
      BY <1>19, <2>1, AnswerEffect DEF BeginPush, rowVars, workerVars, TypeOK, PCs, Statuses, Leases
  <1>20. ASSUME NEW r \in net, ServeComplete(r) PROVE TypeOK'
    <2>1. r \in Requests
      BY DEF TypeOK
    <2>2. QED
      BY <1>20, <2>1, AnswerEffect DEF ServeComplete, rowVars, workerVars, TypeOK, PCs, Statuses, Leases
  <1>21. ASSUME NEW r \in net, ServeFail(r) PROVE TypeOK'
    <2>1. r \in Requests
      BY DEF TypeOK
    <2>2. QED
      BY <1>21, <2>1, AnswerEffect DEF ServeFail, rowVars, workerVars, TypeOK, PCs, Statuses, Leases
  <1>22. ASSUME NEW r \in net, LoseRequest(r) PROVE TypeOK'
    BY <1>22 DEF LoseRequest, rowVars, workerVars, TypeOK, PCs, Statuses, Leases
  <1>23. ASSUME NEW j \in Jobs, CommitPush(j) PROVE TypeOK'
    <2>1. lock[j] \in Requests /\ lock[j] \in Pending /\ lock[j].op = "push"
      BY <1>23 DEF CommitPush, Unlocked, TypeOK, Pending
    <2>2. lock[j].stage \in Stages
      BY <2>1 DEF PushesFit
    <2>3. reply' \in [Workers -> {"none", "ok", "stale", "idle"}]
      BY <1>23, <2>1, AnswerEffect DEF CommitPush
    <2>4. QED
      BY <1>23, <2>2, <2>3 DEF CommitPush, TypeOK
  <1>24. ASSUME NEW j \in Jobs, AbortPush(j) PROVE TypeOK'
    BY <1>24 DEF AbortPush, rowVars, workerVars, TypeOK, PCs, Statuses, Leases
  <1>25. ASSUME NEW j \in Jobs, Lapse(j) PROVE TypeOK'
    BY <1>25 DEF Lapse, rowVars, workerVars, TypeOK, PCs, Statuses, Leases
  <1>26. CASE UNCHANGED vars
    BY <1>26 DEF vars, rowVars, workerVars, TypeOK, PCs, Statuses, Leases
  <1>27. QED
    BY <1>1, <1>2, <1>3, <1>4, <1>5, <1>6, <1>7, <1>8, <1>9, <1>10, <1>11, <1>12, <1>13,
       <1>14, <1>15, <1>16, <1>17, <1>18, <1>19, <1>20, <1>21, <1>22, <1>23, <1>24, <1>25, <1>26
       DEF Next, WorkerStep, ServerStep, EnvironmentStep

-----------------------------------------------------------------------------
(* Each part of the invariant, kind of step by kind of step.               *)

\* A lock is only ever held by the row's current epoch, and no session or
\* request is ahead of the row's epoch: epochs come from Grant alone, which
\* passes over locked rows.
LEMMA EpochsStep ==
  ASSUME TypeOK, TypeOK', EpochsIssued, AdmittedPushHoldsRow, StepKinds
  PROVE  EpochsIssued' /\ AdmittedPushHoldsRow'
  <1>1. ASSUME NEW w \in Workers, NEW r \in Requests, Sent(w, r)
        PROVE  EpochsIssued' /\ AdmittedPushHoldsRow'
    BY <1>1 DEF Sent, Sends, EpochsIssued, AdmittedPushHoldsRow, FencePasses, Unlocked,
                rowVars, Jobs
  <1>2. ASSUME NEW w \in Workers, NEW j \in Jobs,
               Claimable(j), Grant(w, j), UNCHANGED net
        PROVE  EpochsIssued' /\ AdmittedPushHoldsRow'
    <2>0. \A i \in Jobs : epoch[i] \in Nat /\ epoch'[i] \in Nat
      BY DEF TypeOK, Epochs
    <2>1. \A i \in Jobs : epoch[i] <= epoch'[i]
      BY <1>2, <2>0, GrantEffect
    <2>2. ASSUME NEW v \in Workers, session'[v].job # 0
          PROVE  session'[v].epoch <= epoch'[session'[v].job]
      <3>1. session[v].job \in Jobs \cup {0} /\ session[v].epoch \in Nat
        BY SessionType DEF Epochs
      <3>2. CASE session'[v] = session[v]
        BY <2>0, <2>1, <2>2, <3>1, <3>2 DEF EpochsIssued
      <3>3. CASE session'[v] # session[v]
        BY <1>2, <2>0, <2>1, <3>3, GrantEffect
      <3>4. QED
        BY <3>2, <3>3
    <2>3. ASSUME NEW r \in net PROVE r.epoch <= epoch'[r.job]
      <3>1. r.job \in Jobs /\ r.epoch \in Nat
        BY DEF TypeOK, Requests, Epochs
      <3>2. QED
        BY <2>0, <2>1, <3>1 DEF EpochsIssued
    <2>4. AdmittedPushHoldsRow'
      BY <1>2, GrantEffect DEF Grant, Claimable, AdmittedPushHoldsRow, FencePasses, Unlocked
    <2>5. QED
      BY <1>2, <2>2, <2>3, <2>4 DEF EpochsIssued
  <1>3. CASE Settles
    <2>1. EpochsIssued'
      BY <1>3 DEF Settles, WorkerSettles, EpochsIssued
    <2>2. AdmittedPushHoldsRow'
      BY <1>3 DEF Settles, RowSettles, AdmittedPushHoldsRow, FencePasses, Unlocked
    <2>3. QED
      BY <2>1, <2>2
  <1>4. QED
    BY <1>1, <1>2, <1>3 DEF StepKinds

\* A request that is pending was sent before, or is sent in this step.
LEMMA PendingStep ==
  ASSUME TypeOK
  PROVE  /\ \A w \in Workers, r \in Requests : Sent(w, r) => Pending' = Pending \cup {r}
         /\ \A w \in Workers, j \in Jobs : Grant(w, j) /\ UNCHANGED net => Pending' = Pending
         /\ Settles => Pending' \subseteq Pending
         /\ \A r \in Pending : /\ r \in Requests /\ r.job \in Jobs
                               /\ r.epoch \in Nat /\ r.from \in Workers
  <1>1. \A w \in Workers, r \in Requests : Sent(w, r) => Pending' = Pending \cup {r}
    BY DEF Sent, Sends, Pending, rowVars
  <1>2. \A w \in Workers, j \in Jobs : Grant(w, j) /\ UNCHANGED net => Pending' = Pending
    BY DEF Grant, Pending
  <1>3. Settles => Pending' \subseteq Pending
    BY DEF Settles, RowSettles, Pending
  <1>4. ASSUME NEW r \in Pending
        PROVE  /\ r \in Requests /\ r.job \in Jobs
               /\ r.epoch \in Nat /\ r.from \in Workers
    <2>1. r \in Requests
      BY DEF Pending, TypeOK
    <2>2. QED
      BY <2>1 DEF Requests, Epochs
  <1>5. QED
    BY <1>1, <1>2, <1>3, <1>4

\* Only the sender is touched by a send.
LEMMA SentEffect ==
  ASSUME TypeOK, NEW w \in Workers, NEW r \in Requests, Sent(w, r)
  PROVE  /\ r.op = "push"      => pc'[w] = "pushing" /\ reply'[w] = "none"
         /\ r.op = "complete"  => pc'[w] = "completing"
         /\ r.op = "fail"      => pc'[w] = "failing"
         /\ r.op = "heartbeat" => pc' = pc /\ reply' = reply
         /\ \A v \in Workers : v # w => pc'[v] = pc[v] /\ reply'[v] = reply[v]
         /\ r # NoRequest
  <1>1. r.op \in {"push", "complete", "fail", "heartbeat"}
    BY DEF Requests
  <1>2. CASE r.op \in {"push", "complete", "fail"}
    BY <1>2 DEF Sent, TypeOK, NoRequest
  <1>3. CASE r.op = "heartbeat"
    BY <1>3 DEF Sent, NoRequest
  <1>4. QED
    BY <1>1, <1>2, <1>3

\* No pending request is ahead of its row's epoch.
LEMMA PendingEpochs ==
  ASSUME TypeOK, EpochsIssued, AdmittedPushHoldsRow, NEW r \in Pending
  PROVE  r.epoch <= epoch[r.job]
  <1>1. CASE r \in net
    BY <1>1 DEF EpochsIssued
  <1>2. ASSUME NEW j \in Jobs, r = lock[j], lock[j] # NoRequest
        PROVE  r.epoch <= epoch[r.job]
    BY <1>2 DEF AdmittedPushHoldsRow, Unlocked, FencePasses, TypeOK, Epochs
  <1>3. QED
    BY <1>1, <1>2 DEF Pending

\* A claim issues an epoch nobody has used, and only a session sends in its own.
LEMMA OneSenderStep ==
  ASSUME TypeOK, TypeOK', EpochsIssued, AdmittedPushHoldsRow, OneSender, StepKinds
  PROVE  OneSender'
  <1>1. ASSUME NEW w \in Workers, NEW r \in Requests, Sent(w, r)
        PROVE  OneSender'
    <2>1. Pending' = Pending \cup {r} /\ session' = session
      BY <1>1, PendingStep DEF Sent
    <2>2. InSession(w, r) /\ r.from = w /\ session[w].job # 0
      BY <1>1 DEF Sent, Sends, InSession, Jobs
    <2>3. \A v \in Workers : InSession(v, r) => v = w
      BY <2>2 DEF InSession, OneSender
    <2>4. \A q \in Pending : q.job = r.job /\ q.epoch = r.epoch => q.from = w
      BY <2>2 DEF InSession, OneSender
    <2>5. QED
      BY <2>1, <2>2, <2>3, <2>4 DEF InSession, OneSender
  <1>2. ASSUME NEW w \in Workers, NEW j \in Jobs,
               Claimable(j), Grant(w, j), UNCHANGED net
        PROVE  OneSender'
    <2>1. Pending' = Pending
      BY <1>2, PendingStep
    <2>2. epoch[j] \in Nat
      BY DEF TypeOK, Epochs
    <2>3. \A v \in Workers : session[v].job = j => session[v].epoch # epoch[j] + 1
      BY <2>2, SessionType DEF EpochsIssued, Epochs, Jobs
    <2>4. \A r \in Pending : r.job = j => r.epoch # epoch[j] + 1
      BY <2>2, PendingEpochs, PendingStep
    <2>5. \A v \in Workers : \/ session'[v] = session[v]
                             \/ v = w /\ session'[v].job = j /\ session'[v].epoch = epoch[j] + 1
      BY <1>2, GrantEffect
    <2>6. QED
      BY <2>1, <2>3, <2>4, <2>5 DEF InSession, OneSender
  <1>3. CASE Settles
    <2>1. Pending' \subseteq Pending
      BY <1>3, PendingStep
    <2>2. \A v \in Workers : session'[v].job # 0 => /\ session'[v].job = session[v].job
                                                    /\ session'[v].epoch = session[v].epoch
      BY <1>3 DEF Settles, WorkerSettles
    <2>3. \A r \in Pending, v \in Workers : InSession(v, r)' => InSession(v, r)
      BY <2>2, PendingStep DEF InSession, Jobs
    <2>4. QED
      BY <2>1, <2>2, <2>3 DEF InSession, OneSender
  <1>4. QED
    BY <1>1, <1>2, <1>3 DEF StepKinds

\* The holder sends one push and waits: until it is answered there is no other,
\* and the transaction that takes the push takes it off the network.
LEMMA OnePushStep ==
  ASSUME TypeOK, EpochsIssued, AdmittedPushHoldsRow, OneSender, OnePush, StepKinds
  PROVE  OnePush'
  <1>1. ASSUME NEW w \in Workers, NEW r \in Requests, Sent(w, r)
        PROVE  OnePush'
    <2>1. /\ Pending' = Pending \cup {r} /\ net' = net \cup {r} /\ r \notin net
          /\ lock' = lock /\ session' = session
          /\ pc[w] \notin {"pushing", "failing"} \/ r.op = "heartbeat"
      BY <1>1, PendingStep DEF Sent, Sends, rowVars, Requests
    <2>2. InSession(w, r) /\ session[w].job # 0
      BY <1>1 DEF Sent, Sends, InSession, Jobs
    <2>3. \A v \in Workers : InSession(v, r) => v = w
      BY <2>2 DEF InSession, OneSender
    <2>4. \A q \in Pending : q.job = r.job /\ q.epoch = r.epoch => InSession(w, q)
      BY <2>2 DEF InSession
    <2>5. r.op = "push" => \A q \in Pending : q.op = "push" => ~InSession(w, q)
      BY <1>1 DEF OnePush, Sent
    <2>6. ASSUME NEW j \in Jobs, lock[j] = r PROVE FALSE
      <3>1. r # NoRequest
        BY <1>1, SentEffect
      <3>2. r \in Pending /\ r.op = "push"
        BY <2>6, <3>1 DEF Pending, TypeOK
      <3>3. QED
        BY <2>2, <2>5, <3>2
    <2>7. ASSUME NEW q \in Pending', NEW v \in Workers, q.op = "push", InSession(v, q)'
          PROVE  /\ pc'[v] \in {"pushing", "erring", "failing"}
                 /\ pc'[v] = "pushing" => IsNext(v, q.stage)' /\ reply'[v] = "none"
      <3>1. InSession(v, q)
        BY <2>1, <2>7 DEF InSession
      <3>2. CASE q = r
        BY <1>1, <2>1, <2>3, <2>7, <3>1, <3>2, SentEffect DEF Sent, IsNext
      <3>3. CASE q # r
        <4>1. q \in Pending
          BY <2>1, <3>3
        <4>2. /\ pc[v] \in {"pushing", "erring", "failing"}
              /\ pc[v] = "pushing" => IsNext(v, q.stage) /\ reply[v] = "none"
          BY <2>7, <3>1, <4>1 DEF OnePush
        <4>3. CASE v = w
          BY <1>1, <2>1, <4>2, <4>3, SentEffect DEF Sent, IsNext, Requests
        <4>4. CASE v # w
          <5>1. pc'[v] = pc[v] /\ reply'[v] = reply[v]
            BY <1>1, <4>4, SentEffect
          <5>2. QED
            BY <2>1, <4>2, <5>1 DEF IsNext
        <4>5. QED
          BY <4>3, <4>4
      <3>4. QED
        BY <3>2, <3>3
    <2>8. \A p, q \in Pending' : /\ p.op = "push" /\ q.op = "push"
                                 /\ p.job = q.job /\ p.epoch = q.epoch
                                 => p = q
      BY <2>1, <2>4, <2>5 DEF OnePush
    <2>9. QED
      BY <2>1, <2>6, <2>7, <2>8 DEF OnePush
  <1>2. ASSUME NEW w \in Workers, NEW j \in Jobs,
               Claimable(j), Grant(w, j), UNCHANGED net
        PROVE  OnePush'
    <2>1. Pending' = Pending /\ lock' = lock /\ pc' = pc
      BY <1>2, PendingStep DEF Grant
    <2>2. ASSUME NEW r \in Pending, NEW v \in Workers, InSession(v, r)'
          PROVE  session'[v] = session[v] /\ reply'[v] = reply[v] /\ InSession(v, r)
      <3>1. r.epoch <= epoch[r.job] /\ r.epoch \in Nat
        BY PendingEpochs, PendingStep
      <3>2. session'[v] = session[v] /\ reply'[v] = reply[v]
        BY <1>2, <2>2, <3>1, GrantEffect DEF InSession, TypeOK, Epochs
      <3>3. QED
        BY <2>2, <3>2 DEF InSession
    <2>3. QED
      BY <1>2, <2>1, <2>2 DEF OnePush, IsNext
  <1>3. CASE Settles
    <2>1. Pending' \subseteq Pending /\ net' \subseteq net
      BY <1>3, PendingStep DEF Settles
    <2>2. \A r \in net', j \in Jobs : lock'[j] # r
      BY <1>3, <2>1 DEF Settles, RowSettles, OnePush, TypeOK, Requests, NoRequest
    <2>3. ASSUME NEW r \in Pending', NEW v \in Workers, r.op = "push", InSession(v, r)'
          PROVE  /\ pc'[v] \in {"pushing", "erring", "failing"}
                 /\ pc'[v] = "pushing" => IsNext(v, r.stage)' /\ reply'[v] = "none"
      <3>1. session'[v].job # 0 /\ r \in Pending /\ r.job \in Jobs
        BY <2>1, <2>3, PendingStep DEF InSession, Jobs
      <3>2. WorkerSettles(v) /\ InSession(v, r)
        BY <1>3, <2>3, <3>1 DEF Settles, WorkerSettles, InSession
      <3>3. /\ pc[v] \in {"pushing", "erring", "failing"}
            /\ pc[v] = "pushing" => IsNext(v, r.stage) /\ reply[v] = "none"
        BY <2>3, <3>1, <3>2 DEF OnePush
      <3>4. /\ pc'[v] \in {"pushing", "erring", "failing"}
            /\ pc'[v] = "pushing" => pc[v] = "pushing" /\ session'[v].todo = session[v].todo
        BY <3>1, <3>2, <3>3 DEF WorkerSettles, Moves
      <3>5. \A q \in Pending : q.op = "push" /\ InSession(v, q) => q = r
        BY <2>3, <3>1, <3>2 DEF InSession, OnePush
      <3>6. r \in net' \/ \E j \in Jobs : r = lock'[j] /\ lock'[j] # NoRequest
        BY DEF Pending
      <3>7. ASSUME NEW q \in net \ net', q = r PROVE FencePasses(q)
        BY <1>3, <3>6, <3>7 DEF Settles, RowSettles, OnePush
      <3>8. ASSUME NEW j \in Jobs, ~Unlocked(j), lock[j] = r, lock'[j] = NoRequest
            PROVE  FALSE
        <4>1. r.job = j
          BY <3>8 DEF AdmittedPushHoldsRow
        <4>2. PICK i \in Jobs : r = lock'[i] /\ lock'[i] # NoRequest
          BY <2>1, <3>6, <3>8 DEF OnePush
        <4>3. lock[i] = r
          BY <1>3, <3>8, <4>2 DEF Settles, RowSettles, OnePush
        <4>4. r.job = i
          BY <4>2, <4>3 DEF AdmittedPushHoldsRow, Unlocked
        <4>5. QED
          BY <3>8, <4>1, <4>2, <4>4
      <3>9. pc'[v] = "pushing" => reply'[v] = reply[v]
        <4>1. \A q \in net : q \in Pending
          BY DEF Pending
        <4>2. \A j \in Jobs : ~Unlocked(j) => lock[j] \in Pending /\ lock[j].op = "push"
          BY DEF Pending, Unlocked, TypeOK
        <4>3. QED
          BY <3>1, <3>2, <3>5, <3>7, <3>8, <4>1, <4>2 DEF WorkerSettles
      <3>10. QED
        BY <3>3, <3>4, <3>9 DEF IsNext
    <2>4. QED
      BY <2>1, <2>2, <2>3 DEF OnePush
  <1>4. QED
    BY <1>1, <1>2, <1>3 DEF StepKinds

\* done grows only by the stage of the push that held the row.
LEMMA DoneStep ==
  ASSUME TypeOK, StepKinds, NEW j \in Jobs
  PROVE  \/ done'[j] = done[j]
         \/ ~Unlocked(j) /\ lock'[j] = NoRequest /\ done'[j] = done[j] \cup {lock[j].stage}
  BY DEF StepKinds, Sent, rowVars, Grant, Settles, RowSettles

\* The stage a holder sends next is not on record and the earlier ones are.
LEMMA NextFits ==
  ASSUME TypeOK, NothingForgotten, HolderKnows,
         NEW w \in Workers, NEW r \in Requests, Sent(w, r), r.op = "push"
  PROVE  /\ \A t \in Stages : t < r.stage => t \in done[r.job]
         /\ FencePasses(r) => r.stage \notin done[r.job]
  <1>1. /\ r.job = session[w].job /\ r.epoch = session[w].epoch /\ session[w].job # 0
        /\ r.stage \in session[w].todo /\ \A t \in session[w].todo : r.stage <= t
        /\ pc[w] = "computing" /\ r.stage \in Stages
    BY DEF Sent, Sends, IsNext, Jobs
  <1>2. ASSUME NEW t \in Stages, t < r.stage PROVE t \in done[r.job]
    <2>1. t \notin session[w].todo
      BY <1>1, <1>2 DEF Stages
    <2>2. QED
      BY <1>1, <2>1 DEF NothingForgotten
  <1>3. ASSUME FencePasses(r), r.stage \in done[r.job] PROVE FALSE
    BY <1>1, <1>3 DEF HolderKnows, Holds, FencePasses, Aligned
  <1>4. QED
    BY <1>2, <1>3

\* A push in flight stays the next stage of its row as long as it can still be
\* admitted: only itself could put that stage on record.
LEMMA PushesFitStep ==
  ASSUME TypeOK, EpochsIssued, AdmittedPushHoldsRow, OnePush, OnePush', PushesFit,
         NothingForgotten, HolderKnows, StepKinds
  PROVE  PushesFit'
  <1>1. ASSUME NEW w \in Workers, NEW r \in Requests, Sent(w, r)
        PROVE  PushesFit'
    <2>1. /\ Pending' = Pending \cup {r} /\ done' = done /\ epoch' = epoch
          /\ r.op = "push" => r.stage \in Stages
      BY <1>1, PendingStep DEF Sent, rowVars
    <2>2. r.op = "push" => /\ \A t \in Stages : t < r.stage => t \in done[r.job]
                           /\ FencePasses(r) => r.stage \notin done[r.job]
      BY <1>1, NextFits
    <2>3. QED
      BY <2>1, <2>2 DEF PushesFit, FencePasses
  <1>2. ASSUME NEW w \in Workers, NEW j \in Jobs,
               Claimable(j), Grant(w, j), UNCHANGED net
        PROVE  PushesFit'
    <2>1. Pending' = Pending /\ done' = done
      BY <1>2, PendingStep DEF Grant
    <2>2. ASSUME NEW r \in Pending, FencePasses(r)' PROVE FencePasses(r)
      <3>1. r.epoch <= epoch[r.job] /\ r.epoch \in Nat /\ r.job \in Jobs
        BY PendingEpochs, PendingStep
      <3>2. QED
        BY <1>2, <2>2, <3>1, GrantEffect DEF FencePasses, TypeOK, Epochs
    <2>3. QED
      BY <2>1, <2>2 DEF PushesFit
  <1>3. CASE Settles
    <2>1. Pending' \subseteq Pending /\ epoch' = epoch
      BY <1>3, PendingStep DEF Settles
    <2>2. ASSUME NEW r \in Pending', r.op = "push"
          PROVE  /\ r.stage \in Stages
                 /\ \A t \in Stages : t < r.stage => t \in done'[r.job]
                 /\ FencePasses(r)' => r.stage \notin done'[r.job]
      <3>1. r \in Pending /\ r.job \in Jobs
        BY <2>1, PendingStep
      <3>2. /\ r.stage \in Stages
            /\ \A t \in Stages : t < r.stage => t \in done[r.job]
            /\ FencePasses(r) => r.stage \notin done[r.job]
        BY <2>2, <3>1 DEF PushesFit
      <3>3. CASE done'[r.job] = done[r.job]
        BY <2>1, <3>2, <3>3 DEF FencePasses
      <3>4. ASSUME ~Unlocked(r.job), lock'[r.job] = NoRequest,
                   done'[r.job] = done[r.job] \cup {lock[r.job].stage}
            PROVE  ~FencePasses(r)
        <4> DEFINE q == lock[r.job]
        <4>1. q \in Pending /\ q.op = "push" /\ q.job = r.job /\ FencePasses(q)
          BY <3>1, <3>4 DEF Pending, Unlocked, TypeOK, AdmittedPushHoldsRow
        <4>2. FencePasses(r) => r = q
          BY <2>2, <3>1, <4>1 DEF OnePush, FencePasses
        <4>3. q \notin net
          BY <3>1 DEF OnePush
        <4>4. ASSUME NEW i \in Jobs, lock'[i] = q, lock'[i] # NoRequest PROVE FALSE
          <5>1. lock[i] = q
            BY <1>3, <4>3, <4>4 DEF Settles, RowSettles
          <5>2. q.job = i
            BY <4>4, <5>1 DEF AdmittedPushHoldsRow, Unlocked
          <5>3. QED
            BY <3>4, <4>1, <4>4, <5>2
        <4>5. q \notin Pending'
          BY <1>3, <4>3, <4>4 DEF Pending, Settles
        <4>6. QED
          BY <4>2, <4>5
      <3>5. QED
        BY <1>3, <2>1, <3>1, <3>2, <3>3, <3>4 DEF Settles, RowSettles, FencePasses
    <2>3. QED
      BY <2>2 DEF PushesFit
  <1>4. QED
    BY <1>1, <1>2, <1>3 DEF StepKinds

\* The stage that is put on record comes right after those on record.
LEMMA StagesInOrderStep ==
  ASSUME TypeOK, AdmittedPushHoldsRow, PushesFit, StagesInOrder, StepKinds
  PROVE  StagesInOrder'
  <1> SUFFICES ASSUME NEW j \in Jobs, NEW s \in done'[j], NEW t \in Stages, t < s
               PROVE  t \in done'[j]
    BY DEF StagesInOrder
  <1>1. CASE s \in done[j]
    BY <1>1, DoneStep DEF StagesInOrder
  <1>2. CASE s \notin done[j]
    <2>1. ~Unlocked(j) /\ s = lock[j].stage /\ done[j] \subseteq done'[j]
      BY <1>2, DoneStep
    <2>2. lock[j] \in Pending /\ lock[j].op = "push" /\ lock[j].job = j
      BY <2>1 DEF Pending, Unlocked, TypeOK, AdmittedPushHoldsRow
    <2>3. QED
      BY <2>1, <2>2 DEF PushesFit
  <1>3. QED
    BY <1>1, <1>2

\* A stage leaves a worker's todo when it is on record, and records stay.
LEMMA NothingForgottenStep ==
  ASSUME TypeOK, TypeOK', HolderKnows, NothingForgotten, StepKinds
  PROVE  NothingForgotten'
  <1> SUFFICES ASSUME NEW w \in Workers, session'[w].job # 0
               PROVE  Stages \ session'[w].todo \subseteq done'[session'[w].job]
    BY DEF NothingForgotten
  <1>1. session'[w].job \in Jobs /\ \A j \in Jobs : done[j] \subseteq done'[j]
    BY DoneStep, SessionType DEF TypeOK, Sessions
  <1>2. CASE session'[w] = session[w]
    BY <1>1, <1>2 DEF NothingForgotten
  <1>3. ASSUME NEW v \in Workers, NEW j \in Jobs, Grant(v, j), session'[w] # session[w]
        PROVE  Stages \ session'[w].todo \subseteq done'[session'[w].job]
    BY <1>1, <1>3, GrantEffect
  <1>4. CASE WorkerSettles(w)
    <2>1. CASE session'[w].todo = session[w].todo
      BY <1>1, <1>4, <2>1 DEF WorkerSettles, NothingForgotten
    <2>2. ASSUME NEW s \in Stages, pc[w] = "pushing", reply[w] = "ok", IsNext(w, s),
                 session'[w].todo = session[w].todo \ {s}
          PROVE  Stages \ session'[w].todo \subseteq done'[session'[w].job]
      BY <1>1, <1>4, <2>2 DEF WorkerSettles, NothingForgotten, HolderKnows
    <2>3. QED
      BY <1>4, <2>1, <2>2 DEF WorkerSettles
  <1>5. QED
    BY <1>2, <1>3, <1>4 DEF StepKinds, Sent, Settles

\* The holder's picture of its row lags by at most the push it waits for.
LEMMA HolderKnowsStep ==
  ASSUME TypeOK, TypeOK', SessionsOpen, EpochsIssued, AdmittedPushHoldsRow, OnePush,
         NothingForgotten, HolderKnows, StepKinds
  PROVE  HolderKnows'
  <1> DEFINE Knows(w) ==
        /\ Holds(w, session[w].job) /\ pc[w] \in Aligned =>
             \A s \in session[w].todo \cap done[session[w].job] :
               pc[w] = "pushing" /\ IsNext(w, s)
        /\ (pc[w] = "pushing" /\ reply[w] = "ok") =>
             \A s \in Stages : IsNext(w, s) => s \in done[session[w].job]
  <1> SUFFICES ASSUME NEW w \in Workers, session'[w].job # 0
               PROVE  Knows(w)'
    BY DEF HolderKnows
  <1>1. session'[w].job \in Jobs /\ session'[w].todo \subseteq Stages
    BY DEF TypeOK, Sessions
  <1>2. session[w].job # 0 => Knows(w)
    BY DEF HolderKnows
  <1>3. ASSUME NEW v \in Workers, NEW r \in Requests, Sent(v, r)
        PROVE  Knows(w)'
    <2>1. session' = session /\ done' = done /\ epoch' = epoch
      BY <1>3 DEF Sent, rowVars
    <2>2. CASE v # w \/ r.op = "heartbeat"
      <3>1. pc'[w] = pc[w] /\ reply'[w] = reply[w]
        BY <1>3, <2>2, SentEffect
      <3>2. QED
        BY <1>2, <2>1, <3>1 DEF Holds, IsNext
    <2>3. CASE v = w /\ r.op = "fail"
      BY <1>3, <2>3, SentEffect DEF Aligned
    <2>4. CASE v = w /\ r.op = "complete"
      BY <1>3, <2>1, <2>4, SentEffect DEF Sent, Holds, IsNext
    <2>5. CASE v = w /\ r.op = "push"
      <3>1. pc[w] = "computing" /\ pc'[w] = "pushing" /\ reply'[w] = "none"
        BY <1>3, <2>5, SentEffect DEF Sent
      <3>2. Holds(w, session[w].job) => session[w].todo \cap done[session[w].job] = {}
        BY <1>2, <2>1, <3>1 DEF Aligned
      <3>3. QED
        BY <2>1, <3>1, <3>2 DEF Holds, IsNext
    <2>6. QED
      BY <2>2, <2>3, <2>4, <2>5 DEF Requests
  <1>4. ASSUME NEW v \in Workers, NEW j \in Jobs, Claimable(j), Grant(v, j), UNCHANGED net
        PROVE  Knows(w)'
    <2>1. done' = done /\ pc' = pc
      BY <1>4 DEF Grant
    <2>2. CASE session'[w] = session[w] /\ reply'[w] = reply[w]
      <3>1. Holds(w, session[w].job)' => Holds(w, session[w].job)
        <4>1. session[w].job \in Jobs /\ session[w].epoch <= epoch[session[w].job]
          BY <1>1, <2>2 DEF EpochsIssued, Jobs
        <4>2. QED
          BY <1>4, <2>2, <4>1, GrantEffect, SessionType DEF Holds, TypeOK, Epochs
      <3>2. QED
        BY <1>2, <2>1, <2>2, <3>1 DEF Holds, IsNext
    <2>3. CASE ~(session'[w] = session[w] /\ reply'[w] = reply[w])
      BY <1>4, <2>1, <2>3, GrantEffect
    <2>4. QED
      BY <2>2, <2>3
  <1>5. CASE Settles
    <2>1. WorkerSettles(w) /\ epoch' = epoch
      BY <1>5 DEF Settles
    <2>2. /\ session'[w].job = session[w].job /\ session'[w].epoch = session[w].epoch
          /\ session[w].job \in Jobs /\ Knows(w)
      BY <1>1, <1>2, <2>1 DEF WorkerSettles, Jobs
    <2> DEFINE j == session[w].job
    <2>3. ASSUME Holds(w, j), done'[j] # done[j]
          PROVE  /\ pc[w] = "pushing" => reply[w] = "none" /\ IsNext(w, lock[j].stage)
                 /\ pc[w] \in {"pushing", "erring", "failing"}
                 /\ done'[j] = done[j] \cup {lock[j].stage}
      <3>1. ~Unlocked(j) /\ done'[j] = done[j] \cup {lock[j].stage}
        BY <2>2, <2>3, DoneStep
      <3>2. /\ lock[j] \in Pending /\ lock[j].op = "push" /\ lock[j].job = j
            /\ InSession(w, lock[j])
        BY <2>2, <2>3, <3>1 DEF Pending, Unlocked, TypeOK, AdmittedPushHoldsRow,
                                FencePasses, InSession, Holds
      <3>3. QED
        BY <3>1, <3>2 DEF OnePush
    <2>4. ASSUME Holds(w, j)', pc'[w] \in Aligned,
                 NEW s \in session'[w].todo \cap done'[session'[w].job]
          PROVE  pc'[w] = "pushing" /\ IsNext(w, s)'
      <3>1. Holds(w, j)
        BY <2>1, <2>2, <2>4 DEF Holds
      <3>2. CASE done'[j] = done[j]
        <4>1. CASE session'[w].todo = session[w].todo
          BY <2>1, <2>2, <2>4, <3>1, <3>2, <4>1
             DEF WorkerSettles, Moves, Aligned, IsNext, SessionsOpen
        <4>2. CASE session'[w].todo # session[w].todo
          <5>1. PICK t \in Stages : /\ pc[w] = "pushing" /\ IsNext(w, t)
                                    /\ session'[w].todo = session[w].todo \ {t}
            BY <1>1, <2>1, <4>2 DEF WorkerSettles
          <5>2. IsNext(w, s) /\ s \in Stages /\ s # t
            BY <1>1, <2>2, <2>4, <3>1, <3>2, <5>1 DEF Aligned
          <5>3. s <= t /\ t <= s
            BY <5>1, <5>2 DEF IsNext
          <5>4. QED
            BY <5>2, <5>3 DEF Stages
        <4>3. QED
          BY <4>1, <4>2
      <3>3. CASE done'[j] # done[j]
        <4>1. pc[w] = "pushing" /\ pc'[w] = "pushing" /\ session'[w].todo = session[w].todo
          BY <1>1, <2>1, <2>3, <2>4, <3>1, <3>3 DEF WorkerSettles, Moves, Aligned
        <4>2. IsNext(w, s)
          BY <2>2, <2>3, <2>4, <3>1, <3>3, <4>1 DEF Aligned
        <4>3. QED
          BY <4>1, <4>2 DEF IsNext
      <3>4. QED
        BY <3>2, <3>3
    <2>5. ASSUME pc'[w] = "pushing", reply'[w] = "ok", NEW s \in Stages, IsNext(w, s)'
          PROVE  s \in done'[session'[w].job]
      <3>1. pc[w] = "pushing" /\ session'[w].todo = session[w].todo /\ IsNext(w, s)
        BY <1>1, <2>1, <2>5 DEF WorkerSettles, Moves, IsNext
      <3>2. CASE reply[w] = "ok"
        BY <2>2, <2>5, <3>1, <3>2, DoneStep
      <3>3. ASSUME NEW i \in Jobs, ~Unlocked(i), InSession(w, lock[i]),
                   done'[i] = done[i] \cup {lock[i].stage}
            PROVE  s \in done'[session'[w].job]
        <4>1. /\ lock[i] \in Pending /\ lock[i].op = "push"
              /\ session'[w].job = i
          BY <2>2, <3>3 DEF Pending, Unlocked, TypeOK, AdmittedPushHoldsRow, InSession
        <4>2. IsNext(w, lock[i].stage) /\ lock[i].stage \in session[w].todo
          BY <3>1, <3>3, <4>1 DEF OnePush, IsNext
        <4>3. s = lock[i].stage
          <5>1. s <= lock[i].stage /\ lock[i].stage <= s /\ lock[i].stage \in Stages
            BY <3>1, <4>2, SessionType DEF IsNext
          <5>2. QED
            BY <5>1 DEF Stages
        <4>4. QED
          BY <3>3, <4>1, <4>3
      <3>4. QED
        BY <1>1, <2>1, <2>5, <3>2, <3>3 DEF WorkerSettles
    <2>6. QED
      BY <2>2, <2>4, <2>5
  <1>6. QED
    BY <1>3, <1>4, <1>5 DEF StepKinds

\* complete is sent with nothing left to do and so with everything on record,
\* which it stays.
LEMMA CompletesStep ==
  ASSUME TypeOK, TypeOK', NothingForgotten, CompletesFit, CompleteHasAllStages, StepKinds
  PROVE  CompletesFit' /\ CompleteHasAllStages'
  <1>1. \A j \in Jobs : done[j] = Stages => done'[j] = Stages
    BY DoneStep DEF TypeOK
  <1>2. \A r \in net : r.op = "complete" => done'[r.job] = Stages
    BY <1>1 DEF CompletesFit, TypeOK, Requests
  <1>3. ASSUME NEW w \in Workers, NEW r \in Requests, Sent(w, r)
        PROVE  CompletesFit' /\ CompleteHasAllStages'
    <2>1. ASSUME r.op = "complete" PROVE done'[r.job] = Stages
      <3>1. /\ r.job = session[w].job /\ r.job \in Jobs
            /\ session[w].job # 0 /\ session[w].todo = {}
        BY <1>3, <2>1 DEF Sent, Sends, Jobs
      <3>2. done[r.job] \subseteq Stages
        BY <3>1 DEF TypeOK
      <3>3. Stages \subseteq done[r.job]
        BY <3>1 DEF NothingForgotten
      <3>4. done[r.job] = Stages
        BY <3>2, <3>3
      <3>5. QED
        BY <1>1, <3>1, <3>4
    <2>2. QED
      BY <1>1, <1>2, <1>3, <2>1
         DEF Sent, Sends, rowVars, CompletesFit, CompleteHasAllStages
  <1>4. ASSUME NEW w \in Workers, NEW j \in Jobs, Grant(w, j), UNCHANGED net
        PROVE  CompletesFit' /\ CompleteHasAllStages'
    BY <1>1, <1>2, <1>4 DEF Grant, TypeOK, CompletesFit, CompleteHasAllStages
  <1>5. CASE Settles
    <2>1. CompletesFit'
      BY <1>2, <1>5 DEF Settles, CompletesFit
    <2>2. CompleteHasAllStages'
      BY <1>1, <1>2, <1>5 DEF Settles, RowSettles, CompleteHasAllStages
    <2>3. QED
      BY <2>1, <2>2
  <1>6. QED
    BY <1>3, <1>4, <1>5 DEF StepKinds

\* Each lease can be charged one failure, and a row that could not bear one is
\* not leased.
LEMMA ChargesStep ==
  ASSUME TypeOK, TypeOK', EpochsIssued, OneSender, OneSender', ChargesFit,
         AttemptsBounded, StepKinds
  PROVE  ChargesFit' /\ AttemptsBounded'
  <1>0. /\ MaxAttempts \in Nat
        /\ \A j \in Jobs : attempts[j] \in Nat /\ epoch[j] \in Nat
        /\ \A r \in net : r \in Pending /\ r \in Requests /\ r.job \in Jobs /\ r.epoch \in Nat
    BY SizesAssumption DEF TypeOK, Pending, Requests, Epochs
  <1>1. ASSUME NEW w \in Workers, NEW r \in Requests, Sent(w, r)
        PROVE  ChargesFit' /\ AttemptsBounded'
    <2>1. /\ net' = net \cup {r} /\ session' = session /\ epoch' = epoch
          /\ attempts' = attempts /\ status' = status
          /\ session[w].job # 0 /\ InSession(w, r) /\ r.from = w
      BY <1>1 DEF Sent, Sends, rowVars, InSession, Jobs
    <2>2. ASSUME r.op = "fail"
          PROVE  /\ r.stage = 0
                 /\ FencePasses(r) => attempts[r.job] < MaxAttempts
                 /\ \A v \in Workers : InSession(v, r) => pc'[v] = "failing"
      <3>1. pc[w] = "erring" /\ pc'[w] = "failing" /\ r.stage = 0
        BY <1>1, <2>2, SentEffect DEF Sent
      <3>2. FencePasses(r) => attempts[r.job] < MaxAttempts
        BY <2>1, <3>1 DEF ChargesFit, FencePasses, Holds, InSession
      <3>3. \A v \in Workers : InSession(v, r) => v = w
        BY <2>1 DEF OneSender, InSession
      <3>4. QED
        BY <3>1, <3>2, <3>3
    <2>3. ASSUME NEW q \in net, q.op = "fail", NEW v \in Workers, InSession(v, q)
          PROVE  pc'[v] = "failing"
      <3>1. pc[v] = "failing"
        BY <2>3 DEF ChargesFit
      <3>2. CASE v # w \/ r.op = "heartbeat"
        BY <1>1, <3>1, <3>2, SentEffect
      <3>3. CASE v = w /\ r.op # "heartbeat"
        BY <1>1, <3>1, <3>3 DEF Sent, Requests
      <3>4. QED
        BY <3>2, <3>3
    <2>4. \A v \in Workers : pc'[v] # "failing" => pc[v] # "failing"
      <3>1. pc'[w] # "failing" => pc[w] # "failing"
        BY <1>1, SentEffect DEF Sent, Requests
      <3>2. QED
        BY <1>1, <3>1, SentEffect
    <2>5. QED
      BY <2>1, <2>2, <2>3, <2>4 DEF ChargesFit, AttemptsBounded, FencePasses, InSession, Holds
  <1>2. ASSUME NEW w \in Workers, NEW j \in Jobs, Claimable(j), Grant(w, j), UNCHANGED net
        PROVE  ChargesFit' /\ AttemptsBounded'
    <2>1. /\ attempts' = attempts /\ pc' = pc /\ net' = net
          /\ status' = [status EXCEPT ![j] = "running"]
      BY <1>2 DEF Grant
    <2>2. attempts[j] < MaxAttempts
      BY <1>2 DEF Claimable, Eligible, ChargesFit
    <2>3. \A i \in Jobs : status'[i] \in {"queued", "running"} => attempts[i] < MaxAttempts
      BY <2>1, <2>2 DEF ChargesFit, TypeOK
    <2>4. ASSUME NEW r \in net, r.op = "fail"
          PROVE  /\ FencePasses(r)' => attempts[r.job] < MaxAttempts
                 /\ \A v \in Workers : InSession(v, r)' => pc[v] = "failing"
      <3>1. r.epoch <= epoch[r.job]
        BY DEF EpochsIssued
      <3>2. FencePasses(r)' => FencePasses(r)
        BY <1>0, <1>2, <3>1, GrantEffect DEF FencePasses
      <3>3. \A v \in Workers : InSession(v, r)' => InSession(v, r)
        BY <1>0, <1>2, <3>1, GrantEffect DEF InSession
      <3>4. QED
        BY <2>4, <3>2, <3>3 DEF ChargesFit
    <2>5. ASSUME NEW v \in Workers, session'[v].job # 0, Holds(v, session[v].job)',
                 pc[v] # "failing"
          PROVE  attempts[session'[v].job] < MaxAttempts
      <3>1. CASE session'[v].job = j
        BY <2>2, <3>1
      <3>2. CASE session'[v].job # j
        <4>1. session'[v] = session[v] /\ session[v].job \in Jobs
          BY <1>2, <2>5, <3>2, GrantEffect, SessionType
        <4>2. epoch'[session[v].job] = epoch[session[v].job]
          BY <1>2, <3>2, <4>1, GrantEffect
        <4>3. QED
          BY <2>5, <4>1, <4>2 DEF ChargesFit, Holds
      <3>3. QED
        BY <3>1, <3>2
    <2>6. AttemptsBounded'
      BY <2>1 DEF AttemptsBounded
    <2>7. QED
      BY <2>1, <2>3, <2>4, <2>5, <2>6 DEF ChargesFit, Holds
  <1>3. CASE Settles
    <2>1. net' \subseteq net /\ epoch' = epoch
      BY <1>3 DEF Settles
    <2>2. ASSUME NEW j \in Jobs
          PROVE  \/ attempts'[j] = attempts[j]
                 \/ /\ status'[j] = "failed"
                    /\ attempts[j] < MaxAttempts /\ attempts'[j] = attempts[j] + 1
                    /\ \E r \in net \ net' : r.op = "fail" /\ r.job = j /\ FencePasses(r)
      BY <1>3 DEF Settles, RowSettles, ChargesFit
    <2>3. AttemptsBounded'
      BY <1>0, <2>2 DEF AttemptsBounded
    <2>4. \A j \in Jobs : status'[j] \in {"queued", "running"} => attempts'[j] < MaxAttempts
      BY <1>3 DEF Settles, RowSettles, ChargesFit
    <2>5. ASSUME NEW q \in net', q.op = "fail"
          PROVE  /\ FencePasses(q)' => attempts'[q.job] < MaxAttempts
                 /\ \A v \in Workers : InSession(v, q)' => pc'[v] = "failing"
      <3>1. q \in net /\ q.stage = 0 /\ (FencePasses(q) => attempts[q.job] < MaxAttempts)
        BY <2>1, <2>5 DEF ChargesFit
      <3>2. ASSUME NEW r \in net \ net', r.op = "fail", r.job = q.job,
                   FencePasses(r), FencePasses(q)
            PROVE  FALSE
        <4>1. r.stage = 0 /\ r.epoch = q.epoch /\ r.from = q.from
          BY <1>0, <3>1, <3>2 DEF ChargesFit, FencePasses, OneSender
        <4>2. r = q
          BY <1>0, <2>5, <3>1, <3>2, <4>1 DEF Requests
        <4>3. QED
          BY <2>5, <4>2
      <3>3. FencePasses(q)' => attempts'[q.job] < MaxAttempts
        BY <1>0, <2>1, <2>2, <3>1, <3>2 DEF FencePasses
      <3>4. ASSUME NEW v \in Workers, InSession(v, q)' PROVE pc'[v] = "failing"
        <4>1. session'[v].job # 0
          BY <1>0, <3>1, <3>4 DEF InSession, Jobs
        <4>2. WorkerSettles(v) /\ InSession(v, q)
          BY <1>3, <3>4, <4>1 DEF Settles, WorkerSettles, InSession
        <4>3. pc[v] = "failing"
          BY <2>5, <3>1, <4>2 DEF ChargesFit
        <4>4. QED
          BY <4>1, <4>2, <4>3 DEF WorkerSettles, Moves
      <3>5. QED
        BY <3>3, <3>4
    <2>6. ASSUME NEW v \in Workers, session'[v].job # 0, Holds(v, session[v].job)',
                 pc'[v] # "failing"
          PROVE  attempts'[session'[v].job] < MaxAttempts
      <3>1. /\ session'[v].job = session[v].job /\ session'[v].epoch = session[v].epoch
            /\ pc[v] # "failing" /\ session[v].job \in Jobs
        BY <1>3, <2>6, SessionType DEF Settles, WorkerSettles, Moves
      <3>2. Holds(v, session[v].job) /\ attempts[session[v].job] < MaxAttempts
        BY <2>1, <2>6, <3>1 DEF Holds, ChargesFit
      <3>3. ASSUME NEW r \in net, r.op = "fail", r.job = session[v].job, FencePasses(r)
            PROVE  FALSE
        BY <3>1, <3>2, <3>3 DEF ChargesFit, FencePasses, InSession, Holds
      <3>4. QED
        BY <2>2, <3>1, <3>2, <3>3
    <2>7. QED
      BY <2>1, <2>3, <2>4, <2>5, <2>6 DEF ChargesFit, Holds
  <1>4. QED
    BY <1>1, <1>2, <1>3 DEF StepKinds

-----------------------------------------------------------------------------
(* The invariant, and what follows from it.                                *)

\* The invariant holds of a table of queued jobs and of idle workers.
LEMMA InitInvariant == Init => IInv
  <1> SUFFICES ASSUME Init PROVE IInv
    OBVIOUS
  <1>1. NoSession \in Sessions /\ NoSession.job = 0 /\ 0 \in Epochs
    BY SizesAssumption DEF NoSession, Sessions, Epochs
  <1>2. \A w \in Workers : session[w].job = 0 /\ pc[w] = "idle"
    BY <1>1 DEF Init
  <1>3. Pending = {} /\ net = {} /\ \A j \in Jobs : Unlocked(j)
    BY DEF Init, Pending, Unlocked
  <1>4. TypeOK
    BY <1>1 DEF Init, TypeOK, Statuses, Leases, PCs
  <1>5. SessionsOpen /\ EpochsIssued /\ AdmittedPushHoldsRow
    BY <1>2, <1>3 DEF SessionsOpen, EpochsIssued, AdmittedPushHoldsRow
  <1>6. OneSender /\ PushesFit
    BY <1>2, <1>3 DEF OneSender, PushesFit
  <1>7. OnePush
    BY <1>3 DEF OnePush
  <1>8. NothingForgotten /\ HolderKnows
    BY <1>2 DEF NothingForgotten, HolderKnows
  <1>9. StagesInOrder /\ CompletesFit /\ CompleteHasAllStages
    BY <1>3 DEF Init, StagesInOrder, CompletesFit, CompleteHasAllStages
  <1>10. ChargesFit /\ AttemptsBounded
    BY <1>2, <1>3, SizesAssumption DEF Init, ChargesFit, AttemptsBounded
  <1>11. QED
    BY <1>4, <1>5, <1>6, <1>7, <1>8, <1>9, <1>10 DEF IInv

\* Every step preserves the invariant: its parts, each by its own lemma.
LEMMA StepInvariant == IInv /\ [Next]_vars => IInv'
  <1> SUFFICES ASSUME IInv, [Next]_vars PROVE IInv'
    OBVIOUS
  <1> USE DEF IInv
  <1>1. TypeOK' /\ SessionsOpen'
    BY TypeStep, SessionsOpenStep
  <1>2. StepKinds
    BY StepKind
  <1>3. EpochsIssued' /\ AdmittedPushHoldsRow'
    BY <1>1, <1>2, EpochsStep
  <1>4. OneSender'
    BY <1>1, <1>2, OneSenderStep
  <1>5. OnePush'
    BY <1>2, OnePushStep
  <1>6. PushesFit'
    BY <1>2, <1>5, PushesFitStep
  <1>7. StagesInOrder'
    BY <1>2, StagesInOrderStep
  <1>8. NothingForgotten'
    BY <1>1, <1>2, NothingForgottenStep
  <1>9. HolderKnows'
    BY <1>1, <1>2, HolderKnowsStep
  <1>10. CompletesFit' /\ CompleteHasAllStages'
    BY <1>1, <1>2, CompletesStep
  <1>11. ChargesFit' /\ AttemptsBounded'
    BY <1>1, <1>2, <1>4, ChargesStep
  <1>12. QED
    BY <1>1, <1>3, <1>4, <1>5, <1>6, <1>7, <1>8, <1>9, <1>10, <1>11

\* The invariant holds throughout.
LEMMA Invariant == Spec => []IInv
  BY InitInvariant, StepInvariant, PTL DEF Spec

\* The columns and the workers' locals keep their shape.
THEOREM TypeCorrect == Spec => []TypeOK
  <1>1. IInv => TypeOK
    BY DEF IInv
  <1>2. QED
    BY <1>1, Invariant, PTL

\* At most one worker's calls pass the fence of a row, whatever is still in
\* flight from earlier leases.
THEOREM MutualExclusion == Spec => []OneHolder
  <1>1. IInv => OneHolder
    BY DEF IInv, OneSender, OneHolder, Holds, Jobs
  <1>2. QED
    BY <1>1, Invariant, PTL

\* FOR UPDATE holds the row until commit: no claim comes between the check of a
\* push's epoch and its commit.
THEOREM PushesHoldTheirRow == Spec => []AdmittedPushHoldsRow
  <1>1. IInv => AdmittedPushHoldsRow
    BY DEF IInv
  <1>2. QED
    BY <1>1, Invariant, PTL

\* Stages go on record in pipeline order, across workers and leases.
THEOREM PipelineOrder == Spec => []StagesInOrder
  <1>1. IInv => StagesInOrder
    BY DEF IInv
  <1>2. QED
    BY <1>1, Invariant, PTL

\* A job is complete only with every stage on record, though complete does not
\* look.
THEOREM CompleteIsComplete == Spec => []CompleteHasAllStages
  <1>1. IInv => CompleteHasAllStages
    BY DEF IInv
  <1>2. QED
    BY <1>1, Invariant, PTL

\* No job is charged more than MAX_ATTEMPTS failures.
THEOREM ChargesBounded == Spec => []AttemptsBounded
  <1>1. IInv => AttemptsBounded
    BY DEF IInv
  <1>2. QED
    BY <1>1, Invariant, PTL

\* What a worker has ticked off is on record, for as long as it is at it.
THEOREM ProgressKept == Spec => []NothingForgotten
  <1>1. IInv => NothingForgotten
    BY DEF IInv
  <1>2. QED
    BY <1>1, Invariant, PTL

\* An admitted push is for a stage that is not on record yet.
THEOREM NoStageTwice == Spec => []StageRecordedOnce
  <1>1. ASSUME IInv, NEW j \in Jobs, ~Unlocked(j)
        PROVE  lock[j].stage \notin done[j]
    <2>1. lock[j] \in Pending /\ lock[j].op = "push"
      BY <1>1 DEF IInv, TypeOK, Pending, Unlocked
    <2>2. lock[j].job = j /\ FencePasses(lock[j])
      BY <1>1 DEF IInv, AdmittedPushHoldsRow
    <2>3. QED
      BY <1>1, <2>1, <2>2 DEF IInv, PushesFit
  <1>2. IInv => StageRecordedOnce
    BY <1>1 DEF StageRecordedOnce
  <1>3. QED
    BY <1>2, Invariant, PTL

-----------------------------------------------------------------------------
(* The protocol implements the ledger.                                     *)

\* The steps that touch what the ledger shows.
LEMMA LedgerSteps ==
  ASSUME [Next]_vars
  PROVE  \/ UNCHANGED <<status, attempts, done>>
         \/ \E w \in Workers, j \in Jobs : Claimable(j) /\ Grant(w, j)
         \/ \E j \in Jobs : CommitPush(j)
         \/ \E r \in net : ServeComplete(r) \/ ServeFail(r)
  <1>1. ASSUME NEW w \in Workers, WorkerStep(w)
        PROVE  UNCHANGED <<status, attempts, done>>
    BY <1>1 DEF WorkerStep, SendClaim, ReadClaim, Fetched, StartStage, StopFenced, SendPush,
       ReadPush, SendComplete, ReadComplete, WorkRaises, CallRaises, SendFail, ReadFail,
       Crash, SendHeartbeat, rowVars
  <1>2. ASSUME NEW w \in Workers, ServeClaim(w)
        PROVE  \/ UNCHANGED <<status, attempts, done>>
               \/ \E j \in Jobs : Claimable(j) /\ Grant(w, j)
    BY <1>2 DEF ServeClaim, NothingEligible, rowVars
  <1>3. ASSUME NEW r \in net, ServeHeartbeat(r) \/ BeginPush(r) \/ LoseRequest(r)
        PROVE  UNCHANGED <<status, attempts, done>>
    BY <1>3 DEF ServeHeartbeat, BeginPush, LoseRequest, rowVars
  <1>4. ASSUME NEW j \in Jobs, AbortPush(j) \/ Lapse(j)
        PROVE  UNCHANGED <<status, attempts, done>>
    BY <1>4 DEF AbortPush, Lapse
  <1>5. ASSUME NEW w \in Workers, LoseClaim(w)
        PROVE  UNCHANGED <<status, attempts, done>>
    BY <1>5 DEF LoseClaim, rowVars
  <1>6. CASE UNCHANGED vars
    BY <1>6 DEF vars, rowVars
  <1>7. QED
    BY <1>1, <1>2, <1>3, <1>4, <1>5, <1>6 DEF Next, ServerStep, EnvironmentStep

\* A step of the protocol is a step of the ledger or leaves it as it is.
LEMMA LedgerStep ==
  ASSUME IInv, [Next]_vars
  PROVE  [Ledger!Next]_(Ledger!vars)
  <1> USE DEF IInv
  <1>1. CASE UNCHANGED <<status, attempts, done>>
    BY <1>1 DEF Ledger!vars, Phase
  <1>2. ASSUME NEW w \in Workers, NEW j \in Jobs, Claimable(j), Grant(w, j)
        PROVE  [Ledger!Next]_(Ledger!vars)
    <2>1. /\ status' = [status EXCEPT ![j] = "running"]
          /\ attempts' = attempts /\ done' = done
      BY <1>2 DEF Grant
    <2>2. CASE status[j] \in {"queued", "running"}
      <3>1. \A i \in Jobs : Phase(i)' = Phase(i)
        BY <2>1, <2>2 DEF Phase, TypeOK
      <3>2. QED
        BY <2>1, <3>1 DEF Ledger!vars
    <2>3. CASE status[j] = "failed" /\ attempts[j] < MaxAttempts
      <3>1. [i \in Jobs |-> Phase(i)]' = [[i \in Jobs |-> Phase(i)] EXCEPT ![j] = "open"]
        BY <2>1, <2>3 DEF Phase, TypeOK
      <3>2. Ledger!Reopen(j)
        BY <2>1, <2>3, <3>1 DEF Ledger!Reopen, Phase
      <3>3. QED
        BY <3>2 DEF Ledger!Next
    <2>4. QED
      BY <1>2, <2>2, <2>3 DEF Claimable, Eligible
  <1>3. ASSUME NEW j \in Jobs, CommitPush(j)
        PROVE  [Ledger!Next]_(Ledger!vars)
    <2>1. lock[j] \in Pending /\ lock[j].op = "push" /\ lock[j].job = j /\ FencePasses(lock[j])
      BY <1>3 DEF CommitPush, TypeOK, Pending, Unlocked, AdmittedPushHoldsRow
    <2>2. /\ lock[j].stage \in Stages \ done[j]
          /\ \A t \in Stages : t < lock[j].stage => t \in done[j]
      BY <2>1 DEF PushesFit
    <2>3. /\ done' = [done EXCEPT ![j] = @ \cup {lock[j].stage}]
          /\ attempts' = attempts /\ status' = status
      BY <1>3 DEF CommitPush
    <2>4. Ledger!Record(j)
      BY <2>2, <2>3 DEF Ledger!Record, Ledger!Stages, Stages, Phase
    <2>5. QED
      BY <2>4 DEF Ledger!Next
  <1>4. ASSUME NEW r \in net, ServeComplete(r)
        PROVE  [Ledger!Next]_(Ledger!vars)
    <2>1. r.job \in Jobs /\ r.op = "complete" /\ attempts' = attempts /\ done' = done
      BY <1>4 DEF ServeComplete, TypeOK, Requests
    <2>2. CASE status' = [status EXCEPT ![r.job] = "complete"]
      <3>1. [i \in Jobs |-> Phase(i)]'
              = [[i \in Jobs |-> Phase(i)] EXCEPT ![r.job] = "complete"]
        BY <2>1, <2>2 DEF Phase, TypeOK
      <3>2. Ledger!Finish(r.job)
        BY <2>1, <3>1 DEF Ledger!Finish, Ledger!Stages, Stages, CompletesFit
      <3>3. QED
        BY <2>1, <3>2 DEF Ledger!Next
    <2>3. CASE status' = status
      BY <2>1, <2>3 DEF Ledger!vars, Phase
    <2>4. QED
      BY <1>4, <2>2, <2>3 DEF ServeComplete
  <1>5. ASSUME NEW r \in net, ServeFail(r)
        PROVE  [Ledger!Next]_(Ledger!vars)
    <2>1. r.job \in Jobs /\ r.op = "fail" /\ done' = done
      BY <1>5 DEF ServeFail, TypeOK, Requests
    <2>2. ASSUME FencePasses(r), status' = [status EXCEPT ![r.job] = "failed"],
                 attempts' = [attempts EXCEPT ![r.job] = @ + 1]
          PROVE  [Ledger!Next]_(Ledger!vars)
      <3>1. [i \in Jobs |-> Phase(i)]'
              = [[i \in Jobs |-> Phase(i)] EXCEPT ![r.job] = "failed"]
        BY <2>1, <2>2 DEF Phase, TypeOK
      <3>2. attempts[r.job] < MaxAttempts
        BY <2>1, <2>2 DEF ChargesFit
      <3>3. Ledger!Charge(r.job)
        BY <2>1, <2>2, <3>1, <3>2 DEF Ledger!Charge
      <3>4. QED
        BY <2>1, <3>3 DEF Ledger!Next
    <2>3. CASE UNCHANGED <<status, attempts>>
      BY <2>1, <2>3 DEF Ledger!vars, Phase
    <2>4. QED
      BY <1>5, <2>2, <2>3 DEF ServeFail
  <1>6. QED
    BY <1>1, <1>2, <1>3, <1>4, <1>5, LedgerSteps

\* Whatever workers, network and coordinator do, a watcher of the jobs table
\* sees stages recorded in order and once each, a job finished only with all of
\* them, and at most MAX_ATTEMPTS failures charged, never again after the last.
THEOREM Refinement == Spec => ImplementsLedger
  <1>1. Init => Ledger!Init
    BY DEF Init, Ledger!Init, Phase
  <1>2. IInv /\ [Next]_vars => [Ledger!Next]_(Ledger!vars)
    BY LedgerStep
  <1>3. QED
    BY <1>1, <1>2, Invariant, PTL DEF Spec, ImplementsLedger, Ledger!Spec

=============================================================================
