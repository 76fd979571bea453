------------------------------ MODULE JobLease ------------------------------
(***************************************************************************)
(* The lease protocol of distributed ingestion: the jobs table behind the  *)
(* coordinator's /jobs router (ingest/lease.py, api/jobs.py), the remote   *)
(* workers that call it over HTTP (ingest/worker.py through                *)
(* ingest/coordinator_client.py), and everything the network and the       *)
(* processes may do in between.                                            *)
(*                                                                         *)
(* One SQL transaction is one action, except the stage push, whose         *)
(* transaction holds the row lock from SELECT ... FOR UPDATE until COMMIT  *)
(* and is therefore a begin and an end.  A request is sent once (the       *)
(* client never retries), is handled at any later time or is lost, and may *)
(* be handled after its caller gave up on it or died.  Wall-clock time     *)
(* appears only as a lease that may lapse at any moment.                   *)
(***************************************************************************)
EXTENDS Naturals, FiniteSets

CONSTANTS NumJobs,      \* rows of the jobs table; ids follow insertion order
          Workers,      \* worker ids
          NumStages,    \* length of pipeline.STAGES
          MaxAttempts,  \* lease.MAX_ATTEMPTS
          MaxEpoch,     \* bound: a row is leased at most this often
          MaxNet        \* bound: requests in flight at once, claims apart

ASSUME SizesAssumption == /\ NumJobs \in Nat \ {0}
                          /\ NumStages \in Nat \ {0}
                          /\ MaxAttempts \in Nat \ {0}
                          /\ MaxEpoch \in Nat
                          /\ MaxNet \in Nat

Jobs   == 1..NumJobs
Stages == 1..NumStages
Epochs == 0..MaxEpoch

Statuses == {"queued", "running", "failed", "complete"}

\* lease_expires_at: NULL, in the future, or in the past.
Leases == {"null", "live", "lapsed"}

\* The fenced calls of CoordinatorClient, tagged with the session that made
\* them.  stage is 0 except in a push.
Requests == [op    : {"push", "complete", "fail", "heartbeat"},
             from  : Workers,
             job   : Jobs,
             epoch : Epochs,
             stage : 0..NumStages]

\* What a claim hands out.  todo is STAGES without the stages_done of the
\* response; the worker shrinks it as its pushes are acknowledged.
Sessions == [job : Jobs \cup {0}, epoch : Epochs, todo : SUBSET Stages]
NoSession == [job |-> 0, epoch |-> 0, todo |-> {}]

NoRequest == [op |-> "none"]

VARIABLES
  status, epoch, lease, attempts,   \* columns of the jobs row
  done,      \* stage_status: the stages recorded done or skipped
  lock,      \* the push whose open transaction holds the row, or NoRequest
  pc,        \* where each worker's main thread is
  session,   \* its job_id, lease_epoch and stages left; see ServeClaim
  reply,     \* the response to the call it waits on
  fenced,    \* _Heartbeat.fenced
  net,       \* fenced requests sent and not yet handled
  claims     \* workers whose claim request is sent and not yet handled

rowVars    == <<status, epoch, lease, attempts, done, lock>>
workerVars == <<pc, session, reply, fenced>>
vars       == <<rowVars, workerVars, net, claims>>

Init ==
  /\ status   = [j \in Jobs |-> "queued"]
  /\ epoch    = [j \in Jobs |-> 0]
  /\ lease    = [j \in Jobs |-> "null"]
  /\ attempts = [j \in Jobs |-> 0]
  /\ done     = [j \in Jobs |-> {}]
  /\ lock     = [j \in Jobs |-> NoRequest]
  /\ pc       = [w \in Workers |-> "idle"]
  /\ session  = [w \in Workers |-> NoSession]
  /\ reply    = [w \in Workers |-> "none"]
  /\ fenced   = [w \in Workers |-> FALSE]
  /\ net      = {}
  /\ claims   = {}

-----------------------------------------------------------------------------
(* What the SQL conditions say.                                            *)

\* Mutant: the WHERE clause of before leases, which no abandoned row meets.
EligibleUnlessAbandoned(j) ==
  \/ status[j] = "queued"
  \/ status[j] = "failed" /\ attempts[j] < MaxAttempts

\* The WHERE clause of claim's sub-select.
Eligible(j) ==
  \/ status[j] = "queued"
  \/ status[j] = "running" /\ lease[j] = "lapsed"
  \/ status[j] = "failed" /\ attempts[j] < MaxAttempts

Unlocked(j) == lock[j] = NoRequest

\* Mutant: a push whose SELECT has no FOR UPDATE: a claim finds the row unlocked.
ClaimableThoughLocked(j) == Eligible(j)

\* FOR UPDATE SKIP LOCKED: the row is not held by an open push.
Claimable(j) == Eligible(j) /\ Unlocked(j)

\* SKIP LOCKED passes over a row some transaction has locked at that instant:
\* an open push, or the single UPDATE of a request being handled just then.
\* (A row that another claim has locked is that claim's.)
MaySkip(j) == ~Unlocked(j) \/ \E r \in net : r.job = j

\* Mutant: an UPDATE without its "AND lease_epoch = %s".
NoFence(r) == TRUE

\* "AND lease_epoch = %s", the one fence of heartbeat, push, complete, fail.
FencePasses(r) == r.epoch = epoch[r.job]

-----------------------------------------------------------------------------
(* Workers, requests, replies.                                             *)

Waiting == {"claiming", "pushing", "completing", "failing"}

\* The heartbeat thread lives between _Heartbeat.__enter__ and __exit__.
Beating == {"looping", "computing", "pushing"}

Request(w, kind, s) ==
  [op |-> kind, from |-> w, job |-> session[w].job,
   epoch |-> session[w].epoch, stage |-> s]

IsNext(w, s) == s \in session[w].todo /\ \A t \in session[w].todo : s <= t

InSession(w, r) == session[w].job = r.job /\ session[w].epoch = r.epoch

\* The main thread of r's sender is still blocked on r.
Awaited(r) ==
  /\ InSession(r.from, r)
  /\ pc[r.from] = CASE r.op = "push"      -> "pushing"
                    [] r.op = "complete"  -> "completing"
                    [] r.op = "fail"      -> "failing"
                    [] r.op = "heartbeat" -> "never"

Answer(r, kind) ==
  reply' = IF Awaited(r) THEN [reply EXCEPT ![r.from] = kind] ELSE reply

Send(r) ==
  /\ r \notin net
  /\ Cardinality(net) < MaxNet
  /\ net' = net \cup {r}

\* Sends r and blocks on it.
Call(w, kind, s, where) ==
  /\ Send(Request(w, kind, s))
  /\ pc' = [pc EXCEPT ![w] = where]
  /\ reply' = [reply EXCEPT ![w] = "none"]

Goto(w, where) == pc' = [pc EXCEPT ![w] = where]

\* run_one_distributed returns, or the process dies: nothing is remembered.
Forget(w) ==
  /\ pc'      = [pc EXCEPT ![w] = "idle"]
  /\ session' = [session EXCEPT ![w] = NoSession]
  /\ reply'   = [reply EXCEPT ![w] = "none"]
  /\ fenced'  = [fenced EXCEPT ![w] = FALSE]

-----------------------------------------------------------------------------
(* The worker's main thread: run_one_distributed.                          *)

SendClaim(w) ==
  /\ pc[w] = "idle"
  /\ w \notin claims
  /\ claims' = claims \cup {w}
  /\ pc' = [pc EXCEPT ![w] = "claiming"]
  /\ reply' = [reply EXCEPT ![w] = "none"]
  /\ UNCHANGED <<rowVars, session, fenced, net>>

ReadClaim(w) ==
  /\ pc[w] = "claiming"
  /\ \/ reply[w] = "ok" /\ Goto(w, "fetching") /\ UNCHANGED <<session, reply, fenced>>
     \/ reply[w] = "idle" /\ Forget(w)
  /\ UNCHANGED <<rowVars, net, claims>>

\* The source is local and the embedder loaded; only now does the heartbeat
\* thread start.
Fetched(w) ==
  /\ pc[w] = "fetching"
  /\ Goto(w, "looping")
  /\ UNCHANGED <<rowVars, session, reply, fenced, net, claims>>

\* A stage that is left to do, behind the one check of the fenced flag.
StartStage(w) ==
  /\ pc[w] = "looping"
  /\ session[w].todo # {}
  /\ ~fenced[w]
  /\ Goto(w, "computing")
  /\ UNCHANGED <<rowVars, session, reply, fenced, net, claims>>

StopFenced(w) ==
  /\ pc[w] = "looping"
  /\ session[w].todo # {}
  /\ fenced[w]
  /\ Forget(w)
  /\ UNCHANGED <<rowVars, net, claims>>

SendPush(w) ==
  /\ pc[w] = "computing"
  /\ \E s \in Stages : IsNext(w, s) /\ Call(w, "push", s, "pushing")
  /\ UNCHANGED <<rowVars, session, fenced, claims>>

\* Mutant: an error answer to a push is taken for a success.
ReadPushUnchecked(w) ==
  /\ pc[w] = "pushing"
  /\ \E s \in Stages :
       /\ IsNext(w, s)
       /\ session' = [session EXCEPT ![w].todo = @ \ {s}]
  /\ Goto(w, "looping")
  /\ UNCHANGED <<rowVars, reply, fenced, net, claims>>

ReadPush(w) ==
  /\ pc[w] = "pushing"
  /\ \/ /\ reply[w] = "ok"
        /\ \E s \in Stages :
             /\ IsNext(w, s)
             /\ session' = [session EXCEPT ![w].todo = @ \ {s}]
        /\ Goto(w, "looping")
        /\ UNCHANGED <<reply, fenced>>
     \/ reply[w] = "stale" /\ Forget(w)
  /\ UNCHANGED <<rowVars, net, claims>>

\* After the loop, whatever the fenced flag says.
SendComplete(w) ==
  /\ pc[w] = "looping"
  /\ session[w].todo = {}
  /\ Call(w, "complete", 0, "completing")
  /\ UNCHANGED <<rowVars, session, fenced, claims>>

ReadComplete(w) ==
  /\ pc[w] = "completing"
  /\ reply[w] \in {"ok", "stale"}
  /\ Forget(w)
  /\ UNCHANGED <<rowVars, net, claims>>

\* fetch, make_embedder or a stage's compute raises.
WorkRaises(w) ==
  /\ pc[w] \in {"fetching", "computing"}
  /\ Goto(w, "erring")
  /\ UNCHANGED <<rowVars, session, reply, fenced, net, claims>>

\* A call times out, its connection breaks, or it gets a status >= 400 other
\* than 409.  The claim is outside the try block and takes the process down;
\* the report of a failure is best effort.
CallRaises(w) ==
  /\ pc[w] \in Waiting
  /\ \/ pc[w] \in {"claiming", "failing"} /\ Forget(w)
     \/ pc[w] \in {"pushing", "completing"} /\ Goto(w, "erring")
        /\ UNCHANGED <<session, reply, fenced>>
  /\ UNCHANGED <<rowVars, net, claims>>

SendFail(w) ==
  /\ pc[w] = "erring"
  /\ Call(w, "fail", 0, "failing")
  /\ UNCHANGED <<rowVars, session, fenced, claims>>

ReadFail(w) ==
  /\ pc[w] = "failing"
  /\ reply[w] \in {"ok", "stale"}
  /\ Forget(w)
  /\ UNCHANGED <<rowVars, net, claims>>

\* The process is killed and started again.
Crash(w) ==
  /\ pc[w] # "idle"
  /\ Forget(w)
  /\ UNCHANGED <<rowVars, net, claims>>

\* One turn of the heartbeat thread; it ended if it was ever told 409.
SendHeartbeat(w) ==
  /\ pc[w] \in Beating
  /\ ~fenced[w]
  /\ Send(Request(w, "heartbeat", 0))
  /\ UNCHANGED <<rowVars, workerVars, claims>>

-----------------------------------------------------------------------------
(* The coordinator.                                                        *)

\* Mutant: claim without "lease_epoch = lease_epoch + 1", as in claim_one.
GrantSameEpoch(w, j) ==
  /\ status' = [status EXCEPT ![j] = "running"]
  /\ lease'  = [lease EXCEPT ![j] = "live"]
  /\ IF pc[w] = "claiming"
       THEN /\ session' = [session EXCEPT ![w] =
                 [job |-> j, epoch |-> epoch[j], todo |-> Stages \ done[j]]]
            /\ reply' = [reply EXCEPT ![w] = "ok"]
       ELSE UNCHANGED <<session, reply>>
  /\ UNCHANGED <<epoch, attempts, done, lock, pc, fenced>>

\* Mutant: the response leaves stages_done out.
GrantFromScratch(w, j) ==
  /\ epoch[j] < MaxEpoch
  /\ status' = [status EXCEPT ![j] = "running"]
  /\ epoch'  = [epoch EXCEPT ![j] = @ + 1]
  /\ lease'  = [lease EXCEPT ![j] = "live"]
  /\ IF pc[w] = "claiming"
       THEN /\ session' = [session EXCEPT ![w] =
                 [job |-> j, epoch |-> epoch[j] + 1, todo |-> Stages]]
            /\ reply' = [reply EXCEPT ![w] = "ok"]
       ELSE UNCHANGED <<session, reply>>
  /\ UNCHANGED <<attempts, done, lock, pc, fenced>>

\* The UPDATE of claim.  The grant is the content of the response, which a
\* worker that still waits will read; for any other the row is leased all the
\* same and nobody works on it.
Grant(w, j) ==
  /\ epoch[j] < MaxEpoch
  /\ status' = [status EXCEPT ![j] = "running"]
  /\ epoch'  = [epoch EXCEPT ![j] = @ + 1]
  /\ lease'  = [lease EXCEPT ![j] = "live"]
  /\ IF pc[w] = "claiming"
       THEN /\ session' = [session EXCEPT ![w] =
                 [job |-> j, epoch |-> epoch[j] + 1, todo |-> Stages \ done[j]]]
            /\ reply' = [reply EXCEPT ![w] = "ok"]
       ELSE UNCHANGED <<session, reply>>
  /\ UNCHANGED <<attempts, done, lock, pc, fenced>>

NothingEligible(w) ==
  /\ \A j \in Jobs : ~Claimable(j) \/ MaySkip(j)
  /\ reply' = IF pc[w] = "claiming" THEN [reply EXCEPT ![w] = "idle"] ELSE reply
  /\ UNCHANGED <<rowVars, pc, session, fenced>>

ServeClaim(w) ==
  /\ w \in claims
  /\ \/ \E j \in Jobs :
          /\ Claimable(j)
          /\ \A i \in 1..(j - 1) : Eligible(i) => MaySkip(i)
          /\ Grant(w, j)
     \/ NothingEligible(w)
  /\ claims' = claims \ {w}
  /\ UNCHANGED net

ServeHeartbeat(r) ==
  /\ r \in net
  /\ r.op = "heartbeat"
  /\ Unlocked(r.job)
  /\ net' = net \ {r}
  /\ \/ /\ FencePasses(r)
        /\ lease' = [lease EXCEPT ![r.job] = "live"]
        /\ UNCHANGED fenced
     \/ /\ ~FencePasses(r)     \* 409, which the thread reads unless it is lost
        /\ \/ /\ InSession(r.from, r) /\ pc[r.from] \in Beating
              /\ fenced' = [fenced EXCEPT ![r.from] = TRUE]
           \/ UNCHANGED fenced
        /\ UNCHANGED lease
  /\ UNCHANGED <<status, epoch, attempts, done, lock, pc, session, reply, claims>>

\* Mutant: complete and fail routed to the push handler as well.
BeginPushOfAny(r) ==
  /\ r \in net
  /\ Unlocked(r.job)
  /\ FencePasses(r)
  /\ net' = net \ {r}
  /\ lock' = [lock EXCEPT ![r.job] = r]
  /\ UNCHANGED <<status, epoch, lease, attempts, done, workerVars, claims>>

\* push_stage up to the fence: SELECT ... FOR UPDATE, then compare epochs.
BeginPush(r) ==
  /\ r \in net
  /\ r.op = "push"
  /\ Unlocked(r.job)
  /\ net' = net \ {r}
  /\ \/ /\ FencePasses(r)
        /\ lock' = [lock EXCEPT ![r.job] = r]
        /\ UNCHANGED reply
     \/ /\ ~FencePasses(r)
        /\ Answer(r, "stale")
        /\ UNCHANGED lock
  /\ UNCHANGED <<status, epoch, lease, attempts, done, pc, session, fenced, claims>>

\* Mutant: stage_status is assigned, not merged into (no ||).
CommitPushOverwrites(j) ==
  /\ ~Unlocked(j)
  /\ done' = [done EXCEPT ![j] = {lock[j].stage}]
  /\ lock' = [lock EXCEPT ![j] = NoRequest]
  /\ Answer(lock[j], "ok")
  /\ UNCHANGED <<status, epoch, lease, attempts, pc, session, fenced, net, claims>>

\* persist_stage and mark_stage_done commit together.
CommitPush(j) ==
  /\ ~Unlocked(j)
  /\ done' = [done EXCEPT ![j] = @ \cup {lock[j].stage}]
  /\ lock' = [lock EXCEPT ![j] = NoRequest]
  /\ Answer(lock[j], "ok")
  /\ UNCHANGED <<status, epoch, lease, attempts, pc, session, fenced, net, claims>>

\* Mutant: the handler swallows what persist raises and answers 200.
AbortPushQuietly(j) ==
  /\ ~Unlocked(j)
  /\ lock' = [lock EXCEPT ![j] = NoRequest]
  /\ Answer(lock[j], "ok")
  /\ UNCHANGED <<status, epoch, lease, attempts, done, pc, session, fenced, net, claims>>

\* The handler raises (4xx, 5xx) or the coordinator dies: rolled back.
AbortPush(j) ==
  /\ ~Unlocked(j)
  /\ lock' = [lock EXCEPT ![j] = NoRequest]
  /\ UNCHANGED <<status, epoch, lease, attempts, done, workerVars, net, claims>>

ServeComplete(r) ==
  /\ r \in net
  /\ r.op = "complete"
  /\ Unlocked(r.job)
  /\ net' = net \ {r}
  /\ \/ /\ FencePasses(r)
        /\ status' = [status EXCEPT ![r.job] = "complete"]
        /\ Answer(r, "ok")
     \/ ~FencePasses(r) /\ Answer(r, "stale") /\ UNCHANGED status
  /\ UNCHANGED <<epoch, lease, attempts, done, lock, pc, session, fenced, claims>>

ServeFail(r) ==
  /\ r \in net
  /\ r.op = "fail"
  /\ Unlocked(r.job)
  /\ net' = net \ {r}
  /\ \/ /\ FencePasses(r)
        /\ status'   = [status EXCEPT ![r.job] = "failed"]
        /\ attempts' = [attempts EXCEPT ![r.job] = @ + 1]
        /\ Answer(r, "ok")
     \/ ~FencePasses(r) /\ Answer(r, "stale") /\ UNCHANGED <<status, attempts>>
  /\ UNCHANGED <<epoch, lease, done, lock, pc, session, fenced, claims>>

-----------------------------------------------------------------------------
(* The environment.                                                        *)

Lapse(j) ==
  /\ lease[j] = "live"
  /\ lease' = [lease EXCEPT ![j] = "lapsed"]
  /\ UNCHANGED <<status, epoch, attempts, done, lock, workerVars, net, claims>>

LoseRequest(r) ==
  /\ r \in net
  /\ net' = net \ {r}
  /\ UNCHANGED <<rowVars, workerVars, claims>>

LoseClaim(w) ==
  /\ w \in claims
  /\ claims' = claims \ {w}
  /\ UNCHANGED <<rowVars, workerVars, net>>

-----------------------------------------------------------------------------
WorkerStep(w) ==
  \/ SendClaim(w)    \/ ReadClaim(w)    \/ Fetched(w)
  \/ StartStage(w)   \/ StopFenced(w)
  \/ SendPush(w)     \/ ReadPush(w)
  \/ SendComplete(w) \/ ReadComplete(w)
  \/ WorkRaises(w)   \/ CallRaises(w)
  \/ SendFail(w)     \/ ReadFail(w)
  \/ Crash(w)        \/ SendHeartbeat(w)

ServerStep ==
  \/ \E w \in Workers : ServeClaim(w)
  \/ \E r \in net : \/ ServeHeartbeat(r) \/ BeginPush(r)
                    \/ ServeComplete(r)  \/ ServeFail(r)
  \/ \E j \in Jobs : CommitPush(j) \/ AbortPush(j)

EnvironmentStep ==
  \/ \E j \in Jobs : Lapse(j)
  \/ \E r \in net : LoseRequest(r)
  \/ \E w \in Workers : LoseClaim(w)

Next == (\E w \in Workers : WorkerStep(w)) \/ ServerStep \/ EnvironmentStep

Spec == Init /\ [][Next]_vars

-----------------------------------------------------------------------------
(* Properties.                                                             *)

PCs == {"idle", "claiming", "fetching", "looping", "computing", "pushing",
        "completing", "erring", "failing"}

\* The state has the shape the columns and the worker's locals have.
TypeOK ==
  /\ status   \in [Jobs -> Statuses]
  /\ epoch    \in [Jobs -> Epochs]
  /\ lease    \in [Jobs -> Leases]
  /\ attempts \in [Jobs -> Nat]
  /\ done     \in [Jobs -> SUBSET Stages]
  /\ lock     \in [Jobs -> {r \in Requests : r.op = "push"} \cup {NoRequest}]
  /\ pc       \in [Workers -> PCs]
  /\ session  \in [Workers -> Sessions]
  /\ reply    \in [Workers -> {"none", "ok", "stale", "idle"}]
  /\ fenced   \in [Workers -> BOOLEAN]
  /\ net      \in SUBSET Requests
  /\ claims   \in SUBSET Workers

\* A worker that has the current epoch of a row: its calls pass the fence.
Holds(w, j) == session[w].job = j /\ session[w].epoch = epoch[j]

\* A row never has two workers whose calls pass its fence, however late the
\* first one's lease lapsed and whatever it still has in flight.
OneHolder ==
  \A j \in Jobs, v, w \in Workers : Holds(v, j) /\ Holds(w, j) => v = w

\* A push that was admitted commits while its epoch is still the row's: a row
\* is not leased again under an open push, so the progress a new holder was
\* told about (stages_done) is not changed by its predecessor.
AdmittedPushHoldsRow ==
  \A j \in Jobs : ~Unlocked(j) => lock[j].job = j /\ FencePasses(lock[j])

\* A stage is recorded only after all the earlier ones, whichever workers ran
\* them: register first, because every other persist needs its video_id.
StagesInOrder ==
  \A j \in Jobs : \A s \in done[j] : \A t \in Stages : t < s => t \in done[j]

\* complete does not look at stage_status.  Still no row is complete with a
\* stage missing, because only a worker whose every push was acknowledged
\* sends it.
CompleteHasAllStages ==
  \A j \in Jobs : status[j] = "complete" => done[j] = Stages

\* A job is charged at most MAX_ATTEMPTS failures, although fail itself checks
\* nothing but the epoch and may be handled after the job was completed.
AttemptsBounded == \A j \in Jobs : attempts[j] <= MaxAttempts

\* What a worker has not got left to do is on record, even a worker that was
\* fenced long ago: recorded progress is never taken back.
NothingForgotten ==
  \A w \in Workers :
    session[w].job # 0 => Stages \ session[w].todo \subseteq done[session[w].job]

\* No stage is persisted twice: by the time a worker that pushed it is replaced,
\* its push is either on record or can no longer be admitted.
StageRecordedOnce ==
  \A j \in Jobs : ~Unlocked(j) => lock[j].stage \notin done[j]
=============================================================================
