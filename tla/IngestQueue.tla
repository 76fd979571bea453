---------------------------- MODULE IngestQueue ----------------------------
(***************************************************************************)
(* How jobs get into the jobs table and what identity they end up with:    *)
(* POST /ingest, POST /ingest/batch (one transaction per manifest, with    *)
(* its check for duplicates), and the register stage that puts the hash of *)
(* the media bytes on a row under UNIQUE(content_hash).                    *)
(*                                                                         *)
(* A deployment runs one kind of worker: the remote ones of JobLease,      *)
(* whose calls are answered at once here, or the single-machine loop       *)
(* (claim_and_run_one, run_full), which works on the table directly.  The  *)
(* seven stages after register are one step, Index.                        *)
(***************************************************************************)
EXTENDS Naturals, Sequences, Functions, FiniteSetsExt

CONSTANTS Paths,        \* source-store paths
          NoPath,       \* a record without one
          Bytes,        \* content hash of what each path leads to
          NoHash,       \* content_hash IS NULL
          Manifests,    \* the manifests that are posted
          Clients,      \* those who post them
          NoClient,
          Workers,
          MaxAttempts,  \* lease.MAX_ATTEMPTS and worker.MAX_ATTEMPTS
          MaxRows       \* bound: ids handed out

ASSUME QueueAssumption ==
  /\ NoPath \notin Paths /\ NoClient \notin Clients
  /\ NoHash \notin {Bytes[p] : p \in Paths}
  /\ Manifests \subseteq Seq(Paths \cup {NoPath}) \ {<< >>}
  /\ MaxAttempts \in Nat \ {0} /\ MaxRows \in Nat

Hashes == {Bytes[p] : p \in Paths}
Ids    == 1..MaxRows

VARIABLES
  kind,     \* the workers of this deployment: "remote" or "local"
  jobs,     \* the jobs table, by id
  batch,    \* what each client's POST /ingest/batch has left to check
  told,     \* the paths of the manifests that were answered with 200
  runs,     \* the job each worker runs and how far it is
  indexed   \* the jobs that wrote the derived data of a video

tableVars == <<jobs, batch, told>>
vars      == <<kind, tableVars, runs, indexed>>

Idle    == [job |-> 0, step |-> "idle"]
NoBatch == [manifest |-> << >>, checked |-> 0]

\* tx: the client in whose open transaction the row was inserted, or NoClient.
\* abandoned: a remote worker died on it, and its lease is in the past.
NewRow(by, path, tx) ==
  [by |-> by, path |-> path, tx |-> tx, hash |-> NoHash, status |-> "queued",
   abandoned |-> FALSE, attempts |-> 0, done |-> "nothing"]

Init ==
  /\ kind \in {"remote", "local"}
  /\ jobs    = << >>
  /\ batch   = [c \in Clients |-> NoBatch]
  /\ told    = {}
  /\ runs    = [w \in Workers |-> Idle]
  /\ indexed = [h \in Hashes |-> {}]

NextId == Max({0} \cup DOMAIN jobs) + 1

Insert(row) ==
  /\ NextId \in Ids
  /\ jobs' = [j \in DOMAIN jobs \cup {NextId} |-> IF j = NextId THEN row ELSE jobs[j]]

Committed == {j \in DOMAIN jobs : jobs[j].tx = NoClient}

-----------------------------------------------------------------------------
(* The API.                                                                *)

\* POST /ingest.  Its request carries media_path, not path.
Ingest(p) ==
  /\ Insert(NewRow("ingest", p, NoClient))
  /\ UNCHANGED <<kind, batch, told, runs, indexed>>

\* batch[c] keeps the whole manifest for the answer, and how much is checked.
PostBatch(c, m) ==
  /\ batch[c] = NoBatch
  /\ batch' = [batch EXCEPT ![c] = [manifest |-> m, checked |-> 0]]
  /\ UNCHANGED <<kind, jobs, told, runs, indexed>>

Posting(c) == batch[c] # NoBatch

\* Mutant: the SELECT sees what other open transactions inserted.
DuplicateUncommitted(c, path) ==
  \E j \in DOMAIN jobs :
    /\ jobs[j].by = "batch" /\ jobs[j].path = path /\ path # NoPath
    /\ jobs[j].status \in {"queued", "running"}

\* The SELECT under READ COMMITTED; a NULL path equals nothing.
Duplicate(c, path) ==
  \E j \in DOMAIN jobs :
    /\ jobs[j].tx \in {NoClient, c}
    /\ jobs[j].by = "batch" /\ jobs[j].path = path /\ path # NoPath
    /\ jobs[j].status \in {"queued", "running"}

\* The SELECT and the INSERT of one record.
CheckRecord(c) ==
  /\ Posting(c)
  /\ batch[c].checked < Len(batch[c].manifest)
  /\ LET path == batch[c].manifest[batch[c].checked + 1]
     IN  \/ Duplicate(c, path) /\ UNCHANGED jobs
         \/ ~Duplicate(c, path) /\ Insert(NewRow("batch", path, c))
  /\ batch' = [batch EXCEPT ![c].checked = @ + 1]
  /\ UNCHANGED <<kind, told, runs, indexed>>

CommitBatch(c) ==
  /\ Posting(c)
  /\ batch[c].checked = Len(batch[c].manifest)
  /\ jobs'  = [j \in DOMAIN jobs |-> IF jobs[j].tx = c THEN [jobs[j] EXCEPT !.tx = NoClient]
                                     ELSE jobs[j]]
  /\ told'  = told \cup (Range(batch[c].manifest) \ {NoPath})
  /\ batch' = [batch EXCEPT ![c] = NoBatch]
  /\ UNCHANGED <<kind, runs, indexed>>

\* A statement fails or the coordinator dies.
AbortBatch(c) ==
  /\ Posting(c)
  /\ jobs'  = Restrict(jobs, {j \in DOMAIN jobs : jobs[j].tx # c})
  /\ batch' = [batch EXCEPT ![c] = NoBatch]
  /\ UNCHANGED <<kind, told, runs, indexed>>

-----------------------------------------------------------------------------
(* The workers.                                                            *)

\* Mutant: the WHERE clause does not look at attempts.
EligibleForEver(j) ==
  \/ jobs[j].status \in {"queued", "failed"}
  \/ kind = "remote" /\ jobs[j].status = "running" /\ jobs[j].abandoned

\* claim_one, of the single machine, knows no leases.
Eligible(j) ==
  \/ jobs[j].status = "queued"
  \/ jobs[j].status = "failed" /\ jobs[j].attempts < MaxAttempts
  \/ kind = "remote" /\ jobs[j].status = "running" /\ jobs[j].abandoned

\* A remote worker skips the stages on the row.
StepAfter == [nothing |-> "register", registered |-> "index", indexed |-> "finish"]

\* run_full always registers.
Claim(w) ==
  /\ runs[w] = Idle
  /\ \E j \in Committed : Eligible(j)
  /\ LET j == Min({i \in Committed : Eligible(i)})
     IN  /\ jobs' = [jobs EXCEPT ![j].status = "running",
                                 ![j].abandoned = FALSE]
         /\ runs' = [runs EXCEPT ![w] =
              [job  |-> j,
               step |-> IF kind = "local" THEN "register" ELSE StepAfter[jobs[j].done]]]
  /\ UNCHANGED <<kind, batch, told, indexed>>

Job(w)     == jobs[runs[w].job]
AtStep(w, step) == runs[w].step = step
GoTo(w, step)   == runs' = [runs EXCEPT ![w].step = step]

\* _source_store_path takes path or media_path, _context_from_claim only the
\* latter.
HasSource(w) == Job(w).path # NoPath /\ (kind = "local" => Job(w).by = "ingest")

Hash(w) == Bytes[Job(w).path]

RowsOf(h) == {j \in DOMAIN jobs : jobs[j].hash = h}

\* Mutant: content_hash is not UNIQUE.
RegisterRemoteAnyway(w) ==
  /\ jobs' = [jobs EXCEPT ![runs[w].job].hash = Hash(w), ![runs[w].job].done = "registered"]
  /\ GoTo(w, "index")

\* persist with a job_id: UPDATE ... WHERE id.  Another row with this hash makes
\* it a UniqueViolation, which the worker gets as a 500.
RegisterRemote(w) ==
  \/ /\ RowsOf(Hash(w)) \subseteq {runs[w].job}
     /\ jobs' = [jobs EXCEPT ![runs[w].job].hash = Hash(w), ![runs[w].job].done = "registered"]
     /\ GoTo(w, "index")
  \/ /\ ~(RowsOf(Hash(w)) \subseteq {runs[w].job})
     /\ GoTo(w, "refused")
     /\ UNCHANGED jobs

\* persist without one: INSERT ... 'running' ON CONFLICT (content_hash).
RegisterLocal(w) ==
  /\ IF RowsOf(Hash(w)) # {}
       THEN jobs' = [j \in DOMAIN jobs |->
              IF jobs[j].hash = Hash(w) /\ jobs[j].done = "nothing"
                THEN [jobs[j] EXCEPT !.done = "registered"] ELSE jobs[j]]
       ELSE Insert([NewRow("register", NoPath, NoClient) EXCEPT
              !.hash = Hash(w), !.status = "running", !.done = "registered"])
  /\ GoTo(w, "index")

Register(w) ==
  /\ AtStep(w, "register")
  /\ HasSource(w)
  /\ \/ kind = "remote" /\ RegisterRemote(w)
     \/ kind = "local"  /\ RegisterLocal(w)
  /\ UNCHANGED <<kind, batch, told, indexed>>

\* run_full skips what is on record; it and the marks go by content_hash, a
\* remote worker's push by id.
Index(w) ==
  /\ AtStep(w, "index")
  /\ LET marked == IF kind = "remote" THEN {runs[w].job} ELSE RowsOf(Hash(w))
         skip   == \E j \in marked : jobs[j].done = "indexed"
     IN  /\ jobs' = [j \in DOMAIN jobs |->
                       IF j \in marked THEN [jobs[j] EXCEPT !.done = "indexed"] ELSE jobs[j]]
         /\ indexed' = IF skip THEN indexed
                       ELSE [indexed EXCEPT ![Hash(w)] = @ \cup {runs[w].job}]
  /\ GoTo(w, "finish")
  /\ UNCHANGED <<kind, batch, told>>

\* Mutant: run_full completes the row that was claimed.
FinishedById(w) == {runs[w].job}

Finished(w) == IF kind = "remote" THEN {runs[w].job} ELSE RowsOf(Hash(w))

Finish(w) ==
  /\ AtStep(w, "finish")
  /\ jobs' = [j \in DOMAIN jobs |->
                IF j \in Finished(w) THEN [jobs[j] EXCEPT !.status = "complete"] ELSE jobs[j]]
  /\ runs' = [runs EXCEPT ![w] = Idle]
  /\ UNCHANGED <<kind, batch, told, indexed>>

\* Anything may raise, the UPDATE or the call that completes the job too; a
\* record without a usable source always does. A completion that was committed
\* and whose answer was lost is JobLease's.
Raise(w) ==
  /\ runs[w].step \in {"register", "index", "finish"}
  /\ GoTo(w, "raised")
  /\ UNCHANGED <<kind, tableVars, indexed>>

\* fail of the lease module, or the UPDATE in claim_and_run_one's except.
Fail(w) ==
  /\ runs[w].step \in {"raised", "refused"}
  /\ jobs' = [jobs EXCEPT ![runs[w].job].status = "failed",
                          ![runs[w].job].attempts = @ + 1]
  /\ runs' = [runs EXCEPT ![w] = Idle]
  /\ UNCHANGED <<kind, batch, told, indexed>>

\* The lease of a remote worker lapses in time; a local one took none.
Die(w) ==
  /\ runs[w] # Idle
  /\ jobs' = [jobs EXCEPT ![runs[w].job].abandoned = (kind = "remote")]
  /\ runs' = [runs EXCEPT ![w] = Idle]
  /\ UNCHANGED <<kind, batch, told, indexed>>

Next ==
  \/ \E p \in Paths : Ingest(p)
  \/ \E c \in Clients : \/ \E m \in Manifests : PostBatch(c, m)
                        \/ CheckRecord(c) \/ CommitBatch(c) \/ AbortBatch(c)
  \/ \E w \in Workers : \/ Claim(w) \/ Register(w) \/ Index(w) \/ Finish(w)
                        \/ Raise(w) \/ Fail(w)     \/ Die(w)

Spec == Init /\ [][Next]_vars

-----------------------------------------------------------------------------
Rows == [by       : {"ingest", "batch", "register"},
         path     : Paths \cup {NoPath},
         tx       : Clients \cup {NoClient},
         hash     : Hashes \cup {NoHash},
         status   : {"queued", "running", "failed", "complete"},
         abandoned : BOOLEAN,
         attempts : 0..MaxAttempts,
         done     : {"nothing", "registered", "indexed"}]

\* The columns hold what they may hold, and nothing but a committed row is ever
\* worked on.
TypeOK ==
  /\ DOMAIN jobs \subseteq Ids
  /\ \A j \in DOMAIN jobs : jobs[j] \in Rows
  /\ \A w \in Workers : runs[w] = Idle \/ runs[w].job \in Committed
  /\ told \subseteq Paths
  /\ indexed \in [Hashes -> SUBSET Ids]

\* What a batch answered with 200 lists is in the table: no record is skipped on
\* the strength of a job that another batch then takes back.
AnsweredIsEnqueued ==
  \A p \in told : \E j \in Committed : jobs[j].by = "batch" /\ jobs[j].path = p

\* With remote workers the derived data of a video comes from one job, however
\* many were enqueued for the same bytes and whoever runs them when.
OneJobPerVideo ==
  kind = "remote" => \A h \in Hashes, i, j \in Ids :
    i \in indexed[h] /\ j \in indexed[h] => i = j

\* A complete row carries the hash of a video whose derived data was written.
CompleteIsIndexed ==
  \A j \in DOMAIN jobs : jobs[j].status = "complete" =>
    jobs[j].hash # NoHash /\ indexed[jobs[j].hash] # {}

\* "Re-ingesting the same bytes is a no-op" (ingest/__init__.py): a job does not
\* fail because its bytes were ingested before.
ReingestIsNoOp ==
  \A w \in Workers : AtStep(w, "refused") =>
    \A i \in RowsOf(Hash(w)) : jobs[i].status # "complete"
=============================================================================
