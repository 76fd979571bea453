# Kanomori: a TLA+ model

Kanomori finds moments in VTuber archives. Offline, *ingestion* turns each recording into
rows (transcript segments, frames, OCR text, scene spans, embeddings) and files (an SRT, frame
JPEGs); online, *search* ranks moments from those rows. A coordinator (FastAPI over PostgreSQL) keeps a
`jobs` table, and workers that come and go lease jobs over HTTP, run eight stages each, and push the
results back. Before that, an *organizer* brings order into the store the recordings come from. This
directory models all three, checks them with TLC, and proves every safety property that is checked
with TLAPS, for every number of workers, jobs, videos, requests and rows.

Paths below are relative to the repository root; `ingest/` and `api/` are in `src/kanomori/`.

## The system

| Part | State it keeps | Operations | Talks to |
|---|---|---|---|
| Lease protocol, `ingest/lease.py`, `api/jobs.py` | the `jobs` row: status, lease_epoch, lease_expires_at, attempts, stage_status | claim, heartbeat, push a stage, complete, fail | workers, by HTTP; one transaction each |
| Worker, `ingest/worker.py`, `ingest/coordinator_client.py` | job id, epoch, stages left; the `fenced` flag its heartbeat thread sets; a source cache | fetch, compute, push, complete, fail | coordinator, media source |
| Stages, `ingest/stages/*.py`, `ingest/artifacts.py` | files under `MEDIA_ROOT/<content_hash>` of the worker; rows and files at the coordinator | compute (worker), persist (coordinator) | each other, through files |
| Enqueueing, `api/app.py` | new `jobs` rows | POST /ingest, POST /ingest/batch | the table |
| Identity, `ingest/stages/register.py` | `content_hash` UNIQUE on `jobs` and `videos` | persist with and without a job id | the table |
| Single-machine loop, `worker.claim_and_run_one`, `pipeline.run_full` | the same table, without leases | claim, run, complete, fail | the table |
| Media source and cache, `media_source.py` | source files, read only | fetch, read manifest | worker, /ingest/batch |
| Source organizer, `source_organizer.py`, `source_webdav.py` | directory tree and manifest on WebDAV | plan, move files, replace the manifest | WebDAV |
| Subprocess runner, `subprocess_stream.py`, `kits_client.py` | the child, two pipes and their threads, the SRT and the log on disk | run KITS with a timeout, check what it left | `uv`, which runs KITS |
| Retrieval, `retrieval/`, `fusion.py`, search in `api/app.py` | none | query paths, fusion, merge, coverage, result page | tables that ingestion is writing |
| Evaluation, `evaluation.py` | none | rank of a hit, metrics | answers of retrieval |
| Models, OCR, configuration, pool, migrations, templates | caches and handles | | |

What is hard here: two threads per worker; requests that are handled after their sender gave up
or died, because the client has a timeout and the coordinator does not know it; leases that
lapse under a live worker; a push that is a transaction over a locked row with files written in
the middle; progress that is on record at the coordinator while the files it rests on are on some
worker's disk; batches that check for duplicates among committed rows; several jobs for the same
bytes; a store without locks; a subprocess of a subprocess on a shared pipe; searches made of
several SELECTs, each of which sees a later state of the index.

What makes each part correct:

* lease: one worker per epoch; recorded progress ordered, kept, recorded once; complete means
  all stages; bounded retries; every job comes to an end;
* stages: a resumed job ends up with the data of an uninterrupted one; rows and files agree;
* queue: no record is lost, one job writes a video, complete means indexed, ingesting the same
  bytes again is a no-op;
* source store: no video is lost, the manifest tells the truth; a worker computes from the video
  its job names;
* subprocess: a run ends and leaves a full log, and nobody writes the SRT it accepted (whose SRT it is, the
  code does not ask);
* index and search: frames and scenes follow the video; agreement between query paths wins; a
  hit can be opened, is scored by what was merged into it, and stays findable.

## Modules

| Module | What it is |
|---|---|
| `JobLease` | the lease protocol: table, workers with heartbeat threads, network |
| `JobLedger` | what the table promises to its readers, with no worker in it |
| `JobLeaseLedger` | the refinement mapping, and `ImplementsLedger` |
| `JobLeaseFair` | `JobLease` with counted mishaps and fairness, for liveness |
| `PoisonJob` | jobs no worker can finish: the retry limit and the claim order, unbounded in time |
| `Resume` | what the eight stages leave on disks and in tables when workers take a job from each other |
| `IngestQueue` | enqueueing, `content_hash`, and the two kinds of worker loop |
| `SourceOrganizer` | the source store, uploads, and organizers, call by call |
| `SourceCache` | `SourceOrganizer` composed with the workers that fetch what its manifest lists |
| `KitsRun` | one worker's transcribe stage, `run_logged`, `uv` and KITS |
| `Listings` | pure: what is sorted and what is filtered |
| `FrameTimeline` | pure: sampling plan, frame names, scene spans |
| `RankFusion` | pure: fusion, buckets and weights, audio windows, coverage, evaluation |
| `Moments` | one video on its way through the visual stages while searches read it; uses the three above |
| `JobLeaseProofs`, `ResumeProofs`, `IngestQueueProofs`, `SourceCacheProofs`, `KitsRunProofs`, `FrameTimelineProofs`, `RankFusionProofs`, `MomentsProofs` | the proofs about the module in the name; `JobLeaseProofs` also proves the refinement, `SourceCacheProofs` what holds of `SourceOrganizer` |
| `MCJobLease`, `MCPoisonJob`, `MCResume`, `MCIngestQueue`, `MCSourceCache`, `MCMoments` | instances for TLC |

`PROJECT.json` maps every definition to the lines it models.

### JobLease

A row is `status`, `epoch`, `lease` (NULL, live, lapsed: the only trace of wall-clock time),
`attempts`, `done` (stage_status) and `lock`. One SQL transaction is one action. The exception is
the push: `SELECT ... FOR UPDATE` and the check of the epoch are `BeginPush`, everything up to
`COMMIT` is `CommitPush` or `AbortPush`, and in between `lock` makes `ServeHeartbeat`,
`ServeComplete`, `ServeFail` and other pushes wait and `ServeClaim` skip the row.

A worker's `pc` is where `run_one_distributed` is. A call puts a request into `net`, where it may be
handled at any later time or lost (`LoseRequest`); the client never retries, so it is never
duplicated. `CallRaises` is the 30 s timeout, a broken connection or an error status: it may
happen while the request is still under way, and the `fail` that follows carries the same epoch. The
answer goes back in one step with the handling (`Answer`), to a sender that still waits for it;
an answer that gets lost is a `CallRaises`. `SendHeartbeat` is the thread: it runs beside the main
thread from the start of the stage loop to its end, and stops at the first 409. A claim's answer
is put into `session` at once, since nobody reads it before `ReadClaim`.

`PoisonJob` abstracts from epochs and network, so that nothing but the number of jobs is
bounded and "for ever" means for ever. `Resume` and `IngestQueue` abstract from the network for
the same reason a worker there is simply told whether it still holds the lease: who may
push is settled in `JobLease`.

### Resume

One job, its media (with or without video, a singing stream or not), the files on each worker's
disk, the rows and files of the coordinator. A stage's `compute` sets `result`, `Push` records it.
`PushRaises` is a push that is lost, rolled back after its files were written, or committed with
its answer lost. `by` remembers who computed what is on record; no program variable holds it. `decided`
and `decidedBy` remember what locate_media decided about the vocals and in which run, which the
program keeps in `ctx.separate` and nowhere else. `CompleteRaises` is a `complete` that raises and is
followed by `fail`.

### IngestQueue

Rows by id. `tx` says in which open batch a row was inserted: other transactions do not see it
(READ COMMITTED). The SELECT and the INSERT of a record are one action, because a commit between the
two is the same as one after the INSERT. `kind` is the deployment: remote workers or the
single-machine loop, over the same table. The stages after register are one step. `Raise` is a failure at
any step, the one that completes the job included; a completion that is committed and whose
answer is lost is in `JobLease`.

### SourceOrganizer and SourceCache

`store` maps a path (a loose name, or `<title>_<date>`) to the video there. An organizer's `pc` is
where `run_organizer` is, and each WebDAV call is one action; the language model answers anything,
also nothing usable. `Stop` may end a run at any call. MOVE carries `Overwrite: T` and so may
destroy; whether it does rests on HEAD and on `existing_paths`. Two variables are history:
`overlapped` (two organizers were at work at once) and `cut` (one stopped after a move). They say in
which case a property is not promised: the code has no lock, and no document says that two runs
may overlap. That a path of the manifest is one of a video (`RecordsDescribeTheirVideo`) holds
regardless.

`SourceCache` EXTENDS it and interleaves workers. A cache file knows whose bytes are in it (`of`), who
opened it last (`by`) and whether it was written to the end. `disturbed` is history again: a fetch
into the file was cut, or one worker found the file of another one that was not yet whole.
`ComputesFromItsSource` says that, apart from the three ways listed in it, a worker never computes
from anything but the whole of its own source. Each of the three does happen: the code looks at
`local.exists()` and at nothing else.

### KitsRun

`run_logged` starts `uv`, `uv` starts KITS, and KITS has the write ends of both pipes. A pipe holds
`PipeSize` lines; a KITS that wants to print more is blocked in `PrintLine` until `Printed`. `Pump` is one
line of one thread; a line that is not UTF-8 ends the thread. There are `MaxRuns` runs of the same
job, all with the same output path, and a KITS that was left behind by a run may still write. `orphaned`
is history: a run was over while its KITS was not, because the worker died, or because a timed-out run had
both its pumps dead and had nothing left to join.

### FrameTimeline, RankFusion, Moments

Time is in milliseconds, to which the code rounds; scores are exact, in units that every
`60 + rank` divides. `Moments` interleaves the single-machine loop, which runs one video through
frames, ocr, classify and image_embed (a stage is one transaction; a failure leaves the JPEGs of frames
behind, not its rows; a frame shows text or not, and rows that are replaced take their text along), with one search at a time: a SELECT per query path, then one per bucket for its scene,
then the answer. What a model says (a scene label, the rows that match and their
order) is any choice; what the code makes of it is computed by the operators of the two
pure modules, which are checked in the states that use them against definitions of
their own: `FusionHonoursAgreement`, `HitsAreTheBestMoments` (by `ScoreOf`),
`CoverageCountsWindows`, `SceneIsTheLastLabel`, `FramesFollowTheVideo`.

## Runs

| Run | Instance | Shows |
|---|---|---|
| `lease` | 1 job, 2 workers, 2 stages, 2 attempts, 3 leases, 2 requests in flight | eight invariants and `ImplementsLedger` |
| `lease_fair` | 1 job, 2 workers, 2 stages, 2 attempts, 1 mishap | `EveryJobSettles` |
| `poison` | 4 jobs (raises, finishes, raises, kills), 2 workers, 3 attempts | `OlderJobsSettle` |
| `poison_kills` | 1 job that kills its worker | `BrokenJobsAreDropped` is violated |
| `resume` | 2 workers, the real eight stages, 2 attempts, all kinds of media | local resumes are exact, rows and files agree, a song is transcribed from separated vocals unless its run resumed after locate_media |
| `resume_elsewhere` | the same | `ResumeIsExact` is violated |
| `queue` | 3 rows, 2 paths to the same bytes, 2 clients, 2 workers of either kind | answered records are kept, one job per video, complete means indexed |
| `queue_again` | 1 client, 1 worker | `ReingestIsNoOp` is violated |
| `sources` | 2 organizers, 2 videos, 2 names that may get one target, 2 workers on one machine | what organizers keep, what workers compute from |
| `kits` | 2 runs, pipes of 1 line, 3 lines printed | a run ends, its log is whole, and nobody writes the SRT it accepted |
| `kits_hang` | 1 run, 1 line | `TimeoutBoundsRun` is violated |
| `moments` | 3 videos (no picture; cuts either side of a sample; cuts close together and sound past the last picture), 2 scene labels, 3 transcript lines, 2 rows per query path | seven invariants and `SearchableStaysSearchable` |

Why the bounds suffice. In `lease`, two workers and three leases are the least in which a worker
loses a row, another one takes it, and the first takes it back with its old requests under way; two
stages are the least with an order; two requests in flight are a late call and a heartbeat or the
late call of somebody else (the proofs have no such bounds). `MaxEpoch` cuts behaviours, which
is harmless for safety. In `lease_fair` `MaxEpoch` and `MaxNet` are so large that they never bind
(two attempts and one mishap give at most three failed leases): were a bound to stop a claim, the
job would be stranded and the property would fail. In `queue`, three rows let two batches
overlap on a path, one of them roll back, and a single enqueue compete for the same bytes. In
`Resume` nothing is bounded but the workers and the attempts. In `sources`, two videos are the least that
can be given one target, and two workers on a machine the least that meet in a cache file; the two titles the
file names fall back to differ and are flattened to the same cache name. In `kits`, a pipe of one line is
full at once, three lines fill it while a pump is dead and still leave one for the other stream, and two runs
let one find what the other left. In `moments`, the interval (8 s), the tolerance (0.25 s), the bucket, `k = 60`
and the weights are those of the code. Two rows per path make lists that agree, disagree and
overlap, and more candidates than hits; the times lie on both sides of an interval, a bucket's edge at
4 s, and the tolerance, one cut exactly at it. Deadlock is checked except in `Resume`, whose one job ends, and in `KitsRun`, where a hung
KITS is one.

Fairness. `JobLeaseFair` assumes weak fairness of a worker's main thread, of the handling of what
is sent, of ending an open transaction, and of the lapse of a lease nobody renews: threads are
scheduled, PostgreSQL runs statements, and time passes. It does not assume that heartbeats are
sent, that stages succeed, or that a lease is kept. A *mishap* is what the deployment does not do
for ever: a death, a loss, a timeout on an answer that was coming, a lapse under a live holder;
it is counted, and their number bounded. A stage that never returns is excluded by the fairness of the
main thread; in the code such a stage keeps its lease for ever through its heartbeat. `PoisonJob`
assumes the same of claims, ends of runs and lapses. `KitsRun` assumes weak fairness of the threads, of the
timer, of `uv`, and of a KITS that is neither hung nor blocked: it exits in the end. It assumes
nothing of a KITS that hangs.

## What the violated properties say

* **A job that kills its worker is leased for ever** (`poison_kills`). Only `fail` counts an
  attempt; a lapse does not. As the oldest eligible row it also comes first every time.
* **A resume on another worker loses the visual data** (`resume_elsewhere`). OCR, classify and
  image_embed find no frames, report "skipped", and the empty results are recorded as done. If
  transcribe or parse_transcript is the next stage, it fails instead, because the WAV or the SRT is
  on another disk, and uses up an attempt.
* **Ingesting the same bytes again fails** (`queue_again`), at UNIQUE(content_hash). It also fails
  if the earlier job was dropped after register: those bytes can then no longer be ingested.
* **The timeout does not bound a transcription** (`kits_hang`). The kill reaches `uv` only; the join of
  the pump threads then waits for KITS, which holds the pipes. The heartbeat goes on meanwhile, so the
  job is never leased to anyone else. Without a hung KITS every run ends (`RunEnds`), unless a pump has died
  of a line that does not decode: its pipe then fills up and blocks KITS.

Where the code and a text about it part ways in a single assignment, a run would say no more than
reading does; these are noted here and are part of the models:

* a KITS that exits with 0 and writes nothing passes for successful if an earlier run of the job left an SRT,
  say one that was timed out after writing it: the output path is the same, and `kits_client.py:116-119` asks
  whether there is a non-empty file (`Usable`). `kits_client.py:66` says it "raises KitsError on a
  non-zero exit or if KITS produced no non-empty SRT", and `tests/unit/test_kits_client.py:123-124` has
  "Exit 0 but no SRT written", in an empty directory;
* a run that resumes after locate_media transcribes a sung stream without vocal separation
  (`ctx.separate` is on record nowhere, `worker.py:175`), though locate_media "decides whether to pass KITS
  `--separate`" (`locate_media.py:4-5`); `SingingIsSeparated` says it happens in no other way;
* a worker "that already fetched this source (e.g. a re-claimed job after a transient failure) reuses the
  on-disk copy" (`worker.py:158-159`), also when that failure was the fetch and the copy is cut
  off (`worker.py:329`), when another worker is still writing it, and when it is of another source
  whose name is flattened to the same one (`worker.py:163`); `ComputesFromItsSource` says there is no other way;
* the empty result of a skipped classify is not "a harmless no-op" (`worker.py:192`): its
  `stream_type` "chatting" overwrites the one that was asked for (`worker.py:202`, `classify.py:135`);
* the single-machine loop does not pass on the id of the row it claimed (`worker.py:100-108`), so register
  INSERTs a second one and the claimed row stays 'running' for ever (`IngestQueue.RegisterLocal`);
* "a crash resumes at the first non-done stage" (`pipeline.py:5`) is not so in that loop:
  `claim_one` never takes a 'running' row (`Moments.Die`);
* the KITS log is "always" persisted (`kits_client.py:99`), except on a timeout, which skips it;
* a distributed worker whose ffmpeg exits 0 without a JPEG, because the sound is longer than the
  picture, fails the frames stage at `worker.py:225` on every attempt; the single-machine loop
  goes on with the JPEGs it has (`FramesFollowTheVideo`);
* the last scene ends one *smallest* gap after the last frame (`classify.py:63`), so the end of
  a video may lie in no scene and is then ranked by the default profile;
* a clip of one segment has coverage 2: it is its own full text (`audio_query.py:53-59`).

Two facts that no document denies, and that `JobLedger` therefore has to allow: a job that is
failed may still gain a stage, or be finished, by a request handled late; and a complete job may
be charged a failure and leased again, when its worker gave up on the answer to `complete`.

What the passing properties excuse, where the model does what the code does and the property says that nothing
else goes wrong: `OrganizedIsListed`, an organizer that stopped between its moves and its manifest (what
it moved is then in no manifest, and the next run does not look there); `NoVideoLost`,
`ManifestGrowsFromBackup` and part of `RecordsDescribeTheirVideo`, organizers that overlap;
`LogIsWhole` and `RunEnds`, a pump that died (its lines are lost); `AcceptedSrtStays`, a KITS that outlived its
run; `ComputesFromItsSource` and `SingingIsSeparated`, the cases above.

## Proofs

Each component has its theorems in a module of their own, which EXTENDS it. They hold for every
value of the constants that meets the ASSUMEs of the component (sizes are positive, a loose name is
no target, the tolerance is smaller than the interval, lengths and times are naturals, the score unit is
a multiple of each `RRF_K + rank`, rankings are of transcript rows and no longer than the ranks that are
scored), from nothing else. Every safety invariant below is a consequence of an inductive one: `IInv` holds
initially, every action preserves it, and it implies the property. TLC has checked each `IInv`, and
`SInv` of the searches, on the run of its component.

| Module | Theorem | Property |
|---|---|---|
| `JobLeaseProofs` | `TypeCorrect` | `TypeOK` |
| | `MutualExclusion` | `OneHolder` |
| | `PushesHoldTheirRow` | `AdmittedPushHoldsRow` |
| | `PipelineOrder` | `StagesInOrder` |
| | `CompleteIsComplete` | `CompleteHasAllStages` |
| | `ChargesBounded` | `AttemptsBounded` |
| | `ProgressKept` | `NothingForgotten` |
| | `NoStageTwice` | `StageRecordedOnce` |
| | `Refinement` | `ImplementsLedger` |
| `IngestQueueProofs` | `QueueTypes` | `TypeOK` |
| | `AnsweredBatchesAreEnqueued` | `AnsweredIsEnqueued` |
| | `VideosAreIndexedOnce` | `OneJobPerVideo` |
| | `CompleteRowsAreIndexed` | `CompleteIsIndexed` |
| `ResumeProofs` | `ResumeTypes` | `TypeOK` |
| | `LocalResumesAreExact` | `LocalResumeIsExact` |
| | `TranscriptsAreTheStoredSrt` | `TranscriptIsTheStoredSrt` |
| | `ServedFramesAreThere` | `ServedFramesExist` |
| | `SingingStreamsAreSeparated` | `SingingIsSeparated` |
| `KitsRunProofs` | `KitsTypes` | `TypeOK` |
| | `RunsEndWithTheirProcesses` | `NothingRunsOn` |
| | `LogsAreWhole` | `LogIsWhole` |
| | `AcceptedSrtsStay` | `AcceptedSrtStays` |
| `SourceCacheProofs` | `VideosAreKept` | `NoVideoLost` |
| | `RecordsAreOfTheirVideos` | `RecordsDescribeTheirVideo` |
| | `OrganizedVideosAreListed` | `OrganizedIsListed` |
| | `ManifestsGrow` | `ManifestGrowsFromBackup` |
| | `CacheTypes` | `TypeOK` |
| | `ComputesAreFromTheirSource` | `ComputesFromItsSource` |
| | `SharedFetchesEndWhole` | `SharedFetchEndsWhole` |
| | `StoreIsOrganized` | the four of `SourceOrganizer`, with workers beside it |
| `FrameTimelineProofs` | `PlanFollowsTheVideo`, `SceneIsOfTheLastFrame`, `DominantHasMostFrames` | of the operators, for all arguments |
| `RankFusionProofs` | lemmas: what sorting, summing, flattening, fusion, buckets and windows give | of the operators, for all arguments |
| `MomentsProofs` | `FramesFollow` | `FramesFollowTheVideo` |
| | `ScenesFollowTheLabels` | `SceneIsTheLastLabel` |
| | `EmbeddingsStay` | `SearchableStaysSearchable` |
| | `AnswersOpen` | `HitsOpen` |
| | `BestMoments` | `HitsAreTheBestMoments` |
| | `Agreement` | `FusionHonoursAgreement` |
| | `CoverageCounted` | `CoverageCountsWindows` |
| | `MetricsOrdered` | `MetricsAreOrdered` |

### JobLease

None of the properties is inductive: what keeps them is what may still be in
flight. `IInv` adds, over `Pending` (the requests sent and not handled, and
the pushes whose transaction is open):

* `EpochsIssued`: no session or request has an epoch its row has not reached, so a claim's new epoch
  is nobody's;
* `OneSender`: an epoch of a row belongs to one worker, in sessions and in requests;
* `OnePush`, `PushesFit`: in an epoch at most one push is pending, it is its sender's next stage, it
  finds the earlier stages on record, and its own not yet if it can still pass the fence;
* `HolderKnows`, `NothingForgotten`: a holder's list of stages left is the truth, up to one push
  whose answer it has not read;
* `CompletesFit`: a `complete` is only under way for a row with every stage on record;
* `ChargesFit`: whatever may still charge the row leaves room for it: a `fail` that can pass the
  fence is the last thing its sender does in that epoch.

`StepKind` sorts the 25 actions into three kinds once: a step that sends a request (`Sent`), a claim
that is granted (`Grant`), and the rest, of which `Settles` says what it may do to a row and to a
worker. Each part of `IInv` is then preserved kind by kind. `TypeStep` and `SessionsOpenStep`,
on which `StepKind` rests, go through the actions one by one. `LedgerStep` shows each
step to be a step of the ledger or a stutter, under `IInv`.

### IngestQueue

That one job writes a video rests on `HashIsUnique` (the UNIQUE constraint), `HashesFit` (with
remote workers a row has the hash of its own path, or none), `IndexedByRow` (what was
derived for a hash comes from the row that has it) and `OneRunner` (a running row has one runner; rows
of the local loop's register have none). `RunsFit` and `DoneFits` say what a runner at a step and a row in a state have behind
them. `CheckedIsThere` is what a batch knows before it commits: the records it has been through are
in the table, its own or committed ones; a rollback takes its own away together with the batch.

### Resume

`HolderFits` and `StagesBehind` tie the workers to the record: the holder is at the stage after
it, and who recorded a stage has left it behind (or started anew). So a file that a recorded stage was
made from can only be written again by a worker that is before that stage, which is not the one that
recorded it: this is `SourcesKept`, and it is what the three properties about files need.
`ResultsFit` says what a result not yet pushed was computed from.

### KitsRun

`EndIsTheEnd`: a pump that has read to the end implies that nobody holds the pipe any more, so the
join of the pumps implies the end of KITS; a pump that died implies nothing, which is the exception in
`NothingRunsOn`. `Counted` accounts for each line: written to the log, in the pipe, or waiting to be
printed. `NoneLeftBehind`: as long as nothing was orphaned only the KITS of the run at hand is alive, and only
while `run_logged` is; so nobody is left to write an SRT that was accepted.

### SourceOrganizer and SourceCache

`PlacesFit` says of each organizer's plan, and of the manifest, that what it lists is at its place; a plan
is carried out in order, so its first `moved` entries are done. `Alone` is what an organizer that works
alone knows: the targets it has not yet reached are free and differ from each other, which is why
MOVE with `Overwrite: T` destroys nothing. `OneAtATime` uses it under `~overlapped`. `SourceCache` adds,
for each cache file, where its bytes come from (`FileFits`: of a path fetched to this disk that has
this cache name) and that a file still being written has a writer (`FetchFits`).
The invariant of the store is reused as it is: `StoreIsOrganized`.

### FrameTimeline

These are proofs about folds and CHOOSE over data of any size. `LeastNumber`, from the well-foundedness
of the naturals, gives induction over a *set* of numbers (`SetInduction`), which needs no operator as
parameter. `FoldExists` shows by it that the recursive function a fold of the library is
defined by exists; the fold then unfolds one element at a time (`PlanSteps`). `Places` shows that
ranks in a linear order are all taken, which makes `InOrder` a sorting (`Sorted`). On these rest:
the plan keeps `KeptOf` sample by sample (`KeepStep`) and hence `Follows`; a time lies in the span of
the last start before it (`SpansAt`).

### RankFusion

`BestFirst` is a sort by a key that several may have in common: `Places` gives a permutation, and
`BestFirstSorts` says that nothing stands before what is ahead of it, equals in their old order.
`SumSplits` takes any element out of a sum first, from which `SumsCompare` follows: a sum over more terms,
each as large, is as large, and larger if one term is. `FlattenFacts` says what is in a list of lists,
`FirstSeenFacts` that each element is kept once. With these, `FusionFacts` says that a fused ranking has
each row of its lists once, in the order of their scores, and two lemmas compare scores:

* `TwoListsBeatOne`: two ranks below `RRF_K` are worth more than half a first rank each, so a row that
  two lists have there beats a row that one list has, wherever;
* `AheadEverywhere`: a better rank in each list that has the other is worth more (`ContributionDrops`,
  which needs the unit to be divided without a rest).

`SameBucketIsNear` bounds the distance in a bucket, halves rounded either way. `BucketStateFacts` and
`WindowsAreCounted` are the same for clips: one vote per window, and as many windows as the clip has
segments, neighbours and, if any, itself.

### Moments

The invariant of the ingest, `IInv`, says that rows and JPEGs are those of the plan once frames is on record,
and what a stopped run left is of the plan before; and that spans are
made once, of frames still on disk. A retry recomputes the same plan: that is why it changes nothing.

The invariant of the searches, `SInv`, is about one that goes on while the tables change under it.
`RowsFit`: what can be found, an embedding or a text, is of a frame in `Kept`, those of the
plan that the stream reaches, which are there to stay from the end of frames on (`KeptGrows`). `SearchFits`
says of each step what the search has in hand: rows of its kind, no more than asked for per path; then the
candidates these make, and the hits of the first buckets with whatever scene they had when they were looked up
(`HitsOf`); then the best of all hits, and what evaluation makes of them (`AnswerOf`). The answers' properties
follow from it: `AnswerIsPlaced` says which bucket each hit comes from, `HitIsFound` that a row of the
search is at its moment, and `HitOfFacts` that its score is `ScoreOf` its candidates.

### What the proofs changed in the models

* `IngestQueue.Claim` had a CASE with overlapping arms, whose value TLC chose by their order;
  `StepAfter` says what `run_one_distributed` does.
* `SourceOrganizer` never said that a loose name is not `<title>_<date>`; `TargetsAssumption` does.
* `Moments.Moment` leaned on how UNION and `\cup` associate, which the two parsers read differently.
* `FusionHonoursAgreement` was said of all ranks, which a small instance cannot tell from the truth: past
  rank 60 the agreement of two paths loses to one first rank, and a caller may ask for that many
  rows. It now speaks of the first `RRF_K`. `MetricsAreOrdered` likewise took all who passed to be
  among the first five.
* `Moments` said nothing of what rankings hold; `AnswersAssumption` does.
* `RankFusion` and `Listings` select by position (`Picked`) and sort by a relation, because
  the provers cannot instantiate an operator that is an argument, and know nothing of `SelectSeq` or `@@`.

### Not proved

`EveryJobSettles`, `OlderJobsSettle` and `RunEnds` are liveness properties, which are beyond the prover.
`PoisonJob` has no other. The four properties the code violates are refuted by their runs.

## Not modelled

Neural models and OCR back ends (any answer they give is allowed), configuration, connection pool,
migrations and templates: no state that evolves, or I/O only. The singletons of `api/app.py` and the
pool of `db.py` are built lazily without a lock, which may build one twice and costs memory. Stage
results are abstract values in `Resume`: which worker's files they come from, not what they contain. Of
`--compute-only` only its use of the cache is modelled. `lease_seconds` and `now()` are abstracted into
`Lapse`. Tokens, logs and error texts are left out. `Moments` ingests by the single-machine loop; what
the distributed path adds, workers that take a job from each other, is in `Resume`.

## Plan

Every safety property of a run is a theorem. What could be added: bounds on the coverage and quality of a
hit against its windows, the scene of a hit (that of its bucket's first candidate, whose time may differ from the
hit's), the mean error of an evaluation, and a model of how `--compute-only` and leased workers share one disk.
