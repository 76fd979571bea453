------------------------------- MODULE Moments -------------------------------
(***************************************************************************)
(* One video on its way into the index, and searches that go on meanwhile. *)
(* The single-machine loop claims the job and takes it through the four    *)
(* visual stages, which meet on disk; a search is several SELECTs, each of *)
(* which sees what is committed by then.                                   *)
(*                                                                         *)
(* The transcript is in the tables from the start: parse_transcript comes  *)
(* before frames.  What the models answer (a label, which rows match a     *)
(* query and how well) is any choice.                                      *)
(***************************************************************************)
EXTENDS FrameTimeline, RankFusion

CONSTANTS
  Sources,      \* [duration, stream, cuts, texts]: length, end of the video stream,
                \* the times of its cuts, and those at which there is text in the picture
  SceneTypes,
  Video,        \* the one being ingested
  Transcript,   \* the transcript rows, of this video and of others
  AudioAnswers, \* what transcript search answers a window of a clip with
  Clips,        \* the segments the ASR makes of a clip
  Cases,        \* what eval queries expect
  PerPath,      \* k: rows per query path and hits per answer
  Window        \* DEFAULT_WINDOW of result_detail, in ms

ASSUME SourcesAssumption ==
  \A s \in Sources : s.duration \in Nat /\ s.stream \in Nat /\ s.cuts \subseteq Nat

\* No path ranks a row worse than MaxRank, nor does what two of them make.
ASSUME AnswersAssumption ==
  /\ IsFiniteSet(Transcript)
  /\ \A row \in Transcript : row.modality = "transcript" /\ row.ts \in Nat
  /\ AudioAnswers \subseteq Seq(Transcript)
  /\ \A answer \in AudioAnswers : Len(answer) <= MaxRank + 1
  /\ Clips \subseteq Seq({"speech", "filler", "blank"})
  /\ Cases \in Seq([expected : Nat, tolerance : Nat])
  /\ PerPath \in Nat /\ 2 * PerPath <= MaxRank + 1
  /\ Window \in Nat

VARIABLES
  source,
  status, running,            \* the jobs row, and whether the loop works on it
  recorded,                   \* how many of Stages are on record
  disk,                       \* names of the JPEGs
  frames, embedded, ocr,      \* timestamps with a frames row, with its embedding, with text
  label, segments, stream_type, \* what classify saw, scene_segments, videos.stream_type
  search                      \* the search under way or just answered

jobVars   == <<status, running>>
tableVars == <<frames, embedded, ocr, label, segments, stream_type>>
vars      == <<source, jobVars, recorded, disk, tableVars, search>>

Stages == <<"frames", "ocr", "classify", "image_embed">>

Idle == [kind |-> "none", step |-> "idle", clip |-> <<>>, lists |-> <<>>,
         candidates |-> <<>>, todo |-> <<>>, hits |-> <<>>, results |-> <<>>]

Init ==
  /\ source \in Sources
  /\ status = "queued" /\ running = FALSE /\ recorded = 0
  /\ disk = {} /\ frames = {} /\ embedded = {} /\ ocr = {}
  /\ label = <<>> /\ segments = {} /\ stream_type = NoScene
  /\ search = Idle

-----------------------------------------------------------------------------
(* The loop.                                                               *)

\* As often as the job fails: the bound on that is PoisonJob's.
Claim ==
  /\ ~running
  /\ status \in {"queued", "failed"}
  /\ status' = "running" /\ running' = TRUE
  /\ UNCHANGED <<source, recorded, disk, tableVars, search>>

\* Mutant: frames is run again though it is on record.
RunsFromScratch(stage) ==
  /\ running
  /\ \/ recorded < Len(Stages) /\ Stages[recorded + 1] = stage
     \/ stage = "frames" /\ recorded > 0
  /\ recorded' = IF stage = "frames" THEN 1 ELSE recorded + 1
  /\ UNCHANGED <<source, jobVars, search>>

\* run_full skips what is on record, and commits a stage with its mark.
Runs(stage) ==
  /\ running
  /\ recorded < Len(Stages) /\ Stages[recorded + 1] = stage
  /\ recorded' = recorded + 1
  /\ UNCHANGED <<source, jobVars, search>>

Plan == plan_sample_timestamps(source.duration, source.cuts)

\* ffmpeg exits 0 without a JPEG where the video stream has ended.
Extracted(times) == {frame_path_for(t) : t \in {u \in times : u < source.stream}}

\* The old rows go, and what refers to them with them.
RunFrames ==
  /\ Runs("frames")
  /\ disk' = disk \cup Extracted(ToSet(Plan))
  /\ IF Plan = <<>> THEN UNCHANGED <<frames, embedded, ocr>>
     ELSE frames' = ToSet(Plan) /\ embedded' = {} /\ ocr' = {}
  /\ UNCHANGED <<label, segments, stream_type>>

OnDisk == frames_on_disk(disk)

\* The JPEGs that show text; if one of them had no row, the stage would raise.
WithText == ToSet(OnDisk) \cap source.texts

RunOcr ==
  /\ Runs("ocr")
  /\ WithText \subseteq frames
  /\ ocr' = IF OnDisk = <<>> THEN ocr ELSE WithText
  /\ UNCHANGED <<disk, frames, embedded, label, segments, stream_type>>

RunClassify ==
  /\ Runs("classify")
  /\ IF OnDisk = <<>> THEN UNCHANGED <<label, segments, stream_type>>
     ELSE \E seen \in [ToSet(OnDisk) -> SceneTypes] :
            /\ label' = seen
            /\ segments' = build_scene_segments(OnDisk, seen)
            /\ stream_type' = dominant(OnDisk, seen)
  /\ UNCHANGED <<disk, frames, embedded, ocr>>

\* A JPEG without a row is passed over.
RunImageEmbed ==
  /\ Runs("image_embed")
  /\ embedded' = embedded \cup (ToSet(OnDisk) \cap frames)
  /\ UNCHANGED <<disk, frames, ocr, label, segments, stream_type>>

\* A stage raises, or the process dies: rows are rolled back, the JPEGs that
\* frames has written stay.
Stops ==
  /\ running /\ running' = FALSE
  /\ \E n \in 0..(IF recorded = 0 THEN Len(Plan) ELSE 0) :
       disk' = disk \cup Extracted({Plan[i] : i \in 1..n})
  /\ UNCHANGED <<source, recorded, tableVars, search>>

Raise == Stops /\ status' = "failed"

\* The row stays 'running', and claim_one never takes it again.
Die == Stops /\ UNCHANGED status

Complete ==
  /\ running /\ recorded = Len(Stages)
  /\ status' = "complete" /\ running' = FALSE
  /\ UNCHANGED <<source, recorded, disk, tableVars, search>>

Ingest ==
  \/ Claim \/ RunFrames \/ RunOcr \/ RunClassify \/ RunImageEmbed
  \/ Raise \/ Die \/ Complete

-----------------------------------------------------------------------------
(* A search.                                                               *)

VisualRow(ts) == [modality |-> "visual", id |-> ts, video |-> Video, ts |-> ts]

OcrRow(ts) == [modality |-> "ocr", id |-> ts, video |-> Video, ts |-> ts]

Orders(rows, lengths) ==
  {order \in UNION {[1..n -> rows] : n \in lengths} : IsInjective(order)}

\* The rows that match, best first: any of them.
Matching(rows) == Orders(rows, 0..Min({PerPath, Cardinality(rows)}))

\* The nearest rows: there are always some.
Nearest(rows) == Orders(rows, {Min({PerPath, Cardinality(rows)})})

\* What the next SELECT of this kind of search may return.
Answers(kind, asked) ==
  CASE kind = "audio" -> AudioAnswers
    [] kind = "transcript" /\ asked = 0 -> Matching(Transcript)
    [] kind = "transcript" /\ asked = 1 -> Nearest(Transcript)
    [] kind = "screenshot" /\ asked = 0 -> Matching({VisualRow(t) : t \in embedded})
    [] kind = "screenshot" /\ asked = 1 -> Nearest({VisualRow(t) : t \in embedded})
    [] kind = "screenshot" /\ asked = 2 -> Matching({OcrRow(t) : t \in ocr})

Paths(s) ==
  CASE s.kind = "transcript" -> 2
    [] s.kind = "screenshot" -> 3
    [] s.kind = "audio" -> Len(build_windows(s.clip))

Candidates(s) ==
  CASE s.kind = "transcript" -> transcript_candidates(s.lists[1], s.lists[2])
    [] s.kind = "screenshot" ->
         screenshot_candidates(s.lists[1], s.lists[2], s.lists[3], PerPath)
    [] s.kind = "audio" -> FlattenSeq([w \in DOMAIN s.lists |-> Reranked(s.lists[w])])

\* POST /search/..., or the same from a page; nothing was heard in a clip that is
\* all blank, which is a 422.
Ask ==
  /\ search.step = "idle"
  /\ \/ \E kind \in {"transcript", "screenshot"} :
          search' = [Idle EXCEPT !.kind = kind, !.step = "select"]
     \/ \E clip \in Clips :
          /\ \E i \in DOMAIN clip : clip[i] # "blank"
          /\ search' = [Idle EXCEPT !.kind = "audio", !.step = "select", !.clip = clip]
  /\ UNCHANGED <<source, jobVars, recorded, disk, tableVars>>

Select ==
  /\ search.step = "select"
  /\ Len(search.lists) < Paths(search)
  /\ \E rows \in Answers(search.kind, Len(search.lists)) :
       search' = [search EXCEPT !.lists = Append(@, rows)]
  /\ UNCHANGED <<source, jobVars, recorded, disk, tableVars>>

\* The candidates are put into buckets.
Group ==
  /\ search.step = "select"
  /\ Len(search.lists) = Paths(search)
  /\ search' = [search EXCEPT !.step = "merge", !.candidates = Candidates(search),
                              !.todo = Buckets(Candidates(search))]
  /\ UNCHANGED <<source, jobVars, recorded, disk, tableVars>>

SceneAt(video, ts) == IF video = Video THEN scene_at(segments, ts) ELSE NoScene

WithScene(hit, scene) ==
  [video |-> hit.video, ts |-> hit.ts, scene_type |-> scene,
   coverage |-> hit.coverage, quality |-> hit.quality, evidence |-> hit.evidence]

AudioHit(key) ==
  LET hit == bucket_state([w \in DOMAIN search.lists |-> Reranked(search.lists[w])], key)
  IN  WithScene(hit, SceneAt(hit.video, hit.ts))

MomentHit(key) ==
  LET anchor == Anchor(search.candidates, key)
  IN  hit_of(search.candidates, key, SceneAt(anchor.row.video, anchor.row.ts))

\* The scene of each bucket is a SELECT of its own.
LookUp ==
  /\ search.step = "merge" /\ search.todo # <<>>
  /\ LET key == Head(search.todo)
     IN  search' = [search EXCEPT
           !.todo = Tail(@),
           !.hits = Append(@, IF search.kind = "audio" THEN AudioHit(key) ELSE MomentHit(key))]
  /\ UNCHANGED <<source, jobVars, recorded, disk, tableVars>>

\* Which of the hits have the greater key.
Better(hits) ==
  {pair \in (DOMAIN hits) \X (DOMAIN hits) :
     LET h == hits[pair[1]]
         g == hits[pair[2]]
     IN  IF search.kind = "audio"
           THEN h.coverage > g.coverage \/ (h.coverage = g.coverage /\ h.quality > g.quality)
           ELSE h.score > g.score}

Respond ==
  /\ search.step = "merge" /\ search.todo = <<>>
  /\ LET hits == Top(PerPath, BestFirst(search.hits, Better(search.hits)))
     IN  search' = [search EXCEPT !.step = "answered", !.hits = hits,
                      !.results = [i \in DOMAIN Cases |-> evaluate_hit(hits, Cases[i], PerPath)]]
  /\ UNCHANGED <<source, jobVars, recorded, disk, tableVars>>

Close ==
  /\ search.step = "answered"
  /\ search' = Idle
  /\ UNCHANGED <<source, jobVars, recorded, disk, tableVars>>

Search == Ask \/ Select \/ Group \/ LookUp \/ Respond \/ Close

Next == Ingest \/ Search

Spec == Init /\ [][Next]_vars

-----------------------------------------------------------------------------
(* What a page shows of a hit.                                             *)

\* The rows around the moment.
result_detail(video, ts) ==
  LET Near(t) == Apart(t, ts) <= Window
  IN  [nearby_transcript |-> {row \in Transcript : row.video = video /\ Near(row.ts)},
       preview_frames |-> {t \in frames : video = Video /\ Near(t)},
       ocr_context |-> {t \in ocr : video = Video /\ Near(t)}]

\* The transcript line on the card may be any of the nearest.
hit_snippets(video, ts) ==
  LET rows == {row \in Transcript : row.video = video}
  IN  {row \in rows : \A r \in rows : Apart(row.ts, ts) <= Apart(r.ts, ts)}

-----------------------------------------------------------------------------
Answered == search.step = "answered"

\* The frames on record follow the video: none are closer than the tolerance,
\* every cut has one within the tolerance before it, no stretch without one is
\* longer than an interval and a tolerance, and the JPEGs are those of the frames
\* that the video stream reaches, also after a run that stopped half way, so that
\* ocr and image_embed find the row of every JPEG.
FramesFollowTheVideo ==
  recorded > 0 =>
    /\ \A f, g \in frames : f < g => g - f > Tolerance
    /\ \A cut \in source.cuts : cut < source.duration =>
         \E f \in frames : f <= cut /\ cut - f <= Tolerance
    /\ \A f \in frames : \/ f + Interval + Tolerance >= source.duration
                         \/ \E g \in frames : f < g /\ g <= f + Interval + Tolerance
    /\ source.duration > 0 => 0 \in frames
    /\ ToSet(OnDisk) = {f \in frames : f < source.stream}

Moment == (UNION {{f, f + 1, f + tail_interval(OnDisk)} : f \in ToSet(OnDisk)})
          \cup {f - 1 : f \in ToSet(OnDisk) \ {0}}

\* At any time the scene is what classify saw in the last frame up to it, until a
\* tail after the last frame; no two spans overlap; and the stream type is a label
\* no other has more frames of.
SceneIsTheLastLabel ==
  segments # {} =>
    LET seen == ToSet(OnDisk)
        Showing(t) == Max({f \in seen : f <= t})
        FramesOf(type) == {f \in seen : label[f] = type}
    IN  /\ \A t \in Moment :
             scene_at(segments, t) =
               IF t < Max(seen) + tail_interval(OnDisk) THEN label[Showing(t)] ELSE NoScene
        /\ \A t \in Moment :
             Cardinality({s \in segments : s.start <= t /\ t < s.end}) <= 1
        /\ \A type \in SceneTypes :
             Cardinality(FramesOf(type)) <= Cardinality(FramesOf(stream_type))

\* A hit can be opened: around a moment found by its picture there is a frame row
\* at just that time whose thumbnail exists, around one found by what was said a
\* line that starts there, which is also the one on the card.
HitsOpen ==
  Answered => \A i \in DOMAIN search.hits :
    LET hit == search.hits[i]
        detail == result_detail(hit.video, hit.ts)
    IN  IF search.kind = "screenshot"
          THEN hit.ts \in detail.preview_frames /\ frame_path_for(hit.ts) \in disk
          ELSE /\ \E row \in detail.nearby_transcript : row.ts = hit.ts
               /\ \A row \in hit_snippets(hit.video, hit.ts) : row.ts = hit.ts

\* What a search has found of this video once it finds again: no retry takes an
\* embedding away.
SearchableStaysSearchable == [][embedded \subseteq embedded']_vars

\* A bucket's score by definition: for each modality its best candidate.
ScoreOf(bucket, scene) ==
  SumFunction([m \in Modalities |->
    LET of == {c \in bucket : c.row.modality = m}
    IN  IF of = {} THEN 0
        ELSE Contribution(profile(scene)[m], Min({c.rank : c \in of}))])

\* The answer to a transcript or screenshot search is best first and no longer
\* than asked for; a hit's score is that of the candidates merged into it, of
\* which a second one of the same modality adds nothing; a candidate is no further
\* than a bucket from its hit; and what was left out does not beat what is there.
HitsAreTheBestMoments ==
  Answered /\ search.kind \in {"transcript", "screenshot"} =>
    LET hits == search.hits
        all == ToSet(search.candidates)
        Bucket_of(hit) == {c \in all : bucket_key(c) = <<hit.video, RoundHalfEven(hit.ts)>>}
        shown == UNION {Bucket_of(hits[i]) : i \in DOMAIN hits}
    IN  /\ Len(hits) <= PerPath
        /\ \A i, j \in DOMAIN hits : i < j => hits[i].score >= hits[j].score
        /\ \A i \in DOMAIN hits :
             /\ hits[i].score = ScoreOf(Bucket_of(hits[i]), hits[i].scene_type)
             /\ \A c \in Bucket_of(hits[i]) : Apart(c.row.ts, hits[i].ts) <= Bucket
        /\ all # shown => Len(hits) = PerPath

\* Fusion: a row is a candidate once; one that two query paths found among their
\* first RRF_K comes before one that a single path found, whatever their ranks there;
\* and one that is ahead in every path that has the other stays ahead.
FusionHonoursAgreement ==
  search.step = "merge" /\ search.kind \in {"transcript", "screenshot"} =>
    LET candidates == search.candidates
        In(l, x) == Contains(search.lists[l], x)
        Paths_of(x) == {l \in DOMAIN search.lists : In(l, x)}
        High(x) == {l \in Paths_of(x) : RankIn(search.lists[l], x) < RRF_K}
    IN  \A i, j \in DOMAIN candidates :
          LET x == candidates[i].row
              y == candidates[j].row
          IN  i < j =>
                /\ x # y
                /\ Cardinality(High(y)) > 1 => Cardinality(Paths_of(x)) > 1
                /\ ~\A l \in DOMAIN search.lists :
                     In(l, x) => In(l, y) /\ RankIn(search.lists[l], y) < RankIn(search.lists[l], x)

\* A clip asks for each segment that is no filler, for each two of them that were
\* said in one go, and for all of them.  A hit counts each of these windows that
\* found something in its bucket once, and shows one line for it; more windows win.
CoverageCountsWindows ==
  Answered /\ search.kind = "audio" =>
    LET Spoken(n) == n \in DOMAIN search.clip /\ search.clip[n] = "speech"
        asked == {{n} : n \in {i \in DOMAIN search.clip : Spoken(i)}}
                 \cup {{n, n + 1} : n \in {i \in DOMAIN search.clip : Spoken(i) /\ Spoken(i + 1)}}
    IN  /\ Len(search.lists) = Cardinality(asked) + (IF asked = {} THEN 0 ELSE 1)
        /\ \A i \in DOMAIN search.hits :
             LET hit == search.hits[i]
                 found == {w \in DOMAIN search.lists : \E row \in ToSet(search.lists[w]) :
                             row.video = hit.video /\ RoundHalfEven(row.ts) = RoundHalfEven(hit.ts)}
             IN  /\ hit.coverage = Cardinality(found)
                 /\ Len(hit.evidence) = hit.coverage
                 /\ \A j \in 1..(i - 1) : search.hits[j].coverage >= hit.coverage

\* Evaluation: a case passes if a hit is near enough, at rank one if the first is,
\* among five if one of these is; so the mean reciprocal rank lies between the share
\* of first places and the share that passed.
MetricsAreOrdered ==
  Answered =>
    LET metrics == aggregate_metrics(search.results)
        Near(i, r) == Apart(search.hits[r].ts, Cases[i].expected) <= Cases[i].tolerance
        passed == {i \in DOMAIN Cases : \E r \in DOMAIN search.hits : Near(i, r)}
        first == {i \in passed : Near(i, 1)}
        five == {i \in passed : \E r \in DOMAIN search.hits : r <= 5 /\ Near(i, r)}
    IN  /\ metrics.top1 = Cardinality(first) /\ metrics.top5 = Cardinality(five)
        /\ metrics.top1 * Unit <= metrics.mrr
        /\ metrics.mrr <= Cardinality(passed) * Unit
        /\ metrics.mrr = Cardinality(passed) * Unit <=> first = passed
=============================================================================
