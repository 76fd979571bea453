---------------------------- MODULE MomentsProofs ----------------------------
(***************************************************************************)
(* Proofs about Moments, for every set of videos, every answer of the      *)
(* models, every length of the rankings and any number of failures.        *)
(***************************************************************************)
EXTENDS Moments, RankFusionProofs

-----------------------------------------------------------------------------
(* The inductive invariant.                                                *)

\* Before frames is on record nothing is in the tables, and what a stopped run has
\* left on disk is of the plan; from then on rows and JPEGs are those of the plan.
FramesFit ==
  /\ source \in Sources
  /\ recorded \in 0..Len(Stages)
  /\ recorded = 0 => frames = {} /\ embedded = {} /\ disk \subseteq Extracted(ToSet(Plan))
  /\ recorded > 0 => frames = ToSet(Plan) /\ disk = Extracted(ToSet(Plan))

\* The spans are made once, of the frames that are still on disk.
ScenesFit ==
  segments # {} =>
    /\ recorded > 2 /\ OnDisk # <<>>
    /\ segments = build_scene_segments(OnDisk, label)
    /\ stream_type = dominant(OnDisk, label)

IInv == FramesFit /\ ScenesFit

-----------------------------------------------------------------------------
(* The plan and the JPEGs of it.                                           *)

LEMMA PlanFits ==
  ASSUME source \in Sources
  PROVE  /\ Plan \in Seq(Nat) /\ ToSet(Plan) \in SUBSET Nat /\ IsFiniteSet(ToSet(Plan))
         /\ Follows(ToSet(Plan), source.duration, source.cuts)
  <1>1. source.duration \in Nat /\ source.cuts \in SUBSET Nat
    BY SourcesAssumption
  <1>2. Plan \in Seq(Nat) /\ Follows(ToSet(Plan), source.duration, source.cuts)
    BY <1>1, PlanFollowsTheVideo DEF Plan
  <1>3. ToSet(Plan) \in SUBSET Nat
    BY <1>2 DEF ToSet
  <1>4. \A f \in ToSet(Plan) : f <= source.duration
    BY <1>1, <1>2, <1>3 DEF Follows
  <1>5. IsFiniteSet(ToSet(Plan))
    <2> DEFINE F == ToSet(Plan)
    <2> HIDE DEF F
    <2>1. F \in SUBSET Nat /\ \A f \in F : f <= source.duration
      BY <1>3, <1>4 DEF F
    <2>2. QED
      BY <1>1, <2>1, FS_BoundedSetOfNaturals DEF F
  <1>6. QED
    BY <1>2, <1>3, <1>5

\* Once frames is on record, the frames on disk are those of the plan that the
\* stream reaches, in order; if there are any, the first is at 0.
LEMMA DiskFits ==
  ASSUME source \in Sources, disk = Extracted(ToSet(Plan))
  PROVE  /\ ToSet(OnDisk) = {f \in ToSet(Plan) : f < source.stream}
         /\ OnDisk # <<>> => Ascending(OnDisk) /\ OnDisk[1] = 0
  <1> DEFINE F == {f \in ToSet(Plan) : f < source.stream}
  <1>1. source.duration \in Nat /\ source.stream \in Nat
    BY SourcesAssumption
  <1>2. /\ ToSet(Plan) \in SUBSET Nat /\ IsFiniteSet(ToSet(Plan))
        /\ Follows(ToSet(Plan), source.duration, source.cuts)
    BY PlanFits
  <1>3. F \in SUBSET Nat /\ IsFiniteSet(F)
    <2>1. F \in SUBSET ToSet(Plan)
      OBVIOUS
    <2> HIDE DEF F
    <2>2. QED
      BY <1>2, <2>1, FS_Subset
  <1>4. disk = {frame_path_for(t) : t \in F}
    BY DEF Extracted
  <1>5. F # {} => 0 \in F
    <2> SUFFICES ASSUME NEW f \in F PROVE 0 \in F
      OBVIOUS
    <2>1. f \in Nat /\ f < source.duration /\ f < source.stream
      BY <1>2 DEF Follows
    <2>2. 0 \in ToSet(Plan)
      BY <1>1, <1>2, <2>1 DEF Follows
    <2>3. QED
      BY <1>1, <2>1, <2>2
  <1> HIDE DEF F
  <1>6. OnDisk = InOrder(F)
    BY <1>3, <1>4, FramesOnDisk DEF OnDisk
  <1>7. /\ OnDisk \in Seq(F) /\ DOMAIN OnDisk = 1..Cardinality(F) /\ Cardinality(F) \in Nat
        /\ Len(OnDisk) = Cardinality(F)
        /\ \A i, j \in 1..Cardinality(F) : i < j => OnDisk[i] < OnDisk[j]
        /\ \A x \in F : \E i \in 1..Cardinality(F) : OnDisk[i] = x
        /\ ToSet(OnDisk) = F
    BY <1>3, <1>6, Sorted
  <1>8. ASSUME OnDisk # <<>> PROVE Ascending(OnDisk) /\ OnDisk[1] = 0
    <2>1. OnDisk \in Seq(Nat)
      <3>1. ASSUME NEW i \in 1..Len(OnDisk) PROVE OnDisk[i] \in Nat
        <4>1. OnDisk[i] \in F
          BY <1>7
        <4>2. QED
          BY <1>3, <4>1
      <3>2. QED
        BY <1>7, <3>1
    <2>2. Ascending(OnDisk)
      BY <1>7, <1>8, <2>1 DEF Ascending
    <2>3. 1 \in DOMAIN OnDisk /\ OnDisk[1] \in F
      BY <1>7, <1>8
    <2>4. PICK i \in 1..Cardinality(F) : OnDisk[i] = 0
      BY <1>5, <1>7, <2>3
    <2>5. i = 1 \/ OnDisk[1] < OnDisk[i]
      BY <1>7, <2>3
    <2>6. OnDisk[1] \in Nat
      BY <1>3, <2>3
    <2>7. QED
      BY <2>2, <2>4, <2>5, <2>6
  <1>9. QED
    BY <1>7, <1>8 DEF F

\* What a stopped run leaves on disk is of the plan.
LEMMA StoppedRunsArePartOfThePlan ==
  ASSUME source \in Sources, NEW n \in 0..Len(Plan)
  PROVE  Extracted({Plan[i] : i \in 1..n}) \subseteq Extracted(ToSet(Plan))
  <1>1. Plan \in Seq(Nat)
    BY PlanFits
  <1>2. {Plan[i] : i \in 1..n} \subseteq ToSet(Plan)
    BY <1>1 DEF ToSet
  <1>3. QED
    BY <1>2 DEF Extracted

-----------------------------------------------------------------------------
(* Every step keeps the invariant.                                         *)

LEMMA InitFits == Init => IInv
  <1> SUFFICES ASSUME Init PROVE IInv
    OBVIOUS
  <1>1. FramesFit
    BY DEF Init, FramesFit, Stages
  <1>2. QED
    BY <1>1 DEF Init, IInv, ScenesFit

LEMMA SearchKeeps ==
  IInv /\ UNCHANGED <<source, recorded, disk, tableVars>> => IInv'
  BY DEF IInv, FramesFit, ScenesFit, tableVars, Plan, OnDisk, Extracted

LEMMA RunFramesKeeps == IInv /\ RunFrames => IInv'
  <1> SUFFICES ASSUME IInv, RunFrames PROVE IInv'
    OBVIOUS
  <1>1. /\ recorded = 0 /\ recorded' = 1 /\ source' = source
        /\ disk' = disk \cup Extracted(ToSet(Plan))
    <2>1. recorded \in 0..4
      BY DEF IInv, FramesFit, Stages
    <2>2. recorded < 4 /\ Stages[recorded + 1] = "frames"
      BY DEF RunFrames, Runs, Stages
    <2>3. recorded = 0
      BY <2>1, <2>2 DEF Stages
    <2>4. QED
      BY <2>3 DEF RunFrames, Runs
  <1>2. source \in Sources /\ frames = {} /\ disk \subseteq Extracted(ToSet(Plan))
    BY <1>1 DEF IInv, FramesFit
  <1>3. Plan' = Plan /\ Extracted(ToSet(Plan))' = Extracted(ToSet(Plan))
    BY <1>1 DEF Plan, Extracted
  <1>4. frames' = ToSet(Plan)
    <2>1. CASE Plan = <<>>
      <3>1. frames' = {}
        BY <1>2, <2>1 DEF RunFrames
      <3>2. ToSet(Plan) = {}
        BY <2>1 DEF ToSet
      <3>3. QED
        BY <3>1, <3>2
    <2>2. CASE Plan # <<>>
      BY <2>2 DEF RunFrames
    <2>3. QED
      BY <2>1, <2>2
  <1>5. FramesFit'
    BY <1>1, <1>2, <1>3, <1>4 DEF FramesFit, Stages
  <1>6. ScenesFit'
    BY <1>1 DEF RunFrames, IInv, ScenesFit
  <1>7. QED
    BY <1>5, <1>6 DEF IInv

LEMMA RunOcrKeeps == IInv /\ RunOcr => IInv'
  <1> SUFFICES ASSUME IInv, RunOcr PROVE IInv'
    OBVIOUS
  <1>1. /\ recorded = 1 /\ recorded' = 2
        /\ UNCHANGED <<source, disk, frames, embedded, label, segments, stream_type>>
    <2>1. recorded \in 0..4
      BY DEF IInv, FramesFit, Stages
    <2>2. recorded < 4 /\ Stages[recorded + 1] = "ocr"
      BY DEF RunOcr, Runs, Stages
    <2>3. recorded = 1
      BY <2>1, <2>2 DEF Stages
    <2>4. QED
      BY <2>3 DEF RunOcr, Runs
  <1>2. FramesFit'
    BY <1>1 DEF IInv, FramesFit, Plan, Extracted, Stages
  <1>3. ScenesFit'
    BY <1>1 DEF IInv, ScenesFit
  <1>4. QED
    BY <1>2, <1>3 DEF IInv

LEMMA RunClassifyKeeps == IInv /\ RunClassify => IInv'
  <1> SUFFICES ASSUME IInv, RunClassify PROVE IInv'
    OBVIOUS
  <1>1. /\ recorded = 2 /\ recorded' = 3
        /\ UNCHANGED <<source, disk, frames, embedded, ocr>>
    <2>1. recorded \in 0..4
      BY DEF IInv, FramesFit, Stages
    <2>2. recorded < 4 /\ Stages[recorded + 1] = "classify"
      BY DEF RunClassify, Runs, Stages
    <2>3. recorded = 2
      BY <2>1, <2>2 DEF Stages
    <2>4. QED
      BY <2>3 DEF RunClassify, Runs
  <1>2. FramesFit'
    BY <1>1 DEF IInv, FramesFit, Plan, Extracted, Stages
  <1>3. ScenesFit'
    <2>1. OnDisk' = OnDisk
      BY <1>1 DEF OnDisk
    <2>2. CASE OnDisk = <<>>
      BY <1>1, <2>2 DEF RunClassify, IInv, ScenesFit
    <2>3. CASE OnDisk # <<>>
      <3>1. /\ segments' = build_scene_segments(OnDisk, label')
            /\ stream_type' = dominant(OnDisk, label')
        BY <2>3 DEF RunClassify
      <3>2. QED
        BY <1>1, <2>1, <2>3, <3>1 DEF ScenesFit
    <2>4. QED
      BY <2>2, <2>3
  <1>4. QED
    BY <1>2, <1>3 DEF IInv

LEMMA RunImageEmbedKeeps == IInv /\ RunImageEmbed => IInv'
  <1> SUFFICES ASSUME IInv, RunImageEmbed PROVE IInv'
    OBVIOUS
  <1>1. /\ recorded = 3 /\ recorded' = 4
        /\ UNCHANGED <<source, disk, frames, ocr, label, segments, stream_type>>
    <2>1. recorded \in 0..4
      BY DEF IInv, FramesFit, Stages
    <2>2. recorded < 4 /\ Stages[recorded + 1] = "image_embed"
      BY DEF RunImageEmbed, Runs, Stages
    <2>3. recorded = 3
      BY <2>1, <2>2 DEF Stages
    <2>4. QED
      BY <2>3 DEF RunImageEmbed, Runs
  <1>2. FramesFit'
    BY <1>1 DEF IInv, FramesFit, Plan, Extracted, Stages
  <1>3. ScenesFit'
    BY <1>1 DEF IInv, ScenesFit, OnDisk
  <1>4. QED
    BY <1>2, <1>3 DEF IInv

LEMMA StopsKeeps == IInv /\ Stops => IInv'
  <1> SUFFICES ASSUME IInv, Stops PROVE IInv'
    OBVIOUS
  <1>1. UNCHANGED <<source, recorded, tableVars>>
    BY DEF Stops
  <1>2. PICK n \in 0..(IF recorded = 0 THEN Len(Plan) ELSE 0) :
          disk' = disk \cup Extracted({Plan[i] : i \in 1..n})
    BY DEF Stops
  <1>3. Plan' = Plan /\ Extracted(ToSet(Plan))' = Extracted(ToSet(Plan))
    BY <1>1 DEF Plan, Extracted
  <1>4. source \in Sources /\ recorded \in 0..4
    BY DEF IInv, FramesFit, Stages
  <1>5. CASE recorded = 0
    <2>1. disk \subseteq Extracted(ToSet(Plan)) /\ frames = {} /\ embedded = {}
      BY <1>5 DEF IInv, FramesFit
    <2>2. disk' \subseteq Extracted(ToSet(Plan))
      BY <1>2, <1>4, <1>5, <2>1, StoppedRunsArePartOfThePlan
    <2>3. FramesFit'
      BY <1>1, <1>3, <1>4, <1>5, <2>1, <2>2 DEF FramesFit, Stages, tableVars
    <2>4. ScenesFit'
      BY <1>1, <1>5 DEF IInv, ScenesFit, tableVars
    <2>5. QED
      BY <2>3, <2>4 DEF IInv
  <1>6. CASE recorded # 0
    <2>1. n = 0
      BY <1>2, <1>6
    <2>2. {Plan[i] : i \in 1..n} = {}
      BY <2>1
    <2>3. disk' = disk
      BY <1>2, <2>2 DEF Extracted
    <2>4. QED
      BY <1>1, <2>3, SearchKeeps
  <1>7. QED
    BY <1>5, <1>6

LEMMA StepFits == IInv /\ [Next]_vars => IInv'
  <1> SUFFICES ASSUME IInv, [Next]_vars PROVE IInv'
    OBVIOUS
  <1>1. CASE Claim
    BY <1>1, SearchKeeps DEF Claim
  <1>2. CASE RunFrames
    BY <1>2, RunFramesKeeps
  <1>3. CASE RunOcr
    BY <1>3, RunOcrKeeps
  <1>4. CASE RunClassify
    BY <1>4, RunClassifyKeeps
  <1>5. CASE RunImageEmbed
    BY <1>5, RunImageEmbedKeeps
  <1>6. CASE Raise \/ Die
    BY <1>6, StopsKeeps DEF Raise, Die
  <1>7. CASE Complete
    BY <1>7, SearchKeeps DEF Complete
  <1>8. CASE Search
    <2>1. UNCHANGED <<source, recorded, disk, tableVars>>
      BY <1>8 DEF Search, Ask, Select, Group, LookUp, Respond, Close
    <2>2. QED
      BY <2>1, SearchKeeps
  <1>9. CASE UNCHANGED vars
    BY <1>9, SearchKeeps DEF vars, tableVars
  <1>10. QED
    BY <1>1, <1>2, <1>3, <1>4, <1>5, <1>6, <1>7, <1>8, <1>9 DEF Next, Ingest

\* Rows, JPEGs and spans stay what the plan and the labels made them, whichever
\* stage fails how often.
THEOREM MomentsInvariant == Spec => []IInv
  BY InitFits, StepFits, PTL DEF Spec

-----------------------------------------------------------------------------
(* What follows.                                                           *)

\* The frames on record follow the video, and the JPEGs are those of the frames that
\* the stream reaches: run_frames, run_full.
THEOREM FramesFollow == Spec => []FramesFollowTheVideo
  <1>1. ASSUME IInv PROVE FramesFollowTheVideo
    <2> SUFFICES ASSUME recorded > 0 PROVE FramesFollowTheVideo
      BY DEF FramesFollowTheVideo
    <2>1. source \in Sources /\ frames = ToSet(Plan) /\ disk = Extracted(ToSet(Plan))
      BY <1>1 DEF IInv, FramesFit
    <2>2. Follows(frames, source.duration, source.cuts)
      BY <2>1, PlanFits
    <2>3. ToSet(OnDisk) = {f \in frames : f < source.stream}
      BY <2>1, DiskFits
    <2>4. QED
      BY <2>2, <2>3 DEF FramesFollowTheVideo, Follows
  <1>2. QED
    BY <1>1, MomentsInvariant, PTL

\* At any time the scene is what classify saw in the last frame up to it, no two
\* spans overlap, and no label has more frames than the stream type:
\* build_scene_segments, scene_at, run_classify.
THEOREM ScenesFollowTheLabels == Spec => []SceneIsTheLastLabel
  <1>1. ASSUME IInv PROVE SceneIsTheLastLabel
    <2> SUFFICES ASSUME segments # {} PROVE SceneIsTheLastLabel
      BY DEF SceneIsTheLastLabel
    <2> DEFINE seen == ToSet(OnDisk)
               at(t) == {s \in segments : s.start <= t /\ t < s.end}
               FramesOf(type) == {f \in seen : label[f] = type}
    <2>1. /\ recorded > 0 /\ OnDisk # <<>>
          /\ segments = build_scene_segments(OnDisk, label)
          /\ stream_type = dominant(OnDisk, label)
      BY <1>1 DEF IInv, FramesFit, ScenesFit
    <2>2. source \in Sources /\ disk = Extracted(ToSet(Plan))
      BY <1>1, <2>1 DEF IInv, FramesFit
    <2>3. Ascending(OnDisk) /\ OnDisk[1] = 0
      BY <2>1, <2>2, DiskFits
    <2>4. Moment \subseteq Nat
      <3>1. tail_interval(OnDisk) \in Nat
        BY <2>3, TailIsPositive
      <3>2. seen \subseteq Nat
        BY <2>3 DEF Ascending, ToSet
      <3>3. \A f \in seen : {f, f + 1, f + tail_interval(OnDisk)} \subseteq Nat
        BY <3>1, <3>2
      <3>4. \A f \in seen \ {0} : f - 1 \in Nat
        BY <3>2
      <3>5. UNION {{f, f + 1, f + tail_interval(OnDisk)} : f \in seen} \subseteq Nat
        BY <3>3
      <3>6. {f - 1 : f \in seen \ {0}} \subseteq Nat
        BY <3>4
      <3>7. QED
        BY ONLY <3>5, <3>6 DEF Moment
    <2>5. ASSUME NEW t \in Moment
          PROVE  /\ scene_at(segments, t) = IF t < Max(seen) + tail_interval(OnDisk)
                                              THEN label[Max({f \in seen : f <= t})] ELSE NoScene
                 /\ Cardinality(at(t)) <= 1
      <3>1. t \in Nat /\ OnDisk[1] <= t
        BY <2>3, <2>4
      <3>2. /\ scene_at(segments, t) = IF t < Max(seen) + tail_interval(OnDisk)
                                         THEN label[Max({f \in seen : f <= t})] ELSE NoScene
            /\ at(t) = {} \/ \E s \in at(t) : at(t) = {s}
        <4> DEFINE spans == build_scene_segments(OnDisk, label)
                   atOf == {s \in spans : s.start <= t /\ t < s.end}
        <4>1. /\ scene_at(spans, t) = IF t < Max(seen) + tail_interval(OnDisk)
                                        THEN label[Max({f \in seen : f <= t})] ELSE NoScene
              /\ atOf = {} \/ \E s \in atOf : atOf = {s}
          BY <2>3, <3>1, SceneIsOfTheLastFrame
        <4>2. segments = spans /\ at(t) = atOf
          BY <2>1
        <4> HIDE DEF spans, atOf, at, seen
        <4>3. QED
          BY <4>1, <4>2
      <3> HIDE DEF at
      <3>3. CASE at(t) = {}
        BY <3>2, <3>3, FS_EmptySet
      <3>4. ASSUME NEW s, at(t) = {s} PROVE Cardinality(at(t)) <= 1
        BY <3>4, FS_Singleton
      <3>5. QED
        BY <3>2, <3>3, <3>4
    <2>6. ASSUME NEW type \in SceneTypes
          PROVE  Cardinality(FramesOf(type)) <= Cardinality(FramesOf(stream_type))
      BY <2>1, <2>3, DominantHasMostFrames
    <2>7. QED
      BY <2>5, <2>6 DEF SceneIsTheLastLabel
  <1>2. QED
    BY <1>1, MomentsInvariant, PTL

\* No step takes an embedding away, a retry neither: run_image_embed, run_frames.
THEOREM EmbeddingsStay == Spec => SearchableStaysSearchable
  <1>1. ASSUME IInv, [Next]_vars PROVE [embedded \subseteq embedded']_vars
    <2>1. CASE RunFrames
      <3>1. recorded = 0
        <4>1. recorded \in 0..4
          BY <1>1 DEF IInv, FramesFit, Stages
        <4>2. recorded < 4 /\ Stages[recorded + 1] = "frames"
          BY <2>1 DEF RunFrames, Runs, Stages
        <4>3. QED
          BY <4>1, <4>2 DEF Stages
      <3>2. embedded = {}
        BY <1>1, <3>1 DEF IInv, FramesFit
      <3>3. QED
        BY <3>2
    <2>2. CASE RunImageEmbed
      BY <2>2 DEF RunImageEmbed
    <2>3. CASE \/ Claim \/ RunOcr \/ RunClassify \/ Raise \/ Die \/ Complete \/ Search
      BY <2>3 DEF Claim, RunOcr, RunClassify, Raise, Die, Stops, Complete, Search, Ask,
                  Select, Group, LookUp, Respond, Close, tableVars
    <2>4. CASE UNCHANGED vars
      BY <2>4
    <2>5. QED
      BY <1>1, <2>1, <2>2, <2>3, <2>4 DEF Next, Ingest
  <1>2. QED
    BY <1>1, MomentsInvariant, PTL DEF Spec, SearchableStaysSearchable

-----------------------------------------------------------------------------
(* The inductive invariant of searches.                                    *)

Kept == IF recorded = 0 THEN {} ELSE {f \in ToSet(Plan) : f < source.stream}

\* What can be found is a frame that is there to stay.
RowsFit == embedded \subseteq Kept /\ ocr \subseteq Kept

LabelsFit == segments # {} => label \in [ToSet(OnDisk) -> SceneTypes]

Rows(kind) ==
  IF kind = "screenshot" THEN {VisualRow(t) : t \in Kept} \cup {OcrRow(t) : t \in Kept}
  ELSE Transcript

Scenes == SceneTypes \cup {NoScene}

HitFor(s, key, scene) ==
  IF s.kind = "audio"
    THEN WithScene(bucket_state([w \in DOMAIN s.lists |-> Reranked(s.lists[w])], key), scene)
    ELSE hit_of(s.candidates, key, scene)

\* The hits of the first buckets, each with some scene.
HitsOf(s, hits) ==
  \E scenes \in [1..Len(hits) -> Scenes] :
    hits = [i \in 1..Len(hits) |-> HitFor(s, Buckets(s.candidates)[i], scenes[i])]

ListsFit(s) ==
  /\ s.lists \in Seq(Seq(Rows(s.kind))) /\ Len(s.lists) <= Paths(s)
  /\ s.kind # "audio" => \A l \in DOMAIN s.lists : Len(s.lists[l]) <= PerPath
  /\ s.kind = "audio" => s.clip \in Clips

Grouped(s) == Len(s.lists) = Paths(s) /\ s.candidates = Candidates(s)

MergeFits(s) ==
  /\ Grouped(s)
  /\ Len(s.hits) \in Nat /\ HitsOf(s, s.hits)
  /\ Len(s.hits) + Len(s.todo) = Len(Buckets(s.candidates))
  /\ s.todo = SubSeq(Buckets(s.candidates), Len(s.hits) + 1, Len(Buckets(s.candidates)))

\* made are the hits of all buckets.
AnswerOf(s, made) ==
  /\ s.hits = Top(PerPath, BestFirst(made, Better(made)))
  /\ s.results = [i \in DOMAIN Cases |-> evaluate_hit(s.hits, Cases[i], PerPath)]

AnswerFits(s) ==
  /\ Grouped(s)
  /\ \E scenes \in [DOMAIN Buckets(s.candidates) -> Scenes] :
       AnswerOf(s, [i \in DOMAIN Buckets(s.candidates) |->
                      HitFor(s, Buckets(s.candidates)[i], scenes[i])])

IsSearch(s) ==
  s = [kind |-> s.kind, step |-> s.step, clip |-> s.clip, lists |-> s.lists,
       candidates |-> s.candidates, todo |-> s.todo, hits |-> s.hits, results |-> s.results]

SearchFits ==
  /\ IsSearch(search)
  /\ search.step \in {"idle", "select", "merge", "answered"}
  /\ search.step = "idle" => search = Idle
  /\ search.step # "idle" => search.kind \in {"transcript", "screenshot", "audio"} /\ ListsFit(search)
  /\ search.step = "select" => search.hits = <<>>
  /\ search.step = "merge" => MergeFits(search)
  /\ search.step = "answered" => AnswerFits(search)

SInv == RowsFit /\ LabelsFit /\ SearchFits

-----------------------------------------------------------------------------
(* The hits.                                                               *)

\* The candidates of a bucket.
Of(candidates, key) == {c \in ToSet(candidates) : bucket_key(c) = key}

\* One of them is at ts.
At(candidates, key, ts) == \E c \in Of(candidates, key) : c.row.ts = ts

\* A hit is at a candidate of its bucket, and scores what its modalities score.
IsHitOf(hit, candidates, key, scene) ==
  /\ hit.video = key[1] /\ hit.scene_type = scene
  /\ hit.score \in Nat /\ hit.score = ScoreOf(Of(candidates, key), scene)
  /\ At(candidates, key, hit.ts)

LEMMA HitOfFacts ==
  ASSUME NEW R, \A row \in R : row.modality \in Modalities,
         NEW candidates \in Seq([row : R, rank : Nat]), NEW key, NEW scene,
         NEW c0 \in ToSet(candidates), bucket_key(c0) = key
  PROVE  IsHitOf(hit_of(candidates, key, scene), candidates, key, scene)
  <1> DEFINE C == [row : R, rank : Nat]
             of == {c \in ToSet(candidates) : bucket_key(c) = key}
             bucket == InBucket(candidates, key)
             n == Len(bucket)
             w(m) == profile(scene)[m]
             con == [i \in 1..n |-> Contribution(w(bucket[i].row.modality), bucket[i].rank)]
             top == {i \in 1..n : \A j \in 1..n : con[j] <= con[i]}
             why(m) == {con[i] : i \in {j \in 1..n : bucket[j].row.modality = m}}
             best == Min(top)
             score == SumFunction([m \in Modalities |-> Max(why(m) \cup {0})])
  <1>1. bucket \in Seq(C) /\ ToSet(bucket) = of
    BY InBucketFacts
  <1>2. n \in Nat /\ DOMAIN bucket = 1..n /\ \A i \in 1..n : bucket[i] \in C
    <2> HIDE DEF bucket, C
    <2>1. QED
      BY <1>1
  <1>3. hit_of(candidates, key, scene) =
          [video |-> key[1], ts |-> bucket[best].row.ts, scene_type |-> scene, score |-> score]
    <2>1. DOMAIN bucket = 1..n
      BY <1>2
    <2>2. top = {i \in DOMAIN bucket : \A j \in DOMAIN bucket :
                   Contribution(profile(scene)[bucket[j].row.modality], bucket[j].rank)
                     <= Contribution(profile(scene)[bucket[i].row.modality], bucket[i].rank)}
      BY <2>1
    <2>3. \A m : why(m) = {Contribution(profile(scene)[bucket[i].row.modality], bucket[i].rank) :
                             i \in {j \in DOMAIN bucket : bucket[j].row.modality = m}}
      BY <2>1
    <2> HIDE DEF top, why, con, bucket
    <2>4. QED
      BY <2>2, <2>3 DEF hit_of, bucket
  <1>4. n # 0
    <2>1. of # {}
      OBVIOUS
    <2> HIDE DEF of, bucket
    <2>2. QED
      BY <1>1, <1>2, <2>1 DEF ToSet
  <1>5. con \in [1..n -> Nat]
    <2>1. ASSUME NEW i \in 1..n
          PROVE  Contribution(w(bucket[i].row.modality), bucket[i].rank) \in Nat
      <3>1. bucket[i].rank \in Nat /\ bucket[i].row.modality \in Modalities
        BY <1>2
      <3> HIDE DEF bucket
      <3>2. w(bucket[i].row.modality) \in Nat
        BY <3>1, WeightsAreNat
      <3>3. bucket[i].rank <= bucket[i].rank
        BY <3>1
      <3> HIDE DEF w
      <3>4. QED
        BY <3>1, <3>2, <3>3, ContributionFalls
    <2>2. QED
      BY <2>1
  <1> HIDE DEF of, bucket, n, C
  <1>6. best \in 1..n
    <2> DEFINE values == {con[i] : i \in 1..n}
    <2>1. values \in SUBSET Nat /\ values # {} /\ IsFiniteSet(values)
      <3>1. IsFiniteSet(1..n)
        BY <1>2, FS_Interval
      <3>2. con \in Surjection(1..n, values)
        <4>1. con \in [1..n -> values]
          BY <1>5
        <4>2. \A v \in values : \E i \in 1..n : con[i] = v
          OBVIOUS
        <4> HIDE DEF con, values
        <4>3. QED
          BY <4>1, <4>2 DEF Surjection
      <3>3. 1 \in 1..n
        BY <1>2, <1>4
      <3>4. values \in SUBSET Nat /\ con[1] \in values
        BY <1>5, <3>3
      <3> HIDE DEF con, values
      <3>5. IsFiniteSet(values)
        BY <3>1, <3>2, FS_Surjection
      <3>6. QED
        BY <3>4, <3>5
    <2>2. PICK v \in values : \A u \in values : u <= v
      <3> HIDE DEF values
      <3>1. QED
        BY <2>1, FiniteHasGreatest
    <2>3. PICK i \in 1..n : con[i] = v
      BY <2>2
    <2>4. \A j \in 1..n : con[j] <= con[i]
      BY <2>2, <2>3
    <2>5. top \in SUBSET Nat /\ top # {}
      <3>1. 1..n \subseteq Nat
        BY <1>2
      <3> HIDE DEF con
      <3>2. i \in top /\ top \subseteq 1..n
        BY <2>4
      <3> HIDE DEF top
      <3>3. QED
        BY <3>1, <3>2
    <2> HIDE DEF top
    <2>6. best \in top
      BY <2>5, MinOf
    <2>7. QED
      BY <2>6 DEF top
  <1>7. \E c \in of : bucket[best].row.ts = c.row.ts
    <2>1. bucket[best] \in of
      BY <1>1, <1>2, <1>6 DEF ToSet
    <2>2. QED
      BY <2>1
  <1>8. ASSUME NEW m \in Modalities
        PROVE  LET ofm == {c \in of : c.row.modality = m}
                   larger == Max(why(m) \cup {0})
               IN  /\ larger \in Nat
                   /\ larger = IF ofm = {} THEN 0
                               ELSE Contribution(w(m), Min({c.rank : c \in ofm}))
    <2> DEFINE ofm == {c \in of : c.row.modality = m}
               ranks == {c.rank : c \in ofm}
               S == why(m) \cup {0}
    <2>1. w(m) \in Nat
      BY WeightsAreNat
    <2>2. why(m) = {Contribution(w(m), r) : r \in ranks}
      <3>1. ofm = {bucket[i] : i \in {j \in 1..n : bucket[j].row.modality = m}}
        BY <1>1, <1>2 DEF ToSet
      <3>2. ranks = {bucket[i].rank : i \in {j \in 1..n : bucket[j].row.modality = m}}
        <4> DEFINE I == {j \in 1..n : bucket[j].row.modality = m}
        <4>1. ofm = {bucket[i] : i \in I}
          BY <3>1
        <4> HIDE DEF ofm, I
        <4>2. \A x \in ranks : \E i \in I : x = bucket[i].rank
          BY ONLY <4>1 DEF ranks
        <4>3. \A i \in I : bucket[i].rank \in ranks
          BY ONLY <4>1 DEF ranks
        <4> HIDE DEF ranks
        <4>4. ranks = {bucket[i].rank : i \in I}
          BY ONLY <4>2, <4>3
        <4>5. QED
          BY <4>4 DEF I
      <3>3. \A i \in {j \in 1..n : bucket[j].row.modality = m} :
              con[i] = Contribution(w(m), bucket[i].rank)
        OBVIOUS
      <3> HIDE DEF con, ranks, w
      <3>4. QED
        BY ONLY <3>2, <3>3
    <2>3. ranks \in SUBSET Nat
      BY <1>1, <1>2 DEF ToSet, C
    <2>4. CASE ofm = {}
      <3>1. S = {0}
        BY <2>2, <2>4
      <3>2. S \in SUBSET Nat /\ 0 \in S /\ \A k \in S : k <= 0
        <4> HIDE DEF S
        <4>1. QED
          BY ONLY <3>1
      <3> DEFINE none == 0
      <3> HIDE DEF S, none
      <3>3. Max(S) = none
        BY <3>2, MaxIs DEF none
      <3>4. QED
        BY <2>4, <3>3 DEF S, none
    <2>5. CASE ofm # {}
      <3> DEFINE r == Min(ranks)
                 v == Contribution(w(m), r)
      <3>1. ranks # {}
        BY <2>5
      <3> HIDE DEF w, ofm, why
      <3>2. r \in ranks /\ \A s \in ranks : r <= s
        <4> HIDE DEF ranks
        <4>1. QED
          BY <2>3, <3>1, MinOf
      <3>3. \A s \in ranks : /\ Contribution(w(m), s) \in Nat
                             /\ Contribution(w(m), s) <= v /\ v \in Nat
        <4> SUFFICES ASSUME NEW s \in ranks
                     PROVE  /\ Contribution(w(m), s) \in Nat
                            /\ Contribution(w(m), s) <= v /\ v \in Nat
          OBVIOUS
        <4>1. r \in Nat /\ s \in Nat /\ r <= s
          BY <2>3, <3>2
        <4> HIDE DEF r
        <4>2. QED
          BY <2>1, <4>1, ContributionFalls
      <3> HIDE DEF ranks, r
      <3>4. S \in SUBSET Nat /\ v \in S /\ \A k \in S : k <= v
        BY <2>2, <3>2, <3>3
      <3> HIDE DEF S, v
      <3>5. Max(S) = v
        BY <3>4, MaxIs
      <3>6. v \in Nat
        BY <3>4
      <3>7. QED
        BY <2>5, <3>5, <3>6 DEF S, v, r, ranks, ofm
    <2>6. QED
      BY <2>4, <2>5
  <1> DEFINE f == [m \in Modalities |-> Max(why(m) \cup {0})]
  <1>9. f \in [Modalities -> Nat]
    BY <1>8
  <1>10. IsFiniteSet(Modalities)
    <2>1. Modalities = ({"transcript"} \cup {"ocr"}) \cup {"visual"}
      BY DEF Modalities
    <2>2. IsFiniteSet({"transcript"} \cup {"ocr"})
      BY FS_Singleton, FS_AddElement
    <2>3. QED
      BY <2>1, <2>2, FS_AddElement
  <1>11. score = ScoreOf(of, scene)
    <2>1. f = [m \in Modalities |-> LET ofm == {c \in of : c.row.modality = m}
                                    IN  IF ofm = {} THEN 0
                                        ELSE Contribution(profile(scene)[m], Min({c.rank : c \in ofm}))]
      BY <1>8
    <2> HIDE DEF f
    <2>2. SumFunction(f) = ScoreOf(of, scene)
      BY <2>1 DEF ScoreOf
    <2>3. QED
      BY <2>2 DEF f
  <1>12. score \in Nat
    <2>1. SumFunction(f) \in Nat
      <3> HIDE DEF f
      <3>1. QED
        BY <1>9, <1>10, SumIsNat
    <2>2. QED
      BY <2>1
  <1>13. ScoreOf(of, scene) = ScoreOf(Of(candidates, key), scene)
    BY DEF of, Of
  <1>14. At(candidates, key, bucket[best].row.ts)
    BY <1>7 DEF of, Of, At
  <1> HIDE DEF score, best
  <1>15. QED
    BY <1>3, <1>11, <1>12, <1>13, <1>14 DEF IsHitOf

\* What is grouped are rows the search has found, with ranks.
LEMMA CandidatesAreRanked ==
  ASSUME NEW s, NEW R, s.lists \in Seq(Seq(R)), Len(s.lists) = Paths(s),
         s.kind \in {"transcript", "screenshot", "audio"}
  PROVE  /\ Candidates(s) \in Seq([row : R, rank : Nat])
         /\ s.kind # "audio" =>
              /\ Len(Candidates(s)) <= Len(reciprocal_rank_fusion(s.lists))
              /\ \A i \in 1..Len(Candidates(s)) :
                   Candidates(s)[i] = [row |-> reciprocal_rank_fusion(s.lists)[i], rank |-> i - 1]
         /\ s.kind = "audio" =>
              /\ [w \in DOMAIN s.lists |-> Reranked(s.lists[w])] \in Seq(Seq([row : R, rank : Nat]))
              /\ ToSet(Candidates(s)) = {c \in [row : R, rank : Nat] :
                    \E w \in DOMAIN s.lists : c \in ToSet(Reranked(s.lists[w]))}
  <1> DEFINE C == [row : R, rank : Nat]
             fused == reciprocal_rank_fusion(s.lists)
             lists == [w \in DOMAIN s.lists |-> Reranked(s.lists[w])]
  <1>1. fused \in Seq(R) /\ Len(fused) \in Nat
    <2>1. fused \in Seq(R)
      BY FusionFacts
    <2> HIDE DEF fused
    <2>2. QED
      BY <2>1
  <1>2. /\ Reranked(fused) \in Seq(C) /\ Len(Reranked(fused)) = Len(fused)
        /\ \A i \in 1..Len(fused) : Reranked(fused)[i] = [row |-> fused[i], rank |-> i - 1]
    <2> HIDE DEF fused
    <2>1. QED
      BY <1>1, RerankedFacts
  <1>3. CASE s.kind = "transcript"
    <2>1. Len(s.lists) = 2
      BY <1>3 DEF Paths
    <2>2. s.lists = <<s.lists[1], s.lists[2]>>
      BY <2>1
    <2>3. Candidates(s) = Reranked(fused)
      BY <1>3, <2>2 DEF Candidates, transcript_candidates
    <2> HIDE DEF fused, C
    <2>4. QED
      BY <1>1, <1>2, <1>3, <2>3 DEF fused, C
  <1>4. CASE s.kind = "screenshot"
    <2>1. Len(s.lists) = 3
      BY <1>4 DEF Paths
    <2>2. s.lists = <<s.lists[1], s.lists[2], s.lists[3]>>
      BY <2>1
    <2>3. Candidates(s) = Top(PerPath, Reranked(fused))
      BY <1>4, <2>2 DEF Candidates, screenshot_candidates
    <2>4. PerPath \in Nat
      BY AnswersAssumption
    <2> DEFINE all == Reranked(fused)
    <2> HIDE DEF fused, C, all
    <2>5. /\ Top(PerPath, all) \in Seq(C) /\ Len(Top(PerPath, all)) <= Len(all)
          /\ \A i \in 1..Len(Top(PerPath, all)) : Top(PerPath, all)[i] = all[i]
      BY <1>2, <2>4, TopFacts DEF all
    <2>6. Len(Top(PerPath, all)) \in Nat
      BY <2>5
    <2>7. \A i \in 1..Len(Top(PerPath, all)) : all[i] = [row |-> fused[i], rank |-> i - 1]
      BY <1>1, <1>2, <2>5, <2>6 DEF all
    <2>8. QED
      BY <1>2, <1>4, <2>3, <2>5, <2>7 DEF fused, C, all
  <1>5. CASE s.kind = "audio"
    <2>1. lists \in Seq(Seq(C)) /\ DOMAIN lists = DOMAIN s.lists
      <3>1. DOMAIN s.lists = 1..Len(s.lists) /\ Len(s.lists) \in Nat
        OBVIOUS
      <3>2. ASSUME NEW w \in DOMAIN s.lists PROVE Reranked(s.lists[w]) \in Seq(C)
        <4>1. s.lists[w] \in Seq(R)
          OBVIOUS
        <4>2. QED
          BY <4>1, RerankedFacts
      <3> HIDE DEF C
      <3>3. QED
        BY <3>1, <3>2
    <2>2. Candidates(s) = FlattenSeq(lists)
      BY <1>5 DEF Candidates
    <2>3. /\ FlattenSeq(lists) \in Seq(C)
          /\ ToSet(FlattenSeq(lists)) = {c \in C : \E w \in DOMAIN lists : c \in ToSet(lists[w])}
      <3> HIDE DEF lists, C
      <3>1. QED
        BY <2>1, FlattenFacts
    <2>4. QED
      BY <1>5, <2>1, <2>2, <2>3
  <1>6. QED
    BY <1>3, <1>4, <1>5

-----------------------------------------------------------------------------
(* What can be found stays.                                                *)

LEMMA KeptFacts ==
  ASSUME IInv
  PROVE  /\ Kept \in SUBSET Nat /\ IsFiniteSet(Kept)
         /\ Kept \subseteq frames
         /\ \A t \in Kept : frame_path_for(t) \in disk
         /\ recorded > 0 => ToSet(OnDisk) = Kept
  <1>1. source \in Sources /\ recorded \in 0..4
    BY DEF IInv, FramesFit, Stages
  <1>2. source.stream \in Nat /\ ToSet(Plan) \in SUBSET Nat /\ IsFiniteSet(ToSet(Plan))
    BY <1>1, PlanFits, SourcesAssumption
  <1>3. Kept \in SUBSET ToSet(Plan)
    BY DEF Kept
  <1>4. Kept \in SUBSET Nat /\ IsFiniteSet(Kept)
    <2> DEFINE P == ToSet(Plan)
    <2>1. P \in SUBSET Nat /\ IsFiniteSet(P) /\ Kept \in SUBSET P
      BY <1>2, <1>3
    <2> HIDE DEF P
    <2>2. QED
      BY <2>1, FS_Subset
  <1>5. CASE recorded = 0
    BY <1>4, <1>5 DEF Kept
  <1>6. CASE recorded > 0
    <2>1. frames = ToSet(Plan) /\ disk = Extracted(ToSet(Plan))
      BY <1>6 DEF IInv, FramesFit
    <2>2. Kept = {f \in ToSet(Plan) : f < source.stream}
      BY <1>6 DEF Kept
    <2>3. ToSet(OnDisk) = Kept
      BY <1>1, <2>1, <2>2, DiskFits
    <2>4. \A t \in Kept : frame_path_for(t) \in disk
      BY <2>1, <2>2 DEF Extracted
    <2>5. QED
      BY <1>4, <2>1, <2>2, <2>3, <2>4
  <1>7. QED
    BY <1>1, <1>5, <1>6

\* What is kept once is kept on.
LEMMA KeptGrows ==
  ASSUME IInv, [Next]_vars
  PROVE  Kept \subseteq Kept' /\ (source' = source) /\ recorded' \in Nat
  <1>1. recorded \in 0..4 /\ recorded' \in 0..4
    <2>1. IInv'
      BY StepFits
    <2>2. QED
      BY <2>1 DEF IInv, FramesFit, Stages
  <1>2. source' = source /\ (recorded' = recorded \/ recorded' = recorded + 1)
    BY <1>1 DEF Next, Ingest, Search, Claim, RunFrames, RunOcr, RunClassify, RunImageEmbed, Runs,
           Raise, Die, Stops, Complete, Ask, Select, Group, LookUp, Respond, Close, vars
  <1>3. recorded # 0 => recorded' # 0
    BY <1>1, <1>2
  <1>4. Plan' = Plan
    BY <1>2 DEF Plan
  <1>5. QED
    BY <1>1, <1>2, <1>3, <1>4 DEF Kept

LEMMA RowsFitStep ==
  ASSUME IInv, RowsFit, [Next]_vars
  PROVE  RowsFit'
  <1>1. Kept \subseteq Kept' /\ IInv'
    BY KeptGrows, StepFits
  <1>2. CASE RunFrames
    <2>1. ocr' = ocr \/ ocr' = {}
      BY <1>2 DEF RunFrames
    <2>2. embedded' = embedded \/ embedded' = {}
      BY <1>2 DEF RunFrames
    <2>3. QED
      BY <1>1, <2>1, <2>2 DEF RowsFit
  <1>3. CASE RunOcr
    <2>1. embedded' = embedded
      BY <1>3 DEF RunOcr
    <2>2. ToSet(OnDisk) = Kept
      <3>1. recorded \in 0..4
        BY DEF IInv, FramesFit, Stages
      <3>2. recorded < 4 /\ Stages[recorded + 1] # "frames"
        BY <1>3 DEF RunOcr, Runs, Stages
      <3>3. recorded > 0
        BY <3>1, <3>2 DEF Stages
      <3>4. QED
        BY <3>3, KeptFacts
    <2>3. ocr' = ocr \/ ocr' \subseteq ToSet(OnDisk)
      BY <1>3 DEF RunOcr, WithText
    <2>4. QED
      BY <1>1, <2>1, <2>2, <2>3 DEF RowsFit
  <1>4. CASE RunImageEmbed
    <2>1. ocr' = ocr
      BY <1>4 DEF RunImageEmbed
    <2>2. ToSet(OnDisk) = Kept
      <3>1. recorded \in 0..4
        BY DEF IInv, FramesFit, Stages
      <3>2. recorded < 4 /\ Stages[recorded + 1] # "frames"
        BY <1>4 DEF RunImageEmbed, Runs, Stages
      <3>3. recorded > 0
        BY <3>1, <3>2 DEF Stages
      <3>4. QED
        BY <3>3, KeptFacts
    <2>3. embedded' \subseteq embedded \cup ToSet(OnDisk)
      BY <1>4 DEF RunImageEmbed
    <2>4. QED
      BY <1>1, <2>1, <2>2, <2>3 DEF RowsFit
  <1>5. CASE \/ Claim \/ RunClassify \/ Raise \/ Die \/ Complete \/ Search \/ UNCHANGED vars
    <2>1. embedded' = embedded /\ ocr' = ocr
      BY <1>5 DEF Claim, RunClassify, Raise, Die, Stops, Complete, Search, Ask,
                  Select, Group, LookUp, Respond, Close, tableVars, vars
    <2>2. QED
      BY <1>1, <2>1 DEF RowsFit
  <1>6. QED
    BY <1>2, <1>3, <1>4, <1>5 DEF Next, Ingest

LEMMA LabelsFitStep ==
  ASSUME IInv, LabelsFit, [Next]_vars
  PROVE  LabelsFit'
  <1>1. CASE RunClassify
    <2>1. disk' = disk /\ OnDisk' = OnDisk
      BY <1>1 DEF RunClassify, OnDisk
    <2>2. CASE OnDisk = <<>>
      BY <1>1, <2>1, <2>2 DEF RunClassify, LabelsFit
    <2>3. CASE OnDisk # <<>>
      BY <1>1, <2>1, <2>3 DEF RunClassify, LabelsFit
    <2>4. QED
      BY <2>2, <2>3
  <1>2. CASE RunFrames \/ Stops
    <2>1. label' = label /\ segments' = segments
      BY <1>2 DEF RunFrames, Stops, tableVars
    <2>2. CASE segments = {}
      BY <2>1, <2>2 DEF LabelsFit
    <2>3. CASE segments # {}
      <3>1. recorded > 2 /\ recorded \in 0..4
        BY <2>3 DEF IInv, FramesFit, ScenesFit, Stages
      <3>2. ~RunFrames
        <4> SUFFICES ASSUME RunFrames PROVE FALSE
          OBVIOUS
        <4>1. recorded < 4 /\ Stages[recorded + 1] = "frames"
          BY DEF RunFrames, Runs, Stages
        <4>2. QED
          BY <3>1, <4>1 DEF Stages
      <3>3. disk' = disk
        <4>1. PICK n \in 0..(IF recorded = 0 THEN Len(Plan) ELSE 0) :
                disk' = disk \cup Extracted({Plan[i] : i \in 1..n})
          BY <1>2, <3>2 DEF Stops
        <4>2. n = 0
          BY <3>1, <4>1
        <4>3. {Plan[i] : i \in 1..n} = {}
          BY <4>2
        <4>4. QED
          BY <4>1, <4>3 DEF Extracted
      <3>4. QED
        BY <2>1, <3>3 DEF LabelsFit, OnDisk
    <2>4. QED
      BY <2>2, <2>3
  <1>3. CASE \/ Claim \/ RunOcr \/ RunImageEmbed \/ Complete \/ Search \/ UNCHANGED vars
    <2>1. label' = label /\ segments' = segments /\ disk' = disk
      BY <1>3 DEF Claim, RunOcr, RunImageEmbed, Complete, Search, Ask,
                  Select, Group, LookUp, Respond, Close, tableVars, vars
    <2>2. QED
      BY <2>1 DEF LabelsFit, OnDisk
  <1>4. QED
    BY <1>1, <1>2, <1>3 DEF Next, Ingest, Raise, Die

\* The scene of a moment is a label or none.
LEMMA SceneAtFits ==
  ASSUME IInv, LabelsFit, NEW video, NEW ts \in Nat
  PROVE  SceneAt(video, ts) \in Scenes
  <1>1. CASE segments = {}
    <2>1. scene_at(segments, ts) = NoScene
      BY <1>1 DEF scene_at
    <2>2. QED
      BY <2>1 DEF SceneAt, Scenes
  <1>2. CASE segments # {}
    <2> DEFINE seen == ToSet(OnDisk)
               frame == Max({f \in seen : f <= ts})
    <2>1. /\ recorded > 0 /\ OnDisk # <<>> /\ source \in Sources
          /\ segments = build_scene_segments(OnDisk, label)
          /\ disk = Extracted(ToSet(Plan))
      BY <1>2 DEF IInv, FramesFit, ScenesFit, Stages
    <2>2. Ascending(OnDisk) /\ OnDisk[1] = 0
      BY <2>1, DiskFits
    <2>3. \/ scene_at(segments, ts) = label[frame]
          \/ scene_at(segments, ts) = NoScene
      <3>1. scene_at(build_scene_segments(OnDisk, label), ts) =
              IF ts < Max(ToSet(OnDisk)) + tail_interval(OnDisk)
                THEN label[Max({f \in ToSet(OnDisk) : f <= ts})] ELSE NoScene
        BY <2>2, SceneIsOfTheLastFrame
      <3>2. QED
        BY <2>1, <3>1
    <2>4. frame \in seen
      <3> DEFINE upto == {f \in seen : f <= ts}
      <3>1. seen \in SUBSET Nat /\ 0 \in seen
        <4>1. OnDisk \in Seq(Nat) /\ 1 \in DOMAIN OnDisk
          BY <2>1, <2>2 DEF Ascending
        <4>2. QED
          BY <2>2, <4>1 DEF ToSet
      <3>2. upto \in SUBSET Nat /\ upto # {} /\ \A k \in upto : k <= ts
        BY <3>1
      <3> HIDE DEF upto
      <3>3. Max(upto) \in upto
        BY <3>2, MaxOf
      <3>4. QED
        BY <3>3 DEF upto
    <2>5. label[frame] \in SceneTypes
      BY <1>2, <2>4 DEF LabelsFit
    <2>6. QED
      BY <2>3, <2>5 DEF SceneAt, Scenes
  <1>3. QED
    BY <1>1, <1>2

LEMMA RowFacts ==
  ASSUME IInv, NEW kind, NEW row \in Rows(kind)
  PROVE  /\ row.ts \in Nat /\ row.modality \in Modalities
         /\ kind = "screenshot" => row.video = Video /\ row.ts \in Kept
         /\ kind # "screenshot" => row \in Transcript
  <1>1. CASE kind = "screenshot"
    <2>1. PICK t \in Kept : row = VisualRow(t) \/ row = OcrRow(t)
      BY <1>1 DEF Rows
    <2>2. t \in Nat
      BY KeptFacts
    <2>3. row.ts = t /\ row.video = Video /\ row.modality \in Modalities
      BY <2>1 DEF VisualRow, OcrRow, Modalities
    <2>4. QED
      BY <1>1, <2>1, <2>2, <2>3
  <1>2. CASE kind # "screenshot"
    BY <1>2, AnswersAssumption DEF Rows, Modalities
  <1>3. QED
    BY <1>1, <1>2

LEMMA RowsGrow ==
  ASSUME IInv, [Next]_vars, NEW kind
  PROVE  Rows(kind) \subseteq Rows(kind)'
  <1>1. Kept \subseteq Kept'
    BY KeptGrows
  <1>2. QED
    BY <1>1 DEF Rows, VisualRow, OcrRow

LEMMA PathsAreNat ==
  ASSUME NEW s, s.kind \in {"transcript", "screenshot", "audio"}, s.kind = "audio" => s.clip \in Clips
  PROVE  Paths(s) \in Nat
  <1>1. CASE s.kind = "audio"
    <2> DEFINE A == {"speech", "filler", "blank"}
               n == Cardinality(Asked(s.clip))
    <2>1. s.clip \in Seq(A)
      BY <1>1, AnswersAssumption
    <2> HIDE DEF A, n
    <2>2. Len(build_windows(s.clip)) = n + (IF Asked(s.clip) = {} THEN 0 ELSE 1)
      BY <2>1, WindowsAreCounted DEF n
    <2>3. /\ IsFiniteSet(Spoken(s.clip)) /\ IsFiniteSet(GoingOn(s.clip))
          /\ n = Cardinality(Spoken(s.clip)) + Cardinality(GoingOn(s.clip))
      BY <2>1, AskedAreCounted DEF n
    <2>4. n \in Nat
      <3>1. Cardinality(Spoken(s.clip)) \in Nat /\ Cardinality(GoingOn(s.clip)) \in Nat
        BY <2>3, FS_CardinalityType
      <3>2. QED
        BY <2>3, <3>1
    <2>5. Paths(s) = Len(build_windows(s.clip))
      BY <1>1 DEF Paths
    <2>6. QED
      BY <2>2, <2>4, <2>5
  <1>2. CASE s.kind # "audio"
    BY <1>2 DEF Paths
  <1>3. QED
    BY <1>1, <1>2

\* A path returns rows of its kind, no more than asked for.
LEMMA AnswersFit ==
  ASSUME IInv, RowsFit, NEW kind \in {"transcript", "screenshot", "audio"}, NEW asked \in Nat,
         kind = "transcript" => asked < 2, kind = "screenshot" => asked < 3,
         NEW rows \in Answers(kind, asked)
  PROVE  rows \in Seq(Rows(kind)) /\ (kind # "audio" => Len(rows) <= PerPath)
  <1>1. ASSUME NEW S, IsFiniteSet(S), rows \in Matching(S) \/ rows \in Nearest(S)
        PROVE  rows \in Seq(S) /\ Len(rows) <= PerPath
    <2> DEFINE pair == {PerPath, Cardinality(S)}
               m == Min(pair)
    <2>1. pair \in SUBSET Nat /\ pair # {} /\ PerPath \in pair
      BY <1>1, AnswersAssumption, FS_CardinalityType
    <2> HIDE DEF pair
    <2>2. m \in Nat /\ m <= PerPath
      BY <2>1, MinOf
    <2> HIDE DEF m
    <2>3. PICK n \in 0..m : rows \in [1..n -> S]
      <3>1. rows \in Orders(S, 0..m) \/ rows \in Orders(S, {m})
        BY <1>1 DEF Matching, Nearest, m, pair
      <3>2. rows \in UNION {[1..n -> S] : n \in 0..m}
        BY <2>2, <3>1 DEF Orders
      <3>3. QED
        BY <3>2
    <2>4. PerPath \in Nat
      BY AnswersAssumption
    <2>5. n \in Nat /\ n <= PerPath
      BY <2>2, <2>3, <2>4
    <2>6. rows \in Seq(S) /\ Len(rows) = n
      BY <2>3, <2>5
    <2>7. QED
      BY <2>5, <2>6
  <1>2. CASE kind = "audio"
    BY <1>2, AnswersAssumption DEF Answers, Rows
  <1>3. CASE kind = "transcript"
    <2>1. rows \in Matching(Transcript) \/ rows \in Nearest(Transcript)
      BY <1>3 DEF Answers
    <2>2. IsFiniteSet(Transcript)
      BY AnswersAssumption
    <2>3. QED
      BY <1>1, <1>3, <2>1, <2>2 DEF Rows
  <1>4. CASE kind = "screenshot"
    <2> DEFINE seen == {VisualRow(t) : t \in embedded}
               read == {OcrRow(t) : t \in ocr}
    <2>1. rows \in Matching(seen) \/ rows \in Nearest(seen) \/ rows \in Matching(read)
      <3>1. asked = 0 \/ asked = 1 \/ asked = 2
        BY <1>4
      <3>2. CASE asked = 0
        BY <1>4, <3>2 DEF Answers
      <3>3. CASE asked = 1
        BY <1>4, <3>3 DEF Answers
      <3>4. CASE asked = 2
        BY <1>4, <3>4 DEF Answers
      <3>5. QED
        BY <3>1, <3>2, <3>3, <3>4
    <2>2. embedded \subseteq Kept /\ ocr \subseteq Kept /\ IsFiniteSet(Kept)
      BY KeptFacts DEF RowsFit
    <2>3. IsFiniteSet(embedded) /\ IsFiniteSet(ocr)
      BY <2>2, FS_Subset
    <2>4. IsFiniteSet(seen)
      <3> DEFINE f == [t \in embedded |-> VisualRow(t)]
      <3>1. f \in [embedded -> seen] /\ \A r \in seen : \E t \in embedded : f[t] = r
        OBVIOUS
      <3> HIDE DEF f, seen
      <3>2. f \in Surjection(embedded, seen)
        BY <3>1 DEF Surjection
      <3>3. QED
        BY <2>3, <3>2, FS_Surjection
    <2>5. IsFiniteSet(read)
      <3> DEFINE f == [t \in ocr |-> OcrRow(t)]
      <3>1. f \in [ocr -> read] /\ \A r \in read : \E t \in ocr : f[t] = r
        OBVIOUS
      <3> HIDE DEF f, read
      <3>2. f \in Surjection(ocr, read)
        BY <3>1 DEF Surjection
      <3>3. QED
        BY <2>3, <3>2, FS_Surjection
    <2>6. seen \subseteq Rows(kind) /\ read \subseteq Rows(kind)
      BY <1>4, <2>2 DEF Rows
    <2> HIDE DEF seen, read
    <2>7. (rows \in Seq(seen) \/ rows \in Seq(read)) /\ Len(rows) <= PerPath
      BY <1>1, <2>1, <2>4, <2>5
    <2>8. QED
      BY <2>6, <2>7
  <1>5. QED
    BY <1>2, <1>3, <1>4

LEMMA SearchStays ==
  ASSUME IInv, SearchFits, [Next]_vars, search' = search
  PROVE  SearchFits'
  <1>1. ASSUME ListsFit(search) PROVE ListsFit(search)'
    <2>1. Rows(search.kind) \subseteq Rows(search.kind)'
      <3>1. ASSUME NEW kind, kind = search.kind PROVE Rows(search.kind) \subseteq Rows(search.kind)'
        <4>1. Rows(kind) \subseteq Rows(kind)'
          BY RowsGrow
        <4>2. kind = search'.kind
          BY <3>1
        <4>3. QED
          BY <3>1, <4>1, <4>2 DEF Rows
      <3>2. QED
        BY <3>1
    <2>2. search.lists \in Seq(Seq(Rows(search.kind)))
      BY <1>1 DEF ListsFit
    <2> DEFINE A == Rows(search.kind)
               B == Rows(search.kind)'
    <2>3. search.lists \in Seq(Seq(B))
      <3>1. A \subseteq B /\ search.lists \in Seq(Seq(A))
        BY <2>1, <2>2
      <3> HIDE DEF A, B
      <3>2. QED
        BY <3>1, ListsOverMore
    <2>4. QED
      BY <1>1, <2>3 DEF ListsFit, Paths
  <1>2. MergeFits(search) => MergeFits(search)'
    OBVIOUS
  <1>3. AnswerFits(search) => AnswerFits(search)'
    BY DEF AnswerFits, AnswerOf, Better
  <1>4. QED
    BY <1>1, <1>2, <1>3 DEF SearchFits, IsSearch

-----------------------------------------------------------------------------
(* Every step keeps the invariant of searches.                             *)

\* A search that has just begun has found nothing.
LEMMA AskKeeps == ASSUME IInv, SearchFits, Ask PROVE SearchFits'
  <1>1. Idle = [kind |-> "none", step |-> "idle", clip |-> <<>>, lists |-> <<>>,
                candidates |-> <<>>, todo |-> <<>>, hits |-> <<>>, results |-> <<>>]
    BY DEF Idle
  <1>2. search = Idle
    BY DEF Ask, SearchFits
  <1>3. /\ IsSearch(search') /\ search'.step = "select" /\ search'.hits = <<>> /\ search'.lists = <<>>
        /\ search'.kind \in {"transcript", "screenshot", "audio"}
        /\ search'.kind = "audio" => search'.clip \in Clips
    <2>1. CASE \E kind \in {"transcript", "screenshot"} :
                 search' = [Idle EXCEPT !.kind = kind, !.step = "select"]
      BY <1>1, <2>1 DEF IsSearch
    <2>2. CASE \E clip \in Clips :
                 search' = [Idle EXCEPT !.kind = "audio", !.step = "select", !.clip = clip]
      BY <1>1, <2>2 DEF IsSearch
    <2>3. QED
      BY <2>1, <2>2 DEF Ask
  <1>4. ListsFit(search)'
    <2>1. Paths(search') \in Nat
      BY <1>3, PathsAreNat
    <2>2. search'.lists \in Seq(Seq(Rows(search.kind)')) /\ Len(search'.lists) = 0
          /\ DOMAIN search'.lists = {}
      BY <1>3
    <2>3. QED
      BY <1>3, <2>1, <2>2 DEF ListsFit
  <1>5. QED
    BY <1>3, <1>4 DEF SearchFits

LEMMA SelectKeeps == ASSUME IInv, RowsFit, SearchFits, Select PROVE SearchFits'
  <1>1. /\ IsSearch(search) /\ search.step = "select" /\ search.hits = <<>>
        /\ search.kind \in {"transcript", "screenshot", "audio"} /\ ListsFit(search)
        /\ Len(search.lists) < Paths(search)
    BY DEF Select, SearchFits
  <1>2. PICK rows \in Answers(search.kind, Len(search.lists)) :
          search' = [search EXCEPT !.lists = Append(@, rows)]
    BY DEF Select
  <1>3. /\ search'.kind = search.kind /\ search'.step = "select" /\ search'.hits = <<>>
        /\ search'.clip = search.clip /\ IsSearch(search')
        /\ search'.lists = Append(search.lists, rows)
    BY <1>1, <1>2 DEF IsSearch
  <1>4. Kept' = Kept
    BY DEF Select, Kept, Plan
  <1> DEFINE R == Rows(search.kind)
  <1>5. search.lists \in Seq(Seq(R)) /\ Len(search.lists) \in Nat
    <2>1. search.lists \in Seq(Seq(R))
      BY <1>1 DEF ListsFit
    <2> HIDE DEF R
    <2>2. QED
      BY <2>1
  <1>6. rows \in Seq(R) /\ (search.kind # "audio" => Len(rows) <= PerPath)
    <2>1. search.kind = "transcript" => Len(search.lists) < 2
      BY <1>1 DEF Paths
    <2>2. search.kind = "screenshot" => Len(search.lists) < 3
      BY <1>1 DEF Paths
    <2>3. QED
      BY <1>1, <1>5, <2>1, <2>2, AnswersFit
  <1>7. Rows(search.kind)' = R
    BY <1>3, <1>4 DEF Rows, VisualRow, OcrRow
  <1>8. Paths(search') = Paths(search) /\ Paths(search) \in Nat
    <2>1. Paths(search') = Paths(search)
      BY <1>3 DEF Paths
    <2>2. Paths(search) \in Nat
      BY <1>1, PathsAreNat DEF ListsFit
    <2>3. QED
      BY <2>1, <2>2
  <1> HIDE DEF R
  <1>9. /\ search'.lists \in Seq(Seq(R)) /\ Len(search'.lists) = Len(search.lists) + 1
        /\ \A l \in DOMAIN search'.lists :
             search'.lists[l] = rows \/ (l \in DOMAIN search.lists /\ search'.lists[l] = search.lists[l])
    BY <1>3, <1>5, <1>6
  <1>10. Len(search'.lists) <= Paths(search')
    BY <1>1, <1>5, <1>8, <1>9
  <1>11. search.kind # "audio" => \A l \in DOMAIN search'.lists : Len(search'.lists[l]) <= PerPath
    BY <1>1, <1>6, <1>9 DEF ListsFit
  <1>12. search'.kind = "audio" => search'.clip \in Clips
    BY <1>1, <1>3 DEF ListsFit
  <1>13. ListsFit(search)'
    BY <1>3, <1>7, <1>9, <1>10, <1>11, <1>12 DEF ListsFit
  <1>14. QED
    BY <1>1, <1>3, <1>13 DEF SearchFits

LEMMA GroupKeeps == ASSUME IInv, SearchFits, Group PROVE SearchFits'
  <1>1. /\ IsSearch(search) /\ search.step = "select" /\ search.hits = <<>>
        /\ search.kind \in {"transcript", "screenshot", "audio"} /\ ListsFit(search)
        /\ Len(search.lists) = Paths(search)
    BY DEF Group, SearchFits
  <1> DEFINE all == Candidates(search)
             keys == Buckets(all)
  <1>2. /\ search'.kind = search.kind /\ search'.step = "merge" /\ search'.hits = <<>>
        /\ search'.clip = search.clip /\ search'.lists = search.lists /\ IsSearch(search')
        /\ search'.candidates = all /\ search'.todo = keys
    BY <1>1 DEF Group, IsSearch
  <1>3. Paths(search') = Paths(search) /\ Candidates(search') = all
    BY <1>2 DEF Paths, Candidates
  <1>4. ListsFit(search)'
    <2>1. Kept' = Kept
      BY DEF Group, Kept, Plan
    <2>2. Rows(search.kind)' = Rows(search.kind)
      BY <1>2, <2>1 DEF Rows, VisualRow, OcrRow
    <2>3. QED
      BY <1>1, <1>2, <1>3, <2>2 DEF ListsFit
  <1> DEFINE R == Rows(search.kind)
             K == {bucket_key(c) : c \in ToSet(all)}
  <1>5. keys \in Seq(K)
    <2>1. search.lists \in Seq(Seq(R))
      BY <1>1 DEF ListsFit
    <2>2. all \in Seq([row : R, rank : Nat])
      BY <1>1, <2>1, CandidatesAreRanked
    <2> HIDE DEF all, R
    <2>3. QED
      BY <2>2, BucketsFacts
  <1>6. HitsOf(search', search'.hits)
    <2>1. Len(search'.hits) = 0
      BY <1>2
    <2> DEFINE none == [i \in 1..0 |-> NoScene]
    <2>2. none \in [1..Len(search'.hits) -> Scenes]
      BY <2>1
    <2>3. search'.hits = [i \in 1..Len(search'.hits) |->
                            HitFor(search', Buckets(search'.candidates)[i], none[i])]
      BY <1>2, <2>1
    <2>4. QED
      BY <2>2, <2>3 DEF HitsOf
  <1>7. /\ Len(search'.hits) = 0 /\ Len(keys) \in Nat
        /\ keys = SubSeq(keys, 1, Len(keys))
    <2> HIDE DEF keys, K
    <2>1. QED
      BY <1>2, <1>5
  <1>8. MergeFits(search')
    BY <1>1, <1>2, <1>3, <1>6, <1>7 DEF MergeFits, Grouped
  <1>9. QED
    BY <1>1, <1>2, <1>4, <1>8 DEF SearchFits

\* What is looked up for a bucket is its hit with some scene.
LEMMA LookedUp ==
  ASSUME IInv, LabelsFit, ListsFit(search), Grouped(search),
         search.kind \in {"transcript", "screenshot", "audio"},
         NEW key \in ToSet(Buckets(search.candidates))
  PROVE  \E scene \in Scenes :
           (IF search.kind = "audio" THEN AudioHit(key) ELSE MomentHit(key)) = HitFor(search, key, scene)
  <1> DEFINE R == Rows(search.kind)
             C == [row : R, rank : Nat]
             all == search.candidates
             answers == [w \in DOMAIN search.lists |-> Reranked(search.lists[w])]
  <1>1. search.lists \in Seq(Seq(R)) /\ Len(search.lists) = Paths(search) /\ all = Candidates(search)
    BY DEF ListsFit, Grouped
  <1>2. /\ all \in Seq(C)
        /\ search.kind = "audio" =>
             /\ answers \in Seq(Seq(C))
             /\ ToSet(all) = {c \in C : \E w \in DOMAIN search.lists : c \in ToSet(Reranked(search.lists[w]))}
    <2>1. /\ Candidates(search) \in Seq(C)
          /\ search.kind = "audio" =>
               /\ answers \in Seq(Seq(C))
               /\ ToSet(Candidates(search)) = {c \in C :
                     \E w \in DOMAIN search.lists : c \in ToSet(Reranked(search.lists[w]))}
      <3> HIDE DEF R, all
      <3>1. QED
        BY <1>1, CandidatesAreRanked
    <2>2. QED
      BY <1>1, <2>1
  <1>3. \A c \in C : c.row.ts \in Nat
    BY RowFacts
  <1>4. PICK c \in ToSet(all) : bucket_key(c) = key
    <2>1. ToSet(Buckets(all)) = {bucket_key(c) : c \in ToSet(all)}
      <3> HIDE DEF C, all
      <3>1. QED
        BY <1>2, BucketsFacts
    <2>2. QED
      BY <2>1
  <1> HIDE DEF C, R
  <1>5. CASE search.kind = "audio"
    <2> DEFINE hit == bucket_state(answers, key)
    <2>1. PICK w \in DOMAIN search.lists : c \in ToSet(Reranked(search.lists[w]))
      BY <1>2, <1>4, <1>5
    <2>2. w \in DOMAIN answers /\ c \in ToSet(answers[w]) /\ answers \in Seq(Seq(C))
      BY <1>2, <1>5, <2>1
    <2>3. \E v \in DOMAIN answers : \E d \in ToSet(answers[v]) : hit.ts = d.row.ts
      <3>1. answers \in Seq(Seq([row : R, rank : Nat]))
        BY <2>2 DEF C
      <3>2. w \in DOMAIN answers /\ c \in ToSet(answers[w]) /\ bucket_key(c) = key
        BY <1>4, <2>2
      <3> HIDE DEF answers
      <3>3. FoundIn(answers, key, hit.ts)
        BY ONLY <3>1, <3>2, BucketStateFacts
      <3> HIDE DEF hit
      <3>4. QED
        BY <3>3 DEF FoundIn
    <2>4. hit.ts \in Nat
      <3>1. PICK v \in DOMAIN answers : \E d \in ToSet(answers[v]) : hit.ts = d.row.ts
        BY <2>3
      <3>2. PICK d \in ToSet(answers[v]) : hit.ts = d.row.ts
        BY <3>1
      <3>3. d \in C
        <4> HIDE DEF answers
        <4>1. answers[v] \in Seq(C)
          BY <2>2
        <4>2. QED
          BY <4>1 DEF ToSet
      <3>4. QED
        BY <1>3, <3>2, <3>3
    <2> DEFINE scene == SceneAt(hit.video, hit.ts)
    <2>5. scene \in Scenes
      <3> HIDE DEF hit
      <3>1. QED
        BY <2>4, SceneAtFits
    <2>6. AudioHit(key) = HitFor(search, key, scene)
      BY <1>5 DEF AudioHit, HitFor
    <2> HIDE DEF scene
    <2>7. QED
      BY <1>5, <2>5, <2>6
  <1>6. CASE search.kind # "audio"
    <2> DEFINE anchor == Anchor(all, key)
               scene == SceneAt(anchor.row.video, anchor.row.ts)
               bucket == InBucket(all, key)
    <2>1. bucket \in Seq(C) /\ c \in ToSet(bucket)
      <3>1. bucket \in Seq(C) /\ ToSet(bucket) = {d \in ToSet(all) : bucket_key(d) = key}
        <4> HIDE DEF all
        <4>1. QED
          BY <1>2, InBucketFacts
      <3> HIDE DEF bucket, all
      <3>2. QED
        BY <1>4, <3>1
    <2>2. anchor = Head(bucket)
      BY DEF Anchor
    <2> HIDE DEF bucket, anchor
    <2>3. bucket # <<>>
      BY <2>1 DEF ToSet
    <2>4. anchor \in C
      BY <2>1, <2>2, <2>3
    <2>5. scene \in Scenes
      BY <1>3, <2>4, SceneAtFits
    <2>6. MomentHit(key) = HitFor(search, key, scene)
      BY <1>6 DEF MomentHit, HitFor, anchor
    <2> HIDE DEF scene
    <2>7. QED
      BY <1>6, <2>5, <2>6
  <1>7. QED
    BY <1>5, <1>6

\* The rows are where they were.
LEMMA RowsStand ==
  ASSUME search'.kind = search.kind, UNCHANGED <<source, recorded>>
  PROVE  Rows(search.kind)' = Rows(search.kind)
  BY DEF Rows, VisualRow, OcrRow, Kept, Plan

LEMMA LookUpKeeps == ASSUME IInv, LabelsFit, SearchFits, LookUp PROVE SearchFits'
  <1> DEFINE all == search.candidates
             keys == Buckets(all)
             n == Len(search.hits)
             key == Head(search.todo)
             hit == IF search.kind = "audio" THEN AudioHit(key) ELSE MomentHit(key)
             R == Rows(search.kind)
             K == {bucket_key(c) : c \in ToSet(all)}
  <1>1. /\ IsSearch(search) /\ search.step = "merge" /\ search.todo # <<>>
        /\ search.kind \in {"transcript", "screenshot", "audio"} /\ ListsFit(search)
        /\ MergeFits(search)
    BY DEF LookUp, SearchFits
  <1>2. keys \in Seq(K) /\ ToSet(keys) = K
    <2>1. search.lists \in Seq(Seq(R)) /\ Len(search.lists) = Paths(search)
          /\ all = Candidates(search)
      BY <1>1 DEF ListsFit, MergeFits, Grouped
    <2>2. all \in Seq([row : R, rank : Nat])
      <3> HIDE DEF all, R
      <3>1. Candidates(search) \in Seq([row : R, rank : Nat])
        BY <1>1, <2>1, CandidatesAreRanked
      <3>2. QED
        BY <2>1, <3>1
    <2> HIDE DEF all, R
    <2>3. QED
      BY <2>2, BucketsFacts
  <1>3. n \in Nat /\ n + 1 \in 1..Len(keys) /\ key = keys[n + 1]
        /\ Tail(search.todo) = SubSeq(keys, n + 2, Len(keys)) /\ Len(keys) \in Nat
    <2>1. n \in Nat /\ search.todo = SubSeq(keys, n + 1, Len(keys))
      BY <1>1 DEF MergeFits
    <2> HIDE DEF keys, n, K
    <2>2. SubSeq(keys, n + 1, Len(keys)) # <<>>
      BY <1>1, <2>1
    <2>3. QED
      BY <1>2, <2>1, <2>2, RestOf
  <1>4. PICK scene \in Scenes : hit = HitFor(search, key, scene)
    <2>1. key \in ToSet(keys)
      <3> HIDE DEF keys, K, n, key
      <3>1. QED
        BY <1>2, <1>3 DEF ToSet
    <2>2. Grouped(search)
      BY <1>1 DEF MergeFits
    <2>3. QED
      BY <1>1, <2>1, <2>2, LookedUp
  <1>5. /\ search'.kind = search.kind /\ search'.step = "merge" /\ search'.clip = search.clip
        /\ search'.lists = search.lists /\ search'.candidates = all /\ IsSearch(search')
        /\ search'.todo = Tail(search.todo) /\ search'.hits = Append(search.hits, hit)
    BY <1>1 DEF LookUp, IsSearch
  <1>6. ListsFit(search)' /\ Grouped(search')
    <2>1. Paths(search') = Paths(search) /\ Candidates(search') = Candidates(search)
      BY <1>5 DEF Paths, Candidates
    <2>2. Rows(search.kind)' = Rows(search.kind)
      BY <1>5, RowsStand DEF LookUp
    <2>3. QED
      BY <1>1, <1>5, <2>1, <2>2 DEF ListsFit, MergeFits, Grouped
  <1>7. \A k, s : HitFor(search', k, s) = HitFor(search, k, s)
    BY <1>5 DEF HitFor
  <1>8. PICK scenes \in [1..n -> Scenes] :
          search.hits = [i \in 1..n |-> HitFor(search, keys[i], scenes[i])]
    BY <1>1 DEF MergeFits, HitsOf
  <1> DEFINE more == [i \in 1..(n + 1) |-> IF i = n + 1 THEN scene ELSE scenes[i]]
  <1>9. search'.hits = [i \in 1..(n + 1) |-> HitFor(search, keys[i], more[i])]
    <2> DEFINE H == {HitFor(search, keys[i], scenes[i]) : i \in 1..n} \cup {hit}
               made == [i \in 1..(n + 1) |-> HitFor(search, keys[i], more[i])]
    <2>1. search.hits \in Seq(H) /\ hit \in H
      BY <1>3, <1>8
    <2>2. \A i \in 1..n : search.hits[i] = made[i]
      BY <1>3, <1>8
    <2>3. hit = made[n + 1]
      BY <1>3, <1>4
    <2>4. DOMAIN made = 1..(n + 1) /\ made = [i \in 1..(n + 1) |-> made[i]]
      OBVIOUS
    <2> HIDE DEF H, hit, made
    <2>5. Append(search.hits, hit) = [i \in 1..(n + 1) |-> IF i = n + 1 THEN hit ELSE search.hits[i]]
      BY <1>3, <2>1
    <2>6. Append(search.hits, hit) = made
      <3>1. \A i \in 1..(n + 1) : made[i] = IF i = n + 1 THEN hit ELSE search.hits[i]
        BY <1>3, <2>2, <2>3
      <3>2. QED
        BY <2>4, <2>5, <3>1
    <2>7. QED
      BY <1>5, <2>6 DEF made
  <1>10. Len(search'.hits) = n + 1 /\ n + 1 \in Nat
    BY <1>3, <1>9
  <1>11. HitsOf(search', search'.hits)
    <2>1. more \in [1..(n + 1) -> Scenes]
      BY <1>3, <1>4, <1>8
    <2>2. search'.hits = [i \in 1..(n + 1) |-> HitFor(search', Buckets(search'.candidates)[i], more[i])]
      <3> HIDE DEF more
      <3>1. QED
        BY <1>5, <1>7, <1>9
    <2> HIDE DEF more
    <2>3. QED
      BY <1>10, <2>1, <2>2 DEF HitsOf
  <1>12. MergeFits(search')
    <2>1. Len(search.hits) + Len(search.todo) = Len(keys)
      BY <1>1 DEF MergeFits
    <2>2. Len(search'.todo) = Len(search.todo) - 1 /\ Len(search.todo) \in Nat
      <3> HIDE DEF K, n, keys
      <3>1. search.todo = SubSeq(keys, n + 1, Len(keys))
        BY <1>1 DEF MergeFits, n, keys
      <3>2. search.todo \in Seq(K)
        BY <1>2, <1>3, <3>1
      <3>3. QED
        BY <1>1, <1>5, <3>2
    <2>3. (n + 1) + 1 = n + 2
      BY <1>3
    <2>4. search'.todo = SubSeq(keys, (n + 1) + 1, Len(keys))
      BY <1>3, <1>5, <2>3
    <2> HIDE DEF keys, n
    <2>5. (n + 1) + Len(search'.todo) = Len(keys)
      <3>1. n + Len(search.todo) = Len(keys)
        BY <2>1 DEF n, keys
      <3>2. n \in Nat
        BY <1>3
      <3>3. Len(search'.todo) = Len(search.todo) - 1 /\ Len(search.todo) \in Nat
        BY <2>2
      <3> DEFINE a == Len(search.todo)
                 b == Len(search'.todo)
                 c == Len(keys)
      <3>4. n + a = c /\ n \in Nat /\ a \in Nat /\ b = a - 1
        BY <3>1, <3>2, <3>3
      <3> HIDE DEF a, b, c
      <3>5. (n + 1) + b = c
        BY ONLY <3>4
      <3>6. QED
        BY <3>5 DEF b, c
    <2>6. keys = Buckets(search'.candidates)
      BY <1>5 DEF keys
    <2>7. QED
      BY <1>6, <1>10, <1>11, <2>4, <2>5, <2>6 DEF MergeFits
  <1> HIDE DEF all, keys, n, key, hit, R, K
  <1>13. QED
    BY <1>1, <1>5, <1>6, <1>12 DEF SearchFits

LEMMA RespondKeeps == ASSUME IInv, SearchFits, Respond PROVE SearchFits'
  <1> DEFINE keys == Buckets(search.candidates)
             n == Len(search.hits)
             R == Rows(search.kind)
             K == {bucket_key(c) : c \in ToSet(search.candidates)}
             hits == Top(PerPath, BestFirst(search.hits, Better(search.hits)))
  <1>1. /\ IsSearch(search) /\ search.step = "merge" /\ search.todo = <<>>
        /\ search.kind \in {"transcript", "screenshot", "audio"} /\ ListsFit(search)
        /\ MergeFits(search)
    BY DEF Respond, SearchFits
  <1>2. /\ search'.kind = search.kind /\ search'.step = "answered" /\ search'.clip = search.clip
        /\ search'.lists = search.lists /\ search'.candidates = search.candidates
        /\ IsSearch(search') /\ search'.hits = hits
        /\ search'.results = [i \in DOMAIN Cases |-> evaluate_hit(hits, Cases[i], PerPath)]
    BY <1>1 DEF Respond, IsSearch
  <1>3. ListsFit(search)' /\ Grouped(search')
    <2>1. Paths(search') = Paths(search) /\ Candidates(search') = Candidates(search)
      BY <1>2 DEF Paths, Candidates
    <2>2. Rows(search.kind)' = Rows(search.kind)
      BY <1>2, RowsStand DEF Respond
    <2>3. QED
      BY <1>1, <1>2, <2>1, <2>2 DEF ListsFit, MergeFits, Grouped
  <1>4. n = Len(keys) /\ DOMAIN keys = 1..n /\ n \in Nat
    <2>1. search.lists \in Seq(Seq(R)) /\ Len(search.lists) = Paths(search)
          /\ search.candidates = Candidates(search)
      BY <1>1 DEF ListsFit, MergeFits, Grouped
    <2>2. search.candidates \in Seq([row : R, rank : Nat])
      <3> HIDE DEF R
      <3>1. Candidates(search) \in Seq([row : R, rank : Nat])
        BY <1>1, <2>1, CandidatesAreRanked
      <3>2. QED
        BY <2>1, <3>1
    <2>3. keys \in Seq(K)
      <3> HIDE DEF R
      <3>1. QED
        BY <2>2, BucketsFacts
    <2>4. n \in Nat /\ n + Len(search.todo) = Len(keys) /\ Len(search.todo) = 0
      BY <1>1 DEF MergeFits
    <2> HIDE DEF keys, K, n
    <2>5. QED
      BY <2>3, <2>4
  <1>5. PICK scenes \in [1..n -> Scenes] :
          search.hits = [i \in 1..n |-> HitFor(search, keys[i], scenes[i])]
    BY <1>1 DEF MergeFits, HitsOf
  <1> DEFINE made == [i \in DOMAIN Buckets(search.candidates) |->
                        HitFor(search, Buckets(search.candidates)[i], scenes[i])]
  <1>6. made = search.hits /\ made' = search.hits
    <2>1. DOMAIN keys = 1..n
      BY <1>4
    <2>2. \A k, s : HitFor(search', k, s) = HitFor(search, k, s)
      BY <1>2 DEF HitFor
    <2>3. made = search.hits
      BY <1>5, <2>1
    <2>4. made' = made
      BY <1>2, <2>2
    <2>5. QED
      BY <2>3, <2>4
  <1>7. AnswerFits(search)'
    <2>1. Better(made)' = Better(search.hits)
      <3> HIDE DEF made
      <3>1. QED
        BY <1>2, <1>6 DEF Better
    <2>2. AnswerOf(search, made)'
      <3> HIDE DEF made
      <3>1. QED
        BY <1>2, <1>6, <2>1 DEF AnswerOf
    <2>3. scenes \in [DOMAIN Buckets(search.candidates) -> Scenes]'
      BY <1>2, <1>4, <1>5 DEF Scenes
    <2>4. QED
      BY <1>3, <2>2, <2>3 DEF AnswerFits
  <1>8. QED
    BY <1>1, <1>2, <1>3, <1>7 DEF SearchFits

LEMMA CloseKeeps == ASSUME SearchFits, Close PROVE SearchFits'
  <1>1. Idle = [kind |-> "none", step |-> "idle", clip |-> <<>>, lists |-> <<>>,
                candidates |-> <<>>, todo |-> <<>>, hits |-> <<>>, results |-> <<>>]
    BY DEF Idle
  <1>2. search' = Idle
    BY DEF Close
  <1>3. IsSearch(search') /\ search'.step = "idle"
    BY <1>1, <1>2 DEF IsSearch
  <1>4. Idle' = Idle
    BY DEF Idle
  <1>5. QED
    BY <1>2, <1>3, <1>4 DEF SearchFits

LEMMA SearchStep == IInv /\ SInv /\ [Next]_vars => SInv'
  <1> SUFFICES ASSUME IInv, SInv, [Next]_vars PROVE SInv'
    OBVIOUS
  <1>1. RowsFit /\ LabelsFit /\ SearchFits
    BY DEF SInv
  <1>2. RowsFit'
    BY <1>1, RowsFitStep
  <1>3. LabelsFit'
    BY <1>1, LabelsFitStep
  <1>4. SearchFits'
    <2>1. CASE Ask
      BY <1>1, <2>1, AskKeeps
    <2>2. CASE Select
      BY <1>1, <2>2, SelectKeeps
    <2>3. CASE Group
      BY <1>1, <2>3, GroupKeeps
    <2>4. CASE LookUp
      BY <1>1, <2>4, LookUpKeeps
    <2>5. CASE Respond
      BY <1>1, <2>5, RespondKeeps
    <2>6. CASE Close
      BY <1>1, <2>6, CloseKeeps
    <2>7. CASE Ingest \/ UNCHANGED vars
      <3>1. search' = search
        BY <2>7 DEF Ingest, Claim, RunFrames, RunOcr, RunClassify, RunImageEmbed, Runs,
                    Raise, Die, Stops, Complete, vars
      <3>2. QED
        BY <1>1, <3>1, SearchStays
    <2>8. QED
      BY <2>1, <2>2, <2>3, <2>4, <2>5, <2>6, <2>7 DEF Next, Search
  <1>5. QED
    BY <1>2, <1>3, <1>4 DEF SInv

LEMMA InitSearchFits == Init => SInv
  <1> SUFFICES ASSUME Init PROVE SInv
    OBVIOUS
  <1>1. Idle = [kind |-> "none", step |-> "idle", clip |-> <<>>, lists |-> <<>>,
                candidates |-> <<>>, todo |-> <<>>, hits |-> <<>>, results |-> <<>>]
    BY DEF Idle
  <1>2. search = Idle /\ IsSearch(search) /\ search.step = "idle"
    BY <1>1 DEF Init, IsSearch
  <1>3. SearchFits
    BY <1>2 DEF SearchFits
  <1>4. RowsFit /\ LabelsFit
    BY DEF Init, RowsFit, LabelsFit
  <1>5. QED
    BY <1>3, <1>4 DEF SInv

\* At any time a search has asked no more than its paths, each of which has answered
\* with rows that are there to stay; what it has grouped are the candidates these
\* make; and its hits are those of the first buckets, or the best of all of them.
THEOREM SearchInvariant == Spec => []SInv
  <1>1. Init => SInv
    BY InitSearchFits
  <1>2. IInv /\ SInv /\ [Next]_vars => SInv'
    BY SearchStep
  <1>3. Spec => []IInv
    BY MomentsInvariant
  <1>4. QED
    BY <1>1, <1>2, <1>3, PTL DEF Spec

-----------------------------------------------------------------------------
(* What follows for answers.                                               *)

\* What a search has grouped: rows of its kind with ranks, in a bucket each.
LEMMA GroupedFacts ==
  ASSUME IInv, SInv, search.step \in {"merge", "answered"}
  PROVE  LET R == Rows(search.kind)
             C == [row : R, rank : Nat]
             all == search.candidates
             keys == Buckets(all)
         IN  /\ search.kind \in {"transcript", "screenshot", "audio"}
             /\ ListsFit(search) /\ Grouped(search) /\ search.lists \in Seq(Seq(R))
             /\ all \in Seq(C)
             /\ keys \in Seq({bucket_key(c) : c \in ToSet(all)})
             /\ ToSet(keys) = {bucket_key(c) : c \in ToSet(all)}
             /\ \A i, j \in DOMAIN keys : keys[i] = keys[j] => i = j
  <1> DEFINE R == Rows(search.kind)
             all == search.candidates
             keys == Buckets(all)
             K == {bucket_key(c) : c \in ToSet(all)}
  <1>1. /\ search.kind \in {"transcript", "screenshot", "audio"}
        /\ ListsFit(search) /\ Grouped(search)
    BY DEF SInv, SearchFits, MergeFits, AnswerFits
  <1>2. search.lists \in Seq(Seq(R)) /\ Len(search.lists) = Paths(search) /\ all = Candidates(search)
    BY <1>1 DEF ListsFit, Grouped
  <1>3. all \in Seq([row : R, rank : Nat])
    <2> HIDE DEF R, all
    <2>1. Candidates(search) \in Seq([row : R, rank : Nat])
      BY <1>1, <1>2, CandidatesAreRanked
    <2>2. QED
      BY <1>2, <2>1
  <1>4. /\ keys \in Seq(K) /\ ToSet(keys) = K
        /\ \A i, j \in DOMAIN keys : keys[i] = keys[j] => i = j
    <2> HIDE DEF R, all
    <2>1. QED
      BY <1>3, BucketsFacts
  <1>5. QED
    BY <1>1, <1>2, <1>3, <1>4

\* A hit found by its picture or by what was said in it.
LEMMA MomentHitFacts ==
  ASSUME IInv, SInv, search.step \in {"merge", "answered"}, search.kind # "audio",
         NEW key \in ToSet(Buckets(search.candidates)), NEW scene
  PROVE  IsHitOf(HitFor(search, key, scene), search.candidates, key, scene)
  <1> DEFINE R == Rows(search.kind)
             all == search.candidates
  <1>1. all \in Seq([row : R, rank : Nat]) /\ ToSet(Buckets(all)) = {bucket_key(c) : c \in ToSet(all)}
    BY GroupedFacts
  <1>2. \A row \in R : row.modality \in Modalities
    BY RowFacts
  <1>3. PICK c \in ToSet(all) : bucket_key(c) = key
    BY <1>1
  <1>4. HitFor(search, key, scene) = hit_of(all, key, scene)
    BY DEF HitFor
  <1>5. IsHitOf(hit_of(all, key, scene), all, key, scene)
    <2> HIDE DEF R, all
    <2>1. QED
      BY ONLY <1>1, <1>2, <1>3, HitOfFacts
  <1>6. QED
    BY <1>4, <1>5

\* What windows have found, and which of them have found something in a bucket.
Windows(lists) == [w \in DOMAIN lists |-> Reranked(lists[w])]

Finders(answers, key) ==
  {w \in DOMAIN answers : \E c \in ToSet(answers[w]) : bucket_key(c) = key}

\* A hit found by a clip.
IsClipHit(hit, answers, key) ==
  /\ hit.video = key[1] /\ FoundIn(answers, key, hit.ts)
  /\ hit.coverage \in Nat /\ hit.quality \in Nat
  /\ hit.coverage = Cardinality(Finders(answers, key)) /\ Len(hit.evidence) = hit.coverage

LEMMA BucketStateIsClipHit ==
  ASSUME NEW R, NEW answers \in Seq(Seq([row : R, rank : Nat])), NEW key,
         NEW w0 \in DOMAIN answers, NEW c0 \in ToSet(answers[w0]), bucket_key(c0) = key
  PROVE  IsClipHit(bucket_state(answers, key), answers, key)
  BY BucketStateFacts, Zenon DEF IsClipHit, Finders

LEMMA AudioHitFacts ==
  ASSUME IInv, SInv, search.step \in {"merge", "answered"}, search.kind = "audio",
         NEW key \in ToSet(Buckets(search.candidates)), NEW scene
  PROVE  IsClipHit(HitFor(search, key, scene), Windows(search.lists), key)
  <1> DEFINE R == Rows(search.kind)
             C == [row : R, rank : Nat]
             all == search.candidates
             answers == [w \in DOMAIN search.lists |-> Reranked(search.lists[w])]
             state == bucket_state(answers, key)
             hit == HitFor(search, key, scene)
  <1>1. ToSet(Buckets(all)) = {bucket_key(c) : c \in ToSet(all)}
        /\ search.lists \in Seq(Seq(R)) /\ Len(search.lists) = Paths(search) /\ all = Candidates(search)
    BY GroupedFacts DEF Grouped
  <1>2. /\ answers \in Seq(Seq(C))
        /\ ToSet(all) = {c \in C : \E w \in DOMAIN search.lists : c \in ToSet(Reranked(search.lists[w]))}
    <2>1. /\ answers \in Seq(Seq(C))
          /\ ToSet(Candidates(search)) = {c \in C :
                \E w \in DOMAIN search.lists : c \in ToSet(Reranked(search.lists[w]))}
      <3> HIDE DEF R, all
      <3>1. QED
        BY <1>1, CandidatesAreRanked
    <2>2. QED
      BY <1>1, <2>1
  <1>3. PICK c \in ToSet(all) : bucket_key(c) = key
    BY <1>1
  <1>4. PICK w \in DOMAIN search.lists : c \in ToSet(Reranked(search.lists[w]))
    BY <1>2, <1>3
  <1>5. w \in DOMAIN answers /\ c \in ToSet(answers[w]) /\ answers \in Seq(Seq([row : R, rank : Nat]))
    BY <1>2, <1>4
  <1>6. IsClipHit(state, answers, key)
    <2> HIDE DEF answers, R, C, all, hit
    <2>1. QED
      BY ONLY <1>3, <1>5, BucketStateIsClipHit
  <1>7. /\ hit.video = state.video /\ hit.ts = state.ts /\ hit.coverage = state.coverage
        /\ hit.quality = state.quality /\ hit.evidence = state.evidence
    <2>1. hit = WithScene(state, scene)
      BY DEF HitFor
    <2> HIDE DEF state, hit
    <2>2. QED
      BY <2>1 DEF WithScene
  <1>8. answers = Windows(search.lists)
    BY DEF Windows
  <1> HIDE DEF hit, state, answers
  <1>9. IsClipHit(hit, answers, key)
    BY <1>6, <1>7 DEF IsClipHit
  <1>10. QED
    BY <1>8, <1>9 DEF hit

-----------------------------------------------------------------------------
(* Where the hits of an answer come from.                                  *)

\* The hits of the answer: which place in the order of the buckets each comes from,
\* and the scene its bucket had when it was looked up.
Made(scenes) ==
  [i \in DOMAIN Buckets(search.candidates) |->
     HitFor(search, Buckets(search.candidates)[i], scenes[i])]

Placed(scenes, place) ==
  LET keys == Buckets(search.candidates)
      hits == search.hits
  IN  /\ scenes \in [DOMAIN keys -> Scenes]
      /\ place \in [DOMAIN keys -> DOMAIN keys]
      /\ \A i \in DOMAIN keys : \E n \in DOMAIN keys : place[n] = i
      /\ DOMAIN hits = 1..Len(hits) /\ Len(hits) \in Nat /\ Len(hits) <= PerPath
      /\ DOMAIN keys = 1..Len(keys) /\ Len(keys) \in Nat /\ Len(hits) <= Len(keys)
      /\ Len(hits) < PerPath => Len(hits) = Len(keys)
      /\ \A i \in DOMAIN hits : hits[i] = HitFor(search, keys[place[i]], scenes[place[i]])
      /\ \A i, j \in DOMAIN hits : i < j => <<place[j], place[i]>> \notin Better(Made(scenes))

\* What is better is so by a key.
LEMMA BetterIsWeak ==
  ASSUME IInv, SInv, search.step \in {"merge", "answered"}, NEW scenes
  PROVE  Weak(Better(Made(scenes)), DOMAIN Buckets(search.candidates))
  <1> DEFINE keys == Buckets(search.candidates)
             made == Made(scenes)
             D == DOMAIN keys
  <1>1. DOMAIN made = D /\ \A i \in D : made[i] = HitFor(search, keys[i], scenes[i]) /\ keys[i] \in ToSet(keys)
    BY DEF Made, ToSet
  <1>2. CASE search.kind = "audio"
    <2>1. \A i \in D : made[i].coverage \in Nat /\ made[i].quality \in Nat
      BY <1>1, <1>2, AudioHitFacts DEF IsClipHit
    <2>2. Better(made) = {pair \in D \X D :
            \/ made[pair[1]].coverage > made[pair[2]].coverage
            \/ made[pair[1]].coverage = made[pair[2]].coverage /\ made[pair[1]].quality > made[pair[2]].quality}
      BY <1>1, <1>2 DEF Better
    <2> HIDE DEF made, D
    <2>3. \A i, j \in D : <<i, j>> \in Better(made) <=>
            \/ made[i].coverage > made[j].coverage
            \/ made[i].coverage = made[j].coverage /\ made[i].quality > made[j].quality
      BY <2>2
    <2> DEFINE c(i) == made[i].coverage
               q(i) == made[i].quality
    <2>4. /\ \A i \in D : c(i) \in Nat /\ q(i) \in Nat
          /\ \A i, j \in D : <<i, j>> \in Better(made) <=> c(i) > c(j) \/ (c(i) = c(j) /\ q(i) > q(j))
      BY <2>1, <2>3
    <2> HIDE DEF c, q
    <2>5. Weak(Better(made), D)
      BY ONLY <2>4 DEF Weak
    <2>6. QED
      BY <2>5 DEF made, D
  <1>3. CASE search.kind # "audio"
    <2>1. \A i \in D : made[i].score \in Nat
      BY <1>1, <1>3, MomentHitFacts DEF IsHitOf
    <2>2. Better(made) = {pair \in D \X D : made[pair[1]].score > made[pair[2]].score}
      BY <1>1, <1>3 DEF Better
    <2> HIDE DEF made, D
    <2>3. \A i, j \in D : <<i, j>> \in Better(made) <=> made[i].score > made[j].score
      BY <2>2
    <2>4. Weak(Better(made), D)
      BY ONLY <2>1, <2>3 DEF Weak
    <2>5. QED
      BY <2>4 DEF made, D
  <1>4. QED
    BY <1>2, <1>3

LEMMA AnswerIsPlaced ==
  ASSUME IInv, SInv, Answered
  PROVE  \E scenes, place : Placed(scenes, place)
  <1> DEFINE keys == Buckets(search.candidates)
             K == {bucket_key(c) : c \in ToSet(search.candidates)}
             D == DOMAIN keys
             hits == search.hits
  <1>1. search.step = "answered" /\ AnswerFits(search)
    BY DEF Answered, SInv, SearchFits
  <1>2. PICK scenes \in [D -> Scenes] : AnswerOf(search, Made(scenes))
    BY <1>1 DEF AnswerFits, Made
  <1> DEFINE made == Made(scenes)
             best == BestFirst(made, Better(made))
             H == {HitFor(search, keys[i], scenes[i]) : i \in D}
  <1>3. D = 1..Len(keys) /\ Len(keys) \in Nat
    <2>1. keys \in Seq(K)
      BY <1>1, GroupedFacts
    <2> HIDE DEF keys, K
    <2>2. QED
      BY <2>1
  <1>4. made \in Seq(H) /\ DOMAIN made = D /\ Len(made) = Len(keys)
        /\ \A i \in D : made[i] = HitFor(search, keys[i], scenes[i])
    BY <1>3 DEF Made
  <1>5. Weak(Better(made), DOMAIN made)
    BY <1>1, <1>4, BetterIsWeak
  <1> HIDE DEF made, H
  <1>6. /\ best \in Seq(H) /\ Len(best) = Len(made)
        /\ \E place : Permutes(place, best, made, Better(made))
    BY <1>4, <1>5, BestFirstSorts
  <1>7. PICK place : Permutes(place, best, made, Better(made))
    BY <1>6
  <1>8. hits = Top(PerPath, best) /\ PerPath \in Nat
    BY <1>2, AnswersAssumption DEF AnswerOf, made
  <1> HIDE DEF best, keys, hits
  <1>9. /\ hits \in Seq(H) /\ Len(hits) <= PerPath /\ Len(hits) <= Len(best)
        /\ \A i \in 1..Len(hits) : hits[i] = best[i]
        /\ Len(hits) < PerPath => Len(hits) = Len(best)
    BY <1>6, <1>8, TopFacts
  <1>10. DOMAIN hits = 1..Len(hits) /\ Len(hits) \in Nat
    BY <1>9
  <1>11. DOMAIN hits \subseteq D
    <2>1. Len(hits) <= Len(keys)
      BY <1>4, <1>6, <1>9
    <2>2. DOMAIN hits = 1..Len(hits) /\ D = 1..Len(keys) /\ Len(hits) \in Nat /\ Len(keys) \in Nat
      BY <1>3, <1>10
    <2> DEFINE a == Len(hits)
               b == Len(keys)
    <2>3. DOMAIN hits = 1..a /\ D = 1..b /\ a \in Nat /\ b \in Nat /\ a <= b
      BY <2>1, <2>2
    <2> HIDE DEF a, b, D
    <2>4. QED
      BY ONLY <2>3
  <1>12. \A i \in DOMAIN hits : hits[i] = HitFor(search, keys[place[i]], scenes[place[i]])
    BY <1>4, <1>7, <1>9, <1>10, <1>11 DEF Permutes
  <1>13. \A i, j \in DOMAIN hits : i < j => <<place[j], place[i]>> \notin Better(made)
    BY <1>4, <1>7, <1>11 DEF Permutes
  <1>14. /\ place \in [D -> D] /\ \A i \in D : \E n \in D : place[n] = i
    BY <1>4, <1>7 DEF Permutes
  <1>15. /\ Len(hits) <= Len(keys) /\ (Len(hits) < PerPath => Len(hits) = Len(keys))
    BY <1>4, <1>6, <1>9
  <1>16. Placed(scenes, place)
    BY <1>2, <1>3, <1>9, <1>10, <1>12, <1>13, <1>14, <1>15 DEF Placed, made, keys, hits
  <1>17. QED
    BY <1>16

\* Where a hit was found: a row of the search is at its moment, in its bucket.
IsFound(hit, key) ==
  /\ key = <<hit.video, RoundHalfEven(hit.ts)>> /\ hit.ts \in Nat
  /\ \E row \in Rows(search.kind) : row.ts = hit.ts /\ row.video = hit.video

LEMMA HitIsFound ==
  ASSUME IInv, SInv, search.step \in {"merge", "answered"},
         NEW key \in ToSet(Buckets(search.candidates)), NEW scene
  PROVE  IsFound(HitFor(search, key, scene), key)
  <1> DEFINE R == Rows(search.kind)
             C == [row : R, rank : Nat]
             all == search.candidates
             hit == HitFor(search, key, scene)
             answers == Windows(search.lists)
  <1>1. all \in Seq(C) /\ search.lists \in Seq(Seq(R))
    BY GroupedFacts
  <1>2. hit.video = key[1] /\ \E c \in C : bucket_key(c) = key /\ c.row.ts = hit.ts
    <2>1. CASE search.kind = "audio"
      <3>1. hit.video = key[1] /\ FoundIn(answers, key, hit.ts)
        BY <2>1, AudioHitFacts DEF IsClipHit
      <3>2. PICK w \in DOMAIN answers : \E c \in ToSet(answers[w]) : bucket_key(c) = key /\ c.row.ts = hit.ts
        BY <3>1 DEF FoundIn
      <3>3. answers[w] \in Seq(C)
        <4>1. w \in DOMAIN search.lists /\ answers[w] = Reranked(search.lists[w])
          BY <3>2 DEF Windows
        <4>2. search.lists[w] \in Seq(R)
          <5> HIDE DEF R
          <5>1. QED
            BY <1>1, <4>1
        <4> HIDE DEF R, answers
        <4>3. QED
          BY <4>1, <4>2, RerankedFacts
      <3>4. PICK c \in ToSet(answers[w]) : bucket_key(c) = key /\ c.row.ts = hit.ts
        BY <3>2
      <3>5. c \in C
        <4> HIDE DEF C, answers
        <4>1. QED
          BY <3>3, <3>4 DEF ToSet
      <3>6. QED
        BY <3>1, <3>4, <3>5
    <2>2. CASE search.kind # "audio"
      <3>1. IsHitOf(hit, all, key, scene)
        BY <2>2, MomentHitFacts
      <3>2. hit.video = key[1] /\ At(all, key, hit.ts)
        BY <3>1 DEF IsHitOf
      <3>3. PICK c \in ToSet(all) : bucket_key(c) = key /\ c.row.ts = hit.ts
        BY <3>2 DEF At, Of
      <3>4. c \in C
        <4> HIDE DEF C, all
        <4>1. QED
          BY <1>1, <3>3 DEF ToSet
      <3>5. QED
        BY <3>2, <3>3, <3>4
    <2>3. QED
      BY <2>1, <2>2
  <1> HIDE DEF hit
  <1>3. PICK c \in C : bucket_key(c) = key /\ c.row.ts = hit.ts
    BY <1>2
  <1>4. c.row \in R /\ c.row.ts \in Nat
    BY <1>3, RowFacts
  <1>5. key = <<c.row.video, RoundHalfEven(c.row.ts)>>
    BY <1>3 DEF bucket_key
  <1>6. key[1] = c.row.video
    BY <1>5
  <1>7. QED
    BY <1>2, <1>3, <1>4, <1>5, <1>6 DEF IsFound, hit

-----------------------------------------------------------------------------
(* A hit can be opened.                                                    *)

LEMMA SelfIsNear == ASSUME NEW t \in Nat PROVE Apart(t, t) = 0 /\ 0 <= Window
  BY AnswersAssumption DEF Apart

LEMMA HitsAreFound ==
  ASSUME IInv, SInv, Answered, NEW scenes, NEW place, Placed(scenes, place), NEW i \in DOMAIN search.hits
  PROVE  LET keys == Buckets(search.candidates)
         IN  /\ keys[place[i]] \in ToSet(keys)
             /\ search.hits[i] = HitFor(search, keys[place[i]], scenes[place[i]])
             /\ IsFound(search.hits[i], keys[place[i]])
  <1> DEFINE keys == Buckets(search.candidates)
             key == keys[place[i]]
  <1>1. place[i] \in DOMAIN keys /\ search.hits[i] = HitFor(search, key, scenes[place[i]])
    <2>1. /\ place \in [DOMAIN keys -> DOMAIN keys]
          /\ DOMAIN search.hits = 1..Len(search.hits) /\ Len(search.hits) \in Nat
          /\ DOMAIN keys = 1..Len(keys) /\ Len(keys) \in Nat /\ Len(search.hits) <= Len(keys)
          /\ search.hits[i] = HitFor(search, keys[place[i]], scenes[place[i]])
      BY DEF Placed
    <2> DEFINE a == Len(search.hits)
               b == Len(keys)
    <2>2. i \in 1..a /\ a \in Nat /\ b \in Nat /\ a <= b
      BY <2>1
    <2> HIDE DEF a, b
    <2>3. i \in 1..b
      BY ONLY <2>2
    <2>4. i \in DOMAIN keys
      BY <2>1, <2>3 DEF b
    <2> HIDE DEF keys
    <2>5. QED
      BY <2>1, <2>4 DEF keys
  <1>2. key \in ToSet(keys)
    BY <1>1 DEF ToSet
  <1>3. search.step = "answered"
    BY DEF Answered
  <1>4. IsFound(HitFor(search, key, scenes[place[i]]), key)
    BY <1>2, <1>3, HitIsFound
  <1>5. QED
    BY <1>1, <1>2, <1>4

\* A hit can be opened, whichever steps of the ingest come between the queries of the
\* search, and whichever stage failed before: search, image_search, result_detail.
THEOREM AnswersOpen == Spec => []HitsOpen
  <1>1. ASSUME IInv, SInv PROVE HitsOpen
    <2> SUFFICES ASSUME Answered, NEW i \in DOMAIN search.hits
                 PROVE  LET hit == search.hits[i]
                            detail == result_detail(hit.video, hit.ts)
                        IN  IF search.kind = "screenshot"
                              THEN hit.ts \in detail.preview_frames /\ frame_path_for(hit.ts) \in disk
                              ELSE /\ \E row \in detail.nearby_transcript : row.ts = hit.ts
                                   /\ \A row \in hit_snippets(hit.video, hit.ts) : row.ts = hit.ts
      BY DEF HitsOpen
    <2> DEFINE hit == search.hits[i]
    <2>1. PICK scenes, place : Placed(scenes, place)
      BY <1>1, AnswerIsPlaced
    <2>2. \E key : IsFound(hit, key)
      BY <1>1, <2>1, HitsAreFound
    <2>3. PICK row \in Rows(search.kind) : row.ts = hit.ts /\ row.video = hit.video
      BY <2>2 DEF IsFound
    <2>4. hit.ts \in Nat
      BY <2>2 DEF IsFound
    <2>5. Apart(hit.ts, hit.ts) = 0 /\ 0 <= Window /\ Apart(hit.ts, hit.ts) <= Window
      BY <2>4, SelfIsNear
    <2>6. CASE search.kind = "screenshot"
      <3>1. row.video = Video /\ row.ts \in Kept
        BY <1>1, <2>6, RowFacts
      <3>2. row.ts \in frames /\ frame_path_for(row.ts) \in disk
        BY <1>1, <3>1, KeptFacts
      <3>3. hit.ts \in result_detail(hit.video, hit.ts).preview_frames
        <4> HIDE DEF hit
        <4>1. QED
          BY <2>3, <2>5, <3>1, <3>2 DEF result_detail
      <3>4. QED
        BY <2>3, <2>6, <3>2, <3>3
    <2>7. CASE search.kind # "screenshot"
      <3>1. row \in Transcript
        BY <1>1, <2>7, RowFacts
      <3> HIDE DEF hit
      <3>2. row \in result_detail(hit.video, hit.ts).nearby_transcript
        BY <2>3, <2>5, <3>1 DEF result_detail
      <3>3. ASSUME NEW r \in hit_snippets(hit.video, hit.ts) PROVE r.ts = hit.ts
        <4>1. r \in Transcript /\ Apart(r.ts, hit.ts) <= Apart(row.ts, hit.ts)
          BY <2>3, <3>1, <3>3 DEF hit_snippets
        <4>2. Apart(r.ts, hit.ts) <= 0
          BY <2>3, <2>5, <4>1
        <4>3. r.ts \in Nat
          BY <4>1, AnswersAssumption
        <4>4. QED
          BY <2>4, <4>2, <4>3 DEF Apart
      <3>4. QED
        BY <2>3, <2>7, <3>2, <3>3 DEF hit
    <2>8. QED
      BY <2>6, <2>7
  <1>2. QED
    BY <1>1, MomentsInvariant, SearchInvariant, PTL

-----------------------------------------------------------------------------
(* The best moments come first.                                            *)

\* The answer to a transcript or screenshot search is the best of the moments its
\* candidates are merged into, each scored by the best of its candidates of each
\* modality: merge_candidates.
THEOREM BestMoments == Spec => []HitsAreTheBestMoments
  <1>1. ASSUME IInv, SInv PROVE HitsAreTheBestMoments
    <2> SUFFICES ASSUME Answered, search.kind \in {"transcript", "screenshot"}
                 PROVE  HitsAreTheBestMoments
      BY DEF HitsAreTheBestMoments
    <2> DEFINE hits == search.hits
               all == ToSet(search.candidates)
               keys == Buckets(search.candidates)
               Bucket_of(hit) == {c \in all : bucket_key(c) = <<hit.video, RoundHalfEven(hit.ts)>>}
               shown == UNION {Bucket_of(hits[i]) : i \in DOMAIN hits}
    <2>1. search.step = "answered" /\ search.kind # "audio"
      BY DEF Answered
    <2>2. PICK scenes, place : Placed(scenes, place)
      BY <1>1, AnswerIsPlaced
    <2>3. /\ place \in [DOMAIN keys -> DOMAIN keys]
          /\ \A i \in DOMAIN keys : \E n \in DOMAIN keys : place[n] = i
          /\ DOMAIN hits = 1..Len(hits) /\ Len(hits) \in Nat /\ Len(hits) <= PerPath
          /\ DOMAIN keys = 1..Len(keys) /\ Len(keys) \in Nat /\ Len(hits) <= Len(keys)
          /\ Len(hits) < PerPath => Len(hits) = Len(keys)
          /\ \A i, j \in DOMAIN hits : i < j => <<place[j], place[i]>> \notin Better(Made(scenes))
      BY <2>2 DEF Placed
    <2>4. ASSUME NEW i \in DOMAIN hits
          PROVE  LET key == keys[place[i]]
                 IN  /\ place[i] \in DOMAIN keys
                     /\ IsHitOf(hits[i], search.candidates, key, scenes[place[i]])
                     /\ key = <<hits[i].video, RoundHalfEven(hits[i].ts)>> /\ hits[i].ts \in Nat
                     /\ hits[i] = Made(scenes)[place[i]]
      <3> DEFINE key == keys[place[i]]
      <3>1. /\ key \in ToSet(keys) /\ hits[i] = HitFor(search, key, scenes[place[i]])
            /\ IsFound(hits[i], key)
        BY <1>1, <2>2, HitsAreFound
      <3>2. IsHitOf(HitFor(search, key, scenes[place[i]]), search.candidates, key, scenes[place[i]])
        BY <1>1, <2>1, <3>1, MomentHitFacts
      <3>3. place[i] \in DOMAIN keys
        <4> DEFINE a == Len(hits)
                   b == Len(keys)
        <4>1. i \in 1..a /\ a \in Nat /\ b \in Nat /\ a <= b /\ DOMAIN keys = 1..b
          BY <2>3
        <4> HIDE DEF a, b
        <4>2. i \in 1..b
          BY ONLY <4>1
        <4> HIDE DEF keys
        <4>3. QED
          BY <2>3, <4>1, <4>2
      <3>4. Made(scenes)[place[i]] = HitFor(search, key, scenes[place[i]])
        BY <3>3 DEF Made
      <3>5. QED
        BY <3>1, <3>2, <3>3, <3>4 DEF IsFound
    <2>5. ASSUME NEW i \in DOMAIN hits
          PROVE  Bucket_of(hits[i]) = Of(search.candidates, keys[place[i]])
      BY <2>4 DEF Of
    <2>6. ASSUME NEW i \in DOMAIN hits, NEW j \in DOMAIN hits, i < j
          PROVE  hits[i].score >= hits[j].score
      <3> DEFINE made == Made(scenes)
                 p == place[i]
                 q == place[j]
      <3>1. /\ hits[i] = made[p] /\ hits[j] = made[q] /\ p \in DOMAIN keys /\ q \in DOMAIN keys
            /\ hits[i].score \in Nat /\ hits[j].score \in Nat
        BY <2>4 DEF IsHitOf
      <3>2. <<q, p>> \notin Better(made)
        BY <2>3, <2>6
      <3>3. DOMAIN made = DOMAIN keys
        BY DEF Made
      <3> HIDE DEF made, p, q, keys
      <3>4. ~(made[q].score > made[p].score)
        BY <2>1, <3>1, <3>2, <3>3 DEF Better
      <3>5. QED
        BY <3>1, <3>4
    <2>7. ASSUME NEW i \in DOMAIN hits
          PROVE  /\ hits[i].score = ScoreOf(Bucket_of(hits[i]), hits[i].scene_type)
                 /\ \A c \in Bucket_of(hits[i]) : Apart(c.row.ts, hits[i].ts) <= Bucket
      <3>1. hits[i].score = ScoreOf(Of(search.candidates, keys[place[i]]), hits[i].scene_type)
        BY <2>4 DEF IsHitOf
      <3>2. ASSUME NEW c \in Bucket_of(hits[i]) PROVE Apart(c.row.ts, hits[i].ts) <= Bucket
        <4> DEFINE R == Rows(search.kind)
                   C == [row : R, rank : Nat]
        <4>1. search.candidates \in Seq(C)
          BY <1>1, <2>1, GroupedFacts
        <4>2. c \in C
          <5> HIDE DEF C
          <5>1. QED
            BY <3>2, <4>1 DEF ToSet
        <4>3. c.row.ts \in Nat
          BY <1>1, <4>2, RowFacts
        <4>4. RoundHalfEven(c.row.ts) = RoundHalfEven(hits[i].ts)
          <5>1. bucket_key(c) = <<hits[i].video, RoundHalfEven(hits[i].ts)>>
            BY <3>2
          <5>2. QED
            BY <5>1 DEF bucket_key
        <4>5. hits[i].ts \in Nat
          BY <2>4
        <4>6. QED
          BY <4>3, <4>4, <4>5, SameBucketIsNear
      <3>3. QED
        BY <2>5, <3>1, <3>2
    <2>8. ASSUME all # shown PROVE Len(hits) = PerPath
      <3> SUFFICES ASSUME Len(hits) # PerPath PROVE all = shown
        BY <2>8
      <3>1. DOMAIN hits = DOMAIN keys
        <4>1. Len(hits) < PerPath
          BY <2>3, AnswersAssumption
        <4>2. QED
          BY <2>3, <4>1
      <3>2. ToSet(keys) = {bucket_key(c) : c \in all}
        BY <1>1, <2>1, GroupedFacts
      <3>3. ASSUME NEW c \in all PROVE c \in shown
        <4>1. PICK m \in DOMAIN keys : keys[m] = bucket_key(c)
          <5> HIDE DEF all, keys
          <5>1. bucket_key(c) \in ToSet(keys)
            BY <3>2
          <5>2. QED
            BY <5>1 DEF ToSet
        <4>2. PICK n \in DOMAIN keys : place[n] = m
          BY <2>3
        <4>3. n \in DOMAIN hits /\ keys[place[n]] = bucket_key(c)
          BY <3>1, <4>1, <4>2
        <4>4. c \in Bucket_of(hits[n])
          BY <2>4, <4>3
        <4> HIDE DEF Bucket_of
        <4>5. QED
          BY <4>3, <4>4
      <3>4. shown \subseteq all
        OBVIOUS
      <3>5. QED
        BY <3>3, <3>4
    <2>9. Len(hits) <= PerPath
      BY <2>3
    <2>10. QED
      BY <2>6, <2>7, <2>8, <2>9 DEF HitsAreTheBestMoments
  <1>2. QED
    BY <1>1, MomentsInvariant, SearchInvariant, PTL

-----------------------------------------------------------------------------
(* A clip.                                                                 *)

\* The windows that found something in the bucket of a hit.
Found(lists, video, n) ==
  {w \in DOMAIN lists : \E row \in ToSet(lists[w]) : row.video = video /\ RoundHalfEven(row.ts) = n}

LEMMA FindersAreFound ==
  ASSUME NEW R, NEW lists \in Seq(Seq(R)), NEW video, NEW n
  PROVE  Finders(Windows(lists), <<video, n>>) = Found(lists, video, n)
  <1> DEFINE answers == Windows(lists)
  <1>1. ASSUME NEW w \in DOMAIN lists
        PROVE  (\E c \in ToSet(answers[w]) : bucket_key(c) = <<video, n>>)
                 <=> \E row \in ToSet(lists[w]) : row.video = video /\ RoundHalfEven(row.ts) = n
    <2> DEFINE rows == lists[w]
    <2>1. rows \in Seq(R) /\ answers[w] = Reranked(rows)
      BY DEF Windows
    <2> HIDE DEF rows, answers
    <2>2. DOMAIN rows = 1..Len(rows) /\ Len(rows) \in Nat
      BY <2>1
    <2>3. /\ Reranked(rows) \in Seq([row : R, rank : Nat]) /\ Len(Reranked(rows)) = Len(rows)
          /\ \A i \in 1..Len(rows) : Reranked(rows)[i] = [row |-> rows[i], rank |-> i - 1]
      BY <2>1, RerankedFacts
    <2>4. DOMAIN Reranked(rows) = 1..Len(rows)
      BY <2>3
    <2>5. ASSUME NEW i \in 1..Len(rows) PROVE Reranked(rows)[i].row = rows[i]
      <3>1. Reranked(rows)[i] = [row |-> rows[i], rank |-> i - 1]
        BY <2>3
      <3>2. QED
        BY <3>1
    <2>6. \A c : bucket_key(c) = <<video, n>> <=> c.row.video = video /\ RoundHalfEven(c.row.ts) = n
      BY DEF bucket_key
    <2>7. ASSUME NEW c \in ToSet(Reranked(rows)), bucket_key(c) = <<video, n>>
          PROVE  \E row \in ToSet(rows) : row.video = video /\ RoundHalfEven(row.ts) = n
      <3>1. PICK i \in 1..Len(rows) : c = Reranked(rows)[i]
        BY <2>4 DEF ToSet
      <3>2. c.row = rows[i] /\ rows[i] \in ToSet(rows)
        BY <2>2, <2>5, <3>1 DEF ToSet
      <3>3. QED
        BY <2>6, <2>7, <3>2
    <2>8. ASSUME NEW row \in ToSet(rows), row.video = video, RoundHalfEven(row.ts) = n
          PROVE  \E c \in ToSet(Reranked(rows)) : bucket_key(c) = <<video, n>>
      <3>1. PICK i \in 1..Len(rows) : row = rows[i]
        BY <2>2 DEF ToSet
      <3>2. Reranked(rows)[i].row = row /\ Reranked(rows)[i] \in ToSet(Reranked(rows))
        BY <2>4, <2>5, <3>1 DEF ToSet
      <3>3. QED
        BY <2>6, <2>8, <3>2
    <2>9. QED
      BY ONLY <2>1, <2>7, <2>8 DEF rows
  <1>2. DOMAIN answers = DOMAIN lists
    BY DEF Windows
  <1> HIDE DEF answers
  <1>3. QED
    BY <1>1, <1>2 DEF Finders, Found, answers

\* A clip asks for what was said in it, and a hit counts the windows that found it:
\* build_windows, _Accumulator.
THEOREM CoverageCounted == Spec => []CoverageCountsWindows
  <1>1. ASSUME IInv, SInv PROVE CoverageCountsWindows
    <2> SUFFICES ASSUME Answered, search.kind = "audio" PROVE CoverageCountsWindows
      BY DEF CoverageCountsWindows
    <2> DEFINE SpokenAt(n) == n \in DOMAIN search.clip /\ search.clip[n] = "speech"
               asked == {{n} : n \in {i \in DOMAIN search.clip : SpokenAt(i)}}
                        \cup {{n, n + 1} : n \in {i \in DOMAIN search.clip : SpokenAt(i) /\ SpokenAt(i + 1)}}
               hits == search.hits
               keys == Buckets(search.candidates)
               R == Rows(search.kind)
               found(hit) == {w \in DOMAIN search.lists : \E row \in ToSet(search.lists[w]) :
                                row.video = hit.video /\ RoundHalfEven(row.ts) = RoundHalfEven(hit.ts)}
    <2>1. search.step = "answered"
      BY DEF Answered
    <2>2. ListsFit(search) /\ Grouped(search) /\ search.lists \in Seq(Seq(R))
      BY <1>1, <2>1, GroupedFacts
    <2>3. Len(search.lists) = Cardinality(asked) + (IF asked = {} THEN 0 ELSE 1)
      <3>1. Len(search.lists) = Len(build_windows(search.clip))
        BY <2>2 DEF Grouped, Paths
      <3>2. search.clip \in Seq({"speech", "filler", "blank"})
        BY <2>2, AnswersAssumption DEF ListsFit
      <3>3. asked = Asked(search.clip)
        <4>1. {i \in DOMAIN search.clip : SpokenAt(i)} = Spoken(search.clip)
          BY DEF Spoken
        <4>2. {i \in DOMAIN search.clip : SpokenAt(i) /\ SpokenAt(i + 1)} = GoingOn(search.clip)
          BY DEF Spoken, GoingOn
        <4> HIDE DEF SpokenAt
        <4>3. QED
          BY <4>1, <4>2 DEF Asked
      <3> DEFINE A == {"speech", "filler", "blank"}
      <3> HIDE DEF asked, A
      <3>4. search.clip \in Seq(A)
        BY <3>2 DEF A
      <3>5. Len(build_windows(search.clip))
              = Cardinality(Asked(search.clip)) + (IF Asked(search.clip) = {} THEN 0 ELSE 1)
        BY <3>4, WindowsAreCounted
      <3>6. QED
        BY <3>1, <3>3, <3>5
    <2>4. PICK scenes, place : Placed(scenes, place)
      BY <1>1, AnswerIsPlaced
    <2>5. /\ place \in [DOMAIN keys -> DOMAIN keys]
          /\ DOMAIN hits = 1..Len(hits) /\ Len(hits) \in Nat
          /\ DOMAIN keys = 1..Len(keys) /\ Len(keys) \in Nat /\ Len(hits) <= Len(keys)
          /\ \A i, j \in DOMAIN hits : i < j => <<place[j], place[i]>> \notin Better(Made(scenes))
      BY <2>4 DEF Placed
    <2>6. ASSUME NEW i \in DOMAIN hits
          PROVE  /\ place[i] \in DOMAIN keys /\ hits[i] = Made(scenes)[place[i]]
                 /\ hits[i].coverage \in Nat /\ hits[i].coverage = Cardinality(found(hits[i]))
                 /\ Len(hits[i].evidence) = hits[i].coverage
      <3> DEFINE key == keys[place[i]]
                 voters(k) == Finders(Windows(search.lists), k)
      <3>1. /\ key \in ToSet(keys) /\ hits[i] = HitFor(search, key, scenes[place[i]])
            /\ IsFound(hits[i], key)
        BY <1>1, <2>4, HitsAreFound
      <3>2. /\ hits[i].coverage \in Nat /\ hits[i].coverage = Cardinality(voters(key))
            /\ Len(hits[i].evidence) = hits[i].coverage
        BY <1>1, <2>1, <3>1, AudioHitFacts DEF IsClipHit
      <3>3. key = <<hits[i].video, RoundHalfEven(hits[i].ts)>>
        BY <3>1 DEF IsFound
      <3>4. voters(key) = found(hits[i])
        <4> DEFINE lists == search.lists
                   video == hits[i].video
                   n == RoundHalfEven(hits[i].ts)
        <4>1. lists \in Seq(Seq(R))
          BY <2>2
        <4> HIDE DEF R, lists, video, n
        <4>2. Finders(Windows(lists), <<video, n>>) = Found(lists, video, n)
          BY ONLY <4>1, FindersAreFound
        <4>3. Found(lists, video, n) = found(hits[i])
          BY DEF Found, lists, video, n
        <4> HIDE DEF found
        <4>4. QED
          BY <3>3, <4>2, <4>3 DEF lists, video, n
      <3>5. place[i] \in DOMAIN keys
        <4> DEFINE a == Len(hits)
                   b == Len(keys)
        <4>1. i \in 1..a /\ a \in Nat /\ b \in Nat /\ a <= b /\ DOMAIN keys = 1..b
          BY <2>5
        <4> HIDE DEF a, b
        <4>2. i \in 1..b
          BY ONLY <4>1
        <4> HIDE DEF keys
        <4>3. QED
          BY <2>5, <4>1, <4>2
      <3>6. Made(scenes)[place[i]] = HitFor(search, key, scenes[place[i]])
        BY <3>5 DEF Made
      <3>7. QED
        BY <3>1, <3>2, <3>4, <3>5, <3>6
    <2>7. ASSUME NEW i \in DOMAIN hits, NEW j \in 1..(i - 1)
          PROVE  hits[j].coverage >= hits[i].coverage
      <3> DEFINE made == Made(scenes)
                 p == place[j]
                 q == place[i]
      <3>1. j \in DOMAIN hits /\ j < i
        BY <2>5
      <3>2. /\ hits[j] = made[p] /\ hits[i] = made[q] /\ p \in DOMAIN keys /\ q \in DOMAIN keys
            /\ hits[i].coverage \in Nat /\ hits[j].coverage \in Nat
        BY <2>6, <3>1
      <3>3. <<q, p>> \notin Better(made)
        BY <2>5, <3>1
      <3>4. DOMAIN made = DOMAIN keys
        BY DEF Made
      <3> HIDE DEF made, p, q, keys
      <3>5. ~(made[q].coverage > made[p].coverage)
        BY <3>2, <3>3, <3>4 DEF Better
      <3>6. QED
        BY <3>2, <3>5
    <2> HIDE DEF asked, found
    <2>8. QED
      BY <2>3, <2>6, <2>7 DEF CoverageCountsWindows, asked, found
  <1>2. QED
    BY <1>1, MomentsInvariant, SearchInvariant, PTL

-----------------------------------------------------------------------------
(* Fusion.                                                                 *)

\* What two paths found among their first comes before what one found, and what is
\* ahead wherever the other is stays ahead: reciprocal_rank_fusion.
THEOREM Agreement == Spec => []FusionHonoursAgreement
  <1>1. ASSUME IInv, SInv PROVE FusionHonoursAgreement
    <2> SUFFICES ASSUME search.step = "merge", search.kind \in {"transcript", "screenshot"}
                 PROVE  FusionHonoursAgreement
      BY DEF FusionHonoursAgreement
    <2> DEFINE R == Rows(search.kind)
               lists == search.lists
               all == search.candidates
               fused == reciprocal_rank_fusion(lists)
               In(l, x) == Contains(lists[l], x)
               Paths_of(x) == {l \in DOMAIN lists : In(l, x)}
               High(x) == {l \in Paths_of(x) : RankIn(lists[l], x) < RRF_K}
    <2>1. /\ lists \in Seq(Seq(R)) /\ Len(lists) = Paths(search) /\ all = Candidates(search)
          /\ \A l \in DOMAIN lists : Len(lists[l]) <= PerPath
      BY <1>1, GroupedFacts DEF Grouped, ListsFit
    <2>2. /\ all \in Seq([row : R, rank : Nat]) /\ Len(all) <= Len(fused)
          /\ \A i \in 1..Len(all) : all[i] = [row |-> fused[i], rank |-> i - 1]
      <3>1. search.kind \in {"transcript", "screenshot", "audio"} /\ search.kind # "audio"
        OBVIOUS
      <3>2. /\ Candidates(search) \in Seq([row : R, rank : Nat])
            /\ Len(Candidates(search)) <= Len(reciprocal_rank_fusion(search.lists))
            /\ \A i \in 1..Len(Candidates(search)) :
                 Candidates(search)[i] = [row |-> reciprocal_rank_fusion(search.lists)[i], rank |-> i - 1]
        <4> HIDE DEF R, all
        <4>1. QED
          BY <2>1, <3>1, CandidatesAreRanked
      <3> HIDE DEF R
      <3>3. QED
        BY <2>1, <3>2
    <2>3. /\ fused \in Seq(R)
          /\ ToSet(fused) = {x \in R : Lists(lists, x) # {}}
          /\ \A i, j \in DOMAIN fused : i < j =>
               /\ fused[i] # fused[j]
               /\ ScoreIn(lists, fused[j]) <= ScoreIn(lists, fused[i])
      <3> HIDE DEF R, lists
      <3>1. QED
        BY <2>1, FusionFacts
    <2>4. \A l \in DOMAIN lists : Len(lists[l]) <= MaxRank + 1
      <3> SUFFICES ASSUME NEW l \in DOMAIN lists PROVE Len(lists[l]) <= MaxRank + 1
        OBVIOUS
      <3>1. Len(lists[l]) \in Nat /\ Len(lists[l]) <= PerPath
        <4>1. lists[l] \in Seq(R)
          <5> HIDE DEF R, lists
          <5>1. QED
            BY <2>1
        <4> HIDE DEF R
        <4>2. QED
          BY <2>1, <4>1
      <3>2. PerPath \in Nat /\ MaxRank \in Nat /\ 2 * PerPath <= MaxRank + 1
        BY AnswersAssumption, ScoreAssumption
      <3> DEFINE n == Len(lists[l])
      <3>3. n \in Nat /\ n <= PerPath
        BY <3>1
      <3> HIDE DEF n, lists
      <3>4. n <= MaxRank + 1
        BY ONLY <3>2, <3>3
      <3>5. QED
        BY <3>4 DEF n
    <2>5. \A x : Lists(lists, x) = Paths_of(x)
      BY DEF Lists
    <2>6. ASSUME NEW i \in DOMAIN all, NEW j \in DOMAIN all, i < j
          PROVE  LET x == all[i].row
                     y == all[j].row
                 IN  /\ x # y
                     /\ Cardinality(High(y)) > 1 => Cardinality(Paths_of(x)) > 1
                     /\ ~\A l \in DOMAIN lists :
                          In(l, x) => In(l, y) /\ RankIn(lists[l], y) < RankIn(lists[l], x)
      <3> DEFINE x == all[i].row
                 y == all[j].row
      <3>1. /\ x = fused[i] /\ y = fused[j] /\ i \in DOMAIN fused /\ j \in DOMAIN fused
        <4> HIDE DEF fused, all, R
        <4>1. DOMAIN all = 1..Len(all) /\ Len(all) \in Nat
          BY <2>2
        <4>2. DOMAIN fused = 1..Len(fused) /\ Len(fused) \in Nat
          BY <2>3
        <4>3. all[i] = [row |-> fused[i], rank |-> i - 1] /\ all[j] = [row |-> fused[j], rank |-> j - 1]
          BY <2>2, <4>1
        <4>4. i \in DOMAIN fused /\ j \in DOMAIN fused
          BY <2>2, <4>1, <4>2
        <4>5. QED
          BY <4>3, <4>4
      <3> HIDE DEF x, y, fused, all
      <3>2. x # y /\ ScoreIn(lists, y) <= ScoreIn(lists, x)
        BY <2>3, <2>6, <3>1
      <3>3. Lists(lists, x) # {}
        BY <2>3, <3>1 DEF ToSet
      <3>4. /\ ScoreIn(lists, x) \in Nat /\ ScoreIn(lists, y) \in Nat
            /\ IsFiniteSet(Lists(lists, x)) /\ IsFiniteSet(Lists(lists, y))
        <4> HIDE DEF lists, R
        <4>1. QED
          BY <2>1, ScoreFacts
      <3>5. ~(ScoreIn(lists, x) < ScoreIn(lists, y))
        BY <3>2, <3>4
      <3>6. ASSUME Cardinality(High(y)) > 1, ~(Cardinality(Paths_of(x)) > 1) PROVE FALSE
        <4>1. Paths_of(x) = Lists(lists, x) /\ Paths_of(y) = Lists(lists, y)
          BY <2>5
        <4>2. IsFiniteSet(High(y))
          <5>1. High(y) \in SUBSET Lists(lists, y)
            BY <4>1
          <5> HIDE DEF High
          <5>2. QED
            BY <3>4, <5>1, FS_Subset
        <4>3. PICK l, m \in High(y) : l # m
          <5> HIDE DEF High
          <5>1. QED
            BY <3>6, <4>2, MoreThanOne
        <4>4. PICK k : Lists(lists, x) = {k}
          <5> HIDE DEF Paths_of
          <5>1. QED
            BY <3>3, <3>4, <3>6, <4>1, MoreThanOne
        <4>5. /\ l \in Lists(lists, y) /\ m \in Lists(lists, y)
              /\ RankIn(lists[l], y) < RRF_K /\ RankIn(lists[m], y) < RRF_K
          BY <4>1, <4>3
        <4> HIDE DEF lists, R
        <4>6. ScoreIn(lists, x) < ScoreIn(lists, y)
          BY <2>1, <2>4, <4>3, <4>4, <4>5, TwoListsBeatOne
        <4>7. QED
          BY <3>5, <4>6
      <3>7. ASSUME \A l \in DOMAIN lists :
                     In(l, x) => In(l, y) /\ RankIn(lists[l], y) < RankIn(lists[l], x)
            PROVE  FALSE
        <4>1. \A l \in Lists(lists, x) :
                l \in Lists(lists, y) /\ RankIn(lists[l], y) < RankIn(lists[l], x)
          BY <3>7 DEF Lists
        <4> HIDE DEF lists, R, In
        <4>2. ScoreIn(lists, x) < ScoreIn(lists, y)
          BY <2>1, <2>4, <3>3, <4>1, AheadEverywhere
        <4>3. QED
          BY <3>5, <4>2
      <3> HIDE DEF High, Paths_of, In
      <3>8. QED
        BY <3>2, <3>6, <3>7 DEF x, y
    <2> HIDE DEF fused, R
    <2>7. QED
      BY <2>6 DEF FusionHonoursAgreement
  <1>2. QED
    BY <1>1, MomentsInvariant, SearchInvariant, PTL

-----------------------------------------------------------------------------
(* Evaluation.                                                             *)

\* Where a case finds its moment: at the first place that is near enough.
PlacesOf(hits, case) == {r \in DOMAIN hits : Apart(hits[r].ts, case.expected) <= case.tolerance}

LEMMA CaseIsJudged ==
  ASSUME NEW hits, NEW n \in Nat, DOMAIN hits = 1..n, Len(hits) = n, n <= PerPath, NEW case
  PROVE  LET rank == evaluate_hit(hits, case, PerPath).rank
             near == PlacesOf(hits, case)
         IN  /\ rank \in Nat /\ (rank > 0 <=> near # {})
             /\ near # {} => rank \in near /\ \A r \in near : rank <= r
  <1> DEFINE near == PlacesOf(hits, case)
             pair == {PerPath, Len(hits)}
  <1>1. Min(pair) = n
    <2>1. pair \in SUBSET Nat /\ n \in pair /\ \A k \in pair : n <= k
      BY AnswersAssumption
    <2> HIDE DEF pair
    <2>2. Min(pair) \in pair /\ \A k \in pair : Min(pair) <= k
      BY <2>1, MinOf
    <2> DEFINE m == Min(pair)
    <2>3. m \in Nat /\ n <= m /\ m <= n
      BY <2>1, <2>2
    <2> HIDE DEF m
    <2>4. m = n
      BY <2>3
    <2>5. QED
      BY <2>4 DEF m
  <1>2. near = {r \in 1..Min(pair) : Apart(hits[r].ts, case.expected) <= case.tolerance}
    <2> HIDE DEF pair
    <2>1. QED
      BY <1>1 DEF PlacesOf
  <1>3. evaluate_hit(hits, case, PerPath).rank = IF near = {} THEN 0 ELSE Min(near)
    <2> HIDE DEF near
    <2>1. QED
      BY <1>2 DEF evaluate_hit
  <1>4. near \in SUBSET (Nat \ {0})
    BY DEF PlacesOf
  <1> HIDE DEF near
  <1>5. near # {} => Min(near) \in near /\ \A r \in near : Min(near) <= r
    BY <1>4, MinOf
  <1>6. QED
    BY <1>3, <1>4, <1>5 DEF near

\* The mean reciprocal rank lies between the share of first places and the share
\* that passed, and reaches it only if every case that passed is first:
\* evaluate_hit, aggregate_metrics.
THEOREM MetricsOrdered == Spec => []MetricsAreOrdered
  <1>1. ASSUME IInv, SInv PROVE MetricsAreOrdered
    <2> SUFFICES ASSUME Answered PROVE MetricsAreOrdered
      BY DEF MetricsAreOrdered
    <2> DEFINE hits == search.hits
               results == search.results
               n == Len(hits)
               Near(i, r) == Apart(hits[r].ts, Cases[i].expected) <= Cases[i].tolerance
               passed == {i \in DOMAIN Cases : \E r \in DOMAIN hits : Near(i, r)}
               first == {i \in passed : Near(i, 1)}
               five == {i \in passed : \E r \in DOMAIN hits : r <= 5 /\ Near(i, r)}
               rank(i) == results[i].rank
    <2>1. DOMAIN hits = 1..n /\ n \in Nat /\ n <= PerPath
      <3>1. PICK scenes, place : Placed(scenes, place)
        BY <1>1, AnswerIsPlaced
      <3>2. QED
        BY <3>1 DEF Placed
    <2>2. results = [i \in DOMAIN Cases |-> evaluate_hit(hits, Cases[i], PerPath)]
      BY <1>1 DEF Answered, SInv, SearchFits, AnswerFits, AnswerOf
    <2>3. DOMAIN results = DOMAIN Cases /\ IsFiniteSet(DOMAIN Cases)
      <3>1. IsFiniteSet(DOMAIN Cases)
        BY AnswersAssumption, DomainIsFinite
      <3>2. QED
        BY <2>2, <3>1
    <2>4. ASSUME NEW i \in DOMAIN Cases
          PROVE  /\ rank(i) \in Nat /\ (rank(i) > 0 <=> i \in passed)
                 /\ rank(i) = 1 <=> i \in first
                 /\ rank(i) > 0 /\ rank(i) <= 5 <=> i \in five
      <3> DEFINE case == Cases[i]
                 near == PlacesOf(hits, case)
      <3>1. rank(i) = evaluate_hit(hits, case, PerPath).rank
        BY <2>2
      <3>2. /\ rank(i) \in Nat /\ (rank(i) > 0 <=> near # {})
            /\ near # {} => rank(i) \in near /\ \A r \in near : rank(i) <= r
        <4> HIDE DEF hits, n, case, rank, near
        <4>1. QED
          BY <2>1, <3>1, CaseIsJudged DEF n, near
      <3>3. \A r : r \in near <=> r \in 1..n /\ Near(i, r)
        BY <2>1 DEF PlacesOf
      <3>4. i \in passed <=> near # {}
        BY <2>1, <3>3
      <3>5. i \in first <=> near # {} /\ Near(i, 1)
        BY <3>4
      <3>6. i \in five <=> \E r \in near : r <= 5
        BY <2>1, <3>3, <3>4
      <3> HIDE DEF near, passed, first, five, rank, n, Near
      <3>7. rank(i) = 1 <=> i \in first
        <4>1. ASSUME near # {} PROVE 1 \in 1..n
          BY <2>1, <3>3, <4>1
        <4>2. ASSUME i \in first PROVE rank(i) = 1
          <5>1. 1 \in near
            BY <3>3, <3>5, <4>1, <4>2
          <5>2. rank(i) \in 1..n /\ rank(i) <= 1
            BY <3>2, <3>3, <5>1
          <5>3. QED
            BY <2>1, <5>2
        <4>3. ASSUME rank(i) = 1 PROVE i \in first
          BY <3>2, <3>3, <3>5, <4>3
        <4>4. QED
          BY <4>2, <4>3
      <3>8. rank(i) > 0 /\ rank(i) <= 5 <=> i \in five
        <4>1. ASSUME i \in five PROVE rank(i) > 0 /\ rank(i) <= 5
          <5>1. PICK r \in near : r <= 5
            BY <3>6, <4>1
          <5>2. rank(i) > 0 /\ rank(i) <= r /\ r \in 1..n
            BY <3>2, <3>3, <5>1
          <5>3. QED
            BY <2>1, <3>2, <5>1, <5>2
        <4>2. ASSUME rank(i) > 0, rank(i) <= 5 PROVE i \in five
          BY <3>2, <3>6, <4>2
        <4>3. QED
          BY <4>1, <4>2
      <3>9. QED
        BY <3>2, <3>4, <3>7, <3>8
    <2> DEFINE worth == [i \in passed |-> Unit \div rank(i)]
               metrics == aggregate_metrics(results)
               mrr == SumFunction(worth)
               p == Cardinality(passed)
               f == Cardinality(first)
    <2>5. passed \in SUBSET DOMAIN Cases /\ first \in SUBSET passed
      OBVIOUS
    <2>6. five \in SUBSET DOMAIN Cases
      OBVIOUS
    <2> HIDE DEF passed, first, five
    <2>7. metrics.top1 = f /\ metrics.top5 = Cardinality(five) /\ metrics.mrr = mrr
      <3> DEFINE P == {i \in DOMAIN results : results[i].rank > 0}
      <3>1. P = passed
        BY <2>3, <2>4, <2>5
      <3>2. {i \in P : results[i].rank = 1} = first
        BY <2>3, <2>4, <2>5
      <3>3. {i \in P : results[i].rank <= 5} = five
        BY <2>3, <2>4, <2>5, <2>6
      <3>4. /\ metrics.top1 = Cardinality({i \in P : results[i].rank = 1})
            /\ metrics.top5 = Cardinality({i \in P : results[i].rank <= 5})
            /\ metrics.mrr = SumFunction([i \in P |-> Unit \div results[i].rank])
        BY DEF aggregate_metrics
      <3> HIDE DEF P, metrics, results
      <3>5. QED
        BY <3>1, <3>2, <3>3, <3>4
    <2>8. IsFiniteSet(passed) /\ IsFiniteSet(first) /\ p \in Nat /\ f \in Nat
      <3>1. IsFiniteSet(passed)
        BY <2>3, <2>5, FS_Subset
      <3>2. IsFiniteSet(first)
        BY <2>5, <3>1, FS_Subset
      <3>3. QED
        BY <3>1, <3>2, FS_CardinalityType
    <2> HIDE DEF rank
    <2>9. ASSUME NEW i \in passed
          PROVE  /\ worth[i] = Unit \div rank(i) /\ worth[i] \in Nat /\ worth[i] <= Unit
                 /\ i \in first => worth[i] = Unit
                 /\ i \notin first => worth[i] < Unit
      <3>1. rank(i) \in Nat \ {0} /\ (rank(i) = 1 <=> i \in first)
        BY <2>4, <2>5
      <3>2. QED
        BY <3>1, PlaceIsWorth
    <2>10. Unit \in Nat \ {0}
      BY ScoreAssumption
    <2> DEFINE full == [i \in passed |-> Unit]
               firsts == [i \in first |-> Unit]
    <2>11. worth \in [passed -> Nat] /\ full \in [passed -> Nat] /\ firsts \in [first -> Nat]
      BY <2>9, <2>10
    <2>12. SumFunction(full) = p * Unit /\ SumFunction(firsts) = f * Unit
      BY <2>8, <2>10, SumOfSame
    <2>13. SumFunction(firsts) <= mrr /\ mrr \in Nat
      <3>1. \A i \in first : firsts[i] <= worth[i]
        BY <2>5, <2>9, <2>10
      <3> HIDE DEF worth, firsts
      <3>2. QED
        BY <2>5, <2>8, <2>11, <3>1, SumsCompare
    <2>14. /\ mrr <= SumFunction(full)
           /\ (\E i \in passed : worth[i] < full[i]) => mrr < SumFunction(full)
      <3>1. \A i \in passed : worth[i] <= full[i]
        BY <2>9
      <3>2. passed \in SUBSET passed
        OBVIOUS
      <3> HIDE DEF worth, full
      <3>3. QED
        BY <2>8, <2>11, <3>1, <3>2, SumsCompare
    <2>15. first # passed => mrr < SumFunction(full)
      <3> SUFFICES ASSUME first # passed PROVE mrr < SumFunction(full)
        OBVIOUS
      <3>1. PICK i \in passed : i \notin first
        BY <2>5
      <3>2. worth[i] < full[i]
        BY <2>9, <3>1
      <3> HIDE DEF worth, full
      <3>3. QED
        BY <2>14, <3>2
    <2> HIDE DEF worth, full, firsts, mrr, p, f, metrics
    <2>16. f * Unit \in Nat /\ p * Unit \in Nat
      BY <2>8, <2>10
    <2>17. /\ f * Unit <= mrr /\ mrr <= p * Unit
           /\ mrr = p * Unit <=> first = passed
      <3>1. first = passed => f = p
        BY DEF f, p
      <3>2. first = passed => mrr = p * Unit
        BY <2>8, <2>12, <2>13, <2>14, <2>16, <3>1
      <3>3. first # passed => mrr # p * Unit
        BY <2>12, <2>13, <2>15, <2>16
      <3>4. QED
        BY <2>12, <2>13, <2>14, <3>2, <3>3
    <2>18. QED
      BY <2>7, <2>17 DEF MetricsAreOrdered, metrics, f, p, passed, first, five
  <1>2. QED
    BY <1>1, MomentsInvariant, SearchInvariant, PTL
=============================================================================
