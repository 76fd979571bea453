----------------------------- MODULE ResumeProofs -----------------------------
(***************************************************************************)
(* Proofs about Resume, for every number of workers and attempts.          *)
(***************************************************************************)
EXTENDS Resume, TLAPS

\* Who holds the job is at the stage after the last on record, if he is at work,
\* and the job can take his failure.
HolderFits ==
  /\ \A w \in Workers : holder = w /\ at[w] # 0 => at[w] = recorded + 1
  /\ holder # NoWorker => status = "open"
  /\ status = "open" => attempts < MaxAttempts

\* Nobody is still before a stage, or at it, that he has on record.
StagesBehind ==
  \A s \in 1..recorded : by[s] \in Workers /\ (at[by[s]] = 0 \/ s < at[by[s]])

\* A result that waits for its push says what is on the worker's disk.
ResultsFit ==
  \A w \in Workers :
    /\ at[w] = 0 => result[w] = "none"
    /\ at[w] = 3 /\ result[w] # "none" =>
         result[w] = disk[w].srt /\ result[w] = IF separate[w] THEN "separated" ELSE "plain"
    /\ at[w] = 4 /\ result[w] # "none" => result[w] = disk[w].srt
    /\ at[w] = 5 /\ result[w] # "none" =>
         result[w] = (IF media.video THEN "all" ELSE "empty")
           /\ (media.video => disk[w].frames = "all")
    /\ at[w] \in 6..8 /\ result[w] # "none" =>
         result[w] = IF disk[w].frames = "none" THEN "empty" ELSE disk[w].frames

\* A run that went through locate_media knows whether the stream sings.
DecisionsFit == \A w \in Workers : decided[w] => separate[w] = media.sings

\* What is on record of transcribe and frames is still on the disk of the worker
\* who did it, and the SRT is also in the store.
SourcesKept ==
  /\ recorded >= 3 => store.srt = disk[by[3]].srt
  /\ recorded >= 5 /\ media.video => disk[by[5]].frames = "all"

IInv ==
  /\ TypeOK /\ HolderFits /\ StagesBehind /\ ResultsFit /\ DecisionsFit /\ SourcesKept
  /\ LocalResumeIsExact /\ TranscriptIsTheStoredSrt
  /\ ServedFramesExist /\ SingingIsSeparated

-----------------------------------------------------------------------------
(* The stages by their numbers.                                            *)

LEMMA StageNames ==
  /\ Len(STAGES) = 8
  /\ \A s \in 1..8 :
       /\ STAGES[s] = "register" <=> s = 1
       /\ STAGES[s] = "locate_media" <=> s = 2
       /\ STAGES[s] = "transcribe" <=> s = 3
       /\ STAGES[s] = "parse_transcript" <=> s = 4
       /\ STAGES[s] = "frames" <=> s = 5
       /\ STAGES[s] = "ocr" <=> s = 6
       /\ STAGES[s] = "classify" <=> s = 7
       /\ STAGES[s] = "image_embed" <=> s = 8
  BY DEF STAGES

LEMMA Positions ==
  /\ Position("transcribe") = 3 /\ Position("parse_transcript") = 4
  /\ Position("frames") = 5 /\ Position("ocr") = 6
  /\ Position("classify") = 7 /\ Position("image_embed") = 8
  BY StageNames DEF Position

LEMMA RecordedByNumber ==
  ASSUME recorded \in 0..8
  PROVE  /\ OnRecord("transcribe") <=> recorded >= 3
         /\ OnRecord("parse_transcript") <=> recorded >= 4
         /\ OnRecord("ocr") <=> recorded >= 6
         /\ OnRecord("classify") <=> recorded >= 7
         /\ OnRecord("image_embed") <=> recorded >= 8
  <1>1. \A s \in 1..recorded : s \in 1..8
    OBVIOUS
  <1>2. QED
    BY <1>1, StageNames DEF OnRecord

\* The properties of Resume with the stages' numbers for their names.
Exact ==
  media.video =>
    /\ recorded >= 6 /\ by[6] = by[5] => rows.ocr = "all"
    /\ recorded >= 7 /\ by[7] = by[5] => rows.classify = "all" /\ rows.stream_type = "dominant"
    /\ recorded >= 8 /\ by[8] = by[5] => rows.image_embed = "all"

Transcript == recorded >= 4 /\ by[3] = by[4] => rows.transcript = store.srt

Singing == recorded >= 3 /\ media.sings /\ decidedBy => store.srt = "separated"

LEMMA PropertiesByNumber ==
  ASSUME recorded \in 0..8
  PROVE  /\ LocalResumeIsExact <=> Exact
         /\ TranscriptIsTheStoredSrt <=> Transcript
         /\ SingingIsSeparated <=> Singing
  <1>1. LocalResumeIsExact <=> Exact
    BY RecordedByNumber, Positions DEF LocalResumeIsExact, Exact, SameWorker, Visual
  <1>2. TranscriptIsTheStoredSrt <=> Transcript
    BY RecordedByNumber, Positions DEF TranscriptIsTheStoredSrt, Transcript, SameWorker
  <1>3. SingingIsSeparated <=> Singing
    BY RecordedByNumber DEF SingingIsSeparated, Singing
  <1>4. QED
    BY <1>1, <1>2, <1>3

\* The inductive invariant in the form in which the steps are proved.
Numbered ==
  /\ TypeOK /\ HolderFits /\ StagesBehind /\ ResultsFit /\ DecisionsFit /\ SourcesKept
  /\ Exact /\ Transcript /\ ServedFramesExist /\ Singing

LEMMA NumberedIsIInv == Numbered <=> IInv
  BY PropertiesByNumber, StageNames DEF Numbered, IInv, TypeOK

\* What the coordinator holds has its types.
ServerTypes ==
  /\ recorded \in 0..8 /\ decidedBy \in BOOLEAN
  /\ by \in [1..8 -> Workers \cup {NoWorker}]
  /\ rows \in [transcript : {"none", "plain", "separated"},
               frames : Results, ocr : Results, classify : Results, image_embed : Results,
               stream_type : {"asked", "chatting", "dominant"}]
  /\ store \in [srt : {"none", "plain", "separated"}, frames : {"none", "all"}]

\* What a worker computed is of the kind its stage pushes.
LEMMA ResultKinds ==
  ASSUME TypeOK, ResultsFit, NEW w \in Workers, result[w] # "none"
  PROVE  /\ at[w] = 3 => result[w] \in {"plain", "separated"}
         /\ at[w] = 4 => result[w] \in {"plain", "separated"}
         /\ at[w] = 5 => result[w] \in {"all", "empty"}
         /\ at[w] \in 6..8 => result[w] \in {"empty", "some", "all"}
  <1>1. /\ disk[w].srt \in {"none", "plain", "separated"}
        /\ disk[w].frames \in {"none", "some", "all"}
    BY DEF TypeOK, Files
  <1>2. QED
    BY <1>1 DEF ResultsFit

\* What a push that is taken puts on record.
LEMMA RecordsEffect ==
  ASSUME Numbered, NEW w \in Workers, at[w] \in 1..8, result[w] # "none",
         holder = w, Records(w)
  PROVE  /\ recorded' = recorded + 1 /\ recorded' = at[w] /\ ServerTypes'
         /\ by'[at[w]] = w /\ \A s \in 1..8 : s # at[w] => by'[s] = by[s]
         /\ at[w] # 3 => store'.srt = store.srt /\ decidedBy' = decidedBy
         /\ at[w] = 3 => store'.srt = result[w] /\ decidedBy' = decided[w]
         /\ store'.frames = store.frames \/ store'.frames = "all"
         /\ at[w] = 5 /\ result[w] = "all" => store'.frames = "all"
         /\ rows'.transcript = IF at[w] = 4 THEN result[w] ELSE rows.transcript
         /\ rows'.frames = IF at[w] = 5 THEN result[w] ELSE rows.frames
         /\ rows'.ocr = IF at[w] = 6 THEN result[w] ELSE rows.ocr
         /\ rows'.classify = IF at[w] = 7 THEN result[w] ELSE rows.classify
         /\ rows'.image_embed = IF at[w] = 8 THEN result[w] ELSE rows.image_embed
         /\ rows'.stream_type = IF at[w] = 7
                                  THEN IF result[w] = "empty" THEN "chatting" ELSE "dominant"
                                  ELSE rows.stream_type
  <1> USE DEF Numbered
  <1>1. recorded' = at[w] /\ at[w] = recorded + 1
    BY DEF Records, HolderFits
  <1>2. by' = [by EXCEPT ![at[w]] = w] /\ by \in [1..8 -> Workers \cup {NoWorker}]
    BY StageNames DEF Records, TypeOK
  <1>3. /\ rows' = Persisted(STAGES[at[w]], result[w])
        /\ store' = Saved(STAGES[at[w]], result[w])
        /\ decidedBy' = IF STAGES[at[w]] = "transcribe" THEN decided[w] ELSE decidedBy
    BY DEF Records, Stage
  <1>4. rows \in [transcript : {"none", "plain", "separated"},
                 frames : Results, ocr : Results, classify : Results, image_embed : Results,
                 stream_type : {"asked", "chatting", "dominant"}]
    BY DEF TypeOK
  <1>5. /\ store \in [srt : {"none", "plain", "separated"}, frames : {"none", "all"}]
        /\ decided[w] \in BOOLEAN /\ decidedBy \in BOOLEAN
    BY DEF TypeOK
  <1>6. /\ at[w] # 3 => store'.srt = store.srt
        /\ at[w] = 3 => store'.srt = result[w]
        /\ store'.frames = store.frames \/ store'.frames = "all"
        /\ at[w] = 5 /\ result[w] = "all" => store'.frames = "all"
        /\ store' \in [srt : {"none", "plain", "separated"}, frames : {"none", "all"}]
    BY <1>3, <1>5, StageNames, ResultKinds DEF Saved
  <1>7. /\ at[w] = 3 => decidedBy' = decided[w]
        /\ at[w] # 3 => decidedBy' = decidedBy
    BY <1>3, StageNames
  <1>8. CASE at[w] \in 1..3
    <2>1. rows' = rows
      BY <1>3, <1>8, StageNames DEF Persisted
    <2>2. QED
      BY <1>1, <1>2, <1>4, <1>5, <1>6, <1>7, <1>8, <2>1 DEF ServerTypes
  <1>9. CASE at[w] = 4
    <2>1. rows' = [rows EXCEPT !.transcript = result[w]]
      BY <1>3, <1>9, StageNames DEF Persisted
    <2>2. QED
      BY <1>1, <1>2, <1>4, <1>5, <1>6, <1>7, <1>9, <2>1, ResultKinds DEF ServerTypes
  <1>10. CASE at[w] = 5
    <2>1. rows' = [rows EXCEPT !.frames = result[w]]
      BY <1>3, <1>10, StageNames DEF Persisted
    <2>2. QED
      BY <1>1, <1>2, <1>4, <1>5, <1>6, <1>7, <1>10, <2>1, ResultKinds DEF ServerTypes, Results
  <1>11. CASE at[w] = 6
    <2>1. rows' = [rows EXCEPT !.ocr = result[w]]
      BY <1>3, <1>11, StageNames DEF Persisted
    <2>2. QED
      BY <1>1, <1>2, <1>4, <1>5, <1>6, <1>7, <1>11, <2>1, ResultKinds DEF ServerTypes, Results
  <1>12. CASE at[w] = 7
    <2> DEFINE type == IF result[w] = "empty" THEN "chatting" ELSE "dominant"
    <2>1. rows' = [rows EXCEPT !.classify = result[w], !.stream_type = type]
      BY <1>3, <1>12, StageNames DEF Persisted
    <2>2. type \in {"asked", "chatting", "dominant"} /\ result[w] \in Results
      BY <1>12, ResultKinds DEF Results
    <2>3. type = IF result[w] = "empty" THEN "chatting" ELSE "dominant"
      OBVIOUS
    <2> HIDE DEF type
    <2>4. /\ rows'.stream_type = type /\ rows'.classify = result[w]
          /\ rows'.transcript = rows.transcript /\ rows'.frames = rows.frames
          /\ rows'.ocr = rows.ocr /\ rows'.image_embed = rows.image_embed
      BY <1>4, <2>1
    <2>5. rows' \in [transcript : {"none", "plain", "separated"},
                    frames : Results, ocr : Results, classify : Results, image_embed : Results,
                    stream_type : {"asked", "chatting", "dominant"}]
      BY <1>4, <2>1, <2>2
    <2>6. ServerTypes'
      BY <1>1, <1>2, <1>5, <1>6, <1>7, <1>12, <2>5 DEF ServerTypes
    <2>7. QED
      BY <1>1, <1>2, <1>6, <1>7, <1>12, <2>3, <2>4, <2>6
  <1>13. CASE at[w] = 8
    <2>1. rows' = [rows EXCEPT !.image_embed = result[w]]
      BY <1>3, <1>13, StageNames DEF Persisted
    <2>2. QED
      BY <1>1, <1>2, <1>4, <1>5, <1>6, <1>7, <1>13, <2>1, ResultKinds DEF ServerTypes, Results
  <1>14. QED
    BY <1>8, <1>9, <1>10, <1>11, <1>12, <1>13

\* What the coordinator promises about the data survives a push that is taken.
LEMMA RecordsKeeps ==
  ASSUME Numbered, NEW w \in Workers, at[w] \in 1..8, result[w] # "none",
         holder = w, Records(w), UNCHANGED <<media, disk>>,
         \A v \in Workers : v # w => at'[v] = at[v],
         at'[w] = 0 \/ at'[w] = at[w] + 1
  PROVE  /\ StagesBehind' /\ SourcesKept'
         /\ Exact' /\ Transcript' /\ ServedFramesExist' /\ Singing'
  <1> USE DEF Numbered
  <1>1. recorded' = recorded + 1 /\ recorded' = at[w] /\ recorded \in 0..8
    BY RecordsEffect, StageNames DEF TypeOK
  <1>2. by'[at[w]] = w /\ \A s \in 1..8 : s # at[w] => by'[s] = by[s]
    BY RecordsEffect
  <1>3. StagesBehind'
    <2>1. ASSUME NEW s \in 1..recorded'
          PROVE  by'[s] \in Workers /\ (at'[by'[s]] = 0 \/ s < at'[by'[s]])
      <3>1. CASE s = at[w]
        BY <1>2, <3>1
      <3>2. CASE s # at[w]
        <4>1. s \in 1..recorded /\ s < at[w] /\ by'[s] = by[s]
          BY <1>1, <1>2, <2>1, <3>2
        <4>2. QED
          BY <4>1 DEF StagesBehind
      <3>3. QED
        BY <3>1, <3>2
    <2>2. QED
      BY <2>1 DEF StagesBehind
  <1>4. SourcesKept'
    <2>1. at[w] = 3 => store'.srt = disk[w].srt
      BY RecordsEffect DEF ResultsFit
    <2>2. at[w] > 3 => store'.srt = store.srt /\ by'[3] = by[3]
      BY <1>1, <1>2, RecordsEffect
    <2>3. at[w] = 5 /\ media.video => disk[w].frames = "all"
      BY DEF ResultsFit
    <2>4. at[w] > 5 => by'[5] = by[5]
      BY <1>1, <1>2
    <2>5. QED
      BY <1>1, <1>2, <2>1, <2>2, <2>3, <2>4 DEF SourcesKept
  <1>5. Singing'
    <2>1. at[w] = 3 /\ media.sings /\ decided[w] => result[w] = "separated"
      BY DEF ResultsFit, DecisionsFit
    <2>2. at[w] = 3 => decidedBy' = decided[w] /\ store'.srt = result[w]
      BY RecordsEffect
    <2>3. at[w] > 3 => decidedBy' = decidedBy /\ store'.srt = store.srt /\ recorded >= 3
      BY <1>1, RecordsEffect
    <2>4. at[w] < 3 => ~(recorded' >= 3)
      BY <1>1
    <2>5. SUFFICES ASSUME recorded' >= 3, media'.sings, decidedBy'
                   PROVE  store'.srt = "separated"
      BY DEF Singing
    <2>6. CASE at[w] = 3
      <3>1. decided[w]
        BY <2>2, <2>5, <2>6, Zenon
      <3>2. QED
        BY <2>1, <2>2, <2>5, <2>6, <3>1
    <2>7. CASE at[w] > 3
      <3>1. decidedBy
        BY <2>3, <2>5, <2>7, Zenon
      <3>2. QED
        BY <2>3, <2>5, <2>7, <3>1 DEF Singing
    <2>8. QED
      BY <2>4, <2>5, <2>6, <2>7
  <1>6. Transcript'
    <2>1. at[w] = 4 /\ by[3] = w => result[w] = store.srt
      BY <1>1 DEF ResultsFit, SourcesKept
    <2>2. at[w] = 4 => by'[3] = by[3] /\ by'[4] = w /\ rows'.transcript = result[w]
                        /\ store'.srt = store.srt
      BY <1>2, RecordsEffect
    <2>3. at[w] > 4 => by'[3] = by[3] /\ by'[4] = by[4] /\ rows'.transcript = rows.transcript
                        /\ store'.srt = store.srt
      BY <1>1, <1>2, RecordsEffect
    <2>4. QED
      BY <1>1, <2>1, <2>2, <2>3 DEF Transcript
  <1>7. ServedFramesExist'
    <2>1. at[w] = 5 => rows'.frames = result[w] /\ (result[w] = "all" => store'.frames = "all")
      BY RecordsEffect
    <2>2. at[w] # 5 => rows'.frames = rows.frames
      BY RecordsEffect
    <2>3. store'.frames = store.frames \/ store'.frames = "all"
      BY RecordsEffect
    <2>4. QED
      BY <2>1, <2>2, <2>3 DEF ServedFramesExist
  <1>8. Exact'
    <2>1. SUFFICES ASSUME media.video PROVE Exact'
      BY DEF Exact
    <2>2. at[w] \in 6..8 /\ by[5] = w => result[w] = "all"
      BY <1>1, <2>1 DEF ResultsFit, SourcesKept
    <2>3. at[w] > 5 => by'[5] = by[5]
      BY <1>1, <1>2
    <2>4. recorded' >= 6 /\ by'[6] = by'[5] => rows'.ocr = "all"
      BY <1>1, <1>2, <2>1, <2>2, <2>3, RecordsEffect DEF Exact
    <2>5. recorded' >= 7 /\ by'[7] = by'[5] =>
            rows'.classify = "all" /\ rows'.stream_type = "dominant"
      BY <1>1, <1>2, <2>1, <2>2, <2>3, RecordsEffect DEF Exact
    <2>6. recorded' >= 8 /\ by'[8] = by'[5] => rows'.image_embed = "all"
      BY <1>1, <1>2, <2>1, <2>2, <2>3, RecordsEffect DEF Exact
    <2>7. QED
      BY <2>4, <2>5, <2>6 DEF Exact
  <1>9. QED
    BY <1>3, <1>4, <1>5, <1>6, <1>7, <1>8

-----------------------------------------------------------------------------
(* The three sides of the state: the jobs row, the coordinator's data and   *)
(* the workers.                                                            *)

JobTypes ==
  /\ status \in {"open", "failed", "complete"}
  /\ attempts \in 0..MaxAttempts
  /\ holder \in Workers \cup {NoWorker}

WorkerTypes ==
  /\ media \in [video : BOOLEAN, sings : BOOLEAN]
  /\ disk \in [Workers -> Files]
  /\ at \in [Workers -> 0..9]
  /\ decided \in [Workers -> BOOLEAN]
  /\ separate \in [Workers -> BOOLEAN]
  /\ result \in [Workers -> Results \cup {"done", "plain", "separated"}]

JobSide == JobTypes /\ HolderFits

ServerSide ==
  /\ ServerTypes /\ StagesBehind /\ SourcesKept
  /\ Exact /\ Transcript /\ ServedFramesExist /\ Singing

WorkerSide == WorkerTypes /\ ResultsFit /\ DecisionsFit

LEMMA Sides == Numbered <=> JobSide /\ ServerSide /\ WorkerSide
  <1>1. TypeOK <=> JobTypes /\ ServerTypes /\ WorkerTypes
    BY StageNames DEF TypeOK, JobTypes, ServerTypes, WorkerTypes
  <1>2. QED
    BY <1>1 DEF Numbered, JobSide, ServerSide, WorkerSide

LEMMA SidesNext == JobSide' /\ ServerSide' /\ WorkerSide' => Numbered'
  <1>1. JobTypes' /\ ServerTypes' /\ WorkerTypes' => TypeOK'
    BY StageNames DEF TypeOK, JobTypes, ServerTypes, WorkerTypes
  <1>2. QED
    BY <1>1 DEF Numbered, JobSide, ServerSide, WorkerSide

\* The coordinator's data is as good as it was while it does not change, and no
\* disk loses what is on record of it.
LEMMA ServerKept ==
  ASSUME Numbered, UNCHANGED <<media, serverVars>>,
         \A v \in Workers :
           /\ disk'[v].srt = disk[v].srt \/ at[v] = 3
           /\ disk[v].frames = "all" => disk'[v].frames = "all"
           /\ at'[v] = 0 \/ at'[v] = at[v] \/ at'[v] = recorded + 1
  PROVE  ServerSide'
  <1> USE DEF Numbered
  <1>1. UNCHANGED <<recorded, by, decidedBy, rows, store>> /\ recorded \in 0..8
    BY StageNames DEF serverVars, TypeOK
  <1>2. ServerTypes'
    BY <1>1, Sides DEF ServerSide, ServerTypes
  <1>3. StagesBehind'
    BY <1>1 DEF StagesBehind
  <1>4. SourcesKept'
    <2>1. recorded >= 3 => by[3] \in Workers /\ at[by[3]] # 3
      BY <1>1 DEF StagesBehind
    <2>2. recorded >= 5 => by[5] \in Workers
      BY <1>1 DEF StagesBehind
    <2>3. QED
      BY <1>1, <2>1, <2>2 DEF SourcesKept
  <1>5. Exact' /\ Transcript' /\ ServedFramesExist' /\ Singing'
    BY <1>1 DEF Exact, Transcript, ServedFramesExist, Singing
  <1>6. QED
    BY <1>2, <1>3, <1>4, <1>5 DEF ServerSide

\* Nor does it suffer from a push that is rolled back and leaves its files.
LEMMA FilesKept ==
  ASSUME Numbered, NEW w \in Workers, at[w] \in 1..8, result[w] # "none", holder = w,
         store' = Saved(Stage(w), result[w]),
         UNCHANGED <<media, disk, recorded, by, decidedBy, rows>>,
         \A v \in Workers : at'[v] = 0 \/ at'[v] = at[v]
  PROVE  ServerSide'
  <1> USE DEF Numbered
  <1>1. at[w] = recorded + 1 /\ recorded \in 0..8
    BY StageNames DEF HolderFits, TypeOK
  <1>2. store \in [srt : {"none", "plain", "separated"}, frames : {"none", "all"}]
    BY DEF TypeOK
  <1>3. /\ at[w] # 3 => store'.srt = store.srt
        /\ store'.frames = store.frames \/ store'.frames = "all"
        /\ store' \in [srt : {"none", "plain", "separated"}, frames : {"none", "all"}]
    BY <1>2, StageNames, ResultKinds DEF Saved, Stage
  <1>4. ServerTypes'
    BY <1>3, Sides DEF ServerSide, ServerTypes
  <1>5. StagesBehind'
    BY DEF StagesBehind
  <1>6. recorded >= 3 => store'.srt = store.srt
    BY <1>1, <1>3
  <1>7. SourcesKept' /\ Transcript' /\ Singing'
    BY <1>1, <1>6 DEF SourcesKept, Transcript, Singing
  <1>8. Exact' /\ ServedFramesExist'
    BY <1>3 DEF Exact, ServedFramesExist
  <1>9. QED
    BY <1>4, <1>5, <1>7, <1>8 DEF ServerSide

\* Nor from a push that is taken.
LEMMA RecordsServerSide ==
  ASSUME Numbered, NEW w \in Workers, at[w] \in 1..8, result[w] # "none",
         holder = w, Records(w), UNCHANGED <<media, disk>>,
         \A v \in Workers : v # w => at'[v] = at[v],
         at'[w] = 0 \/ at'[w] = at[w] + 1
  PROVE  ServerSide'
  BY RecordsEffect, RecordsKeeps DEF ServerSide

\* What a worker that leaves may change of its disk.
HalfLeft(w) ==
  /\ disk' \in [Workers -> Files]
  /\ \A v \in Workers :
       /\ v # w => disk'[v] = disk[v]
       /\ disk'[v].srt = disk[v].srt
       /\ disk[v].frames = "all" => disk'[v].frames = "all"

LEMMA MayLeaveHalfEffect ==
  ASSUME Numbered, NEW w \in Workers, MayLeaveHalf(w) \/ UNCHANGED disk
  PROVE  HalfLeft(w)
  <1>1. disk \in [Workers -> Files] /\ disk[w] \in Files
    BY DEF Numbered, TypeOK
  <1>2. CASE UNCHANGED disk
    BY <1>1, <1>2 DEF HalfLeft
  <1>3. CASE disk[w].frames = "none" /\ disk' = [disk EXCEPT ![w].frames = "some"]
    BY <1>1, <1>3 DEF HalfLeft, Files
  <1>4. QED
    BY <1>2, <1>3 DEF MayLeaveHalf

\* A worker that leaves has no result and no decision any more.
LEMMA LeaveKeeps ==
  ASSUME Numbered, NEW w \in Workers, Leave(w), HalfLeft(w), UNCHANGED <<media, separate>>
  PROVE  /\ WorkerSide' /\ at'[w] = 0
         /\ \A v \in Workers : v # w => at'[v] = at[v]
  <1> USE DEF Numbered
  <1>1. WorkerTypes
    BY Sides DEF WorkerSide
  <1>2. /\ at'[w] = 0 /\ ~decided'[w] /\ result'[w] = "none"
        /\ \A v \in Workers : v # w =>
             at'[v] = at[v] /\ decided'[v] = decided[v] /\ result'[v] = result[v]
    BY <1>1 DEF Leave, WorkerTypes
  <1>3. WorkerTypes'
    BY <1>1 DEF WorkerTypes, Leave, HalfLeft, Results
  <1>4. ResultsFit'
    BY <1>2 DEF ResultsFit, HalfLeft
  <1>5. DecisionsFit'
    BY <1>2 DEF DecisionsFit
  <1>6. QED
    BY <1>2, <1>3, <1>4, <1>5 DEF WorkerSide

\* A row whose holder fails has one attempt less and no holder; nobody else's
\* failure touches it.
LEMMA FailsKeeps ==
  ASSUME Numbered, NEW w \in Workers, Fails(w), holder # w => UNCHANGED recorded
  PROVE  JobSide'
  <1> USE DEF Numbered
  <1>1. /\ at'[w] = 0 /\ \A v \in Workers : v # w => at'[v] = at[v]
        /\ JobTypes /\ MaxAttempts \in Nat \ {0} /\ NoWorker \notin Workers
    BY Sides, WorkersAssumption DEF Fails, Leave, JobSide, WorkerSide, WorkerTypes
  <1>2. CASE holder = w /\ status' = "failed" /\ attempts' = attempts + 1 /\ holder' = NoWorker
    <2>1. attempts < MaxAttempts
      BY <1>1, <1>2 DEF HolderFits
    <2>2. QED
      BY <1>1, <1>2, <2>1 DEF JobSide, JobTypes, HolderFits
  <1>3. CASE holder # w /\ UNCHANGED jobVars
    BY <1>1, <1>3 DEF JobSide, JobTypes, HolderFits, jobVars
  <1>4. QED
    BY <1>2, <1>3 DEF Fails

-----------------------------------------------------------------------------
(* The steps.                                                              *)

LEMMA ClaimStep ==
  ASSUME Numbered, NEW w \in Workers, Claim(w)
  PROVE  Numbered'
  <1> USE DEF Numbered
  <1>1. /\ JobTypes /\ WorkerTypes /\ recorded \in 0..8
        /\ NoWorker \notin Workers /\ MaxAttempts \in Nat \ {0}
    BY Sides, WorkersAssumption DEF JobSide, WorkerSide, ServerSide, ServerTypes
  <1>2. /\ at[w] = 0 /\ holder' = w /\ status' = "open"
        /\ at'[w] = recorded + 1 /\ \A v \in Workers : v # w => at'[v] = at[v]
        /\ UNCHANGED <<media, attempts, disk, result, serverVars>>
        /\ decided' = [decided EXCEPT ![w] = FALSE] /\ separate' = [separate EXCEPT ![w] = FALSE]
    BY <1>1 DEF Claim, WorkerTypes
  <1>3. attempts < MaxAttempts
    BY DEF Claim, HolderFits
  <1>4. JobSide'
    BY <1>1, <1>2, <1>3 DEF JobSide, JobTypes, HolderFits, serverVars
  <1>5. ServerSide'
    BY <1>2, ServerKept
  <1>6. WorkerTypes'
    BY <1>1, <1>2 DEF WorkerTypes, Claim
  <1>7. ResultsFit'
    <2>1. result[w] = "none" /\ \A v \in Workers : v # w => separate'[v] = separate[v]
      BY <1>1, <1>2 DEF ResultsFit, WorkerTypes
    <2>2. QED
      BY <1>2, <2>1 DEF ResultsFit
  <1>8. DecisionsFit'
    BY <1>1, <1>2 DEF DecisionsFit, WorkerTypes
  <1>9. WorkerSide'
    BY <1>6, <1>7, <1>8 DEF WorkerSide
  <1> HIDE DEF Numbered
  <1>10. QED
    BY <1>4, <1>5, <1>9, SidesNext

\* What any compute does: w's result is there, on a disk that is kept.
Computed(w, out) ==
  /\ at[w] \in 1..8
  /\ out \in Results \cup {"done", "plain", "separated"}
  /\ result' = [result EXCEPT ![w] = out]
  /\ disk' \in [Workers -> Files]
  /\ \A v \in Workers : v # w => disk'[v] = disk[v]
  /\ disk'[w].srt = disk[w].srt \/ at[w] = 3
  /\ disk[w].frames = "all" => disk'[w].frames = "all"
  /\ UNCHANGED <<media, jobVars, serverVars, at>>

\* The result of w's stage says what is on its disk.
ResultFits(w, out) ==
  /\ at[w] = 3 => out = disk'[w].srt /\ out = IF separate[w] THEN "separated" ELSE "plain"
  /\ at[w] = 4 => out = disk'[w].srt
  /\ at[w] = 5 =>
       out = (IF media.video THEN "all" ELSE "empty") /\ (media.video => disk'[w].frames = "all")
  /\ at[w] \in 6..8 => out = IF disk'[w].frames = "none" THEN "empty" ELSE disk'[w].frames

LEMMA ComputedKeeps ==
  ASSUME Numbered, NEW w \in Workers, NEW out, Computed(w, out), ResultFits(w, out),
         UNCHANGED <<decided, separate>>
         \/ (at[w] = 2 /\ separate' = [separate EXCEPT ![w] = media.sings]
                      /\ decided' = [decided EXCEPT ![w] = TRUE])
  PROVE  Numbered'
  <1> USE DEF Numbered, Computed
  <1>1. JobTypes /\ WorkerTypes
    BY Sides DEF JobSide, WorkerSide
  <1>2. JobSide'
    BY <1>1 DEF JobSide, JobTypes, HolderFits, jobVars, serverVars
  <1>3. ServerSide'
    BY ServerKept
  <1>4. /\ decided' \in [Workers -> BOOLEAN] /\ separate' \in [Workers -> BOOLEAN]
        /\ at[w] # 2 => separate' = separate /\ decided' = decided
        /\ \A v \in Workers : v # w => separate'[v] = separate[v] /\ decided'[v] = decided[v]
    BY <1>1 DEF WorkerTypes
  <1>5. DecisionsFit'
    <2>1. CASE UNCHANGED <<decided, separate>>
      BY <2>1 DEF DecisionsFit
    <2>2. CASE at[w] = 2 /\ separate' = [separate EXCEPT ![w] = media.sings]
      <3>1. separate'[w] = media.sings
        BY <1>1, <2>2 DEF WorkerTypes
      <3>2. QED
        BY <1>4, <3>1 DEF DecisionsFit
    <2>3. QED
      BY <2>1, <2>2
  <1>6. WorkerTypes'
    BY <1>1, <1>4 DEF WorkerTypes
  <1>7. ResultsFit'
    <2>1. result'[w] = out /\ \A v \in Workers : v # w => result'[v] = result[v]
      BY <1>1 DEF WorkerTypes
    <2>2. ASSUME NEW v \in Workers, v # w
          PROVE  /\ at'[v] = at[v] /\ result'[v] = result[v] /\ disk'[v] = disk[v]
                 /\ separate'[v] = separate[v]
      BY <1>4, <2>1, <2>2
    <2>3. at[w] = 3 => separate' = separate
      BY <1>4
    <2>4. QED
      BY <2>1, <2>2, <2>3 DEF ResultsFit, ResultFits
  <1>8. WorkerSide'
    BY <1>5, <1>6, <1>7 DEF WorkerSide
  <1> HIDE DEF Numbered
  <1>9. QED
    BY <1>2, <1>3, <1>8, SidesNext

\* The stage a worker is in, by its number.
LEMMA ComputesEffect ==
  ASSUME Numbered, NEW w \in Workers, NEW stage, NEW out, Computes(w, stage, out),
         out \in Results \cup {"done", "plain", "separated"}
  PROVE  /\ at[w] \in 1..8 /\ STAGES[at[w]] = stage
         /\ result' = [result EXCEPT ![w] = out]
         /\ UNCHANGED <<media, jobVars, serverVars, at>>
         /\ disk[w] \in Files /\ disk \in [Workers -> Files]
  BY StageNames DEF Computes, InStage, Stage, Numbered, TypeOK

LEMMA ComputeStep ==
  ASSUME Numbered, NEW w \in Workers, Compute(w)
  PROVE  Numbered'
  <1>1. CASE ComputeRegister(w)
    <2>1. Computes(w, "register", "done") /\ UNCHANGED <<disk, decided, separate>>
      BY <1>1 DEF ComputeRegister
    <2>2. Computed(w, "done") /\ at[w] = 1
      BY <2>1, ComputesEffect, StageNames DEF Computed
    <2>3. ResultFits(w, "done")
      BY <2>2 DEF ResultFits
    <2>4. QED
      BY <2>1, <2>2, <2>3, ComputedKeeps
  <1>2. CASE ComputeLocate(w)
    <2>1. /\ Computes(w, "locate_media", "done") /\ disk' = [disk EXCEPT ![w].audio = TRUE]
          /\ separate' = [separate EXCEPT ![w] = media.sings]
          /\ decided' = [decided EXCEPT ![w] = TRUE]
      BY <1>2 DEF ComputeLocate
    <2>2. /\ disk' \in [Workers -> Files] /\ \A v \in Workers : v # w => disk'[v] = disk[v]
          /\ disk'[w].srt = disk[w].srt /\ disk'[w].frames = disk[w].frames
      <3>1. disk[w] \in Files /\ disk \in [Workers -> Files]
        BY <2>1, ComputesEffect
      <3>2. [disk[w] EXCEPT !.audio = TRUE] \in Files
        BY <3>1 DEF Files
      <3>3. /\ [disk[w] EXCEPT !.audio = TRUE].srt = disk[w].srt
            /\ [disk[w] EXCEPT !.audio = TRUE].frames = disk[w].frames
        BY <3>1 DEF Files
      <3>4. QED
        BY <2>1, <3>1, <3>2, <3>3
    <2>3. Computed(w, "done") /\ at[w] = 2
      BY <2>1, <2>2, ComputesEffect, StageNames DEF Computed
    <2>4. ResultFits(w, "done")
      BY <2>3 DEF ResultFits
    <2>5. QED
      BY <2>1, <2>3, <2>4, ComputedKeeps
  <1>3. CASE ComputeTranscribe(w)
    <2> DEFINE srt == IF separate[w] THEN "separated" ELSE "plain"
    <2>1. /\ Computes(w, "transcribe", srt) /\ disk' = [disk EXCEPT ![w].srt = srt]
          /\ UNCHANGED <<decided, separate>> /\ srt \in {"plain", "separated"}
      BY <1>3 DEF ComputeTranscribe
    <2>2. srt = IF separate[w] THEN "separated" ELSE "plain"
      OBVIOUS
    <2> HIDE DEF srt
    <2>3. /\ disk' \in [Workers -> Files] /\ \A v \in Workers : v # w => disk'[v] = disk[v]
          /\ disk'[w].srt = srt /\ disk'[w].frames = disk[w].frames
      BY <2>1, ComputesEffect DEF Files
    <2>4. Computed(w, srt) /\ at[w] = 3
      BY <2>1, <2>3, ComputesEffect, StageNames DEF Computed
    <2>5. ResultFits(w, srt)
      BY <2>2, <2>3, <2>4 DEF ResultFits
    <2>6. QED
      BY <2>1, <2>4, <2>5, ComputedKeeps
  <1>4. CASE ComputeParse(w)
    <2> DEFINE srt == disk[w].srt
    <2>1. /\ Computes(w, "parse_transcript", srt) /\ UNCHANGED <<disk, decided, separate>>
      BY <1>4 DEF ComputeParse
    <2>2. srt \in {"plain", "separated"}
      BY <1>4 DEF ComputeParse, Numbered, TypeOK, Files
    <2>3. Computed(w, srt) /\ at[w] = 4
      BY <2>1, <2>2, ComputesEffect, StageNames DEF Computed
    <2>4. ResultFits(w, srt)
      BY <2>1, <2>3 DEF ResultFits
    <2>5. QED
      BY <2>1, <2>3, <2>4, ComputedKeeps
  <1>5. CASE ComputeFrames(w)
    <2>1. CASE media.video
      <3>1. /\ Computes(w, "frames", "all") /\ disk' = [disk EXCEPT ![w].frames = "all"]
            /\ UNCHANGED <<decided, separate>>
        BY <1>5, <2>1 DEF ComputeFrames
      <3>2. /\ disk' \in [Workers -> Files] /\ \A v \in Workers : v # w => disk'[v] = disk[v]
            /\ disk'[w].srt = disk[w].srt /\ disk'[w].frames = "all"
        BY <3>1, ComputesEffect DEF Files, Results
      <3>3. Computed(w, "all") /\ at[w] = 5
        BY <3>1, <3>2, ComputesEffect, StageNames DEF Computed, Results
      <3>4. ResultFits(w, "all")
        BY <2>1, <3>2, <3>3 DEF ResultFits
      <3>5. QED
        BY <3>1, <3>3, <3>4, ComputedKeeps
    <2>2. CASE ~media.video
      <3>1. Computes(w, "frames", "empty") /\ UNCHANGED <<disk, decided, separate>>
        BY <1>5, <2>2 DEF ComputeFrames
      <3>2. Computed(w, "empty") /\ at[w] = 5
        BY <3>1, ComputesEffect, StageNames DEF Computed, Results
      <3>3. ResultFits(w, "empty")
        BY <2>2, <3>2 DEF ResultFits
      <3>4. QED
        BY <3>1, <3>2, <3>3, ComputedKeeps
    <2>3. QED
      BY <2>1, <2>2
  <1>6. CASE ComputeVisual(w)
    <2> DEFINE out == IF disk[w].frames = "none" THEN "empty" ELSE disk[w].frames
    <2>1. PICK s \in Visual : Computes(w, s, out) /\ UNCHANGED <<disk, decided, separate>>
      BY <1>6 DEF ComputeVisual
    <2>2. out \in Results
      BY DEF Numbered, TypeOK, Files, Results
    <2>3. Computed(w, out) /\ at[w] \in 6..8
      BY <2>1, <2>2, ComputesEffect, StageNames DEF Computed, Visual
    <2>4. ResultFits(w, out)
      BY <2>1, <2>3 DEF ResultFits
    <2>5. QED
      BY <2>1, <2>3, <2>4, ComputedKeeps
  <1>7. QED
    BY <1>1, <1>2, <1>3, <1>4, <1>5, <1>6 DEF Compute

LEMMA RaiseStep ==
  ASSUME Numbered, NEW w \in Workers, Raise(w)
  PROVE  Numbered'
  <1>1. /\ Fails(w) /\ Leave(w) /\ MayLeaveHalf(w)
        /\ UNCHANGED <<media, serverVars, separate>> /\ UNCHANGED recorded
    BY DEF Raise, Fails, serverVars
  <1>2. HalfLeft(w)
    BY <1>1, MayLeaveHalfEffect
  <1>3. WorkerSide' /\ at'[w] = 0 /\ \A v \in Workers : v # w => at'[v] = at[v]
    BY <1>1, <1>2, LeaveKeeps
  <1>4. ServerSide'
    BY <1>1, <1>2, <1>3, ServerKept DEF HalfLeft
  <1>5. JobSide'
    BY <1>1, FailsKeeps
  <1>6. QED
    BY <1>3, <1>4, <1>5, SidesNext

\* The row of a worker that leaves without a word.
LEMMA JobKept ==
  ASSUME Numbered, NEW w \in Workers, at'[w] = 0,
         \A v \in Workers : v # w => at'[v] = at[v],
         UNCHANGED attempts,
         \/ UNCHANGED <<status, holder>> /\ (holder # w => UNCHANGED recorded)
         \/ status' \in {status, "complete"} /\ holder' = NoWorker
  PROVE  JobSide'
  <1>1. JobTypes /\ HolderFits /\ NoWorker \notin Workers
    BY Sides, WorkersAssumption DEF JobSide
  <1>2. QED
    BY <1>1 DEF JobSide, JobTypes, HolderFits

LEMMA DieStep ==
  ASSUME Numbered, NEW w \in Workers, Die(w)
  PROVE  Numbered'
  <1>1. /\ Leave(w) /\ MayLeaveHalf(w)
        /\ UNCHANGED <<media, jobVars, serverVars, separate>> /\ UNCHANGED recorded
    BY DEF Die, serverVars
  <1>2. HalfLeft(w)
    BY <1>1, MayLeaveHalfEffect
  <1>3. WorkerSide' /\ at'[w] = 0 /\ \A v \in Workers : v # w => at'[v] = at[v]
    BY <1>1, <1>2, LeaveKeeps
  <1>4. ServerSide'
    BY <1>1, <1>2, <1>3, ServerKept DEF HalfLeft
  <1>5. JobSide'
    BY <1>1, <1>3, JobKept DEF jobVars
  <1>6. QED
    BY <1>3, <1>4, <1>5, SidesNext

\* A push that the fence turns away makes its worker leave; one that is taken
\* moves it on.
LEMMA PushStep ==
  ASSUME Numbered, NEW w \in Workers, Push(w)
  PROVE  Numbered'
  <1>1. /\ at[w] \in 1..8 /\ result[w] # "none"
        /\ UNCHANGED <<media, jobVars, disk, separate>>
    BY StageNames DEF Push, InStage
  <1>2. JobTypes /\ WorkerTypes /\ HolderFits /\ ResultsFit /\ DecisionsFit
    BY Sides DEF JobSide, WorkerSide
  <1>3. CASE holder = w /\ Records(w) /\ at' = [at EXCEPT ![w] = @ + 1]
             /\ result' = [result EXCEPT ![w] = "none"] /\ UNCHANGED decided
    <2>1. /\ at'[w] = at[w] + 1 /\ result'[w] = "none"
          /\ \A v \in Workers : v # w => at'[v] = at[v] /\ result'[v] = result[v]
      BY <1>2, <1>3 DEF WorkerTypes
    <2>2. ServerSide'
      BY <1>1, <1>3, <2>1, RecordsServerSide
    <2>3. recorded' = at[w]
      BY <1>1, <1>3, RecordsEffect
    <2>4. JobSide'
      BY <1>1, <1>2, <1>3, <2>1, <2>3 DEF JobSide, JobTypes, HolderFits, jobVars
    <2>5. WorkerTypes'
      BY <1>1, <1>2, <1>3 DEF WorkerTypes, Results
    <2>6. ResultsFit'
      BY <1>1, <1>2, <2>1 DEF ResultsFit
    <2>7. DecisionsFit'
      BY <1>1, <1>2, <1>3 DEF DecisionsFit
    <2>8. WorkerSide'
      BY <2>5, <2>6, <2>7 DEF WorkerSide
    <2>9. QED
      BY <2>2, <2>4, <2>8, SidesNext
  <1>4. CASE holder # w /\ Leave(w) /\ UNCHANGED serverVars
    <2>1. HalfLeft(w)
      BY <1>1, MayLeaveHalfEffect
    <2>2. WorkerSide' /\ at'[w] = 0 /\ \A v \in Workers : v # w => at'[v] = at[v]
      BY <1>1, <1>4, <2>1, LeaveKeeps
    <2>3. ServerSide'
      BY <1>1, <1>4, <2>1, <2>2, ServerKept DEF HalfLeft
    <2>4. JobSide'
      BY <1>1, <1>4, <2>2, JobKept DEF jobVars, serverVars
    <2>5. QED
      BY <2>2, <2>3, <2>4, SidesNext
  <1>5. QED
    BY <1>3, <1>4 DEF Push

LEMMA PushRaisesStep ==
  ASSUME Numbered, NEW w \in Workers, PushRaises(w)
  PROVE  Numbered'
  <1>1. /\ at[w] \in 1..8 /\ result[w] # "none" /\ Fails(w) /\ Leave(w)
        /\ UNCHANGED <<media, disk, separate>>
    BY StageNames DEF PushRaises, InStage, Fails
  <1>2. HalfLeft(w)
    BY <1>1, MayLeaveHalfEffect
  <1>3. WorkerSide' /\ at'[w] = 0 /\ \A v \in Workers : v # w => at'[v] = at[v]
    BY <1>1, <1>2, LeaveKeeps
  <1>4. ServerSide' /\ (holder # w => UNCHANGED recorded)
    <2>1. CASE UNCHANGED serverVars
      BY <1>1, <1>2, <1>3, <2>1, ServerKept DEF HalfLeft, serverVars
    <2>2. CASE holder = w /\ store' = Saved(Stage(w), result[w])
               /\ UNCHANGED <<recorded, by, decidedBy, rows>>
      BY <1>1, <1>3, <2>2, FilesKept
    <2>3. CASE holder = w /\ Records(w)
      BY <1>1, <1>3, <2>3, RecordsServerSide
    <2>4. QED
      BY <2>1, <2>2, <2>3 DEF PushRaises
  <1>5. JobSide'
    BY <1>1, <1>4, FailsKeeps
  <1>6. QED
    BY <1>3, <1>4, <1>5, SidesNext

LEMMA CompleteStep ==
  ASSUME Numbered, NEW w \in Workers, Complete(w)
  PROVE  Numbered'
  <1>1. /\ Leave(w) /\ UNCHANGED <<media, attempts, serverVars, disk, separate>>
        /\ UNCHANGED recorded
        /\ \/ status' = "complete" /\ holder' = NoWorker
           \/ UNCHANGED <<status, holder>>
    BY DEF Complete, serverVars
  <1>2. HalfLeft(w)
    BY <1>1, MayLeaveHalfEffect
  <1>3. WorkerSide' /\ at'[w] = 0 /\ \A v \in Workers : v # w => at'[v] = at[v]
    BY <1>1, <1>2, LeaveKeeps
  <1>4. ServerSide'
    BY <1>1, <1>2, <1>3, ServerKept DEF HalfLeft
  <1>5. JobSide'
    BY <1>1, <1>3, JobKept
  <1>6. QED
    BY <1>3, <1>4, <1>5, SidesNext

LEMMA CompleteRaisesStep ==
  ASSUME Numbered, NEW w \in Workers, CompleteRaises(w)
  PROVE  Numbered'
  <1>1. /\ Fails(w) /\ Leave(w) /\ UNCHANGED <<media, serverVars, disk, separate>>
        /\ UNCHANGED recorded
    BY DEF CompleteRaises, Fails, serverVars
  <1>2. HalfLeft(w)
    BY <1>1, MayLeaveHalfEffect
  <1>3. WorkerSide' /\ at'[w] = 0 /\ \A v \in Workers : v # w => at'[v] = at[v]
    BY <1>1, <1>2, LeaveKeeps
  <1>4. ServerSide'
    BY <1>1, <1>2, <1>3, ServerKept DEF HalfLeft
  <1>5. JobSide'
    BY <1>1, FailsKeeps
  <1>6. QED
    BY <1>3, <1>4, <1>5, SidesNext

LEMMA LapseStep ==
  ASSUME Numbered, Lapse
  PROVE  Numbered'
  <1>1. /\ holder' = NoWorker /\ NoWorker \notin Workers
        /\ UNCHANGED <<media, status, attempts, recorded, by, decidedBy, rows, store,
                       disk, at, decided, separate, result>>
    BY WorkersAssumption DEF Lapse, serverVars, workerVars
  <1>2. UNCHANGED <<media, serverVars>>
    BY <1>1 DEF serverVars
  <1>3. JobSide'
    BY <1>1, Sides DEF JobSide, JobTypes, HolderFits
  <1>4. ServerSide'
    BY <1>1, <1>2, ServerKept
  <1>5. WorkerSide'
    BY <1>1, Sides DEF WorkerSide, WorkerTypes, ResultsFit, DecisionsFit
  <1>6. QED
    BY <1>3, <1>4, <1>5, SidesNext

LEMMA StutterStep ==
  ASSUME Numbered, UNCHANGED vars
  PROVE  Numbered'
  <1>1. UNCHANGED <<media, status, attempts, holder, recorded, by, decidedBy, rows, store,
                    disk, at, decided, separate, result>>
    BY DEF vars, jobVars, serverVars, workerVars
  <1>2. UNCHANGED <<media, serverVars>>
    BY <1>1 DEF serverVars
  <1>3. JobSide'
    BY <1>1, Sides DEF JobSide, JobTypes, HolderFits
  <1>4. ServerSide'
    BY <1>1, <1>2, ServerKept
  <1>5. WorkerSide'
    BY <1>1, Sides DEF WorkerSide, WorkerTypes, ResultsFit, DecisionsFit
  <1>6. QED
    BY <1>3, <1>4, <1>5, SidesNext

LEMMA StepKeepsNumbered == Numbered /\ [Next]_vars => Numbered'
  <1> SUFFICES ASSUME Numbered, [Next]_vars PROVE Numbered'
    OBVIOUS
  <1>1. ASSUME NEW w \in Workers,
               \/ Claim(w) \/ Compute(w)  \/ Raise(w)
               \/ Die(w)   \/ Push(w)     \/ PushRaises(w)
               \/ Complete(w) \/ CompleteRaises(w)
        PROVE  Numbered'
    BY <1>1, ClaimStep, ComputeStep, RaiseStep, DieStep, PushStep, PushRaisesStep,
       CompleteStep, CompleteRaisesStep
  <1>2. CASE Lapse
    BY <1>2, LapseStep
  <1>3. CASE UNCHANGED vars
    BY <1>3, StutterStep
  <1>4. QED
    BY <1>1, <1>2, <1>3 DEF Next

LEMMA InitNumbered == Init => Numbered
  <1> SUFFICES ASSUME Init PROVE Numbered
    OBVIOUS
  <1>1. /\ recorded = 0 /\ holder = NoWorker /\ NoWorker \notin Workers
        /\ MaxAttempts \in Nat \ {0} /\ attempts = 0 /\ status = "open"
        /\ \A w \in Workers : at[w] = 0 /\ ~decided[w] /\ result[w] = "none"
    BY WorkersAssumption DEF Init
  <1>2. JobSide
    BY <1>1 DEF JobSide, JobTypes, HolderFits
  <1>3. ServerTypes
    <2>1. by \in [1..8 -> Workers \cup {NoWorker}]
      BY StageNames DEF Init
    <2>2. rows \in [transcript : {"none", "plain", "separated"},
                    frames : Results, ocr : Results, classify : Results, image_embed : Results,
                    stream_type : {"asked", "chatting", "dominant"}]
      BY DEF Init, Results
    <2>3. store \in [srt : {"none", "plain", "separated"}, frames : {"none", "all"}]
      BY DEF Init
    <2>4. recorded \in 0..8
      BY <1>1
    <2>5. decidedBy \in BOOLEAN
      BY Zenon DEF Init
    <2>6. QED
      BY <2>1, <2>2, <2>3, <2>4, <2>5 DEF ServerTypes
  <1>4. ServerSide
    <2>1. rows.frames = "none"
      BY DEF Init
    <2>2. QED
      BY <1>1, <1>3, <2>1 DEF ServerSide, StagesBehind, SourcesKept, Exact, Transcript,
                              ServedFramesExist, Singing
  <1>5. WorkerTypes
    BY DEF Init, WorkerTypes, Files, Results
  <1>6. WorkerSide
    BY <1>1, <1>5 DEF WorkerSide, ResultsFit, DecisionsFit
  <1>7. QED
    BY <1>2, <1>4, <1>6, Sides

-----------------------------------------------------------------------------
\* The inductive invariant holds of every run.
THEOREM ResumeInvariant == Spec => []IInv
  <1>1. Spec => []Numbered
    BY InitNumbered, StepKeepsNumbered, PTL DEF Spec
  <1>2. QED
    BY <1>1, NumberedIsIInv, PTL

\* Whatever is computed, pushed, lost or left behind is of its type.
THEOREM ResumeTypes == Spec => []TypeOK
  <1>1. IInv => TypeOK
    BY DEF IInv
  <1>2. QED
    BY <1>1, ResumeInvariant, PTL

\* A visual stage that ran where the frames on record were made has rows for all
\* of them, with any number of workers that take the job from each other.
THEOREM LocalResumesAreExact == Spec => []LocalResumeIsExact
  <1>1. IInv => LocalResumeIsExact
    BY DEF IInv
  <1>2. QED
    BY <1>1, ResumeInvariant, PTL

\* The transcript in the tables is the SRT in the store if one worker made and
\* parsed it, though pushes be rolled back and leave their files.
THEOREM TranscriptsAreTheStoredSrt == Spec => []TranscriptIsTheStoredSrt
  <1>1. IInv => TranscriptIsTheStoredSrt
    BY DEF IInv
  <1>2. QED
    BY <1>1, ResumeInvariant, PTL

\* No frame row without the JPEG that the coordinator serves for it.
THEOREM ServedFramesAreThere == Spec => []ServedFramesExist
  <1>1. IInv => ServedFramesExist
    BY DEF IInv
  <1>2. QED
    BY <1>1, ResumeInvariant, PTL

\* A run that decided and transcribed a singing stream put the separated vocals
\* on record.
THEOREM SingingStreamsAreSeparated == Spec => []SingingIsSeparated
  <1>1. IInv => SingingIsSeparated
    BY DEF IInv
  <1>2. QED
    BY <1>1, ResumeInvariant, PTL
=============================================================================
