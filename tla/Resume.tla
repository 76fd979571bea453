------------------------------- MODULE Resume -------------------------------
(***************************************************************************)
(* What a job that is resumed ends up with: the data of the eight stages   *)
(* on the workers' disks (MEDIA_ROOT/<content_hash>), in the coordinator's *)
(* tables and in its MEDIA_ROOT, for one job that workers take from each   *)
(* other between stages.                                                   *)
(*                                                                         *)
(* Who may push is left to JobLease: here a call is answered at once, and  *)
(* a worker holds the lease or has lost it.  One that lost it computes on  *)
(* and writes to its own disk until the coordinator turns it away.         *)
(***************************************************************************)
EXTENDS Naturals, Sequences

CONSTANTS Workers, NoWorker, MaxAttempts

ASSUME WorkersAssumption == NoWorker \notin Workers /\ MaxAttempts \in Nat \ {0}

STAGES == <<"register", "locate_media", "transcribe", "parse_transcript",
            "frames", "ocr", "classify", "image_embed">>

\* The stages whose compute reads the frames on disk.
Visual == {"ocr", "classify", "image_embed"}

VARIABLES
  media,      \* the source: does it have a video stream, is it a singing stream
  status, attempts, holder,   \* the jobs row; the worker with the current epoch
  recorded,   \* the stages on record are the first so many of STAGES
  by,         \* who computed what is on record of a stage
  decidedBy,  \* the run that transcribed had been through locate_media
  rows,       \* what the tables hold of a stage
  store,      \* the coordinator's MEDIA_ROOT: the SRT and the frame JPEGs
  disk,       \* each worker's MEDIA_ROOT
  at,         \* where each worker is in STAGES, 0 when it runs nothing
  decided,    \* its run has been through locate_media
  separate,   \* ctx.separate of its run
  result      \* what its stage computed and it is about to push, or "none"

jobVars    == <<status, attempts, holder>>
serverVars == <<recorded, by, decidedBy, rows, store>>
workerVars == <<disk, at, decided, separate, result>>
vars       == <<media, jobVars, serverVars, workerVars>>

Files == [audio  : BOOLEAN,
          srt    : {"none", "plain", "separated"},
          frames : {"none", "some", "all"}]

Init ==
  /\ media \in [video : BOOLEAN, sings : BOOLEAN]
  /\ status = "open" /\ attempts = 0 /\ holder = NoWorker
  /\ recorded = 0
  /\ by    = [s \in 1..Len(STAGES) |-> NoWorker]
  /\ decidedBy = FALSE
  /\ rows  = [transcript |-> "none", frames |-> "none", ocr |-> "none",
              classify |-> "none", image_embed |-> "none", stream_type |-> "asked"]
  /\ store = [srt |-> "none", frames |-> "none"]
  /\ disk  = [w \in Workers |-> [audio |-> FALSE, srt |-> "none", frames |-> "none"]]
  /\ at       = [w \in Workers |-> 0]
  /\ decided  = [w \in Workers |-> FALSE]
  /\ separate = [w \in Workers |-> FALSE]
  /\ result   = [w \in Workers |-> "none"]

-----------------------------------------------------------------------------
(* The worker.                                                             *)

Stage(w) == STAGES[at[w]]

InStage(w) == at[w] \in 1..Len(STAGES)

\* claim: the first stage that is not on record is where this worker starts,
\* with a fresh context and whatever earlier runs left on its disk.
Claim(w) ==
  /\ at[w] = 0
  /\ holder = NoWorker
  /\ \/ status = "open"
     \/ status = "failed" /\ attempts < MaxAttempts
  /\ status' = "open"
  /\ holder' = w
  /\ at' = [at EXCEPT ![w] = recorded + 1]
  /\ decided' = [decided EXCEPT ![w] = FALSE]
  /\ separate' = [separate EXCEPT ![w] = FALSE]
  /\ UNCHANGED <<media, attempts, serverVars, disk, result>>

\* The run ends, in this process or with it.
Leave(w) ==
  /\ at'     = [at EXCEPT ![w] = 0]
  /\ decided' = [decided EXCEPT ![w] = FALSE]
  /\ result' = [result EXCEPT ![w] = "none"]

Computes(w, stage, out) ==
  /\ InStage(w) /\ Stage(w) = stage /\ result[w] = "none"
  /\ result' = [result EXCEPT ![w] = out]
  /\ UNCHANGED <<media, jobVars, serverVars, at>>

ComputeRegister(w) ==
  Computes(w, "register", "done") /\ UNCHANGED <<disk, decided, separate>>

\* Mutant: the title is not looked at.
ComputeLocateUndecided(w) ==
  /\ Computes(w, "locate_media", "done")
  /\ disk'     = [disk EXCEPT ![w].audio = TRUE]
  /\ decided'  = [decided EXCEPT ![w] = TRUE]
  /\ UNCHANGED separate

\* The WAV on disk, and in the context the decision of decide_separate: the
\* request did not ask for it, a singing title does.
ComputeLocate(w) ==
  /\ Computes(w, "locate_media", "done")
  /\ disk'     = [disk EXCEPT ![w].audio = TRUE]
  /\ separate' = [separate EXCEPT ![w] = media.sings]
  /\ decided'  = [decided EXCEPT ![w] = TRUE]

ComputeTranscribe(w) ==
  /\ disk[w].audio
  /\ LET srt == IF separate[w] THEN "separated" ELSE "plain"
     IN  /\ Computes(w, "transcribe", srt)
         /\ disk' = [disk EXCEPT ![w].srt = srt]
  /\ UNCHANGED <<decided, separate>>

\* The SRT is the one on this worker's disk.
ComputeParse(w) ==
  /\ disk[w].srt # "none"
  /\ Computes(w, "parse_transcript", disk[w].srt)
  /\ UNCHANGED <<disk, decided, separate>>

\* Mutant: frames that are on disk already are not extracted again.
ComputeFramesReusing(w) ==
  /\ LET frames == IF disk[w].frames = "none" THEN "all" ELSE disk[w].frames
     IN  IF media.video
           THEN Computes(w, "frames", frames) /\ disk' = [disk EXCEPT ![w].frames = frames]
           ELSE Computes(w, "frames", "empty") /\ UNCHANGED disk
  /\ UNCHANGED <<decided, separate>>

\* "skipped" for a source without video is pushed as an empty result.
ComputeFrames(w) ==
  /\ IF media.video
       THEN Computes(w, "frames", "all") /\ disk' = [disk EXCEPT ![w].frames = "all"]
       ELSE Computes(w, "frames", "empty") /\ UNCHANGED disk
  /\ UNCHANGED <<decided, separate>>

\* The frames are the JPEGs on this worker's disk; with none, "skipped".
ComputeVisual(w) ==
  /\ \E s \in Visual :
       Computes(w, s, IF disk[w].frames = "none" THEN "empty" ELSE disk[w].frames)
  /\ UNCHANGED <<disk, decided, separate>>

Compute(w) ==
  \/ ComputeRegister(w)  \/ ComputeLocate(w) \/ ComputeTranscribe(w)
  \/ ComputeParse(w)     \/ ComputeFrames(w) \/ ComputeVisual(w)

\* frames writes the JPEGs one by one and may stop anywhere.
MayLeaveHalf(w) ==
  \/ UNCHANGED disk
  \/ /\ InStage(w) /\ Stage(w) = "frames" /\ result[w] = "none"
     /\ media.video /\ disk[w].frames = "none"
     /\ disk' = [disk EXCEPT ![w].frames = "some"]

\* Mutant: fail without its fence.
FailsUnfenced(w) ==
  /\ Leave(w)
  /\ status' = "failed" /\ attempts' = attempts + 1 /\ holder' = NoWorker

\* The except clause: fail charges the job if this worker still holds it.
Fails(w) ==
  /\ Leave(w)
  /\ \/ /\ holder = w
        /\ status' = "failed" /\ attempts' = attempts + 1 /\ holder' = NoWorker
     \/ holder # w /\ UNCHANGED jobVars

\* KITS gets a path to no file, read_text raises, or the stage fails for any
\* other reason.
Raise(w) ==
  /\ InStage(w) /\ result[w] = "none"
  /\ Fails(w) /\ MayLeaveHalf(w)
  /\ UNCHANGED <<media, serverVars, separate>>

Die(w) ==
  /\ at[w] # 0
  /\ Leave(w) /\ MayLeaveHalf(w)
  /\ UNCHANGED <<media, jobVars, serverVars, separate>>

-----------------------------------------------------------------------------
(* The coordinator.                                                        *)

\* persist_stage of each stage, by what was pushed.  An empty classify result
\* carries the stream type "chatting".
Persisted(stage, out) ==
  CASE stage \in {"register", "locate_media", "transcribe"} -> rows
    [] stage = "parse_transcript" -> [rows EXCEPT !.transcript = out]
    [] stage = "classify" ->
         [rows EXCEPT !.classify = out,
                      !.stream_type = IF out = "empty" THEN "chatting" ELSE "dominant"]
    [] OTHER -> [rows EXCEPT ![stage] = out]

\* Mutant: the handler drops what was uploaded with frames.
SavedSrtOnly(stage, out) ==
  IF stage = "transcribe" THEN [store EXCEPT !.srt = out] ELSE store

\* _save_artifacts.
Saved(stage, out) ==
  CASE stage = "transcribe" -> [store EXCEPT !.srt = out]
    [] stage = "frames" /\ out = "all" -> [store EXCEPT !.frames = "all"]
    [] OTHER -> store

\* Mutant: the push of a worker that lost the lease is taken.
PushUnfenced(w) ==
  /\ InStage(w)
  /\ result[w] # "none"
  /\ rows'  = Persisted(Stage(w), result[w])
  /\ store' = Saved(Stage(w), result[w])
  /\ by'    = [by EXCEPT ![at[w]] = w]
  /\ decidedBy' = IF Stage(w) = "transcribe" THEN decided[w] ELSE decidedBy
  /\ recorded' = at[w]
  /\ at'     = [at EXCEPT ![w] = @ + 1]
  /\ result' = [result EXCEPT ![w] = "none"]
  /\ UNCHANGED <<media, jobVars, disk, decided, separate>>

Records(w) ==
  /\ rows'  = Persisted(Stage(w), result[w])
  /\ store' = Saved(Stage(w), result[w])
  /\ by'    = [by EXCEPT ![at[w]] = w]
  /\ decidedBy' = IF Stage(w) = "transcribe" THEN decided[w] ELSE decidedBy
  /\ recorded' = at[w]

\* push_stage, and what the worker makes of the answer.
Push(w) ==
  /\ InStage(w)
  /\ result[w] # "none"
  /\ \/ /\ holder = w
        /\ Records(w)
        /\ at'     = [at EXCEPT ![w] = @ + 1]
        /\ result' = [result EXCEPT ![w] = "none"]
        /\ UNCHANGED decided
     \/ holder # w /\ Leave(w) /\ UNCHANGED serverVars
  /\ UNCHANGED <<media, jobVars, disk, separate>>

\* A push that raises: it is lost, or it is rolled back, which the files it has
\* written are not, or it is committed and its answer lost.
PushRaises(w) ==
  /\ InStage(w)
  /\ result[w] # "none"
  /\ \/ UNCHANGED serverVars
     \/ /\ holder = w
        /\ store' = Saved(Stage(w), result[w])
        /\ UNCHANGED <<recorded, by, decidedBy, rows>>
     \/ holder = w /\ Records(w)
  /\ Fails(w)
  /\ UNCHANGED <<media, disk, separate>>

Complete(w) ==
  /\ at[w] = Len(STAGES) + 1
  /\ Leave(w)
  /\ IF holder = w THEN status' = "complete" /\ holder' = NoWorker
                   ELSE UNCHANGED <<status, holder>>
  /\ UNCHANGED <<media, attempts, serverVars, disk, separate>>

\* A call of complete that raises: the worker does not know whether it was
\* committed, and reports a failure, which it may do under the same epoch.
CompleteRaises(w) ==
  /\ at[w] = Len(STAGES) + 1
  /\ Fails(w)
  /\ UNCHANGED <<media, serverVars, disk, separate>>

\* The lease lapses, whether or not its holder is alive.
Lapse ==
  /\ holder # NoWorker
  /\ holder' = NoWorker
  /\ UNCHANGED <<media, status, attempts, serverVars, workerVars>>

Next ==
  \/ \E w \in Workers : \/ Claim(w) \/ Compute(w)  \/ Raise(w)
                        \/ Die(w)   \/ Push(w)     \/ PushRaises(w)
                        \/ Complete(w) \/ CompleteRaises(w)
  \/ Lapse

Spec == Init /\ [][Next]_vars

-----------------------------------------------------------------------------
OnRecord(stage) == \E s \in 1..recorded : STAGES[s] = stage

Position(stage) == CHOOSE s \in 1..Len(STAGES) : STAGES[s] = stage

SameWorker(a, b) == by[Position(a)] = by[Position(b)]

Results == {"none", "empty", "some", "all"}

TypeOK ==
  /\ media \in [video : BOOLEAN, sings : BOOLEAN]
  /\ status \in {"open", "failed", "complete"}
  /\ attempts \in 0..MaxAttempts
  /\ holder \in Workers \cup {NoWorker}
  /\ recorded \in 0..Len(STAGES)
  /\ by \in [1..Len(STAGES) -> Workers \cup {NoWorker}]
  /\ rows \in [transcript : {"none", "plain", "separated"},
               frames : Results, ocr : Results, classify : Results, image_embed : Results,
               stream_type : {"asked", "chatting", "dominant"}]
  /\ store \in [srt : {"none", "plain", "separated"}, frames : {"none", "all"}]
  /\ disk \in [Workers -> Files]
  /\ at \in [Workers -> 0..(Len(STAGES) + 1)]
  /\ decided \in [Workers -> BOOLEAN] /\ decidedBy \in BOOLEAN
  /\ separate \in [Workers -> BOOLEAN]
  /\ result \in [Workers -> Results \cup {"done", "plain", "separated"}]

\* A visual stage that ran on the worker whose frames are on record has rows for
\* every one of them, and a stream type from them, though that worker may have lost
\* the job and won it back, or have left half the frames on its disk before.
LocalResumeIsExact ==
  media.video => \A s \in Visual :
    OnRecord(s) /\ SameWorker(s, "frames") =>
      rows[s] = "all" /\ (s = "classify" => rows.stream_type = "dominant")

\* The transcript in the tables is the SRT in the store, if the worker that made
\* the one on record also parsed it.
TranscriptIsTheStoredSrt ==
  OnRecord("parse_transcript") /\ SameWorker("transcribe", "parse_transcript")
    => rows.transcript = store.srt

\* Every frame row points to a thumbnail the coordinator can serve.
ServedFramesExist == rows.frames = "all" => store.frames = "all"

\* The design document: "Recovery: ... claimable by any worker; resume from the
\* last server-confirmed stage", because a checkpoint "lets any worker cheaply
\* rebuild that unit's inputs locally".  So a resumed job ends up with what an
\* uninterrupted run gives.
ResumeIsExact ==
  status = "complete" /\ media.video => \A s \in Visual : rows[s] = "all"

\* The transcript on record of a singing stream is one of the separated vocals if one
\* run decided that and made it, however often the job changed hands before; a run
\* that resumes in between knows nothing of the decision.
SingingIsSeparated ==
  OnRecord("transcribe") /\ media.sings /\ decidedBy => store.srt = "separated"
=============================================================================
