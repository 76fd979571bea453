-------------------------- MODULE SourceOrganizer --------------------------
(***************************************************************************)
(* kanomori-organize-source: loose videos at the root of the source store  *)
(* are moved, one WebDAV call each, into <title>_<date>/video.<ext>, and   *)
(* manifest.jsonl is then replaced by one that lists them too.  Nothing    *)
(* locks the store: people upload while an organizer runs, a second one    *)
(* may be started, and each may stop at any call.                          *)
(*                                                                         *)
(* Directories and files that are no videos are skipped and left out.      *)
(***************************************************************************)
EXTENDS Naturals, Sequences, Functions

CONSTANTS Organizers,
          Videos,      \* the contents of video files
          Names,       \* names of loose files
          NameOf,      \* the name each video is uploaded under
          Nothing,     \* no file at a path
          Answers,     \* what the language model may answer: Garbled, or a title and a date
          Garbled,
          NoTitle, NoDate,
          Fallback     \* fallback_title of each name

ASSUME StoreAssumption ==
  /\ NameOf \in [Videos -> Names] /\ Nothing \notin Videos
  /\ NoTitle \notin {Fallback[n] : n \in Names}

-----------------------------------------------------------------------------
(* From a file name to its place in the layout.                            *)

\* Anything but a JSON object, or an object without a title, leaves the file
\* name, with its punctuation turned into blanks.
parse_llm_metadata(n, answer) ==
  IF answer = Garbled THEN [title |-> Fallback[n], date |-> NoDate]
  ELSE [title |-> IF answer.title = NoTitle THEN Fallback[n] ELSE answer.title,
        date  |-> answer.date]

\* The title alone if there is no date.
target_directory(metadata) ==
  IF metadata.date = NoDate THEN <<metadata.title>> ELSE <<metadata.title, metadata.date>>

Inferred(n) == {target_directory(parse_llm_metadata(n, a)) : a \in Answers}

Targets == UNION {Inferred(n) : n \in Names}

\* A target is in a directory of the store, a loose file at its root.
ASSUME TargetsAssumption == Names \cap Targets = {}

\* What to_record keeps of a file: where it is, and what its name said.
Records == [path : Targets, of : Names]

-----------------------------------------------------------------------------
VARIABLES
  store,      \* the videos in the source store, loose or at a target
  manifest, tmp, backups,   \* manifest.jsonl, .tmp and the .bak files
  uploaded,   \* the videos that were ever put into the store
  organizer,  \* the run of each organizer
  overlapped, \* two organizers have been at work on the store at once
  cut         \* one stopped after a move and before its manifest was in place

storeVars == <<store, manifest, tmp, backups>>
orgVars   == <<storeVars, uploaded, organizer, overlapped, cut>>

\* A manifest.jsonl.tmp that is there is never empty.
NoFile  == << >>
Stopped == [pc |-> "idle", original |-> << >>, records |-> << >>,
            left |-> {}, planned |-> << >>, moved |-> 0]

OrgInit ==
  /\ store     = [p \in Names \cup Targets |-> Nothing]
  /\ manifest  = << >> /\ tmp = NoFile /\ backups = {}
  /\ uploaded  = {}
  /\ organizer = [o \in Organizers |-> Stopped]
  /\ overlapped = FALSE /\ cut = FALSE

PathsIn(records) == {r.path : r \in Range(records)}

\* Someone uploads a video under a name that is free at the root.
Upload(v) ==
  /\ v \notin uploaded
  /\ store[NameOf[v]] = Nothing
  /\ store'    = [store EXCEPT ![NameOf[v]] = v]
  /\ uploaded' = uploaded \cup {v}
  /\ UNCHANGED <<manifest, tmp, backups, organizer, overlapped, cut>>

-----------------------------------------------------------------------------
(* run_organizer.                                                          *)

Working(o) == organizer[o].pc # "idle"

\* GET of the manifest; a 404 is an empty one.  A dry run is one that stops when
\* it has planned.
ReadManifest(o) ==
  /\ organizer[o].pc = "idle"
  /\ organizer' = [organizer EXCEPT ![o] =
       [Stopped EXCEPT !.pc = "list", !.original = manifest, !.records = manifest]]
  /\ overlapped' = (overlapped \/ \E other \in Organizers \ {o} : Working(other))
  /\ UNCHANGED <<storeVars, uploaded, cut>>

ListRoot(o) ==
  /\ organizer[o].pc = "list"
  /\ organizer' = [organizer EXCEPT
       ![o].pc = "plan", ![o].left = {n \in Names : store[n] # Nothing}]
  /\ UNCHANGED <<storeVars, uploaded, overlapped, cut>>

\* Mutant: no HEAD request for the target.
TakenOnRecord(o, target) == target \in PathsIn(organizer[o].records)

\* Mutant: a planned target is not added to the paths that are taken.
TakenBefore(o, target) ==
  target \in PathsIn(organizer[o].original) \/ store[target] # Nothing

\* On record or planned already, or there by the answer to HEAD.
Taken(o, target) ==
  target \in PathsIn(organizer[o].records) \/ store[target] # Nothing

\* One entry of the listing; the model is asked for each.
PlanEntry(o) ==
  /\ organizer[o].pc = "plan"
  /\ \E n \in organizer[o].left : \E target \in Inferred(n) :
       organizer' = [organizer EXCEPT
         ![o].left = @ \ {n},
         ![o].planned = IF Taken(o, target) THEN @ ELSE Append(@, <<n, target>>),
         ![o].records = IF Taken(o, target) THEN @
                        ELSE Append(@, [path |-> target, of |-> n])]
  /\ UNCHANGED <<storeVars, uploaded, overlapped, cut>>

\* Without anything planned, nothing is written.
Planned(o) ==
  /\ organizer[o].pc = "plan" /\ organizer[o].left = {}
  /\ organizer' = [organizer EXCEPT ![o] =
       IF @.planned # << >> THEN [@ EXCEPT !.pc = "apply"] ELSE Stopped]
  /\ UNCHANGED <<storeVars, uploaded, overlapped, cut>>

MovesLeft(o) == organizer[o].moved < Len(organizer[o].planned)

\* MOVE with Overwrite: T.
move(from, to) == store' = [store EXCEPT ![to] = store[from], ![from] = Nothing]

\* A source that is gone gives a 404, which ends the run: Stop.
MoveNext(o) ==
  /\ organizer[o].pc = "apply" /\ MovesLeft(o)
  /\ LET item == organizer[o].planned[organizer[o].moved + 1]
     IN  store[item[1]] # Nothing /\ move(item[1], item[2])
  /\ organizer' = [organizer EXCEPT ![o].moved = @ + 1]
  /\ UNCHANGED <<manifest, tmp, backups, uploaded, overlapped, cut>>

\* Mutant: there is no backup.
PutNoBackup(o) ==
  /\ organizer[o].pc = "apply" /\ ~MovesLeft(o)
  /\ backups'   = backups
  /\ organizer' = [organizer EXCEPT ![o].pc = "tmp"]
  /\ UNCHANGED <<store, manifest, tmp, uploaded, overlapped, cut>>

\* Mutant: an empty manifest is backed up, too.
PutBackupOfNone(o) ==
  /\ organizer[o].pc = "apply" /\ ~MovesLeft(o)
  /\ backups'   = backups \cup {organizer[o].original}
  /\ organizer' = [organizer EXCEPT ![o].pc = "tmp"]
  /\ UNCHANGED <<store, manifest, tmp, uploaded, overlapped, cut>>

\* What was read at the start, if it was anything.
PutBackup(o) ==
  /\ organizer[o].pc = "apply" /\ ~MovesLeft(o)
  /\ backups'   = backups \cup ({organizer[o].original} \ {<< >>})
  /\ organizer' = [organizer EXCEPT ![o].pc = "tmp"]
  /\ UNCHANGED <<store, manifest, tmp, uploaded, overlapped, cut>>

\* Mutant: only the records of this run are written.
PutTmpOfRun(o) ==
  /\ organizer[o].pc = "tmp"
  /\ tmp' = SubSeq(organizer[o].records, Len(organizer[o].original) + 1,
                   Len(organizer[o].records))
  /\ organizer' = [organizer EXCEPT ![o].pc = "replace"]
  /\ UNCHANGED <<store, manifest, backups, uploaded, overlapped, cut>>

PutTmp(o) ==
  /\ organizer[o].pc = "tmp"
  /\ tmp' = organizer[o].records
  /\ organizer' = [organizer EXCEPT ![o].pc = "replace"]
  /\ UNCHANGED <<store, manifest, backups, uploaded, overlapped, cut>>

\* MOVE of manifest.jsonl.tmp, by whichever run it was written.
ReplaceManifest(o) ==
  /\ organizer[o].pc = "replace"
  /\ tmp # NoFile
  /\ manifest'  = tmp /\ tmp' = NoFile
  /\ organizer' = [organizer EXCEPT ![o] = Stopped]
  /\ UNCHANGED <<store, backups, uploaded, overlapped, cut>>

\* Any call may raise, and the process may be killed.
Stop(o) ==
  /\ organizer[o].pc # "idle"
  /\ organizer' = [organizer EXCEPT ![o] = Stopped]
  /\ cut' = (cut \/ organizer[o].moved > 0)
  /\ UNCHANGED <<storeVars, uploaded, overlapped>>

OrgNext ==
  \/ \E v \in Videos : Upload(v)
  \/ \E o \in Organizers :
       \/ ReadManifest(o) \/ ListRoot(o)  \/ PlanEntry(o) \/ Planned(o)
       \/ MoveNext(o)     \/ PutBackup(o) \/ PutTmp(o)    \/ ReplaceManifest(o)
       \/ Stop(o)

-----------------------------------------------------------------------------
OrgTypeOK ==
  /\ store \in [Names \cup Targets -> Videos \cup {Nothing}]
  /\ manifest \in Seq(Records) /\ tmp \in Seq(Records)
  /\ backups \subseteq Seq(Records) \ {<< >>}
  /\ uploaded \subseteq Videos
  /\ \A o \in Organizers :
       /\ organizer[o].pc \in {"idle", "list", "plan", "apply", "tmp", "replace"}
       /\ {organizer[o].original, organizer[o].records} \subseteq Seq(Records)
       /\ organizer[o].left \subseteq Names
       /\ organizer[o].planned \in Seq(Names \X Targets)
       /\ organizer[o].moved \in 0..Len(organizer[o].planned)

\* One organizer at a time never destroys a video, though it moves with
\* "Overwrite: T", whatever the model makes of the names and wherever it stops.
NoVideoLost ==
  ~overlapped => \A v \in uploaded : \E p \in DOMAIN store : store[p] = v

\* "manifest.jsonl is authoritative": a path in it is one of a video in the store,
\* also if several organizers trip over each other; and if they do not, its record
\* was made from the name of that video, so title and date are the video's own.
RecordsDescribeTheirVideo ==
  \A r \in Range(manifest) :
    /\ store[r.path] # Nothing
    /\ overlapped \/ NameOf[store[r.path]] = r.of

\* A video that was moved is in the manifest, unless an organizer was cut off in
\* between; the next run does not look into directories.
OrganizedIsListed ==
  ~overlapped /\ ~cut /\ (\A o \in Organizers : ~Working(o)) =>
    \A t \in Targets : store[t] # Nothing => t \in PathsIn(manifest)

\* A manifest that is replaced keeps its records, and can be restored: "Before
\* replacing manifest.jsonl, the script writes a timestamped backup".
ManifestGrowsFromBackup ==
  [][manifest' # manifest /\ ~overlapped =>
       /\ Range(manifest) \subseteq Range(manifest')
       /\ manifest = << >> \/ manifest \in backups]_orgVars
=============================================================================
