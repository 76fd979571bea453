-------------------------- MODULE SourceCacheProofs --------------------------
(***************************************************************************)
(* Proofs about SourceOrganizer, for any number of organizers, videos and  *)
(* names, and whatever the language model may answer; then about           *)
(* SourceCache, for any number of workers and machines and any way to      *)
(* flatten a path, with the organizers at work on the store.               *)
(***************************************************************************)
EXTENDS SourceCache, FiniteSetTheorems, TLAPS

-----------------------------------------------------------------------------
(* The store and its organizers.                                           *)

Plan(o) == organizer[o].planned

\* What OrgTypeOK says of each organizer, of all of them as a function.
OrganizersFit ==
  organizer \in [Organizers -> [pc : {"idle", "list", "plan", "apply", "tmp", "replace"},
                                original : Seq(Records), records : Seq(Records),
                                left : SUBSET Names, planned : Seq(Names \X Targets),
                                moved : Nat]]

\* How far a run can be at each of its calls.
Progress(o) ==
  /\ organizer[o].pc \in {"idle", "list"} => Plan(o) = << >>
  /\ organizer[o].pc \in {"idle", "list", "plan"} => organizer[o].moved = 0
  /\ organizer[o].pc \in {"tmp", "replace"} => organizer[o].moved = Len(Plan(o))

ProgressFits == \A o \in Organizers : Progress(o)

\* The records of a run are those it read and those of its plan.
RecordsOf(o) ==
  /\ Range(organizer[o].original) \subseteq Range(organizer[o].records)
  /\ \A i \in DOMAIN Plan(o) : Plan(o)[i][2] \in PathsIn(organizer[o].records)
  /\ \A r \in Range(organizer[o].records) :
       \/ r \in Range(organizer[o].original)
       \/ \E i \in DOMAIN Plan(o) : r.of = Plan(o)[i][1] /\ r.path = Plan(o)[i][2]

RecordsFit == \A o \in Organizers : RecordsOf(o)

\* A record of a video that is there, and unless two organizers met, of this one.
Describes(path, of) ==
  store[path] # Nothing /\ (overlapped \/ NameOf[store[path]] = of)

AllDescribe(records) == \A r \in Range(records) : Describes(r.path, r.of)

\* Every record that is or may come into the manifest is one of a video that is at
\* its place.
PlacesOf(o) ==
  /\ AllDescribe(organizer[o].original)
  /\ \A i \in 1..organizer[o].moved : Describes(Plan(o)[i][2], Plan(o)[i][1])

PlacesFit ==
  /\ AllDescribe(manifest) /\ AllDescribe(tmp)
  /\ \A o \in Organizers : PlacesOf(o)

\* A loose file has the name of its video.
LooseFit == \A n \in Names : store[n] # Nothing => NameOf[store[n]] = n

\* An organizer that has always been alone: the targets it has yet to fill are free
\* and different, the manifest is the one it read, with a backup once it is about
\* to be replaced, and the .tmp is its own.
Alone(o) ==
  /\ \A i \in DOMAIN Plan(o) : i > organizer[o].moved => store[Plan(o)[i][2]] = Nothing
  /\ \A i, j \in DOMAIN Plan(o) : Plan(o)[i][2] = Plan(o)[j][2] => i = j
  /\ organizer[o].original = manifest
  /\ organizer[o].pc \in {"tmp", "replace"} => manifest = << >> \/ manifest \in backups
  /\ organizer[o].pc = "replace" => tmp = organizer[o].records

OneAtATime ==
  ~overlapped =>
    /\ \A o, p \in Organizers : Working(o) /\ Working(p) => o = p
    /\ \A o \in Organizers : Working(o) => Alone(o)

\* A video at a target is listed, or was moved by the run that will list it.
MovedIsListed ==
  ~overlapped /\ ~cut =>
    \A t \in Targets : store[t] # Nothing =>
      \/ t \in PathsIn(manifest)
      \/ \E o \in Organizers : \E i \in 1..organizer[o].moved : Plan(o)[i][2] = t

FlagsFit == overlapped \in BOOLEAN /\ cut \in BOOLEAN

OrgInv ==
  /\ OrgTypeOK /\ OrganizersFit /\ FlagsFit /\ ProgressFits /\ RecordsFit /\ PlacesFit /\ LooseFit
  /\ OneAtATime /\ MovedIsListed /\ NoVideoLost

-----------------------------------------------------------------------------
(* Sequences and names.                                                    *)

LEMMA Sequence ==
  ASSUME NEW S, NEW s \in Seq(S)
  PROVE  /\ DOMAIN s = 1..Len(s) /\ Len(s) \in Nat
         /\ \A i \in DOMAIN s : s[i] \in S
         /\ Range(s) \subseteq S
  BY DEF Range

LEMMA EmptyRange == Range(<< >>) = {}
  BY DEF Range

LEMMA AppendRange ==
  ASSUME NEW S, NEW s \in Seq(S), NEW x \in S
  PROVE  /\ Append(s, x) \in Seq(S) /\ Len(Append(s, x)) = Len(s) + 1
         /\ \A i \in DOMAIN s : Append(s, x)[i] = s[i]
         /\ Append(s, x)[Len(s) + 1] = x
         /\ DOMAIN Append(s, x) = DOMAIN s \cup {Len(s) + 1}
         /\ Range(Append(s, x)) = Range(s) \cup {x}
  <1>1. /\ Append(s, x) \in Seq(S) /\ Len(Append(s, x)) = Len(s) + 1 /\ Len(s) \in Nat
        /\ DOMAIN s = 1..Len(s) /\ DOMAIN Append(s, x) = 1..(Len(s) + 1)
    OBVIOUS
  <1>2. /\ \A i \in DOMAIN s : Append(s, x)[i] = s[i]
        /\ Append(s, x)[Len(s) + 1] = x
    OBVIOUS
  <1>3. DOMAIN Append(s, x) = DOMAIN s \cup {Len(s) + 1}
    BY <1>1
  <1>4. Range(Append(s, x)) = Range(s) \cup {x}
    BY <1>2, <1>3 DEF Range
  <1>5. QED
    BY <1>1, <1>2, <1>3, <1>4

LEMMA PathsOf ==
  ASSUME NEW records
  PROVE  \A p : p \in PathsIn(records) <=> \E r \in Range(records) : p = r.path
  BY DEF PathsIn

\* Where the model puts a file is one of the targets.
LEMMA InferredIsTarget == \A n \in Names : Inferred(n) \subseteq Targets
  BY DEF Targets

LEMMA LooseIsNoTarget == \A n \in Names : n \notin Targets
  BY TargetsAssumption

-----------------------------------------------------------------------------
(* What the parts of the invariant say of one organizer.                   *)

OrganizerType ==
  [pc : {"idle", "list", "plan", "apply", "tmp", "replace"},
   original : Seq(Records), records : Seq(Records),
   left : SUBSET Names, planned : Seq(Names \X Targets), moved : Nat]

LEMMA Fields ==
  ASSUME OrgInv, NEW o \in Organizers
  PROVE  /\ organizer \in [Organizers -> OrganizerType] /\ organizer[o] \in OrganizerType
         /\ organizer[o].pc \in {"idle", "list", "plan", "apply", "tmp", "replace"}
         /\ organizer[o].original \in Seq(Records) /\ organizer[o].records \in Seq(Records)
         /\ organizer[o].left \subseteq Names
         /\ Plan(o) \in Seq(Names \X Targets) /\ DOMAIN Plan(o) = 1..Len(Plan(o))
         /\ organizer[o].moved \in Nat /\ Len(Plan(o)) \in Nat
         /\ organizer[o].moved <= Len(Plan(o))
         /\ 1..organizer[o].moved \subseteq DOMAIN Plan(o)
         /\ \A i \in DOMAIN Plan(o) :
              Plan(o)[i] \in Names \X Targets /\ Plan(o)[i][1] \in Names /\ Plan(o)[i][2] \in Targets
  <1>1. organizer \in [Organizers -> OrganizerType]
    BY DEF OrgInv, OrganizersFit, OrganizerType
  <1>2. organizer[o] \in OrganizerType
    BY <1>1
  <1>3. /\ organizer[o].pc \in {"idle", "list", "plan", "apply", "tmp", "replace"}
        /\ organizer[o].original \in Seq(Records) /\ organizer[o].records \in Seq(Records)
        /\ organizer[o].left \subseteq Names
        /\ Plan(o) \in Seq(Names \X Targets) /\ organizer[o].moved \in Nat
    BY <1>2 DEF OrganizerType, Plan
  <1>4. organizer[o].moved \in 0..Len(Plan(o))
    BY DEF OrgInv, OrgTypeOK, Plan
  <1>5. DOMAIN Plan(o) = 1..Len(Plan(o)) /\ Len(Plan(o)) \in Nat
    BY <1>3, Sequence
  <1>6. \A i \in DOMAIN Plan(o) : Plan(o)[i] \in Names \X Targets
    BY <1>3, Sequence
  <1>7. QED
    BY <1>1, <1>2, <1>3, <1>4, <1>5, <1>6

\* A step of organizer o is none of another one.
OnlyOf(o) ==
  /\ organizer' \in [Organizers -> OrganizerType]
  /\ organizer[o].moved' <= Len(Plan(o)')
  /\ \A p \in Organizers : p # o => organizer'[p] = organizer[p]

\* A target that is filled stays so, and unless two organizers met, with its video.
FilledStay ==
  /\ overlapped => overlapped'
  /\ \A t \in Targets : store[t] # Nothing =>
       store'[t] # Nothing /\ (overlapped' \/ store'[t] = store[t])

LEMMA DescribesStays ==
  ASSUME FilledStay, NEW path \in Targets, NEW of, Describes(path, of)
  PROVE  Describes(path, of)'
  BY DEF FilledStay, Describes

LEMMA AllDescribeStays ==
  ASSUME FilledStay, NEW records \in Seq(Records), AllDescribe(records)
  PROVE  \A r \in Range(records) : Describes(r.path, r.of)'
  <1>1. \A r \in Range(records) : r.path \in Targets
    <2>1. Range(records) \subseteq Records
      BY Sequence
    <2>2. QED
      BY <2>1 DEF Records
  <1>2. QED
    BY <1>1, DescribesStays DEF AllDescribe

-----------------------------------------------------------------------------
(* What is enough to show of a step of organizer o.                        *)

StoreTypes ==
  /\ store \in [Names \cup Targets -> Videos \cup {Nothing}]
  /\ manifest \in Seq(Records) /\ tmp \in Seq(Records)
  /\ backups \subseteq Seq(Records) \ {<< >>}
  /\ uploaded \subseteq Videos

LEMMA OthersKept ==
  ASSUME OrgInv, NEW o \in Organizers, OnlyOf(o), FilledStay,
         Progress(o)', RecordsOf(o)', PlacesOf(o)'
  PROVE  /\ ProgressFits' /\ RecordsFit'
         /\ \A p \in Organizers : PlacesOf(p)'
  <1>1. ASSUME NEW p \in Organizers, p # o
        PROVE  Progress(p)' /\ RecordsOf(p)' /\ PlacesOf(p)'
    <2>1. organizer'[p] = organizer[p] /\ Plan(p)' = Plan(p)
      BY <1>1 DEF OnlyOf, Plan
    <2>2. Progress(p) /\ RecordsOf(p) /\ PlacesOf(p)
      BY DEF OrgInv, ProgressFits, RecordsFit, PlacesFit
    <2>3. Progress(p)'
      BY <2>1, <2>2 DEF Progress
    <2>4. RecordsOf(p)'
      BY <2>1, <2>2 DEF RecordsOf
    <2>5. \A r \in Range(organizer[p].original) : Describes(r.path, r.of)'
      BY <2>2, Fields, AllDescribeStays DEF PlacesOf
    <2>6. ASSUME NEW i \in 1..organizer[p].moved
          PROVE  LET t == Plan(p)[i][2]
                 IN  store'[t] # Nothing /\ (overlapped' \/ NameOf[store'[t]] = Plan(p)[i][1])
      <3>1. Plan(p)[i][2] \in Targets
        BY Fields
      <3>2. Describes(Plan(p)[i][2], Plan(p)[i][1])
        BY <2>2 DEF PlacesOf
      <3>3. QED
        BY <3>1, <3>2 DEF FilledStay, Describes
    <2>7. PlacesOf(p)'
      BY <2>1, <2>5, <2>6 DEF PlacesOf, AllDescribe, Describes
    <2>8. QED
      BY <2>3, <2>4, <2>7
  <1>2. QED
    BY <1>1 DEF ProgressFits, RecordsFit

LEMMA Assemble ==
  ASSUME OrgInv, NEW o \in Organizers, OnlyOf(o), FilledStay, FlagsFit', StoreTypes',
         Progress(o)', RecordsOf(o)', PlacesOf(o)',
         AllDescribe(manifest)', AllDescribe(tmp)', LooseFit',
         ~overlapped' => \A p \in Organizers : p # o => ~Working(p),
         ~overlapped' /\ Working(o)' => Alone(o)',
         MovedIsListed', NoVideoLost'
  PROVE  OrgInv'
  <1>1. OrganizersFit'
    BY DEF OnlyOf, OrganizersFit, OrganizerType
  <1>2. OrgTypeOK'
    <2>1. ASSUME NEW p \in Organizers
          PROVE  organizer'[p] \in OrganizerType /\ organizer'[p].moved <= Len(organizer'[p].planned)
      <3>1. organizer'[p] \in OrganizerType
        BY DEF OnlyOf
      <3>2. organizer[p].moved <= Len(organizer[p].planned)
        BY Fields DEF Plan
      <3>3. QED
        BY <3>1, <3>2 DEF OnlyOf, Plan
    <2>2. ASSUME NEW p \in Organizers
          PROVE  /\ organizer'[p].pc \in {"idle", "list", "plan", "apply", "tmp", "replace"}
                 /\ {organizer'[p].original, organizer'[p].records} \subseteq Seq(Records)
                 /\ organizer'[p].left \subseteq Names
                 /\ organizer'[p].planned \in Seq(Names \X Targets)
                 /\ organizer'[p].moved \in 0..Len(organizer'[p].planned)
      <3>1. /\ organizer'[p].moved \in Nat /\ Len(organizer'[p].planned) \in Nat
            /\ organizer'[p].planned \in Seq(Names \X Targets)
        BY <2>1 DEF OrganizerType
      <3>2. QED
        BY <2>1, <3>1 DEF OrganizerType
    <2>3. QED
      BY <2>2 DEF OrgTypeOK, StoreTypes
  <1>3. PlacesFit' /\ ProgressFits' /\ RecordsFit'
    BY OthersKept DEF PlacesFit
  <1>4. OneAtATime'
    <2>1. ~overlapped' => \A p \in Organizers : p # o => ~Working(p)'
      BY DEF Working, OnlyOf
    <2>2. QED
      BY <2>1 DEF OneAtATime
  <1>5. QED
    BY <1>1, <1>2, <1>3, <1>4 DEF OrgInv

LEMMA StoppedIsType == Stopped \in OrganizerType
  <1>1. << >> \in Seq(Records) /\ << >> \in Seq(Names \X Targets)
    OBVIOUS
  <1>2. QED
    BY <1>1 DEF Stopped, OrganizerType

\* An organizer that stopped is as good as one that never ran.
LEMMA StoppedFits ==
  ASSUME NEW o \in Organizers, organizer'[o] = Stopped
  PROVE  /\ Progress(o)' /\ RecordsOf(o)' /\ PlacesOf(o)' /\ ~Working(o)'
         /\ organizer'[o].moved = 0 /\ Plan(o)' = << >>
  <1>1. /\ organizer'[o].pc = "idle" /\ organizer'[o].moved = 0 /\ Plan(o)' = << >>
        /\ organizer'[o].original = << >> /\ organizer'[o].records = << >>
        /\ DOMAIN Plan(o)' = {}
    BY DEF Stopped, Plan
  <1>2. QED
    BY <1>1, EmptyRange DEF Progress, RecordsOf, PlacesOf, Working, AllDescribe

\* What the store holds for the records, when it does not lose or change a target.
LEMMA ListsKept ==
  ASSUME OrgInv, FilledStay, UNCHANGED manifest
  PROVE  AllDescribe(manifest)' /\ (UNCHANGED tmp => AllDescribe(tmp)')
  <1>1. manifest \in Seq(Records) /\ tmp \in Seq(Records)
    BY DEF OrgInv, OrgTypeOK
  <1>2. AllDescribe(manifest) /\ AllDescribe(tmp)
    BY DEF OrgInv, PlacesFit
  <1>3. /\ \A r \in Range(manifest) : Describes(r.path, r.of)'
        /\ \A r \in Range(tmp) : Describes(r.path, r.of)'
    BY <1>1, <1>2, AllDescribeStays
  <1>4. QED
    BY <1>3 DEF AllDescribe, Describes

\* A step that leaves the store as it is.
LEMMA StoreKept ==
  ASSUME OrgInv, UNCHANGED <<store, uploaded>>, overlapped => overlapped'
  PROVE  FilledStay /\ LooseFit' /\ NoVideoLost'
  <1>1. FilledStay
    BY DEF FilledStay
  <1>2. LooseFit'
    BY DEF OrgInv, LooseFit
  <1>3. NoVideoLost'
    BY DEF OrgInv, NoVideoLost
  <1>4. QED
    BY <1>1, <1>2, <1>3

\* A step that moves nothing: what was moved is still on its way to the manifest.
LEMMA ListedKept ==
  ASSUME OrgInv, NEW o \in Organizers, OnlyOf(o), UNCHANGED <<store, manifest>>,
         overlapped => overlapped', cut => cut',
         ~cut' => organizer[o].moved <= organizer'[o].moved
                   /\ \A i \in 1..organizer[o].moved : Plan(o)'[i] = Plan(o)[i]
  PROVE  MovedIsListed'
  <1>1. SUFFICES ASSUME ~overlapped', ~cut', NEW t \in Targets, store'[t] # Nothing
                 PROVE  \/ t \in PathsIn(manifest')
                        \/ \E p \in Organizers : \E i \in 1..organizer'[p].moved : Plan(p)'[i][2] = t
    BY DEF MovedIsListed, Plan
  <1>2. \/ t \in PathsIn(manifest)
        \/ \E p \in Organizers : \E i \in 1..organizer[p].moved : Plan(p)[i][2] = t
    BY <1>1 DEF OrgInv, MovedIsListed
  <1>3. ASSUME NEW p \in Organizers, NEW i \in 1..organizer[p].moved, Plan(p)[i][2] = t
        PROVE  \E j \in 1..organizer'[p].moved : Plan(p)'[j][2] = t
    <2>1. CASE p # o
      BY <1>3, <2>1 DEF OnlyOf, Plan
    <2>2. CASE p = o
      <3>1. organizer[o].moved \in Nat /\ organizer'[o].moved \in Nat
        BY Fields DEF OnlyOf, OrganizerType
      <3>2. i \in 1..organizer'[o].moved /\ Plan(o)'[i] = Plan(o)[i]
        BY <1>1, <1>3, <2>2, <3>1
      <3>3. QED
        BY <1>3, <2>2, <3>2
    <2>3. QED
      BY <2>1, <2>2
  <1>4. QED
    BY <1>2, <1>3

-----------------------------------------------------------------------------
(* The steps.                                                              *)

LEMMA ReadManifestStep ==
  ASSUME OrgInv, NEW o \in Organizers, ReadManifest(o)
  PROVE  OrgInv' /\ FilledStay
  <1> DEFINE new == [Stopped EXCEPT !.pc = "list", !.original = manifest, !.records = manifest]
  <1>1. /\ organizer[o].pc = "idle" /\ organizer' = [organizer EXCEPT ![o] = new]
        /\ overlapped' = (overlapped \/ \E other \in Organizers \ {o} : Working(other))
        /\ UNCHANGED <<store, manifest, tmp, backups, uploaded, cut>>
    BY DEF ReadManifest, storeVars
  <1>2. manifest \in Seq(Records) /\ AllDescribe(manifest) /\ StoreTypes
    BY DEF OrgInv, OrgTypeOK, PlacesFit, StoreTypes
  <1>3. /\ new.pc = "list" /\ new.original = manifest /\ new.records = manifest
        /\ new.planned = << >> /\ new.moved = 0
    BY DEF Stopped
  <1>4. new \in OrganizerType
    <2>1. << >> \in Seq(Names \X Targets)
      OBVIOUS
    <2>2. QED
      BY <1>2, <2>1 DEF Stopped, OrganizerType
  <1> HIDE DEF new
  <1>5. OnlyOf(o) /\ organizer'[o] = new
    BY <1>1, <1>3, <1>4, Fields DEF OnlyOf, Plan
  <1>6. /\ overlapped' \in BOOLEAN /\ (overlapped => overlapped')
        /\ ~overlapped' => \A p \in Organizers : p # o => ~Working(p)
    BY <1>1
  <1>7. FilledStay /\ LooseFit' /\ NoVideoLost'
    BY <1>1, <1>6, StoreKept
  <1>8. AllDescribe(manifest)' /\ AllDescribe(tmp)'
    BY <1>1, <1>7, ListsKept
  <1>9. FlagsFit' /\ StoreTypes'
    BY <1>1, <1>2, <1>6 DEF OrgInv, FlagsFit, StoreTypes
  <1>10. Plan(o)' = << >> /\ DOMAIN Plan(o)' = {} /\ organizer'[o].moved = 0
    BY <1>3, <1>5 DEF Plan
  <1>11. Progress(o)' /\ RecordsOf(o)' /\ PlacesOf(o)'
    <2>1. Progress(o)'
      BY <1>3, <1>5, <1>10 DEF Progress
    <2>2. RecordsOf(o)'
      BY <1>3, <1>5, <1>10 DEF RecordsOf
    <2>3. PlacesOf(o)'
      BY <1>1, <1>3, <1>5, <1>8, <1>10 DEF PlacesOf, AllDescribe
    <2>4. QED
      BY <2>1, <2>2, <2>3
  <1>12. Alone(o)'
    BY <1>1, <1>3, <1>5, <1>10 DEF Alone
  <1>13. MovedIsListed'
    <2>1. organizer[o].moved = 0
      BY <1>1 DEF OrgInv, ProgressFits, Progress
    <2>2. QED
      BY <1>1, <1>5, <1>6, <1>10, <2>1, ListedKept
  <1>14. QED
    BY <1>5, <1>6, <1>7, <1>8, <1>9, <1>11, <1>12, <1>13, Assemble

\* A working organizer that was always alone has nobody beside it.
LEMMA NobodyBeside ==
  ASSUME OrgInv, NEW o \in Organizers, Working(o), ~overlapped
  PROVE  Alone(o) /\ \A p \in Organizers : p # o => ~Working(p)
  BY DEF OrgInv, OneAtATime

LEMMA ListRootStep ==
  ASSUME OrgInv, NEW o \in Organizers, ListRoot(o)
  PROVE  OrgInv' /\ FilledStay
  <1> DEFINE new == [organizer[o] EXCEPT !.pc = "plan", !.left = {n \in Names : store[n] # Nothing}]
  <1>1. /\ organizer[o].pc = "list" /\ organizer' = [organizer EXCEPT ![o] = new]
        /\ UNCHANGED <<store, manifest, tmp, backups, uploaded, cut, overlapped>>
    BY Fields DEF ListRoot, storeVars
  <1>2. /\ new.pc = "plan" /\ new.original = organizer[o].original
        /\ new.records = organizer[o].records /\ new.planned = organizer[o].planned
        /\ new.moved = organizer[o].moved /\ new \in OrganizerType
    BY Fields DEF OrganizerType
  <1> HIDE DEF new
  <1>3. OnlyOf(o) /\ organizer'[o] = new /\ Plan(o)' = Plan(o)
    BY <1>1, <1>2, Fields DEF OnlyOf, Plan
  <1>4. FilledStay /\ LooseFit' /\ NoVideoLost'
    BY <1>1, StoreKept
  <1>5. AllDescribe(manifest)' /\ AllDescribe(tmp)'
    BY <1>1, <1>4, ListsKept
  <1>6. FlagsFit' /\ StoreTypes'
    BY <1>1 DEF OrgInv, FlagsFit, StoreTypes, OrgTypeOK
  <1>7. Progress(o) /\ RecordsOf(o) /\ PlacesOf(o) /\ Working(o)
    BY <1>1 DEF OrgInv, ProgressFits, RecordsFit, PlacesFit, Working
  <1>8. Progress(o)' /\ RecordsOf(o)' /\ PlacesOf(o)'
    <2>1. Progress(o)'
      BY <1>1, <1>2, <1>3, <1>7 DEF Progress
    <2>2. RecordsOf(o)'
      BY <1>2, <1>3, <1>7 DEF RecordsOf
    <2>3. PlacesOf(o)'
      BY <1>1, <1>2, <1>3, <1>7 DEF PlacesOf, AllDescribe, Describes
    <2>4. QED
      BY <2>1, <2>2, <2>3
  <1>9. ~overlapped' => Alone(o)' /\ \A p \in Organizers : p # o => ~Working(p)
    BY <1>1, <1>2, <1>3, <1>7, NobodyBeside DEF Alone
  <1>10. MovedIsListed'
    BY <1>1, <1>2, <1>3, Fields, ListedKept
  <1>11. QED
    BY <1>3, <1>4, <1>5, <1>6, <1>8, <1>9, <1>10, Assemble

LEMMA PlanEntryStep ==
  ASSUME OrgInv, NEW o \in Organizers, PlanEntry(o)
  PROVE  OrgInv' /\ FilledStay
  <1>1. /\ organizer[o].pc = "plan"
        /\ UNCHANGED <<store, manifest, tmp, backups, uploaded, cut, overlapped>>
    BY DEF PlanEntry, storeVars
  <1> DEFINE Plans(n, target) ==
          organizer' = [organizer EXCEPT
            ![o].left = @ \ {n},
            ![o].planned = IF Taken(o, target) THEN @ ELSE Append(@, <<n, target>>),
            ![o].records = IF Taken(o, target) THEN @
                           ELSE Append(@, [path |-> target, of |-> n])]
  <1>entry. PICK n \in organizer[o].left : \E target \in Inferred(n) : Plans(n, target)
    BY DEF PlanEntry
  <1>2. PICK target \in Inferred(n) : Plans(n, target)
    BY <1>entry
  <1>3. n \in Names /\ target \in Targets /\ <<n, target>> \in Names \X Targets
        /\ [path |-> target, of |-> n] \in Records
    BY Fields, InferredIsTarget DEF Records
  <1> DEFINE plan == IF Taken(o, target) THEN Plan(o) ELSE Append(Plan(o), <<n, target>>)
             records == IF Taken(o, target) THEN organizer[o].records
                        ELSE Append(organizer[o].records, [path |-> target, of |-> n])
             new == [organizer[o] EXCEPT !.left = @ \ {n}, !.planned = plan, !.records = records]
  <1>4. organizer' = [organizer EXCEPT ![o] = new]
    BY <1>2, Fields DEF Plan
  <1>5. /\ plan \in Seq(Names \X Targets) /\ records \in Seq(Records)
        /\ Len(plan) >= Len(Plan(o)) /\ Len(plan) \in Nat
    BY <1>3, Fields, AppendRange
  <1>6. /\ \/ plan = Plan(o) /\ records = organizer[o].records
           \/ /\ ~Taken(o, target)
              /\ plan = Append(Plan(o), <<n, target>>)
              /\ records = Append(organizer[o].records, [path |-> target, of |-> n])
    OBVIOUS
  <1> HIDE DEF plan, records
  <1>7. /\ new.pc = "plan" /\ new.original = organizer[o].original
        /\ new.records = records /\ new.planned = plan
        /\ new.moved = organizer[o].moved /\ new \in OrganizerType
    BY <1>1, <1>5, Fields DEF OrganizerType
  <1> HIDE DEF new
  <1>8. organizer'[o] = new /\ Plan(o)' = plan
    BY <1>4, <1>7, Fields DEF Plan
  <1>9. Progress(o) /\ RecordsOf(o) /\ PlacesOf(o) /\ Working(o) /\ organizer[o].moved = 0
    BY <1>1 DEF OrgInv, ProgressFits, RecordsFit, PlacesFit, Working, Progress
  <1>10. OnlyOf(o)
    BY <1>4, <1>5, <1>7, <1>8, <1>9, Fields DEF OnlyOf
  <1>11. FilledStay /\ LooseFit' /\ NoVideoLost'
    BY <1>1, StoreKept
  <1>12. AllDescribe(manifest)' /\ AllDescribe(tmp)'
    BY <1>1, <1>11, ListsKept
  <1>13. FlagsFit' /\ StoreTypes'
    BY <1>1 DEF OrgInv, FlagsFit, StoreTypes, OrgTypeOK
  <1>14. Progress(o)'
    BY <1>7, <1>8, <1>9 DEF Progress
  <1>15. PlacesOf(o)'
    BY <1>1, <1>7, <1>8, <1>9 DEF PlacesOf, AllDescribe, Describes
  <1>16. RecordsOf(o)' /\ (~overlapped' => Alone(o)')
    <2>1. ~overlapped => Alone(o)
      BY <1>9, NobodyBeside
    <2>2. CASE plan = Plan(o) /\ records = organizer[o].records
      <3>1. RecordsOf(o)'
        BY <1>7, <1>8, <1>9, <2>2 DEF RecordsOf
      <3>2. ~overlapped' => Alone(o)'
        BY <1>1, <1>7, <1>8, <2>1, <2>2 DEF Alone
      <3>3. QED
        BY <3>1, <3>2
    <2>3. CASE /\ ~Taken(o, target)
               /\ plan = Append(Plan(o), <<n, target>>)
               /\ records = Append(organizer[o].records, [path |-> target, of |-> n])
      <3>1. /\ target \notin PathsIn(organizer[o].records) /\ store[target] = Nothing
        BY <2>3 DEF Taken
      <3>2. /\ DOMAIN plan = DOMAIN Plan(o) \cup {Len(Plan(o)) + 1}
            /\ \A i \in DOMAIN Plan(o) : plan[i] = Plan(o)[i]
            /\ plan[Len(Plan(o)) + 1] = <<n, target>>
        BY <1>3, <2>3, Fields, AppendRange
      <3>3. Range(records) = Range(organizer[o].records) \cup {[path |-> target, of |-> n]}
        BY <1>3, <2>3, Fields, AppendRange
      <3>4. /\ PathsIn(organizer[o].records) \subseteq PathsIn(records)
            /\ target \in PathsIn(records)
        BY <3>3 DEF PathsIn
      <3>5. /\ plan[Len(Plan(o)) + 1][1] = n /\ plan[Len(Plan(o)) + 1][2] = target
            /\ Len(Plan(o)) + 1 \in DOMAIN plan
        BY <3>2
      <3>6. RecordsOf(o)'
        <4>1. Range(organizer[o].original) \subseteq Range(records)
          BY <1>9, <3>3 DEF RecordsOf
        <4>2. \A i \in DOMAIN plan : plan[i][2] \in PathsIn(records)
          BY <1>9, <3>2, <3>4, <3>5 DEF RecordsOf
        <4>3. ASSUME NEW r \in Range(records)
              PROVE  \/ r \in Range(organizer[o].original)
                     \/ \E i \in DOMAIN plan : r.of = plan[i][1] /\ r.path = plan[i][2]
          <5>1. CASE r \in Range(organizer[o].records)
            BY <1>9, <3>2, <5>1 DEF RecordsOf
          <5>2. CASE r = [path |-> target, of |-> n]
            BY <3>5, <5>2
          <5>3. QED
            BY <3>3, <5>1, <5>2
        <4>4. QED
          BY <1>7, <1>8, <4>1, <4>2, <4>3 DEF RecordsOf
      <3>7. ~overlapped' => Alone(o)'
        <4>1. SUFFICES ASSUME ~overlapped' PROVE Alone(o)'
          OBVIOUS
        <4>2. Alone(o)
          BY <1>1, <2>1, <4>1
        <4>3. \A i \in DOMAIN plan : store[plan[i][2]] = Nothing
          <5>1. \A i \in DOMAIN Plan(o) : i > organizer[o].moved
            BY <1>9, Fields
          <5>2. QED
            BY <3>1, <3>2, <3>5, <4>2, <5>1 DEF Alone
        <4>4. \A i \in DOMAIN Plan(o) : plan[i][2] # target
          BY <1>9, <3>1, <3>2 DEF RecordsOf
        <4>5. \A i, j \in DOMAIN plan : plan[i][2] = plan[j][2] => i = j
          BY <3>2, <3>5, <4>2, <4>4 DEF Alone
        <4>6. QED
          BY <1>1, <1>7, <1>8, <4>2, <4>3, <4>5 DEF Alone
      <3>8. QED
        BY <3>6, <3>7
    <2>4. QED
      BY <1>6, <2>2, <2>3
  <1>17. ~overlapped' => \A p \in Organizers : p # o => ~Working(p)
    BY <1>1, <1>9, NobodyBeside
  <1>18. MovedIsListed'
    BY <1>1, <1>7, <1>8, <1>9, <1>10, ListedKept
  <1>19. QED
    BY <1>10, <1>11, <1>12, <1>13, <1>14, <1>15, <1>16, <1>17, <1>18, Assemble

\* A run that stops without having moved anything, or is cut off.
LEMMA StopsStep ==
  ASSUME OrgInv, NEW o \in Organizers, organizer' = [organizer EXCEPT ![o] = Stopped],
         Working(o), UNCHANGED <<store, manifest, tmp, backups, uploaded, overlapped>>,
         cut' \in BOOLEAN, cut => cut', organizer[o].moved > 0 => cut'
  PROVE  OrgInv' /\ FilledStay
  <1>1. OnlyOf(o) /\ organizer'[o] = Stopped
    <2>1. organizer' \in [Organizers -> OrganizerType]
          /\ \A p \in Organizers : p # o => organizer'[p] = organizer[p]
      BY StoppedIsType, Fields
    <2>2. organizer'[o] = Stopped
      BY Fields
    <2>3. organizer'[o].moved <= Len(Plan(o)')
      BY <2>2 DEF Plan, Stopped
    <2>4. QED
      BY <2>1, <2>2, <2>3 DEF OnlyOf
  <1>2. FilledStay /\ LooseFit' /\ NoVideoLost'
    BY StoreKept
  <1>3. AllDescribe(manifest)' /\ AllDescribe(tmp)'
    BY <1>2, ListsKept
  <1>4. FlagsFit' /\ StoreTypes'
    BY DEF OrgInv, FlagsFit, StoreTypes, OrgTypeOK
  <1>5. Progress(o)' /\ RecordsOf(o)' /\ PlacesOf(o)' /\ ~Working(o)'
        /\ organizer'[o].moved = 0
    BY <1>1, StoppedFits
  <1>6. ~overlapped' => \A p \in Organizers : p # o => ~Working(p)
    BY NobodyBeside
  <1>7. MovedIsListed'
    <2>1. organizer[o].moved \in Nat
      BY Fields
    <2>2. ~cut' => organizer[o].moved = 0
      BY <2>1
    <2>3. QED
      BY <1>1, <1>5, <2>2, ListedKept
  <1>8. QED
    BY <1>1, <1>2, <1>3, <1>4, <1>5, <1>6, <1>7, Assemble

LEMMA StopStep ==
  ASSUME OrgInv, NEW o \in Organizers, Stop(o)
  PROVE  OrgInv' /\ FilledStay
  <1>1. /\ organizer' = [organizer EXCEPT ![o] = Stopped] /\ Working(o)
        /\ UNCHANGED <<store, manifest, tmp, backups, uploaded, overlapped>>
        /\ cut' = (cut \/ organizer[o].moved > 0)
    BY DEF Stop, Working, storeVars
  <1>2. cut' \in BOOLEAN /\ (cut => cut') /\ (organizer[o].moved > 0 => cut')
    BY <1>1
  <1>3. QED
    BY <1>1, <1>2, StopsStep

\* A step of o that only takes it to its next call.
LEMMA GoesOnStep ==
  ASSUME OrgInv, NEW o \in Organizers, NEW pc \in {"apply", "tmp", "replace"},
         organizer' = [organizer EXCEPT ![o].pc = pc], Working(o),
         UNCHANGED <<store, manifest, uploaded, overlapped, cut>>,
         tmp' \in Seq(Records), AllDescribe(tmp)',
         backups \subseteq backups', backups' \subseteq Seq(Records) \ {<< >>},
         pc = "apply" \/ organizer[o].moved = Len(Plan(o)),
         ~overlapped /\ pc \in {"tmp", "replace"} => manifest = << >> \/ manifest \in backups',
         pc = "replace" => tmp' = organizer[o].records
  PROVE  OrgInv' /\ FilledStay
  <1> DEFINE new == [organizer[o] EXCEPT !.pc = pc]
  <1>1. organizer' = [organizer EXCEPT ![o] = new]
    BY Fields
  <1>2. /\ new.pc = pc /\ new.original = organizer[o].original
        /\ new.records = organizer[o].records /\ new.planned = organizer[o].planned
        /\ new.moved = organizer[o].moved /\ new \in OrganizerType
    BY Fields DEF OrganizerType
  <1> HIDE DEF new
  <1>3. OnlyOf(o) /\ organizer'[o] = new /\ Plan(o)' = Plan(o)
    BY <1>1, <1>2, Fields DEF OnlyOf, Plan
  <1>4. FilledStay /\ LooseFit' /\ NoVideoLost'
    BY StoreKept
  <1>5. AllDescribe(manifest)'
    BY <1>4, ListsKept
  <1>6. FlagsFit' /\ StoreTypes'
    BY DEF OrgInv, FlagsFit, StoreTypes, OrgTypeOK
  <1>7. Progress(o) /\ RecordsOf(o) /\ PlacesOf(o)
    BY DEF OrgInv, ProgressFits, RecordsFit, PlacesFit
  <1>8. Progress(o)' /\ RecordsOf(o)' /\ PlacesOf(o)'
    <2>1. Progress(o)'
      BY <1>2, <1>3, <1>7 DEF Progress
    <2>2. RecordsOf(o)'
      BY <1>2, <1>3, <1>7 DEF RecordsOf
    <2>3. PlacesOf(o)'
      BY <1>2, <1>3, <1>7 DEF PlacesOf, AllDescribe, Describes
    <2>4. QED
      BY <2>1, <2>2, <2>3
  <1>9. ~overlapped' => Alone(o)' /\ \A p \in Organizers : p # o => ~Working(p)
    BY <1>2, <1>3, NobodyBeside DEF Alone
  <1>10. MovedIsListed'
    BY <1>2, <1>3, Fields, ListedKept
  <1>11. QED
    BY <1>3, <1>4, <1>5, <1>6, <1>8, <1>9, <1>10, Assemble

LEMMA PlannedStep ==
  ASSUME OrgInv, NEW o \in Organizers, Planned(o)
  PROVE  OrgInv' /\ FilledStay
  <1>1. /\ organizer[o].pc = "plan" /\ Working(o)
        /\ UNCHANGED <<store, manifest, tmp, backups, uploaded, overlapped, cut>>
    BY DEF Planned, Working, storeVars
  <1>2. /\ organizer[o].moved = 0 /\ tmp \in Seq(Records) /\ AllDescribe(tmp)
        /\ backups \subseteq Seq(Records) \ {<< >>} /\ cut \in BOOLEAN
    BY <1>1 DEF OrgInv, ProgressFits, Progress, PlacesFit, OrgTypeOK, FlagsFit
  <1>3. CASE organizer' = [organizer EXCEPT ![o].pc = "apply"]
    <2>1. AllDescribe(tmp)'
      BY <1>1, <1>2 DEF AllDescribe, Describes
    <2>2. QED
      BY <1>1, <1>2, <1>3, <2>1, GoesOnStep
  <1>4. CASE organizer' = [organizer EXCEPT ![o] = Stopped]
    <2>1. cut' \in BOOLEAN /\ (cut => cut')
      BY <1>1, <1>2, Zenon
    <2>2. ~(organizer[o].moved > 0)
      BY <1>2
    <2>3. QED
      BY <1>1, <1>4, <2>1, <2>2, StopsStep
  <1>5. QED
    BY <1>3, <1>4 DEF Planned

LEMMA PutBackupStep ==
  ASSUME OrgInv, NEW o \in Organizers, PutBackup(o)
  PROVE  OrgInv' /\ FilledStay
  <1>1. /\ organizer[o].pc = "apply" /\ Working(o) /\ ~MovesLeft(o)
        /\ backups' = backups \cup ({organizer[o].original} \ {<< >>})
        /\ organizer' = [organizer EXCEPT ![o].pc = "tmp"]
        /\ UNCHANGED <<store, manifest, tmp, uploaded, overlapped, cut>>
    BY DEF PutBackup, Working
  <1>2. /\ organizer[o].moved = Len(Plan(o)) /\ organizer[o].original \in Seq(Records)
    BY <1>1, Fields DEF MovesLeft, Plan
  <1>3. /\ tmp \in Seq(Records) /\ AllDescribe(tmp) /\ backups \subseteq Seq(Records) \ {<< >>}
    BY DEF OrgInv, PlacesFit, OrgTypeOK
  <1>4. backups' \subseteq Seq(Records) \ {<< >>} /\ backups \subseteq backups'
    BY <1>1, <1>2, <1>3
  <1>5. ~overlapped => manifest = << >> \/ manifest \in backups'
    BY <1>1, NobodyBeside DEF Alone
  <1>6. AllDescribe(tmp)'
    BY <1>1, <1>3 DEF AllDescribe, Describes
  <1>7. QED
    BY <1>1, <1>2, <1>3, <1>4, <1>5, <1>6, GoesOnStep

\* Once all moves are done, the records of the run describe the store.
LEMMA RecordsDescribe ==
  ASSUME OrgInv, NEW o \in Organizers, organizer[o].moved = Len(Plan(o))
  PROVE  AllDescribe(organizer[o].records)
  <1>1. RecordsOf(o) /\ PlacesOf(o) /\ DOMAIN Plan(o) = 1..organizer[o].moved
    BY Fields DEF OrgInv, RecordsFit, PlacesFit
  <1>2. ASSUME NEW r \in Range(organizer[o].records)
        PROVE  Describes(r.path, r.of)
    <2>1. CASE r \in Range(organizer[o].original)
      BY <1>1, <2>1 DEF PlacesOf, AllDescribe
    <2>2. ASSUME NEW i \in DOMAIN Plan(o), r.of = Plan(o)[i][1], r.path = Plan(o)[i][2]
          PROVE  Describes(r.path, r.of)
      BY <1>1, <2>2 DEF PlacesOf
    <2>3. QED
      BY <1>1, <2>1, <2>2 DEF RecordsOf
  <1>3. QED
    BY <1>2 DEF AllDescribe

LEMMA PutTmpStep ==
  ASSUME OrgInv, NEW o \in Organizers, PutTmp(o)
  PROVE  OrgInv' /\ FilledStay
  <1>1. /\ organizer[o].pc = "tmp" /\ Working(o) /\ tmp' = organizer[o].records
        /\ organizer' = [organizer EXCEPT ![o].pc = "replace"]
        /\ UNCHANGED <<store, manifest, backups, uploaded, overlapped, cut>>
    BY DEF PutTmp, Working
  <1>2. /\ organizer[o].moved = Len(Plan(o)) /\ organizer[o].records \in Seq(Records)
    BY <1>1, Fields DEF OrgInv, ProgressFits, Progress
  <1>3. AllDescribe(tmp)'
    BY <1>1, <1>2, RecordsDescribe DEF AllDescribe, Describes
  <1>4. backups \subseteq Seq(Records) \ {<< >>}
    BY DEF OrgInv, OrgTypeOK
  <1>5. ~overlapped => manifest = << >> \/ manifest \in backups
    BY <1>1, NobodyBeside DEF Alone
  <1>6. QED
    BY <1>1, <1>2, <1>3, <1>4, <1>5, GoesOnStep

LEMMA ReplaceManifestStep ==
  ASSUME OrgInv, NEW o \in Organizers, ReplaceManifest(o)
  PROVE  OrgInv' /\ FilledStay
  <1>1. /\ organizer[o].pc = "replace" /\ Working(o)
        /\ manifest' = tmp /\ tmp' = << >>
        /\ organizer' = [organizer EXCEPT ![o] = Stopped]
        /\ UNCHANGED <<store, backups, uploaded, overlapped, cut>>
    BY DEF ReplaceManifest, Working, NoFile
  <1>2. OnlyOf(o) /\ organizer'[o] = Stopped
    <2>1. organizer' \in [Organizers -> OrganizerType]
          /\ \A p \in Organizers : p # o => organizer'[p] = organizer[p]
      BY <1>1, StoppedIsType, Fields
    <2>2. organizer'[o] = Stopped
      BY <1>1, Fields
    <2>3. organizer'[o].moved <= Len(Plan(o)')
      BY <2>2 DEF Plan, Stopped
    <2>4. QED
      BY <2>1, <2>2, <2>3 DEF OnlyOf
  <1>3. FilledStay /\ LooseFit' /\ NoVideoLost'
    BY <1>1, StoreKept
  <1>4. AllDescribe(manifest)' /\ AllDescribe(tmp)'
    BY <1>1, EmptyRange DEF OrgInv, PlacesFit, AllDescribe, Describes
  <1>5. FlagsFit' /\ StoreTypes'
    <2>1. << >> \in Seq(Records)
      OBVIOUS
    <2>2. QED
      BY <1>1, <2>1 DEF OrgInv, FlagsFit, StoreTypes, OrgTypeOK
  <1>6. Progress(o)' /\ RecordsOf(o)' /\ PlacesOf(o)' /\ ~Working(o)'
    BY <1>2, StoppedFits
  <1>7. ~overlapped' => \A p \in Organizers : p # o => ~Working(p)
    BY <1>1, NobodyBeside
  <1>8. MovedIsListed'
    <2>1. SUFFICES ASSUME ~overlapped', ~cut', NEW t \in Targets, store'[t] # Nothing
                   PROVE  t \in PathsIn(manifest')
      BY DEF MovedIsListed
    <2>2. Alone(o) /\ \A p \in Organizers : p # o => ~Working(p)
      BY <1>1, <2>1, NobodyBeside
    <2>3. tmp = organizer[o].records /\ organizer[o].original = manifest
      BY <1>1, <2>2 DEF Alone
    <2>4. RecordsOf(o)
      BY DEF OrgInv, RecordsFit
    <2>5. PathsIn(manifest) \subseteq PathsIn(tmp)
      BY <2>3, <2>4 DEF RecordsOf, PathsIn
    <2>6. ASSUME NEW p \in Organizers, NEW i \in 1..organizer[p].moved, Plan(p)[i][2] = t
          PROVE  t \in PathsIn(tmp)
      <3>1. i \in DOMAIN Plan(p)
        BY Fields
      <3>2. organizer[p].moved # 0
        OBVIOUS
      <3>3. p = o
        BY <2>2, <3>2 DEF OrgInv, ProgressFits, Progress, Working
      <3>4. QED
        BY <2>3, <2>4, <2>6, <3>1, <3>3 DEF RecordsOf
    <2>7. \/ t \in PathsIn(manifest)
          \/ \E p \in Organizers : \E i \in 1..organizer[p].moved : Plan(p)[i][2] = t
      BY <1>1, <2>1 DEF OrgInv, MovedIsListed
    <2>8. QED
      BY <1>1, <2>5, <2>6, <2>7
  <1>9. QED
    BY <1>2, <1>3, <1>4, <1>5, <1>6, <1>7, <1>8, Assemble

LEMMA MoveNextStep ==
  ASSUME OrgInv, NEW o \in Organizers, MoveNext(o)
  PROVE  OrgInv' /\ FilledStay
  <1> DEFINE next == organizer[o].moved + 1
             from == Plan(o)[next][1]
             to   == Plan(o)[next][2]
             new  == [organizer[o] EXCEPT !.moved = next]
  <1>1. /\ organizer[o].pc = "apply" /\ Working(o) /\ MovesLeft(o)
        /\ store[from] # Nothing
        /\ store' = [store EXCEPT ![to] = store[from], ![from] = Nothing]
        /\ organizer' = [organizer EXCEPT ![o] = new]
        /\ UNCHANGED <<manifest, tmp, backups, uploaded, overlapped, cut>>
    BY Fields DEF MoveNext, Working, Plan, move
  <1>2. next \in DOMAIN Plan(o) /\ next \in Nat /\ next <= Len(Plan(o))
    BY <1>1, Fields DEF MovesLeft, Plan
  <1>3. from \in Names /\ to \in Targets /\ from # to
    BY <1>2, Fields, LooseIsNoTarget
  <1>4. /\ new.pc = "apply" /\ new.original = organizer[o].original
        /\ new.records = organizer[o].records /\ new.planned = organizer[o].planned
        /\ new.moved = next /\ new \in OrganizerType
    BY <1>1, <1>2, Fields DEF OrganizerType
  <1>5. /\ next > organizer[o].moved /\ \A i \in 1..next : i = next \/ i \in 1..organizer[o].moved
        /\ \A i \in DOMAIN Plan(o) : i > next => i > organizer[o].moved
        /\ organizer[o].moved <= next /\ next \in 1..next
    BY Fields
  <1> HIDE DEF next, new
  <1>6. OnlyOf(o) /\ organizer'[o] = new /\ Plan(o)' = Plan(o)
    BY <1>1, <1>2, <1>4, Fields DEF OnlyOf, Plan
  <1> HIDE DEF from, to
  <1>7. /\ store \in [Names \cup Targets -> Videos \cup {Nothing}] /\ Nothing \notin Videos
        /\ uploaded \subseteq Videos
    BY StoreAssumption DEF OrgInv, OrgTypeOK
  <1>8. /\ store' \in [Names \cup Targets -> Videos \cup {Nothing}]
        /\ store'[to] = store[from] /\ store'[from] = Nothing
        /\ \A p \in Names \cup Targets : p # to /\ p # from => store'[p] = store[p]
    BY <1>1, <1>3, <1>7
  <1>9. ~overlapped => Alone(o) /\ (\A p \in Organizers : p # o => ~Working(p)) /\ store[to] = Nothing
    BY <1>1, <1>2, <1>5, NobodyBeside DEF Alone, to
  <1>10. FilledStay
    BY <1>1, <1>3, <1>8, <1>9, LooseIsNoTarget DEF FilledStay
  <1>11. LooseFit'
    BY <1>3, <1>8, LooseIsNoTarget DEF OrgInv, LooseFit
  <1>12. NoVideoLost'
    <2>1. SUFFICES ASSUME ~overlapped', NEW v \in uploaded'
                   PROVE  \E p \in DOMAIN store' : store'[p] = v
      BY DEF NoVideoLost
    <2>2. PICK p \in Names \cup Targets : store[p] = v
      BY <1>1, <1>7, <2>1 DEF OrgInv, NoVideoLost
    <2>3. p # to
      BY <1>1, <1>7, <1>9, <2>1, <2>2
    <2>4. CASE p = from
      BY <1>3, <1>8, <2>2, <2>4
    <2>5. CASE p # from
      BY <1>8, <2>2, <2>3, <2>5
    <2>6. QED
      BY <2>4, <2>5
  <1>13. AllDescribe(manifest)' /\ AllDescribe(tmp)'
    BY <1>1, <1>10, ListsKept
  <1>14. FlagsFit' /\ StoreTypes'
    BY <1>1, <1>8 DEF OrgInv, FlagsFit, StoreTypes, OrgTypeOK
  <1>15. Progress(o) /\ RecordsOf(o) /\ PlacesOf(o)
    BY DEF OrgInv, ProgressFits, RecordsFit, PlacesFit
  <1>16. Progress(o)' /\ RecordsOf(o)'
    BY <1>4, <1>6, <1>15 DEF Progress, RecordsOf
  <1>17. NameOf[store[from]] = from
    BY <1>1, <1>3 DEF OrgInv, LooseFit
  <1>18. PlacesOf(o)'
    <2>1. \A r \in Range(organizer[o].original) : Describes(r.path, r.of)'
      BY <1>10, <1>15, Fields, AllDescribeStays DEF PlacesOf
    <2>2. ASSUME NEW i \in 1..organizer[o].moved
          PROVE  LET t == Plan(o)[i][2]
                 IN  store'[t] # Nothing /\ (overlapped' \/ NameOf[store'[t]] = Plan(o)[i][1])
      <3>1. Plan(o)[i][2] \in Targets
        BY Fields
      <3>2. Describes(Plan(o)[i][2], Plan(o)[i][1])
        BY <1>15 DEF PlacesOf
      <3>3. QED
        BY <1>10, <3>1, <3>2 DEF FilledStay, Describes
    <2>3. store'[Plan(o)[next][2]] # Nothing /\ NameOf[store'[Plan(o)[next][2]]] = Plan(o)[next][1]
      BY <1>1, <1>8, <1>17 DEF from, to
    <2>4. QED
      BY <1>4, <1>5, <1>6, <2>1, <2>2, <2>3 DEF PlacesOf, AllDescribe, Describes
  <1>19. ~overlapped' => Alone(o)'
    <2>1. SUFFICES ASSUME ~overlapped PROVE Alone(o)'
      BY <1>1
    <2>2. Alone(o)
      BY <1>9, <2>1
    <2>3. \A i \in DOMAIN Plan(o) : i > next => store'[Plan(o)[i][2]] = Nothing
      <3>1. ASSUME NEW i \in DOMAIN Plan(o), i > next
            PROVE  store'[Plan(o)[i][2]] = Nothing
        <4>1. store[Plan(o)[i][2]] = Nothing
          BY <1>5, <2>2, <3>1 DEF Alone
        <4>2. i # next
          BY <1>2, <3>1, Fields
        <4>3. Plan(o)[i][2] # to /\ Plan(o)[i][2] \in Targets
          BY <1>2, <2>2, <4>2, Fields DEF Alone, to
        <4>4. QED
          BY <1>3, <1>8, <4>1, <4>3, LooseIsNoTarget
      <3>2. QED
        BY <3>1
    <2>4. QED
      BY <1>1, <1>4, <1>6, <2>2, <2>3 DEF Alone
  <1>20. MovedIsListed'
    <2>1. SUFFICES ASSUME ~overlapped', ~cut', NEW t \in Targets, store'[t] # Nothing
                   PROVE  \/ t \in PathsIn(manifest')
                          \/ \E p \in Organizers :
                               \E i \in 1..organizer'[p].moved : Plan(p)'[i][2] = t
      BY DEF MovedIsListed, Plan
    <2>2. CASE t = to
      BY <1>4, <1>5, <1>6, <2>2 DEF to
    <2>3. CASE t # to
      <3>1. store[t] # Nothing
        BY <1>3, <1>8, <2>1, <2>3, LooseIsNoTarget
      <3>2. \/ t \in PathsIn(manifest)
            \/ \E p \in Organizers : \E i \in 1..organizer[p].moved : Plan(p)[i][2] = t
        BY <1>1, <2>1, <3>1 DEF OrgInv, MovedIsListed
      <3>3. ASSUME NEW p \in Organizers, NEW i \in 1..organizer[p].moved, Plan(p)[i][2] = t
            PROVE  \E j \in 1..organizer'[p].moved : Plan(p)'[j][2] = t
        <4>1. CASE p # o
          BY <1>6, <3>3, <4>1 DEF OnlyOf, Plan
        <4>2. CASE p = o
          <5>1. i \in 1..next
            BY <1>2, <1>5, <4>2, Fields
          <5>2. QED
            BY <1>4, <1>6, <3>3, <4>2, <5>1
        <4>3. QED
          BY <4>1, <4>2
      <3>4. QED
        BY <1>1, <3>2, <3>3
    <2>4. QED
      BY <2>2, <2>3
  <1>21. QED
    BY <1>1, <1>6, <1>9, <1>10, <1>11, <1>12, <1>13, <1>14, <1>16, <1>18, <1>19, <1>20, Assemble

LEMMA UploadStep ==
  ASSUME OrgInv, NEW v \in Videos, Upload(v)
  PROVE  OrgInv' /\ FilledStay
  <1>1. /\ v \notin uploaded /\ store[NameOf[v]] = Nothing
        /\ store' = [store EXCEPT ![NameOf[v]] = v] /\ uploaded' = uploaded \cup {v}
        /\ UNCHANGED <<manifest, tmp, backups, organizer, overlapped, cut>>
    BY DEF Upload
  <1>2. /\ store \in [Names \cup Targets -> Videos \cup {Nothing}] /\ Nothing \notin Videos
        /\ NameOf[v] \in Names /\ uploaded \subseteq Videos
    BY StoreAssumption DEF OrgInv, OrgTypeOK
  <1>3. /\ store' \in [Names \cup Targets -> Videos \cup {Nothing}]
        /\ store'[NameOf[v]] = v
        /\ \A p \in Names \cup Targets : p # NameOf[v] => store'[p] = store[p]
        /\ \A t \in Targets : store'[t] = store[t]
    BY <1>1, <1>2, LooseIsNoTarget
  <1>4. FilledStay
    BY <1>1, <1>3 DEF FilledStay
  <1>5. OrgTypeOK' /\ OrganizersFit' /\ FlagsFit' /\ ProgressFits' /\ RecordsFit'
    <2>1. OrgTypeOK'
      BY <1>1, <1>2, <1>3 DEF OrgInv, OrgTypeOK
    <2>2. OrganizersFit' /\ FlagsFit'
      BY <1>1 DEF OrgInv, OrganizersFit, FlagsFit
    <2>3. ProgressFits' /\ RecordsFit'
      BY <1>1 DEF OrgInv, ProgressFits, RecordsFit, Progress, RecordsOf, Plan
    <2>4. QED
      BY <2>1, <2>2, <2>3
  <1>6. \A o \in Organizers : Plan(o)' = Plan(o)
    BY <1>1 DEF Plan
  <1>7. PlacesFit'
    <2>1. AllDescribe(manifest)' /\ AllDescribe(tmp)'
      BY <1>1, <1>4, ListsKept
    <2>2. ASSUME NEW o \in Organizers
          PROVE  PlacesOf(o)'
      <3>1. PlacesOf(o)
        BY DEF OrgInv, PlacesFit
      <3>2. \A r \in Range(organizer[o].original) : Describes(r.path, r.of)'
        BY <1>4, <3>1, Fields, AllDescribeStays DEF PlacesOf
      <3>3. ASSUME NEW i \in 1..organizer[o].moved
            PROVE  LET t == Plan(o)[i][2]
                   IN  store'[t] # Nothing /\ (overlapped' \/ NameOf[store'[t]] = Plan(o)[i][1])
        <4>1. Plan(o)[i][2] \in Targets
          BY Fields
        <4>2. Describes(Plan(o)[i][2], Plan(o)[i][1])
          BY <3>1 DEF PlacesOf
        <4>3. QED
          BY <1>4, <4>1, <4>2 DEF FilledStay, Describes
      <3>4. QED
        BY <1>1, <1>6, <3>2, <3>3 DEF PlacesOf, AllDescribe, Describes
    <2>3. QED
      BY <2>1, <2>2 DEF PlacesFit
  <1>8. LooseFit'
    BY <1>2, <1>3 DEF OrgInv, LooseFit
  <1>9. OneAtATime'
    <2>1. ASSUME NEW o \in Organizers, Alone(o)
          PROVE  Alone(o)'
      <3>1. \A i \in DOMAIN Plan(o) : store'[Plan(o)[i][2]] = store[Plan(o)[i][2]]
        BY <1>3, Fields
      <3>2. QED
        BY <1>1, <1>6, <2>1, <3>1 DEF Alone
    <2>2. \A o \in Organizers : Working(o)' <=> Working(o)
      BY <1>1 DEF Working
    <2>3. QED
      BY <1>1, <2>1, <2>2 DEF OrgInv, OneAtATime
  <1>10. MovedIsListed'
    BY <1>1, <1>3, <1>6 DEF OrgInv, MovedIsListed
  <1>11. NoVideoLost'
    <2>1. SUFFICES ASSUME ~overlapped', NEW u \in uploaded'
                   PROVE  \E p \in DOMAIN store' : store'[p] = u
      BY DEF NoVideoLost
    <2>2. CASE u = v
      BY <1>2, <1>3, <2>2
    <2>3. CASE u \in uploaded
      <3>1. PICK p \in Names \cup Targets : store[p] = u
        BY <1>1, <1>2, <2>1, <2>3 DEF OrgInv, NoVideoLost
      <3>2. p # NameOf[v]
        BY <1>1, <1>2, <2>3, <3>1
      <3>3. QED
        BY <1>3, <3>1, <3>2
    <2>4. QED
      BY <1>1, <2>1, <2>2, <2>3
  <1>12. QED
    BY <1>4, <1>5, <1>7, <1>8, <1>9, <1>10, <1>11 DEF OrgInv

LEMMA OrgStutter ==
  ASSUME OrgInv, UNCHANGED orgVars
  PROVE  OrgInv' /\ FilledStay
  <1>1. UNCHANGED <<store, manifest, tmp, backups, uploaded, organizer, overlapped, cut>>
    BY DEF orgVars, storeVars
  <1>2. OrgTypeOK' /\ OrganizersFit' /\ FlagsFit' /\ LooseFit' /\ NoVideoLost' /\ MovedIsListed'
    BY <1>1 DEF OrgInv, OrgTypeOK, OrganizersFit, FlagsFit, LooseFit, NoVideoLost,
                MovedIsListed, Plan
  <1>3. ProgressFits' /\ RecordsFit' /\ PlacesFit'
    BY <1>1 DEF OrgInv, ProgressFits, Progress, RecordsFit, RecordsOf, PlacesFit, PlacesOf,
                AllDescribe, Describes, Plan
  <1>4. OneAtATime'
    BY <1>1 DEF OrgInv, OneAtATime, Alone, Working, Plan
  <1>5. FilledStay
    BY <1>1 DEF FilledStay
  <1>6. QED
    BY <1>2, <1>3, <1>4, <1>5 DEF OrgInv

\* No step of an organizer or of someone who uploads breaks the invariant, or takes
\* a video from a target.
LEMMA OrgStep == OrgInv /\ [OrgNext]_orgVars => OrgInv' /\ FilledStay
  <1> SUFFICES ASSUME OrgInv, [OrgNext]_orgVars PROVE OrgInv' /\ FilledStay
    OBVIOUS
  <1>1. ASSUME NEW v \in Videos, Upload(v)
        PROVE  OrgInv' /\ FilledStay
    BY <1>1, UploadStep
  <1>2. ASSUME NEW o \in Organizers,
               \/ ReadManifest(o) \/ ListRoot(o)  \/ PlanEntry(o) \/ Planned(o)
               \/ MoveNext(o)     \/ PutBackup(o) \/ PutTmp(o)    \/ ReplaceManifest(o)
               \/ Stop(o)
        PROVE  OrgInv' /\ FilledStay
    BY <1>2, ReadManifestStep, ListRootStep, PlanEntryStep, PlannedStep, MoveNextStep,
       PutBackupStep, PutTmpStep, ReplaceManifestStep, StopStep
  <1>3. CASE UNCHANGED orgVars
    BY <1>3, OrgStutter
  <1>4. QED
    BY <1>1, <1>2, <1>3 DEF OrgNext

LEMMA OrgInitInv == OrgInit => OrgInv
  <1> SUFFICES ASSUME OrgInit PROVE OrgInv
    OBVIOUS
  <1>1. /\ store = [p \in Names \cup Targets |-> Nothing]
        /\ manifest = << >> /\ tmp = << >> /\ backups = {} /\ uploaded = {}
        /\ organizer = [o \in Organizers |-> Stopped]
    BY DEF OrgInit, NoFile
  <1>2. FlagsFit
    BY Zenon DEF OrgInit, FlagsFit
  <1>3. OrganizersFit
    BY <1>1, StoppedIsType DEF OrganizersFit, OrganizerType
  <1>4. ASSUME NEW o \in Organizers
        PROVE  /\ organizer[o] = Stopped /\ organizer[o].pc = "idle" /\ organizer[o].moved = 0
               /\ Plan(o) = << >> /\ DOMAIN Plan(o) = {} /\ Len(Plan(o)) = 0
               /\ organizer[o].original = << >> /\ organizer[o].records = << >>
               /\ organizer[o].left = {}
    BY <1>1 DEF Stopped, Plan
  <1>5. << >> \in Seq(Records) /\ << >> \in Seq(Names \X Targets)
    OBVIOUS
  <1>6. OrgTypeOK
    <2>1. ASSUME NEW o \in Organizers
          PROVE  /\ organizer[o].pc \in {"idle", "list", "plan", "apply", "tmp", "replace"}
                 /\ {organizer[o].original, organizer[o].records} \subseteq Seq(Records)
                 /\ organizer[o].left \subseteq Names
                 /\ organizer[o].planned \in Seq(Names \X Targets)
                 /\ organizer[o].moved \in 0..Len(organizer[o].planned)
      <3>1. organizer[o].planned = << >> /\ Len(organizer[o].planned) = 0
        BY <1>4 DEF Plan
      <3>2. organizer[o].moved \in 0..Len(organizer[o].planned)
        BY <1>4, <3>1
      <3>3. organizer[o].planned \in Seq(Names \X Targets)
        BY <1>5, <3>1
      <3>4. {organizer[o].original, organizer[o].records} \subseteq Seq(Records)
        BY <1>4, <1>5
      <3>5. QED
        BY <1>4, <3>2, <3>3, <3>4
    <2>2. store \in [Names \cup Targets -> Videos \cup {Nothing}]
      BY <1>1
    <2>3. QED
      BY <1>1, <1>5, <2>1, <2>2 DEF OrgTypeOK
  <1>7. ProgressFits /\ RecordsFit
    BY <1>4, EmptyRange DEF ProgressFits, RecordsFit, Progress, RecordsOf
  <1>8. PlacesFit
    BY <1>1, <1>4, EmptyRange DEF PlacesFit, PlacesOf, AllDescribe
  <1>9. LooseFit /\ MovedIsListed /\ NoVideoLost
    BY <1>1 DEF LooseFit, MovedIsListed, NoVideoLost
  <1>10. OneAtATime
    BY <1>4 DEF OneAtATime, Working
  <1>11. QED
    BY <1>2, <1>3, <1>6, <1>7, <1>8, <1>9, <1>10 DEF OrgInv

Growing ==
  manifest' # manifest /\ ~overlapped =>
    /\ Range(manifest) \subseteq Range(manifest')
    /\ manifest = << >> \/ manifest \in backups

LEMMA OrgGrowing == OrgInv /\ [OrgNext]_orgVars => [Growing]_orgVars
  <1> SUFFICES ASSUME OrgInv, OrgNext, manifest' # manifest, ~overlapped
               PROVE  /\ Range(manifest) \subseteq Range(manifest')
                      /\ manifest = << >> \/ manifest \in backups
    BY DEF Growing
  <1>1. PICK o \in Organizers : ReplaceManifest(o)
    BY DEF OrgNext, Upload, ReadManifest, ListRoot, PlanEntry, Planned, MoveNext, PutBackup,
           PutTmp, Stop, storeVars
  <1>2. organizer[o].pc = "replace" /\ Working(o) /\ manifest' = tmp
    BY <1>1 DEF ReplaceManifest, Working
  <1>3. Alone(o)
    BY <1>2, NobodyBeside
  <1>4. RecordsOf(o)
    BY DEF OrgInv, RecordsFit
  <1>5. QED
    BY <1>2, <1>3, <1>4 DEF Alone, RecordsOf

-----------------------------------------------------------------------------
\* The store as the organizers and those who upload leave it, whoever reads it.
OrgSpec == OrgInit /\ [][OrgNext]_orgVars

\* The inductive invariant holds of every run.
THEOREM OrganizerInvariant == OrgSpec => []OrgInv
  <1>1. OrgInv /\ [OrgNext]_orgVars => OrgInv'
    BY OrgStep
  <1>2. QED
    BY <1>1, OrgInitInv, PTL DEF OrgSpec

\* Organizers that do not meet lose no video: MOVE with "Overwrite: T" never finds
\* its target filled, wherever a run stops and whatever the model answers.
THEOREM VideosAreKept == OrgSpec => []NoVideoLost
  <1>1. OrgInv => NoVideoLost
    BY DEF OrgInv
  <1>2. QED
    BY <1>1, OrganizerInvariant, PTL

\* A record of the manifest is one of a video in the store, and if organizers do
\* not meet, of the video under its path.
THEOREM RecordsAreOfTheirVideos == OrgSpec => []RecordsDescribeTheirVideo
  <1>1. OrgInv => RecordsDescribeTheirVideo
    BY DEF OrgInv, PlacesFit, AllDescribe, Describes, RecordsDescribeTheirVideo
  <1>2. QED
    BY <1>1, OrganizerInvariant, PTL

\* What was moved is in the manifest when nobody is at work, unless a run was cut
\* off after a move.
THEOREM OrganizedVideosAreListed == OrgSpec => []OrganizedIsListed
  <1>1. OrgInv => OrganizedIsListed
    <2>1. SUFFICES ASSUME OrgInv, ~overlapped, ~cut, \A o \in Organizers : ~Working(o),
                          NEW t \in Targets, store[t] # Nothing
                   PROVE  t \in PathsIn(manifest)
      BY DEF OrganizedIsListed
    <2>2. \A o \in Organizers : organizer[o].moved = 0
      BY <2>1 DEF OrgInv, ProgressFits, Progress, Working
    <2>3. QED
      BY <2>1, <2>2 DEF OrgInv, MovedIsListed
  <1>2. QED
    BY <1>1, OrganizerInvariant, PTL

\* A manifest is replaced by one that keeps its records, after it was backed up.
THEOREM ManifestsGrow == OrgSpec => ManifestGrowsFromBackup
  <1>1. OrgSpec => [][Growing]_orgVars
    BY OrganizerInvariant, OrgGrowing, PTL DEF OrgSpec
  <1>2. QED
    BY <1>1, PTL DEF Growing, ManifestGrowsFromBackup

-----------------------------------------------------------------------------
(* The caches.                                                             *)

FileType ==
  [of : SUBSET Videos, by : Workers \cup {NoWorker},
   state : {"absent", "writing", "whole", "cut"}]

FetchType ==
  [pc : {"idle", "fetch", "copy", "compute"}, path : Targets \cup {<< >>},
   video : Videos \cup {Nothing}]

\* What TypeOK says of each file and worker, of all of them as functions.
ShapesFit ==
  /\ cache \in [Disks -> [CacheNames -> FileType]]
  /\ disturbed \in [Disks -> [CacheNames -> BOOLEAN]]
  /\ fetch \in [Workers -> FetchType]
  /\ fetched \in [Disks -> SUBSET Targets]
  /\ \A w \in Workers : fetch[w] # Idle => fetch[w].pc # "idle" /\ fetch[w].path \in Targets

\* v is what the store holds under a path that was fetched into file c.
IsFrom(v, d, c) == \E p \in fetched[d] : Flattened[p] = c /\ store[p] = v

\* A file that is there was opened by someone, who is still copying if it is being
\* written; what is in it was fetched from the store.
FileFits(d, c) ==
  cache[d][c] # Absent =>
    /\ cache[d][c].state # "absent" /\ cache[d][c].of # {}
    /\ cache[d][c].state = "writing" =>
         \E w \in Workers : cache[d][c].by = w /\ Copying(w) /\ DiskOf[w] = d /\ Dest(w) = c
    /\ cache[d][c].state = "cut" => disturbed[d][c]
    /\ overlapped \/ \A v \in cache[d][c].of : IsFrom(v, d, c)

FilesFit == \A d \in Disks, c \in CacheNames : FileFits(d, c)

\* A job's source is in the store; a worker that copies has its file open, and unless
\* that was disturbed, was the last to open it.
FetchFits(w) ==
  /\ fetch[w] # Idle => store[fetch[w].path] # Nothing
  /\ Copying(w) =>
       /\ Cached(w) # Absent /\ fetch[w].video \in Videos
       /\ fetch[w].path \in fetched[DiskOf[w]]
       /\ overlapped \/ fetch[w].video = store[fetch[w].path]
       /\ disturbed[DiskOf[w]][Dest(w)] \/ Cached(w).by = w

FetchesFit == \A w \in Workers : FetchFits(w)

FetchedFit ==
  \A d \in Disks : IsFiniteSet(fetched[d]) /\ \A p \in fetched[d] : store[p] # Nothing

\* What ComputesFromItsSource says of one worker.
ComputeFits(w) ==
  fetch[w].pc = "compute" =>
    \/ Cached(w).state = "whole" /\ Cached(w).of = {store[fetch[w].path]}
    \/ disturbed[DiskOf[w]][Dest(w)]
    \/ \E p \in fetched[DiskOf[w]] : p # fetch[w].path /\ Flattened[p] = Flattened[fetch[w].path]
    \/ overlapped

ComputesFit == \A w \in Workers : ComputeFits(w)

CacheInv == ShapesFit /\ FilesFit /\ FetchesFit /\ FetchedFit /\ ComputesFit

IInv == OrgInv /\ CacheInv

-----------------------------------------------------------------------------
(* Files and workers.                                                      *)

LEMMA FlatNames == \A p \in Targets : Flattened[p] \in CacheNames
  BY CacheAssumption DEF CacheNames, Range

LEMMA WorkerFacts ==
  ASSUME CacheInv, NEW w \in Workers
  PROVE  /\ fetch \in [Workers -> FetchType] /\ fetch[w] \in FetchType
         /\ DiskOf[w] \in Disks
         /\ fetch[w].pc = "idle" <=> fetch[w] = Idle
         /\ fetch[w].pc # "idle" => fetch[w].path \in Targets /\ Dest(w) \in CacheNames
                                     /\ Cached(w) \in FileType
         /\ Dest(w) = Flattened[fetch[w].path]
  <1>1. fetch \in [Workers -> FetchType] /\ fetch[w] \in FetchType /\ DiskOf[w] \in Disks
    BY CacheAssumption DEF CacheInv, ShapesFit
  <1>2. fetch[w].pc = "idle" <=> fetch[w] = Idle
    BY DEF CacheInv, ShapesFit, Idle
  <1>3. fetch[w].pc # "idle" => fetch[w].path \in Targets
    BY <1>2 DEF CacheInv, ShapesFit
  <1>4. Dest(w) = Flattened[fetch[w].path]
    BY DEF Dest, cache_dest
  <1>5. fetch[w].pc # "idle" => Dest(w) \in CacheNames
    BY <1>3, <1>4, FlatNames
  <1>6. fetch[w].pc # "idle" => Cached(w) \in FileType
    BY <1>1, <1>5 DEF CacheInv, ShapesFit, Cached
  <1>7. QED
    BY <1>1, <1>2, <1>3, <1>4, <1>5, <1>6

\* A step of worker w at cache file c of machine d.
StepOf(w, d, c) ==
  /\ cache' \in [Disks -> [CacheNames -> FileType]]
  /\ disturbed' \in [Disks -> [CacheNames -> BOOLEAN]]
  /\ fetch' \in [Workers -> FetchType]
  /\ fetched' \in [Disks -> SUBSET Targets]
  /\ \A e \in Disks, b \in CacheNames :
       /\ e # d \/ b # c => cache'[e][b] = cache[e][b]
       /\ disturbed[e][b] => disturbed'[e][b]
  /\ \A e \in Disks : fetched[e] \subseteq fetched'[e]
  /\ \A u \in Workers : u # w => fetch'[u] = fetch[u]
  /\ UNCHANGED orgVars

LEMMA StoreStays ==
  ASSUME UNCHANGED orgVars
  PROVE  UNCHANGED <<store, manifest, overlapped>>
  BY DEF orgVars, storeVars

\* Another file is what it was.
LEMMA OtherFile ==
  ASSUME CacheInv, NEW w \in Workers, NEW d \in Disks, NEW c \in CacheNames, StepOf(w, d, c),
         NEW e \in Disks, NEW b \in CacheNames, cache'[e][b] = cache[e][b],
         ~(Copying(w) /\ DiskOf[w] = e /\ Dest(w) = b /\ cache[e][b].by = w)
  PROVE  FileFits(e, b)'
  <1>1. FileFits(e, b)
    BY DEF CacheInv, FilesFit
  <1>2. SUFFICES ASSUME cache[e][b] # Absent PROVE FileFits(e, b)'
    BY DEF FileFits, Absent
  <1>3. cache[e][b].state # "absent" /\ cache[e][b].of # {}
    BY <1>1, <1>2 DEF FileFits
  <1>4. cache[e][b].state = "writing" =>
          \E u \in Workers : cache[e][b].by = u /\ Copying(u)' /\ DiskOf[u] = e /\ Dest(u)' = b
    <2>1. ASSUME NEW u \in Workers, cache[e][b].by = u, Copying(u), DiskOf[u] = e, Dest(u) = b
          PROVE  Copying(u)' /\ Dest(u)' = b
      <3>1. u # w
        BY <2>1
      <3>2. fetch'[u] = fetch[u]
        BY <3>1 DEF StepOf
      <3>3. QED
        BY <2>1, <3>2 DEF Copying, Dest, cache_dest
    <2>2. QED
      BY <1>1, <1>2, <2>1 DEF FileFits
  <1>5. cache[e][b].state = "cut" => disturbed'[e][b]
    BY <1>1, <1>2 DEF FileFits, StepOf
  <1>6. overlapped' \/ \A v \in cache[e][b].of : IsFrom(v, e, b)'
    <2>1. UNCHANGED <<store, overlapped>> /\ fetched[e] \subseteq fetched'[e]
      BY StoreStays DEF StepOf
    <2>2. \A v : IsFrom(v, e, b) => IsFrom(v, e, b)'
      BY <2>1 DEF IsFrom
    <2>3. QED
      BY <1>1, <1>2, <2>1, <2>2 DEF FileFits
  <1>7. QED
    BY <1>3, <1>4, <1>5, <1>6 DEF FileFits

\* Another worker is as well off as it was, if its file is what it was, was disturbed,
\* or is as good as it was.
LEMMA OtherWorker ==
  ASSUME CacheInv, NEW w \in Workers, NEW d \in Disks, NEW c \in CacheNames, StepOf(w, d, c),
         NEW u \in Workers, u # w,
         \/ DiskOf[u] # d
         \/ Dest(u) # c
         \/ disturbed'[d][c] /\ cache'[d][c] # Absent
         \/ /\ cache'[d][c] # Absent \/ ~Copying(u)
            /\ Copying(u) => cache'[d][c].by = cache[d][c].by
            /\ cache[d][c].state = "whole" =>
                 cache'[d][c].state = "whole" /\ cache'[d][c].of = cache[d][c].of
  PROVE  FetchFits(u)' /\ ComputeFits(u)'
  <1>1. fetch'[u] = fetch[u] /\ UNCHANGED <<store, overlapped>> /\ DiskOf[u] \in Disks
    BY StoreStays, WorkerFacts DEF StepOf
  <1>2. Dest(u)' = Dest(u) /\ (Copying(u)' <=> Copying(u)) /\ Cached(u)' = cache'[DiskOf[u]][Dest(u)]
    BY <1>1 DEF Dest, cache_dest, Copying, Cached
  <1>3. FetchFits(u) /\ ComputeFits(u) /\ fetched[DiskOf[u]] \subseteq fetched'[DiskOf[u]]
    BY <1>1 DEF CacheInv, FetchesFit, ComputesFit, StepOf
  <1>4. fetch[u].pc # "idle" =>
          /\ Dest(u) \in CacheNames
          /\ disturbed[DiskOf[u]][Dest(u)] => disturbed'[DiskOf[u]][Dest(u)]
    BY <1>1, WorkerFacts DEF StepOf
  <1>5. (DiskOf[u] # d \/ Dest(u) # c) /\ fetch[u].pc # "idle" => Cached(u)' = Cached(u)
    BY <1>1, <1>2, <1>4 DEF StepOf, Cached
  <1>6. FetchFits(u)'
    <2>1. fetch'[u] # Idle => store'[fetch'[u].path] # Nothing
      BY <1>1, <1>3 DEF FetchFits, Idle
    <2>2. SUFFICES ASSUME Copying(u)
                   PROVE  /\ Cached(u)' # Absent
                          /\ disturbed'[DiskOf[u]][Dest(u)] \/ Cached(u)'.by = u
      BY <1>1, <1>2, <1>3, <2>1 DEF FetchFits, Absent
    <2>3. /\ Cached(u) # Absent /\ (disturbed[DiskOf[u]][Dest(u)] \/ Cached(u).by = u)
          /\ fetch[u].pc # "idle"
      BY <1>3, <2>2 DEF FetchFits, Copying
    <2>4. CASE DiskOf[u] # d \/ Dest(u) # c
      BY <1>4, <1>5, <2>3, <2>4
    <2>5. CASE DiskOf[u] = d /\ Dest(u) = c
      <3>1. Cached(u)' = cache'[d][c] /\ Cached(u) = cache[d][c]
        BY <1>2, <2>5 DEF Cached
      <3>2. QED
        BY <1>4, <2>2, <2>3, <2>5, <3>1
    <2>6. QED
      BY <2>4, <2>5
  <1>7. ComputeFits(u)'
    <2>1. SUFFICES ASSUME fetch[u].pc = "compute", ~overlapped,
                          ~disturbed'[DiskOf[u]][Dest(u)],
                          ~ \E p \in fetched'[DiskOf[u]] :
                              p # fetch[u].path /\ Flattened[p] = Flattened[fetch[u].path]
                   PROVE  Cached(u)'.state = "whole" /\ Cached(u)'.of = {store[fetch[u].path]}
      BY <1>1, <1>2 DEF ComputeFits
    <2>2. Cached(u).state = "whole" /\ Cached(u).of = {store[fetch[u].path]}
      BY <1>3, <1>4, <2>1 DEF ComputeFits
    <2>3. CASE DiskOf[u] # d \/ Dest(u) # c
      BY <1>5, <2>1, <2>2, <2>3
    <2>4. CASE DiskOf[u] = d /\ Dest(u) = c
      <3>1. Cached(u)' = cache'[d][c] /\ Cached(u) = cache[d][c]
        BY <1>2, <2>4 DEF Cached
      <3>2. QED
        BY <2>1, <2>2, <2>4, <3>1
    <2>5. QED
      BY <2>3, <2>4
  <1>8. QED
    BY <1>6, <1>7

\* What is left to show of a step of w at one file.
LEMMA AssembleCache ==
  ASSUME CacheInv, NEW w \in Workers, NEW d \in Disks, NEW c \in CacheNames, StepOf(w, d, c),
         fetch'[w] # Idle => fetch'[w].pc # "idle" /\ fetch'[w].path \in Targets,
         ~Copying(w) \/ (DiskOf[w] = d /\ Dest(w) = c),
         FileFits(d, c)', FetchFits(w)', ComputeFits(w)', FetchedFit',
         \A u \in Workers : u # w =>
           \/ DiskOf[u] # d
           \/ Dest(u) # c
           \/ disturbed'[d][c] /\ cache'[d][c] # Absent
           \/ /\ cache'[d][c] # Absent \/ ~Copying(u)
              /\ Copying(u) => cache'[d][c].by = cache[d][c].by
              /\ cache[d][c].state = "whole" =>
                   cache'[d][c].state = "whole" /\ cache'[d][c].of = cache[d][c].of
  PROVE  CacheInv'
  <1>1. ShapesFit'
    BY DEF StepOf, CacheInv, ShapesFit, Idle
  <1>2. FilesFit'
    <2>1. ASSUME NEW e \in Disks, NEW b \in CacheNames
          PROVE  FileFits(e, b)'
      <3>1. CASE e = d /\ b = c
        BY <3>1
      <3>2. CASE e # d \/ b # c
        <4>1. cache'[e][b] = cache[e][b]
          BY <3>2 DEF StepOf
        <4>2. QED
          BY <3>2, <4>1, OtherFile
      <3>3. QED
        BY <3>1, <3>2
    <2>2. QED
      BY <2>1 DEF FilesFit
  <1>3. FetchesFit' /\ ComputesFit'
    <2>1. ASSUME NEW u \in Workers, u # w
          PROVE  FetchFits(u)' /\ ComputeFits(u)'
      BY <2>1, OtherWorker
    <2>2. QED
      BY <2>1 DEF FetchesFit, ComputesFit
  <1>4. QED
    BY <1>1, <1>2, <1>3 DEF CacheInv

\* A file whose content is from the store, for a path that has it to itself, is the
\* video of this path.
LEMMA OnePathOneVideo ==
  ASSUME CacheInv, NEW d \in Disks, NEW c \in CacheNames, NEW path \in Targets,
         cache[d][c] # Absent, ~overlapped, Flattened[path] = c,
         ~ \E p \in fetched[d] : p # path /\ Flattened[p] = Flattened[path]
  PROVE  cache[d][c].of = {store[path]}
  <1>1. FileFits(d, c)
    BY DEF CacheInv, FilesFit
  <1>2. cache[d][c].of # {} /\ \A v \in cache[d][c].of : IsFrom(v, d, c)
    BY <1>1 DEF FileFits
  <1>3. \A v \in cache[d][c].of : v = store[path]
    BY <1>2 DEF IsFrom
  <1>4. QED
    BY <1>2, <1>3

\* The path of a claimed job is that of a video in the store.
LEMMA ClaimedIsThere ==
  ASSUME OrgInv, NEW p \in PathsIn(manifest)
  PROVE  p \in Targets /\ store[p] # Nothing
  <1>1. PICK r \in Range(manifest) : p = r.path
    BY DEF PathsIn
  <1>2. manifest \in Seq(Records) /\ AllDescribe(manifest)
    BY DEF OrgInv, OrgTypeOK, PlacesFit
  <1>3. Range(manifest) \subseteq Records
    BY <1>2, Sequence
  <1>4. QED
    BY <1>1, <1>2, <1>3 DEF Records, AllDescribe, Describes

-----------------------------------------------------------------------------
(* The steps.                                                              *)

LEMMA ClaimEffect ==
  ASSUME IInv, NEW w \in Workers, NEW p \in Targets, NEW cached, Claim(w, p, cached)
  PROVE  /\ fetch[w] = Idle /\ ~Copying(w) /\ store[p] # Nothing
         /\ DiskOf[w] \in Disks /\ Flattened[p] \in CacheNames
         /\ cached = (cache[DiskOf[w]][Flattened[p]] # Absent)
         /\ fetch' \in [Workers -> FetchType]
         /\ \A u \in Workers : u # w => fetch'[u] = fetch[u]
         /\ fetch'[w].pc = (IF cached THEN "compute" ELSE "fetch") /\ fetch'[w].path = p
         /\ Dest(w)' = Flattened[p]
  <1> DEFINE new == [pc |-> IF cached THEN "compute" ELSE "fetch", path |-> p, video |-> Nothing]
  <1>1. /\ fetch[w] = Idle /\ p \in PathsIn(manifest)
        /\ cached = (cache[DiskOf[w]][Flattened[p]] # Absent)
        /\ fetch' = [fetch EXCEPT ![w] = new]
    BY DEF Claim, cache_dest
  <1>2. store[p] # Nothing
    BY <1>1, ClaimedIsThere DEF IInv
  <1>3. new \in FetchType /\ new.path = p /\ new.pc = (IF cached THEN "compute" ELSE "fetch")
    BY DEF FetchType
  <1> HIDE DEF new
  <1>4. /\ fetch' \in [Workers -> FetchType] /\ fetch'[w] = new
        /\ \A u \in Workers : u # w => fetch'[u] = fetch[u]
    BY <1>1, <1>3, WorkerFacts DEF IInv
  <1>5. ~Copying(w)
    BY <1>1 DEF Copying, Idle
  <1>6. DiskOf[w] \in Disks /\ Flattened[p] \in CacheNames
    BY WorkerFacts, FlatNames DEF IInv
  <1>7. QED
    BY <1>1, <1>2, <1>3, <1>4, <1>5, <1>6 DEF Dest, cache_dest

LEMMA MissStep ==
  ASSUME IInv, NEW w \in Workers, Miss(w), UNCHANGED orgVars
  PROVE  CacheInv'
  <1>1. PICK p \in Targets : Claim(w, p, FALSE) /\ UNCHANGED <<cache, fetched, disturbed>>
    BY DEF Miss
  <1> DEFINE d == DiskOf[w]
             c == Flattened[p]
  <1>2. /\ fetch[w] = Idle /\ ~Copying(w) /\ store[p] # Nothing
        /\ d \in Disks /\ c \in CacheNames
        /\ fetch' \in [Workers -> FetchType]
        /\ \A u \in Workers : u # w => fetch'[u] = fetch[u]
        /\ fetch'[w].pc = "fetch" /\ fetch'[w].path = p
    BY <1>1, ClaimEffect
  <1>3. CacheInv /\ UNCHANGED <<store, overlapped>>
    BY StoreStays DEF IInv
  <1> HIDE DEF d, c
  <1>4. StepOf(w, d, c)
    BY <1>1, <1>2, <1>3 DEF StepOf, CacheInv, ShapesFit
  <1>5. FileFits(d, c)'
    BY <1>1, <1>2, <1>3, <1>4, OtherFile
  <1>6. FetchFits(w)' /\ ComputeFits(w)'
    BY <1>2, <1>3 DEF FetchFits, ComputeFits, Copying
  <1>7. FetchedFit'
    BY <1>1, <1>3 DEF CacheInv, FetchedFit
  <1>8. \A u \in Workers : u # w /\ DiskOf[u] = d /\ Dest(u) = c =>
          cache'[d][c] # Absent \/ ~Copying(u)
    BY <1>1, <1>3 DEF CacheInv, FetchesFit, FetchFits, Cached
  <1>9. QED
    BY <1>1, <1>2, <1>3, <1>4, <1>5, <1>6, <1>7, <1>8, AssembleCache

LEMMA ReuseStep ==
  ASSUME IInv, NEW w \in Workers, Reuse(w), UNCHANGED orgVars
  PROVE  CacheInv'
  <1>1. PICK p \in Targets :
          /\ Claim(w, p, TRUE)
          /\ disturbed' = [disturbed EXCEPT ![DiskOf[w]][cache_dest(p)] =
                             @ \/ cache[DiskOf[w]][cache_dest(p)].state = "writing"]
          /\ UNCHANGED <<cache, fetched>>
    BY DEF Reuse
  <1> DEFINE d == DiskOf[w]
             c == Flattened[p]
             yes == disturbed[d][c] \/ cache[d][c].state = "writing"
  <1>2. /\ fetch[w] = Idle /\ ~Copying(w) /\ store[p] # Nothing
        /\ d \in Disks /\ c \in CacheNames /\ cache[d][c] # Absent
        /\ fetch' \in [Workers -> FetchType]
        /\ \A u \in Workers : u # w => fetch'[u] = fetch[u]
        /\ fetch'[w].pc = "compute" /\ fetch'[w].path = p /\ Dest(w)' = c
    BY <1>1, ClaimEffect
  <1>3. CacheInv /\ UNCHANGED <<store, overlapped>>
    BY StoreStays DEF IInv
  <1>4. disturbed' = [disturbed EXCEPT ![d][c] = yes]
    BY <1>1 DEF cache_dest
  <1>5. yes \in BOOLEAN /\ (disturbed[d][c] => yes) /\ (cache[d][c].state = "writing" => yes)
    OBVIOUS
  <1>6. Cached(w)' = cache[d][c]
    BY <1>1, <1>2 DEF Cached
  <1>7. DiskOf[w] = d /\ Flattened[p] = c
    OBVIOUS
  <1> HIDE DEF d, c, yes
  <1>8. /\ disturbed' \in [Disks -> [CacheNames -> BOOLEAN]]
        /\ disturbed'[d][c] = yes
        /\ \A e \in Disks, b \in CacheNames :
             e # d \/ b # c => disturbed'[e][b] = disturbed[e][b]
    BY <1>2, <1>3, <1>4, <1>5 DEF CacheInv, ShapesFit
  <1>9. \A e \in Disks, b \in CacheNames : disturbed[e][b] => disturbed'[e][b]
    BY <1>5, <1>8
  <1>10. StepOf(w, d, c)
    BY <1>1, <1>2, <1>3, <1>8, <1>9 DEF StepOf, CacheInv, ShapesFit
  <1>11. FileFits(d, c)'
    BY <1>1, <1>2, <1>3, <1>10, OtherFile
  <1>12. FetchFits(w)'
    BY <1>2, <1>3 DEF FetchFits, Copying
  <1>13. ComputeFits(w)'
    <2>1. SUFFICES ASSUME ~overlapped, ~disturbed'[d][c],
                          ~ \E q \in fetched[d] : q # p /\ Flattened[q] = Flattened[p]
                   PROVE  cache[d][c].state = "whole" /\ cache[d][c].of = {store[p]}
      BY <1>1, <1>2, <1>3, <1>6, <1>7 DEF ComputeFits
    <2>2. cache[d][c].of = {store[p]}
      BY <1>2, <1>3, <1>7, <2>1, OnePathOneVideo
    <2>3. cache[d][c] \in FileType /\ FileFits(d, c)
      BY <1>2, <1>3 DEF CacheInv, ShapesFit, FilesFit
    <2>4. cache[d][c].state \notin {"absent", "writing", "cut"}
      BY <1>2, <1>5, <1>8, <1>9, <2>1, <2>3 DEF FileFits
    <2>5. QED
      BY <2>2, <2>3, <2>4 DEF FileType
  <1>14. FetchedFit'
    BY <1>1, <1>3 DEF CacheInv, FetchedFit
  <1>15. QED
    BY <1>1, <1>2, <1>3, <1>10, <1>11, <1>12, <1>13, <1>14, AssembleCache

\* What happens to the file of a worker that opens it, closes it or is cut off.
LEMMA FileEffect ==
  ASSUME IInv, NEW w \in Workers, fetch[w].pc # "idle", NEW file \in FileType, SetFile(w, file),
         NEW yes \in BOOLEAN, Disturb(w, yes)
  PROVE  /\ cache' \in [Disks -> [CacheNames -> FileType]]
         /\ disturbed' \in [Disks -> [CacheNames -> BOOLEAN]]
         /\ cache'[DiskOf[w]][Dest(w)] = file
         /\ yes => disturbed'[DiskOf[w]][Dest(w)]
         /\ \A e \in Disks, b \in CacheNames :
              /\ e # DiskOf[w] \/ b # Dest(w) => cache'[e][b] = cache[e][b]
              /\ disturbed[e][b] => disturbed'[e][b]
  <1> DEFINE d == DiskOf[w]
             c == Dest(w)
             spoilt == disturbed[d][c] \/ yes
  <1>1. CacheInv /\ d \in Disks /\ c \in CacheNames
    BY WorkerFacts DEF IInv
  <1>2. cache' = [cache EXCEPT ![d][c] = file] /\ disturbed' = [disturbed EXCEPT ![d][c] = spoilt]
    BY DEF SetFile, Disturb
  <1>3. spoilt \in BOOLEAN /\ (disturbed[d][c] => spoilt) /\ (yes => spoilt)
    OBVIOUS
  <1> HIDE DEF d, c, spoilt
  <1>4. /\ cache' \in [Disks -> [CacheNames -> FileType]]
        /\ cache'[d][c] = file
        /\ \A e \in Disks, b \in CacheNames : e # d \/ b # c => cache'[e][b] = cache[e][b]
    BY <1>1, <1>2 DEF CacheInv, ShapesFit
  <1>5. /\ disturbed' \in [Disks -> [CacheNames -> BOOLEAN]]
        /\ disturbed'[d][c] = spoilt
        /\ \A e \in Disks, b \in CacheNames :
             e # d \/ b # c => disturbed'[e][b] = disturbed[e][b]
    BY <1>1, <1>2, <1>3 DEF CacheInv, ShapesFit
  <1>6. \A e \in Disks, b \in CacheNames : disturbed[e][b] => disturbed'[e][b]
    BY <1>3, <1>5
  <1>7. yes => disturbed'[d][c]
    BY <1>3, <1>5
  <1>8. QED
    BY <1>4, <1>5, <1>6, <1>7 DEF d, c

LEMMA OpenStep ==
  ASSUME IInv, NEW w \in Workers, Open(w), UNCHANGED orgVars
  PROVE  CacheInv'
  <1>0. PICK p, c : p = fetch[w].path /\ c = Dest(w)
    OBVIOUS
  <1> DEFINE d == DiskOf[w]
             file == [of |-> {store[p]} \cup {fetch[u].video : u \in Rivals(w)},
                      by |-> w, state |-> "writing"]
             yes == cache[d][c] # Absent
             new == [fetch[w] EXCEPT !.pc = "copy", !.video = store[p]]
  <1>1. /\ fetch[w].pc = "fetch" /\ store[p] # Nothing
        /\ fetch' = [fetch EXCEPT ![w] = new]
        /\ SetFile(w, file) /\ Disturb(w, yes)
        /\ fetched' = [fetched EXCEPT ![d] = @ \cup {p}]
    BY <1>0 DEF Open, Cached
  <1>2. CacheInv /\ UNCHANGED <<store, overlapped>>
    BY StoreStays DEF IInv
  <1>3. /\ d \in Disks /\ c \in CacheNames /\ p \in Targets /\ fetch[w] \in FetchType
        /\ c = Flattened[p] /\ ~Copying(w)
    BY <1>0, <1>1, <1>2, WorkerFacts DEF Copying
  <1>4. store[p] \in Videos
    BY <1>1, <1>3 DEF IInv, OrgInv, OrgTypeOK
  <1>5. ASSUME NEW u \in Rivals(w)
        PROVE  /\ fetch[u].video \in Videos /\ fetch[u].path \in fetched[d]
               /\ Flattened[fetch[u].path] = c
               /\ overlapped \/ fetch[u].video = store[fetch[u].path]
    BY <1>0, <1>2, <1>5 DEF Rivals, CacheInv, FetchesFit, FetchFits, Dest, cache_dest
  <1>6. file \in FileType
    BY <1>4, <1>5 DEF FileType
  <1>7. new \in FetchType /\ new.pc = "copy" /\ new.path = p /\ new.video = store[p]
    BY <1>0, <1>3, <1>4 DEF FetchType
  <1>8. file.by = w /\ file.state = "writing" /\ file.of # {}
    OBVIOUS
  <1>9. overlapped \/ \A v \in file.of : v = store[p] \/ \E q \in fetched[d] : Flattened[q] = c /\ store[q] = v
    BY <1>5
  <1>10. DiskOf[w] = d /\ Dest(w) = c /\ fetch[w].path = p /\ yes \in BOOLEAN
         /\ (yes <=> cache[d][c] # Absent)
    BY <1>0
  <1> HIDE DEF d, file, new, yes
  <1>11. /\ cache' \in [Disks -> [CacheNames -> FileType]]
         /\ disturbed' \in [Disks -> [CacheNames -> BOOLEAN]]
         /\ cache'[d][c] = file
         /\ yes => disturbed'[d][c]
         /\ \A e \in Disks, b \in CacheNames :
              /\ e # d \/ b # c => cache'[e][b] = cache[e][b]
              /\ disturbed[e][b] => disturbed'[e][b]
    BY <1>1, <1>6, <1>10, FileEffect
  <1>12. /\ fetch' \in [Workers -> FetchType] /\ fetch'[w] = new
         /\ \A u \in Workers : u # w => fetch'[u] = fetch[u]
    BY <1>1, <1>2, <1>7 DEF CacheInv, ShapesFit
  <1>13. /\ fetched' \in [Disks -> SUBSET Targets] /\ p \in fetched'[d]
         /\ fetched'[d] = fetched[d] \cup {p}
         /\ \A e \in Disks : fetched[e] \subseteq fetched'[e] /\ (e # d => fetched'[e] = fetched[e])
    BY <1>1, <1>2, <1>3 DEF CacheInv, ShapesFit
  <1>14. StepOf(w, d, c)
    BY <1>11, <1>12, <1>13 DEF StepOf
  <1>15. Dest(w)' = c /\ Copying(w)' /\ Cached(w)' = file
    BY <1>3, <1>7, <1>10, <1>11, <1>12 DEF Dest, cache_dest, Copying, Cached
  <1>16. file # Absent
    BY <1>8 DEF Absent
  <1>17. FileFits(d, c)'
    <2>1. overlapped \/ \A v \in file.of : IsFrom(v, d, c)'
      BY <1>2, <1>3, <1>9, <1>13 DEF IsFrom
    <2>2. \E u \in Workers : file.by = u /\ Copying(u)' /\ DiskOf[u] = d /\ Dest(u)' = c
      BY <1>8, <1>10, <1>15
    <2>3. QED
      BY <1>2, <1>8, <1>11, <2>1, <2>2 DEF FileFits
  <1>18. FetchFits(w)'
    BY <1>1, <1>2, <1>4, <1>7, <1>8, <1>10, <1>12, <1>13, <1>15, <1>16 DEF FetchFits, Absent
  <1>19. ComputeFits(w)'
    BY <1>7, <1>12 DEF ComputeFits
  <1>20. FetchedFit'
    <2>1. ASSUME NEW e \in Disks
          PROVE  IsFiniteSet(fetched'[e]) /\ \A q \in fetched'[e] : store'[q] # Nothing
      <3>1. IsFiniteSet(fetched[e]) /\ \A q \in fetched[e] : store[q] # Nothing
        BY <1>2 DEF CacheInv, FetchedFit
      <3>2. CASE e = d
        <4>1. IsFiniteSet(fetched[d] \cup {p})
          BY <3>1, <3>2, FS_AddElement
        <4>2. QED
          BY <1>1, <1>2, <1>13, <3>1, <3>2, <4>1
      <3>3. CASE e # d
        BY <1>2, <1>13, <3>1, <3>3
      <3>4. QED
        BY <3>2, <3>3
    <2>2. QED
      BY <2>1 DEF FetchedFit
  <1>21. ASSUME NEW u \in Workers, u # w, DiskOf[u] = d, Dest(u) = c
         PROVE  \/ disturbed'[d][c] /\ cache'[d][c] # Absent
                \/ ~Copying(u) /\ cache'[d][c] # Absent /\ cache[d][c].state # "whole"
    <2>1. Copying(u) => yes
      BY <1>2, <1>10, <1>21 DEF CacheInv, FetchesFit, FetchFits, Cached
    <2>2. ~yes => cache[d][c].state # "whole"
      BY <1>10 DEF Absent
    <2>3. QED
      BY <1>11, <1>16, <2>1, <2>2
  <1>22. fetch'[w] # Idle => fetch'[w].pc # "idle" /\ fetch'[w].path \in Targets
    BY <1>3, <1>7, <1>12
  <1>23. QED
    BY <1>2, <1>3, <1>14, <1>17, <1>18, <1>19, <1>20, <1>21, <1>22, AssembleCache

\* The file of a copy that ends, which is whole or cut if w was the last to open it.
Ended(w, how) == IF Cached(w).by = w THEN [Cached(w) EXCEPT !.state = how] ELSE Cached(w)

\* A copy that ends, well or not, makes the file whole or cut if it was the last to
\* open it, and leaves it alone if not.
LEMMA EndEffect ==
  ASSUME IInv, NEW w \in Workers, Copying(w), NEW c, c = Dest(w), UNCHANGED orgVars,
         NEW how \in {"whole", "cut"},
         SetFile(w, Ended(w, how)),
         disturbed' \in [Disks -> [CacheNames -> BOOLEAN]],
         \A e \in Disks, b \in CacheNames : disturbed[e][b] => disturbed'[e][b],
         how = "cut" => disturbed'[DiskOf[w]][c],
         fetch' \in [Workers -> FetchType],
         \A u \in Workers : u # w => fetch'[u] = fetch[u],
         fetch'[w] = Idle \/ (fetch'[w].pc = "compute" /\ fetch'[w].path = fetch[w].path),
         ComputeFits(w)',
         UNCHANGED fetched
  PROVE  CacheInv'
  <1> DEFINE d == DiskOf[w]
             old == cache[d][c]
             mine == old.by = w
             file == IF mine THEN [old EXCEPT !.state = how] ELSE old
  <1>1. CacheInv /\ UNCHANGED <<store, overlapped>>
    BY StoreStays DEF IInv
  <1>2. /\ d \in Disks /\ c \in CacheNames /\ fetch[w].path \in Targets
        /\ c = Flattened[fetch[w].path] /\ fetch[w].pc # "idle"
    BY <1>1, WorkerFacts DEF Copying
  <1>3. cache' = [cache EXCEPT ![d][c] = file]
    BY DEF SetFile, Ended, Cached
  <1>4. old \in FileType /\ old # Absent /\ FileFits(d, c) /\ (disturbed[d][c] \/ mine)
        /\ store[fetch[w].path] # Nothing
    <2>1. FetchFits(w) /\ FileFits(d, c) /\ old \in FileType
      BY <1>1, <1>2 DEF CacheInv, ShapesFit, FilesFit, FetchesFit
    <2>2. fetch[w] # Idle /\ Cached(w) = old
      BY <1>2 DEF Idle, Cached
    <2>3. QED
      BY <2>1, <2>2 DEF FetchFits
  <1>5. /\ file \in FileType /\ file.by = old.by /\ file.of = old.of
        /\ mine => file.state = how
        /\ ~mine => file = old
        /\ old.state = "whole" /\ how = "whole" => file.state = "whole"
    BY <1>4 DEF FileType
  <1>6. DiskOf[w] = d /\ old = cache[d][c] /\ (mine <=> old.by = w)
    OBVIOUS
  <1> HIDE DEF d, old, mine, file
  <1>7. /\ cache' \in [Disks -> [CacheNames -> FileType]]
        /\ cache'[d][c] = file
        /\ \A e \in Disks, b \in CacheNames : e # d \/ b # c => cache'[e][b] = cache[e][b]
    BY <1>1, <1>2, <1>3, <1>5 DEF CacheInv, ShapesFit
  <1>8. StepOf(w, d, c)
    BY <1>1, <1>7 DEF StepOf, CacheInv, ShapesFit
  <1>9. old.of # {} /\ file # Absent
    BY <1>4, <1>5, <1>6 DEF FileFits, Absent
  <1>10. FileFits(d, c)'
    <2>1. CASE mine
      <3>1. overlapped \/ \A v \in file.of : IsFrom(v, d, c)'
        <4>1. overlapped \/ \A v \in file.of : IsFrom(v, d, c)
          BY <1>4, <1>5, <1>6 DEF FileFits
        <4>2. \A v : IsFrom(v, d, c) => IsFrom(v, d, c)'
          BY <1>1 DEF IsFrom
        <4>3. QED
          BY <4>1, <4>2
      <3>2. QED
        BY <1>1, <1>5, <1>6, <1>7, <1>9, <2>1, <3>1 DEF FileFits
    <2>2. CASE ~mine
      <3>1. cache'[d][c] = cache[d][c] /\ cache[d][c].by # w
        BY <1>5, <1>6, <1>7, <2>2
      <3>2. QED
        BY ONLY <1>1, <1>2, <1>8, <3>1, OtherFile, w \in Workers, SMTT(60)
    <2>3. QED
      BY <2>1, <2>2
  <1>11. FetchFits(w)'
    BY <1>1, <1>4 DEF FetchFits, Copying, Idle
  <1>12. FetchedFit'
    BY <1>1 DEF CacheInv, FetchedFit
  <1>13. \A u \in Workers : u # w =>
           \/ DiskOf[u] # d
           \/ Dest(u) # c
           \/ disturbed'[d][c] /\ cache'[d][c] # Absent
           \/ /\ cache'[d][c] # Absent \/ ~Copying(u)
              /\ Copying(u) => cache'[d][c].by = cache[d][c].by
              /\ cache[d][c].state = "whole" =>
                   cache'[d][c].state = "whole" /\ cache'[d][c].of = cache[d][c].of
    BY <1>5, <1>6, <1>7, <1>9
  <1>14. fetch'[w] # Idle => fetch'[w].pc # "idle" /\ fetch'[w].path \in Targets
    BY <1>2
  <1>15. Copying(w) /\ DiskOf[w] = d /\ Dest(w) = c /\ ComputeFits(w)'
    BY <1>6
  <1>16. QED
    BY ONLY <1>1, <1>2, <1>8, <1>10, <1>11, <1>12, <1>13, <1>14, <1>15, AssembleCache, w \in Workers, SMTT(60)

LEMMA CloseStep ==
  ASSUME IInv, NEW w \in Workers, Close(w), UNCHANGED orgVars
  PROVE  CacheInv'
  <1>0. PICK p, c : p = fetch[w].path /\ c = Dest(w)
    OBVIOUS
  <1> DEFINE new == [fetch[w] EXCEPT !.pc = "compute"]
  <1>1. /\ Copying(w) /\ SetFile(w, Ended(w, "whole")) /\ UNCHANGED <<fetched, disturbed>>
        /\ fetch' = [fetch EXCEPT ![w] = new]
    BY DEF Close, GoTo, Ended
  <1>2. CacheInv /\ UNCHANGED <<store, overlapped>>
    BY StoreStays DEF IInv
  <1>3. /\ DiskOf[w] \in Disks /\ c \in CacheNames /\ p \in Targets /\ c = Flattened[p]
        /\ fetch[w] \in FetchType
    BY <1>0, <1>1, <1>2, WorkerFacts DEF Copying
  <1>4. new \in FetchType /\ new.pc = "compute" /\ new.path = p
    BY <1>0, <1>3 DEF FetchType
  <1> HIDE DEF new
  <1>5. /\ fetch' \in [Workers -> FetchType] /\ fetch'[w] = new
        /\ \A u \in Workers : u # w => fetch'[u] = fetch[u]
    BY <1>1, <1>2, <1>4 DEF CacheInv, ShapesFit
  <1>6. /\ Cached(w) = cache[DiskOf[w]][c] /\ Cached(w)' = cache'[DiskOf[w]][c]
        /\ Dest(w)' = c
    BY <1>0, <1>3, <1>4, <1>5 DEF Cached, Dest, cache_dest
  <1>7. ComputeFits(w)'
    <2>1. SUFFICES ASSUME ~overlapped, ~disturbed[DiskOf[w]][c],
                          ~ \E q \in fetched[DiskOf[w]] : q # p /\ Flattened[q] = Flattened[p]
                   PROVE  Cached(w)'.state = "whole" /\ Cached(w)'.of = {store[p]}
      BY <1>1, <1>2, <1>4, <1>5, <1>6 DEF ComputeFits
    <2>2. FetchFits(w) /\ Cached(w) \in FileType
      BY <1>2, <1>3, <1>6 DEF CacheInv, ShapesFit, FetchesFit
    <2>3. Cached(w) # Absent /\ Cached(w).by = w
      BY <1>0, <1>1, <2>1, <2>2 DEF FetchFits
    <2>4. Cached(w).of = {store[p]}
      BY <1>2, <1>3, <1>6, <2>1, <2>3, OnePathOneVideo
    <2>5. cache'[DiskOf[w]][c] = [Cached(w) EXCEPT !.state = "whole"]
      BY <1>0, <1>1, <1>2, <1>3, <2>3 DEF SetFile, Ended, CacheInv, ShapesFit
    <2>6. QED
      BY <1>6, <2>2, <2>4, <2>5 DEF FileType
  <1>8. \A e \in Disks, b \in CacheNames : disturbed[e][b] => disturbed'[e][b]
    BY <1>1
  <1>9. disturbed' \in [Disks -> [CacheNames -> BOOLEAN]]
    BY <1>1, <1>2 DEF CacheInv, ShapesFit
  <1>10. fetch'[w].pc = "compute" /\ fetch'[w].path = fetch[w].path
    BY <1>0, <1>4, <1>5
  <1>11. QED
    BY <1>0, <1>1, <1>5, <1>7, <1>8, <1>9, <1>10, EndEffect

LEMMA DoneStep ==
  ASSUME IInv, NEW w \in Workers, Done(w), UNCHANGED orgVars
  PROVE  CacheInv'
  <1>0. PICK c : c = Dest(w)
    OBVIOUS
  <1> DEFINE d == DiskOf[w]
  <1>1. /\ fetch[w].pc = "compute" /\ fetch' = [fetch EXCEPT ![w] = Idle]
        /\ UNCHANGED <<cache, fetched, disturbed>>
    BY DEF Done
  <1>2. CacheInv /\ UNCHANGED <<store, overlapped>>
    BY StoreStays DEF IInv
  <1>3. d \in Disks /\ c \in CacheNames /\ ~Copying(w)
    BY <1>0, <1>1, <1>2, WorkerFacts DEF Copying
  <1>4. Idle \in FetchType
    BY DEF Idle, FetchType
  <1> HIDE DEF d
  <1>5. /\ fetch' \in [Workers -> FetchType] /\ fetch'[w] = Idle
        /\ \A u \in Workers : u # w => fetch'[u] = fetch[u]
    BY <1>1, <1>2, <1>4 DEF CacheInv, ShapesFit
  <1>6. StepOf(w, d, c)
    BY <1>1, <1>2, <1>5 DEF StepOf, CacheInv, ShapesFit
  <1>7. FileFits(d, c)'
    BY <1>1, <1>2, <1>3, <1>6, OtherFile
  <1>8. FetchFits(w)' /\ ComputeFits(w)'
    BY <1>5 DEF FetchFits, ComputeFits, Copying, Idle
  <1>9. FetchedFit'
    BY <1>1, <1>2 DEF CacheInv, FetchedFit
  <1>10. \A u \in Workers : u # w /\ DiskOf[u] = d /\ Dest(u) = c =>
           cache'[d][c] # Absent \/ ~Copying(u)
    BY <1>1, <1>2 DEF CacheInv, FetchesFit, FetchFits, Cached
  <1>11. QED
    BY <1>1, <1>2, <1>3, <1>5, <1>6, <1>7, <1>8, <1>9, <1>10, AssembleCache

LEMMA FetchFailsStep ==
  ASSUME IInv, NEW w \in Workers, FetchFails(w), UNCHANGED orgVars
  PROVE  CacheInv'
  <1>0. PICK c : c = Dest(w)
    OBVIOUS
  <1> DEFINE d == DiskOf[w]
  <1>1. /\ fetch[w].pc \in {"fetch", "copy"} /\ fetch' = [fetch EXCEPT ![w] = Idle]
        /\ SetFile(w, IF Copying(w) THEN Ended(w, "cut") ELSE Cached(w))
        /\ Disturb(w, Copying(w)) /\ UNCHANGED fetched
    BY DEF FetchFails, Ended
  <1>2. CacheInv /\ UNCHANGED <<store, overlapped>>
    BY StoreStays DEF IInv
  <1>3. d \in Disks /\ c \in CacheNames /\ Cached(w) \in FileType /\ Cached(w) = cache[d][c]
    BY <1>0, <1>1, <1>2, WorkerFacts DEF Cached
  <1>4. Idle \in FetchType
    BY DEF Idle, FetchType
  <1>5. /\ fetch' \in [Workers -> FetchType] /\ fetch'[w] = Idle
        /\ \A u \in Workers : u # w => fetch'[u] = fetch[u]
    BY <1>1, <1>2, <1>4 DEF CacheInv, ShapesFit
  <1>6. FetchFits(w)' /\ ComputeFits(w)'
    BY <1>5 DEF FetchFits, ComputeFits, Copying, Idle
  <1>7. Ended(w, "cut") \in FileType
    BY <1>3 DEF Ended, FileType
  <1>8. /\ disturbed' \in [Disks -> [CacheNames -> BOOLEAN]]
        /\ Copying(w) => disturbed'[d][c]
        /\ \A e \in Disks, b \in CacheNames : disturbed[e][b] => disturbed'[e][b]
    <2>1. Copying(w) \in BOOLEAN /\ fetch[w].pc # "idle"
      BY <1>1 DEF Copying
    <2>2. (IF Copying(w) THEN Ended(w, "cut") ELSE Cached(w)) \in FileType
      BY <1>3, <1>7
    <2>3. QED
      BY <1>0, <1>1, <2>1, <2>2, FileEffect
  <1>9. CASE Copying(w)
    BY <1>0, <1>1, <1>5, <1>6, <1>8, <1>9, EndEffect
  <1>10. CASE ~Copying(w)
    <2>1. cache' = cache
      BY <1>0, <1>1, <1>2, <1>3, <1>10 DEF SetFile, CacheInv, ShapesFit
    <2>2. StepOf(w, d, c)
      BY <1>1, <1>2, <1>5, <1>8, <2>1 DEF StepOf, CacheInv, ShapesFit
    <2>3. FileFits(d, c)'
      BY <1>2, <1>3, <1>10, <2>1, <2>2, OtherFile
    <2>4. FetchedFit'
      BY <1>1, <1>2 DEF CacheInv, FetchedFit
    <2>5. \A u \in Workers : u # w /\ DiskOf[u] = d /\ Dest(u) = c =>
             cache'[d][c] # Absent \/ ~Copying(u)
      BY <1>2, <2>1 DEF CacheInv, FetchesFit, FetchFits, Cached
    <2>6. QED
      BY <1>2, <1>3, <1>5, <1>6, <1>10, <2>1, <2>2, <2>3, <2>4, <2>5, AssembleCache
  <1>11. QED
    BY <1>9, <1>10

\* The workers' steps, and those of the organizers, which take nothing out of a
\* directory of the store.
LEMMA WorkersStep == IInv /\ CacheNext /\ UNCHANGED orgVars => CacheInv'
  <1> SUFFICES ASSUME IInv, UNCHANGED orgVars, NEW w \in Workers,
                      \/ Reuse(w) \/ Miss(w) \/ Open(w) \/ Close(w) \/ Done(w) \/ FetchFails(w)
               PROVE  CacheInv'
    BY DEF CacheNext
  <1> QED
    BY ReuseStep, MissStep, OpenStep, CloseStep, DoneStep, FetchFailsStep

LEMMA StoreKeepsCache == CacheInv /\ FilledStay /\ UNCHANGED cacheVars => CacheInv'
  <1> SUFFICES ASSUME CacheInv, FilledStay, UNCHANGED cacheVars PROVE CacheInv'
    OBVIOUS
  <1>1. UNCHANGED <<cache, fetch, fetched, disturbed>>
    BY DEF cacheVars
  <1>2. /\ overlapped => overlapped'
        /\ \A t \in Targets : store[t] # Nothing =>
             store'[t] # Nothing /\ (overlapped' \/ store'[t] = store[t])
    BY DEF FilledStay
  <1>3. \A d \in Disks : fetched[d] \subseteq Targets /\ \A p \in fetched[d] : store[p] # Nothing
    BY DEF CacheInv, ShapesFit, FetchedFit
  <1>4. ShapesFit' /\ FetchedFit'
    BY <1>1, <1>2, <1>3 DEF CacheInv, ShapesFit, FetchedFit, Idle
  <1>5. FilesFit'
    <2>1. SUFFICES ASSUME NEW d \in Disks, NEW c \in CacheNames, cache[d][c] # Absent
                   PROVE  FileFits(d, c)'
      BY <1>1 DEF FilesFit, FileFits, Absent
    <2>2. FileFits(d, c)
      BY DEF CacheInv, FilesFit
    <2>3. \A v : IsFrom(v, d, c) => overlapped' \/ IsFrom(v, d, c)'
      BY <1>1, <1>2, <1>3 DEF IsFrom
    <2>4. overlapped' \/ \A v \in cache[d][c].of : IsFrom(v, d, c)'
      BY <1>2, <2>1, <2>2, <2>3 DEF FileFits
    <2>5. QED
      BY <1>1, <2>1, <2>2, <2>4 DEF FileFits, Copying, Dest, cache_dest
  <1>6. ASSUME NEW w \in Workers
        PROVE  FetchFits(w)' /\ ComputeFits(w)'
    <2>1. FetchFits(w) /\ ComputeFits(w) /\ (fetch[w] # Idle => fetch[w].path \in Targets)
      BY DEF CacheInv, FetchesFit, ComputesFit, ShapesFit
    <2>2. fetch[w] # Idle => /\ store'[fetch[w].path] # Nothing
                             /\ overlapped' \/ store'[fetch[w].path] = store[fetch[w].path]
      BY <1>2, <2>1 DEF FetchFits
    <2>3. /\ Dest(w)' = Dest(w) /\ Cached(w)' = Cached(w) /\ (Copying(w)' <=> Copying(w))
      BY <1>1 DEF Dest, cache_dest, Cached, Copying
    <2>4. Copying(w) \/ fetch[w].pc = "compute" => fetch[w] # Idle
      BY DEF Copying, Idle
    <2>5. FetchFits(w)'
      BY <1>1, <1>2, <2>1, <2>2, <2>3, <2>4 DEF FetchFits, Idle, Absent
    <2>6. ComputeFits(w)'
      BY <1>1, <1>2, <2>1, <2>2, <2>3, <2>4 DEF ComputeFits
    <2>7. QED
      BY <2>5, <2>6
  <1>7. QED
    BY <1>4, <1>5, <1>6 DEF CacheInv, FetchesFit, ComputesFit

LEMMA InitInv == Init => IInv
  <1> SUFFICES ASSUME Init PROVE IInv
    OBVIOUS
  <1>1. OrgInv
    BY OrgInitInv DEF Init
  <1>2. /\ cache     = [d \in Disks |-> [c \in CacheNames |-> Absent]]
        /\ fetch     = [w \in Workers |-> Idle]
        /\ fetched   = [d \in Disks |-> {}]
        /\ disturbed = [d \in Disks |-> [c \in CacheNames |-> FALSE]]
    BY DEF Init, CacheInit
  <1>3. Absent \in FileType /\ Idle \in FetchType
    BY DEF Absent, Idle, FileType, FetchType
  <1>4. ShapesFit
    BY <1>2, <1>3 DEF ShapesFit
  <1>5. FilesFit
    BY <1>2 DEF FilesFit, FileFits
  <1>6. \A w \in Workers : fetch[w] = Idle /\ fetch[w].pc = "idle"
    BY <1>2 DEF Idle
  <1>7. FetchesFit /\ ComputesFit
    BY <1>6 DEF FetchesFit, FetchFits, ComputesFit, ComputeFits, Copying
  <1>8. FetchedFit
    BY <1>2, FS_EmptySet DEF FetchedFit
  <1>9. QED
    BY <1>1, <1>4, <1>5, <1>7, <1>8 DEF IInv, CacheInv

LEMMA StepInv == IInv /\ [Next]_vars => IInv'
  <1> SUFFICES ASSUME IInv, [Next]_vars PROVE IInv'
    OBVIOUS
  <1>1. [OrgNext]_orgVars
    BY DEF Next, vars
  <1>2. OrgInv' /\ FilledStay
    BY <1>1, OrgStep DEF IInv
  <1>3. CASE UNCHANGED cacheVars
    BY <1>2, <1>3, StoreKeepsCache DEF IInv
  <1>4. CASE CacheNext /\ UNCHANGED orgVars
    BY <1>2, <1>4, WorkersStep DEF IInv
  <1>5. QED
    BY <1>3, <1>4 DEF Next, vars

-----------------------------------------------------------------------------
\* The inductive invariant holds of every run.
THEOREM CacheInvariant == Spec => []IInv
  <1>1. QED
    BY InitInv, StepInv, PTL DEF Spec

\* Every variable has its type.
THEOREM CacheTypes == Spec => []TypeOK
  <1>1. IInv => TypeOK
    <2> SUFFICES ASSUME IInv PROVE TypeOK
      OBVIOUS
    <2>1. OrgTypeOK /\ ShapesFit
      BY DEF IInv, OrgInv, CacheInv
    <2>2. ASSUME NEW w \in Workers, fetch[w] # Idle
          PROVE  fetch[w] \in [pc : {"fetch", "copy", "compute"}, path : Targets,
                               video : Videos \cup {Nothing}]
      BY <2>1, <2>2 DEF ShapesFit, FetchType
    <2>3. \A d \in Disks, c \in CacheNames :
            cache[d][c] \in FileType /\ disturbed[d][c] \in BOOLEAN
      BY <2>1 DEF ShapesFit
    <2>4. QED
      BY <2>1, <2>2, <2>3 DEF TypeOK, ShapesFit, FileType
  <1>2. QED
    BY <1>1, CacheInvariant, PTL

\* A worker computes from the whole of the video its job names, but for the four
\* ways in which this code lets another content into the file.
THEOREM ComputesAreFromTheirSource == Spec => []ComputesFromItsSource
  <1>1. IInv => ComputesFromItsSource
    BY DEF IInv, CacheInv, ComputesFit, ComputeFits, ComputesFromItsSource
  <1>2. QED
    BY <1>1, CacheInvariant, PTL

\* A fetch that several workers of a machine share leaves the whole video behind,
\* unless the last of them to open the file was cut off.
THEOREM SharedFetchesEndWhole == Spec => []SharedFetchEndsWhole
  <1>1. IInv => SharedFetchEndsWhole
    <2> SUFFICES ASSUME IInv, NEW d \in Disks, NEW c \in CacheNames,
                        cache[d][c] # Absent, cache[d][c].state # "cut", ~overlapped,
                        Cardinality({p \in fetched[d] : Flattened[p] = c}) = 1,
                        ~\E w \in Workers : Copying(w) /\ DiskOf[w] = d /\ Dest(w) = c
                 PROVE  cache[d][c].state = "whole" /\ Cardinality(cache[d][c].of) = 1
      BY DEF SharedFetchEndsWhole
    <2>1. FileFits(d, c) /\ cache[d][c] \in FileType /\ IsFiniteSet(fetched[d])
      BY DEF IInv, CacheInv, FilesFit, ShapesFit, FetchedFit
    <2>2. cache[d][c].state = "whole"
      BY <2>1 DEF FileFits, FileType
    <2>3. IsFiniteSet({p \in fetched[d] : Flattened[p] = c})
      BY <2>1, FS_Subset
    <2>4. PICK p : {q \in fetched[d] : Flattened[q] = c} = {p}
      BY <2>3, FS_Singleton
    <2>5. cache[d][c].of # {} /\ \A v \in cache[d][c].of : v = store[p]
      BY <2>1, <2>4 DEF FileFits, IsFrom
    <2>6. cache[d][c].of = {store[p]}
      BY <2>5
    <2>7. QED
      BY <2>2, <2>6, FS_Singleton
  <1>2. QED
    BY <1>1, CacheInvariant, PTL

\* With workers about, the store still has all that was proved of it alone.
THEOREM StoreIsOrganized ==
  Spec => /\ []NoVideoLost /\ []RecordsDescribeTheirVideo /\ []OrganizedIsListed
          /\ ManifestGrowsFromBackup
  <1>1. Spec => OrgSpec
    <2>1. Init => OrgInit
      BY DEF Init
    <2>2. [Next]_vars => [OrgNext]_orgVars
      BY DEF Next, vars
    <2>3. QED
      BY <2>1, <2>2, PTL DEF Spec, OrgSpec
  <1>2. QED
    BY <1>1, VideosAreKept, RecordsAreOfTheirVideos, OrganizedVideosAreListed, ManifestsGrow, PTL
=============================================================================
