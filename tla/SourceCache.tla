---------------------------- MODULE SourceCache ----------------------------
(***************************************************************************)
(* How a worker gets the bytes of a job's source: the path of a manifest   *)
(* record, looked up in the cache directory of its machine under a         *)
(* flattened name, or else fetched into the place where the next job       *)
(* looks.  Workers of one machine share the directory.  The source store   *)
(* is that of SourceOrganizer, at work at the same time.                   *)
(***************************************************************************)
EXTENDS SourceOrganizer, FiniteSets

CONSTANTS Workers, NoWorker,
          Disks, DiskOf,   \* the machine of each worker
          Flattened        \* each path with [^A-Za-z0-9._-] turned into _

ASSUME CacheAssumption ==
  NoWorker \notin Workers /\ DiskOf \in [Workers -> Disks] /\ DOMAIN Flattened = Targets

VARIABLES
  cache,      \* the files in MEDIA_ROOT/_source_cache of each machine
  fetch,      \* the job each worker is at
  fetched,    \* the paths that were fetched on each machine
  disturbed   \* the cache files of which a fetch was cut or not waited for

cacheVars == <<cache, fetch, fetched, disturbed>>
vars      == <<orgVars, cacheVars>>

CacheNames == Range(Flattened)

\* of: the videos whose bytes are in it; by: who opened it last.
Absent == [of |-> {}, by |-> NoWorker, state |-> "absent"]
Idle   == [pc |-> "idle", path |-> << >>, video |-> Nothing]

CacheInit ==
  /\ cache     = [d \in Disks |-> [c \in CacheNames |-> Absent]]
  /\ fetch     = [w \in Workers |-> Idle]
  /\ fetched   = [d \in Disks |-> {}]
  /\ disturbed = [d \in Disks |-> [c \in CacheNames |-> FALSE]]

-----------------------------------------------------------------------------
\* Mutant: only the last component of the path, which is video.mp4 throughout.
cache_dest_of_name(path) == CHOOSE c \in CacheNames : TRUE

cache_dest(path) == Flattened[path]

Dest(w)   == cache_dest(fetch[w].path)
Cached(w) == cache[DiskOf[w]][Dest(w)]

Copying(w) == fetch[w].pc = "copy"

\* The others that write the same file.
Rivals(w) ==
  {u \in Workers \ {w} : Copying(u) /\ DiskOf[u] = DiskOf[w] /\ Dest(u) = Dest(w)}

GoTo(w, pc) == fetch' = [fetch EXCEPT ![w].pc = pc]

SetFile(w, file) == cache' = [cache EXCEPT ![DiskOf[w]][Dest(w)] = file]

Disturb(w, yes) ==
  disturbed' = [disturbed EXCEPT ![DiskOf[w]][Dest(w)] = @ \/ yes]

\* A job of a manifest record, claimed or picked by --compute-only.  If
\* local.exists(), the file is used as it is.
Claim(w, p, cached) ==
  /\ fetch[w] = Idle /\ p \in PathsIn(manifest)
  /\ cached = (cache[DiskOf[w]][cache_dest(p)] # Absent)
  /\ fetch' = [fetch EXCEPT ![w] =
       [pc |-> IF cached THEN "compute" ELSE "fetch", path |-> p, video |-> Nothing]]

Reuse(w) ==
  \E p \in Targets :
    /\ Claim(w, p, TRUE)
    /\ disturbed' = [disturbed EXCEPT ![DiskOf[w]][cache_dest(p)] =
                       @ \/ cache[DiskOf[w]][cache_dest(p)].state = "writing"]
    /\ UNCHANGED <<cache, fetched>>

Miss(w) == \E p \in Targets : Claim(w, p, FALSE) /\ UNCHANGED <<cache, fetched, disturbed>>

\* A 2xx, and dest.open("wb"), which truncates what is there by now.
Open(w) ==
  /\ fetch[w].pc = "fetch"
  /\ LET p == fetch[w].path
     IN  /\ store[p] # Nothing
         /\ fetch' = [fetch EXCEPT ![w].pc = "copy", ![w].video = store[p]]
         /\ SetFile(w, [of |-> {store[p]} \cup {fetch[u].video : u \in Rivals(w)},
                        by |-> w, state |-> "writing"])
         /\ fetched' = [fetched EXCEPT ![DiskOf[w]] = @ \cup {p}]
  /\ Disturb(w, Cached(w) # Absent)

\* Mutant: a fetch that finds the file opened by another one leaves it at that.
CloseEarly(w) ==
  /\ Copying(w)
  /\ GoTo(w, "compute")
  /\ UNCHANGED <<cache, fetched, disturbed>>

\* Its last chunk is written.  Who opened the file last wrote all of it; what
\* another one wrote before that is gone.
Close(w) ==
  /\ Copying(w)
  /\ GoTo(w, "compute")
  /\ SetFile(w, IF Cached(w).by = w THEN [Cached(w) EXCEPT !.state = "whole"] ELSE Cached(w))
  /\ UNCHANGED <<fetched, disturbed>>

\* The run is over, in whatever way; the file stays.
Done(w) ==
  /\ fetch[w].pc = "compute"
  /\ fetch' = [fetch EXCEPT ![w] = Idle]
  /\ UNCHANGED <<cache, fetched, disturbed>>

\* The fetch raises or the worker dies.  A file that was opened stays as it is.
FetchFails(w) ==
  /\ fetch[w].pc \in {"fetch", "copy"}
  /\ fetch' = [fetch EXCEPT ![w] = Idle]
  /\ SetFile(w, IF Copying(w) /\ Cached(w).by = w THEN [Cached(w) EXCEPT !.state = "cut"]
                ELSE Cached(w))
  /\ Disturb(w, Copying(w))
  /\ UNCHANGED fetched

CacheNext == \E w \in Workers :
  \/ Reuse(w) \/ Miss(w) \/ Open(w) \/ Close(w) \/ Done(w) \/ FetchFails(w)

Init == OrgInit /\ CacheInit

Next ==
  \/ OrgNext   /\ UNCHANGED cacheVars
  \/ CacheNext /\ UNCHANGED orgVars

Spec == Init /\ [][Next]_vars

-----------------------------------------------------------------------------
TypeOK ==
  /\ OrgTypeOK
  /\ \A d \in Disks, c \in CacheNames :
       /\ cache[d][c] \in [of : SUBSET Videos, by : Workers \cup {NoWorker},
                           state : {"absent", "writing", "whole", "cut"}]
       /\ disturbed[d][c] \in BOOLEAN
  /\ fetched \in [Disks -> SUBSET Targets]
  /\ \A w \in Workers : fetch[w] = Idle \/
       fetch[w] \in [pc : {"fetch", "copy", "compute"}, path : Targets,
                     video : Videos \cup {Nothing}]

\* A worker computes from the whole of the video its job names, unless an earlier
\* fetch into that cache file was cut, two workers of a machine met in it, another
\* path is flattened to the same name, or two organizers met in the store.
ComputesFromItsSource ==
  \A w \in Workers : fetch[w].pc = "compute" =>
    \/ Cached(w).state = "whole" /\ Cached(w).of = {store[fetch[w].path]}
    \/ disturbed[DiskOf[w]][Dest(w)]
    \/ \E p \in fetched[DiskOf[w]] : p # fetch[w].path /\ Flattened[p] = Flattened[fetch[w].path]
    \/ overlapped

\* Workers of one machine that fetch the same source at the same time spoil it for
\* no one who comes later: unless the last to open it was cut off, what they leave
\* behind is the whole video.
SharedFetchEndsWhole ==
  \A d \in Disks, c \in CacheNames :
    /\ cache[d][c] # Absent /\ cache[d][c].state # "cut"
    /\ ~overlapped /\ Cardinality({p \in fetched[d] : Flattened[p] = c}) = 1
    /\ ~\E w \in Workers : Copying(w) /\ DiskOf[w] = d /\ Dest(w) = c
    => cache[d][c].state = "whole" /\ Cardinality(cache[d][c].of) = 1
=============================================================================
