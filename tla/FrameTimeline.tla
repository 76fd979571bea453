--------------------------- MODULE FrameTimeline ---------------------------
(***************************************************************************)
(* From a video's length and its cuts to the frames that are sampled, the  *)
(* names the JPEGs get, and the spans of one scene that the labels of the  *)
(* frames make.  Time is in milliseconds, to which the code rounds.        *)
(***************************************************************************)
EXTENDS Listings

CONSTANTS
  Interval,   \* DEFAULT_INTERVAL_SEC
  Tolerance,  \* DEDUP_TOLERANCE_SEC
  NoScene     \* scene_at finds no row

ASSUME SamplingAssumption ==
  Interval \in Nat \ {0} /\ Tolerance \in Nat /\ Tolerance < Interval

Samples(duration, cuts) ==
  {i * Interval : i \in 0..((duration - 1) \div Interval)} \cup {t \in cuts : t < duration}

\* Mutant: each sample is compared with the sample before it.
plan_of_neighbours(duration, cuts) ==
  LET samples == InOrder(Samples(duration, cuts))
  IN  IF duration = 0 THEN <<>>
      ELSE FoldLeft(LAMBDA kept, i :
                      IF i > 1 /\ samples[i] - samples[i - 1] <= Tolerance
                        THEN kept ELSE Append(kept, samples[i]),
                    <<>>, [i \in DOMAIN samples |-> i])

plan_sample_timestamps(duration, cuts) ==
  IF duration = 0 THEN <<>>
  ELSE FoldLeft(LAMBDA kept, t : IF kept # <<>> /\ t - Last(kept) <= Tolerance
                                   THEN kept ELSE Append(kept, t),
                <<>>, InOrder(Samples(duration, cuts)))

\* frame_<seconds>_<millis>.jpg, and back.
frame_path_for(ts) == [seconds |-> ts \div 1000, millis |-> ts % 1000]

ts_from_frame_name(name) == name.seconds * 1000 + name.millis

\* The timestamps of the JPEGs, in order.
frames_on_disk(disk) == InOrder({ts_from_frame_name(name) : name \in disk})

-----------------------------------------------------------------------------
tail_interval(times) ==
  IF Len(times) < 2 THEN 8000
  ELSE Min({times[i + 1] - times[i] : i \in 1..(Len(times) - 1)})

\* Mutant: a span runs to its own last frame.
segments_of_frames(times, label) ==
  LET starts == {i \in DOMAIN times : i = 1 \/ label[times[i]] # label[times[i - 1]]}
      End(i) == LET later == {j \in starts : j > i}
                IN  IF later = {} THEN Last(times) + tail_interval(times)
                    ELSE times[Min(later) - 1]
  IN  {[start |-> times[i], end |-> End(i), scene_type |-> label[times[i]]] : i \in starts}

\* A span runs from the first frame of its label to the first of the next one,
\* the last span to a tail past the last frame.
build_scene_segments(times, label) ==
  LET starts == {i \in DOMAIN times : i = 1 \/ label[times[i]] # label[times[i - 1]]}
      End(i) == LET later == {j \in starts : j > i}
                IN  IF later = {} THEN Last(times) + tail_interval(times)
                    ELSE times[Min(later)]
  IN  {[start |-> times[i], end |-> End(i), scene_type |-> label[times[i]]] : i \in starts}

\* Counter.most_common(1): the label of most frames, the first seen of equals.
dominant(times, label) ==
  LET Count(i) == Cardinality({j \in DOMAIN times : label[times[j]] = label[times[i]]})
      most == {i \in DOMAIN times : \A j \in DOMAIN times : Count(j) <= Count(i)}
  IN  label[times[Min(most)]]

\* The row with the best confidence, then the latest start; spans of one video
\* do not overlap, so the confidence is left out.
scene_at(segments, ts) ==
  LET covering == {s \in segments : s.start <= ts /\ ts < s.end}
  IN  IF covering = {} THEN NoScene
      ELSE (CHOOSE s \in covering : \A o \in covering : o.start <= s.start).scene_type
=============================================================================
