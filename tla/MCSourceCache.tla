--------------------------- MODULE MCSourceCache ---------------------------
(* SourceCache: two videos under two names that the model may take for the
   same stream; their own names are flattened to one cache name. *)
EXTENDS SourceCache, TLC

CONSTANTS v1, v2, n1, n2, w1, w2, d1

MCNameOf    == (v1 :> n1) @@ (v2 :> n2)
MCAnswers   == {Garbled, [title |-> "stream", date |-> "2024-02-18"]}
MCFallback  == (n1 :> "utawaku (in kanji)") @@ (n2 :> "zatsudan (in kanji)")
MCFlattened == [t \in Targets |-> IF Len(t) = 1 THEN "___video.mp4" ELSE "stream_2024-02-18_video.mp4"]
MCDiskOf    == [w \in Workers |-> d1]

Symmetry == Permutations(Organizers) \cup Permutations(Workers)
=============================================================================
