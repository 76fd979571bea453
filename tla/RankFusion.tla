----------------------------- MODULE RankFusion -----------------------------
(***************************************************************************)
(* From the ranked rows of a query to the moments it answers with.  A row  *)
(* is [modality, id, video, ts]; a candidate is a row with its rank.       *)
(*                                                                         *)
(* Scores are kept exact: Unit is a multiple of every RRF_K + rank that    *)
(* occurs, and weights are in tenths.                                      *)
(***************************************************************************)
EXTENDS Listings

CONSTANTS
  RRF_K,
  MaxRank,  \* no candidate is ranked worse
  Unit,
  Bucket    \* DEFAULT_BUCKET_SEC, in ms

ASSUME ScoreAssumption ==
  /\ Bucket \in Nat \ {0} /\ RRF_K \in Nat \ {0} /\ Unit \in Nat \ {0} /\ MaxRank \in Nat
  /\ \A rank \in 0..MaxRank : Unit % (RRF_K + rank) = 0

Contribution(weight, rank) == weight * (Unit \div (RRF_K + rank))

FirstSeen(seq) ==
  Picked(seq, {i \in DOMAIN seq : \A j \in DOMAIN seq : j < i => seq[j] # seq[i]})

\* sorted(..., reverse=True), which keeps the order of equals; ahead has the pairs
\* of positions of which the first has the greater key.
BestFirst(seq, ahead) ==
  LET Before(i) == {j \in DOMAIN seq : <<j, i>> \in ahead \/ (j < i /\ <<i, j>> \notin ahead)}
  IN  [n \in DOMAIN seq |-> seq[CHOOSE i \in DOMAIN seq : Cardinality(Before(i)) = n - 1]]

\* Which positions have the greater score.
Greater(score) == {pair \in (DOMAIN score) \X (DOMAIN score) : score[pair[1]] > score[pair[2]]}

Top(k, seq) == SubSeq(seq, 1, Min({k, Len(seq)}))

\* Position of x in a ranking, from 0.
RankIn(ranking, x) == SelectInSeq(ranking, LAMBDA y : y = x) - 1

\* Mutant: a list only scores what no list before it has.
fusion_of_first_lists(rankings) ==
  LET seen == FirstSeen(FlattenSeq(rankings))
      first(x) == Min({l \in DOMAIN rankings : Contains(rankings[l], x)})
  IN  BestFirst(seen, Greater([i \in DOMAIN seen |->
        Contribution(10, RankIn(rankings[first(seen[i])], seen[i]))]))

\* Every list adds weight / (k + rank) to each item it has.
reciprocal_rank_fusion(rankings) ==
  LET seen == FirstSeen(FlattenSeq(rankings))
      score(x) == SumFunction([l \in {k \in DOMAIN rankings : Contains(rankings[k], x)} |->
                                 Contribution(10, RankIn(rankings[l], x))])
  IN  BestFirst(seen, Greater([i \in DOMAIN seen |-> score(seen[i])]))

\* Rows in fused order, ranked anew across modalities.
Reranked(rows) == [i \in DOMAIN rows |-> [row |-> rows[i], rank |-> i - 1]]

transcript_candidates(lexical, dense) == Reranked(reciprocal_rank_fusion(<<lexical, dense>>))

screenshot_candidates(phash, dense, ocr, k) ==
  Top(k, Reranked(reciprocal_rank_fusion(<<phash, dense, ocr>>)))

-----------------------------------------------------------------------------
(* merge.py: one hit per video and bucket.                                 *)

\* round(ts / bucket): a half goes to the even neighbour.
RoundHalfEven(ts) ==
  LET down == ts \div Bucket
      rest == 2 * (ts % Bucket)
  IN  IF rest < Bucket \/ (rest = Bucket /\ down % 2 = 0) THEN down ELSE down + 1

bucket_key(candidate) == <<candidate.row.video, RoundHalfEven(candidate.row.ts)>>

Buckets(candidates) == FirstSeen([i \in DOMAIN candidates |-> bucket_key(candidates[i])])

InBucket(candidates, key) ==
  Picked(candidates, {i \in DOMAIN candidates : bucket_key(candidates[i]) = key})

Anchor(candidates, key) == Head(InBucket(candidates, key))

Modalities == {"transcript", "ocr", "visual"}

Tenths(spoken, read, seen) == [transcript |-> spoken, ocr |-> read, visual |-> seen]

DEFAULT_PROFILE == Tenths(10, 10, 10)

SCENE_WEIGHT_PROFILES ==
  [chatting     |-> Tenths(16, 10,  6), gaming    |-> Tenths( 8, 11, 16),
   singing      |-> Tenths(12, 12,  8), waiting   |-> Tenths( 6,  8, 10),
   superchat    |-> Tenths(10, 15,  8), announcement |-> Tenths(8, 15, 10),
   collab       |-> Tenths(10, 10, 10)]

\* No candidate is of the modalities scene and audio.
profile(scene) ==
  IF scene \in DOMAIN SCENE_WEIGHT_PROFILES THEN SCENE_WEIGHT_PROFILES[scene] ELSE DEFAULT_PROFILE

\* Mutant: every candidate adds to its modality.
hit_of_all(candidates, key, scene) ==
  LET bucket == InBucket(candidates, key)
      contribution(i) == Contribution(profile(scene)[bucket[i].row.modality], bucket[i].rank)
      best == Min({i \in DOMAIN bucket : \A j \in DOMAIN bucket : contribution(j) <= contribution(i)})
  IN  [video |-> key[1], ts |-> bucket[best].row.ts, scene_type |-> scene,
       score |-> SumFunction([i \in DOMAIN bucket |-> contribution(i)])]

\* Mutant: the hit is at the middle of its bucket.
hit_of_middle(candidates, key, scene) ==
  LET bucket == InBucket(candidates, key)
      contribution(i) == Contribution(profile(scene)[bucket[i].row.modality], bucket[i].rank)
      why(m) == {contribution(i) : i \in {j \in DOMAIN bucket : bucket[j].row.modality = m}}
  IN  [video |-> key[1], ts |-> key[2] * Bucket, scene_type |-> scene,
       score |-> SumFunction([m \in Modalities |-> Max(why(m) \cup {0})])]

\* The weights are those of the scene at the anchor; a modality counts once,
\* with its best candidate; the hit is at the first of the best candidates.
hit_of(candidates, key, scene) ==
  LET bucket == InBucket(candidates, key)
      contribution(i) == Contribution(profile(scene)[bucket[i].row.modality], bucket[i].rank)
      best == Min({i \in DOMAIN bucket : \A j \in DOMAIN bucket : contribution(j) <= contribution(i)})
      why(m) == {contribution(i) : i \in {j \in DOMAIN bucket : bucket[j].row.modality = m}}
  IN  [video |-> key[1], ts |-> bucket[best].row.ts, scene_type |-> scene,
       score |-> SumFunction([m \in Modalities |-> Max(why(m) \cup {0})])]

-----------------------------------------------------------------------------
(* audio_query.py and audio.py: windows of the clip vote for buckets.      *)

\* A window is the numbers of the segments it is made of: each one that is no
\* filler, the pairs of neighbours in the clip, and all of them.
build_windows(clip) ==
  LET clean == InOrder({i \in DOMAIN clip : clip[i] = "speech"})
      pairs == Picked([j \in DOMAIN clean \ {Len(clean)} |-> <<clean[j], clean[j + 1]>>],
                      {j \in DOMAIN clean \ {Len(clean)} : clean[j + 1] = clean[j] + 1})
  IN  IF clean = <<>> THEN <<>>
      ELSE [j \in DOMAIN clean |-> <<clean[j]>>] \o pairs \o <<clean>>

Voters(answers, key) == {w \in DOMAIN answers : InBucket(answers[w], key) # <<>>}

\* Mutant: a window votes with every candidate it has in the bucket.
coverage_of_all(answers, key) ==
  LET votes == FlattenSeq([w \in DOMAIN answers |-> InBucket(answers[w], key)])
      best == Min({i \in DOMAIN votes : \A j \in DOMAIN votes : votes[i].rank <= votes[j].rank})
  IN  [video |-> key[1], ts |-> votes[best].row.ts, coverage |-> Len(votes),
       quality |-> SumFunction([i \in DOMAIN votes |-> Contribution(1, votes[i].rank)]),
       evidence |-> [i \in DOMAIN votes |-> votes[i].row]]

\* A window votes once, with its first candidate in the bucket; the hit is at the
\* first of the best ranked candidates of all windows.
bucket_state(answers, key) ==
  LET all == FlattenSeq([w \in DOMAIN answers |-> InBucket(answers[w], key)])
      best == Min({i \in DOMAIN all : \A j \in DOMAIN all : all[i].rank <= all[j].rank})
      voting == InOrder(Voters(answers, key))
      votes == [i \in DOMAIN voting |-> Anchor(answers[voting[i]], key)]
  IN  [video |-> key[1], ts |-> all[best].row.ts, coverage |-> Len(votes),
       quality |-> SumFunction([i \in DOMAIN votes |-> Contribution(1, votes[i].rank)]),
       evidence |-> [i \in DOMAIN votes |-> votes[i].row]]

-----------------------------------------------------------------------------
(* evaluation.py.                                                          *)

Apart(s, t) == IF s < t THEN t - s ELSE s - t

\* Mutant: the last of the top_k hits is not looked at.
evaluate_hit_below(hits, case, top_k) ==
  LET near == {r \in 1..Min({top_k - 1, Len(hits)}) :
                 Apart(hits[r].ts, case.expected) <= case.tolerance}
  IN  IF near = {} THEN [rank |-> 0, error |-> 0]
      ELSE [rank |-> Min(near), error |-> Apart(hits[Min(near)].ts, case.expected)]

\* rank 0: missed.
evaluate_hit(hits, case, top_k) ==
  LET near == {r \in 1..Min({top_k, Len(hits)}) :
                 Apart(hits[r].ts, case.expected) <= case.tolerance}
  IN  IF near = {} THEN [rank |-> 0, error |-> 0]
      ELSE [rank |-> Min(near), error |-> Apart(hits[Min(near)].ts, case.expected)]

\* Over n results: how many are right at once and among five, the sum of 1/rank
\* in Units, and the sum of the errors of those that passed.
aggregate_metrics(results) ==
  LET passed == {i \in DOMAIN results : results[i].rank > 0}
  IN  [count |-> Len(results),
       top1  |-> Cardinality({i \in passed : results[i].rank = 1}),
       top5  |-> Cardinality({i \in passed : results[i].rank <= 5}),
       mrr   |-> SumFunction([i \in passed |-> Unit \div results[i].rank]),
       errors |-> SumFunction([i \in passed |-> results[i].error])]
=============================================================================
