-------------------------- MODULE RankFusionProofs --------------------------
(***************************************************************************)
(* Proofs about RankFusion, for rankings of every number and length.       *)
(***************************************************************************)
EXTENDS RankFusion, FrameTimelineProofs, SequenceTheorems

-----------------------------------------------------------------------------
(* What is kept of a sequence.                                             *)

LEMMA DomainIsFinite ==
  ASSUME NEW A, NEW seq \in Seq(A)
  PROVE  /\ DOMAIN seq = 1..Len(seq) /\ Len(seq) \in Nat
         /\ IsFiniteSet(DOMAIN seq) /\ Cardinality(DOMAIN seq) = Len(seq)
         /\ DOMAIN seq \in SUBSET Nat
  <1>1. DOMAIN seq = 1..Len(seq) /\ Len(seq) \in Nat
    OBVIOUS
  <1>2. QED
    BY <1>1, FS_Interval

LEMMA PickedFacts ==
  ASSUME NEW A, NEW seq \in Seq(A), NEW at \in SUBSET DOMAIN seq
  PROVE  /\ Picked(seq, at) \in Seq(A) /\ Len(Picked(seq, at)) = Cardinality(at)
         /\ Cardinality(at) \in Nat
         /\ DOMAIN InOrder(at) = 1..Cardinality(at)
         /\ \A n \in 1..Cardinality(at) :
              InOrder(at)[n] \in at /\ Picked(seq, at)[n] = seq[InOrder(at)[n]]
         /\ \A m, n \in 1..Cardinality(at) : m < n => InOrder(at)[m] < InOrder(at)[n]
         /\ \A i \in at : \E n \in 1..Cardinality(at) : InOrder(at)[n] = i
  <1>1. at \in SUBSET Nat /\ IsFiniteSet(at)
    BY DomainIsFinite, FS_Subset
  <1>2. /\ InOrder(at) \in Seq(at) /\ Len(InOrder(at)) = Cardinality(at)
        /\ DOMAIN InOrder(at) = 1..Cardinality(at) /\ Cardinality(at) \in Nat
        /\ \A i, j \in 1..Cardinality(at) : i < j => InOrder(at)[i] < InOrder(at)[j]
        /\ \A x \in at : \E i \in 1..Cardinality(at) : InOrder(at)[i] = x
    BY <1>1, Sorted
  <1>3. ASSUME NEW n \in 1..Cardinality(at)
        PROVE  InOrder(at)[n] \in at /\ seq[InOrder(at)[n]] \in A
    <2>1. InOrder(at)[n] \in at
      BY <1>2
    <2>2. QED
      BY <2>1
  <1>4. Picked(seq, at) = [n \in 1..Cardinality(at) |-> seq[InOrder(at)[n]]]
    BY <1>2 DEF Picked
  <1>5. Picked(seq, at) \in Seq(A) /\ Len(Picked(seq, at)) = Cardinality(at)
    <2> DEFINE N == Cardinality(at)
               picked == [n \in 1..N |-> seq[InOrder(at)[n]]]
    <2>1. N \in Nat /\ \A n \in 1..N : seq[InOrder(at)[n]] \in A
      BY <1>2, <1>3
    <2> HIDE DEF N
    <2>2. picked \in Seq(A) /\ Len(picked) = N
      BY ONLY <2>1
    <2>3. QED
      BY ONLY <1>4, <2>2 DEF N
  <1>6. QED
    BY <1>2, <1>3, <1>4, <1>5

LEMMA PickedSet ==
  ASSUME NEW A, NEW seq \in Seq(A), NEW at \in SUBSET DOMAIN seq
  PROVE  ToSet(Picked(seq, at)) = {seq[i] : i \in at}
  <1> DEFINE N == Cardinality(at)
             P == Picked(seq, at)
             O == InOrder(at)
  <1>1. /\ P \in Seq(A) /\ Len(P) = N /\ N \in Nat
        /\ \A n \in 1..N : O[n] \in at /\ P[n] = seq[O[n]]
        /\ \A i \in at : \E n \in 1..N : O[n] = i
    BY PickedFacts
  <1> HIDE DEF N, P, O
  <1>2. DOMAIN P = 1..N
    BY <1>1
  <1>3. ASSUME NEW i \in at
        PROVE  \E n \in DOMAIN P : P[n] = seq[i]
    <2>1. PICK n \in 1..N : O[n] = i
      BY <1>1
    <2>2. P[n] = seq[i]
      BY <1>1, <2>1
    <2>3. QED
      BY <1>2, <2>2
  <1>4. ASSUME NEW n \in DOMAIN P
        PROVE  \E i \in at : P[n] = seq[i]
    BY <1>1, <1>2
  <1>5. ToSet(P) = {seq[i] : i \in at}
    BY ONLY <1>3, <1>4 DEF ToSet
  <1>6. QED
    BY <1>5 DEF P

\* What was seen first: every element, each once.
LEMMA FirstSeenFacts ==
  ASSUME NEW A, NEW seq \in Seq(A)
  PROVE  /\ FirstSeen(seq) \in Seq(A) /\ ToSet(FirstSeen(seq)) = ToSet(seq)
         /\ \A i, j \in DOMAIN FirstSeen(seq) : FirstSeen(seq)[i] = FirstSeen(seq)[j] => i = j
  <1> DEFINE at == {i \in DOMAIN seq : \A j \in DOMAIN seq : j < i => seq[j] # seq[i]}
             N == Cardinality(at)
             P == Picked(seq, at)
             O == InOrder(at)
  <1>1. at \in SUBSET DOMAIN seq /\ DOMAIN seq \in SUBSET Nat
    BY DomainIsFinite
  <1>2. \A i, j \in at : seq[i] = seq[j] => i = j
    BY <1>1
  <1>3. {seq[i] : i \in at} = ToSet(seq)
    <2> SUFFICES ASSUME NEW k \in DOMAIN seq PROVE \E i \in at : seq[i] = seq[k]
      BY DEF ToSet
    <2> DEFINE S == {i \in DOMAIN seq : seq[i] = seq[k]}
    <2>1. S \in SUBSET Nat /\ S # {}
      BY <1>1
    <2>2. PICK i \in S : \A j \in S : i <= j
      BY <2>1, LeastNumber
    <2>3. \A j \in DOMAIN seq : j < i => seq[j] # seq[i]
      BY <1>1, <2>2
    <2>4. QED
      BY <2>2, <2>3
  <1> HIDE DEF at
  <1>4. ToSet(P) = ToSet(seq)
    BY <1>1, <1>3, PickedSet
  <1>5. /\ P \in Seq(A) /\ Len(P) = N /\ N \in Nat
        /\ \A n \in 1..N : O[n] \in at /\ P[n] = seq[O[n]]
        /\ \A m, n \in 1..N : m < n => O[m] < O[n]
    BY <1>1, PickedFacts
  <1> HIDE DEF P, N, O
  <1>6. \A m, n \in 1..N : O[m] = O[n] => m = n
    <2> SUFFICES ASSUME NEW m \in 1..N, NEW n \in 1..N, O[m] = O[n], m # n PROVE FALSE
      OBVIOUS
    <2>1. O[m] \in Nat /\ O[n] \in Nat
      BY <1>1, <1>5
    <2>2. m < n \/ n < m
      BY <1>5
    <2>3. QED
      BY <1>5, <2>1, <2>2
  <1>7. \A m, n \in 1..N : P[m] = P[n] => m = n
    BY <1>2, <1>5, <1>6
  <1>8. DOMAIN P = 1..N /\ FirstSeen(seq) = P
    BY <1>5 DEF FirstSeen, P, at
  <1>9. QED
    BY <1>4, <1>5, <1>7, <1>8

-----------------------------------------------------------------------------
(* Sorting.                                                                *)

\* ahead compares as a key would, of which several positions may have the same.
Weak(ahead, D) ==
  /\ \A i \in D : <<i, i>> \notin ahead
  /\ \A i, j, k \in D : <<i, j>> \in ahead /\ <<j, k>> \in ahead => <<i, k>> \in ahead
  /\ \A i, j, k \in D : <<i, j>> \notin ahead /\ <<j, k>> \notin ahead => <<i, k>> \notin ahead

\* place says from where the n-th element of best comes: from everywhere once, and
\* from nowhere that is behind where a later one comes from.
Permutes(place, best, seq, ahead) ==
  /\ place \in [DOMAIN seq -> DOMAIN seq]
  /\ \A i \in DOMAIN seq : \E n \in DOMAIN seq : place[n] = i
  /\ \A n \in DOMAIN seq : best[n] = seq[place[n]]
  /\ \A m, n \in DOMAIN seq : m < n =>
       /\ place[m] # place[n]
       /\ <<place[n], place[m]>> \notin ahead
       /\ <<place[m], place[n]>> \notin ahead => place[m] < place[n]

LEMMA BestFirstSorts ==
  ASSUME NEW A, NEW seq \in Seq(A), NEW ahead, Weak(ahead, DOMAIN seq)
  PROVE  /\ BestFirst(seq, ahead) \in Seq(A) /\ Len(BestFirst(seq, ahead)) = Len(seq)
         /\ \E place : Permutes(place, BestFirst(seq, ahead), seq, ahead)
  <1> DEFINE D == DOMAIN seq
             Ahead(i, j) == <<i, j>> \in ahead
             Set(i) == {j \in D : Ahead(j, i) \/ (j < i /\ ~Ahead(i, j))}
             Before == [i \in D |-> Set(i)]
             place == [n \in D |-> CHOOSE i \in D : Cardinality(Set(i)) = n - 1]
             N == Len(seq)
             best == BestFirst(seq, ahead)
  <1>1. D = 1..N /\ N \in Nat /\ IsFiniteSet(D) /\ Cardinality(D) = N
    BY DomainIsFinite
  <1>2. /\ \A i \in D : ~Ahead(i, i)
        /\ \A i, j, k \in D : Ahead(i, j) /\ Ahead(j, k) => Ahead(i, k)
        /\ \A i, j, k \in D : ~Ahead(i, j) /\ ~Ahead(j, k) => ~Ahead(i, k)
    BY DEF Weak
  <1>3. best = [n \in D |-> seq[place[n]]]
    BY DEF BestFirst
  <1>4. \A i, j \in D : j \in Before[i] <=> Ahead(j, i) \/ (j < i /\ ~Ahead(i, j))
    OBVIOUS
  <1>5. Before \in [D -> SUBSET D]
    OBVIOUS
  <1>6. \A n \in D : place[n] = CHOOSE i \in D : Cardinality(Set(i)) = n - 1
    OBVIOUS
  <1>7. \A i \in D : Before[i] = Set(i)
    OBVIOUS
  <1> HIDE DEF Before, place, Ahead, D, N, Set
  <1>8. \A i \in D : i \notin Before[i]
    BY <1>1, <1>2, <1>4
  <1>9. \A i, j \in D : i # j => i \in Before[j] \/ j \in Before[i]
    BY <1>1, <1>4
  <1>10. \A i, j \in D : i \in Before[j] => Before[i] \subseteq Before[j]
    <2> SUFFICES ASSUME NEW i \in D, NEW j \in D, i \in Before[j], NEW k \in Before[i]
                 PROVE  k \in Before[j]
      OBVIOUS
    <2>1. k \in D
      BY <1>5
    <2>2. ~Ahead(j, i) /\ ~Ahead(i, k)
      BY <1>2, <1>4, <2>1
    <2>3. ~Ahead(j, k)
      BY <1>2, <2>1, <2>2
    <2>4. CASE Ahead(k, j)
      BY <1>4, <2>1, <2>4
    <2>5. CASE ~Ahead(k, j)
      <3>1. ~Ahead(k, i) /\ ~Ahead(i, j)
        BY <1>2, <2>1, <2>2, <2>5
      <3>2. k < i /\ i < j
        BY <1>4, <2>1, <3>1
      <3>3. k < j
        BY <1>1, <2>1, <3>2
      <3>4. QED
        BY <1>4, <2>1, <2>3, <3>3
    <2>6. QED
      BY <2>4, <2>5
  <1>21. /\ \A n \in 1..Cardinality(D) : \E i \in D : Cardinality(Before[i]) = n - 1
         /\ \A i, j \in D : i \in Before[j] => Cardinality(Before[i]) < Cardinality(Before[j])
         /\ \A i \in D : Cardinality(Before[i]) \in 0..(Cardinality(D) - 1)
    <2>1. IsFiniteSet(D)
      BY <1>1
    <2>2. QED
      BY ONLY <2>1, <1>5, <1>8, <1>9, <1>10, Places
  <1>11. /\ \A n \in 1..N : \E i \in D : Cardinality(Before[i]) = n - 1
         /\ \A i, j \in D : i \in Before[j] => Cardinality(Before[i]) < Cardinality(Before[j])
         /\ \A i \in D : Cardinality(Before[i]) \in 0..(N - 1)
    BY <1>1, <1>21
  <1>12. \A n \in D : place[n] \in D /\ Cardinality(Before[place[n]]) = n - 1
    <2> SUFFICES ASSUME NEW n \in D PROVE place[n] \in D /\ Cardinality(Before[place[n]]) = n - 1
      OBVIOUS
    <2>1. PICK i \in D : Cardinality(Set(i)) = n - 1
      BY <1>1, <1>7, <1>11
    <2>2. place[n] \in D /\ Cardinality(Set(place[n])) = n - 1
      BY <1>6, <2>1
    <2>3. QED
      BY <1>7, <2>2
  <1>13. \A i, j \in D : Cardinality(Before[i]) = Cardinality(Before[j]) => i = j
    <2> SUFFICES ASSUME NEW i \in D, NEW j \in D, i # j,
                        Cardinality(Before[i]) = Cardinality(Before[j])
                 PROVE  FALSE
      OBVIOUS
    <2>1. Cardinality(Before[i]) \in Nat /\ Cardinality(Before[j]) \in Nat
      BY <1>1, <1>11
    <2>2. i \in Before[j] \/ j \in Before[i]
      BY <1>9
    <2>3. QED
      BY <1>11, <2>1, <2>2
  <1>14. ASSUME NEW i \in D PROVE \E n \in D : place[n] = i
    <2> DEFINE n == Cardinality(Before[i]) + 1
    <2>1. n \in D /\ Cardinality(Before[i]) = n - 1
      BY <1>1, <1>11
    <2>2. Cardinality(Before[place[n]]) = Cardinality(Before[i]) /\ place[n] \in D
      BY <1>12, <2>1
    <2>3. place[n] = i
      BY <1>13, <2>2
    <2>4. QED
      BY <2>1, <2>3
  <1>15. ASSUME NEW m \in D, NEW n \in D, m < n
         PROVE  /\ place[m] # place[n] /\ ~Ahead(place[n], place[m])
                /\ ~Ahead(place[m], place[n]) => place[m] < place[n]
    <2>1. m \in Nat /\ n \in Nat
      BY <1>1
    <2>2. /\ place[m] \in D /\ Cardinality(Before[place[m]]) = m - 1
          /\ place[n] \in D /\ Cardinality(Before[place[n]]) = n - 1
      BY <1>12
    <2>3. place[m] # place[n]
      BY <1>15, <2>1, <2>2
    <2>4. place[n] \notin Before[place[m]]
      <3>1. place[n] \in Before[place[m]] => n - 1 < m - 1
        BY <1>11, <2>2
      <3>2. QED
        BY <1>15, <2>1, <3>1
    <2>5. place[m] \in Before[place[n]]
      BY <1>9, <2>2, <2>3, <2>4
    <2>6. QED
      BY <1>2, <1>4, <2>2, <2>3, <2>5
  <1>16. place \in [D -> D]
    BY <1>12 DEF place
  <1>17. best \in Seq(A) /\ Len(best) = N
    <2>1. \A n \in D : seq[place[n]] \in A
      BY <1>12 DEF D
    <2>2. best \in [1..N -> A]
      BY <1>1, <1>3, <2>1
    <2>3. QED
      BY <1>1, <2>2
  <1>18. \A n \in D : best[n] = seq[place[n]]
    BY <1>3
  <1>19. Permutes(place, best, seq, ahead)
    BY <1>14, <1>15, <1>16, <1>18 DEF Permutes, D, Ahead
  <1>20. QED
    BY <1>17, <1>19 DEF N

LEMMA GreaterIsWeak ==
  ASSUME NEW n \in Nat, NEW score \in [1..n -> Int]
  PROVE  Weak(Greater(score), 1..n)
  BY DEF Weak, Greater

-----------------------------------------------------------------------------
(* Sums.                                                                   *)

\* g[z] is the sum of f over z, whichever element is taken first.
Sums(g, f, D) ==
  /\ g \in [SUBSET D -> Int] /\ g[{}] = 0
  /\ \A z \in SUBSET D : \A x \in z : g[z] = f[x] + g[z \ {x}]

\* Some element is taken first.
SumsUp(g, f, D) ==
  /\ g \in [SUBSET D -> Int] /\ g[{}] = 0
  /\ \A z \in SUBSET D : z # {} => \E x \in z : g[z] = f[x] + g[z \ {x}]

LEMMA SumUnfolds ==
  ASSUME NEW D, IsFiniteSet(D), NEW f \in [D -> Int]
  PROVE  \E g : SumsUp(g, f, D) /\ SumFunction(f) = g[D]
  <1> DEFINE Is(g) == g = [z \in SUBSET D |->
                             IF z = {} THEN 0
                             ELSE f[CHOOSE x \in z : TRUE] + g[z \ {CHOOSE x \in z : TRUE}]]
             g0 == CHOOSE g : Is(g)
             pick == [z \in SUBSET D |-> CHOOSE x \in z : TRUE]
             step == [p \in D \X Int |-> f[p[1]] + p[2]]
  <1>1. SumFunction(f) = g0[D]
    <2>1. DOMAIN f = D
      OBVIOUS
    <2>2. SumFunction(f) = (CHOOSE g : g = [z \in SUBSET DOMAIN f |->
                             IF z = {} THEN 0
                             ELSE f[CHOOSE x \in z : TRUE] + g[z \ {CHOOSE x \in z : TRUE}]])[DOMAIN f]
      BY DEF SumFunction, SumFunctionOnSet, FoldFunctionOnSet, MapThenFoldSet
    <2>3. QED
      BY <2>1, <2>2
  <1>2. \A z \in SUBSET D : z # {} => (CHOOSE x \in z : TRUE) \in z
    OBVIOUS
  <1>3. Picks(pick, D)
    BY <1>2 DEF Picks
  <1>4. step \in [D \X Int -> Int]
    OBVIOUS
  <1>5. PICK g : Folds(g, D, Int, 0, pick, step)
    <2> DEFINE none == 0
    <2>1. none \in Int
      OBVIOUS
    <2> HIDE DEF pick, step, none
    <2>2. \E h : Folds(h, D, Int, none, pick, step)
      BY <2>1, <1>3, <1>4, FoldExists
    <2>3. QED
      BY <2>2 DEF none
  <1>6. Is(g)
    <2>1. ASSUME NEW z \in SUBSET D
          PROVE  g[z] = IF z = {} THEN 0
                        ELSE f[CHOOSE x \in z : TRUE] + g[z \ {CHOOSE x \in z : TRUE}]
      <3>1. g[z] = IF z = {} THEN 0 ELSE step[<<pick[z], g[z \ {pick[z]}]>>]
        BY <1>5 DEF Folds
      <3>2. g \in [SUBSET D -> Int]
        BY <1>5 DEF Folds
      <3>3. pick[z] = CHOOSE x \in z : TRUE
        OBVIOUS
      <3>4. z # {} => pick[z] \in D /\ g[z \ {pick[z]}] \in Int
        BY <1>2, <3>2, <3>3
      <3>5. z # {} => step[<<pick[z], g[z \ {pick[z]}]>>] = f[pick[z]] + g[z \ {pick[z]}]
        <4> HIDE DEF pick
        <4>1. QED
          BY <3>4
      <3>6. QED
        BY <3>1, <3>3, <3>5
    <2>2. QED
      BY <1>5, <2>1 DEF Folds
  <1>7. Is(g0)
    <2> HIDE DEF Is
    <2>1. \E h : Is(h)
      BY <1>6
    <2>2. QED
      BY <2>1, Zenon
  <1>8. g0 = g
    <2>1. ASSUME NEW z \in SUBSET D
          PROVE g0[z] = g[z]
      <3> DEFINE Bad == {n \in Nat : \E y \in SUBSET D : Cardinality(y) = n /\ g0[y] # g[y]}
      <3>1. \A y \in SUBSET D : IsFiniteSet(y) /\ Cardinality(y) \in Nat
        BY FS_Subset, FS_CardinalityType
      <3>2. SUFFICES ASSUME Bad # {} PROVE FALSE
        BY <3>1
      <3>3. PICK n \in Bad : \A m \in Bad : n <= m
        BY <3>2, LeastNumber
      <3>4. PICK y \in SUBSET D : Cardinality(y) = n /\ g0[y] # g[y]
        BY <3>3
      <3> HIDE DEF g0
      <3>5. y # {}
        BY <1>6, <1>7, <3>4
      <3>6. PICK x : x = CHOOSE u \in y : TRUE
        OBVIOUS
      <3>7. x \in y
        BY <1>2, <3>5, <3>6
      <3>8. g0[y] = f[x] + g0[y \ {x}] /\ g[y] = f[x] + g[y \ {x}]
        <4>1. /\ g0[y] = f[CHOOSE u \in y : TRUE] + g0[y \ {CHOOSE u \in y : TRUE}]
              /\ g[y] = f[CHOOSE u \in y : TRUE] + g[y \ {CHOOSE u \in y : TRUE}]
          BY <1>6, <1>7, <3>5
        <4>2. QED
          BY <3>6, <4>1
      <3>9. g0[y \ {x}] # g[y \ {x}]
        BY <3>4, <3>8
      <3>10. Cardinality(y \ {x}) = n - 1 /\ y \ {x} \in SUBSET D
        BY <3>1, <3>4, <3>7, FS_RemoveElement
      <3>11. n - 1 \in Nat
        BY <3>1, <3>10
      <3>12. n - 1 \in Bad
        BY <3>9, <3>10, <3>11
      <3>13. QED
        BY <3>3, <3>12
    <2> HIDE DEF g0
    <2>2. QED
      BY <1>6, <1>7, <2>1
  <1>9. g \in [SUBSET D -> Int] /\ SumFunction(f) = g[D]
    BY <1>1, <1>5, <1>8 DEF Folds
  <1>10. g[{}] = 0
    BY <1>6
  <1>11. \A z \in SUBSET D : z # {} => \E x \in z : g[z] = f[x] + g[z \ {x}]
    BY <1>2, <1>6
  <1>12. SumsUp(g, f, D)
    BY <1>9, <1>10, <1>11 DEF SumsUp
  <1>13. QED
    BY <1>9, <1>12

LEMMA SumOf ==
  ASSUME NEW D, IsFiniteSet(D), NEW f \in [D -> Int]
  PROVE  \E g : Sums(g, f, D) /\ SumFunction(f) = g[D]
  <1>0. PICK g : SumsUp(g, f, D) /\ SumFunction(f) = g[D]
    BY SumUnfolds
  <1>1. /\ g \in [SUBSET D -> Int] /\ g[{}] = 0 /\ SumFunction(f) = g[D]
        /\ \A z \in SUBSET D : z # {} => \E x \in z : g[z] = f[x] + g[z \ {x}]
    BY <1>0 DEF SumsUp
  <1> DEFINE Splits(z) == \A x \in z : g[z] = f[x] + g[z \ {x}]
             Bad == {n \in Nat : \E z \in SUBSET D : Cardinality(z) = n /\ ~Splits(z)}
  <1>2. \A y \in SUBSET D : IsFiniteSet(y) /\ Cardinality(y) \in Nat
    BY FS_Subset, FS_CardinalityType
  <1>3. Bad = {}
    <2> SUFFICES ASSUME Bad # {} PROVE FALSE
      OBVIOUS
    <2>1. PICK n \in Bad : \A m \in Bad : n <= m
      BY LeastNumber
    <2>2. PICK z \in SUBSET D : Cardinality(z) = n /\ ~Splits(z)
      BY <2>1
    <2>3. PICK x \in z : g[z] # f[x] + g[z \ {x}]
      BY <2>2
    <2>4. PICK u \in z : g[z] = f[u] + g[z \ {u}]
      BY <1>1, <2>3
    <2>5. u # x
      BY <2>3, <2>4
    <2>6. /\ Cardinality(z \ {u}) = n - 1 /\ z \ {u} \in SUBSET D
          /\ Cardinality(z \ {x}) = n - 1 /\ z \ {x} \in SUBSET D
      BY <1>2, <2>2, FS_RemoveElement
    <2>7. n - 1 \in Nat
      BY <1>2, <2>6
    <2>8. n - 1 \notin Bad
      BY <2>1, <2>7
    <2>9. Splits(z \ {u}) /\ Splits(z \ {x})
      BY <2>6, <2>7, <2>8
    <2>10. PICK rest : rest = (z \ {u}) \ {x} /\ rest = (z \ {x}) \ {u}
      OBVIOUS
    <2>11. g[z \ {u}] = f[x] + g[rest] /\ g[z \ {x}] = f[u] + g[rest]
      BY <2>5, <2>9, <2>10
    <2>12. f[x] \in Int /\ f[u] \in Int /\ g[rest] \in Int
      BY <1>1, <2>10
    <2>13. QED
      BY <2>3, <2>4, <2>11, <2>12
  <1>4. \A z \in SUBSET D : Splits(z)
    BY <1>2, <1>3
  <1>5. Sums(g, f, D)
    BY <1>1, <1>4 DEF Sums
  <1>6. QED
    BY <1>1, <1>5

LEMMA SumOfNone == ASSUME NEW f \in [{} -> Int] PROVE SumFunction(f) = 0
  <1>1. IsFiniteSet({})
    BY FS_EmptySet
  <1>2. PICK g : Sums(g, f, {}) /\ SumFunction(f) = g[{}]
    BY <1>1, SumOf
  <1>3. QED
    BY <1>2 DEF Sums

\* Two sums of the same function agree where both are defined.
LEMMA SumsAgree ==
  ASSUME NEW D, IsFiniteSet(D), NEW f \in [D -> Int], NEW g, Sums(g, f, D),
         NEW E \in SUBSET D, NEW e \in [E -> Int], \A x \in E : e[x] = f[x],
         NEW h, Sums(h, e, E)
  PROVE  \A z \in SUBSET E : g[z] = h[z]
  <1> DEFINE Bad == {n \in Nat : \E z \in SUBSET E : Cardinality(z) = n /\ g[z] # h[z]}
  <1>1. \A y \in SUBSET E : IsFiniteSet(y) /\ Cardinality(y) \in Nat
    BY FS_Subset, FS_CardinalityType
  <1>2. SUFFICES ASSUME Bad # {} PROVE FALSE
    BY <1>1
  <1>3. PICK n \in Bad : \A m \in Bad : n <= m
    BY <1>2, LeastNumber
  <1>4. PICK z \in SUBSET E : Cardinality(z) = n /\ g[z] # h[z]
    BY <1>3
  <1>5. z # {}
    BY <1>4 DEF Sums
  <1>6. PICK x \in z : TRUE
    BY <1>5
  <1>7. Cardinality(z \ {x}) = n - 1 /\ z \ {x} \in SUBSET E
    BY <1>1, <1>4, <1>6, FS_RemoveElement
  <1>8. n - 1 \in Nat
    BY <1>1, <1>7
  <1>9. n - 1 \notin Bad
    BY <1>3, <1>8
  <1>10. g[z \ {x}] = h[z \ {x}]
    BY <1>7, <1>8, <1>9
  <1>11. g[z] = f[x] + g[z \ {x}] /\ h[z] = e[x] + h[z \ {x}]
    BY <1>6 DEF Sums
  <1>12. QED
    BY <1>4, <1>6, <1>10, <1>11

LEMMA SumSplits ==
  ASSUME NEW D, IsFiniteSet(D), NEW f \in [D -> Int], NEW x \in D
  PROVE  SumFunction(f) = f[x] + SumFunction([y \in D \ {x} |-> f[y]])
  <1> DEFINE E == D \ {x}
             e == [y \in E |-> f[y]]
  <1>1. IsFiniteSet(E) /\ E \in SUBSET D
    BY FS_Subset
  <1>2. e \in [E -> Int] /\ \A y \in E : e[y] = f[y]
    OBVIOUS
  <1> HIDE DEF e
  <1>3. PICK g : Sums(g, f, D) /\ SumFunction(f) = g[D]
    BY SumOf
  <1>4. g[D] = f[x] + g[E]
    BY <1>3 DEF Sums
  <1> HIDE DEF E
  <1>5. PICK h : Sums(h, e, E) /\ SumFunction(e) = h[E]
    BY <1>1, <1>2, SumOf
  <1>6. \A z \in SUBSET E : g[z] = h[z]
    BY <1>1, <1>2, <1>3, <1>5, SumsAgree
  <1>7. g[E] = h[E]
    BY <1>6
  <1>8. QED
    BY <1>3, <1>4, <1>5, <1>7 DEF e, E

\* A sum lies between the sums of its bounds.
LEMMA SumIsBounded ==
  ASSUME NEW D, IsFiniteSet(D), NEW f \in [D -> Int], NEW b \in Nat,
         \A x \in D : 0 <= f[x] /\ f[x] <= b
  PROVE  /\ SumFunction(f) \in Nat /\ SumFunction(f) <= b * Cardinality(D)
         /\ \A x \in D : f[x] <= SumFunction(f)
  <1>1. PICK g : Sums(g, f, D) /\ SumFunction(f) = g[D]
    BY SumOf
  <1> DEFINE Fits(z) == 0 <= g[z] /\ g[z] <= b * Cardinality(z)
             Bad == {n \in Nat : \E z \in SUBSET D : Cardinality(z) = n /\ ~Fits(z)}
  <1>2. \A y \in SUBSET D : IsFiniteSet(y) /\ Cardinality(y) \in Nat
    BY FS_Subset, FS_CardinalityType
  <1>3. Bad = {}
    <2> SUFFICES ASSUME Bad # {} PROVE FALSE
      OBVIOUS
    <2>1. PICK n \in Bad : \A m \in Bad : n <= m
      BY LeastNumber
    <2>2. PICK z \in SUBSET D : Cardinality(z) = n /\ ~Fits(z)
      BY <2>1
    <2>3. z # {}
      <3>1. ASSUME z = {} PROVE FALSE
        <4>1. Cardinality(z) = 0 /\ g[z] = 0
          BY <1>1, <3>1, FS_EmptySet DEF Sums
        <4>2. b * 0 = 0
          OBVIOUS
        <4>3. QED
          BY <2>2, <4>1, <4>2
      <3>2. QED
        BY <3>1
    <2>4. PICK x \in z : TRUE
      BY <2>3
    <2>5. Cardinality(z \ {x}) = n - 1 /\ z \ {x} \in SUBSET D
      BY <1>2, <2>2, <2>4, FS_RemoveElement
    <2>6. n - 1 \in Nat
      BY <1>2, <2>5
    <2>7. n - 1 \notin Bad
      BY <2>1, <2>6
    <2>8. Fits(z \ {x})
      BY <2>5, <2>6, <2>7
    <2>9. g[z] = f[x] + g[z \ {x}] /\ g[z \ {x}] \in Int
      BY <1>1, <2>4, <2>5 DEF Sums
    <2>10. 0 <= f[x] /\ f[x] <= b /\ f[x] \in Int
      BY <2>4
    <2>11. b * n = b * (n - 1) + b /\ b * n \in Int /\ b * (n - 1) \in Int
      <3>1. n \in Int
        BY <2>6
      <3>2. QED
        BY <3>1
    <2>12. 0 <= g[z] /\ g[z] <= b * n
      BY <2>5, <2>8, <2>9, <2>10, <2>11
    <2>13. QED
      BY <2>2, <2>12
  <1>4. \A z \in SUBSET D : Fits(z)
    BY <1>2, <1>3
  <1>5. \A x \in D : f[x] <= g[D]
    <2> SUFFICES ASSUME NEW x \in D PROVE f[x] <= g[D]
      OBVIOUS
    <2>1. g[D] = f[x] + g[D \ {x}] /\ g[D \ {x}] \in Int
      BY <1>1 DEF Sums
    <2>2. 0 <= g[D \ {x}]
      BY <1>4
    <2>3. QED
      BY <2>1, <2>2
  <1>6. g[D] \in Int
    BY <1>1 DEF Sums
  <1>7. QED
    BY <1>1, <1>4, <1>5, <1>6

\* Without a bound that is known: the values are finitely many.
LEMMA SumIsNat ==
  ASSUME NEW D, IsFiniteSet(D), NEW f \in [D -> Nat]
  PROVE  SumFunction(f) \in Nat
  <1>1. PICK g : Sums(g, f, D) /\ SumFunction(f) = g[D]
    <2>1. f \in [D -> Int]
      OBVIOUS
    <2>2. QED
      BY <2>1, SumOf
  <1> DEFINE Bad == {n \in Nat : \E z \in SUBSET D : Cardinality(z) = n /\ g[z] \notin Nat}
  <1>2. \A y \in SUBSET D : IsFiniteSet(y) /\ Cardinality(y) \in Nat
    BY FS_Subset, FS_CardinalityType
  <1>3. Bad = {}
    <2> SUFFICES ASSUME Bad # {} PROVE FALSE
      OBVIOUS
    <2>1. PICK n \in Bad : \A m \in Bad : n <= m
      BY LeastNumber
    <2>2. PICK z \in SUBSET D : Cardinality(z) = n /\ g[z] \notin Nat
      BY <2>1
    <2>4. z # {}
      <3>1. g[{}] = 0
        BY <1>1 DEF Sums
      <3>2. QED
        BY <2>2, <3>1
    <2>3. PICK x \in z : TRUE
      BY <2>4
    <2>5. Cardinality(z \ {x}) = n - 1 /\ z \ {x} \in SUBSET D
      BY <1>2, <2>2, <2>3, FS_RemoveElement
    <2>6. n - 1 \in Nat
      BY <1>2, <2>5
    <2>7. n - 1 \notin Bad
      BY <2>1, <2>6
    <2>8. g[z \ {x}] \in Nat
      BY <2>5, <2>6, <2>7
    <2>9. g[z] = f[x] + g[z \ {x}]
      BY <1>1, <2>3, <2>5 DEF Sums
    <2>10. QED
      BY <2>2, <2>8, <2>9
  <1>4. QED
    BY <1>1, <1>2, <1>3

-----------------------------------------------------------------------------
(* Lists of lists.                                                         *)

LEMMA FlattenFacts ==
  ASSUME NEW A, NEW seqs \in Seq(Seq(A))
  PROVE  /\ FlattenSeq(seqs) \in Seq(A)
         /\ ToSet(FlattenSeq(seqs)) = {x \in A : \E l \in DOMAIN seqs : x \in ToSet(seqs[l])}
  <1> DEFINE n == Len(seqs)
             Step(g, i) == IF i = 1 THEN seqs[i] ELSE g[i - 1] \o seqs[i]
             Is(g) == g = [i \in 1..n |-> Step(g, i)]
             flatten == CHOOSE g : Is(g)
             Upto(k, g) == \A i \in 1..n : i <= k => g[i] = Step(g, i)
             Good == {k \in Nat : \E g \in [1..n -> Seq(A)] : Upto(k, g)}
  <1>1. n \in Nat /\ DOMAIN seqs = 1..n /\ \A i \in 1..n : i \in Nat /\ seqs[i] \in Seq(A)
    OBVIOUS
  <1>2. n # 0 => FlattenSeq(seqs) = flatten[n]
    BY DEF FlattenSeq
  <1>3. \A g \in [1..n -> Seq(A)], i \in 1..n : Step(g, i) \in Seq(A)
    <2> SUFFICES ASSUME NEW g \in [1..n -> Seq(A)], NEW i \in 1..n PROVE Step(g, i) \in Seq(A)
      OBVIOUS
    <2>1. i = 1 \/ i - 1 \in 1..n
      BY <1>1
    <2>2. seqs[i] \in Seq(A)
      BY <1>1
    <2> HIDE DEF n
    <2>3. CASE i = 1
      BY <2>2, <2>3
    <2>4. CASE i # 1
      <3>1. g[i - 1] \in Seq(A)
        BY <2>1, <2>4
      <3>2. QED
        BY <2>2, <2>4, <3>1
    <2>5. QED
      BY <2>3, <2>4
  <1> HIDE DEF n
  <1>4. 0 \in Good
    <2>1. [i \in 1..n |-> seqs[i]] \in [1..n -> Seq(A)]
      BY <1>1
    <2>2. \A g : Upto(0, g)
      BY <1>1
    <2>3. QED
      BY <2>1, <2>2
  <1>5. ASSUME NEW k \in Nat, k \in Good PROVE k + 1 \in Good
    <2>1. PICK g \in [1..n -> Seq(A)] : Upto(k, g)
      BY <1>5
    <2> DEFINE h == [i \in 1..n |-> IF i = k + 1 THEN Step(g, i) ELSE g[i]]
    <2>2. h \in [1..n -> Seq(A)]
      BY <1>3
    <2>3. ASSUME NEW i \in 1..n, i <= k + 1 PROVE h[i] = Step(h, i)
      <3>1. i = 1 \/ (i - 1 \in 1..n /\ i - 1 # k + 1)
        BY <1>1, <2>3
      <3>2. Step(h, i) = Step(g, i)
        BY <3>1
      <3>3. i = k + 1 \/ (i <= k /\ h[i] = g[i])
        BY <1>1, <2>3
      <3>4. QED
        BY <2>1, <3>2, <3>3
    <2>4. Upto(k + 1, h)
      BY <2>3
    <2> HIDE DEF h, Upto
    <2>5. \E f \in [1..n -> Seq(A)] : Upto(k + 1, f)
      BY <2>2, <2>4
    <2>6. QED
      BY <2>5
  <1>6. n \in Good
    <2> HIDE DEF Good
    <2>1. Nat \subseteq Good
      BY <1>4, <1>5, SetInduction
    <2>2. QED
      BY <1>1, <2>1
  <1>7. PICK g \in [1..n -> Seq(A)] : Upto(n, g)
    BY <1>6
  <1>8. Is(g)
    <2>1. \A i \in 1..n : g[i] = Step(g, i)
      BY <1>1, <1>7
    <2>2. QED
      BY <2>1
  <1>9. Is(flatten)
    <2> HIDE DEF Is
    <2>1. \E f : Is(f)
      BY <1>8
    <2>2. QED
      BY <2>1, Zenon
  <1> HIDE DEF flatten
  <1> DEFINE Part(k) == {x \in A : \E l \in 1..k : x \in ToSet(seqs[l])}
             Fit == {k \in Nat : k \in 1..n => flatten[k] \in Seq(A) /\ ToSet(flatten[k]) = Part(k)}
  <1>10. ASSUME NEW s \in Seq(A), NEW t \in Seq(A)
         PROVE  s \o t \in Seq(A) /\ ToSet(s \o t) = ToSet(s) \cup ToSet(t)
    <2>1. /\ s \o t \in Seq(A) /\ Len(s \o t) = Len(s) + Len(t)
          /\ \A i \in 1..(Len(s) + Len(t)) :
               (s \o t)[i] = IF i <= Len(s) THEN s[i] ELSE t[i - Len(s)]
      OBVIOUS
    <2>2. ToSet(s \o t) \subseteq ToSet(s) \cup ToSet(t)
      <3> SUFFICES ASSUME NEW i \in 1..(Len(s) + Len(t))
                   PROVE  (s \o t)[i] \in ToSet(s) \cup ToSet(t)
        BY <2>1 DEF ToSet
      <3>1. i <= Len(s) => i \in DOMAIN s
        OBVIOUS
      <3>2. ~(i <= Len(s)) => i - Len(s) \in DOMAIN t
        OBVIOUS
      <3>3. QED
        BY <2>1, <3>1, <3>2 DEF ToSet
    <2>3. ASSUME NEW i \in DOMAIN s PROVE s[i] \in ToSet(s \o t)
      <3>1. i \in 1..(Len(s) + Len(t)) /\ i <= Len(s)
        OBVIOUS
      <3>2. (s \o t)[i] = s[i] /\ i \in DOMAIN (s \o t)
        BY <2>1, <3>1
      <3>3. QED
        BY <3>2 DEF ToSet
    <2>4. ASSUME NEW i \in DOMAIN t PROVE t[i] \in ToSet(s \o t)
      <3>1. i + Len(s) \in 1..(Len(s) + Len(t)) /\ ~(i + Len(s) <= Len(s))
            /\ (i + Len(s)) - Len(s) = i
        OBVIOUS
      <3>2. (s \o t)[i + Len(s)] = t[i] /\ i + Len(s) \in DOMAIN (s \o t)
        BY <2>1, <3>1
      <3>3. QED
        BY <3>2 DEF ToSet
    <2>5. QED
      BY <2>1, <2>2, <2>3, <2>4 DEF ToSet
  <1>11. \A s \in Seq(A) : ToSet(s) \subseteq A
    BY DEF ToSet
  <1>12. 0 \in Fit
    OBVIOUS
  <1>13. ASSUME NEW k \in Nat, k \in Fit PROVE k + 1 \in Fit
    <2> SUFFICES ASSUME k + 1 \in 1..n
                 PROVE  flatten[k + 1] \in Seq(A) /\ ToSet(flatten[k + 1]) = Part(k + 1)
      OBVIOUS
    <2>1. flatten[k + 1] = IF k = 0 THEN seqs[1] ELSE flatten[k] \o seqs[k + 1]
      <3>1. flatten[k + 1] = Step(flatten, k + 1)
        BY <1>9
      <3>2. (k + 1) - 1 = k /\ (k + 1 = 1 <=> k = 0)
        OBVIOUS
      <3>3. QED
        BY <3>1, <3>2
    <2>2. Part(k + 1) = Part(k) \cup ToSet(seqs[k + 1])
      <3>1. 1..(k + 1) = (1..k) \cup {k + 1}
        <4>1. \A i \in 1..(k + 1) : i \in 1..k \/ i = k + 1
          OBVIOUS
        <4>2. \A i \in 1..k : i \in 1..(k + 1)
          OBVIOUS
        <4>3. k + 1 \in 1..(k + 1)
          OBVIOUS
        <4>4. QED
          BY <4>1, <4>2, <4>3
      <3>2. ToSet(seqs[k + 1]) \subseteq A
        BY <1>1, <1>11
      <3>3. QED
        BY <3>1, <3>2
    <2>3. CASE k = 0
      <3>1. Part(k) = {}
        BY <2>3
      <3>2. QED
        BY <1>1, <2>1, <2>2, <2>3, <3>1
    <2>4. CASE k # 0
      <3>1. k \in 1..n
        BY <1>1, <2>4
      <3>2. flatten[k] \in Seq(A) /\ ToSet(flatten[k]) = Part(k)
        BY <1>13, <3>1
      <3> HIDE DEF Part
      <3>3. QED
        BY <1>1, <1>10, <2>1, <2>2, <2>4, <3>2
    <2>5. QED
      BY <2>3, <2>4
  <1>14. n \in Fit
    <2> HIDE DEF Fit
    <2>1. Nat \subseteq Fit
      BY <1>12, <1>13, SetInduction
    <2>2. QED
      BY <1>1, <2>1
  <1>15. CASE n = 0
    <2>1. FlattenSeq(seqs) = seqs /\ seqs = << >>
      BY <1>15 DEF FlattenSeq, n
    <2>2. ToSet(seqs) = {} /\ << >> \in Seq(A) /\ DOMAIN seqs = {}
      BY <1>1, <1>15, <2>1 DEF ToSet
    <2>3. QED
      BY <2>1, <2>2
  <1>16. CASE n # 0
    <2>1. n \in 1..n
      BY <1>1, <1>16
    <2>2. QED
      BY <1>1, <1>2, <1>14, <1>16, <2>1
  <1>17. QED
    BY <1>15, <1>16

\* The greatest of finitely many.
LEMMA FiniteHasGreatest ==
  ASSUME NEW S \in SUBSET Nat, IsFiniteSet(S), S # {}
  PROVE  \E m \in S : \A k \in S : k <= m
  <1> DEFINE n == Cardinality(S)
             s == InOrder(S)
  <1>1. /\ s \in Seq(S) /\ Len(s) = n /\ n \in Nat
        /\ \A i, j \in 1..n : i < j => s[i] < s[j]
        /\ \A x \in S : \E i \in 1..n : s[i] = x
    BY Sorted
  <1> HIDE DEF n, s
  <1>2. n \in 1..n
    <2>1. PICK i \in 1..n : TRUE
      BY <1>1
    <2>2. QED
      BY <1>1, <2>1
  <1>3. s[n] \in S
    BY <1>1, <1>2
  <1>4. ASSUME NEW k \in S PROVE k <= s[n]
    <2>1. PICK i \in 1..n : s[i] = k
      BY <1>1
    <2>2. CASE i = n
      BY <1>3, <2>1, <2>2
    <2>3. CASE i # n
      <3>1. i < n
        BY <1>1, <2>3
      <3>2. s[i] < s[n]
        BY <1>1, <1>2, <3>1
      <3>3. k \in Nat /\ s[n] \in Nat
        BY <1>3
      <3>4. QED
        BY <2>1, <3>2, <3>3
    <2>4. QED
      BY <2>2, <2>3
  <1>5. QED
    BY <1>3, <1>4

LEMMA MaxIs ==
  ASSUME NEW S \in SUBSET Nat, NEW m \in S, \A k \in S : k <= m
  PROVE  Max(S) = m
  <1>1. m \in Nat
    OBVIOUS
  <1>2. Max(S) \in S /\ \A k \in S : k <= Max(S)
    BY <1>1, MaxOf
  <1>3. Max(S) \in Nat /\ m <= Max(S) /\ Max(S) <= m
    BY <1>2
  <1>4. QED
    BY <1>1, <1>3

\* As many as there are indexes.
LEMMA SameSize ==
  ASSUME NEW S, NEW T, NEW f \in [S -> T], IsFiniteSet(S),
         \A x, y \in S : f[x] = f[y] => x = y, \A t \in T : \E x \in S : f[x] = t
  PROVE  IsFiniteSet(T) /\ Cardinality(T) = Cardinality(S)
  <1>1. f \in Injection(S, T) /\ f \in Surjection(S, T)
    BY DEF Injection, IsInjective, Surjection
  <1>2. ExistsBijection(S, T)
    BY <1>1 DEF ExistsBijection, Bijection
  <1>3. QED
    BY <1>2, FS_Bijection

\* A sum over more, of what is as large, is as large; it is larger if a term is.
LEMMA SumsCompare ==
  ASSUME NEW D, IsFiniteSet(D), NEW E \in SUBSET D,
         NEW f \in [E -> Nat], NEW h \in [D -> Nat], \A x \in E : f[x] <= h[x]
  PROVE  /\ SumFunction(f) \in Nat /\ SumFunction(h) \in Nat
         /\ SumFunction(f) <= SumFunction(h)
         /\ (\E x \in E : f[x] < h[x]) => SumFunction(f) < SumFunction(h)
  <1>1. IsFiniteSet(E) /\ f \in [E -> Int] /\ h \in [D -> Int]
    <2>1. IsFiniteSet(E)
      BY FS_Subset
    <2>2. QED
      BY <2>1
  <1>2. PICK g : Sums(g, h, D) /\ SumFunction(h) = g[D]
    BY <1>1, SumOf
  <1>3. PICK k : Sums(k, f, E) /\ SumFunction(f) = k[E]
    BY <1>1, SumOf
  <1> DEFINE Less(z) == \E x \in z \cap E : f[x] < h[x]
             Fits(z) == k[z \cap E] <= g[z] /\ (Less(z) => k[z \cap E] < g[z])
             Bad == {n \in Nat : \E z \in SUBSET D : Cardinality(z) = n /\ ~Fits(z)}
  <1>4. \A z \in SUBSET D : IsFiniteSet(z) /\ Cardinality(z) \in Nat
    BY FS_Subset, FS_CardinalityType
  <1>5. ASSUME NEW z \in SUBSET D PROVE Fits(z)
    <2> SUFFICES ASSUME Bad # {} PROVE FALSE
      BY <1>4
    <2>1. PICK n \in Bad : \A m \in Bad : n <= m
      BY LeastNumber
    <2>2. PICK y \in SUBSET D : Cardinality(y) = n /\ ~Fits(y)
      BY <2>1
    <2> HIDE DEF Bad
    <2>3. y # {}
      <3> SUFFICES ASSUME y = {} PROVE FALSE
        OBVIOUS
      <3>1. y \cap E = {} /\ g[{}] = 0 /\ k[{}] = 0
        BY <1>2, <1>3 DEF Sums
      <3>2. k[y \cap E] = 0 /\ g[y] = 0
        BY <3>1
      <3>3. QED
        BY <2>2, <3>1, <3>2
    <2>4. PICK x \in y : Less(y) => x \in E /\ f[x] < h[x]
      BY <2>3
    <2> DEFINE w == y \ {x}
    <2>5. w \in SUBSET D /\ Cardinality(w) = n - 1
      BY <1>4, <2>2, FS_RemoveElement
    <2>6. Fits(w)
      <3>1. n \in Nat /\ n - 1 \in Nat
        BY <1>4, <2>2, <2>5
      <3>2. n - 1 \notin Bad
        BY <2>1, <3>1
      <3>3. QED
        BY <2>5, <3>1, <3>2 DEF Bad
    <2>7. g[y] = h[x] + g[w] /\ g[w] \in Int /\ h[x] \in Nat
      BY <1>2, <2>5 DEF Sums
    <2>8. k[w \cap E] \in Int /\ k[y \cap E] \in Int
      BY <1>3 DEF Sums
    <2>9. CASE x \in E
      <3>1. k[y \cap E] = f[x] + k[(y \cap E) \ {x}]
        BY <1>3, <2>9 DEF Sums
      <3>2. (y \cap E) \ {x} = w \cap E
        OBVIOUS
      <3>3. f[x] \in Nat /\ f[x] <= h[x] /\ k[w \cap E] <= g[w]
        BY <2>6, <2>9
      <3>4. k[y \cap E] = f[x] + k[w \cap E]
        BY <3>1, <3>2
      <3> HIDE DEF w
      <3>5. k[y \cap E] <= g[y] /\ (f[x] < h[x] => k[y \cap E] < g[y])
        BY <2>7, <2>8, <3>3, <3>4
      <3>6. QED
        BY <2>2, <2>4, <3>5
    <2>10. CASE x \notin E
      <3>1. y \cap E = w \cap E /\ ~Less(y)
        BY <2>4, <2>10
      <3>2. k[w \cap E] <= g[w]
        BY <2>6
      <3>3. k[y \cap E] = k[w \cap E]
        BY <3>1
      <3> HIDE DEF w
      <3>4. k[y \cap E] <= g[y]
        BY <2>7, <2>8, <3>2, <3>3
      <3>5. QED
        BY <2>2, <3>1, <3>4
    <2>11. QED
      BY <2>9, <2>10
  <1>6. Fits(D) /\ D \cap E = E
    BY <1>5
  <1>7. k[E] <= g[D] /\ ((\E x \in E : f[x] < h[x]) => k[E] < g[D])
    BY <1>6
  <1>8. SumFunction(f) \in Nat /\ SumFunction(h) \in Nat
    BY <1>1, SumIsNat
  <1>9. QED
    BY <1>2, <1>3, <1>7, <1>8

LEMMA SumOfSame ==
  ASSUME NEW D, IsFiniteSet(D), NEW c \in Nat
  PROVE  SumFunction([x \in D |-> c]) = Cardinality(D) * c
  <1> DEFINE f == [x \in D |-> c]
  <1>1. f \in [D -> Int]
    OBVIOUS
  <1>2. PICK g : Sums(g, f, D) /\ SumFunction(f) = g[D]
    BY <1>1, SumOf
  <1>3. \A z \in SUBSET D : IsFiniteSet(z) /\ Cardinality(z) \in Nat
    BY FS_Subset, FS_CardinalityType
  <1> DEFINE Bad == {n \in Nat : \E z \in SUBSET D : Cardinality(z) = n /\ g[z] # n * c}
  <1>4. ASSUME NEW z \in SUBSET D PROVE g[z] = Cardinality(z) * c
    <2> SUFFICES ASSUME Bad # {} PROVE FALSE
      BY <1>3
    <2>1. PICK n \in Bad : \A m \in Bad : n <= m
      BY LeastNumber
    <2>2. PICK y \in SUBSET D : Cardinality(y) = n /\ g[y] # n * c
      BY <2>1
    <2>3. n \in Nat
      BY <1>3, <2>2
    <2> HIDE DEF Bad
    <2>4. CASE y = {}
      <3>1. n = 0 /\ g[y] = 0
        BY <1>2, <2>2, <2>4, FS_EmptySet DEF Sums
      <3>2. QED
        BY <2>2, <3>1
    <2>5. CASE y # {}
      <3>1. PICK x \in y : TRUE
        BY <2>5
      <3> DEFINE w == y \ {x}
      <3>2. w \in SUBSET D /\ Cardinality(w) = n - 1
        BY <1>3, <2>2, FS_RemoveElement
      <3>3. n - 1 \in Nat
        BY <1>3, <3>2
      <3>4. n - 1 \notin Bad
        BY <2>1, <2>3, <3>3
      <3>5. g[w] = (n - 1) * c
        BY <3>2, <3>3, <3>4 DEF Bad
      <3>6. g[y] = c + g[w]
        BY <1>2 DEF Sums
      <3>7. n * c = c + (n - 1) * c
        BY <2>3, <3>3
      <3>8. QED
        BY <2>2, <3>5, <3>6, <3>7
    <2>6. QED
      BY <2>4, <2>5
  <1>5. QED
    BY <1>2, <1>4

-----------------------------------------------------------------------------
(* What ranks are worth.                                                  *)

\* A worse rank contributes no more.
LEMMA ContributionFalls ==
  ASSUME NEW weight \in Nat, NEW r \in Nat, NEW s \in Nat, r <= s
  PROVE  /\ Contribution(weight, r) \in Nat /\ Contribution(weight, s) \in Nat
         /\ Contribution(weight, s) <= Contribution(weight, r)
  <1> DEFINE a == RRF_K + r
             b == RRF_K + s
             p == Unit \div a
             q == Unit \div b
  <1>1. a \in Nat \ {0} /\ b \in Nat \ {0} /\ a <= b /\ Unit \in Nat
    BY ScoreAssumption
  <1> HIDE DEF a, b
  <1>2. /\ p \in Nat /\ q \in Nat
        /\ q * b <= Unit /\ Unit < p * a + a
    BY <1>1, Division
  <1> HIDE DEF p, q
  <1>3. q * a <= q * b
    BY <1>1, <1>2
  <1>4. q * a < p * a + a
    <2>1. q * a \in Nat /\ q * b \in Nat /\ p * a \in Nat
      BY <1>1, <1>2
    <2>2. QED
      BY <1>1, <1>2, <1>3, <2>1
  <1>5. q < p + 1
    <2>1. (p + 1) * a = p * a + a /\ (p + 1 <= q => (p + 1) * a <= q * a)
      BY <1>1, <1>2, Multiples
    <2>2. q * a \in Nat /\ p * a \in Nat
      BY <1>1, <1>2
    <2>3. QED
      BY <1>1, <1>2, <1>4, <2>1, <2>2
  <1>6. weight * p \in Nat /\ weight * q \in Nat /\ weight * q <= weight * p
    BY <1>2, <1>5
  <1>7. QED
    BY <1>6 DEF Contribution, p, q, a, b

LEMMA NoRemainder ==
  ASSUME NEW u \in Nat, NEW a \in Nat \ {0}, u % a = 0
  PROVE  u \div a \in Nat /\ (u \div a) * a = u
  <1>1. u = a * (u \div a)
    OBVIOUS
  <1>2. QED
    BY <1>1

\* Unit is a multiple of RRF_K + rank.
LEMMA ContributionIsExact ==
  ASSUME NEW r \in 0..MaxRank
  PROVE  /\ Unit \div (RRF_K + r) \in Nat
         /\ (Unit \div (RRF_K + r)) * (RRF_K + r) = Unit
  <1> DEFINE a == RRF_K + r
  <1>1. a \in Nat \ {0} /\ Unit \in Nat /\ Unit % a = 0
    BY ScoreAssumption
  <1> HIDE DEF a
  <1>2. Unit \div a \in Nat /\ (Unit \div a) * a = Unit
    BY <1>1, NoRemainder
  <1>3. QED
    BY <1>2 DEF a

LEMMA ContributionDrops ==
  ASSUME NEW r \in 0..MaxRank, NEW s \in 0..MaxRank, r < s
  PROVE  Contribution(10, s) < Contribution(10, r)
  <1> DEFINE a == RRF_K + r
             b == RRF_K + s
             p == Unit \div a
             q == Unit \div b
  <1>1. a \in Nat /\ b \in Nat /\ a < b /\ Unit \in Nat \ {0}
    BY ScoreAssumption
  <1>2. p \in Nat /\ q \in Nat /\ p * a = Unit /\ q * b = Unit
    BY ContributionIsExact
  <1> HIDE DEF a, b, p, q
  <1>3. q # 0
    BY <1>1, <1>2
  <1>4. q * a < q * b
    BY <1>1, <1>2, <1>3
  <1>5. q < p
    <2>1. p <= q => p * a <= q * a
      BY <1>1, <1>2
    <2>2. p * a \in Nat /\ q * a \in Nat /\ q * b \in Nat
      BY <1>1, <1>2
    <2>3. QED
      BY <1>2, <1>4, <2>1, <2>2
  <1>6. QED
    BY <1>2, <1>5 DEF Contribution, p, q, a, b

\* Two ranks of the first RRF_K contribute more than any one.
LEMMA TwoBeatOne ==
  ASSUME NEW r \in 0..MaxRank, NEW s \in 0..MaxRank, r < RRF_K, s < RRF_K, NEW t \in Nat
  PROVE  Contribution(10, t) < Contribution(10, r) + Contribution(10, s)
  <1> DEFINE C == Unit \div RRF_K
  <1>1. RRF_K \in Nat \ {0} /\ Unit \in Nat \ {0} /\ 0 \in 0..MaxRank /\ RRF_K + 0 = RRF_K
    BY ScoreAssumption
  <1>2. C \in Nat /\ C * RRF_K = Unit
    BY <1>1, ContributionIsExact
  <1>3. ASSUME NEW u \in 0..MaxRank, u < RRF_K
        PROVE  C < 2 * (Unit \div (RRF_K + u))
    <2> DEFINE a == RRF_K + u
               p == Unit \div a
    <2>1. p \in Nat /\ p * a = Unit
      BY ContributionIsExact
    <2>2. a \in Nat /\ a < 2 * RRF_K
      BY <1>1, <1>3
    <2> HIDE DEF a, p, C
    <2>3. p # 0
      BY <1>1, <2>1, <2>2
    <2>4. p * a < p * (2 * RRF_K)
      BY <1>1, <2>1, <2>2, <2>3
    <2>5. p * (2 * RRF_K) = (2 * p) * RRF_K
      BY <1>1, <2>1
    <2>6. C * RRF_K < (2 * p) * RRF_K
      BY <1>2, <2>1, <2>4, <2>5
    <2>7. 2 * p <= C => (2 * p) * RRF_K <= C * RRF_K
      BY <1>1, <1>2, <2>1
    <2>8. C * RRF_K \in Nat /\ (2 * p) * RRF_K \in Nat
      BY <1>1, <1>2, <2>1
    <2>9. C < 2 * p
      BY <1>2, <2>1, <2>6, <2>7, <2>8
    <2>10. QED
      BY <2>9 DEF p, a
  <1>4. Contribution(10, t) <= Contribution(10, 0) /\ Contribution(10, t) \in Nat
    <2> DEFINE ten == 10
               zero == 0
    <2>1. ten \in Nat /\ zero \in Nat /\ zero <= t
      OBVIOUS
    <2> HIDE DEF ten, zero
    <2>2. Contribution(ten, t) <= Contribution(ten, zero) /\ Contribution(ten, t) \in Nat
      BY <2>1, ContributionFalls
    <2>3. QED
      BY <2>2 DEF ten, zero
  <1>5. Contribution(10, 0) = 10 * C
    BY <1>1 DEF Contribution
  <1>6. Unit \div (RRF_K + r) \in Nat /\ Unit \div (RRF_K + s) \in Nat
    BY ContributionIsExact
  <1>7. C < 2 * (Unit \div (RRF_K + r)) /\ C < 2 * (Unit \div (RRF_K + s))
    BY <1>3
  <1> HIDE DEF C
  <1>8. QED
    BY <1>2, <1>4, <1>5, <1>6, <1>7 DEF Contribution

\* The rank of what is ranked.
LEMMA RankInFacts ==
  ASSUME NEW A, NEW ranking \in Seq(A), NEW x, Contains(ranking, x)
  PROVE  /\ RankIn(ranking, x) \in Nat /\ RankIn(ranking, x) < Len(ranking)
         /\ ranking[RankIn(ranking, x) + 1] = x
  <1> DEFINE I == {i \in 1..Len(ranking) : ranking[i] = x}
  <1>1. RankIn(ranking, x) = Min(I) - 1
    BY DEF RankIn, SelectInSeq, Contains
  <1>2. I \in SUBSET Nat /\ I # {}
    BY DEF Contains
  <1>3. Min(I) \in I
    BY <1>2, MinOf
  <1>4. QED
    BY <1>1, <1>3

-----------------------------------------------------------------------------
(* Fusion.                                                                 *)

Lists(rankings, x) == {l \in DOMAIN rankings : Contains(rankings[l], x)}

\* What the lists add to x.
ScoreIn(rankings, x) ==
  SumFunction([l \in Lists(rankings, x) |-> Contribution(10, RankIn(rankings[l], x))])

LEMMA ScoreFacts ==
  ASSUME NEW A, NEW rankings \in Seq(Seq(A)), NEW x
  PROVE  /\ Lists(rankings, x) \in SUBSET DOMAIN rankings /\ IsFiniteSet(Lists(rankings, x))
         /\ \A l \in Lists(rankings, x) : /\ RankIn(rankings[l], x) \in Nat
                                          /\ Contribution(10, RankIn(rankings[l], x)) \in Nat
         /\ ScoreIn(rankings, x) \in Nat
  <1>1. Lists(rankings, x) \in SUBSET DOMAIN rankings /\ IsFiniteSet(Lists(rankings, x))
    BY DomainIsFinite, FS_Subset DEF Lists
  <1>2. ASSUME NEW l \in Lists(rankings, x)
        PROVE  RankIn(rankings[l], x) \in Nat /\ Contribution(10, RankIn(rankings[l], x)) \in Nat
    <2> DEFINE r == RankIn(rankings[l], x)
               ten == 10
    <2>1. r \in Nat
      BY <1>1, RankInFacts DEF Lists
    <2>2. ten \in Nat /\ r <= r
      BY <2>1
    <2> HIDE DEF r, ten
    <2>3. Contribution(ten, r) \in Nat
      BY ONLY <2>1, <2>2, ContributionFalls
    <2>4. QED
      BY <2>1, <2>3 DEF r, ten
  <1>3. ScoreIn(rankings, x) \in Nat
    <2> DEFINE D == Lists(rankings, x)
               f == [l \in D |-> Contribution(10, RankIn(rankings[l], x))]
    <2>1. f \in [D -> Nat]
      BY <1>2
    <2> HIDE DEF f
    <2>2. SumFunction(f) \in Nat
      BY <1>1, <2>1, SumIsNat
    <2>3. QED
      BY <2>2 DEF ScoreIn, f
  <1>4. QED
    BY <1>1, <1>2, <1>3

\* Fusion lists what some list has, each once, by what the lists add to it.
LEMMA FusionFacts ==
  ASSUME NEW A, NEW rankings \in Seq(Seq(A))
  PROVE  LET fused == reciprocal_rank_fusion(rankings)
         IN  /\ fused \in Seq(A)
             /\ ToSet(fused) = {x \in A : Lists(rankings, x) # {}}
             /\ \A i, j \in DOMAIN fused : i < j =>
                  /\ fused[i] # fused[j]
                  /\ ScoreIn(rankings, fused[j]) <= ScoreIn(rankings, fused[i])
  <1> DEFINE flat == FlattenSeq(rankings)
             seen == FirstSeen(flat)
             score == [i \in DOMAIN seen |-> ScoreIn(rankings, seen[i])]
             ahead == Greater(score)
             fused == BestFirst(seen, ahead)
             n == Len(seen)
  <1>1. fused = reciprocal_rank_fusion(rankings)
    BY DEF reciprocal_rank_fusion, ScoreIn, Lists
  <1>2. flat \in Seq(A) /\ ToSet(flat) = {x \in A : \E l \in DOMAIN rankings : x \in ToSet(rankings[l])}
    BY FlattenFacts
  <1> HIDE DEF flat
  <1>3. /\ seen \in Seq(A) /\ ToSet(seen) = ToSet(flat)
        /\ \A i, j \in DOMAIN seen : seen[i] = seen[j] => i = j
    BY <1>2, FirstSeenFacts
  <1> HIDE DEF seen
  <1>4. DOMAIN seen = 1..n /\ n \in Nat
    BY <1>3
  <1>5. score \in [1..n -> Int] /\ DOMAIN score = 1..n
    <2>1. \A i \in DOMAIN seen : ScoreIn(rankings, seen[i]) \in Int
      BY ScoreFacts
    <2>2. QED
      BY <1>4, <2>1
  <1>6. \A i, j \in 1..n : <<i, j>> \in ahead <=> score[i] > score[j]
    BY <1>5 DEF Greater
  <1>7. Weak(ahead, DOMAIN seen)
    <2> HIDE DEF score
    <2>1. Weak(Greater(score), 1..n)
      BY <1>4, <1>5, GreaterIsWeak
    <2>2. QED
      BY <1>4, <2>1
  <1> HIDE DEF ahead
  <1>8. /\ fused \in Seq(A) /\ Len(fused) = n
        /\ \E place : Permutes(place, fused, seen, ahead)
    BY <1>3, <1>7, BestFirstSorts
  <1>9. PICK place : Permutes(place, fused, seen, ahead)
    BY <1>8
  <1> HIDE DEF fused
  <1>10. DOMAIN fused = 1..n
    BY <1>4, <1>8
  <1>11. ToSet(fused) = ToSet(seen)
    <2>1. \A k \in 1..n : place[k] \in 1..n /\ fused[k] = seen[place[k]]
      BY <1>4, <1>9 DEF Permutes
    <2>2. \A i \in 1..n : \E k \in 1..n : place[k] = i
      BY <1>4, <1>9 DEF Permutes
    <2>3. ASSUME NEW i \in 1..n PROVE \E k \in 1..n : fused[k] = seen[i]
      <3>1. PICK k \in 1..n : place[k] = i
        BY ONLY <2>2
      <3>2. fused[k] = seen[i]
        BY ONLY <2>1, <3>1
      <3>3. QED
        BY ONLY <3>2
    <2>4. ASSUME NEW k \in 1..n PROVE \E i \in 1..n : fused[k] = seen[i]
      BY ONLY <2>1
    <2>5. ToSet(fused) = {fused[k] : k \in 1..n} /\ ToSet(seen) = {seen[i] : i \in 1..n}
      BY ONLY <1>4, <1>10 DEF ToSet
    <2>6. QED
      BY ONLY <2>3, <2>4, <2>5
  <1>12. ToSet(fused) = {x \in A : Lists(rankings, x) # {}}
    <2>1. ASSUME NEW x \in A, NEW l \in DOMAIN rankings
          PROVE  x \in ToSet(rankings[l]) <=> Contains(rankings[l], x)
      BY DEF ToSet, Contains
    <2>2. QED
      BY <1>2, <1>3, <1>11, <2>1 DEF Lists
  <1>13. ASSUME NEW i \in 1..n, NEW j \in 1..n, i < j
         PROVE  /\ fused[i] # fused[j]
                /\ ScoreIn(rankings, fused[j]) <= ScoreIn(rankings, fused[i])
    <2>1. /\ place[i] \in 1..n /\ place[j] \in 1..n /\ place[i] # place[j]
          /\ fused[i] = seen[place[i]] /\ fused[j] = seen[place[j]]
          /\ <<place[j], place[i]>> \notin ahead
      BY <1>4, <1>9, <1>13 DEF Permutes
    <2>2. fused[i] # fused[j]
      BY <1>3, <1>4, <2>1
    <2>3. ~(score[place[j]] > score[place[i]])
      BY <1>6, <2>1
    <2>4. /\ score[place[i]] = ScoreIn(rankings, fused[i])
          /\ score[place[j]] = ScoreIn(rankings, fused[j])
      BY <1>4, <2>1
    <2>5. ScoreIn(rankings, fused[i]) \in Nat /\ ScoreIn(rankings, fused[j]) \in Nat
      BY ScoreFacts
    <2>6. QED
      BY <2>2, <2>3, <2>4, <2>5
  <1>14. QED
    BY <1>1, <1>8, <1>10, <1>12, <1>13

\* What two lists have among their first RRF_K scores more than what one list has.
LEMMA TwoListsBeatOne ==
  ASSUME NEW A, NEW rankings \in Seq(Seq(A)), NEW x, NEW y,
         \A l \in DOMAIN rankings : Len(rankings[l]) <= MaxRank + 1,
         NEW l \in Lists(rankings, y), NEW m \in Lists(rankings, y), l # m,
         RankIn(rankings[l], y) < RRF_K, RankIn(rankings[m], y) < RRF_K,
         NEW k, Lists(rankings, x) = {k}
  PROVE  ScoreIn(rankings, x) < ScoreIn(rankings, y)
  <1> DEFINE C(r) == Contribution(10, r)
             X == Lists(rankings, x)
             Y == Lists(rankings, y)
             fx == [n \in X |-> C(RankIn(rankings[n], x))]
             fy == [n \in Y |-> C(RankIn(rankings[n], y))]
             E == Y \ {l}
             fe == [n \in E |-> fy[n]]
             F == E \ {m}
             ff == [n \in F |-> fe[n]]
  <1>1. /\ X \in SUBSET DOMAIN rankings /\ IsFiniteSet(X)
        /\ Y \in SUBSET DOMAIN rankings /\ IsFiniteSet(Y)
        /\ \A n \in X : RankIn(rankings[n], x) \in Nat
        /\ \A n \in Y : RankIn(rankings[n], y) \in Nat
        /\ fx \in [X -> Nat] /\ fy \in [Y -> Nat]
    BY ScoreFacts
  <1>2. RankIn(rankings[l], y) \in 0..MaxRank /\ RankIn(rankings[m], y) \in 0..MaxRank
    <2>1. ASSUME NEW n \in Y PROVE RankIn(rankings[n], y) \in 0..MaxRank
      <3>1. n \in DOMAIN rankings /\ rankings[n] \in Seq(A) /\ Contains(rankings[n], y)
        BY DEF Lists
      <3>2. RankIn(rankings[n], y) \in Nat /\ RankIn(rankings[n], y) < Len(rankings[n])
        BY <3>1, RankInFacts
      <3>3. Len(rankings[n]) \in Nat /\ Len(rankings[n]) <= MaxRank + 1 /\ MaxRank \in Nat
        BY <3>1, ScoreAssumption
      <3>4. QED
        BY <3>2, <3>3
    <2>2. QED
      BY <2>1
  <1>3. k \in X /\ RankIn(rankings[k], x) \in Nat
    BY <1>1
  <1>4. C(RankIn(rankings[k], x)) < C(RankIn(rankings[l], y)) + C(RankIn(rankings[m], y))
    BY <1>2, <1>3, TwoBeatOne
  <1>5. ScoreIn(rankings, x) = SumFunction(fx) /\ ScoreIn(rankings, y) = SumFunction(fy)
    BY DEF ScoreIn
  <1>6. /\ fx[k] = C(RankIn(rankings[k], x)) /\ fy[l] = C(RankIn(rankings[l], y))
        /\ fe[m] = C(RankIn(rankings[m], y))
    BY <1>3
  <1> HIDE DEF C, fx, fy
  <1>7. SumFunction(fx) = fx[k]
    <2> DEFINE rest == [n \in X \ {k} |-> fx[n]]
    <2>1. fx \in [X -> Int]
      BY <1>1
    <2>2. SumFunction(fx) = fx[k] + SumFunction(rest)
      BY ONLY <1>1, <1>3, <2>1, SumSplits
    <2>3. rest \in [{} -> Int]
      BY <1>1
    <2> HIDE DEF rest
    <2>4. SumFunction(rest) = 0
      BY <2>3, SumOfNone
    <2>5. fx[k] \in Nat
      BY <1>1, <1>3
    <2>6. QED
      BY <2>2, <2>4, <2>5
  <1>8. SumFunction(fy) = fy[l] + SumFunction(fe)
    <2>1. fy \in [Y -> Int]
      BY <1>1
    <2> HIDE DEF Y
    <2>2. l \in Y
      BY DEF Y
    <2>3. QED
      BY ONLY <1>1, <2>1, <2>2, SumSplits
  <1>9. IsFiniteSet(E) /\ m \in E /\ fe \in [E -> Int] /\ fe \in [E -> Nat]
    <2>1. E \in SUBSET Y
      OBVIOUS
    <2>2. IsFiniteSet(E)
      BY <1>1, <2>1, FS_Subset
    <2>3. QED
      BY <1>1, <2>2
  <1> HIDE DEF E, fe
  <1>10. SumFunction(fe) = fe[m] + SumFunction(ff)
    <2>1. IsFiniteSet(E) /\ m \in E /\ fe \in [E -> Int]
      BY <1>9
    <2>2. QED
      BY ONLY <2>1, SumSplits, ZenonT(60)
  <1>11. SumFunction(ff) \in Nat
    <2>1. F \in SUBSET E
      OBVIOUS
    <2>2. IsFiniteSet(F) /\ ff \in [F -> Nat]
      BY <1>9, <2>1, FS_Subset
    <2> HIDE DEF ff, F
    <2>3. QED
      BY <2>2, SumIsNat
  <1>12. fx[k] \in Nat /\ fy[l] \in Nat /\ fe[m] \in Nat
    BY <1>1, <1>3, <1>9
  <1> HIDE DEF ff
  <1>13. fx[k] < fy[l] + fe[m]
    BY <1>4, <1>6
  <1>14. QED
    BY <1>5, <1>7, <1>8, <1>10, <1>11, <1>12, <1>13

\* What is ahead in every list that has the other scores more.
LEMMA AheadEverywhere ==
  ASSUME NEW A, NEW rankings \in Seq(Seq(A)), NEW x, NEW y,
         \A l \in DOMAIN rankings : Len(rankings[l]) <= MaxRank + 1,
         Lists(rankings, x) # {},
         \A l \in Lists(rankings, x) :
           l \in Lists(rankings, y) /\ RankIn(rankings[l], y) < RankIn(rankings[l], x)
  PROVE  ScoreIn(rankings, x) < ScoreIn(rankings, y)
  <1> DEFINE C(r) == Contribution(10, r)
             X == Lists(rankings, x)
             Y == Lists(rankings, y)
             fx == [n \in X |-> C(RankIn(rankings[n], x))]
             fy == [n \in Y |-> C(RankIn(rankings[n], y))]
  <1>1. /\ IsFiniteSet(Y) /\ X \in SUBSET Y
        /\ fx \in [X -> Nat] /\ fy \in [Y -> Nat]
    BY ScoreFacts
  <1>2. ASSUME NEW n \in X PROVE fx[n] < fy[n]
    <2>1. n \in Y /\ RankIn(rankings[n], y) < RankIn(rankings[n], x)
      OBVIOUS
    <2>2. n \in DOMAIN rankings /\ rankings[n] \in Seq(A) /\ Contains(rankings[n], x)
      BY DEF Lists
    <2>3. RankIn(rankings[n], x) \in Nat /\ RankIn(rankings[n], x) < Len(rankings[n])
      BY <2>2, RankInFacts
    <2>4. RankIn(rankings[n], y) \in Nat
      BY <2>1, ScoreFacts
    <2>5. Len(rankings[n]) \in Nat /\ Len(rankings[n]) <= MaxRank + 1 /\ MaxRank \in Nat
      BY <2>2, ScoreAssumption
    <2>6. RankIn(rankings[n], x) \in 0..MaxRank /\ RankIn(rankings[n], y) \in 0..MaxRank
      BY <2>1, <2>3, <2>4, <2>5
    <2>7. C(RankIn(rankings[n], x)) < C(RankIn(rankings[n], y))
      BY <2>1, <2>6, ContributionDrops
    <2>8. QED
      BY <2>1, <2>7
  <1>3. ScoreIn(rankings, x) = SumFunction(fx) /\ ScoreIn(rankings, y) = SumFunction(fy)
    BY DEF ScoreIn
  <1>4. X # {}
    OBVIOUS
  <1> HIDE DEF X, Y, fx, fy
  <1>5. \A n \in X : fx[n] \in Nat /\ fy[n] \in Nat /\ fx[n] < fy[n]
    BY <1>1, <1>2
  <1>6. \A n \in X : fx[n] <= fy[n]
    BY <1>5
  <1>7. SumFunction(fx) < SumFunction(fy)
    BY <1>1, <1>4, <1>5, <1>6, SumsCompare
  <1>8. QED
    BY <1>3, <1>7

LEMMA TopFacts ==
  ASSUME NEW A, NEW seq \in Seq(A), NEW k \in Nat
  PROVE  /\ Top(k, seq) \in Seq(A)
         /\ Len(Top(k, seq)) <= k /\ Len(Top(k, seq)) <= Len(seq)
         /\ \A i \in 1..Len(Top(k, seq)) : Top(k, seq)[i] = seq[i]
         /\ Len(Top(k, seq)) < k => Len(Top(k, seq)) = Len(seq)
  <1> DEFINE m == Min({k, Len(seq)})
  <1>1. Len(seq) \in Nat
    OBVIOUS
  <1>2. m \in {k, Len(seq)} /\ m <= k /\ m <= Len(seq)
    <2> DEFINE S == {k, Len(seq)}
    <2>1. S \in SUBSET Nat /\ S # {} /\ k \in S /\ Len(seq) \in S
      BY <1>1
    <2> HIDE DEF S
    <2>2. Min(S) \in S /\ \A n \in S : Min(S) <= n
      BY <2>1, MinOf
    <2>3. m \in S /\ m <= k /\ m <= Len(seq)
      BY <2>1, <2>2 DEF S
    <2>4. QED
      BY <2>3 DEF S
  <1>3. Top(k, seq) = SubSeq(seq, 1, m)
    BY DEF Top
  <1> HIDE DEF m
  <1>4. m \in Nat /\ m <= Len(seq)
    BY <1>1, <1>2
  <1>5. /\ SubSeq(seq, 1, m) \in Seq(A) /\ Len(SubSeq(seq, 1, m)) = m
        /\ \A i \in 1..m : SubSeq(seq, 1, m)[i] = seq[i]
    BY <1>1, <1>4
  <1>6. QED
    BY <1>2, <1>3, <1>4, <1>5

-----------------------------------------------------------------------------
(* Buckets.                                                                *)

LEMMA Remainder ==
  ASSUME NEW a \in Nat, NEW b \in Nat \ {0}
  PROVE  /\ a \div b \in Nat /\ a % b \in Nat /\ a % b < b
         /\ a = (a \div b) * b + (a % b)
  <1>1. a \div b \in Nat /\ a % b \in Nat /\ a % b < b
    OBVIOUS
  <1>2. a = b * (a \div b) + (a % b)
    OBVIOUS
  <1>3. QED
    BY <1>1, <1>2

\* A bucket reaches half of its width to both sides.
LEMMA RoundFacts ==
  ASSUME NEW ts \in Nat
  PROVE  /\ RoundHalfEven(ts) \in Nat
         /\ 2 * ts <= 2 * (RoundHalfEven(ts) * Bucket) + Bucket
         /\ 2 * (RoundHalfEven(ts) * Bucket) <= 2 * ts + Bucket
  <1> DEFINE down == ts \div Bucket
             rem == ts % Bucket
  <1>1. Bucket \in Nat \ {0}
    BY ScoreAssumption
  <1>2. down \in Nat /\ rem \in Nat /\ rem < Bucket /\ ts = down * Bucket + rem
    BY <1>1, Remainder
  <1>3. \/ RoundHalfEven(ts) = down /\ 2 * rem <= Bucket
        \/ RoundHalfEven(ts) = down + 1 /\ 2 * rem >= Bucket
    <2> HIDE DEF down, rem
    <2>1. \/ RoundHalfEven(ts) = down /\ (2 * rem < Bucket \/ 2 * rem = Bucket)
          \/ RoundHalfEven(ts) = down + 1 /\ ~(2 * rem < Bucket)
      BY DEF RoundHalfEven, down, rem
    <2>2. QED
      BY <1>1, <1>2, <2>1
  <1> HIDE DEF down, rem
  <1>4. down * Bucket \in Nat /\ (down + 1) * Bucket = down * Bucket + Bucket
    BY <1>1, <1>2
  <1> DEFINE p == down * Bucket
  <1>5. CASE RoundHalfEven(ts) = down /\ 2 * rem <= Bucket
    <2>1. RoundHalfEven(ts) * Bucket = p /\ p \in Nat /\ ts = p + rem
      BY <1>2, <1>4, <1>5
    <2> HIDE DEF p
    <2>2. QED
      BY <1>1, <1>2, <1>5, <2>1
  <1>6. CASE RoundHalfEven(ts) = down + 1 /\ 2 * rem >= Bucket
    <2>1. RoundHalfEven(ts) * Bucket = p + Bucket /\ p \in Nat /\ ts = p + rem
      BY <1>2, <1>4, <1>6
    <2> HIDE DEF p
    <2>2. QED
      BY <1>1, <1>2, <1>6, <2>1
  <1>7. QED
    BY <1>3, <1>5, <1>6

LEMMA SameBucketIsNear ==
  ASSUME NEW s \in Nat, NEW t \in Nat, RoundHalfEven(s) = RoundHalfEven(t)
  PROVE  Apart(s, t) <= Bucket
  <1> DEFINE r == RoundHalfEven(s)
             p == r * Bucket
  <1>1. Bucket \in Nat /\ p \in Nat
    <2>1. r \in Nat /\ Bucket \in Nat
      BY ScoreAssumption, RoundFacts
    <2> HIDE DEF r
    <2>2. QED
      BY <2>1
  <1>2. /\ 2 * s <= 2 * p + Bucket /\ 2 * p <= 2 * s + Bucket
        /\ 2 * t <= 2 * p + Bucket /\ 2 * p <= 2 * t + Bucket
    BY RoundFacts
  <1> HIDE DEF p
  <1>3. QED
    BY <1>1, <1>2 DEF Apart

\* The candidates of a bucket, and the buckets there are.
LEMMA InBucketFacts ==
  ASSUME NEW A, NEW candidates \in Seq(A), NEW key
  PROVE  /\ InBucket(candidates, key) \in Seq(A)
         /\ ToSet(InBucket(candidates, key)) = {c \in ToSet(candidates) : bucket_key(c) = key}
  <1> DEFINE at == {i \in DOMAIN candidates : bucket_key(candidates[i]) = key}
  <1>1. at \in SUBSET DOMAIN candidates
    OBVIOUS
  <1>2. {candidates[i] : i \in at} = {c \in ToSet(candidates) : bucket_key(c) = key}
    BY DEF ToSet
  <1>3. InBucket(candidates, key) = Picked(candidates, at)
    BY DEF InBucket
  <1> HIDE DEF at
  <1>4. Picked(candidates, at) \in Seq(A) /\ ToSet(Picked(candidates, at)) = {candidates[i] : i \in at}
    BY <1>1, PickedFacts, PickedSet
  <1>5. QED
    BY <1>2, <1>3, <1>4

LEMMA BucketsFacts ==
  ASSUME NEW A, NEW candidates \in Seq(A)
  PROVE  LET keys == {bucket_key(c) : c \in ToSet(candidates)}
         IN  /\ Buckets(candidates) \in Seq(keys)
             /\ ToSet(Buckets(candidates)) = keys
             /\ \A i, j \in DOMAIN Buckets(candidates) :
                  Buckets(candidates)[i] = Buckets(candidates)[j] => i = j
  <1> DEFINE keys == {bucket_key(c) : c \in ToSet(candidates)}
             all == [i \in DOMAIN candidates |-> bucket_key(candidates[i])]
  <1>1. DOMAIN candidates = 1..Len(candidates) /\ Len(candidates) \in Nat
    OBVIOUS
  <1>2. all \in Seq(keys)
    BY <1>1 DEF ToSet
  <1>3. ToSet(all) = keys
    BY DEF ToSet
  <1>4. Buckets(candidates) = FirstSeen(all)
    BY DEF Buckets
  <1> HIDE DEF keys, all
  <1>5. /\ FirstSeen(all) \in Seq(keys) /\ ToSet(FirstSeen(all)) = ToSet(all)
        /\ \A i, j \in DOMAIN FirstSeen(all) : FirstSeen(all)[i] = FirstSeen(all)[j] => i = j
    BY <1>2, FirstSeenFacts
  <1>6. QED
    BY <1>3, <1>4, <1>5 DEF keys

\* Some window has a candidate at ts in the bucket.
FoundIn(answers, key, ts) ==
  \E w \in DOMAIN answers : \E c \in ToSet(answers[w]) : bucket_key(c) = key /\ c.row.ts = ts

\* A clip's hit is at a candidate of its bucket; each window that has one there counts once.
LEMMA BucketStateFacts ==
  ASSUME NEW R, NEW answers \in Seq(Seq([row : R, rank : Nat])), NEW key,
         NEW w0 \in DOMAIN answers, NEW c0 \in ToSet(answers[w0]), bucket_key(c0) = key
  PROVE  LET hit == bucket_state(answers, key)
             voters == {w \in DOMAIN answers : \E c \in ToSet(answers[w]) : bucket_key(c) = key}
         IN  /\ hit.video = key[1]
             /\ FoundIn(answers, key, hit.ts)
             /\ hit.coverage \in Nat /\ hit.quality \in Nat
             /\ hit.coverage = Cardinality(voters) /\ Len(hit.evidence) = hit.coverage
  <1> DEFINE C == [row : R, rank : Nat]
             voters == {w \in DOMAIN answers : \E c \in ToSet(answers[w]) : bucket_key(c) = key}
             lists == [w \in DOMAIN answers |-> InBucket(answers[w], key)]
             all == FlattenSeq(lists)
             n == Len(all)
             top == {i \in DOMAIN all : \A j \in DOMAIN all : all[i].rank <= all[j].rank}
             best == Min(top)
             voting == InOrder(Voters(answers, key))
             votes == [i \in DOMAIN voting |-> Anchor(answers[voting[i]], key)]
             quality == SumFunction([i \in DOMAIN votes |-> Contribution(1, votes[i].rank)])
             evidence == [i \in DOMAIN votes |-> votes[i].row]
  <1>1. bucket_state(answers, key) =
          [video |-> key[1], ts |-> all[best].row.ts, coverage |-> Len(votes),
           quality |-> quality, evidence |-> evidence]
    BY DEF bucket_state
  <1>2. ASSUME NEW w \in DOMAIN answers
        PROVE  /\ InBucket(answers[w], key) \in Seq(C)
               /\ ToSet(InBucket(answers[w], key)) = {c \in ToSet(answers[w]) : bucket_key(c) = key}
    <2>1. answers[w] \in Seq(C)
      OBVIOUS
    <2> HIDE DEF C
    <2>2. QED
      BY <2>1, InBucketFacts
  <1>3. DOMAIN answers = 1..Len(answers) /\ Len(answers) \in Nat /\ IsFiniteSet(DOMAIN answers)
    BY DomainIsFinite
  <1>4. lists \in Seq(Seq(C)) /\ DOMAIN lists = DOMAIN answers
    <2> HIDE DEF C
    <2>1. QED
      BY <1>2, <1>3
  <1>5. /\ all \in Seq(C)
        /\ ToSet(all) = {c \in C : \E w \in DOMAIN answers : c \in ToSet(lists[w])}
    <2> HIDE DEF lists, C
    <2>1. QED
      BY <1>4, FlattenFacts
  <1>6. \A c : c \in ToSet(all) =>
          \E w \in voters : c \in ToSet(answers[w]) /\ bucket_key(c) = key
    <2> SUFFICES ASSUME NEW c \in ToSet(all)
                 PROVE  \E w \in voters : c \in ToSet(answers[w]) /\ bucket_key(c) = key
      OBVIOUS
    <2>1. PICK w \in DOMAIN answers : c \in ToSet(lists[w])
      <3> HIDE DEF all, lists, C
      <3>1. QED
        BY <1>5
    <2>2. lists[w] = InBucket(answers[w], key)
      OBVIOUS
    <2>3. c \in ToSet(answers[w]) /\ bucket_key(c) = key
      <3> HIDE DEF all, lists
      <3>1. QED
        BY <1>2, <2>1, <2>2
    <2>4. QED
      BY <2>3
  <1>7. c0 \in ToSet(all)
    <2>1. c0 \in ToSet(lists[w0])
      BY <1>2
    <2>2. c0 \in C
      <3>1. answers[w0] \in Seq(C)
        OBVIOUS
      <3> HIDE DEF C
      <3>2. QED
        BY <3>1 DEF ToSet
    <2> HIDE DEF all, lists, C
    <2>3. QED
      BY <1>5, <2>1, <2>2
  <1> HIDE DEF all
  <1>8. best \in DOMAIN all
    <2> DEFINE ranks == {all[i].rank : i \in DOMAIN all}
    <2>1. ranks \in SUBSET Nat
      <3>1. \A i \in DOMAIN all : all[i] \in C
        <4> HIDE DEF C
        <4>1. QED
          BY <1>5
      <3>2. QED
        BY <3>1
    <2>2. ranks # {}
      BY <1>7 DEF ToSet
    <2>3. PICK r \in ranks : \A s \in ranks : r <= s
      <3> HIDE DEF ranks
      <3>1. QED
        BY <2>1, <2>2, LeastNumber
    <2>4. PICK i \in DOMAIN all : all[i].rank = r
      BY <2>3
    <2>5. i \in top
      BY <2>3, <2>4
    <2>6. top \in SUBSET Nat
      BY <1>5, DomainIsFinite
    <2> HIDE DEF top
    <2>7. best \in top
      BY <2>5, <2>6, MinOf
    <2>8. QED
      BY <2>7 DEF top
  <1>9. \E w \in DOMAIN answers : \E c \in ToSet(answers[w]) : bucket_key(c) = key /\ all[best].row.ts = c.row.ts
    <2>1. all[best] \in ToSet(all)
      BY <1>8 DEF ToSet
    <2> HIDE DEF best
    <2>2. QED
      BY <1>6, <2>1
  <1>10. Voters(answers, key) = voters
    <2>1. ASSUME NEW w \in DOMAIN answers
          PROVE  InBucket(answers[w], key) # <<>> <=> \E c \in ToSet(answers[w]) : bucket_key(c) = key
      <3> DEFINE b == InBucket(answers[w], key)
      <3>1. b \in Seq(C) /\ ToSet(b) = {c \in ToSet(answers[w]) : bucket_key(c) = key}
        BY <1>2
      <3> HIDE DEF b, C
      <3>2. b # <<>> <=> ToSet(b) # {}
        <4>1. b \in Seq(C)
          BY <3>1
        <4>2. b # <<>> <=> DOMAIN b # {}
          <5>1. DOMAIN b = 1..Len(b) /\ Len(b) \in Nat
            BY ONLY <4>1
          <5>2. b = <<>> => DOMAIN b = {}
            OBVIOUS
          <5>3. b # <<>> => Len(b) # 0
            BY ONLY <4>1
          <5>4. Len(b) # 0 => 1 \in DOMAIN b
            BY ONLY <5>1
          <5>5. QED
            BY ONLY <5>2, <5>3, <5>4
        <4>3. QED
          BY ONLY <4>2 DEF ToSet
      <3>3. QED
        BY <3>1, <3>2 DEF b
    <2>2. QED
      BY <2>1 DEF Voters
  <1> DEFINE V == Voters(answers, key)
             k == Cardinality(V)
  <1>11. V \in SUBSET Nat /\ IsFiniteSet(V) /\ V \in SUBSET DOMAIN answers
    <2>1. V \in SUBSET DOMAIN answers
      BY DEF Voters
    <2>2. IsFiniteSet(V)
      BY <1>3, <2>1, FS_Subset
    <2>3. QED
      BY <1>3, <2>1, <2>2
  <1>12. /\ DOMAIN voting = 1..k /\ k \in Nat
         /\ \A i \in 1..k : voting[i] \in V
    <2> HIDE DEF V
    <2>1. InOrder(V) \in Seq(V) /\ Len(InOrder(V)) = k /\ k \in Nat /\ DOMAIN InOrder(V) = 1..k
      BY <1>11, Sorted
    <2>2. QED
      BY <2>1 DEF V
  <1> HIDE DEF voting
  <1>13. ASSUME NEW i \in 1..k PROVE votes[i] \in C
    <2>1. voting[i] \in DOMAIN answers /\ InBucket(answers[voting[i]], key) # <<>>
      BY <1>12 DEF Voters
    <2>2. InBucket(answers[voting[i]], key) \in Seq(C)
      BY <1>2, <2>1
    <2>3. Head(InBucket(answers[voting[i]], key)) \in C
      <3> HIDE DEF C
      <3>1. QED
        BY <2>1, <2>2
    <2>4. votes[i] = Head(InBucket(answers[voting[i]], key))
      BY <1>12 DEF Anchor
    <2>5. QED
      BY <2>3, <2>4
  <1>14. DOMAIN votes = 1..k /\ Len(votes) = k /\ Len(evidence) = k
    <2>1. DOMAIN votes = 1..k /\ DOMAIN evidence = 1..k
      BY <1>12
    <2>2. QED
      BY <1>12, <2>1
  <1> HIDE DEF votes
  <1>15. quality \in Nat
    <2> DEFINE one == 1
               f == [i \in 1..k |-> Contribution(one, votes[i].rank)]
    <2>1. one \in Nat
      OBVIOUS
    <2>2. f \in [1..k -> Nat]
      <3>1. ASSUME NEW i \in 1..k PROVE Contribution(one, votes[i].rank) \in Nat
        <4>1. votes[i].rank \in Nat
          BY <1>13
        <4>2. votes[i].rank <= votes[i].rank
          BY <4>1
        <4> HIDE DEF one
        <4>3. QED
          BY <2>1, <4>1, <4>2, ContributionFalls
      <3>2. QED
        BY <3>1
    <2>3. IsFiniteSet(1..k)
      BY <1>12, FS_Interval
    <2>4. SumFunction(f) \in Nat
      <3> HIDE DEF f, k
      <3>1. QED
        BY <2>2, <2>3, SumIsNat
    <2>5. QED
      BY <1>14, <2>4
  <1> HIDE DEF quality, evidence, best
  <1>16. k = Cardinality(voters)
    BY <1>10
  <1>17. Len(votes) \in Nat /\ Len(votes) = Cardinality(voters) /\ Len(evidence) = Len(votes)
    BY <1>12, <1>14, <1>16
  <1> HIDE DEF voters
  <1>18. FoundIn(answers, key, all[best].row.ts)
    BY <1>9 DEF FoundIn
  <1>19. LET hit == bucket_state(answers, key)
         IN  /\ hit.video = key[1]
             /\ FoundIn(answers, key, hit.ts)
             /\ hit.coverage \in Nat /\ hit.quality \in Nat
             /\ hit.coverage = Cardinality(voters) /\ Len(hit.evidence) = hit.coverage
    BY <1>1, <1>15, <1>17, <1>18
  <1>20. QED
    BY <1>19 DEF voters

LEMMA WeightsAreNat ==
  ASSUME NEW scene, NEW m \in Modalities
  PROVE  profile(scene)[m] \in Nat
  <1>1. DEFAULT_PROFILE[m] \in Nat
    BY DEF DEFAULT_PROFILE, Tenths, Modalities
  <1>2. ASSUME scene \in DOMAIN SCENE_WEIGHT_PROFILES
        PROVE  SCENE_WEIGHT_PROFILES[scene][m] \in Nat
    BY <1>2 DEF SCENE_WEIGHT_PROFILES, Tenths, Modalities
  <1>3. QED
    BY <1>1, <1>2 DEF profile

-----------------------------------------------------------------------------
(* The windows of a clip.                                                 *)

Spoken(clip) == {i \in DOMAIN clip : clip[i] = "speech"}

\* The segments that go on into the next one.
GoingOn(clip) == {i \in Spoken(clip) : i + 1 \in Spoken(clip)}

Asked(clip) == {{n} : n \in Spoken(clip)} \cup {{n, n + 1} : n \in GoingOn(clip)}

LEMMA AskedAreCounted ==
  ASSUME NEW A, NEW clip \in Seq(A)
  PROVE  /\ IsFiniteSet(Spoken(clip)) /\ IsFiniteSet(GoingOn(clip))
         /\ Cardinality(Asked(clip)) = Cardinality(Spoken(clip)) + Cardinality(GoingOn(clip))
  <1> DEFINE S == Spoken(clip)
             G == GoingOn(clip)
             ones == {{n} : n \in S}
             twos == {{n, n + 1} : n \in G}
             f == [n \in S |-> {n}]
             g == [n \in G |-> {n, n + 1}]
  <1>1. S \in SUBSET Nat /\ IsFiniteSet(S) /\ G \in SUBSET S
    <2>1. S \in SUBSET DOMAIN clip
      BY DEF Spoken
    <2>2. IsFiniteSet(DOMAIN clip) /\ DOMAIN clip \in SUBSET Nat
      BY DomainIsFinite
    <2>3. G \in SUBSET S
      BY DEF GoingOn
    <2> HIDE DEF S, G
    <2>4. QED
      BY <2>1, <2>2, <2>3, FS_Subset
  <1> HIDE DEF S, G
  <1>2. IsFiniteSet(G) /\ G \in SUBSET Nat
    BY <1>1, FS_Subset
  <1>3. IsFiniteSet(ones) /\ Cardinality(ones) = Cardinality(S)
    <2>1. f \in [S -> ones]
      OBVIOUS
    <2>2. \A x, y \in S : f[x] = f[y] => x = y
      <3> SUFFICES ASSUME NEW x \in S, NEW y \in S, {x} = {y} PROVE x = y
        OBVIOUS
      <3>1. QED
        OBVIOUS
    <2>3. \A t \in ones : \E x \in S : f[x] = t
      OBVIOUS
    <2> HIDE DEF f, ones
    <2>4. QED
      BY <1>1, <2>1, <2>2, <2>3, SameSize
  <1>4. IsFiniteSet(twos) /\ Cardinality(twos) = Cardinality(G)
    <2>1. g \in [G -> twos]
      OBVIOUS
    <2>2. \A x, y \in G : g[x] = g[y] => x = y
      <3> SUFFICES ASSUME NEW x \in G, NEW y \in G, {x, x + 1} = {y, y + 1} PROVE x = y
        OBVIOUS
      <3>1. x \in Nat /\ y \in Nat
        BY <1>2
      <3>2. x \in {y, y + 1} /\ y \in {x, x + 1}
        OBVIOUS
      <3>3. (x = y \/ x = y + 1) /\ (y = x \/ y = x + 1)
        BY <3>2
      <3>4. QED
        BY <3>1, <3>3
    <2>3. \A t \in twos : \E x \in G : g[x] = t
      OBVIOUS
    <2> HIDE DEF g, twos
    <2>4. QED
      BY <1>2, <2>1, <2>2, <2>3, SameSize
  <1>5. ones \cap twos = {}
    <2> SUFFICES ASSUME NEW x \in S, NEW y \in G, {x} = {y, y + 1} PROVE FALSE
      OBVIOUS
    <2>1. y \in Nat /\ y = x /\ y + 1 = x
      BY <1>2
    <2>2. QED
      BY <2>1
  <1>6. Cardinality(ones \cup twos) = Cardinality(S) + Cardinality(G)
    <2> HIDE DEF ones, twos
    <2>1. /\ Cardinality(ones \cup twos) =
               Cardinality(ones) + Cardinality(twos) - Cardinality(ones \cap twos)
          /\ Cardinality(ones \cap twos) = 0
      BY <1>3, <1>4, <1>5, FS_Union, FS_EmptySet
    <2>2. Cardinality(S) \in Nat /\ Cardinality(G) \in Nat
      BY <1>1, <1>2, FS_CardinalityType
    <2>3. QED
      BY <1>3, <1>4, <2>1, <2>2
  <1>7. QED
    BY <1>1, <1>2, <1>6 DEF Asked, S, G

\* A window for each segment that is no filler, for each two said in one go, and for all.
LEMMA WindowsAreCounted ==
  ASSUME NEW A, NEW clip \in Seq(A)
  PROVE  Len(build_windows(clip)) = Cardinality(Asked(clip)) + (IF Asked(clip) = {} THEN 0 ELSE 1)
  <1> DEFINE S == Spoken(clip)
             G == GoingOn(clip)
             clean == InOrder(S)
             k == Cardinality(S)
             D == DOMAIN clean \ {Len(clean)}
             next == [j \in D |-> <<clean[j], clean[j + 1]>>]
             J == {j \in D : clean[j + 1] = clean[j] + 1}
             ones == [j \in DOMAIN clean |-> <<clean[j]>>]
             pairs == Picked(next, J)
  <1>1. build_windows(clip) = IF clean = <<>> THEN <<>> ELSE ones \o pairs \o <<clean>>
    BY DEF build_windows, Spoken
  <1>2. /\ IsFiniteSet(S) /\ IsFiniteSet(G) /\ S \in SUBSET Nat
        /\ Cardinality(Asked(clip)) = k + Cardinality(G)
    <2>1. S \in SUBSET DOMAIN clip
      BY DEF Spoken
    <2>2. QED
      BY <2>1, AskedAreCounted, DomainIsFinite
  <1>3. Asked(clip) = {} <=> S = {}
    BY DEF Asked, GoingOn
  <1>4. \A n : n \in G <=> n \in S /\ n + 1 \in S
    BY DEF GoingOn
  <1> HIDE DEF S, G
  <1>5. /\ clean \in Seq(S) /\ Len(clean) = k /\ k \in Nat /\ DOMAIN clean = 1..k
        /\ \A i, j \in 1..k : i < j => clean[i] < clean[j]
        /\ \A x \in S : \E i \in 1..k : clean[i] = x
        /\ \A i \in 1..k : clean[i] \in Nat /\ clean[i] \in S
    <2>1. /\ clean \in Seq(S) /\ Len(clean) = k /\ k \in Nat /\ DOMAIN clean = 1..k
          /\ \A i, j \in 1..k : i < j => clean[i] < clean[j]
          /\ \A x \in S : \E i \in 1..k : clean[i] = x
      BY <1>2, Sorted
    <2> HIDE DEF clean, k
    <2>2. \A i \in 1..k : clean[i] \in S
      BY <2>1
    <2>3. QED
      BY <1>2, <2>1, <2>2
  <1>6. k = 0 <=> S = {}
    BY <1>2, FS_EmptySet
  <1> HIDE DEF clean, k
  <1>7. CASE S = {}
    <2>1. clean = <<>> /\ k = 0
      BY <1>5, <1>6, <1>7
    <2>2. Cardinality(Asked(clip)) = 0
      BY <1>3, <1>7, FS_EmptySet
    <2>3. QED
      BY <1>1, <1>3, <1>7, <2>1, <2>2
  <1>8. CASE S # {}
    <2>1. k >= 1 /\ clean # <<>>
      BY <1>5, <1>6, <1>8
    <2>2. D = 1..(k - 1)
      BY <1>5, <2>1
    <2>3. next \in Seq(Nat \X Nat) /\ DOMAIN next = D
      <3>1. \A j \in 1..(k - 1) : <<clean[j], clean[j + 1]>> \in Nat \X Nat
        BY <1>5, <2>1
      <3>2. next \in [1..(k - 1) -> Nat \X Nat]
        BY <2>2, <3>1
      <3> HIDE DEF next
      <3>3. QED
        BY <1>5, <2>1, <2>2, <3>2
    <2>4. J \in SUBSET DOMAIN next
      BY <2>3
    <2>5. pairs \in Seq(Nat \X Nat) /\ Len(pairs) = Cardinality(J) /\ Cardinality(J) \in Nat
      <3> HIDE DEF next, J
      <3>1. QED
        BY <2>3, <2>4, PickedFacts
    <2>6. Cardinality(J) = Cardinality(G)
      <3> DEFINE f == [j \in J |-> clean[j]]
      <3>1. ASSUME NEW j \in J PROVE j \in 1..k /\ j + 1 \in 1..k /\ clean[j] \in G
        <4>1. j \in 1..(k - 1) /\ clean[j + 1] = clean[j] + 1
          BY <2>2
        <4>2. j \in 1..k /\ j + 1 \in 1..k
          BY <1>5, <4>1
        <4>3. clean[j] \in S /\ clean[j] + 1 \in S
          BY <1>5, <4>1, <4>2
        <4>4. QED
          BY <1>4, <4>2, <4>3
      <3>2. f \in [J -> G]
        BY <3>1
      <3>3. \A i, j \in J : f[i] = f[j] => i = j
        <4> SUFFICES ASSUME NEW i \in J, NEW j \in J, clean[i] = clean[j], i # j PROVE FALSE
          OBVIOUS
        <4>1. i \in 1..k /\ j \in 1..k
          BY <3>1
        <4>2. i < j \/ j < i
          BY <1>5, <4>1
        <4>3. clean[i] < clean[j] \/ clean[j] < clean[i]
          BY <1>5, <4>1, <4>2
        <4>4. clean[i] \in Nat /\ clean[j] \in Nat
          BY <1>5, <4>1
        <4>5. QED
          BY <4>3, <4>4
      <3>4. ASSUME NEW n \in G PROVE \E j \in J : f[j] = n
        <4>1. n \in S /\ n + 1 \in S /\ n \in Nat
          BY <1>2, <1>4
        <4>2. PICK j \in 1..k : clean[j] = n
          BY <1>5, <4>1
        <4>3. PICK m \in 1..k : clean[m] = n + 1
          BY <1>5, <4>1
        <4>4. j \in Nat /\ m \in Nat /\ k \in Nat /\ j <= k /\ m <= k /\ 1 <= j
          BY <1>5
        <4>5. ~(m < j) /\ m # j
          BY <1>5, <4>1, <4>2, <4>3
        <4>6. j + 1 \in 1..k
          BY <4>4, <4>5
        <4>7. ~(j + 1 < m)
          <5> SUFFICES ASSUME j + 1 < m PROVE FALSE
            OBVIOUS
          <5>1. clean[j] < clean[j + 1] /\ clean[j + 1] < clean[m] /\ clean[j + 1] \in Nat
            BY <1>5, <4>4, <4>6
          <5>2. QED
            BY <4>1, <4>2, <4>3, <5>1
        <4>8. m = j + 1
          BY <4>4, <4>5, <4>7
        <4>9. j \in 1..(k - 1)
          BY <4>4, <4>6
        <4>10. j \in J
          BY <2>2, <4>2, <4>3, <4>8, <4>9
        <4>11. QED
          BY <4>2, <4>10
      <3>5. IsFiniteSet(J)
        <4>1. J \in SUBSET DOMAIN next /\ IsFiniteSet(DOMAIN next)
          BY <2>3, <2>4, DomainIsFinite
        <4> HIDE DEF J, next
        <4>2. QED
          BY <4>1, FS_Subset
      <3> HIDE DEF f, J
      <3>6. QED
        BY <3>2, <3>3, <3>4, <3>5, SameSize
    <2>7. DOMAIN ones = 1..k /\ ones \in Seq(Seq(Nat))
      <3>1. \A j \in 1..k : <<clean[j]>> \in Seq(Nat)
        BY <1>5
      <3>2. ones \in [1..k -> Seq(Nat)]
        BY <1>5, <3>1
      <3> HIDE DEF ones
      <3>3. QED
        BY <1>5, <3>2
    <2>8. Len(ones) = k
      BY <1>5, <2>7
    <2> HIDE DEF ones, pairs
    <2>9. Len(ones \o pairs \o <<clean>>) = k + Cardinality(J) + 1
      <3> DEFINE W == Seq(Nat) \cup (Nat \X Nat)
      <3>1. ones \in Seq(W) /\ pairs \in Seq(W)
        BY <2>5, <2>7
      <3>2. clean \in W
        BY <1>2, <1>5
      <3> HIDE DEF W
      <3>3. ones \o pairs \in Seq(W) /\ Len(ones \o pairs) = Len(ones) + Len(pairs)
        BY ONLY <3>1
      <3>4. Len(ones \o pairs \o <<clean>>) = Len(ones \o pairs) + 1
        BY ONLY <3>2, <3>3
      <3>5. QED
        BY <2>5, <2>8, <3>3, <3>4
    <2>10. QED
      BY <1>1, <1>2, <1>3, <1>8, <2>1, <2>6, <2>9
  <1>9. QED
    BY <1>7, <1>8

-----------------------------------------------------------------------------
(* What searches need of them.                                             *)

\* Rows are candidates in their order.
LEMMA RerankedFacts ==
  ASSUME NEW R, NEW rows \in Seq(R)
  PROVE  /\ Reranked(rows) \in Seq([row : R, rank : Nat]) /\ Len(Reranked(rows)) = Len(rows)
         /\ \A i \in 1..Len(rows) : Reranked(rows)[i] = [row |-> rows[i], rank |-> i - 1]
  <1> DEFINE n == Len(rows)
  <1>1. n \in Nat /\ DOMAIN rows = 1..n /\ \A i \in 1..n : rows[i] \in R /\ i - 1 \in Nat
    OBVIOUS
  <1>2. Reranked(rows) = [i \in 1..n |-> [row |-> rows[i], rank |-> i - 1]]
    BY <1>1 DEF Reranked
  <1>3. [i \in 1..n |-> [row |-> rows[i], rank |-> i - 1]] \in [1..n -> [row : R, rank : Nat]]
    BY <1>1
  <1>4. Reranked(rows) \in Seq([row : R, rank : Nat]) /\ Len(Reranked(rows)) = n
    BY <1>1, <1>2, <1>3
  <1>5. QED
    BY <1>2, <1>4

LEMMA ListsOverMore ==
  ASSUME NEW A, NEW B, A \subseteq B
  PROVE  Seq(Seq(A)) \subseteq Seq(Seq(B))
  <1>1. \A s \in Seq(A) : s \in Seq(B)
    OBVIOUS
  <1>2. \A s \in Seq(Seq(A)) : s \in Seq(Seq(B))
    <2> SUFFICES ASSUME NEW s \in Seq(Seq(A)) PROVE s \in Seq(Seq(B))
      OBVIOUS
    <2>1. \A i \in 1..Len(s) : s[i] \in Seq(A)
      OBVIOUS
    <2>2. \A i \in 1..Len(s) : s[i] \in Seq(B)
      BY <1>1, <2>1
    <2>3. QED
      BY <2>2
  <1>3. QED
    BY <1>2

\* The first of the rest of a sequence, and what is left then.
LEMMA RestOf ==
  ASSUME NEW K, NEW keys \in Seq(K), NEW n \in Nat, SubSeq(keys, n + 1, Len(keys)) # <<>>
  PROVE  LET todo == SubSeq(keys, n + 1, Len(keys))
         IN  /\ n + 1 \in 1..Len(keys) /\ Head(todo) = keys[n + 1]
             /\ Tail(todo) = SubSeq(keys, n + 2, Len(keys))
  <1>1. Len(keys) \in Nat
    OBVIOUS
  <1>2. n + 1 \in 1..Len(keys)
    <2>1. CASE Len(keys) < n + 1
      BY <1>1, <2>1, SubSeqEmpty
    <2>2. QED
      BY <1>1, <2>1
  <1>3. Len(keys) \in (n + 1)..Len(keys) /\ (n + 1) + 1 = n + 2
    BY <1>1, <1>2
  <1>4. QED
    BY <1>2, <1>3, HeadTailOfSubSeq

\* More than one.
LEMMA MoreThanOne ==
  ASSUME NEW S, IsFiniteSet(S)
  PROVE  /\ Cardinality(S) > 1 => \E l, m \in S : l # m
         /\ S # {} /\ ~(Cardinality(S) > 1) => \E k : S = {k}
  <1>1. Cardinality(S) \in Nat
    BY FS_CardinalityType
  <1>2. ASSUME \A l, m \in S : l = m, S # {} PROVE \E k : S = {k} /\ Cardinality(S) = 1
    <2>1. PICK k \in S : TRUE
      BY <1>2
    <2>2. S = {k}
      BY <1>2, <2>1
    <2>3. QED
      BY <2>2, FS_Singleton
  <1>3. S = {} => Cardinality(S) = 0
    BY FS_EmptySet
  <1>4. ASSUME S # {}, ~(Cardinality(S) > 1) PROVE \E k : S = {k}
    <2>1. Cardinality(S) # 0
      BY <1>4, FS_EmptySet
    <2>2. Cardinality(S) = 1
      BY <1>1, <1>4, <2>1
    <2>3. QED
      BY <2>2, FS_Singleton
  <1>5. QED
    BY <1>1, <1>2, <1>3, <1>4

\* A place is worth the unit at first, and less after it.
LEMMA PlaceIsWorth ==
  ASSUME NEW r \in Nat \ {0}
  PROVE  /\ Unit \div r \in Nat /\ Unit \div r <= Unit
         /\ r = 1 => Unit \div r = Unit
         /\ r # 1 => Unit \div r < Unit
  <1> DEFINE q == Unit \div r
             m == Unit % r
  <1>1. Unit \in Nat \ {0}
    BY ScoreAssumption
  <1>2. q \in Nat /\ m \in Nat /\ m < r /\ Unit = q * r + m
    BY <1>1, Remainder
  <1> HIDE DEF q, m
  <1>3. CASE r = 1
    <2>1. m = 0 /\ q * r = q
      BY <1>2, <1>3
    <2>2. Unit = q
      BY <1>2, <2>1
    <2>3. QED
      BY <1>2, <1>3, <2>2 DEF q
  <1>4. CASE r # 1
    <2>1. q * r = q + q * (r - 1) /\ r - 1 \in Nat \ {0}
      BY <1>2, <1>4
    <2>2. q * (r - 1) \in Nat /\ q * (r - 1) >= q
      <3>1. q * (r - 1) = q + q * (r - 2) /\ r - 2 \in Nat
        BY <1>2, <2>1
      <3>2. q * (r - 2) \in Nat
        BY <1>2, <3>1
      <3>3. QED
        BY <1>2, <3>1, <3>2
    <2>3. q < Unit
      <3> DEFINE a == q * (r - 1)
      <3>1. Unit = q + a + m /\ a \in Nat /\ a >= q /\ q \in Nat /\ m \in Nat
        BY <1>2, <2>1, <2>2
      <3> HIDE DEF a
      <3>2. QED
        BY <1>1, <3>1
    <2>4. QED
      BY <1>1, <1>2, <1>4, <2>3 DEF q
  <1>5. QED
    BY <1>3, <1>4
=============================================================================
