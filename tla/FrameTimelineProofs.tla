------------------------- MODULE FrameTimelineProofs -------------------------
(***************************************************************************)
(* Proofs about FrameTimeline, for every length of a video, every set of   *)
(* cuts and every labelling of its frames.                                 *)
(*                                                                         *)
(* The least-number principle carries the inductions: the set of naturals  *)
(* for which a statement fails has no least element, hence none at all.    *)
(***************************************************************************)
EXTENDS FrameTimeline, Integers, FiniteSetTheorems, WellFoundedInduction, TLAPS

-----------------------------------------------------------------------------
(* Sets of naturals.                                                       *)

LEMMA LeastNumber ==
  ASSUME NEW S \in SUBSET Nat, S # {}
  PROVE  \E m \in S : \A k \in S : m <= k
  <1> DEFINE Less == OpToRel(<, Nat)
  <1>1. IsWellFoundedOn(Less, Nat)
    BY NatLessThanWellFounded
  <1>2. \A x, y \in Nat : x < y => <<x, y>> \in Less
    BY DEF OpToRel
  <1> HIDE DEF Less
  <1>3. PICK x \in S : \A y \in S : ~ (<<y, x>> \in Less)
    BY <1>1, WFMin
  <1>4. \A y \in S : ~ (y < x)
    BY <1>2, <1>3
  <1>5. QED
    BY <1>4

\* What holds of 0, and of n + 1 if of n, holds of every natural.
LEMMA SetInduction ==
  ASSUME NEW S, 0 \in S, \A n \in Nat : n \in S => n + 1 \in S
  PROVE  Nat \subseteq S
  <1> SUFFICES ASSUME Nat \ S # {} PROVE FALSE
    OBVIOUS
  <1>1. PICK m \in Nat \ S : \A k \in Nat \ S : m <= k
    BY LeastNumber
  <1>2. m - 1 \in Nat
    OBVIOUS
  <1>3. QED
    BY <1>1, <1>2

\* A bounded set of naturals has a greatest element.
LEMMA GreatestNumber ==
  ASSUME NEW S \in SUBSET Nat, S # {}, NEW b \in Nat, \A k \in S : k <= b
  PROVE  \E m \in S : \A k \in S : k <= m
  <1> DEFINE Bounds == {n \in Nat : \A k \in S : k <= n}
  <1>1. PICK m \in Bounds : \A n \in Bounds : m <= n
    BY LeastNumber
  <1>2. SUFFICES ASSUME m \notin S PROVE FALSE
    BY <1>1
  <1>3. \A k \in S : k <= m - 1
    BY <1>1, <1>2
  <1>4. m - 1 \in Nat
    <2>1. PICK k \in S : k <= m - 1
      BY <1>3
    <2>2. QED
      BY <2>1
  <1>5. QED
    BY <1>1, <1>3, <1>4

LEMMA MinOf ==
  ASSUME NEW S \in SUBSET Nat, S # {}
  PROVE  Min(S) \in S /\ \A k \in S : Min(S) <= k
  <1>1. \E m \in S : \A k \in S : m <= k
    BY LeastNumber
  <1>2. QED
    BY <1>1 DEF Min

LEMMA MaxOf ==
  ASSUME NEW S \in SUBSET Nat, S # {}, NEW b \in Nat, \A k \in S : k <= b
  PROVE  Max(S) \in S /\ \A k \in S : k <= Max(S)
  <1>1. \E m \in S : \A k \in S : m >= k
    BY GreatestNumber
  <1>2. Max(S) \in S /\ \A k \in S : Max(S) >= k
    BY <1>1 DEF Max
  <1>3. QED
    BY <1>2

\* If Before[x] is the set of those before x in a linear order of S, the places
\* 0 to Cardinality(S) - 1 are all taken, each by one element.
LEMMA Places ==
  ASSUME NEW S, IsFiniteSet(S), NEW Before \in [S -> SUBSET S],
         \A x \in S : x \notin Before[x],
         \A x, y \in S : x # y => x \in Before[y] \/ y \in Before[x],
         \A x, y \in S : x \in Before[y] => Before[x] \subseteq Before[y]
  PROVE  /\ \A n \in 1..Cardinality(S) : \E x \in S : Cardinality(Before[x]) = n - 1
         /\ \A x, y \in S : x \in Before[y] => Cardinality(Before[x]) < Cardinality(Before[y])
         /\ \A x \in S : Cardinality(Before[x]) \in 0..(Cardinality(S) - 1)
  <1> DEFINE N == Cardinality(S)
             place == [x \in S |-> Cardinality(Before[x])]
             T == 0..(N - 1)
  <1>1. N \in Nat
    BY FS_CardinalityType
  <1>2. \A x \in S : IsFiniteSet(Before[x]) /\ Cardinality(Before[x]) \in Nat
    BY FS_Subset, FS_CardinalityType
  <1>3. ASSUME NEW x \in S, NEW U \in SUBSET S, IsFiniteSet(U), Before[x] \subseteq U,
               x \in U
        PROVE  Cardinality(Before[x]) < Cardinality(U)
    <2>1. Cardinality(Before[x] \cup {x}) = Cardinality(Before[x]) + 1
      BY <1>2, FS_AddElement
    <2>2. (Before[x] \cup {x}) \in SUBSET U
      BY <1>3
    <2>3. Cardinality(Before[x] \cup {x}) <= Cardinality(U) /\ Cardinality(U) \in Nat
      BY <1>3, <2>2, FS_Subset, FS_CardinalityType
    <2>4. QED
      BY <1>2, <2>1, <2>3
  <1>4. \A x, y \in S : x \in Before[y] => Cardinality(Before[x]) < Cardinality(Before[y])
    BY <1>2, <1>3
  <1>5. \A x \in S : Cardinality(Before[x]) < N
    BY <1>3
  <1>6. place \in [S -> T]
    BY <1>1, <1>2, <1>5
  <1>7. \A x, y \in S : x # y => place[x] # place[y]
    BY <1>2, <1>4
  <1>8. place \in Injection(S, T)
    BY <1>6, <1>7 DEF Injection, IsInjective
  <1>9. IsFiniteSet(T) /\ Cardinality(T) = N
    <2>1. IsFiniteSet(T) /\ Cardinality(T) = IF 0 > N - 1 THEN 0 ELSE N - 1 - 0 + 1
      BY <1>1, FS_Interval
    <2>2. QED
      BY <1>1, <2>1
  <1>10. place \in Surjection(S, T)
    BY <1>8, <1>9, FS_Injection
  <1>11. \A t \in T : \E x \in S : place[x] = t
    BY <1>10 DEF Surjection
  <1>12. \A n \in 1..N : n - 1 \in T
    BY <1>1
  <1>13. QED
    BY <1>1, <1>2, <1>4, <1>5, <1>11, <1>12

-----------------------------------------------------------------------------
(* Folds.  The library defines them by a function on the subsets of what   *)
(* is left to do; this function exists.                                    *)

\* From base, f takes the elements of D, of which pick says the next, by steps in V.
Folds(f, D, V, base, pick, step) ==
  /\ f \in [SUBSET D -> V]
  /\ \A z \in SUBSET D :
       f[z] = IF z = {} THEN base ELSE step[<<pick[z], f[z \ {pick[z]}]>>]

Picks(pick, D) == \A z \in SUBSET D : z # {} => pick[z] \in z

LEMMA FoldExists ==
  ASSUME NEW D, IsFiniteSet(D), NEW V, NEW base, base \in V, NEW pick, Picks(pick, D),
         NEW step, step \in [D \X V -> V]
  PROVE  \E f : Folds(f, D, V, base, pick, step)
  <1> DEFINE Next(f, z) == IF z = {} THEN base ELSE step[<<pick[z], f[z \ {pick[z]}]>>]
             Upto(n, f) == \A z \in SUBSET D : Cardinality(z) <= n => f[z] = Next(f, z)
             Good == {n \in Nat : \E f \in [SUBSET D -> V] : Upto(n, f)}
  <1>1. \A z \in SUBSET D : IsFiniteSet(z) /\ Cardinality(z) \in Nat
    BY FS_Subset, FS_CardinalityType
  <1>2. \A z \in SUBSET D : Cardinality(z) = 0 <=> z = {}
    BY <1>1, FS_EmptySet
  <1>3. ASSUME NEW z \in SUBSET D, z # {}
        PROVE  /\ pick[z] \in D /\ z \ {pick[z]} \in SUBSET D
               /\ Cardinality(z \ {pick[z]}) = Cardinality(z) - 1
    BY <1>1, <1>3, FS_RemoveElement DEF Picks
  <1>4. \A f \in [SUBSET D -> V], z \in SUBSET D : Next(f, z) \in V
    BY <1>3
  <1>5. 0 \in Good
    <2> DEFINE f == [z \in SUBSET D |-> base]
    <2>1. f \in [SUBSET D -> V]
      OBVIOUS
    <2>2. ASSUME NEW z \in SUBSET D, Cardinality(z) <= 0
          PROVE  f[z] = Next(f, z)
      <3>1. z = {}
        BY <1>1, <1>2, <2>2
      <3>2. QED
        BY <3>1
    <2>3. QED
      BY <2>1, <2>2
  <1>6. ASSUME NEW n \in Nat, n \in Good
        PROVE  n + 1 \in Good
    <2>1. PICK f \in [SUBSET D -> V] : Upto(n, f)
      BY <1>6
    <2> DEFINE g == [z \in SUBSET D |-> IF Cardinality(z) = n + 1 THEN Next(f, z) ELSE f[z]]
    <2>2. g \in [SUBSET D -> V]
      BY <1>4
    <2>3. ASSUME NEW z \in SUBSET D, Cardinality(z) <= n + 1
          PROVE  g[z] = Next(g, z)
      <3>1. Next(g, z) = Next(f, z)
        <4>1. CASE z = {}
          BY <4>1
        <4>2. CASE z # {}
          <5>1. Cardinality(z \ {pick[z]}) # n + 1 /\ z \ {pick[z]} \in SUBSET D
            BY <1>1, <1>3, <2>3, <4>2
          <5>2. g[z \ {pick[z]}] = f[z \ {pick[z]}]
            BY <5>1
          <5>3. QED
            BY <4>2, <5>2
        <4>3. QED
          BY <4>1, <4>2
      <3>2. CASE Cardinality(z) = n + 1
        BY <3>1, <3>2
      <3>3. CASE Cardinality(z) # n + 1
        <4>1. Cardinality(z) <= n
          BY <1>1, <2>3, <3>3
        <4>2. f[z] = Next(f, z)
          BY <2>1, <4>1
        <4>3. g[z] = f[z]
          BY <3>3
        <4>4. QED
          BY <3>1, <4>2, <4>3
      <3>4. QED
        BY <3>2, <3>3
    <2>4. Upto(n + 1, g)
      BY <2>3
    <2> HIDE DEF g, Upto
    <2>5. \E h \in [SUBSET D -> V] : Upto(n + 1, h)
      BY <2>2, <2>4
    <2>6. QED
      BY <2>5
  <1>7. Cardinality(D) \in Good
    <2> HIDE DEF Good
    <2>1. Nat \subseteq Good
      BY <1>5, <1>6, SetInduction
    <2>2. QED
      BY <2>1, FS_CardinalityType
  <1>8. PICK f \in [SUBSET D -> V] : Upto(Cardinality(D), f)
    BY <1>7
  <1>9. \A z \in SUBSET D : Cardinality(z) <= Cardinality(D)
    BY FS_Subset
  <1>10. QED
    BY <1>8, <1>9 DEF Folds

-----------------------------------------------------------------------------
(* The sampling plan.                                                      *)

\* InOrder lists the elements of a set, each once, in ascending order.
LEMMA Sorted ==
  ASSUME NEW S \in SUBSET Nat, IsFiniteSet(S)
  PROVE  /\ InOrder(S) \in Seq(S) /\ Len(InOrder(S)) = Cardinality(S)
         /\ DOMAIN InOrder(S) = 1..Cardinality(S) /\ Cardinality(S) \in Nat
         /\ \A i, j \in 1..Cardinality(S) : i < j => InOrder(S)[i] < InOrder(S)[j]
         /\ \A x \in S : \E i \in 1..Cardinality(S) : InOrder(S)[i] = x
         /\ ToSet(InOrder(S)) = S
  <1> DEFINE N == Cardinality(S)
             Before == [x \in S |-> {s \in S : s < x}]
  <1>1. N \in Nat
    BY FS_CardinalityType
  <1>2. /\ Before \in [S -> SUBSET S]
        /\ \A x, y \in S : x \in Before[y] <=> x < y
    OBVIOUS
  <1>3. /\ \A x \in S : x \notin Before[x]
        /\ \A x, y \in S : x # y => x \in Before[y] \/ y \in Before[x]
        /\ \A x, y \in S : x \in Before[y] => Before[x] \subseteq Before[y]
    <2>1. \A x, y, z \in Nat : ~ (x < x) /\ (x # y => x < y \/ y < x) /\ (x < y /\ y < z => x < z)
      OBVIOUS
    <2> HIDE DEF Before
    <2>2. QED
      BY <1>2, <2>1
  <1>4. \A i \in 1..N : InOrder(S)[i] = CHOOSE x \in S : Cardinality(Before[x]) = i - 1
    BY DEF InOrder
  <1>5. DOMAIN InOrder(S) = 1..N
    BY DEF InOrder
  <1> HIDE DEF Before
  <1>6. /\ \A n \in 1..N : \E x \in S : Cardinality(Before[x]) = n - 1
        /\ \A x, y \in S : x \in Before[y] => Cardinality(Before[x]) < Cardinality(Before[y])
        /\ \A x \in S : Cardinality(Before[x]) \in 0..(N - 1)
    BY <1>2, <1>3, Places
  <1>7. \A i \in 1..N : InOrder(S)[i] \in S /\ Cardinality(Before[InOrder(S)[i]]) = i - 1
    BY <1>4, <1>6
  <1>8. ASSUME NEW x \in S, NEW y \in S, Cardinality(Before[x]) < Cardinality(Before[y])
        PROVE  x < y
    <2>1. Cardinality(Before[x]) \in Int /\ Cardinality(Before[y]) \in Int
      BY <1>6
    <2>2. x # y /\ y \notin Before[x]
      BY <1>6, <1>8, <2>1
    <2>3. QED
      BY <1>2, <1>3, <2>2
  <1>9. ASSUME NEW i \in 1..N, NEW j \in 1..N, i < j
        PROVE  InOrder(S)[i] < InOrder(S)[j]
    <2>1. i - 1 < j - 1
      BY <1>1, <1>9
    <2>2. QED
      BY <1>7, <1>8, <2>1
  <1>10. ASSUME NEW x \in S
         PROVE  \E i \in 1..N : InOrder(S)[i] = x
    <2>1. PICK i \in 1..N : i - 1 = Cardinality(Before[x])
      <3>1. Cardinality(Before[x]) + 1 \in 1..N /\ Cardinality(Before[x]) \in Int
        BY <1>1, <1>6
      <3>2. Cardinality(Before[x]) + 1 - 1 = Cardinality(Before[x])
        BY <3>1
      <3>3. QED
        BY <3>1, <3>2
    <2> DEFINE y == InOrder(S)[i]
    <2>2. y \in S /\ Cardinality(Before[y]) = Cardinality(Before[x])
      BY <1>7, <2>1
    <2> HIDE DEF y
    <2>3. Cardinality(Before[x]) \in Int
      BY <1>6
    <2>4. x \notin Before[y] /\ y \notin Before[x]
      BY <1>6, <2>2, <2>3
    <2>5. y = x
      BY <1>3, <2>2, <2>4
    <2>6. QED
      BY <2>1, <2>5 DEF y
  <1>11. InOrder(S) \in Seq(S) /\ Len(InOrder(S)) = N
    <2>1. InOrder(S) \in [1..N -> S]
      BY <1>5, <1>7 DEF InOrder
    <2>2. QED
      BY <1>1, <2>1
  <1>12. ToSet(InOrder(S)) = S
    BY <1>5, <1>7, <1>10 DEF ToSet
  <1>13. QED
    BY <1>1, <1>5, <1>9, <1>10, <1>11, <1>12

\* What plan_sample_timestamps makes of its next sample.
Keep(kept, t) == IF kept # <<>> /\ t - Last(kept) <= Tolerance THEN kept ELSE Append(kept, t)

LEMMA KeepType == \A kept \in Seq(Nat), t \in Nat : Keep(kept, t) \in Seq(Nat)
  BY DEF Keep

\* The plan is made sample by sample.
LEMMA PlanSteps ==
  ASSUME NEW n \in Nat, NEW s \in [1..n -> Nat]
  PROVE  \E f :
           /\ f[0] = <<>>
           /\ \A k \in 1..n : f[k] = Keep(f[k - 1], s[k])
           /\ FoldLeft(LAMBDA kept, t : IF kept # <<>> /\ t - Last(kept) <= Tolerance
                                          THEN kept ELSE Append(kept, t), <<>>, s) = f[n]
  <1> DEFINE D == 1..n
             Is(f) == f = [z \in SUBSET D |->
                             IF z = {} THEN <<>> ELSE Keep(f[z \ {Max(z)}], s[Max(z)])]
             f0 == CHOOSE f : Is(f)
             pick == [z \in SUBSET D |-> Max(z)]
             step == [p \in D \X Seq(Nat) |-> Keep(p[2], s[p[1]])]
             none == <<>>
  <1>1. FoldLeft(LAMBDA kept, t : IF kept # <<>> /\ t - Last(kept) <= Tolerance
                                    THEN kept ELSE Append(kept, t), <<>>, s) = f0[D]
    <2>1. DOMAIN s = D
      OBVIOUS
    <2>2. FoldLeft(LAMBDA kept, t : IF kept # <<>> /\ t - Last(kept) <= Tolerance
                                    THEN kept ELSE Append(kept, t), <<>>, s)
            = (CHOOSE f : f = [z \in SUBSET DOMAIN s |->
                             IF z = {} THEN <<>> ELSE Keep(f[z \ {Max(z)}], s[Max(z)])])[DOMAIN s]
      BY DEF FoldLeft, MapThenFoldSet, Keep
    <2>3. QED
      BY <2>1, <2>2
  <1>2. IsFiniteSet(D)
    BY FS_Interval
  <1>3. ASSUME NEW z \in SUBSET D, z # {}
        PROVE  Max(z) \in z /\ \A k \in z : k <= Max(z)
    <2>1. z \in SUBSET Nat /\ \A k \in z : k <= n
      OBVIOUS
    <2>2. QED
      BY <1>3, <2>1, MaxOf
  <1>4. Picks(pick, D)
    BY <1>3 DEF Picks
  <1>5. step \in [D \X Seq(Nat) -> Seq(Nat)]
    BY KeepType
  <1>6. PICK f : Folds(f, D, Seq(Nat), none, pick, step)
    <2>1. none \in Seq(Nat)
      OBVIOUS
    <2> HIDE DEF D, pick, step, none
    <2>2. QED
      BY <1>2, <1>4, <1>5, <2>1, FoldExists
  <1>7. Is(f)
    <2>1. \A z \in SUBSET D : z # {} => Max(z) \in D /\ z \ {Max(z)} \in SUBSET D
      BY <1>3
    <2>2. ASSUME NEW z \in SUBSET D
          PROVE  f[z] = IF z = {} THEN <<>> ELSE Keep(f[z \ {Max(z)}], s[Max(z)])
      BY <1>3, <1>6, <2>1 DEF Folds
    <2>3. QED
      BY <1>6, <2>2 DEF Folds
  <1>8. Is(f0)
    <2> HIDE DEF Is
    <2>1. \E g : Is(g)
      BY <1>7
    <2>2. QED
      BY <2>1, Zenon
  <1> HIDE DEF f0, pick, step
  <1> DEFINE g == [k \in 0..n |-> f0[1..k]]
  <1>9. g[0] = <<>>
    <2>1. 1..0 = {} /\ g[0] = f0[1..0]
      OBVIOUS
    <2>2. f0[{}] = <<>>
      BY <1>8
    <2>3. QED
      BY <2>1, <2>2
  <1>10. ASSUME NEW k \in 1..n
         PROVE  g[k] = Keep(g[k - 1], s[k])
    <2>1. k \in Nat /\ k \in 1..k /\ 1..k \in SUBSET D
      OBVIOUS
    <2>2. Max(1..k) \in 1..k /\ k <= Max(1..k)
      BY <1>3, <2>1
    <2>3. Max(1..k) = k
      BY <2>2
    <2>4. (1..k) \ {k} = 1..(k - 1)
      <3>1. \A i \in 1..k : i # k => i \in 1..(k - 1)
        OBVIOUS
      <3>2. \A i \in 1..(k - 1) : i \in 1..k /\ i # k
        OBVIOUS
      <3>3. QED
        BY <3>1, <3>2
    <2>5. f0[1..k] = Keep(f0[(1..k) \ {Max(1..k)}], s[Max(1..k)])
      BY <1>8, <2>1
    <2>6. g[k] = f0[1..k] /\ g[k - 1] = f0[1..(k - 1)]
      OBVIOUS
    <2>7. QED
      BY <2>3, <2>4, <2>5, <2>6
  <1>11. g[n] = f0[D]
    OBVIOUS
  <1> HIDE DEF g
  <1>12. QED
    BY <1>1, <1>9, <1>10, <1>11

\* What is kept of the first k of the samples s: frames that are further apart than
\* the tolerance, and for each sample one that is not further before it.
KeptOf(kept, k, s) ==
  /\ kept \in Seq(Nat)
  /\ \A i, j \in DOMAIN kept : i < j => kept[j] - kept[i] > Tolerance
  /\ \A j \in DOMAIN kept : \E i \in 1..k : kept[j] = s[i]
  /\ \A i \in 1..k : \E j \in DOMAIN kept : kept[j] <= s[i] /\ s[i] - kept[j] <= Tolerance

LEMMA KeepStep ==
  ASSUME NEW n \in Nat, NEW s \in [1..n -> Nat], \A i, j \in 1..n : i < j => s[i] < s[j],
         NEW k \in Nat, k + 1 <= n, NEW kept, KeptOf(kept, k, s)
  PROVE  KeptOf(Keep(kept, s[k + 1]), k + 1, s)
  <1> DEFINE t == s[k + 1]
             more == Append(kept, t)
  <1>1. t \in Nat /\ Tolerance \in Nat /\ kept \in Seq(Nat) /\ k + 1 \in 1..n
    BY SamplingAssumption DEF KeptOf
  <1>2. \A i \in 1..(k + 1) : i \in 1..k \/ i = k + 1
    OBVIOUS
  <1>3. \A i \in 1..k : i \in 1..n /\ s[i] \in Nat /\ s[i] < t
    BY <1>1
  <1>4. \A j \in DOMAIN kept : kept[j] \in Nat /\ kept[j] < t
    BY <1>1, <1>3 DEF KeptOf
  <1>5. CASE kept # <<>> /\ t - Last(kept) <= Tolerance
    <2>1. Len(kept) \in DOMAIN kept /\ Last(kept) = kept[Len(kept)]
      BY <1>1, <1>5 DEF Last
    <2>2. Last(kept) <= t
      BY <1>1, <1>4, <2>1
    <2>3. \A i \in 1..(k + 1) : \E j \in DOMAIN kept : kept[j] <= s[i] /\ s[i] - kept[j] <= Tolerance
      BY <1>2, <1>5, <2>1, <2>2 DEF KeptOf
    <2>4. \A j \in DOMAIN kept : \E i \in 1..(k + 1) : kept[j] = s[i]
      BY DEF KeptOf
    <2>5. Keep(kept, t) = kept
      BY <1>5 DEF Keep
    <2>6. QED
      BY <2>3, <2>4, <2>5 DEF KeptOf
  <1>6. CASE ~ (kept # <<>> /\ t - Last(kept) <= Tolerance)
    <2>1. Keep(kept, t) = more
      BY <1>6 DEF Keep
    <2>2. /\ more \in Seq(Nat) /\ DOMAIN more = 1..(Len(kept) + 1) /\ DOMAIN kept = 1..Len(kept)
          /\ Len(kept) \in Nat /\ more[Len(kept) + 1] = t
          /\ \A j \in DOMAIN kept : more[j] = kept[j]
      BY <1>1
    <2>3. \A j \in DOMAIN more : j \in DOMAIN kept \/ j = Len(kept) + 1
      BY <2>2
    <2>4. ASSUME NEW i \in DOMAIN kept
          PROVE  t - kept[i] > Tolerance
      <3>1. kept # <<>> /\ Len(kept) \in DOMAIN kept /\ Last(kept) = kept[Len(kept)]
        BY <1>1, <2>2 DEF Last
      <3>2. t - kept[Len(kept)] > Tolerance
        BY <1>1, <1>4, <1>6, <3>1
      <3>3. kept[i] <= kept[Len(kept)]
        <4>1. i = Len(kept) \/ i < Len(kept)
          BY <2>2
        <4>2. i < Len(kept) => kept[Len(kept)] - kept[i] > Tolerance
          BY <3>1 DEF KeptOf
        <4>3. QED
          BY <1>1, <1>4, <3>1, <4>1, <4>2
      <3>4. QED
        BY <1>1, <1>4, <3>1, <3>2, <3>3
    <2>5. ASSUME NEW i \in DOMAIN more, NEW j \in DOMAIN more, i < j
          PROVE  more[j] - more[i] > Tolerance
      <3>1. i \in DOMAIN kept
        BY <2>2, <2>5
      <3>2. CASE j \in DOMAIN kept
        BY <2>2, <2>5, <3>1, <3>2 DEF KeptOf
      <3>3. CASE j = Len(kept) + 1
        BY <2>2, <2>4, <3>1, <3>3
      <3>4. QED
        BY <2>3, <3>2, <3>3
    <2>6. \A j \in DOMAIN more : \E i \in 1..(k + 1) : more[j] = s[i]
      <3>1. \A j \in DOMAIN kept : \E i \in 1..(k + 1) : more[j] = s[i]
        BY <2>2 DEF KeptOf
      <3>2. k + 1 \in 1..(k + 1) /\ more[Len(kept) + 1] = s[k + 1]
        BY <2>2
      <3>3. QED
        BY <2>3, <3>1, <3>2
    <2>7. \A i \in 1..(k + 1) : \E j \in DOMAIN more : more[j] <= s[i] /\ s[i] - more[j] <= Tolerance
      <3>1. \A i \in 1..k : \E j \in DOMAIN more : more[j] <= s[i] /\ s[i] - more[j] <= Tolerance
        <4>1. ASSUME NEW i \in 1..k
              PROVE  \E j \in DOMAIN kept : kept[j] <= s[i] /\ s[i] - kept[j] <= Tolerance
          BY DEF KeptOf
        <4>2. \A j \in DOMAIN kept : j \in DOMAIN more /\ more[j] = kept[j]
          BY <2>2
        <4> HIDE DEF more
        <4>3. QED
          BY <4>1, <4>2
      <3>2. Len(kept) + 1 \in DOMAIN more /\ t <= t /\ t - t <= Tolerance
        BY <1>1, <2>2
      <3>3. QED
        BY <1>2, <2>2, <3>1, <3>2
    <2> HIDE DEF more
    <2>8. QED
      BY <2>1, <2>2, <2>5, <2>6, <2>7 DEF KeptOf
  <1>7. QED
    BY <1>5, <1>6

LEMMA Division ==
  ASSUME NEW a \in Nat, NEW b \in Nat \ {0}
  PROVE  /\ a \div b \in Nat
         /\ (a \div b) * b <= a
         /\ a < (a \div b) * b + b
  OBVIOUS

LEMMA Multiples ==
  ASSUME NEW i \in Nat, NEW j \in Nat, NEW b \in Nat
  PROVE  /\ i * b \in Nat /\ (i + 1) * b = i * b + b
         /\ i <= j => i * b <= j * b
         /\ i * b > j * b => i > j
  <1>1. i <= j => i * b <= j * b
    OBVIOUS
  <1>2. i * b > j * b => i > j
    OBVIOUS
  <1>3. i * b \in Nat
    OBVIOUS
  <1>4. (i + 1) * b = i * b + b
    OBVIOUS
  <1>5. QED
    BY <1>1, <1>2, <1>3, <1>4

\* The samples are naturals below the duration: a grid that reaches it, and the cuts.
LEMMA SamplesFit ==
  ASSUME NEW duration \in Nat \ {0}, NEW cuts \in SUBSET Nat
  PROVE  /\ Samples(duration, cuts) \in SUBSET Nat
         /\ IsFiniteSet(Samples(duration, cuts))
         /\ \A t \in Samples(duration, cuts) : t < duration
         /\ 0 \in Samples(duration, cuts)
         /\ \A t \in cuts : t < duration => t \in Samples(duration, cuts)
         /\ \A f \in Nat : f + Interval < duration =>
              \E t \in Samples(duration, cuts) : f < t /\ t <= f + Interval
  <1> DEFINE I == Interval
             last == (duration - 1) \div I
             grid == {i * I : i \in 0..last}
  <1>1. I \in Nat \ {0} /\ I \in Nat /\ duration - 1 \in Nat
    BY SamplingAssumption
  <1>2. last \in Nat /\ last * I <= duration - 1 /\ duration - 1 < last * I + I
    BY <1>1, Division
  <1>3. Samples(duration, cuts) = grid \cup {t \in cuts : t < duration}
    BY DEF Samples
  <1> HIDE DEF last, I
  <1>4. ASSUME NEW i \in 0..last
        PROVE  i * I \in Nat /\ i * I < duration
    <2>1. i \in Nat /\ i <= last
      BY <1>2
    <2>2. i * I \in Nat /\ last * I \in Nat /\ i * I <= last * I
      BY <1>1, <1>2, <2>1, Multiples
    <2>3. QED
      BY <1>1, <1>2, <2>2
  <1>5. 0 \in grid
    <2>1. 0 \in 0..last /\ 0 * I = 0
      BY <1>1, <1>2
    <2>2. QED
      BY <2>1
  <1>6. ASSUME NEW f \in Nat, f + I < duration
        PROVE  \E t \in grid : f < t /\ t <= f + I
    <2> DEFINE i == f \div I
    <2>1. i \in Nat /\ i * I <= f /\ f < i * I + I
      BY <1>1, Division
    <2> HIDE DEF i
    <2>2. i * I \in Nat /\ (i + 1) * I = i * I + I
      BY <1>1, <2>1, Multiples
    <2>3. (i + 1) * I <= duration - 1 /\ f < (i + 1) * I /\ (i + 1) * I <= f + I
      BY <1>1, <1>6, <2>1, <2>2
    <2>4. last * I \in Nat /\ (last + 1) * I = last * I + I
      BY <1>1, <1>2, Multiples
    <2>5. (last + 1) * I > (i + 1) * I
      BY <1>1, <1>2, <2>2, <2>3, <2>4
    <2>6. last + 1 > i + 1
      <3>1. last + 1 \in Nat /\ i + 1 \in Nat
        BY <1>2, <2>1
      <3>2. QED
        BY <1>1, <2>5, <3>1, Multiples
    <2>7. i + 1 \in 0..last
      BY <1>2, <2>1, <2>6
    <2>8. QED
      BY <2>3, <2>7
  <1>7. \A t \in grid : t \in Nat /\ t < duration
    BY <1>4
  <1> HIDE DEF grid
  <1>8. Samples(duration, cuts) \in SUBSET Nat /\ \A t \in Samples(duration, cuts) : t < duration
    BY <1>3, <1>7
  <1>9. IsFiniteSet(Samples(duration, cuts))
    BY <1>8, FS_BoundedSetOfNaturals
  <1>10. QED
    BY <1>3, <1>5, <1>6, <1>8, <1>9 DEF I

\* What plan_sample_timestamps promises: frames before the end that are further apart
\* than the tolerance, one at or shortly before every cut, none missing for longer
\* than an interval and a tolerance, the first at 0.
Follows(frames, duration, cuts) ==
  /\ \A f \in frames : f < duration
  /\ \A f, g \in frames : f < g => g - f > Tolerance
  /\ \A cut \in cuts : cut < duration => \E f \in frames : f <= cut /\ cut - f <= Tolerance
  /\ \A f \in frames : \/ f + Interval + Tolerance >= duration
                       \/ \E g \in frames : f < g /\ g <= f + Interval + Tolerance
  /\ duration > 0 => 0 \in frames

LEMMA KeptFollows ==
  ASSUME NEW duration \in Nat \ {0}, NEW cuts \in SUBSET Nat, NEW kept,
         KeptOf(kept, Cardinality(Samples(duration, cuts)), InOrder(Samples(duration, cuts)))
  PROVE  Follows(ToSet(kept), duration, cuts)
  <1> DEFINE S == Samples(duration, cuts)
             n == Cardinality(S)
             s == InOrder(S)
             F == ToSet(kept)
  <1>1. /\ S \in SUBSET Nat /\ IsFiniteSet(S) /\ \A t \in S : t < duration
        /\ 0 \in S
        /\ \A t \in cuts : t < duration => t \in S
        /\ \A f \in Nat : f + Interval < duration =>
             \E t \in S : f < t /\ t <= f + Interval
    BY SamplesFit
  <1>2. /\ n \in Nat /\ \A i \in 1..n : s[i] \in S
        /\ \A x \in S : \E i \in 1..n : s[i] = x
    <2>1. s \in Seq(S) /\ DOMAIN s = 1..n
      BY <1>1, Sorted
    <2>2. QED
      BY <1>1, <2>1, Sorted
  <1>3. /\ kept \in Seq(Nat)
        /\ \A i, j \in DOMAIN kept : i < j => kept[j] - kept[i] > Tolerance
        /\ \A j \in DOMAIN kept : \E i \in 1..n : kept[j] = s[i]
        /\ \A i \in 1..n : \E j \in DOMAIN kept : kept[j] <= s[i] /\ s[i] - kept[j] <= Tolerance
    BY DEF KeptOf
  <1> HIDE DEF S, n, s
  <1>4. Tolerance \in Nat /\ Interval \in Nat
    BY SamplingAssumption
  <1>5. \A f : f \in F <=> \E j \in DOMAIN kept : f = kept[j]
    BY DEF ToSet
  <1> HIDE DEF F
  <1>6. \A f \in F : f \in Nat /\ f < duration
    <2>1. \A j \in DOMAIN kept : kept[j] \in S
      BY <1>2, <1>3
    <2>2. QED
      BY <1>1, <1>5, <2>1
  <1>7. ASSUME NEW t \in S PROVE \E f \in F : f <= t /\ t - f <= Tolerance
    <2>1. PICK i \in 1..n : s[i] = t
      BY <1>2
    <2>2. PICK k \in DOMAIN kept : kept[k] <= s[i] /\ s[i] - kept[k] <= Tolerance
      BY <1>3
    <2>3. kept[k] \in F
      BY ONLY <1>5
    <2>4. QED
      BY ONLY <2>1, <2>2, <2>3
  <1>8. ASSUME NEW f \in F, NEW g \in F, f < g
        PROVE  g - f > Tolerance
    <2>1. PICK i \in DOMAIN kept : f = kept[i]
      BY <1>5
    <2>2. PICK j \in DOMAIN kept : g = kept[j]
      BY <1>5
    <2>3. i \in Nat /\ j \in Nat /\ f \in Nat /\ g \in Nat
      <3>1. kept \in Seq(Nat)
        BY <1>3
      <3>2. DOMAIN kept \subseteq Nat
        BY <3>1
      <3>3. QED
        BY <1>6, <3>2
    <2>4. ~ (j < i)
      BY <1>3, <1>4, <1>8, <2>1, <2>2, <2>3
    <2>5. i # j
      BY <1>8, <2>1, <2>2, <2>3
    <2>6. QED
      BY <1>3, <2>1, <2>2, <2>3, <2>4, <2>5
  <1>9. \A cut \in cuts : cut < duration => \E f \in F : f <= cut /\ cut - f <= Tolerance
    BY <1>1, <1>7
  <1>10. ASSUME NEW f \in F, ~ (f + Interval + Tolerance >= duration)
         PROVE  \E g \in F : f < g /\ g <= f + Interval + Tolerance
    <2>1. f \in Nat /\ f + Tolerance \in Nat /\ (f + Tolerance) + Interval < duration
      BY <1>4, <1>6, <1>10
    <2>2. PICK t \in S : f + Tolerance < t /\ t <= (f + Tolerance) + Interval
      BY <1>1, <2>1
    <2>3. PICK g \in F : g <= t /\ t - g <= Tolerance
      BY <1>7
    <2>4. t \in Nat /\ g \in Nat
      BY <1>1, <1>6
    <2>5. f < g /\ g <= f + Interval + Tolerance
      BY <1>4, <2>1, <2>2, <2>3, <2>4
    <2>6. QED
      BY <2>5
  <1>11. 0 \in F
    <2>1. PICK f \in F : f <= 0
      BY <1>1, <1>7
    <2>2. QED
      BY <1>6, <2>1
  <1>12. QED
    BY <1>6, <1>8, <1>9, <1>10, <1>11 DEF Follows, F

\* plan_sample_timestamps keeps what it promises, for every video.
THEOREM PlanFollowsTheVideo ==
  ASSUME NEW duration \in Nat, NEW cuts \in SUBSET Nat
  PROVE  /\ plan_sample_timestamps(duration, cuts) \in Seq(Nat)
         /\ Follows(ToSet(plan_sample_timestamps(duration, cuts)), duration, cuts)
  <1>1. CASE duration = 0
    <2>1. plan_sample_timestamps(duration, cuts) = <<>>
      BY <1>1 DEF plan_sample_timestamps
    <2>2. ToSet(<<>>) = {}
      BY DEF ToSet
    <2>3. \A cut \in cuts : ~ (cut < duration)
      BY <1>1
    <2>4. ~ (duration > 0)
      BY <1>1
    <2>5. Follows({}, duration, cuts)
      BY <2>3, <2>4 DEF Follows
    <2>6. QED
      BY <2>1, <2>2, <2>5
  <1>2. CASE duration # 0
    <2> DEFINE S == Samples(duration, cuts)
               n == Cardinality(S)
               s == InOrder(S)
    <2>1. S \in SUBSET Nat /\ IsFiniteSet(S)
      BY <1>2, SamplesFit
    <2>2. /\ n \in Nat /\ s \in [1..n -> Nat]
          /\ \A i, j \in 1..n : i < j => s[i] < s[j]
      BY <2>1, Sorted
    <2> HIDE DEF s
    <2>3. PICK f :
            /\ f[0] = <<>>
            /\ \A k \in 1..n : f[k] = Keep(f[k - 1], s[k])
            /\ FoldLeft(LAMBDA kept, t : IF kept # <<>> /\ t - Last(kept) <= Tolerance
                                           THEN kept ELSE Append(kept, t), <<>>, s) = f[n]
      BY <2>2, PlanSteps
    <2>4. plan_sample_timestamps(duration, cuts) = f[n]
      BY <1>2, <2>3 DEF plan_sample_timestamps, s
    <2> HIDE DEF S, n
    <2> DEFINE Good == {k \in Nat : k <= n => KeptOf(f[k], k, s)}
    <2>5. 0 \in Good
      <3>1. DOMAIN <<>> = {} /\ <<>> \in Seq(Nat) /\ 1..0 = {}
        OBVIOUS
      <3>2. KeptOf(<<>>, 0, s)
        BY <3>1 DEF KeptOf
      <3>3. QED
        BY <2>3, <3>2
    <2>6. ASSUME NEW k \in Nat, k \in Good
          PROVE  k + 1 \in Good
      <3>1. SUFFICES ASSUME k + 1 <= n PROVE KeptOf(f[k + 1], k + 1, s)
        OBVIOUS
      <3>2. k + 1 \in 1..n /\ (k + 1) - 1 = k /\ k <= n
        BY <2>2, <3>1
      <3>3. KeptOf(Keep(f[k], s[k + 1]), k + 1, s)
        BY <2>2, <2>6, <3>1, <3>2, KeepStep
      <3>4. QED
        BY <2>3, <3>2, <3>3
    <2>7. n \in Good
      <3> HIDE DEF Good
      <3>1. QED
        BY <2>2, <2>5, <2>6, SetInduction
    <2>8. KeptOf(f[n], n, s)
      BY <2>2, <2>7
    <2>9. f[n] \in Seq(Nat)
      BY <2>8 DEF KeptOf
    <2>10. Follows(ToSet(f[n]), duration, cuts)
      BY <1>2, <2>8, KeptFollows DEF n, s, S
    <2>11. QED
      BY <2>4, <2>9, <2>10
  <1>3. QED
    BY <1>1, <1>2

\* The timestamp of a JPEG is read back from its name.
LEMMA NameGivesTime == \A ts \in Nat : ts_from_frame_name(frame_path_for(ts)) = ts
  BY DEF ts_from_frame_name, frame_path_for

\* The JPEGs of any set of frames are listed as these frames, in order.
LEMMA FramesOnDisk ==
  ASSUME NEW F \in SUBSET Nat
  PROVE  frames_on_disk({frame_path_for(t) : t \in F}) = InOrder(F)
  <1>1. {ts_from_frame_name(name) : name \in {frame_path_for(t) : t \in F}} = F
    BY NameGivesTime
  <1>2. QED
    BY <1>1 DEF frames_on_disk

-----------------------------------------------------------------------------
(* Scenes.                                                                 *)

\* Timestamps that are listed in order.
Ascending(times) ==
  /\ times \in Seq(Nat) /\ times # <<>>
  /\ \A i, j \in DOMAIN times : i < j => times[i] < times[j]

LEMMA AscendingFacts ==
  ASSUME NEW times, Ascending(times)
  PROVE  /\ Len(times) \in Nat /\ Len(times) >= 1 /\ DOMAIN times = 1..Len(times)
         /\ \A i \in 1..Len(times) : i \in Nat /\ times[i] \in Nat
         /\ Last(times) = times[Len(times)]
         /\ \A i, j \in 1..Len(times) : i <= j <=> times[i] <= times[j]
         /\ \A i \in 1..Len(times) : times[i] <= Last(times)
  <1>1. times \in Seq(Nat) /\ times # <<>>
    BY DEF Ascending
  <1>2. Len(times) \in Nat /\ Len(times) >= 1 /\ DOMAIN times = 1..Len(times)
    BY <1>1
  <1>3. \A i \in 1..Len(times) : i \in Nat /\ times[i] \in Nat
    BY <1>1
  <1>4. Last(times) = times[Len(times)]
    BY DEF Last
  <1>5. ASSUME NEW i \in 1..Len(times), NEW j \in 1..Len(times)
        PROVE  i <= j <=> times[i] <= times[j]
    <2>1. i \in Nat /\ j \in Nat /\ times[i] \in Nat /\ times[j] \in Nat
      BY <1>3
    <2>2. (i < j => times[i] < times[j]) /\ (j < i => times[j] < times[i])
      BY <1>2 DEF Ascending
    <2>3. i < j \/ j < i \/ i = j
      BY <2>1
    <2>4. QED
      BY <2>1, <2>2, <2>3
  <1>6. \A i \in 1..Len(times) : times[i] <= Last(times)
    BY <1>2, <1>3, <1>4, <1>5
  <1>7. QED
    BY <1>2, <1>3, <1>4, <1>5, <1>6

\* The tail is never empty: it is 8 s, or the shortest distance of two frames.
LEMMA TailIsPositive ==
  ASSUME NEW times, Ascending(times)
  PROVE  tail_interval(times) \in Nat /\ tail_interval(times) > 0
  <1> DEFINE n == Len(times)
             gaps == {times[i + 1] - times[i] : i \in 1..(n - 1)}
  <1>1. /\ n \in Nat /\ n >= 1 /\ DOMAIN times = 1..n
        /\ \A i \in 1..n : i \in Nat /\ times[i] \in Nat
    BY AscendingFacts
  <1>2. CASE n < 2
    BY <1>2 DEF tail_interval
  <1>3. CASE n >= 2
    <2>1. tail_interval(times) = Min(gaps)
      BY <1>1, <1>3 DEF tail_interval
    <2>2. ASSUME NEW i \in 1..(n - 1)
          PROVE  times[i + 1] - times[i] \in Nat /\ times[i + 1] - times[i] > 0
      <3>1. i \in 1..n /\ i + 1 \in 1..n /\ i < i + 1
        BY <1>1
      <3>2. times[i] < times[i + 1]
        BY <1>1, <3>1 DEF Ascending
      <3>3. QED
        BY <1>1, <3>1, <3>2
    <2>3. gaps \in SUBSET Nat /\ \A g \in gaps : g > 0
      BY <2>2
    <2>4. times[1 + 1] - times[1] \in gaps
      BY <1>1, <1>3
    <2> HIDE DEF gaps
    <2>5. Min(gaps) \in gaps
      BY <2>3, <2>4, MinOf
    <2>6. QED
      BY <2>1, <2>3, <2>5
  <1>4. QED
    BY <1>1, <1>2, <1>3

\* Where a label differs from the one before.
StartsOf(times, label) ==
  {i \in DOMAIN times : i = 1 \/ label[times[i]] # label[times[i - 1]]}

EndOf(times, label, i) ==
  LET later == {j \in StartsOf(times, label) : j > i}
  IN  IF later = {} THEN Last(times) + tail_interval(times) ELSE times[Min(later)]

SpanOf(times, label, i) ==
  [start |-> times[i], end |-> EndOf(times, label, i), scene_type |-> label[times[i]]]

LEMMA SegmentsAreSpans ==
  ASSUME NEW times, NEW label
  PROVE  build_scene_segments(times, label) =
           {SpanOf(times, label, i) : i \in StartsOf(times, label)}
  BY DEF build_scene_segments, SpanOf, EndOf, StartsOf

\* Frames from i to k have the label of i, if none of them after i is a start.
LEMMA LabelsStay ==
  ASSUME NEW times, Ascending(times), NEW label, NEW i \in DOMAIN times, NEW k \in DOMAIN times,
         i <= k, \A j \in StartsOf(times, label) : j <= k => j <= i
  PROVE  label[times[k]] = label[times[i]]
  <1> DEFINE Bad == {j \in DOMAIN times : i <= j /\ j <= k /\ label[times[j]] # label[times[i]]}
  <1>1. /\ Len(times) \in Nat /\ DOMAIN times = 1..Len(times)
    BY AscendingFacts
  <1>2. SUFFICES ASSUME Bad # {}, Bad \in SUBSET Nat PROVE FALSE
    BY <1>1
  <1>3. PICK j \in Bad : \A m \in Bad : j <= m
    BY <1>2, LeastNumber
  <1>4. j \in Nat /\ i \in Nat /\ i < j /\ j <= k
    BY <1>1, <1>3
  <1>5. j - 1 \in DOMAIN times /\ i <= j - 1 /\ j - 1 <= k /\ j - 1 \notin Bad
    BY <1>1, <1>3, <1>4
  <1>6. label[times[j - 1]] = label[times[i]]
    BY <1>5
  <1>7. j \in StartsOf(times, label)
    BY <1>3, <1>6 DEF StartsOf
  <1>8. QED
    BY <1>4, <1>7

\* The spans at time t, if k is the last frame up to t.
LEMMA SpansAt ==
  ASSUME NEW times, Ascending(times), NEW label, NEW t \in Nat, NEW k \in DOMAIN times,
         times[k] <= t, \A j \in DOMAIN times : times[j] <= t => j <= k
  PROVE  LET at == {s \in build_scene_segments(times, label) : s.start <= t /\ t < s.end}
         IN  IF t < Last(times) + tail_interval(times)
               THEN \E s \in at : at = {s} /\ s.scene_type = label[times[k]]
               ELSE at = {}
  <1> DEFINE n == Len(times)
             Starts == StartsOf(times, label)
             Span(i) == SpanOf(times, label, i)
             at == {s \in build_scene_segments(times, label) : s.start <= t /\ t < s.end}
             final == Last(times) + tail_interval(times)
             Later(i) == {j \in Starts : j > i}
             Sofar == {j \in Starts : j <= k}
  <1>1. /\ n \in Nat /\ n >= 1 /\ DOMAIN times = 1..n
        /\ \A i \in 1..n : i \in Nat /\ times[i] \in Nat
        /\ \A i, j \in 1..n : i <= j <=> times[i] <= times[j]
        /\ \A i \in 1..n : times[i] <= Last(times)
        /\ Last(times) \in Nat
    BY AscendingFacts
  <1>2. tail_interval(times) \in Nat /\ tail_interval(times) > 0
    BY TailIsPositive
  <1>3. Starts \subseteq 1..n /\ 1 \in Starts /\ Starts \in SUBSET Nat
    BY <1>1 DEF StartsOf
  <1>4. at = {s \in {Span(i) : i \in Starts} : s.start <= t /\ t < s.end}
    BY SegmentsAreSpans
  <1>5. \A i \in Starts : /\ Span(i).start = times[i] /\ Span(i).scene_type = label[times[i]]
                          /\ Span(i).end = IF Later(i) = {} THEN final ELSE times[Min(Later(i))]
    BY DEF SpanOf, EndOf
  <1>6. \A i \in Starts : Later(i) # {} => Min(Later(i)) \in Later(i) /\ \A j \in Later(i) : Min(Later(i)) <= j
    BY <1>3, MinOf
  <1>7. PICK i \in Sofar : \A j \in Sofar : j <= i
    <2>1. 1 \in Sofar /\ Sofar \in SUBSET Nat /\ \A j \in Sofar : j <= k
      BY <1>1, <1>3
    <2>2. QED
      BY <1>1, <2>1, GreatestNumber
  <1> HIDE DEF at, Starts, Span, final, n
  <1>8. i \in Starts /\ i \in 1..n /\ i <= k /\ times[i] <= t /\ k \in 1..n
    BY <1>1, <1>3, <1>7
  <1>9. label[times[k]] = label[times[i]]
    <2>1. i \in DOMAIN times /\ \A j \in StartsOf(times, label) : j <= k => j <= i
      BY <1>1, <1>7, <1>8 DEF Starts
    <2>2. QED
      BY <1>8, <2>1, LabelsStay
  <1>10. final \in Nat /\ \A j \in 1..n : times[j] <= final
    BY <1>1, <1>2 DEF final
  <1>11. \A j \in Starts : Later(j) # {} => Min(Later(j)) \in 1..n /\ Min(Later(j)) \in Nat
    BY <1>1, <1>3, <1>6
  <1>12. CASE t < final
    <2>1. t < Span(i).end
      <3>1. CASE Later(i) = {}
        BY <1>5, <1>8, <1>12, <3>1
      <3>2. CASE Later(i) # {}
        <4> DEFINE m == Min(Later(i))
        <4>1. m \in Starts /\ m > i /\ m \in 1..n /\ m \in Nat
          BY <1>6, <1>8, <1>11, <3>2
        <4> HIDE DEF m
        <4>2. ~ (m <= k)
          BY <1>1, <1>7, <1>8, <4>1
        <4>3. ~ (times[m] <= t) /\ times[m] \in Nat
          BY <1>1, <4>1, <4>2
        <4>4. Span(i).end = times[m]
          BY <1>5, <1>8, <3>2 DEF m
        <4>5. QED
          BY <4>3, <4>4
      <3>3. QED
        BY <3>1, <3>2
    <2>2. Span(i) \in at
      BY <1>4, <1>5, <1>8, <2>1
    <2>3. ASSUME NEW j \in Starts, Span(j).start <= t, t < Span(j).end
          PROVE  j = i
      <3>1. j \in 1..n /\ j \in Nat /\ times[j] <= t
        BY <1>1, <1>3, <1>5, <2>3
      <3>2. j <= k /\ j <= i
        BY <1>1, <1>7, <3>1
      <3>3. SUFFICES ASSUME j < i PROVE FALSE
        BY <1>1, <1>8, <3>1, <3>2
      <3>4. i \in Later(j)
        BY <1>8, <3>3
      <3> DEFINE m == Min(Later(j))
      <3>5. m \in 1..n /\ m <= i /\ Span(j).end = times[m]
        BY <1>5, <1>6, <1>11, <3>4
      <3> HIDE DEF m
      <3>6. times[m] <= times[i] /\ times[m] \in Nat /\ times[i] \in Nat
        BY <1>1, <1>8, <3>5
      <3>7. QED
        BY <1>8, <2>3, <3>5, <3>6
    <2>4. at = {Span(i)}
      BY <1>4, <2>2, <2>3
    <2>5. Span(i).scene_type = label[times[k]]
      BY <1>5, <1>8, <1>9
    <2>6. \E s \in at : at = {s} /\ s.scene_type = label[times[k]]
      BY <2>2, <2>4, <2>5
    <2>7. QED
      BY <1>12, <2>6 DEF at, final
  <1>13. CASE ~ (t < final)
    <2>1. ASSUME NEW j \in Starts
          PROVE  ~ (t < Span(j).end)
      <3>1. CASE Later(j) = {}
        BY <1>5, <1>13, <3>1
      <3>2. CASE Later(j) # {}
        <4> DEFINE m == Min(Later(j))
        <4>1. m \in 1..n /\ Span(j).end = times[m]
          BY <1>5, <1>11, <3>2
        <4> HIDE DEF m
        <4>2. times[m] <= final /\ times[m] \in Nat
          BY <1>1, <1>10, <4>1
        <4>3. QED
          BY <1>10, <1>13, <4>1, <4>2
      <3>3. QED
        BY <3>1, <3>2
    <2>2. at = {}
      BY <1>4, <2>1
    <2>3. QED
      BY <1>13, <2>2 DEF at, final
  <1>14. QED
    BY <1>12, <1>13

\* At any time up to a tail after the last frame there is one span, with the label of
\* the last frame; after that, and before the first frame, there is none.
THEOREM SceneIsOfTheLastFrame ==
  ASSUME NEW times, Ascending(times), NEW label, NEW t \in Nat, times[1] <= t
  PROVE  LET segments == build_scene_segments(times, label)
             at == {s \in segments : s.start <= t /\ t < s.end}
             frame == Max({f \in ToSet(times) : f <= t})
         IN  /\ scene_at(segments, t) = IF t < Max(ToSet(times)) + tail_interval(times)
                                          THEN label[frame] ELSE NoScene
             /\ at = {} \/ \E s \in at : at = {s}
  <1> DEFINE n == Len(times)
             segments == build_scene_segments(times, label)
             at == {s \in segments : s.start <= t /\ t < s.end}
             upto == {f \in ToSet(times) : f <= t}
             indexes == {i \in DOMAIN times : times[i] <= t}
             final == Last(times) + tail_interval(times)
  <1>1. /\ n \in Nat /\ n >= 1 /\ DOMAIN times = 1..n
        /\ \A i \in 1..n : i \in Nat /\ times[i] \in Nat
        /\ \A i, j \in 1..n : i <= j <=> times[i] <= times[j]
        /\ \A i \in 1..n : times[i] <= Last(times)
        /\ Last(times) = times[n]
    BY AscendingFacts
  <1>2. 1 \in indexes /\ indexes \in SUBSET Nat /\ \A i \in indexes : i <= n
    BY <1>1
  <1>3. PICK k \in indexes : \A j \in indexes : j <= k
    <2> HIDE DEF indexes
    <2>1. QED
      BY <1>1, <1>2, GreatestNumber
  <1>4. k \in DOMAIN times /\ times[k] <= t /\ \A j \in DOMAIN times : times[j] <= t => j <= k
    BY <1>3
  <1>5. Max(ToSet(times)) = Last(times)
    <2>1. ToSet(times) \in SUBSET Nat /\ Last(times) \in ToSet(times)
          /\ \A f \in ToSet(times) : f <= Last(times)
      BY <1>1 DEF ToSet
    <2>2. Max(ToSet(times)) \in ToSet(times) /\ \A f \in ToSet(times) : f <= Max(ToSet(times))
      BY <2>1, MaxOf
    <2>3. QED
      BY <2>1, <2>2
  <1>6. Max(upto) = times[k]
    <2>1. times[k] \in upto /\ upto \in SUBSET Nat
      BY <1>1, <1>4 DEF ToSet
    <2>2. \A f \in upto : f <= times[k]
      BY <1>1, <1>4 DEF ToSet
    <2> HIDE DEF upto
    <2>3. times[k] \in Nat
      BY <2>1
    <2>4. Max(upto) \in upto /\ \A f \in upto : f <= Max(upto)
      BY <2>1, <2>2, <2>3, MaxOf
    <2>5. Max(upto) \in Nat /\ Max(upto) <= times[k] /\ times[k] <= Max(upto)
      BY <2>1, <2>2, <2>4
    <2>6. QED
      BY <2>3, <2>5
  <1>7. IF t < final THEN \E s \in at : at = {s} /\ s.scene_type = label[times[k]] ELSE at = {}
    BY <1>4, SpansAt
  <1>8. scene_at(segments, t) =
          IF at = {} THEN NoScene
          ELSE (CHOOSE s \in at : \A o \in at : o.start <= s.start).scene_type
    BY DEF scene_at
  <1>9. \A s \in segments : s.start \in Nat
    BY <1>1, SegmentsAreSpans DEF SpanOf, StartsOf
  <1> HIDE DEF segments, final, upto
  <1>10. CASE t < final
    <2>1. PICK s \in at : at = {s} /\ s.scene_type = label[times[k]]
      BY <1>7, <1>10
    <2>2. s.start <= s.start
      BY <1>9
    <2>3. (CHOOSE x \in at : \A o \in at : o.start <= x.start) = s
      BY <2>1, <2>2
    <2>4. scene_at(segments, t) = label[times[k]]
      BY <1>8, <2>1, <2>3
    <2> HIDE DEF at
    <2>5. QED
      BY <1>5, <1>6, <1>10, <2>1, <2>4 DEF at, final, segments, upto
  <1>11. CASE ~ (t < final)
    <2>1. at = {}
      BY <1>7, <1>11
    <2> HIDE DEF at
    <2>2. QED
      BY <1>5, <1>8, <1>11, <2>1 DEF at, final, segments
  <1>12. QED
    BY <1>10, <1>11

\* As many frames have a label as there are indexes of such frames.
LEMMA FramesOfLabel ==
  ASSUME NEW times, Ascending(times), NEW label, NEW type
  PROVE  LET indexes == {j \in DOMAIN times : label[times[j]] = type}
             frames == {f \in ToSet(times) : label[f] = type}
         IN  Cardinality(frames) = Cardinality(indexes) /\ Cardinality(indexes) \in 0..Len(times)
  <1> DEFINE n == Len(times)
             indexes == {j \in DOMAIN times : label[times[j]] = type}
             frames == {f \in ToSet(times) : label[f] = type}
             F == [j \in indexes |-> times[j]]
  <1>1. /\ n \in Nat /\ DOMAIN times = 1..n
        /\ \A i \in 1..n : i \in Nat /\ times[i] \in Nat
        /\ \A i, j \in 1..n : i <= j <=> times[i] <= times[j]
    BY AscendingFacts
  <1>2. \A i, j \in 1..n : times[i] = times[j] => i = j
    <2> SUFFICES ASSUME NEW i \in 1..n, NEW j \in 1..n, times[i] = times[j] PROVE i = j
      OBVIOUS
    <2>1. i <= j /\ j <= i
      BY <1>1
    <2>2. QED
      BY <1>1, <2>1
  <1>3. indexes \in SUBSET (1..n)
    BY <1>1
  <1>4. IsFiniteSet(1..n) /\ Cardinality(1..n) = n
    BY <1>1, FS_Interval
  <1>5. IsFiniteSet(indexes) /\ Cardinality(indexes) <= n /\ Cardinality(indexes) \in Nat
    BY <1>3, <1>4, FS_Subset, FS_CardinalityType
  <1>6. F \in [indexes -> frames]
    BY DEF ToSet
  <1>7. \A f \in frames : \E j \in indexes : F[j] = f
    BY DEF ToSet
  <1>8. \A i, j \in indexes : F[i] = F[j] => i = j
    BY <1>2, <1>3
  <1> HIDE DEF F, indexes, frames
  <1>9. F \in Bijection(indexes, frames)
    BY <1>6, <1>7, <1>8 DEF Bijection, Injection, Surjection, IsInjective
  <1>10. Cardinality(frames) = Cardinality(indexes)
    BY <1>5, <1>9, FS_Bijection DEF ExistsBijection
  <1>11. QED
    BY <1>1, <1>5, <1>10 DEF indexes, frames

\* No label has more frames than the dominant one.
THEOREM DominantHasMostFrames ==
  ASSUME NEW times, Ascending(times), NEW label, NEW type
  PROVE  LET FramesOf(l) == {f \in ToSet(times) : label[f] = l}
         IN  Cardinality(FramesOf(type)) <= Cardinality(FramesOf(dominant(times, label)))
  <1> DEFINE n == Len(times)
             FramesOf(l) == {f \in ToSet(times) : label[f] = l}
             Count(i) == Cardinality({j \in DOMAIN times : label[times[j]] = label[times[i]]})
             counts == {Count(i) : i \in 1..n}
             most == {i \in DOMAIN times : \A j \in DOMAIN times : Count(j) <= Count(i)}
  <1>1. n \in Nat /\ n >= 1 /\ DOMAIN times = 1..n
    BY AscendingFacts
  <1>2. \A i \in 1..n : Cardinality(FramesOf(label[times[i]])) = Count(i) /\ Count(i) \in 0..n
    BY FramesOfLabel
  <1>3. \A i \in 1..n : Count(i) \in Nat /\ Count(i) <= n
    <2> SUFFICES ASSUME NEW i \in 1..n PROVE Count(i) \in Nat /\ Count(i) <= n
      OBVIOUS
    <2>1. Count(i) \in 0..n
      BY <1>2
    <2> HIDE DEF Count
    <2>2. QED
      BY <2>1, <1>1
  <1>4. dominant(times, label) = label[times[Min(most)]]
    BY DEF dominant
  <1>5. \A f \in ToSet(times) : \E i \in 1..n : f = times[i]
    BY <1>1 DEF ToSet
  <1>14. most = {i \in 1..n : \A j \in 1..n : Count(j) <= Count(i)}
    BY <1>1
  <1> HIDE DEF Count, n, most, FramesOf
  <1>15. counts \in SUBSET Nat /\ Count(1) \in counts /\ \A c \in counts : c <= n
    BY <1>1, <1>3
  <1>6. PICK c \in counts : \A d \in counts : d <= c
    <2> HIDE DEF counts
    <2>1. QED
      BY <1>1, <1>15, GreatestNumber
  <1>7. most # {} /\ most \in SUBSET Nat
    <2>1. PICK i \in 1..n : c = Count(i)
      BY <1>6
    <2>2. i \in most
      BY <2>1, <1>6, <1>14
    <2>3. QED
      BY <2>2, <1>14
  <1>8. Min(most) \in most
    BY <1>7, MinOf
  <1>9. Min(most) \in 1..n /\ \A j \in 1..n : Count(j) <= Count(Min(most))
    BY <1>8, <1>14
  <1>10. Cardinality(FramesOf(dominant(times, label))) = Count(Min(most)) /\ Count(Min(most)) \in Nat
    BY <1>2, <1>3, <1>4, <1>9
  <1>11. ASSUME NEW i \in 1..n, label[times[i]] = type
         PROVE  Cardinality(FramesOf(type)) <= Cardinality(FramesOf(dominant(times, label)))
    <2>1. Cardinality(FramesOf(type)) = Count(i)
      BY <1>2, <1>11
    <2>2. QED
      BY <2>1, <1>9, <1>10
  <1>12. ASSUME ~ \E i \in 1..n : label[times[i]] = type
         PROVE  Cardinality(FramesOf(type)) <= Cardinality(FramesOf(dominant(times, label)))
    <2>1. FramesOf(type) = {}
      BY <1>5, <1>12 DEF FramesOf
    <2>2. Cardinality(FramesOf(type)) = 0
      BY <2>1, FS_EmptySet
    <2>3. QED
      BY <1>10, <2>2
  <1>13. Cardinality(FramesOf(type)) <= Cardinality(FramesOf(dominant(times, label)))
    BY <1>11, <1>12
  <1>16. QED
    BY <1>13 DEF FramesOf
=============================================================================
