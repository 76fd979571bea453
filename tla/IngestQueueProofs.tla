-------------------------- MODULE IngestQueueProofs --------------------------
(***************************************************************************)
(* Proofs about IngestQueue, for every set of paths, manifests, clients    *)
(* and workers, both kinds of worker and every number of rows and attempts.*)
(***************************************************************************)
EXTENDS IngestQueue, TLAPS, FiniteSetTheorems

Steps == {"register", "index", "finish", "raised", "refused"}

\* The parts of the state of which TypeOK says nothing.
TypedToo ==
  /\ kind \in {"remote", "local"}
  /\ batch \in [Clients -> [manifest : Manifests \cup {<< >>}, checked : Nat]]
  /\ runs \in [Workers -> [job : {0} \cup Ids, step : {"idle"} \cup Steps]]
  /\ \A w \in Workers : runs[w] # Idle => runs[w].step \in Steps

\* A row that may still be charged an attempt has one left, and what an open
\* transaction inserted is as it was inserted.
RowsFit ==
  \A j \in DOMAIN jobs :
    /\ jobs[j].status \in {"queued", "running"} => jobs[j].attempts < MaxAttempts
    /\ jobs[j].tx # NoClient =>
         jobs[j].by = "batch" /\ jobs[j].status = "queued" /\ jobs[j].hash = NoHash

\* The hash on a row is that of its own source, or the row is the one that the
\* single machine's register inserted, which nobody claims.
HashesFit ==
  \A j \in DOMAIN jobs :
    /\ kind = "remote" =>
         /\ jobs[j].by # "register"
         /\ jobs[j].hash # NoHash => jobs[j].path # NoPath /\ jobs[j].hash = Bytes[jobs[j].path]
    /\ kind = "local" =>
         /\ jobs[j].hash # NoHash <=> jobs[j].by = "register"
         /\ jobs[j].by = "register" => jobs[j].status \in {"running", "complete"}

\* UNIQUE(content_hash).
HashIsUnique ==
  \A i, j \in DOMAIN jobs :
    jobs[i].hash # NoHash /\ jobs[i].hash = jobs[j].hash => i = j

\* What a row has on record was done for its hash.
DoneFits ==
  \A j \in DOMAIN jobs :
    /\ jobs[j].done # "nothing" => jobs[j].hash # NoHash
    /\ jobs[j].done = "indexed" => indexed[jobs[j].hash] # {}

\* A row that is worked on is running, for one worker.
OneRunner ==
  /\ \A w \in Workers : runs[w] # Idle =>
       Job(w).status = "running" /\ ~Job(w).abandoned /\ Job(w).by # "register"
  /\ \A v, w \in Workers : runs[v] # Idle /\ runs[v].job = runs[w].job => v = w

\* Past register a worker has a source, whose hash a remote one put on the row;
\* and it completes nothing that was not indexed.
RunsFit ==
  \A w \in Workers :
    /\ runs[w].step \in {"index", "finish"} =>
         Job(w).path # NoPath /\ (kind = "remote" => Job(w).hash = Hash(w))
    /\ runs[w].step = "finish" => indexed[Hash(w)] # {}

\* With remote workers, a job that indexed a video carries its hash.
IndexedByRow ==
  kind = "remote" => \A h \in Hashes : \A j \in indexed[h] :
    j \in DOMAIN jobs /\ jobs[j].hash = h

\* Each record that a batch has checked has a row that this batch inserted or
\* that was committed.
CheckedIsThere ==
  \A c \in Clients :
    /\ batch[c].checked <= Len(batch[c].manifest)
    /\ \A i \in 1..batch[c].checked : batch[c].manifest[i] # NoPath =>
         \E j \in DOMAIN jobs :
           /\ jobs[j].tx \in {NoClient, c}
           /\ jobs[j].by = "batch" /\ jobs[j].path = batch[c].manifest[i]

IInv ==
  /\ TypeOK /\ TypedToo
  /\ RowsFit /\ HashesFit /\ HashIsUnique /\ DoneFits
  /\ OneRunner /\ RunsFit /\ IndexedByRow
  /\ CheckedIsThere /\ AnsweredIsEnqueued /\ CompleteIsIndexed

-----------------------------------------------------------------------------
(* What the helpers of the actions do.                                     *)

\* A set of naturals that is not empty has a smallest member: the intervals from
\* 0 to its members are finite sets, which inclusion orders well.
LEMMA LeastMember ==
  ASSUME NEW T \in SUBSET Nat, T # {}
  PROVE  \E x \in T : \A y \in T : x =< y
  <1> DEFINE W == {0..x : x \in T}
  <1>1. \A x \in T : IsFiniteSet(0..x)
    BY FS_Interval
  <1>2. W \subseteq FiniteSubsetsOf(Nat) /\ W # {}
    <2>1. ASSUME NEW x \in T PROVE 0..x \in FiniteSubsetsOf(Nat)
      <3>1. 0..x \in SUBSET Nat
        OBVIOUS
      <3>2. QED
        BY <1>1, <3>1 DEF FiniteSubsetsOf
    <2>2. QED
      BY <2>1
  <1>3. PICK m \in W : \A k \in W : ~ (<<k, m>> \in StrictSubsetOrdering(Nat))
    BY <1>2, FS_StrictSubsetOrderingWellFounded, WFMin
  <1>4. PICK x \in T : m = 0..x
    OBVIOUS
  <1>5. ASSUME NEW y \in T, y < x PROVE FALSE
    <2>1. 0..y \in W /\ 0..y \subseteq m /\ x \in m /\ x \notin 0..y
      BY <1>4, <1>5
    <2>2. <<0..y, m>> \in StrictSubsetOrdering(Nat)
      BY <1>4, <2>1 DEF StrictSubsetOrdering
    <2>3. QED
      BY <1>3, <2>1, <2>2
  <1>6. QED
    BY <1>5

LEMMA MinIsMember ==
  ASSUME NEW T \in SUBSET Nat, T # {}
  PROVE  Min(T) \in T
  BY LeastMember DEF Min

\* The next id is above every one in use.
LEMMA NextIdIsFresh ==
  ASSUME TypeOK
  PROVE  NextId \notin DOMAIN jobs
  <1> DEFINE S == {0} \cup DOMAIN jobs
             U == {k \in Nat : \A x \in S : x =< k}
  <1>1. MaxRows \in Nat /\ S \subseteq 0..MaxRows
    BY QueueAssumption DEF TypeOK, Ids
  <1>2. U \in SUBSET Nat /\ MaxRows \in U
    BY <1>1
  <1>3. PICK m \in U : \A y \in U : m =< y
    BY <1>2, LeastMember
  <1>5. m \in S
    <2>1. SUFFICES ASSUME m \notin S PROVE FALSE
      OBVIOUS
    <2>2. m \in Nat /\ m # 0 /\ \A x \in S : x =< m - 1
      BY <1>1, <2>1
    <2>3. m - 1 \in U
      BY <2>2
    <2>4. QED
      BY <1>3, <2>2, <2>3
  <1>6. \A x \in S : m >= x
    BY <1>1
  <1>7. Max(S) \in S /\ \A x \in S : Max(S) >= x
    BY <1>5, <1>6 DEF Max
  <1>8. NextId = Max(S) + 1
    BY DEF NextId
  <1>9. Max(S) \in Nat /\ \A j \in DOMAIN jobs : Max(S) >= j
    BY <1>1, <1>7
  <1>10. \A j \in DOMAIN jobs : j \in Nat
    BY <1>1
  <1> HIDE DEF S
  <1>11. QED
    BY <1>8, <1>9, <1>10

\* The table has one more row, at an id that was free.
Adds(row) ==
  \E n \in Ids \ DOMAIN jobs :
    /\ DOMAIN jobs' = DOMAIN jobs \cup {n}
    /\ jobs'[n] = row
    /\ \A j \in DOMAIN jobs : jobs'[j] = jobs[j]

LEMMA InsertEffect ==
  ASSUME TypeOK, NEW row, Insert(row)
  PROVE  Adds(row)
  BY NextIdIsFresh DEF Insert, Adds

\* Every row that was there is still there, put there by the same request for
\* the same path in the same transaction.
Keeps ==
  /\ DOMAIN jobs \subseteq DOMAIN jobs'
  /\ \A j \in DOMAIN jobs :
       jobs'[j].by = jobs[j].by /\ jobs'[j].path = jobs[j].path /\ jobs'[j].tx = jobs[j].tx

\* What keeps the rows keeps what was checked and what was answered.
LEMMA KeepsAnswers ==
  ASSUME CheckedIsThere, AnsweredIsEnqueued, Keeps, UNCHANGED <<batch, told>>
  PROVE  CheckedIsThere' /\ AnsweredIsEnqueued'
  BY DEF Keeps, CheckedIsThere, AnsweredIsEnqueued, Committed

\* A row as register finds it, or the one that the single machine's register
\* inserts for a hash that no row has.
NewFits(row) ==
  /\ row \in Rows /\ row.attempts < MaxAttempts
  /\ \/ /\ row.by # "register" /\ row.hash = NoHash
        /\ row.status = "queued" /\ row.done = "nothing"
        /\ row.tx # NoClient => row.by = "batch"
     \/ /\ kind = "local" /\ row.by = "register" /\ row.tx = NoClient
        /\ row.status = "running" /\ row.done = "registered"
        /\ row.hash # NoHash /\ RowsOf(row.hash) = {}

\* What a row that fits leaves true when it is added.
LEMMA AddsKeeps ==
  ASSUME IInv, NEW row, Adds(row), NewFits(row), UNCHANGED <<kind, indexed>>
  PROVE  /\ Keeps
         /\ DOMAIN jobs' \subseteq Ids /\ \A j \in DOMAIN jobs' : jobs'[j] \in Rows
         /\ Committed \subseteq Committed'
         /\ RowsFit' /\ HashesFit' /\ HashIsUnique' /\ DoneFits'
         /\ IndexedByRow' /\ CompleteIsIndexed'
         /\ \A j \in DOMAIN jobs : jobs'[j] = jobs[j]
  <1> USE DEF IInv
  <1>1. PICK n \in Ids \ DOMAIN jobs :
          /\ DOMAIN jobs' = DOMAIN jobs \cup {n}
          /\ jobs'[n] = row
          /\ \A j \in DOMAIN jobs : jobs'[j] = jobs[j]
    BY DEF Adds
  <1>2. Keeps
    BY <1>1 DEF Keeps
  <1>3. DOMAIN jobs' \subseteq Ids /\ \A j \in DOMAIN jobs' : jobs'[j] \in Rows
    BY <1>1 DEF TypeOK, NewFits
  <1>4. Committed \subseteq Committed'
    BY <1>1 DEF Committed
  <1>5. RowsFit'
    BY <1>1 DEF RowsFit, NewFits
  <1>6. HashesFit'
    BY <1>1 DEF HashesFit, NewFits, TypedToo
  <1>7. HashIsUnique'
    BY <1>1 DEF HashIsUnique, NewFits, RowsOf
  <1>8. DoneFits'
    BY <1>1 DEF DoneFits, NewFits
  <1>9. IndexedByRow'
    BY <1>1 DEF IndexedByRow
  <1>10. CompleteIsIndexed'
    BY <1>1 DEF CompleteIsIndexed, NewFits
  <1>11. QED
    BY <1>1, <1>2, <1>3, <1>4, <1>5, <1>6, <1>7, <1>8, <1>9, <1>10

\* While no row and no run changes, the runs still fit.
LEMMA RunsKept ==
  ASSUME IInv, \A j \in DOMAIN jobs : jobs'[j] = jobs[j], Committed \subseteq Committed',
         UNCHANGED <<kind, runs, indexed>>
  PROVE  /\ \A w \in Workers : runs'[w] = Idle \/ runs'[w].job \in Committed'
         /\ OneRunner' /\ RunsFit'
  <1> USE DEF IInv
  <1>1. \A w \in Workers : runs[w] # Idle => runs[w].job \in DOMAIN jobs
    BY DEF TypeOK, Committed
  <1>2. OneRunner'
    BY <1>1 DEF OneRunner, Job
  <1>3. RunsFit'
    BY <1>1 DEF RunsFit, Job, Hash, Idle
  <1>4. QED
    BY <1>2, <1>3 DEF TypeOK

-----------------------------------------------------------------------------
(* The API.                                                                *)

LEMMA IngestStep ==
  ASSUME IInv, NEW p \in Paths, Ingest(p)
  PROVE  IInv'
  <1> USE DEF IInv
  <1> DEFINE row == NewRow("ingest", p, NoClient)
  <1>1. Adds(row) /\ UNCHANGED <<kind, batch, told, runs, indexed>>
    BY InsertEffect DEF Ingest
  <1>2. NewFits(row)
    BY QueueAssumption DEF NewFits, NewRow, Rows
  <1> HIDE DEF row
  <1>3. Committed \subseteq Committed' /\ Keeps
    BY <1>1, <1>2, AddsKeeps
  <1>4. TypeOK' /\ TypedToo'
    BY <1>1, <1>2, <1>3, AddsKeeps, RunsKept DEF TypeOK, TypedToo
  <1>5. CheckedIsThere' /\ AnsweredIsEnqueued'
    BY <1>1, <1>3, KeepsAnswers
  <1>6. QED
    BY <1>1, <1>2, <1>4, <1>5, AddsKeeps, RunsKept

LEMMA PostBatchStep ==
  ASSUME IInv, NEW c \in Clients, NEW m \in Manifests, PostBatch(c, m)
  PROVE  IInv'
  <1> USE DEF IInv
  <1> DEFINE new == [manifest |-> m, checked |-> 0]
  <1>1. batch' = [batch EXCEPT ![c] = new] /\ UNCHANGED <<kind, jobs, told, runs, indexed>>
    BY DEF PostBatch
  <1>2. /\ new \in [manifest : Manifests \cup {<< >>}, checked : Nat]
        /\ new.checked = 0 /\ Len(m) \in Nat /\ new.manifest = m
    BY QueueAssumption
  <1> HIDE DEF new
  <1>3. TypedToo'
    BY <1>1, <1>2 DEF TypedToo
  <1>4. CheckedIsThere'
    BY <1>1, <1>2 DEF CheckedIsThere, TypedToo
  <1>5. TypeOK' /\ AnsweredIsEnqueued'
    BY <1>1 DEF TypeOK, AnsweredIsEnqueued, Committed
  <1>6. /\ RowsFit' /\ HashesFit' /\ HashIsUnique' /\ DoneFits'
        /\ OneRunner' /\ RunsFit' /\ IndexedByRow' /\ CompleteIsIndexed'
    BY <1>1 DEF RowsFit, HashesFit, HashIsUnique, DoneFits, OneRunner, RunsFit,
                IndexedByRow, CompleteIsIndexed, Job, Hash
  <1>7. QED
    BY <1>3, <1>4, <1>5, <1>6

\* What a posted manifest lists are paths, or records without one.
LEMMA ManifestType ==
  ASSUME TypedToo, NEW c \in Clients
  PROVE  /\ batch[c].manifest \in Seq(Paths \cup {NoPath})
         /\ batch[c].checked \in Nat
  <1>1. /\ batch[c].manifest \in Manifests \cup {<< >>}
        /\ batch[c].checked \in Nat
    BY DEF TypedToo
  <1>2. << >> \in Seq(Paths \cup {NoPath})
    OBVIOUS
  <1>3. QED
    BY <1>1, <1>2, QueueAssumption

LEMMA CheckRecordStep ==
  ASSUME IInv, NEW c \in Clients, CheckRecord(c)
  PROVE  IInv'
  <1> USE DEF IInv
  <1> DEFINE k == batch[c].checked + 1
             path == batch[c].manifest[k]
             row == NewRow("batch", path, c)
  <1>1. /\ batch' = [batch EXCEPT ![c].checked = @ + 1]
        /\ UNCHANGED <<kind, told, runs, indexed>>
        /\ batch[c].checked < Len(batch[c].manifest)
    BY DEF CheckRecord
  <1>2. /\ k \in 1..Len(batch[c].manifest)
        /\ batch'[c].manifest = batch[c].manifest /\ batch'[c].checked = k
        /\ \A d \in Clients : d # c => batch'[d] = batch[d]
        /\ batch' \in [Clients -> [manifest : Manifests \cup {<< >>}, checked : Nat]]
    BY <1>1, ManifestType DEF TypedToo
  <1>3. path \in Paths \cup {NoPath}
    BY <1>2, ManifestType
  <1>4. TypedToo'
    BY <1>1, <1>2 DEF TypedToo
  <1>5. SUFFICES /\ TypeOK' /\ OneRunner' /\ RunsFit'
                 /\ RowsFit' /\ HashesFit' /\ HashIsUnique' /\ DoneFits'
                 /\ IndexedByRow' /\ CompleteIsIndexed'
                 /\ Keeps
                 /\ path # NoPath => \E j \in DOMAIN jobs' :
                      /\ jobs'[j].tx \in {NoClient, c}
                      /\ jobs'[j].by = "batch" /\ jobs'[j].path = path
    <2>1. CheckedIsThere'
      <3>1. ASSUME NEW d \in Clients, NEW i \in 1..batch'[d].checked,
                   batch'[d].manifest[i] # NoPath
            PROVE  \E j \in DOMAIN jobs' :
                     /\ jobs'[j].tx \in {NoClient, d}
                     /\ jobs'[j].by = "batch" /\ jobs'[j].path = batch'[d].manifest[i]
        <4>1. CASE d = c /\ i = k
          BY <1>2, <1>5, <3>1, <4>1
        <4>2. CASE ~(d = c /\ i = k)
          <5>1. i \in 1..batch[d].checked /\ batch'[d].manifest = batch[d].manifest
            BY <1>2, <4>2, ManifestType
          <5>2. PICK j \in DOMAIN jobs :
                  /\ jobs[j].tx \in {NoClient, d}
                  /\ jobs[j].by = "batch" /\ jobs[j].path = batch[d].manifest[i]
            BY <3>1, <5>1 DEF CheckedIsThere
          <5>3. QED
            BY <1>5, <5>1, <5>2 DEF Keeps
        <4>3. QED
          BY <4>1, <4>2
      <3>2. QED
        BY <1>2, <3>1 DEF CheckedIsThere
    <2>2. AnsweredIsEnqueued'
      BY <1>1, <1>5 DEF Keeps, AnsweredIsEnqueued, Committed
    <2>3. QED
      BY <1>4, <1>5, <2>1, <2>2
  <1>6. CASE Duplicate(c, path) /\ UNCHANGED jobs
    <2>1. Keeps /\ TypeOK'
      BY <1>1, <1>6 DEF Keeps, TypeOK, Committed
    <2>2. /\ RowsFit' /\ HashesFit' /\ HashIsUnique' /\ DoneFits'
          /\ OneRunner' /\ RunsFit' /\ IndexedByRow' /\ CompleteIsIndexed'
      BY <1>1, <1>6 DEF RowsFit, HashesFit, HashIsUnique, DoneFits, OneRunner, RunsFit,
                        IndexedByRow, CompleteIsIndexed, Job, Hash
    <2>3. QED
      BY <1>6, <2>1, <2>2 DEF Duplicate
  <1>7. CASE Insert(row)
    <2>1. Adds(row)
      BY <1>7, InsertEffect
    <2>2. NewFits(row) /\ row.tx = c /\ row.by = "batch" /\ row.path = path
      BY <1>3, QueueAssumption DEF NewFits, NewRow, Rows
    <2> HIDE DEF row
    <2>3. /\ RowsFit' /\ HashesFit' /\ HashIsUnique' /\ DoneFits'
          /\ IndexedByRow' /\ CompleteIsIndexed' /\ Keeps
      BY <1>1, <2>1, <2>2, AddsKeeps
    <2>4. TypeOK' /\ OneRunner' /\ RunsFit'
      BY <1>1, <2>1, <2>2, AddsKeeps, RunsKept DEF TypeOK
    <2>5. QED
      BY <2>1, <2>2, <2>3, <2>4 DEF Adds
  <1>8. QED
    BY <1>6, <1>7 DEF CheckRecord

\* The rows that c inserted become everybody's, and nothing else about any row
\* changes.
LEMMA CommitBatchStep ==
  ASSUME IInv, NEW c \in Clients, CommitBatch(c)
  PROVE  IInv'
  <1> USE DEF IInv
  <1>1. /\ UNCHANGED <<kind, runs, indexed>>
        /\ told' = told \cup (Range(batch[c].manifest) \ {NoPath})
        /\ batch' = [batch EXCEPT ![c] = NoBatch]
        /\ batch[c].checked = Len(batch[c].manifest)
    BY DEF CommitBatch
  <1>2. /\ DOMAIN jobs' = DOMAIN jobs
        /\ \A j \in DOMAIN jobs :
             /\ jobs'[j] \in Rows
             /\ jobs'[j].by = jobs[j].by /\ jobs'[j].path = jobs[j].path
             /\ jobs'[j].hash = jobs[j].hash /\ jobs'[j].status = jobs[j].status
             /\ jobs'[j].abandoned = jobs[j].abandoned
             /\ jobs'[j].attempts = jobs[j].attempts /\ jobs'[j].done = jobs[j].done
             /\ jobs'[j].tx = IF jobs[j].tx = c THEN NoClient ELSE jobs[j].tx
    BY DEF CommitBatch, TypeOK, Rows
  <1>3. /\ batch'[c].checked = 0 /\ batch'[c].manifest = << >>
        /\ batch' \in [Clients -> [manifest : Manifests \cup {<< >>}, checked : Nat]]
        /\ \A d \in Clients : d # c => batch'[d] = batch[d]
    BY <1>1 DEF NoBatch, TypedToo
  <1>4. Committed \subseteq Committed' /\ \A j \in DOMAIN jobs : jobs[j].tx = c => j \in Committed'
    BY <1>2 DEF Committed
  <1>5. \A p \in Range(batch[c].manifest) \ {NoPath} :
          p \in Paths /\ \E j \in Committed' : jobs'[j].by = "batch" /\ jobs'[j].path = p
    <2>1. SUFFICES ASSUME NEW i \in 1..Len(batch[c].manifest), batch[c].manifest[i] # NoPath
                   PROVE  /\ batch[c].manifest[i] \in Paths
                          /\ \E j \in Committed' : jobs'[j].by = "batch"
                                                  /\ jobs'[j].path = batch[c].manifest[i]
      BY ManifestType DEF Range
    <2>2. PICK j \in DOMAIN jobs :
            /\ jobs[j].tx \in {NoClient, c}
            /\ jobs[j].by = "batch" /\ jobs[j].path = batch[c].manifest[i]
      BY <1>1, <2>1 DEF CheckedIsThere
    <2>3. QED
      BY <1>2, <1>4, <2>1, <2>2, ManifestType DEF Committed
  <1>6. TypeOK' /\ TypedToo'
    BY <1>1, <1>2, <1>3, <1>4, <1>5 DEF TypeOK, TypedToo
  <1>7. RowsFit' /\ HashesFit' /\ HashIsUnique' /\ DoneFits'
    BY <1>1, <1>2 DEF RowsFit, HashesFit, HashIsUnique, DoneFits
  <1>8. IndexedByRow' /\ CompleteIsIndexed'
    BY <1>1, <1>2 DEF IndexedByRow, CompleteIsIndexed
  <1>9. OneRunner' /\ RunsFit'
    <2>1. \A w \in Workers : runs[w] # Idle => runs[w].job \in DOMAIN jobs
      BY DEF TypeOK, Committed
    <2>2. \A w \in Workers : runs[w].step \in {"index", "finish"} => runs[w] # Idle
      BY DEF Idle
    <2>3. OneRunner'
      BY <1>1, <1>2, <2>1 DEF OneRunner, Job
    <2>4. RunsFit'
      BY <1>1, <1>2, <2>1, <2>2 DEF RunsFit, Job, Hash
    <2>5. QED
      BY <2>3, <2>4
  <1>10. CheckedIsThere'
    BY <1>2, <1>3 DEF CheckedIsThere
  <1>11. AnsweredIsEnqueued'
    <2>1. ASSUME NEW p \in told
          PROVE  \E j \in Committed' : jobs'[j].by = "batch" /\ jobs'[j].path = p
      <3>1. PICK j \in Committed : jobs[j].by = "batch" /\ jobs[j].path = p
        BY DEF AnsweredIsEnqueued
      <3>2. QED
        BY <1>2, <1>4, <3>1 DEF Committed
    <2>2. QED
      BY <1>1, <1>5, <2>1 DEF AnsweredIsEnqueued
  <1>12. QED
    BY <1>6, <1>7, <1>8, <1>9, <1>10, <1>11

\* The rows that c inserted are gone; none of them was claimed, has a hash or
\* is what another batch relies on.
LEMMA AbortBatchStep ==
  ASSUME IInv, NEW c \in Clients, AbortBatch(c)
  PROVE  IInv'
  <1> USE DEF IInv
  <1>1. /\ UNCHANGED <<kind, told, runs, indexed>>
        /\ batch' = [batch EXCEPT ![c] = NoBatch]
    BY DEF AbortBatch
  <1>2. /\ DOMAIN jobs' = {j \in DOMAIN jobs : jobs[j].tx # c}
        /\ \A j \in DOMAIN jobs' : jobs'[j] = jobs[j]
        /\ NoClient # c
    BY QueueAssumption DEF AbortBatch, Restrict
  <1>3. /\ batch'[c].checked = 0 /\ batch'[c].manifest = << >>
        /\ batch' \in [Clients -> [manifest : Manifests \cup {<< >>}, checked : Nat]]
        /\ \A d \in Clients : d # c => batch'[d] = batch[d]
    BY <1>1 DEF NoBatch, TypedToo
  <1>4. Committed' = Committed
    BY <1>2 DEF Committed
  <1>5. TypeOK' /\ TypedToo'
    BY <1>1, <1>2, <1>3, <1>4 DEF TypeOK, TypedToo
  <1>6. RowsFit' /\ HashesFit' /\ HashIsUnique' /\ DoneFits'
    BY <1>1, <1>2 DEF RowsFit, HashesFit, HashIsUnique, DoneFits
  <1>7. IndexedByRow' /\ CompleteIsIndexed'
    BY <1>1, <1>2, QueueAssumption DEF IndexedByRow, CompleteIsIndexed, RowsFit, Hashes
  <1>8. OneRunner' /\ RunsFit'
    <2>1. \A w \in Workers : runs[w] # Idle =>
            runs[w].job \in DOMAIN jobs /\ jobs'[runs[w].job] = jobs[runs[w].job]
      BY <1>2 DEF TypeOK, Committed
    <2>2. QED
      BY <1>1, <2>1 DEF OneRunner, RunsFit, Job, Hash, Idle
  <1>9. CheckedIsThere'
    <2>1. ASSUME NEW d \in Clients, d # c, NEW j \in DOMAIN jobs, jobs[j].tx \in {NoClient, d}
          PROVE  j \in DOMAIN jobs' /\ jobs'[j] = jobs[j]
      BY <1>2, <2>1
    <2>2. QED
      BY <1>3, <2>1 DEF CheckedIsThere
  <1>10. AnsweredIsEnqueued'
    BY <1>1, <1>2, <1>4 DEF AnsweredIsEnqueued, Committed
  <1>11. QED
    BY <1>5, <1>6, <1>7, <1>8, <1>9, <1>10

-----------------------------------------------------------------------------
(* The workers.                                                            *)

\* A worker that runs something runs a committed row.
LEMMA RunsCommitted ==
  ASSUME TypeOK, NEW w \in Workers, runs[w] # Idle
  PROVE  /\ runs[w].job \in Committed /\ runs[w].job \in DOMAIN jobs
         /\ runs[w].job \in Ids /\ Job(w) \in Rows
  BY DEF TypeOK, Committed, Job

\* The row at j becomes row, and the others stay as they are.
Revises(j, row) ==
  /\ j \in DOMAIN jobs /\ DOMAIN jobs' = DOMAIN jobs
  /\ jobs'[j] = row
  /\ \A i \in DOMAIN jobs : i # j => jobs'[i] = jobs[i]

\* A revision that leaves a committed row committed and where it came from.
LEMMA RevisesKeeps ==
  ASSUME TypeOK, NEW j \in Committed, NEW row \in Rows, Revises(j, row),
         row.by = jobs[j].by, row.path = jobs[j].path, row.tx = jobs[j].tx
  PROVE  /\ Keeps /\ Committed' = Committed
         /\ DOMAIN jobs' \subseteq Ids /\ \A i \in DOMAIN jobs' : jobs'[i] \in Rows
  BY DEF TypeOK, Revises, Keeps, Committed

\* A worker moves to another step of its run, or to another run.
LEMMA RunsType ==
  ASSUME TypedToo, NEW w \in Workers, NEW r, runs' = [runs EXCEPT ![w] = r],
         r = Idle \/ (r.job \in Ids /\ r.step \in Steps /\ r = [job |-> r.job, step |-> r.step])
  PROVE  /\ runs' \in [Workers -> [job : {0} \cup Ids, step : {"idle"} \cup Steps]]
         /\ runs'[w] = r /\ \A v \in Workers : v # w => runs'[v] = runs[v]
         /\ \A v \in Workers : runs'[v] # Idle => runs'[v].step \in Steps
  BY DEF TypedToo, Idle

LEMMA ClaimStep ==
  ASSUME IInv, NEW w \in Workers, Claim(w)
  PROVE  IInv'
  <1> USE DEF IInv
  <1> DEFINE j == Min({i \in Committed : Eligible(i)})
             step == IF kind = "local" THEN "register" ELSE StepAfter[jobs[j].done]
             row == [jobs[j] EXCEPT !.status = "running", !.abandoned = FALSE]
  <1>1. j \in Committed /\ Eligible(j)
    <2>1. {i \in Committed : Eligible(i)} \in SUBSET Nat
      BY DEF TypeOK, Ids, Committed
    <2>2. {i \in Committed : Eligible(i)} # {}
      BY DEF Claim
    <2>3. QED
      BY <2>1, <2>2, MinIsMember
  <1>2. /\ jobs' = [jobs EXCEPT ![j].status = "running", ![j].abandoned = FALSE]
        /\ runs' = [runs EXCEPT ![w] = [job |-> j, step |-> step]]
        /\ UNCHANGED <<kind, batch, told, indexed>>
    BY DEF Claim
  <1> HIDE DEF j
  <1>3. j \in DOMAIN jobs /\ j \in Ids /\ jobs[j] \in Rows /\ jobs[j].tx = NoClient
    BY <1>1 DEF Committed, TypeOK
  <1>4. Revises(j, row)
    BY <1>2, <1>3 DEF Revises
  <1>5. /\ row \in Rows
        /\ row.status = "running" /\ ~row.abandoned
        /\ row.by = jobs[j].by /\ row.path = jobs[j].path /\ row.tx = jobs[j].tx
        /\ row.hash = jobs[j].hash /\ row.done = jobs[j].done
        /\ row.attempts = jobs[j].attempts
    BY <1>3 DEF Rows
  <1>6. /\ step \in {"register", "index", "finish"}
        /\ step # "register" => kind = "remote" /\ jobs[j].done # "nothing"
        /\ step = "finish" => jobs[j].done = "indexed"
    <2>1. jobs[j].done \in {"nothing", "registered", "indexed"}
      BY <1>3 DEF Rows
    <2>2. QED
      BY <2>1 DEF StepAfter, TypedToo
  <1> HIDE DEF row, step
  <1>7. /\ TypedToo' /\ runs'[w].job = j /\ runs'[w].step = step
        /\ \A v \in Workers : v # w => runs'[v] = runs[v]
    BY <1>2, <1>3, <1>6, RunsType DEF TypedToo, Steps
  <1>8. Keeps /\ Committed' = Committed /\ TypeOK'
    <2>1. /\ Keeps /\ Committed' = Committed
          /\ DOMAIN jobs' \subseteq Ids /\ \A i \in DOMAIN jobs' : jobs'[i] \in Rows
      BY <1>1, <1>4, <1>5, RevisesKeeps
    <2>2. \A v \in Workers : runs'[v] = Idle \/ runs'[v].job \in Committed
      BY <1>1, <1>7 DEF TypeOK
    <2>3. QED
      BY <1>2, <2>1, <2>2 DEF TypeOK
  <1>9. CheckedIsThere' /\ AnsweredIsEnqueued'
    BY <1>2, <1>8, KeepsAnswers
  <1>10. jobs[j].attempts < MaxAttempts /\ jobs[j].by # "register"
    <2>1. jobs[j].attempts < MaxAttempts
      BY <1>1, <1>3 DEF Eligible, RowsFit
    <2>2. kind = "local" => jobs[j].status # "running"
      BY <1>1, <1>3 DEF Eligible
    <2>3. jobs[j].status # "complete"
      BY <1>1, <1>3 DEF Eligible
    <2>4. QED
      BY <1>3, <2>1, <2>2, <2>3 DEF HashesFit, TypedToo
  <1>11. RowsFit' /\ HashesFit'
    <2>1. RowsFit'
      BY <1>2, <1>3, <1>4, <1>5, <1>10 DEF RowsFit, Revises
    <2>2. HashesFit'
      BY <1>2, <1>3, <1>4, <1>5, <1>10 DEF HashesFit, Revises
    <2>3. QED
      BY <2>1, <2>2
  <1>12. HashIsUnique' /\ DoneFits' /\ IndexedByRow' /\ CompleteIsIndexed'
    <2>1. \A i \in DOMAIN jobs : /\ jobs'[i].hash = jobs[i].hash
                                 /\ jobs'[i].done = jobs[i].done
                                 /\ jobs'[i].status = "complete" => jobs[i].status = "complete"
      BY <1>4, <1>5 DEF Revises
    <2>2. DOMAIN jobs' = DOMAIN jobs
      BY <1>4 DEF Revises
    <2>3. HashIsUnique'
      BY <2>1, <2>2, Zenon DEF HashIsUnique
    <2>4. DoneFits'
      BY <1>2, <2>1, <2>2 DEF DoneFits
    <2>5. IndexedByRow' /\ CompleteIsIndexed'
      BY <1>2, <2>1, <2>2 DEF IndexedByRow, CompleteIsIndexed
    <2>6. QED
      BY <2>3, <2>4, <2>5
  <1>13. \A v \in Workers : runs[v] # Idle => runs[v].job # j
    <2>1. SUFFICES ASSUME NEW v \in Workers, runs[v] # Idle, runs[v].job = j PROVE FALSE
      OBVIOUS
    <2>2. jobs[j].status = "running" /\ ~jobs[j].abandoned
      BY <2>1 DEF OneRunner, Job
    <2>3. QED
      BY <1>1, <2>2 DEF Eligible
  <1>14. OneRunner'
    <2>1. \A v \in Workers : v # w /\ runs'[v] # Idle =>
            runs'[v].job # j /\ jobs'[runs'[v].job] = jobs[runs[v].job]
      BY <1>4, <1>7, <1>13, RunsCommitted DEF Revises
    <2>2. \A v \in Workers : runs'[v] # Idle =>
            Job(v)'.status = "running" /\ ~Job(v)'.abandoned /\ Job(v)'.by # "register"
      BY <1>4, <1>5, <1>7, <1>10, <2>1 DEF OneRunner, Job, Revises
    <2>3. \A v \in Workers : v # w => runs'[v].job # j
      BY <1>3, <1>7, <1>13 DEF Idle, Ids
    <2>4. \A u, v \in Workers : runs'[u] # Idle /\ runs'[u].job = runs'[v].job => u = v
      BY <1>7, <2>3 DEF OneRunner
    <2>5. QED
      BY <2>2, <2>4 DEF OneRunner
  <1>15. RunsFit'
    <2>1. jobs[j].done # "nothing" /\ kind = "remote" =>
            /\ jobs[j].path # NoPath /\ jobs[j].hash = Bytes[jobs[j].path]
            /\ jobs[j].done = "indexed" => indexed[jobs[j].hash] # {}
      BY <1>3 DEF DoneFits, HashesFit
    <2>2. \A v \in Workers : runs[v].step \in {"index", "finish"} => runs[v] # Idle
      BY DEF Idle
    <2>3. Job(w)' = row
      BY <1>3, <1>4, <1>7 DEF Job, Revises
    <2>4. ASSUME NEW v \in Workers
          PROVE  /\ runs'[v].step \in {"index", "finish"} =>
                      Job(v)'.path # NoPath /\ (kind' = "remote" => Job(v)'.hash = Hash(v)')
                 /\ runs'[v].step = "finish" => indexed'[Hash(v)'] # {}
      <3>1. CASE v = w
        BY <1>2, <1>5, <1>6, <1>7, <2>1, <2>3, <3>1 DEF Hash
      <3>2. CASE v # w /\ runs[v] # Idle
        <4>1. runs'[v] = runs[v] /\ Job(v)' = Job(v)
          BY <1>4, <1>7, <1>13, <3>2, RunsCommitted DEF Job, Revises
        <4>2. QED
          BY <1>2, <4>1 DEF RunsFit, Hash
      <3>3. CASE v # w /\ runs[v] = Idle
        BY <1>7, <2>2, <3>3
      <3>4. QED
        BY <3>1, <3>2, <3>3
    <2>5. QED
      BY ONLY <2>4 DEF RunsFit, Job, Hash
  <1>16. QED
    BY <1>7, <1>8, <1>9, <1>11, <1>12, <1>14, <1>15

\* w moves to another step of the same run.
LEMMA GoToEffect ==
  ASSUME TypeOK, TypedToo, NEW w \in Workers, runs[w] # Idle,
         NEW step \in Steps, GoTo(w, step)
  PROVE  /\ runs' \in [Workers -> [job : {0} \cup Ids, step : {"idle"} \cup Steps]]
         /\ runs'[w].job = runs[w].job /\ runs'[w].step = step /\ runs'[w] # Idle
         /\ \A v \in Workers : v # w => runs'[v] = runs[v]
         /\ \A v \in Workers : runs'[v] # Idle => runs'[v].step \in Steps
  <1> DEFINE r == [runs[w] EXCEPT !.step = step]
  <1>1. runs' = [runs EXCEPT ![w] = r]
    BY DEF GoTo
  <1>2. runs[w] \in [job : {0} \cup Ids, step : {"idle"} \cup Steps] /\ runs[w].job \in Ids
    BY RunsCommitted DEF TypedToo
  <1>3. r.job = runs[w].job /\ r.step = step /\ r = [job |-> r.job, step |-> r.step]
    BY <1>2
  <1> HIDE DEF r
  <1>4. r # Idle
    BY <1>3 DEF Steps, Idle
  <1>5. r.job \in Ids /\ r.step \in Steps
    BY <1>2, <1>3
  <1>6. QED
    BY <1>1, <1>3, <1>4, <1>5, RunsType

\* Every row stays where it is and keeps what it was made of.
Touches ==
  /\ DOMAIN jobs' = DOMAIN jobs
  /\ \A j \in DOMAIN jobs :
       /\ jobs'[j] \in Rows
       /\ jobs'[j].by = jobs[j].by /\ jobs'[j].path = jobs[j].path /\ jobs'[j].tx = jobs[j].tx

LEMMA TouchesKeeps ==
  ASSUME TypeOK, Touches
  PROVE  Keeps /\ Committed' = Committed
  BY DEF Touches, Keeps, Committed

\* A worker goes on with its run or ends it; whoever still runs something finds
\* the row as it was to him.
LEMMA RunnersKept ==
  ASSUME IInv, NEW w \in Workers, Committed \subseteq Committed',
         \A v \in Workers : v # w => runs'[v] = runs[v],
         runs'[w] = Idle \/ (runs[w] # Idle /\ runs'[w].job = runs[w].job),
         \A v \in Workers : runs'[v] # Idle =>
           /\ jobs'[runs[v].job].status = jobs[runs[v].job].status
           /\ jobs'[runs[v].job].abandoned = jobs[runs[v].job].abandoned
           /\ jobs'[runs[v].job].by = jobs[runs[v].job].by
  PROVE  /\ OneRunner'
         /\ \A v \in Workers : runs'[v] = Idle \/ runs'[v].job \in Committed'
  <1> USE DEF IInv
  <1>1. \A v \in Workers : runs'[v] # Idle =>
          runs[v] # Idle /\ runs'[v].job = runs[v].job /\ runs[v].job \in Committed
    BY RunsCommitted
  <1>2. \A v \in Workers : runs'[v] # Idle =>
          Job(v)'.status = "running" /\ ~Job(v)'.abandoned /\ Job(v)'.by # "register"
    BY <1>1 DEF OneRunner, Job
  <1>3. ASSUME NEW u \in Workers, NEW v \in Workers, runs'[u] # Idle, runs'[u].job = runs'[v].job
        PROVE  u = v
    <2>1. runs'[u].job # 0
      BY <1>1, <1>3 DEF TypeOK, Committed, Ids
    <2>2. runs'[v] # Idle
      BY <1>3, <2>1 DEF Idle
    <2>3. QED
      BY <1>1, <1>3, <2>2 DEF OneRunner
  <1>4. QED
    BY <1>1, <1>2, <1>3 DEF OneRunner

\* A worker past its claim has a hash to register, if its row has a path.
LEMMA HashType ==
  ASSUME TypeOK, NEW w \in Workers, runs[w] # Idle, Job(w).path # NoPath
  PROVE  Hash(w) \in Hashes /\ Hash(w) # NoHash
  BY RunsCommitted, QueueAssumption DEF Rows, Hash, Hashes

LEMMA RaiseStep ==
  ASSUME IInv, NEW w \in Workers, Raise(w)
  PROVE  IInv'
  <1> USE DEF IInv
  <1>1. /\ runs[w] # Idle /\ GoTo(w, "raised") /\ UNCHANGED <<kind, jobs, batch, told, indexed>>
    BY DEF Raise, Idle, tableVars
  <1>2. /\ runs'[w].job = runs[w].job /\ runs'[w].step = "raised" /\ TypedToo'
        /\ \A v \in Workers : v # w => runs'[v] = runs[v]
    BY <1>1, GoToEffect DEF Steps, TypedToo
  <1>3. Committed' = Committed
    BY <1>1 DEF Committed
  <1>4. OneRunner' /\ TypeOK'
    <2>1. OneRunner' /\ \A v \in Workers : runs'[v] = Idle \/ runs'[v].job \in Committed'
      BY <1>1, <1>2, <1>3, RunnersKept
    <2>2. QED
      BY <1>1, <2>1 DEF TypeOK
  <1>5. RunsFit'
    BY <1>1, <1>2 DEF RunsFit, Job, Hash
  <1>6. /\ RowsFit' /\ HashesFit' /\ HashIsUnique' /\ DoneFits'
        /\ IndexedByRow' /\ CompleteIsIndexed' /\ CheckedIsThere' /\ AnsweredIsEnqueued'
    BY <1>1, <1>3 DEF RowsFit, HashesFit, HashIsUnique, DoneFits, IndexedByRow,
                      CompleteIsIndexed, CheckedIsThere, AnsweredIsEnqueued
  <1>7. QED
    BY <1>2, <1>4, <1>5, <1>6

\* The row of a run that ends is charged an attempt, or has been abandoned.
LEMMA LeaveStep ==
  ASSUME IInv, NEW w \in Workers, Fail(w) \/ Die(w)
  PROVE  IInv'
  <1> USE DEF IInv
  <1> DEFINE j == runs[w].job
  <1>1. /\ runs[w] # Idle /\ runs' = [runs EXCEPT ![w] = Idle]
        /\ UNCHANGED <<kind, batch, told, indexed>>
    BY DEF Fail, Die, Idle
  <1>2. j \in Committed /\ j \in DOMAIN jobs /\ jobs[j] \in Rows
    BY <1>1, RunsCommitted DEF Job
  <1>3. jobs[j].status = "running" /\ jobs[j].attempts < MaxAttempts /\ jobs[j].by # "register"
    BY <1>1, <1>2 DEF OneRunner, Job, RowsFit
  <1>4. /\ DOMAIN jobs' = DOMAIN jobs /\ \A i \in DOMAIN jobs : i # j => jobs'[i] = jobs[i]
        /\ jobs'[j] \in Rows
        /\ jobs'[j].by = jobs[j].by /\ jobs'[j].path = jobs[j].path /\ jobs'[j].tx = jobs[j].tx
        /\ jobs'[j].hash = jobs[j].hash /\ jobs'[j].done = jobs[j].done
        /\ \/ jobs'[j].status = "failed"
           \/ jobs'[j].status = "running" /\ jobs'[j].attempts = jobs[j].attempts
    <2>1. CASE Fail(w)
      <3>1. jobs[j].attempts + 1 \in 0..MaxAttempts
        BY <1>2, <1>3, QueueAssumption DEF Rows
      <3>2. QED
        BY <1>2, <2>1, <3>1 DEF Fail, Rows
    <2>2. CASE Die(w)
      BY <1>2, <1>3, <2>2 DEF Die, Rows
    <2>3. QED
      BY <2>1, <2>2
  <1> HIDE DEF j
  <1>5. Touches
    BY <1>2, <1>4 DEF Touches, TypeOK
  <1>6. Committed' = Committed /\ CheckedIsThere' /\ AnsweredIsEnqueued'
    BY <1>1, <1>5, TouchesKeeps, KeepsAnswers
  <1>7. /\ TypedToo' /\ runs'[w] = Idle
        /\ \A v \in Workers : v # w => runs'[v] = runs[v]
    BY <1>1, RunsType DEF TypedToo
  <1>8. \A v \in Workers : runs'[v] # Idle =>
          runs'[v] = runs[v] /\ runs[v].job # j /\ jobs'[runs[v].job] = jobs[runs[v].job]
    BY <1>1, <1>4, <1>7, RunsCommitted DEF OneRunner, j
  <1>9. OneRunner' /\ TypeOK'
    <2>1. OneRunner' /\ \A v \in Workers : runs'[v] = Idle \/ runs'[v].job \in Committed'
      BY <1>6, <1>7, <1>8, RunnersKept
    <2>2. QED
      BY <1>1, <1>5, <2>1 DEF TypeOK, Touches
  <1>10. RunsFit'
    <2>1. \A v \in Workers : runs'[v].step \in {"index", "finish"} => runs'[v] # Idle
      BY DEF Idle
    <2>2. QED
      BY <1>1, <1>8, <2>1 DEF RunsFit, Job, Hash
  <1>11. RowsFit' /\ HashesFit'
    BY <1>1, <1>2, <1>3, <1>4 DEF RowsFit, HashesFit, Committed
  <1>12. HashIsUnique' /\ DoneFits'
    BY <1>1, <1>4 DEF HashIsUnique, DoneFits
  <1>13. IndexedByRow' /\ CompleteIsIndexed'
    BY <1>1, <1>4 DEF IndexedByRow, CompleteIsIndexed
  <1>14. QED
    BY <1>6, <1>7, <1>9, <1>10, <1>11, <1>12, <1>13

\* The hash of the source goes onto the row of the job.
TakesHash(w) ==
  jobs' = [jobs EXCEPT ![runs[w].job].hash = Hash(w), ![runs[w].job].done = "registered"]

LEMMA RegisterRemoteStep ==
  ASSUME IInv, NEW w \in Workers, Register(w), kind = "remote",
         RowsOf(Hash(w)) \subseteq {runs[w].job}, GoTo(w, "index"),
         TakesHash(w)
  PROVE  IInv'
  <1> USE DEF IInv
  <1> DEFINE j == runs[w].job
  <1>1. /\ runs[w] # Idle /\ Job(w).path # NoPath
        /\ UNCHANGED <<kind, batch, told, indexed>>
    BY DEF Register, AtStep, HasSource, Idle
  <1>2. j \in Committed /\ j \in DOMAIN jobs /\ jobs[j] \in Rows
    BY <1>1, RunsCommitted DEF Job
  <1>3. Hash(w) \in Hashes /\ Hash(w) # NoHash /\ Hash(w) = Bytes[jobs[j].path]
        /\ jobs[j].path # NoPath
    BY <1>1, HashType DEF Hash, Job
  <1>4. jobs[j].status = "running" /\ jobs[j].by # "register"
    BY <1>1 DEF OneRunner, Job
  <1>5. /\ DOMAIN jobs' = DOMAIN jobs /\ \A i \in DOMAIN jobs : i # j => jobs'[i] = jobs[i]
        /\ jobs'[j] \in Rows
        /\ jobs'[j].by = jobs[j].by /\ jobs'[j].path = jobs[j].path /\ jobs'[j].tx = jobs[j].tx
        /\ jobs'[j].status = jobs[j].status /\ jobs'[j].abandoned = jobs[j].abandoned
        /\ jobs'[j].attempts = jobs[j].attempts
        /\ jobs'[j].hash = Hash(w) /\ jobs'[j].done = "registered"
    BY <1>2, <1>3 DEF TakesHash, Rows
  <1> HIDE DEF j
  <1>6. Touches
    BY <1>2, <1>5 DEF Touches, TypeOK
  <1>7. Committed' = Committed /\ CheckedIsThere' /\ AnsweredIsEnqueued'
    BY <1>1, <1>6, TouchesKeeps, KeepsAnswers
  <1>8. /\ TypedToo' /\ runs'[w].job = j /\ runs'[w].step = "index"
        /\ \A v \in Workers : v # w => runs'[v] = runs[v]
    BY <1>1, GoToEffect DEF TypedToo, Steps, j
  <1>9. \A v \in Workers : v # w /\ runs[v] # Idle =>
          runs[v].job # j /\ jobs'[runs[v].job] = jobs[runs[v].job]
    BY <1>5, RunsCommitted DEF OneRunner, j
  <1>10. OneRunner' /\ TypeOK'
    <2>1. \A v \in Workers : runs'[v] # Idle =>
            /\ jobs'[runs[v].job].status = jobs[runs[v].job].status
            /\ jobs'[runs[v].job].abandoned = jobs[runs[v].job].abandoned
            /\ jobs'[runs[v].job].by = jobs[runs[v].job].by
      BY <1>5, <1>8, <1>9 DEF j
    <2>2. OneRunner' /\ \A v \in Workers : runs'[v] = Idle \/ runs'[v].job \in Committed'
      BY <1>1, <1>7, <1>8, <2>1, RunnersKept DEF j
    <2>3. QED
      BY <1>1, <1>6, <2>2 DEF TypeOK, Touches
  <1>11. RunsFit'
    <2>1. \A v \in Workers : runs[v].step \in {"index", "finish"} => runs[v] # Idle
      BY DEF Idle
    <2>2. /\ Job(w)'.path = jobs[j].path /\ Hash(w)' = Hash(w) /\ Job(w)'.hash = Hash(w)
          /\ runs'[w].step = "index"
      BY <1>3, <1>5, <1>8 DEF Job, Hash
    <2>3. ASSUME NEW v \in Workers
          PROVE  /\ runs'[v].step \in {"index", "finish"} =>
                      Job(v)'.path # NoPath /\ (kind' = "remote" => Job(v)'.hash = Hash(v)')
                 /\ runs'[v].step = "finish" => indexed'[Hash(v)'] # {}
      <3>1. CASE v = w
        BY <1>3, <2>2, <3>1
      <3>2. CASE v # w /\ runs[v] # Idle
        <4>1. runs'[v] = runs[v] /\ Job(v)' = Job(v)
          BY <1>8, <1>9, <3>2 DEF Job
        <4>2. QED
          BY <1>1, <4>1 DEF RunsFit, Hash
      <3>3. CASE v # w /\ runs[v] = Idle
        BY <1>8, <2>1, <3>3
      <3>4. QED
        BY <3>1, <3>2, <3>3
    <2>4. QED
      BY ONLY <2>3 DEF RunsFit, Job, Hash
  <1>12. RowsFit' /\ HashesFit'
    BY <1>1, <1>2, <1>3, <1>4, <1>5 DEF RowsFit, HashesFit, Committed
  <1>13. HashIsUnique'
    BY <1>2, <1>5 DEF HashIsUnique, RowsOf, j
  <1>14. DoneFits'
    BY <1>1, <1>3, <1>5 DEF DoneFits
  <1>15. IndexedByRow'
    <2>1. jobs[j].hash # NoHash => jobs[j].hash = Hash(w)
      BY <1>2, <1>3 DEF HashesFit
    <2>2. NoHash \notin Hashes
      BY QueueAssumption DEF Hashes
    <2>3. QED
      BY <1>1, <1>2, <1>5, <2>1, <2>2 DEF IndexedByRow
  <1>16. CompleteIsIndexed'
    BY <1>1, <1>2, <1>4, <1>5 DEF CompleteIsIndexed
  <1>17. QED
    BY <1>7, <1>8, <1>10, <1>11, <1>12, <1>13, <1>14, <1>15, <1>16

\* A worker that is refused a hash changes no row.
LEMMA RefusedStep ==
  ASSUME IInv, NEW w \in Workers, Register(w), GoTo(w, "refused"), UNCHANGED jobs
  PROVE  IInv'
  <1> USE DEF IInv
  <1>1. runs[w] # Idle /\ UNCHANGED <<kind, jobs, batch, told, indexed>>
    BY DEF Register, AtStep, Idle
  <1>2. /\ runs'[w].job = runs[w].job /\ runs'[w].step = "refused" /\ TypedToo'
        /\ \A v \in Workers : v # w => runs'[v] = runs[v]
    BY <1>1, GoToEffect DEF Steps, TypedToo
  <1>3. Committed' = Committed
    BY <1>1 DEF Committed
  <1>4. OneRunner' /\ TypeOK'
    <2>1. OneRunner' /\ \A v \in Workers : runs'[v] = Idle \/ runs'[v].job \in Committed'
      BY <1>1, <1>2, <1>3, RunnersKept
    <2>2. QED
      BY <1>1, <2>1 DEF TypeOK
  <1>5. RunsFit'
    BY <1>1, <1>2 DEF RunsFit, Job, Hash
  <1>6. /\ RowsFit' /\ HashesFit' /\ HashIsUnique' /\ DoneFits'
        /\ IndexedByRow' /\ CompleteIsIndexed' /\ CheckedIsThere' /\ AnsweredIsEnqueued'
    BY <1>1, <1>3 DEF RowsFit, HashesFit, HashIsUnique, DoneFits, IndexedByRow,
                      CompleteIsIndexed, CheckedIsThere, AnsweredIsEnqueued
  <1>7. QED
    BY <1>2, <1>4, <1>5, <1>6

\* The single machine marks the row that has the hash, or inserts one.
LEMMA RegisterLocalStep ==
  ASSUME IInv, NEW w \in Workers, Register(w), kind = "local", RegisterLocal(w)
  PROVE  IInv'
  <1> USE DEF IInv
  <1> DEFINE h == Hash(w)
  <1>1. /\ runs[w] # Idle /\ Job(w).path # NoPath
        /\ UNCHANGED <<kind, batch, told, indexed>> /\ GoTo(w, "index")
    BY DEF Register, RegisterLocal, AtStep, HasSource, Idle
  <1>2. h \in Hashes /\ h # NoHash
    BY <1>1, HashType
  <1>3. /\ TypedToo' /\ runs'[w].job = runs[w].job /\ runs'[w].step = "index"
        /\ \A v \in Workers : v # w => runs'[v] = runs[v]
    BY <1>1, GoToEffect DEF TypedToo, Steps
  <1>4. SUFFICES /\ Keeps /\ Committed \subseteq Committed'
                 /\ DOMAIN jobs' \subseteq Ids /\ \A j \in DOMAIN jobs' : jobs'[j] \in Rows
                 /\ RowsFit' /\ HashesFit' /\ HashIsUnique' /\ DoneFits'
                 /\ IndexedByRow' /\ CompleteIsIndexed'
                 /\ \A j \in DOMAIN jobs : jobs'[j].status = jobs[j].status
                                          /\ jobs'[j].abandoned = jobs[j].abandoned
    <2>1. CheckedIsThere' /\ AnsweredIsEnqueued'
      BY <1>1, <1>4, KeepsAnswers
    <2>2. \A v \in Workers : runs[v] # Idle => runs[v].job \in DOMAIN jobs
      BY RunsCommitted
    <2>3. \A v \in Workers : runs'[v] # Idle => runs[v].job \in DOMAIN jobs
      BY <1>1, <1>3, <2>2
    <2>4. OneRunner' /\ \A v \in Workers : runs'[v] = Idle \/ runs'[v].job \in Committed'
      BY <1>1, <1>3, <1>4, <2>3, RunnersKept DEF Keeps
    <2>5. RunsFit'
      <3>1. \A v \in Workers : runs[v].step \in {"index", "finish"} => runs[v] # Idle
        BY DEF Idle
      <3>2. QED
        BY <1>1, <1>3, <1>4, <2>2, <3>1 DEF RunsFit, Job, Hash, Keeps
    <2>6. QED
      BY <1>1, <1>3, <1>4, <2>1, <2>4, <2>5 DEF TypeOK
  <1>5. CASE RowsOf(h) # {}
    <2>1. /\ DOMAIN jobs' = DOMAIN jobs
          /\ \A j \in DOMAIN jobs :
               /\ jobs'[j] \in Rows
               /\ jobs'[j].by = jobs[j].by /\ jobs'[j].path = jobs[j].path
               /\ jobs'[j].tx = jobs[j].tx /\ jobs'[j].hash = jobs[j].hash
               /\ jobs'[j].status = jobs[j].status /\ jobs'[j].abandoned = jobs[j].abandoned
               /\ jobs'[j].attempts = jobs[j].attempts
               /\ \/ jobs'[j].done = jobs[j].done
                  \/ jobs'[j].done = "registered" /\ jobs[j].hash = h
      BY <1>5 DEF RegisterLocal, TypeOK, Rows
    <2>2. Touches
      BY <2>1 DEF Touches
    <2>3. Keeps /\ Committed' = Committed
      BY <2>2, TouchesKeeps
    <2>4. RowsFit' /\ HashesFit' /\ HashIsUnique'
      BY <1>1, <2>1 DEF RowsFit, HashesFit, HashIsUnique
    <2>5. DoneFits' /\ IndexedByRow' /\ CompleteIsIndexed'
      BY <1>1, <1>2, <2>1 DEF DoneFits, IndexedByRow, CompleteIsIndexed
    <2>6. QED
      BY <2>1, <2>3, <2>4, <2>5 DEF TypeOK
  <1>6. CASE RowsOf(h) = {}
    <2> DEFINE base == NewRow("register", NoPath, NoClient)
               row == [base EXCEPT !.hash = h, !.status = "running", !.done = "registered"]
    <2>1. Adds(row)
      BY <1>6, InsertEffect DEF RegisterLocal
    <2>2. /\ base \in Rows /\ base.by = "register" /\ base.path = NoPath
          /\ base.tx = NoClient /\ base.attempts = 0
      BY QueueAssumption DEF NewRow, Rows
    <2> HIDE DEF base
    <2>3. /\ row \in Rows /\ row.by = "register" /\ row.tx = NoClient /\ row.attempts = 0
          /\ row.hash = h /\ row.status = "running" /\ row.done = "registered"
      BY <1>2, <2>2 DEF Rows
    <2> HIDE DEF row
    <2>4. NewFits(row)
      BY <1>2, <1>6, <2>3, QueueAssumption DEF NewFits
    <2>5. QED
      BY <1>1, <2>1, <2>4, AddsKeeps
  <1>7. QED
    BY <1>5, <1>6

LEMMA RegisterStep ==
  ASSUME IInv, NEW w \in Workers, Register(w)
  PROVE  IInv'
  <1>1. CASE kind = "remote" /\ RegisterRemote(w)
    BY <1>1, RegisterRemoteStep, RefusedStep DEF RegisterRemote, TakesHash
  <1>2. CASE kind = "local" /\ RegisterLocal(w)
    BY <1>2, RegisterLocalStep
  <1>3. QED
    BY <1>1, <1>2 DEF Register

\* Rows with the hash of w's source are marked, and its data is written unless
\* one of them said that it was.
LEMMA IndexStep ==
  ASSUME IInv, NEW w \in Workers, Index(w)
  PROVE  IInv'
  <1> USE DEF IInv
  <1> DEFINE h == Hash(w)
             marked == IF kind = "remote" THEN {runs[w].job} ELSE RowsOf(h)
  <1>1. /\ runs[w] # Idle /\ runs[w].step = "index" /\ GoTo(w, "finish")
        /\ UNCHANGED <<kind, batch, told>>
    BY DEF Index, AtStep, Idle
  <1>2. h \in Hashes /\ h # NoHash /\ runs[w].job \in DOMAIN jobs /\ runs[w].job \in Ids
    BY <1>1, HashType, RunsCommitted DEF RunsFit
  <1>3. \A j \in marked : j \in DOMAIN jobs /\ jobs[j].hash = h
    BY <1>1, <1>2 DEF RunsFit, RowsOf, Job
  <1>4. jobs' = [j \in DOMAIN jobs |->
                   IF j \in marked THEN [jobs[j] EXCEPT !.done = "indexed"] ELSE jobs[j]]
    BY DEF Index
  <1>5. \/ indexed' = indexed /\ \E j \in marked : jobs[j].done = "indexed"
        \/ indexed' = [indexed EXCEPT ![h] = @ \cup {runs[w].job}]
    BY DEF Index
  <1> HIDE DEF marked
  <1>6. /\ DOMAIN jobs' = DOMAIN jobs
        /\ \A j \in DOMAIN jobs :
             /\ jobs'[j] \in Rows
             /\ jobs'[j].by = jobs[j].by /\ jobs'[j].path = jobs[j].path
             /\ jobs'[j].tx = jobs[j].tx /\ jobs'[j].hash = jobs[j].hash
             /\ jobs'[j].status = jobs[j].status /\ jobs'[j].abandoned = jobs[j].abandoned
             /\ jobs'[j].attempts = jobs[j].attempts
             /\ jobs'[j].done = jobs[j].done \/ (jobs'[j].done = "indexed" /\ jobs[j].hash = h)
    BY <1>3, <1>4 DEF TypeOK, Rows
  <1>7. /\ indexed' \in [Hashes -> SUBSET Ids] /\ indexed'[h] # {}
        /\ \A g \in Hashes : indexed[g] \subseteq indexed'[g]
        /\ \A g \in Hashes : \A j \in indexed'[g] :
             j \in indexed[g] \/ (g = h /\ j = runs[w].job)
    <2>1. CASE indexed' = indexed /\ \E j \in marked : jobs[j].done = "indexed"
      BY <1>3, <2>1 DEF DoneFits, TypeOK
    <2>2. CASE indexed' = [indexed EXCEPT ![h] = @ \cup {runs[w].job}]
      BY <1>2, <2>2 DEF TypeOK
    <2>3. QED
      BY <1>5, <2>1, <2>2
  <1>8. kind = "remote" => jobs[runs[w].job].hash = h
    BY <1>1 DEF RunsFit, Job
  <1> HIDE DEF h
  <1>9. Touches
    BY <1>6 DEF Touches
  <1>10. Committed' = Committed /\ CheckedIsThere' /\ AnsweredIsEnqueued'
    BY <1>1, <1>9, TouchesKeeps, KeepsAnswers
  <1>11. /\ TypedToo' /\ runs'[w].job = runs[w].job /\ runs'[w].step = "finish"
         /\ \A v \in Workers : v # w => runs'[v] = runs[v]
    BY <1>1, GoToEffect DEF TypedToo, Steps
  <1>12. \A v \in Workers : runs'[v] # Idle => runs[v] # Idle /\ runs[v].job \in DOMAIN jobs
    BY <1>1, <1>11, RunsCommitted
  <1>13. OneRunner' /\ TypeOK'
    <2>1. OneRunner' /\ \A v \in Workers : runs'[v] = Idle \/ runs'[v].job \in Committed'
      BY <1>1, <1>6, <1>10, <1>11, <1>12, RunnersKept
    <2>2. QED
      BY <1>1, <1>7, <1>9, <2>1 DEF TypeOK, Touches
  <1>14. RunsFit'
    <2>1. ASSUME NEW v \in Workers, runs'[v].step \in {"index", "finish"}
          PROVE  /\ Job(v)'.path # NoPath /\ Hash(v)' = Hash(v)
                 /\ kind' = "remote" => Job(v)'.hash = Hash(v)'
                 /\ runs'[v].step = "finish" => indexed'[Hash(v)'] # {}
      <3>1. runs'[v] # Idle
        BY <2>1 DEF Idle
      <3>2. /\ Job(v)'.path = Job(v).path /\ Job(v)'.hash = Job(v).hash
            /\ Job(v).path # NoPath
            /\ kind = "remote" => Job(v).hash = Hash(v)
        BY <1>1, <1>6, <1>11, <1>12, <2>1, <3>1 DEF RunsFit, Job
      <3>3. Hash(v)' = Hash(v) /\ Hash(v) \in Hashes
        BY <1>12, <3>1, <3>2, HashType DEF Hash
      <3>4. runs'[v].step = "finish" => indexed'[Hash(v)'] # {}
        BY <1>7, <1>11, <3>3 DEF RunsFit, h
      <3>5. QED
        BY <1>1, <3>2, <3>3, <3>4
    <2>2. QED
      BY <2>1 DEF RunsFit
  <1>15. RowsFit' /\ HashesFit' /\ HashIsUnique'
    BY <1>1, <1>6 DEF RowsFit, HashesFit, HashIsUnique
  <1>16. DoneFits' /\ CompleteIsIndexed'
    <2>1. \A j \in DOMAIN jobs : jobs[j].hash # NoHash => jobs[j].hash \in Hashes
      BY DEF TypeOK, Rows
    <2>2. DoneFits'
      BY <1>2, <1>6, <1>7, <2>1 DEF DoneFits
    <2>3. CompleteIsIndexed'
      BY <1>6, <1>7, <2>1 DEF CompleteIsIndexed
    <2>4. QED
      BY <2>2, <2>3
  <1>17. IndexedByRow'
    BY <1>1, <1>2, <1>6, <1>7, <1>8 DEF IndexedByRow
  <1>18. QED
    BY <1>10, <1>11, <1>13, <1>14, <1>15, <1>16, <1>17

\* Rows with the hash of w's source, whose data was written, are complete.
LEMMA FinishStep ==
  ASSUME IInv, NEW w \in Workers, Finish(w)
  PROVE  IInv'
  <1> USE DEF IInv
  <1> DEFINE h == Hash(w)
             finished == Finished(w)
  <1>1. /\ runs[w] # Idle /\ runs[w].step = "finish"
        /\ runs' = [runs EXCEPT ![w] = Idle]
        /\ UNCHANGED <<kind, batch, told, indexed>>
    BY DEF Finish, AtStep, Idle
  <1>2. h \in Hashes /\ h # NoHash /\ runs[w].job \in DOMAIN jobs /\ indexed[h] # {}
    BY <1>1, HashType, RunsCommitted DEF RunsFit
  <1>3. \A j \in finished : j \in DOMAIN jobs /\ jobs[j].hash = h
    BY <1>1, <1>2 DEF RunsFit, RowsOf, Job, Finished
  <1>4. jobs' = [j \in DOMAIN jobs |->
                   IF j \in finished THEN [jobs[j] EXCEPT !.status = "complete"] ELSE jobs[j]]
    BY DEF Finish
  <1>5. \A v \in Workers : v # w /\ runs[v] # Idle => runs[v].job \notin finished
    <2>1. SUFFICES ASSUME NEW v \in Workers, v # w, runs[v] # Idle, runs[v].job \in finished
                   PROVE  FALSE
      OBVIOUS
    <2>2. CASE kind = "remote"
      BY <2>1, <2>2 DEF Finished, OneRunner
    <2>3. CASE kind = "local"
      <3>1. jobs[runs[v].job].by # "register"
        BY <2>1 DEF OneRunner, Job
      <3>2. QED
        BY <1>2, <1>3, <2>1, <2>3, <3>1 DEF HashesFit
    <2>4. QED
      BY <2>2, <2>3 DEF TypedToo
  <1> HIDE DEF finished
  <1>6. /\ DOMAIN jobs' = DOMAIN jobs
        /\ \A j \in DOMAIN jobs :
             /\ jobs'[j] \in Rows
             /\ jobs'[j].by = jobs[j].by /\ jobs'[j].path = jobs[j].path
             /\ jobs'[j].tx = jobs[j].tx /\ jobs'[j].hash = jobs[j].hash
             /\ jobs'[j].abandoned = jobs[j].abandoned
             /\ jobs'[j].attempts = jobs[j].attempts /\ jobs'[j].done = jobs[j].done
             /\ jobs'[j].status = jobs[j].status
                  \/ (jobs'[j].status = "complete" /\ jobs[j].hash = h)
    BY <1>3, <1>4 DEF TypeOK, Rows
  <1>7. \A v \in Workers : v # w /\ runs[v] # Idle =>
          runs[v].job \in DOMAIN jobs /\ jobs'[runs[v].job] = jobs[runs[v].job]
    BY <1>4, <1>5, RunsCommitted
  <1> HIDE DEF h
  <1>8. Touches
    BY <1>6 DEF Touches
  <1>9. Committed' = Committed /\ CheckedIsThere' /\ AnsweredIsEnqueued'
    BY <1>1, <1>8, TouchesKeeps, KeepsAnswers
  <1>10. /\ TypedToo' /\ runs'[w] = Idle
         /\ \A v \in Workers : v # w => runs'[v] = runs[v]
    BY <1>1, RunsType DEF TypedToo
  <1>11. OneRunner' /\ TypeOK'
    <2>1. OneRunner' /\ \A v \in Workers : runs'[v] = Idle \/ runs'[v].job \in Committed'
      BY <1>7, <1>9, <1>10, RunnersKept
    <2>2. QED
      BY <1>1, <1>8, <2>1 DEF TypeOK, Touches
  <1>12. RunsFit'
    <2>1. \A v \in Workers : runs'[v].step \in {"index", "finish"} => v # w /\ runs[v] # Idle
      BY <1>10 DEF Idle
    <2>2. QED
      BY <1>1, <1>7, <1>10, <2>1 DEF RunsFit, Job, Hash
  <1>13. RowsFit' /\ HashesFit'
    BY <1>1, <1>2, <1>6 DEF RowsFit, HashesFit
  <1>14. HashIsUnique' /\ DoneFits' /\ IndexedByRow'
    BY <1>1, <1>6 DEF HashIsUnique, DoneFits, IndexedByRow
  <1>15. CompleteIsIndexed'
    BY <1>1, <1>2, <1>6 DEF CompleteIsIndexed
  <1>16. QED
    BY <1>9, <1>10, <1>11, <1>12, <1>13, <1>14, <1>15

-----------------------------------------------------------------------------
(* The invariants of the specification.                                    *)

LEMMA InitInv == Init => IInv
  <1> SUFFICES ASSUME Init PROVE IInv
    OBVIOUS
  <1> USE DEF Init
  <1>1. DOMAIN jobs = {} /\ Idle \in [job : {0} \cup Ids, step : {"idle"} \cup Steps]
    BY DEF Idle
  <1>2. TypeOK /\ TypedToo
    BY <1>1 DEF TypeOK, TypedToo, NoBatch
  <1>3. RowsFit /\ HashesFit /\ HashIsUnique /\ DoneFits /\ CompleteIsIndexed
    BY <1>1 DEF RowsFit, HashesFit, HashIsUnique, DoneFits, CompleteIsIndexed
  <1>4. OneRunner /\ RunsFit /\ IndexedByRow
    BY DEF OneRunner, RunsFit, IndexedByRow, Idle
  <1>5. CheckedIsThere /\ AnsweredIsEnqueued
    BY DEF CheckedIsThere, AnsweredIsEnqueued, NoBatch
  <1>6. QED
    BY <1>2, <1>3, <1>4, <1>5 DEF IInv

LEMMA StepInv == IInv /\ [Next]_vars => IInv'
  <1> SUFFICES ASSUME IInv, [Next]_vars PROVE IInv'
    OBVIOUS
  <1>1. CASE \E p \in Paths : Ingest(p)
    BY <1>1, IngestStep
  <1>2. CASE \E c \in Clients : \/ \E m \in Manifests : PostBatch(c, m)
                               \/ CheckRecord(c) \/ CommitBatch(c) \/ AbortBatch(c)
    BY <1>2, PostBatchStep, CheckRecordStep, CommitBatchStep, AbortBatchStep
  <1>3. CASE \E w \in Workers : \/ Claim(w) \/ Register(w) \/ Index(w) \/ Finish(w)
                               \/ Raise(w) \/ Fail(w)     \/ Die(w)
    BY <1>3, ClaimStep, RegisterStep, IndexStep, FinishStep, RaiseStep, LeaveStep
  <1>4. CASE UNCHANGED vars
    BY <1>4 DEF vars, tableVars, IInv, TypeOK, TypedToo, RowsFit, HashesFit, HashIsUnique,
       DoneFits, OneRunner, RunsFit, IndexedByRow, CheckedIsThere, AnsweredIsEnqueued,
       CompleteIsIndexed, Committed, Job, Hash
  <1>5. QED
    BY <1>1, <1>2, <1>3, <1>4 DEF Next

\* The inductive invariant holds in every reachable state.
THEOREM QueueInvariant == Spec => []IInv
  <1>1. QED
    BY InitInv, StepInv, PTL DEF Spec

\* Columns hold what they may hold, attempts included: nothing charges a row
\* that has used up its attempts, and only committed rows are worked on.
THEOREM QueueTypes == Spec => []TypeOK
  <1>1. IInv => TypeOK
    BY DEF IInv
  <1>2. QED
    BY <1>1, QueueInvariant, PTL

\* What a batch that was answered with 200 lists is in the table, committed.
THEOREM AnsweredBatchesAreEnqueued == Spec => []AnsweredIsEnqueued
  <1>1. IInv => AnsweredIsEnqueued
    BY DEF IInv
  <1>2. QED
    BY <1>1, QueueInvariant, PTL

\* With remote workers the derived data of a video comes from one job.
THEOREM VideosAreIndexedOnce == Spec => []OneJobPerVideo
  <1>1. IInv => OneJobPerVideo
    BY QueueAssumption DEF IInv, IndexedByRow, HashIsUnique, OneJobPerVideo, Hashes
  <1>2. QED
    BY <1>1, QueueInvariant, PTL

\* A complete row has the hash of a video whose derived data was written.
THEOREM CompleteRowsAreIndexed == Spec => []CompleteIsIndexed
  <1>1. IInv => CompleteIsIndexed
    BY DEF IInv
  <1>2. QED
    BY <1>1, QueueInvariant, PTL
=============================================================================
