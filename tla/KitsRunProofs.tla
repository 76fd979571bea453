---------------------------- MODULE KitsRunProofs ----------------------------
(***************************************************************************)
(* Proofs about KitsRun, for pipes of every size and any number of lines   *)
(* and runs.                                                               *)
(***************************************************************************)
EXTENDS KitsRun, TLAPS

\* The stage, uv and the threads agree on where the run is.
StageFits ==
  /\ run = 0 => worker = "idle" /\ outcome = "none" /\ uv = "none"
  /\ outcome # "none" => worker = "idle"
  /\ worker \in {"join", "check"} => uv # "alive"
  /\ \A s \in Streams : pump[s] = "reading" => worker \in {"wait", "join"}
  /\ uv = "ok" => kits[run] = "ok"
  /\ uv = "error" => kits[run] \in {"none", "error"}
  /\ uv = "killed" => timedOut
  /\ run # 0 => uv # "none"
  /\ outcome = "srt" => uv = "ok"

\* Nothing is there yet of a run that has not begun.
FutureIsEmpty ==
  /\ \A k \in Runs : k > run => kits[k] = "none" /\ k \notin wrote
  /\ pipe \in [Streams -> Seq({"text", "bytes"})]

\* A pump that read to the end has left nothing in its pipe, and no process is left
\* that could write more.
EndIsTheEnd ==
  run # 0 /\ outcome # "died" =>
    \A s \in Streams : pump[s] = "done" => uv # "alive" /\ ~Alive(run) /\ pipe[s] = << >>

\* A line that KITS is about to write into the pipe.
Waiting(s) == IF run \in Runs /\ kits[run] = s THEN 1 ELSE 0

\* What was printed is collected, in the pipe or waits for room in it, and no more
\* than that; nothing is missing before a pump dies.
Counted ==
  \A s \in Streams :
    /\ sink[s] + Len(pipe[s]) + Waiting(s) <= printed[s]
    /\ pump[s] = "dead" \/ outcome = "died"
         \/ printed[s] = sink[s] + Len(pipe[s]) + Waiting(s)

\* Unless a process outlived its run, those of earlier runs have ended, and so have
\* those of the last one once run_logged is back.
NoneLeftBehind ==
  ~orphaned =>
    /\ \A k \in Runs : Alive(k) => k = run /\ worker \in {"wait", "join"}
    /\ uv = "alive" => worker # "idle"

IInv ==
  /\ TypeOK /\ StageFits /\ FutureIsEmpty /\ EndIsTheEnd /\ Counted
  /\ NoneLeftBehind /\ LogIsWhole

-----------------------------------------------------------------------------
(* Facts that hold in every step.                                          *)

LEMMA Shapes ==
  ASSUME IInv
  PROVE  /\ MaxRuns \in Nat /\ MaxLines \in Nat /\ PipeSize \in Nat \ {0}
         /\ run \in 0..MaxRuns /\ (run # 0 => run \in Runs)
         /\ kits \in [Runs -> {"none", "alive", "hung", "ok", "error", "stdout", "stderr"}]
         /\ pipe \in [Streams -> Seq({"text", "bytes"})]
         /\ printed \in [Streams -> Nat] /\ sink \in [Streams -> Nat]
         /\ pump \in [Streams -> {"reading", "done", "dead"}]
         /\ \A s \in Streams : Len(pipe[s]) \in Nat /\ Waiting(s) \in {0, 1}
         /\ \A k \in Runs : Alive(k) <=> kits[k] \in {"alive", "hung", "stdout", "stderr"}
  <1>1. run \in 0..MaxRuns /\ (run # 0 => run \in Runs) /\ MaxRuns \in Nat
    BY KitsAssumption DEF IInv, TypeOK, Runs
  <1>2. pipe \in [Streams -> Seq({"text", "bytes"})]
    BY DEF IInv, FutureIsEmpty
  <1>3. \A s \in Streams : Len(pipe[s]) \in Nat
    BY <1>2
  <1>4. \A s \in Streams : Waiting(s) \in {0, 1}
    BY DEF Waiting
  <1>5. kits \in [Runs -> {"none", "alive", "hung", "ok", "error", "stdout", "stderr"}]
    BY DEF IInv, TypeOK, Streams
  <1>6. \A k \in Runs : Alive(k) <=> kits[k] \in {"alive", "hung", "stdout", "stderr"}
    BY DEF Alive, Streams
  <1>7. printed \in [Streams -> Nat] /\ sink \in [Streams -> Nat]
    BY KitsAssumption DEF IInv, TypeOK
  <1>8. pump \in [Streams -> {"reading", "done", "dead"}]
    BY DEF IInv, TypeOK
  <1>9. QED
    BY <1>1, <1>2, <1>3, <1>4, <1>5, <1>6, <1>7, <1>8, KitsAssumption

\* A process of KITS that is alive ends or hangs.
Stops(k, to) ==
  /\ kits' = [kits EXCEPT ![k] = to]
  /\ UNCHANGED <<timeout, stageVars, uv, wrote, srt, ioVars, orphaned>>

LEMMA StopsKeeps ==
  ASSUME IInv, NEW k \in Runs, NEW to \in {"hung", "ok", "error"},
         Stops(k, to), Alive(k),
         kits[k] = "alive" \/ ~(PipesOpen /\ k = run)
  PROVE  IInv'
  <1> USE DEF Stops, stageVars, ioVars
  <1>1. /\ kits'[k] = to /\ \A j \in Runs : j # k => kits'[j] = kits[j]
        /\ kits' \in [Runs -> {"none", "alive", "hung", "ok", "error", "stdout", "stderr"}]
    BY Shapes
  <1>2. \A j \in Runs : Alive(j)' => Alive(j)
    <2>1. \A j \in Runs : j # k => (Alive(j)' <=> Alive(j))
      BY <1>1 DEF Alive
    <2>2. QED
      BY <2>1
  <1>3. kits[k] \in {"alive", "hung", "stdout", "stderr"}
    BY Shapes
  <1>4. TypeOK'
    BY <1>1 DEF IInv, TypeOK, Streams
  <1>5. StageFits'
    <2>1. uv = "ok" => run \in Runs /\ kits[run] = "ok"
      BY Shapes DEF IInv, StageFits
    <2>2. uv = "ok" => kits'[run] = "ok"
      BY <1>1, <1>3, <2>1
    <2>3. uv = "error" => run \in Runs /\ kits[run] \in {"none", "error"}
      BY Shapes DEF IInv, StageFits
    <2>4. uv = "error" => kits'[run] \in {"none", "error"}
      BY <1>1, <1>3, <2>3
    <2>5. QED
      BY <2>2, <2>4 DEF IInv, StageFits
  <1>6. FutureIsEmpty'
    BY <1>1, <1>3, Shapes DEF IInv, FutureIsEmpty
  <1>7. EndIsTheEnd'
    BY <1>2, Shapes DEF IInv, EndIsTheEnd
  <1>8. Counted'
    <2>1. ASSUME NEW s \in Streams
          PROVE  Waiting(s)' <= Waiting(s) /\ Waiting(s)' \in {0, 1}
      BY <1>1, Shapes DEF Waiting, Streams
    <2>2. ASSUME NEW s \in Streams, pump[s] # "dead", outcome # "died"
          PROVE  Waiting(s)' = Waiting(s)
      <3>1. CASE kits[k] = "alive" \/ k # run
        BY <1>1, <3>1, Shapes DEF Waiting, Streams
      <3>2. CASE ~PipesOpen /\ k = run
        <4>1. pump[s] = "done"
          BY <2>2, <3>2, Shapes DEF IInv, StageFits, PipesOpen
        <4>2. run # 0
          BY <3>2, Shapes DEF Runs
        <4>3. FALSE
          BY <2>2, <3>2, <4>1, <4>2 DEF IInv, EndIsTheEnd
        <4>4. QED
          BY <4>3
      <3>3. QED
        BY <3>1, <3>2
    <2>3. ASSUME NEW s \in Streams
          PROVE  sink[s] + Len(pipe[s]) + Waiting(s)' <= printed[s]
      <3>1. sink[s] + Len(pipe[s]) + Waiting(s) <= printed[s]
        BY DEF IInv, Counted
      <3>2. sink[s] \in Nat /\ printed[s] \in Nat /\ Len(pipe[s]) \in Nat /\ Waiting(s) \in {0, 1}
        BY Shapes
      <3>3. QED
        BY <2>1, <3>1, <3>2
    <2>4. QED
      BY <2>2, <2>3, Shapes DEF IInv, Counted
  <1>9. NoneLeftBehind' /\ LogIsWhole'
    BY <1>2 DEF IInv, NoneLeftBehind, LogIsWhole
  <1>10. QED
    BY <1>4, <1>5, <1>6, <1>7, <1>8, <1>9 DEF IInv

LEMMA EndsStep ==
  ASSUME IInv, NEW k \in Runs,
         BrokenPipe(k) \/ Hang(k) \/ \E code \in {"ok", "error"} : Exit(k, code)
  PROVE  IInv'
  <1>1. CASE BrokenPipe(k)
    <2>1. Stops(k, "error") /\ Alive(k) /\ ~(PipesOpen /\ k = run)
      BY <1>1 DEF BrokenPipe, Stops, KitsTo
    <2>2. QED
      BY <2>1, StopsKeeps
  <1>2. CASE Hang(k)
    <2>1. Stops(k, "hung") /\ Alive(k) /\ kits[k] = "alive"
      BY <1>2 DEF Hang, Stops, KitsTo, Alive
    <2>2. QED
      BY <2>1, StopsKeeps
  <1>3. ASSUME NEW code \in {"ok", "error"}, Exit(k, code)
        PROVE  IInv'
    <2>1. Stops(k, code) /\ Alive(k) /\ kits[k] = "alive"
      BY <1>3 DEF Exit, Stops, KitsTo, Alive
    <2>2. QED
      BY <2>1, StopsKeeps
  <1>4. QED
    BY <1>1, <1>2, <1>3

\* The run of a uv that is alive has begun.
LEMMA UvHasARun == IInv /\ uv = "alive" => run \in Runs
  BY Shapes DEF IInv, StageFits

LEMMA SpawnStep ==
  ASSUME IInv, Spawn
  PROVE  IInv'
  <1> USE DEF stageVars, ioVars
  <1>1. /\ run \in Runs /\ uv = "alive" /\ kits[run] = "none"
        /\ UNCHANGED <<timeout, worker, timedOut, outcome, run, log, wrote, srt,
                       pipe, printed, pump, sink, orphaned>>
    BY UvHasARun DEF Spawn
  <1>2. \/ kits' = [kits EXCEPT ![run] = "alive"] /\ uv' = uv
        \/ kits' = kits /\ uv' = "error"
    BY DEF Spawn, KitsTo
  <1>3. /\ uv' \in {"alive", "error"} /\ kits'[run] \in {"none", "alive"}
        /\ \A j \in Runs : j # run => kits'[j] = kits[j]
        /\ kits' \in [Runs -> {"none", "alive", "hung", "ok", "error", "stdout", "stderr"}]
    BY <1>1, <1>2, Shapes
  <1>4. \A j \in Runs : j # run => (Alive(j)' <=> Alive(j))
    BY <1>3 DEF Alive
  <1>5. TypeOK'
    BY <1>1, <1>3 DEF IInv, TypeOK, Streams
  <1>6. StageFits'
    <2>1. uv' = "error" => kits'[run] \in {"none", "error"}
      BY <1>1, <1>2
    <2>2. run # 0 /\ uv' # "none" /\ uv' # "ok" /\ uv' # "killed"
      BY <1>1, <1>3 DEF Runs
    <2>3. QED
      BY <1>1, <2>1, <2>2 DEF IInv, StageFits
  <1>7. FutureIsEmpty'
    BY <1>1, <1>3, Shapes DEF IInv, FutureIsEmpty
  <1>8. EndIsTheEnd'
    BY <1>1, Shapes DEF IInv, EndIsTheEnd, Runs
  <1>9. Counted'
    <2>1. \A s \in Streams : Waiting(s)' = Waiting(s)
      BY <1>1, <1>3 DEF Waiting, Streams
    <2>2. QED
      BY <1>1, <2>1 DEF IInv, Counted
  <1>10. NoneLeftBehind'
    <2>1. ~orphaned => worker = "wait"
      BY <1>1 DEF IInv, NoneLeftBehind, StageFits, TypeOK
    <2>2. QED
      BY <1>1, <1>4, <2>1 DEF IInv, NoneLeftBehind
  <1>11. LogIsWhole'
    BY <1>1 DEF IInv, LogIsWhole
  <1>12. QED
    BY <1>5, <1>6, <1>7, <1>8, <1>9, <1>10, <1>11 DEF IInv

LEMMA UvExitsStep ==
  ASSUME IInv, UvExits
  PROVE  IInv'
  <1> USE DEF stageVars, ioVars
  <1>1. /\ run \in Runs /\ uv = "alive" /\ kits[run] \in {"ok", "error"} /\ uv' = kits[run]
        /\ UNCHANGED <<timeout, worker, timedOut, outcome, run, log, kits, wrote, srt,
                       pipe, printed, pump, sink, orphaned>>
    BY UvHasARun DEF UvExits
  <1>2. TypeOK'
    BY <1>1 DEF IInv, TypeOK
  <1>3. StageFits'
    BY <1>1, Shapes DEF IInv, StageFits, Runs
  <1>4. \A k \in Runs : Alive(k)' <=> Alive(k)
    BY <1>1 DEF Alive
  <1>5. FutureIsEmpty' /\ EndIsTheEnd'
    BY <1>1, <1>4 DEF IInv, FutureIsEmpty, EndIsTheEnd
  <1>6. Counted'
    BY <1>1 DEF IInv, Counted, Waiting
  <1>7. NoneLeftBehind' /\ LogIsWhole'
    BY <1>1, <1>4 DEF IInv, NoneLeftBehind, LogIsWhole
  <1>8. QED
    BY <1>2, <1>3, <1>5, <1>6, <1>7 DEF IInv

LEMMA WriteSrtStep ==
  ASSUME IInv, NEW k \in Runs, NEW empty \in BOOLEAN, WriteSrt(k, empty)
  PROVE  IInv'
  <1> USE DEF stageVars, ioVars
  <1>1. /\ kits[k] = "alive" /\ Alive(k)
        /\ srt' = [of |-> k, empty |-> empty] /\ wrote' = wrote \cup {k}
        /\ UNCHANGED <<timeout, worker, timedOut, outcome, run, log, uv, kits,
                       pipe, printed, pump, sink, orphaned>>
    BY DEF WriteSrt, Alive
  <1>2. k <= run /\ k \in 0..MaxRuns
    BY <1>1, Shapes DEF IInv, FutureIsEmpty, Runs
  <1>3. srt' \in [of : 0..MaxRuns, empty : BOOLEAN] /\ srt'.of = k
    BY <1>1, <1>2
  <1>4. wrote' \subseteq Runs
    BY <1>1 DEF IInv, TypeOK
  <1>5. TypeOK'
    BY <1>1, <1>3, <1>4 DEF IInv, TypeOK
  <1>6. \A j \in Runs : Alive(j)' <=> Alive(j)
    BY <1>1 DEF Alive
  <1>7. FutureIsEmpty'
    <2>1. \A j \in Runs : j > run => kits[j] = "none" /\ j # k
      BY <1>1, <1>2, Shapes DEF IInv, FutureIsEmpty, Runs
    <2>2. QED
      BY <1>1, <2>1 DEF IInv, FutureIsEmpty
  <1>8. StageFits' /\ EndIsTheEnd'
    BY <1>1, <1>6, Shapes DEF IInv, StageFits, EndIsTheEnd
  <1>9. Counted'
    BY <1>1 DEF IInv, Counted, Waiting
  <1>10. NoneLeftBehind' /\ LogIsWhole'
    BY <1>1, <1>6 DEF IInv, NoneLeftBehind, LogIsWhole
  <1>11. QED
    BY <1>5, <1>7, <1>8, <1>9, <1>10 DEF IInv

-----------------------------------------------------------------------------
(* The lines.                                                              *)

\* While the pipes are open there is a run, and it is not over.
LEMMA OpenMeans == IInv /\ PipesOpen => run \in Runs /\ outcome = "none"
  BY Shapes DEF IInv, StageFits, PipesOpen

\* A process that is alive: no pump of its run has come to the end.
LEMMA AliveMeans ==
  ASSUME IInv, run \in Runs, Alive(run), outcome # "died"
  PROVE  \A s \in Streams : pump[s] # "done"
  BY DEF IInv, EndIsTheEnd, Runs

LEMMA PrintLineStep ==
  ASSUME IInv, NEW s \in Streams, PrintLine(s)
  PROVE  IInv'
  <1> USE DEF stageVars
  <1>1. /\ run \in Runs /\ outcome = "none" /\ kits[run] = "alive" /\ Alive(run)
        /\ printed["stdout"] + printed["stderr"] < MaxLines
        /\ kits' = [kits EXCEPT ![run] = s] /\ printed' = [printed EXCEPT ![s] = @ + 1]
        /\ UNCHANGED <<timeout, worker, timedOut, outcome, run, log, uv, wrote, srt,
                       pipe, pump, sink, orphaned>>
    BY OpenMeans DEF PrintLine, KitsTo, Alive
  <1>2. /\ kits'[run] = s /\ s \in {"stdout", "stderr"}
        /\ \A j \in Runs : j # run => kits'[j] = kits[j]
        /\ kits' \in [Runs -> {"none", "alive", "hung", "ok", "error", "stdout", "stderr"}]
    BY <1>1, Shapes DEF Streams
  <1>3. \A j \in Runs : Alive(j)' <=> Alive(j)
    BY <1>1, <1>2 DEF Alive, Streams
  <1>4. /\ printed'[s] = printed[s] + 1 /\ \A r \in Streams : r # s => printed'[r] = printed[r]
        /\ printed' \in [Streams -> 0..MaxLines]
    <2>1. printed["stdout"] \in Nat /\ printed["stderr"] \in Nat /\ MaxLines \in Nat
      BY Shapes DEF Streams
    <2>2. printed[s] + 1 \in 0..MaxLines
      BY <1>1, <2>1 DEF Streams
    <2>3. printed \in [Streams -> 0..MaxLines]
      BY DEF IInv, TypeOK
    <2>4. QED
      BY <1>1, <2>2, <2>3
  <1>5. TypeOK'
    BY <1>1, <1>2, <1>4 DEF IInv, TypeOK, Streams
  <1>6. StageFits'
    BY <1>1, <1>2 DEF IInv, StageFits
  <1>7. FutureIsEmpty'
    BY <1>1, <1>2, Shapes DEF IInv, FutureIsEmpty
  <1>8. EndIsTheEnd'
    BY <1>1, AliveMeans DEF EndIsTheEnd
  <1>9. Counted'
    <2>1. Waiting(s) = 0 /\ Waiting(s)' = 1
      BY <1>1, <1>2 DEF Waiting, Streams
    <2>2. \A r \in Streams : r # s => Waiting(r)' = 0 /\ Waiting(r) = 0
      BY <1>1, <1>2 DEF Waiting, Streams
    <2>3. ASSUME NEW r \in Streams
          PROVE  /\ sink[r] \in Nat /\ Len(pipe[r]) \in Nat /\ printed[r] \in Nat
                 /\ sink[r] + Len(pipe[r]) + Waiting(r) <= printed[r]
                 /\ \/ pump[r] = "dead" \/ outcome = "died"
                    \/ printed[r] = sink[r] + Len(pipe[r]) + Waiting(r)
      BY Shapes DEF IInv, Counted
    <2>4. QED
      BY <1>1, <1>4, <2>1, <2>2, <2>3 DEF Counted
  <1>10. NoneLeftBehind' /\ LogIsWhole'
    BY <1>1, <1>3 DEF IInv, NoneLeftBehind, LogIsWhole
  <1>11. QED
    BY <1>5, <1>6, <1>7, <1>8, <1>9, <1>10 DEF IInv

LEMMA PrintedStep ==
  ASSUME IInv, NEW s \in Streams, Printed(s)
  PROVE  IInv'
  <1> USE DEF stageVars
  <1>1. /\ run \in Runs /\ outcome = "none" /\ kits[run] = s /\ Alive(run)
        /\ Len(pipe[s]) < PipeSize
        /\ kits' = [kits EXCEPT ![run] = "alive"]
        /\ UNCHANGED <<timeout, worker, timedOut, outcome, run, log, uv, wrote, srt,
                       printed, pump, sink, orphaned>>
    BY OpenMeans DEF Printed, KitsTo, Alive
  <1>2. PICK line \in {"text", "bytes"} : pipe' = [pipe EXCEPT ![s] = Append(@, line)]
    BY DEF Printed
  <1>3. /\ kits'[run] = "alive" /\ s \in {"stdout", "stderr"}
        /\ \A j \in Runs : j # run => kits'[j] = kits[j]
        /\ kits' \in [Runs -> {"none", "alive", "hung", "ok", "error", "stdout", "stderr"}]
    BY <1>1, Shapes DEF Streams
  <1>4. \A j \in Runs : Alive(j)' <=> Alive(j)
    BY <1>1, <1>3 DEF Alive, Streams
  <1>5. /\ pipe' \in [Streams -> Seq({"text", "bytes"})]
        /\ Len(pipe'[s]) = Len(pipe[s]) + 1
        /\ \A r \in Streams : r # s => pipe'[r] = pipe[r]
    <2>1. pipe \in [Streams -> Seq({"text", "bytes"})]
      BY Shapes
    <2>2. /\ Append(pipe[s], line) \in Seq({"text", "bytes"})
          /\ Len(Append(pipe[s], line)) = Len(pipe[s]) + 1
      BY <2>1
    <2>3. QED
      BY <1>2, <2>1, <2>2
  <1>6. TypeOK'
    <2>1. \A r \in Streams : pipe'[r] \in Seq({"text", "bytes"}) /\ Len(pipe'[r]) <= PipeSize
      <3>1. Len(pipe[s]) + 1 <= PipeSize
        BY <1>1, Shapes
      <3>2. \A r \in Streams : Len(pipe[r]) <= PipeSize
        BY DEF IInv, TypeOK
      <3>3. QED
        BY <1>5, <3>1, <3>2
    <2>2. QED
      BY <1>1, <1>3, <2>1 DEF IInv, TypeOK, Streams
  <1>7. StageFits'
    BY <1>1, <1>3 DEF IInv, StageFits
  <1>8. FutureIsEmpty'
    BY <1>1, <1>3, <1>5, Shapes DEF IInv, FutureIsEmpty
  <1>9. EndIsTheEnd'
    BY <1>1, AliveMeans DEF EndIsTheEnd
  <1>10. Counted'
    <2>1. Waiting(s) = 1 /\ Waiting(s)' = 0
      BY <1>1, <1>3 DEF Waiting, Streams
    <2>2. \A r \in Streams : r # s => Waiting(r)' = 0 /\ Waiting(r) = 0
      BY <1>1, <1>3 DEF Waiting, Streams
    <2>3. ASSUME NEW r \in Streams
          PROVE  /\ sink[r] \in Nat /\ Len(pipe[r]) \in Nat /\ printed[r] \in Nat
                 /\ sink[r] + Len(pipe[r]) + Waiting(r) <= printed[r]
                 /\ \/ pump[r] = "dead" \/ outcome = "died"
                    \/ printed[r] = sink[r] + Len(pipe[r]) + Waiting(r)
      BY Shapes DEF IInv, Counted
    <2>4. QED
      <3>1. ASSUME NEW r \in Streams, r # s
            PROVE  /\ sink[r] + Len(pipe'[r]) + Waiting(r)' <= printed[r]
                   /\ \/ pump[r] = "dead" \/ outcome = "died"
                      \/ printed[r] = sink[r] + Len(pipe'[r]) + Waiting(r)'
        BY <1>5, <2>2, <2>3, <3>1
      <3>2. /\ sink[s] + Len(pipe'[s]) + Waiting(s)' <= printed[s]
            /\ \/ pump[s] = "dead" \/ outcome = "died"
               \/ printed[s] = sink[s] + Len(pipe'[s]) + Waiting(s)'
        BY <1>5, <2>1, <2>3
      <3>3. QED
        BY <1>1, <3>1, <3>2 DEF Counted
  <1>11. NoneLeftBehind' /\ LogIsWhole'
    BY <1>1, <1>4 DEF IInv, NoneLeftBehind, LogIsWhole
  <1>12. QED
    BY <1>6, <1>7, <1>8, <1>9, <1>10, <1>11 DEF IInv

\* The end of a line is reached by a pump that collects it, or dies of it.
LEMMA PumpStep ==
  ASSUME IInv, NEW s \in Streams, Pump(s)
  PROVE  IInv'
  <1> USE DEF stageVars, procVars
  <1>1. /\ pump[s] = "reading" /\ pipe[s] # << >> /\ pipe' = [pipe EXCEPT ![s] = Tail(@)]
        /\ \/ sink' = [sink EXCEPT ![s] = @ + 1] /\ pump' = pump
           \/ sink' = sink /\ pump' = [pump EXCEPT ![s] = "dead"]
        /\ UNCHANGED <<timeout, worker, timedOut, outcome, run, log, uv, kits, wrote, srt,
                       printed, orphaned>>
    BY DEF Pump
  <1>2. worker \in {"wait", "join"} /\ outcome = "none"
    BY <1>1 DEF IInv, StageFits
  <1>3. /\ pipe' \in [Streams -> Seq({"text", "bytes"})]
        /\ Len(pipe'[s]) = Len(pipe[s]) - 1
        /\ \A r \in Streams : r # s => pipe'[r] = pipe[r]
    <2>1. pipe \in [Streams -> Seq({"text", "bytes"})]
      BY Shapes
    <2>2. /\ Tail(pipe[s]) \in Seq({"text", "bytes"})
          /\ Len(Tail(pipe[s])) = Len(pipe[s]) - 1
      BY <1>1, <2>1
    <2>3. QED
      BY <1>1, <2>1, <2>2
  <1>4. /\ pump' \in [Streams -> {"reading", "done", "dead"}]
        /\ \A r \in Streams : pump'[r] # "dead" => pump'[r] = pump[r]
        /\ \A r \in Streams : pump'[r] = "reading" => pump[r] = "reading"
        /\ \A r \in Streams : pump[r] = "dead" => pump'[r] = "dead"
    BY <1>1, Shapes
  <1>5. \A r \in Streams : Waiting(r)' = Waiting(r)
    BY <1>1 DEF Waiting
  <1>6. /\ sink' \in [Streams -> Nat] /\ \A r \in Streams : r # s => sink'[r] = sink[r]
        /\ sink'[s] = sink[s] + 1 \/ (sink'[s] = sink[s] /\ pump'[s] = "dead")
    BY <1>1, Shapes
  <1>7. Counted'
    <2>1. ASSUME NEW r \in Streams
          PROVE  /\ sink[r] \in Nat /\ Len(pipe[r]) \in Nat /\ printed[r] \in Nat
                 /\ Waiting(r) \in {0, 1}
                 /\ sink[r] + Len(pipe[r]) + Waiting(r) <= printed[r]
                 /\ \/ pump[r] = "dead" \/ outcome = "died"
                    \/ printed[r] = sink[r] + Len(pipe[r]) + Waiting(r)
      BY Shapes DEF IInv, Counted
    <2>2. ASSUME NEW r \in Streams, r # s
          PROVE  /\ sink'[r] + Len(pipe'[r]) + Waiting(r)' <= printed'[r]
                 /\ \/ pump'[r] = "dead" \/ outcome' = "died"
                    \/ printed'[r] = sink'[r] + Len(pipe'[r]) + Waiting(r)'
      BY <1>1, <1>3, <1>4, <1>5, <1>6, <2>1, <2>2
    <2>3. /\ sink'[s] + Len(pipe'[s]) + Waiting(s)' <= printed'[s]
          /\ \/ pump'[s] = "dead" \/ outcome' = "died"
             \/ printed'[s] = sink'[s] + Len(pipe'[s]) + Waiting(s)'
      <3>1. /\ printed[s] = sink[s] + Len(pipe[s]) + Waiting(s) /\ printed'[s] = printed[s]
            /\ Waiting(s)' = Waiting(s) /\ Len(pipe'[s]) = Len(pipe[s]) - 1
        BY <1>1, <1>2, <1>3, <1>5, <2>1
      <3>2. /\ sink[s] \in Nat /\ Len(pipe[s]) \in Nat /\ printed[s] \in Nat
            /\ Waiting(s) \in {0, 1}
        BY <2>1
      <3>3. CASE sink'[s] = sink[s] + 1
        <4>1. printed'[s] = sink'[s] + Len(pipe'[s]) + Waiting(s)'
          BY <3>1, <3>2, <3>3
        <4>2. printed'[s] \in Nat
          BY <3>1, <3>2
        <4>3. QED
          BY <4>1, <4>2
      <3>4. CASE sink'[s] = sink[s] /\ pump'[s] = "dead"
        <4>1. sink'[s] + Len(pipe'[s]) + Waiting(s)' <= printed'[s]
          BY <3>1, <3>2, <3>4
        <4>2. QED
          BY <3>4, <4>1
      <3>5. QED
        BY <1>6, <3>3, <3>4
    <2>4. QED
      BY <2>2, <2>3 DEF Counted
  <1>8. TypeOK'
    <2>1. sink' \in [Streams -> 0..MaxLines]
      <3>1. ASSUME NEW r \in Streams
            PROVE  sink'[r] \in 0..MaxLines
        <4>1. sink'[r] + Len(pipe'[r]) + Waiting(r)' <= printed'[r]
          BY <1>7 DEF Counted
        <4>2. /\ Len(pipe'[r]) \in Nat /\ Waiting(r)' \in {0, 1} /\ sink'[r] \in Nat
              /\ printed'[r] \in 0..MaxLines /\ MaxLines \in Nat
          <5>1. Len(pipe'[r]) \in Nat
            BY <1>3
          <5>2. Waiting(r)' \in {0, 1} /\ MaxLines \in Nat
            BY <1>5, Shapes
          <5>3. printed'[r] \in 0..MaxLines
            BY <1>1 DEF IInv, TypeOK
          <5>4. QED
            BY <1>6, <5>1, <5>2, <5>3
        <4>3. QED
          BY <4>1, <4>2
      <3>2. QED
        BY <1>6, <3>1
    <2>2. \A r \in Streams : pipe'[r] \in Seq({"text", "bytes"}) /\ Len(pipe'[r]) <= PipeSize
      <3>1. \A r \in Streams : Len(pipe[r]) <= PipeSize /\ Len(pipe[r]) \in Nat
        BY Shapes DEF IInv, TypeOK
      <3>2. PipeSize \in Nat
        BY Shapes
      <3>3. QED
        BY <1>3, <3>1, <3>2
    <2>3. QED
      BY <1>1, <1>4, <2>1, <2>2 DEF IInv, TypeOK
  <1>9. StageFits'
    BY <1>1, <1>4 DEF IInv, StageFits
  <1>10. \A k \in Runs : Alive(k)' <=> Alive(k)
    BY <1>1 DEF Alive
  <1>11. FutureIsEmpty'
    BY <1>1, <1>3 DEF IInv, FutureIsEmpty
  <1>12. EndIsTheEnd'
    BY <1>1, <1>3, <1>4, <1>10, Shapes DEF IInv, EndIsTheEnd
  <1>13. NoneLeftBehind' /\ LogIsWhole'
    BY <1>1, <1>2, <1>10 DEF IInv, NoneLeftBehind, LogIsWhole
  <1>14. QED
    BY <1>7, <1>8, <1>9, <1>11, <1>12, <1>13 DEF IInv

LEMMA PumpEndsStep ==
  ASSUME IInv, NEW s \in Streams, PumpEnds(s)
  PROVE  IInv'
  <1> USE DEF stageVars, procVars
  <1>1. /\ pump[s] = "reading" /\ pipe[s] = << >> /\ uv # "alive" /\ ~Alive(run)
        /\ pump' = [pump EXCEPT ![s] = "done"]
        /\ UNCHANGED <<timeout, worker, timedOut, outcome, run, log, uv, kits, wrote, srt,
                       pipe, printed, sink, orphaned>>
    BY DEF PumpEnds
  <1>2. worker \in {"wait", "join"} /\ outcome = "none"
    BY <1>1 DEF IInv, StageFits
  <1>3. /\ pump' \in [Streams -> {"reading", "done", "dead"}]
        /\ \A r \in Streams : r # s => pump'[r] = pump[r]
        /\ pump'[s] = "done"
    BY <1>1, Shapes
  <1>4. TypeOK' /\ FutureIsEmpty'
    BY <1>1, <1>3 DEF IInv, TypeOK, FutureIsEmpty
  <1>5. StageFits'
    BY <1>1, <1>3 DEF IInv, StageFits
  <1>6. Alive(run)' <=> Alive(run)
    BY <1>1 DEF Alive
  <1>7. EndIsTheEnd'
    BY <1>1, <1>3, <1>6 DEF IInv, EndIsTheEnd
  <1>8. Counted'
    BY <1>1, <1>2, <1>3 DEF IInv, Counted, Waiting
  <1>9. \A k \in Runs : Alive(k)' <=> Alive(k)
    BY <1>1 DEF Alive
  <1>10. NoneLeftBehind' /\ LogIsWhole'
    BY <1>1, <1>2, <1>9 DEF IInv, NoneLeftBehind, LogIsWhole
  <1>11. QED
    BY <1>4, <1>5, <1>7, <1>8, <1>10 DEF IInv

-----------------------------------------------------------------------------
(* The stage.                                                              *)

LEMMA StartStep ==
  ASSUME IInv, Start
  PROVE  IInv'
  <1> USE DEF procVars
  <1>1. /\ worker = "idle" /\ run < MaxRuns /\ worker' = "wait" /\ timedOut' = FALSE
        /\ outcome' = "none" /\ run' = run + 1 /\ uv' = "alive"
        /\ pipe' = [s \in Streams |-> << >>] /\ printed' = [s \in Streams |-> 0]
        /\ pump' = [s \in Streams |-> "reading"] /\ sink' = [s \in Streams |-> 0]
        /\ UNCHANGED <<timeout, log, kits, wrote, srt, orphaned>>
    BY DEF Start
  <1>2. /\ run \in 0..MaxRuns /\ MaxRuns \in Nat /\ MaxLines \in Nat /\ PipeSize \in Nat
        /\ run' \in Runs /\ run' # 0
    BY <1>1, Shapes DEF Runs
  <1>3. kits[run'] = "none" /\ run' \notin wrote
    BY <1>1, <1>2 DEF IInv, FutureIsEmpty, Runs
  <1>4. TypeOK'
    <2>1. \A s \in Streams : pipe'[s] \in Seq({"text", "bytes"}) /\ Len(pipe'[s]) <= PipeSize
      BY <1>1, <1>2
    <2>2. printed' \in [Streams -> 0..MaxLines] /\ sink' \in [Streams -> 0..MaxLines]
      BY <1>1, <1>2
    <2>3. pump' \in [Streams -> {"reading", "done", "dead"}]
      BY <1>1
    <2>4. timedOut' \in BOOLEAN
      BY <1>1
    <2>5. QED
      BY <1>1, <1>2, <2>1, <2>2, <2>3, <2>4 DEF IInv, TypeOK, Runs
  <1>5. StageFits'
    BY <1>1, <1>2 DEF StageFits
  <1>6. FutureIsEmpty'
    <2>1. \A k \in Runs : k > run' => k > run
      BY <1>1, <1>2 DEF Runs
    <2>2. pipe' \in [Streams -> Seq({"text", "bytes"})]
      BY <1>1
    <2>3. QED
      BY <1>1, <2>1, <2>2 DEF IInv, FutureIsEmpty
  <1>7. EndIsTheEnd'
    BY <1>1 DEF EndIsTheEnd
  <1>8. Counted'
    <2>1. ASSUME NEW s \in Streams
          PROVE  /\ Waiting(s)' = 0 /\ sink'[s] = 0 /\ Len(pipe'[s]) = 0 /\ printed'[s] = 0
      BY <1>1, <1>3 DEF Waiting, Streams
    <2>2. QED
      BY <2>1 DEF Counted
  <1>9. \A k \in Runs : Alive(k)' <=> Alive(k)
    BY <1>1 DEF Alive
  <1>10. NoneLeftBehind'
    BY <1>1, <1>9 DEF IInv, NoneLeftBehind
  <1>11. LogIsWhole'
    BY <1>1 DEF LogIsWhole
  <1>12. QED
    BY <1>4, <1>5, <1>6, <1>7, <1>8, <1>10, <1>11 DEF IInv

\* A wait that ends, with uv or with the timer.
LEMMA WaitEndsStep ==
  ASSUME IInv, Waited \/ TimesOut
  PROVE  IInv'
  <1> USE DEF procVars, ioVars
  <1>1. /\ worker = "wait" /\ worker' = "join" /\ timedOut' \in BOOLEAN
        /\ uv' # "alive" 
        /\ \/ uv' = uv /\ timedOut' = timedOut
           \/ uv' \in {uv, "killed"} /\ timedOut'
        /\ UNCHANGED <<timeout, outcome, run, log, kits, wrote, srt,
                       pipe, printed, pump, sink, orphaned>>
    BY DEF Waited, TimesOut, IInv, TypeOK
  <1>2. TypeOK'
    BY <1>1 DEF IInv, TypeOK
  <1>3. run # 0 /\ outcome = "none"
    BY <1>1 DEF IInv, StageFits
  <1>4. StageFits'
    BY <1>1, <1>3 DEF IInv, StageFits
  <1>5. \A k \in Runs : Alive(k)' <=> Alive(k)
    BY <1>1 DEF Alive
  <1>6. Alive(run)' <=> Alive(run)
    BY <1>1 DEF Alive
  <1>7. FutureIsEmpty' /\ EndIsTheEnd'
    BY <1>1, <1>6 DEF IInv, FutureIsEmpty, EndIsTheEnd
  <1>8. Counted'
    BY <1>1 DEF IInv, Counted, Waiting
  <1>9. NoneLeftBehind' /\ LogIsWhole'
    BY <1>1, <1>5 DEF IInv, NoneLeftBehind, LogIsWhole
  <1>10. QED
    BY <1>2, <1>4, <1>7, <1>8, <1>9 DEF IInv

\* A stage that is over has orphaned the processes that it leaves.
LEMMA Orphans ==
  ASSUME IInv, orphaned => orphaned', UNCHANGED <<run, kits, uv>>,
         ~orphaned' => ~Alive(run) /\ ~(worker' = "idle" /\ uv = "alive")
  PROVE  NoneLeftBehind'
  <1>1. \A k \in Runs : Alive(k)' <=> Alive(k)
    BY DEF Alive
  <1>2. QED
    BY <1>1 DEF IInv, NoneLeftBehind

LEMMA JoinStep ==
  ASSUME IInv, Join
  PROVE  IInv'
  <1> USE DEF procVars, ioVars
  <1>1. /\ worker = "join" /\ \A s \in Streams : pump[s] # "reading"
        /\ \/ worker' = "idle" /\ outcome' = "TimeoutExpired"
           \/ worker' = "check" /\ outcome' = "none"
        /\ UNCHANGED <<timeout, timedOut, run, log, uv, kits, wrote, srt,
                       pipe, printed, pump, sink>>
    BY DEF Join
  <1>2. run # 0 /\ outcome = "none" /\ uv # "alive"
    BY <1>1 DEF IInv, StageFits
  <1>3. orphaned' = (orphaned \/ (timedOut /\ \A s \in Streams : pump[s] = "dead"))
    BY DEF Join
  <1>4. NoneLeftBehind' /\ orphaned' \in BOOLEAN
    <2>1. orphaned' \in BOOLEAN /\ (orphaned => orphaned')
      BY <1>3 DEF IInv, TypeOK
    <2>2. (\E s \in Streams : pump[s] = "done") => ~Alive(run)
      BY <1>2 DEF IInv, EndIsTheEnd
    <2>3. ~timedOut => ~Alive(run)
      <3>1. ~timedOut => uv \in {"ok", "error"}
        BY <1>2 DEF IInv, TypeOK, StageFits
      <3>2. uv \in {"ok", "error"} => kits[run] \in {"ok", "none", "error"}
        BY DEF IInv, StageFits
      <3>3. QED
        BY <3>1, <3>2 DEF Alive, Streams
    <2>4. (~\A s \in Streams : pump[s] = "dead") => \E s \in Streams : pump[s] = "done"
      BY <1>1, Shapes
    <2>5. ~orphaned' => ~Alive(run)
      BY <1>3, <2>2, <2>3, <2>4
    <2>6. QED
      BY <1>1, <1>2, <2>1, <2>5, Orphans
  <1>5. TypeOK'
    BY <1>1, <1>4 DEF IInv, TypeOK
  <1>6. StageFits'
    BY <1>1, <1>2 DEF IInv, StageFits
  <1>7. Alive(run)' <=> Alive(run)
    BY <1>1 DEF Alive
  <1>8. FutureIsEmpty' /\ EndIsTheEnd'
    BY <1>1, <1>2, <1>7 DEF IInv, FutureIsEmpty, EndIsTheEnd
  <1>9. Counted'
    BY <1>1, <1>2 DEF IInv, Counted, Waiting
  <1>10. LogIsWhole'
    BY <1>1 DEF LogIsWhole
  <1>11. QED
    BY <1>4, <1>5, <1>6, <1>8, <1>9, <1>10 DEF IInv

LEMMA CheckStep ==
  ASSUME IInv, Check
  PROVE  IInv'
  <1> USE DEF procVars, ioVars
  <1>1. /\ worker = "check" /\ worker' = "idle" /\ log' = [of |-> run, lines |-> sink]
        /\ outcome' \in {"srt", "KitsError"} /\ (outcome' = "srt" => uv = "ok")
        /\ UNCHANGED <<timeout, timedOut, run, uv, kits, wrote, srt,
                       pipe, printed, pump, sink, orphaned>>
    BY DEF Check, Usable
  <1>2. run # 0 /\ outcome = "none" /\ uv # "alive"
    BY <1>1 DEF IInv, StageFits
  <1>3. \A s \in Streams : pump[s] \in {"done", "dead"}
    BY <1>1, Shapes DEF IInv, StageFits
  <1>4. log' \in [of : 0..MaxRuns, lines : [Streams -> 0..MaxLines]]
        /\ log'.of = run /\ log'.lines = sink
    BY <1>1 DEF IInv, TypeOK
  <1>5. TypeOK'
    BY <1>1, <1>4 DEF IInv, TypeOK
  <1>6. StageFits'
    BY <1>1, <1>2, <1>3 DEF IInv, StageFits
  <1>7. Alive(run)' <=> Alive(run)
    BY <1>1 DEF Alive
  <1>8. FutureIsEmpty' /\ EndIsTheEnd'
    BY <1>1, <1>2, <1>7 DEF IInv, FutureIsEmpty, EndIsTheEnd
  <1>9. Counted'
    BY <1>1, <1>2 DEF IInv, Counted, Waiting
  <1>10. NoneLeftBehind'
    <2>1. \A k \in Runs : Alive(k)' <=> Alive(k)
      BY <1>1 DEF Alive
    <2>2. QED
      BY <1>1, <1>2, <2>1 DEF IInv, NoneLeftBehind
  <1>11. LogIsWhole'
    <2>1. ASSUME NEW s \in Streams, pump[s] = "done"
          PROVE  sink[s] = printed[s]
      <3>1. ~Alive(run) /\ pipe[s] = << >>
        BY <1>2, <2>1 DEF IInv, EndIsTheEnd
      <3>2. Waiting(s) = 0
        BY <3>1, <1>2, Shapes DEF Waiting, Alive
      <3>3. printed[s] = sink[s] + Len(pipe[s]) + Waiting(s)
        BY <1>2, <2>1 DEF IInv, Counted
      <3>4. Len(pipe[s]) = 0 /\ sink[s] \in Nat
        BY <3>1, Shapes
      <3>5. QED
        BY <3>2, <3>3, <3>4
    <2>2. QED
      BY <1>1, <1>3, <1>4, <2>1 DEF LogIsWhole
  <1>12. QED
    BY <1>5, <1>6, <1>8, <1>9, <1>10, <1>11 DEF IInv

LEMMA DieStep ==
  ASSUME IInv, Die
  PROVE  IInv'
  <1> USE DEF procVars
  <1>1. /\ worker # "idle" /\ worker' = "idle" /\ outcome' = "died"
        /\ pump' = [s \in Streams |-> "done"]
        /\ UNCHANGED <<timeout, timedOut, run, log, uv, kits, wrote, srt,
                       pipe, printed, sink>>
    BY DEF Die
  <1>2. run # 0
    BY <1>1 DEF IInv, StageFits
  <1>3. orphaned' = (orphaned \/ Alive(run) \/ (worker' = "idle" /\ uv = "alive"))
    BY <1>1 DEF Die
  <1>4. NoneLeftBehind' /\ orphaned' \in BOOLEAN
    <2>1. orphaned' \in BOOLEAN /\ (orphaned => orphaned')
      BY <1>3
    <2>2. ~orphaned' => ~Alive(run) /\ ~(worker' = "idle" /\ uv = "alive")
      BY <1>3
    <2>3. QED
      BY <1>1, <2>1, <2>2, Orphans
  <1>5. TypeOK'
    BY <1>1, <1>4 DEF IInv, TypeOK
  <1>6. StageFits'
    BY <1>1, <1>2 DEF IInv, StageFits
  <1>7. FutureIsEmpty' /\ EndIsTheEnd'
    BY <1>1 DEF IInv, FutureIsEmpty, EndIsTheEnd
  <1>8. Counted'
    BY <1>1 DEF IInv, Counted, Waiting
  <1>9. LogIsWhole'
    BY <1>1 DEF LogIsWhole
  <1>10. QED
    BY <1>4, <1>5, <1>6, <1>7, <1>8, <1>9 DEF IInv

LEMMA StutterStep ==
  ASSUME IInv, UNCHANGED vars
  PROVE  IInv'
  <1>1. UNCHANGED <<timeout, worker, timedOut, outcome, run, log, uv, kits, wrote, srt,
                    pipe, printed, pump, sink, orphaned>>
    BY DEF vars, stageVars, procVars, ioVars
  <1>2. TypeOK' /\ StageFits' /\ FutureIsEmpty'
    BY <1>1 DEF IInv, TypeOK, StageFits, FutureIsEmpty
  <1>3. EndIsTheEnd' /\ Counted' /\ NoneLeftBehind' /\ LogIsWhole'
    BY <1>1 DEF IInv, EndIsTheEnd, Counted, Waiting, NoneLeftBehind, LogIsWhole,
                Alive
  <1>4. QED
    BY <1>2, <1>3 DEF IInv

LEMMA StepKeepsIInv == IInv /\ [Next]_vars => IInv'
  <1> SUFFICES ASSUME IInv, [Next]_vars PROVE IInv'
    OBVIOUS
  <1>1. CASE StageStep
    BY <1>1, StartStep, WaitEndsStep, JoinStep, CheckStep DEF StageStep
  <1>2. CASE Die \/ Spawn \/ UvExits
    BY <1>2, DieStep, SpawnStep, UvExitsStep
  <1>3. ASSUME NEW s \in Streams, PrintLine(s) \/ Printed(s) \/ Pump(s) \/ PumpEnds(s)
        PROVE  IInv'
    BY <1>3, PrintLineStep, PrintedStep, PumpStep, PumpEndsStep
  <1>4. ASSUME NEW k \in Runs,
               \/ BrokenPipe(k) \/ Hang(k)
               \/ \E empty \in BOOLEAN : WriteSrt(k, empty)
               \/ \E code \in {"ok", "error"} : Exit(k, code)
        PROVE  IInv'
    BY <1>4, EndsStep, WriteSrtStep
  <1>5. CASE UNCHANGED vars
    BY <1>5, StutterStep
  <1>6. QED
    BY <1>1, <1>2, <1>3, <1>4, <1>5 DEF Next

LEMMA InitIInv == Init => IInv
  <1> SUFFICES ASSUME Init PROVE IInv
    OBVIOUS
  <1>1. /\ MaxRuns \in Nat /\ MaxLines \in Nat /\ PipeSize \in Nat
        /\ worker = "idle" /\ outcome = "none" /\ run = 0 /\ uv = "none"
        /\ kits = [k \in Runs |-> "none"] /\ wrote = {}
        /\ pipe = [s \in Streams |-> << >>] /\ printed = [s \in Streams |-> 0]
        /\ pump = [s \in Streams |-> "done"] /\ sink = [s \in Streams |-> 0]
        /\ srt = [of |-> 0, empty |-> FALSE] /\ log = [of |-> 0, lines |-> sink]
    BY KitsAssumption DEF Init
  <1>2. timeout \in BOOLEAN /\ timedOut \in BOOLEAN /\ orphaned \in BOOLEAN
    BY Zenon DEF Init
  <1>3. TypeOK
    <2>1. \A s \in Streams : pipe[s] \in Seq({"text", "bytes"}) /\ Len(pipe[s]) <= PipeSize
      BY <1>1
    <2>2. srt \in [of : 0..MaxRuns, empty : BOOLEAN]
      BY <1>1
    <2>3. sink \in [Streams -> 0..MaxLines]
      BY <1>1
    <2>4. log \in [of : 0..MaxRuns, lines : [Streams -> 0..MaxLines]]
      BY <1>1, <2>3
    <2>5. QED
      BY <1>1, <1>2, <2>1, <2>2, <2>3, <2>4 DEF TypeOK
  <1>4. StageFits
    BY <1>1 DEF StageFits
  <1>5. FutureIsEmpty
    BY <1>1 DEF FutureIsEmpty
  <1>6. Counted
    BY <1>1 DEF Counted, Waiting, Runs
  <1>7. \A k \in Runs : ~Alive(k)
    BY <1>1 DEF Alive, Streams
  <1>8. EndIsTheEnd /\ NoneLeftBehind /\ LogIsWhole
    BY <1>1, <1>7 DEF EndIsTheEnd, NoneLeftBehind, LogIsWhole
  <1>9. QED
    BY <1>3, <1>4, <1>5, <1>6, <1>8 DEF IInv

-----------------------------------------------------------------------------
\* The inductive invariant holds of every run.
THEOREM KitsInvariant == Spec => []IInv
  BY InitIInv, StepKeepsIInv, PTL DEF Spec

\* The stage, the processes, the pipes and the threads stay within their types: no
\* pipe holds more than it can, no thread collects more than was printed.
THEOREM KitsTypes == Spec => []TypeOK
  <1>1. IInv => TypeOK
    BY DEF IInv
  <1>2. QED
    BY <1>1, KitsInvariant, PTL

\* When run_logged is back, no process of its run goes on, as long as one pump has
\* read to the end: the join is what the wait alone does not give.
THEOREM RunsEndWithTheirProcesses == Spec => []NothingRunsOn
  <1>1. IInv => NothingRunsOn
    BY DEF IInv, NothingRunsOn, EndIsTheEnd, StageFits
  <1>2. QED
    BY <1>1, KitsInvariant, PTL

\* The log of a run that was checked has every line of its KITS, but for a stream
\* whose pump died.
THEOREM LogsAreWhole == Spec => []LogIsWhole
  <1>1. IInv => LogIsWhole
    BY DEF IInv
  <1>2. QED
    BY <1>1, KitsInvariant, PTL

\* Once a stage has its SRT nobody writes that file before the next run begins,
\* unless a process was orphaned: the join is also what ends the writers.
THEOREM AcceptedSrtsStay == Spec => AcceptedSrtStays
  <1>1. ASSUME IInv, [Next]_vars
        PROVE  [outcome = "srt" /\ ~orphaned => srt' = srt]_vars
    <2>1. CASE outcome # "srt" \/ orphaned
      BY <2>1
    <2>2. CASE outcome = "srt" /\ ~orphaned
      <3>1. \A k \in Runs : kits[k] # "alive"
        <4>1. worker = "idle"
          BY <1>1, <2>2 DEF IInv, StageFits
        <4>2. \A k \in Runs : ~Alive(k)
          BY <1>1, <2>2, <4>1 DEF IInv, NoneLeftBehind
        <4>3. QED
          BY <4>2 DEF Alive
      <3>2. \A k \in Runs, empty \in BOOLEAN : ~WriteSrt(k, empty)
        BY <3>1 DEF WriteSrt
      <3>3. srt' = srt
        BY <1>1, <3>2
           DEF Next, StageStep, Start, Waited, TimesOut, Join, Check, Die, Spawn, UvExits,
               PrintLine, Printed, Pump, PumpEnds, BrokenPipe, Hang, Exit,
               vars, procVars
      <3>4. QED
        BY <3>3
    <2>3. QED
      BY <2>1, <2>2
  <1>2. QED
    BY <1>1, KitsInvariant, PTL DEF Spec, AcceptedSrtStays
=============================================================================
