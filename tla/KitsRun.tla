------------------------------ MODULE KitsRun ------------------------------
(***************************************************************************)
(* The transcribe stage's subprocess: run_logged starts `uv run kits ...`, *)
(* two threads pump its pipes into lists and the log, and the stage waits  *)
(* for the process, with a timeout if one is set, and then for the pumps.  *)
(* uv runs KITS as a process of its own, which holds the write ends of the *)
(* same pipes.  A job that failed is tried again with the same output      *)
(* path, so there are several runs, and what one leaves the next one finds.*)
(*                                                                         *)
(* uv and KITS are external: they print, write the SRT, hang or exit.      *)
(***************************************************************************)
EXTENDS Naturals, Sequences

CONSTANTS PipeSize,    \* lines a pipe holds before a writer blocks
          MaxLines,    \* bound: lines KITS prints in one run
          MaxRuns      \* bound: runs

ASSUME KitsAssumption == PipeSize \in Nat \ {0} /\ MaxLines \in Nat /\ MaxRuns \in Nat

Streams == {"stdout", "stderr"}
Runs    == 1..MaxRuns

VARIABLES
  timeout,   \* settings.kits_timeout is set
  worker,    \* the stage: idle, in wait, in join, or checking the result
  timedOut,  \* TimeoutExpired is on its way
  outcome,   \* how the run ended
  run,       \* the number of the current or last run
  uv,        \* the child: none, alive, killed, or its exit code
  kits,      \* the grandchild of each run: also blocked in a print, or hung
  wrote,     \* the runs whose KITS wrote an SRT
  pipe,      \* the lines in each pipe, "text" or bytes that do not decode
  printed,   \* how many lines went into it
  pump,      \* its thread: reading, done, or dead of an exception
  sink,      \* how many lines the thread collected
  srt,       \* the output file: the run it is from, and is it empty
  log,       \* the .kits.log: the run, and how much of each stream
  orphaned   \* a run was over while its KITS was not: the worker died, or both pumps had

stageVars == <<worker, timedOut, outcome, run, log>>
procVars  == <<uv, kits, wrote, srt>>
ioVars    == <<pipe, printed, pump, sink>>
vars      == <<timeout, stageVars, procVars, ioVars, orphaned>>

Init ==
  /\ timeout \in BOOLEAN
  /\ worker = "idle" /\ timedOut = FALSE /\ outcome = "none" /\ run = 0
  /\ uv = "none" /\ kits = [k \in Runs |-> "none"] /\ wrote = {}
  /\ pipe    = [s \in Streams |-> << >>]
  /\ printed = [s \in Streams |-> 0]
  /\ pump    = [s \in Streams |-> "done"]
  /\ sink    = [s \in Streams |-> 0]
  /\ srt = [of |-> 0, empty |-> FALSE]
  /\ log = [of |-> 0, lines |-> sink]
  /\ orphaned = FALSE

-----------------------------------------------------------------------------
(* uv and KITS.                                                            *)

Alive(k) == kits[k] \in {"alive", "hung"} \cup Streams

\* The pipes of a run are open while run_logged is; then they are collected.
PipesOpen == worker \in {"wait", "join"}

KitsTo(k, state) == kits' = [kits EXCEPT ![k] = state]

Spawn ==
  /\ uv = "alive" /\ kits[run] = "none"
  /\ \/ KitsTo(run, "alive") /\ UNCHANGED uv
     \/ uv' = "error" /\ UNCHANGED kits
  /\ UNCHANGED <<timeout, stageVars, wrote, srt, ioVars, orphaned>>

PrintLine(s) ==
  /\ PipesOpen /\ kits[run] = "alive"
  /\ printed["stdout"] + printed["stderr"] < MaxLines
  /\ KitsTo(run, s)
  /\ printed' = [printed EXCEPT ![s] = @ + 1]
  /\ UNCHANGED <<timeout, stageVars, uv, wrote, srt, pipe, pump, sink, orphaned>>

\* The write returns when there is room in the pipe.
Printed(s) ==
  /\ PipesOpen /\ kits[run] = s /\ Len(pipe[s]) < PipeSize
  /\ KitsTo(run, "alive")
  /\ \E line \in {"text", "bytes"} : pipe' = [pipe EXCEPT ![s] = Append(@, line)]
  /\ UNCHANGED <<timeout, stageVars, uv, wrote, srt, printed, pump, sink, orphaned>>

\* A write into a pipe that nobody has open any more ends the process.
BrokenPipe(k) ==
  /\ Alive(k) /\ kits[k] # "hung"
  /\ ~(PipesOpen /\ k = run)
  /\ KitsTo(k, "error")
  /\ UNCHANGED <<timeout, stageVars, uv, wrote, srt, ioVars, orphaned>>

WriteSrt(k, empty) ==
  /\ kits[k] = "alive"
  /\ srt' = [of |-> k, empty |-> empty] /\ wrote' = wrote \cup {k}
  /\ UNCHANGED <<timeout, stageVars, uv, kits, ioVars, orphaned>>

Hang(k) ==
  /\ kits[k] = "alive" /\ KitsTo(k, "hung")
  /\ UNCHANGED <<timeout, stageVars, uv, wrote, srt, ioVars, orphaned>>

Exit(k, code) ==
  /\ kits[k] = "alive" /\ KitsTo(k, code)
  /\ UNCHANGED <<timeout, stageVars, uv, wrote, srt, ioVars, orphaned>>

\* uv waits for KITS and passes its exit code on.
UvExits ==
  /\ uv = "alive" /\ kits[run] \in {"ok", "error"}
  /\ uv' = kits[run]
  /\ UNCHANGED <<timeout, stageVars, kits, wrote, srt, ioVars, orphaned>>

-----------------------------------------------------------------------------
(* run_logged.                                                             *)

\* Mutant: the lists are made once, as defaults are, and not for each run.
StartKeepsLines ==
  /\ worker = "idle" /\ run < MaxRuns
  /\ worker' = "wait" /\ timedOut' = FALSE /\ outcome' = "none" /\ run' = run + 1
  /\ uv' = "alive"
  /\ pipe'    = [s \in Streams |-> << >>]
  /\ printed' = [s \in Streams |-> 0]
  /\ pump'    = [s \in Streams |-> "reading"]
  /\ UNCHANGED <<timeout, sink, log, kits, wrote, srt, orphaned>>

Start ==
  /\ worker = "idle" /\ run < MaxRuns
  /\ worker' = "wait" /\ timedOut' = FALSE /\ outcome' = "none" /\ run' = run + 1
  /\ uv' = "alive"
  /\ pipe'    = [s \in Streams |-> << >>]
  /\ printed' = [s \in Streams |-> 0]
  /\ pump'    = [s \in Streams |-> "reading"]
  /\ sink'    = [s \in Streams |-> 0]
  /\ UNCHANGED <<timeout, log, kits, wrote, srt, orphaned>>

\* Mutant: one stream is read to its end before the other.
PumpInTurn(s) ==
  /\ pump[s] = "reading" /\ pipe[s] # << >>
  /\ s = "stderr" => pump["stdout"] # "reading"
  /\ pipe' = [pipe EXCEPT ![s] = Tail(@)]
  /\ IF Head(pipe[s]) = "text"
       THEN sink' = [sink EXCEPT ![s] = @ + 1] /\ UNCHANGED pump
       ELSE pump' = [pump EXCEPT ![s] = "dead"] /\ UNCHANGED sink
  /\ UNCHANGED <<timeout, stageVars, procVars, printed, orphaned>>

\* Decoding is strict: a line that is not UTF-8 raises in the thread.
Pump(s) ==
  /\ pump[s] = "reading" /\ pipe[s] # << >>
  /\ pipe' = [pipe EXCEPT ![s] = Tail(@)]
  /\ IF Head(pipe[s]) = "text"
       THEN sink' = [sink EXCEPT ![s] = @ + 1] /\ UNCHANGED pump
       ELSE pump' = [pump EXCEPT ![s] = "dead"] /\ UNCHANGED sink
  /\ UNCHANGED <<timeout, stageVars, procVars, printed, orphaned>>

\* Mutant: the end of uv is taken for the end of the output.
PumpEndsWithUv(s) ==
  /\ pump[s] = "reading" /\ pipe[s] = << >>
  /\ uv # "alive"
  /\ pump' = [pump EXCEPT ![s] = "done"]
  /\ UNCHANGED <<timeout, stageVars, procVars, pipe, printed, sink, orphaned>>

\* readline returns "": the pipe is empty and no process has its other end.
PumpEnds(s) ==
  /\ pump[s] = "reading" /\ pipe[s] = << >>
  /\ uv # "alive" /\ ~Alive(run)
  /\ pump' = [pump EXCEPT ![s] = "done"]
  /\ UNCHANGED <<timeout, stageVars, procVars, pipe, printed, sink, orphaned>>

Waited ==
  /\ worker = "wait" /\ uv # "alive"
  /\ worker' = "join"
  /\ UNCHANGED <<timeout, timedOut, outcome, run, log, procVars, ioVars, orphaned>>

\* process.kill() is a signal to uv and to nobody else.
TimesOut ==
  /\ timeout /\ worker = "wait"
  /\ worker' = "join" /\ timedOut' = TRUE
  /\ uv' = IF uv = "alive" THEN "killed" ELSE uv
  /\ UNCHANGED <<timeout, outcome, run, log, kits, wrote, srt, ioVars, orphaned>>

\* Mutant: the pumps are left to end by themselves.
JoinNobody ==
  /\ worker = "join"
  /\ worker'  = IF timedOut THEN "idle" ELSE "check"
  /\ outcome' = IF timedOut THEN "TimeoutExpired" ELSE "none"
  /\ orphaned' = (orphaned \/ (timedOut /\ \A s \in Streams : pump[s] = "dead"))
  /\ UNCHANGED <<timeout, timedOut, run, log, procVars, ioVars>>

\* Both threads have ended, if only by an exception.
Join ==
  /\ worker = "join" /\ \A s \in Streams : pump[s] # "reading"
  /\ worker'  = IF timedOut THEN "idle" ELSE "check"
  /\ outcome' = IF timedOut THEN "TimeoutExpired" ELSE "none"
  /\ orphaned' = (orphaned \/ (timedOut /\ \A s \in Streams : pump[s] = "dead"))
  /\ UNCHANGED <<timeout, timedOut, run, log, procVars, ioVars>>

\* The exit code, and whether there is a file with text in it; nobody asks which run
\* it is from.
Usable == uv = "ok" /\ srt.of # 0 /\ ~srt.empty

\* transcribe: the log first, then the checks.
Check ==
  /\ worker = "check"
  /\ log' = [of |-> run, lines |-> sink]
  /\ outcome' = IF Usable THEN "srt" ELSE "KitsError"
  /\ worker' = "idle"
  /\ UNCHANGED <<timeout, timedOut, run, procVars, ioVars, orphaned>>

\* The worker's process dies; uv and KITS do not go with it.
Die ==
  /\ worker # "idle"
  /\ worker' = "idle" /\ outcome' = "died"
  /\ pump' = [s \in Streams |-> "done"]
  /\ orphaned' = (orphaned \/ Alive(run) \/ uv = "alive")
  /\ UNCHANGED <<timeout, timedOut, run, log, procVars, pipe, printed, sink>>

StageStep == Start \/ Waited \/ TimesOut \/ Join \/ Check

Next ==
  \/ StageStep \/ Die \/ Spawn \/ UvExits
  \/ \E s \in Streams : PrintLine(s) \/ Printed(s) \/ Pump(s) \/ PumpEnds(s)
  \/ \E k \in Runs : \/ BrokenPipe(k) \/ Hang(k)
                     \/ \E empty \in BOOLEAN : WriteSrt(k, empty)
                     \/ \E code \in {"ok", "error"} : Exit(k, code)

\* The threads and processes run; the timer goes off if the wait lasts; KITS
\* exits in the end, unless it is hung or kept from writing.
Fairness ==
  /\ WF_vars(Waited) /\ WF_vars(TimesOut) /\ WF_vars(Join) /\ WF_vars(Check)
  /\ WF_vars(Spawn) /\ WF_vars(UvExits)
  /\ \A s \in Streams : WF_vars(Printed(s)) /\ WF_vars(Pump(s)) /\ WF_vars(PumpEnds(s))
  /\ \A k \in Runs : WF_vars(\E code \in {"ok", "error"} : Exit(k, code))

Spec == Init /\ [][Next]_vars /\ Fairness

-----------------------------------------------------------------------------
TypeOK ==
  /\ worker \in {"idle", "wait", "join", "check"}
  /\ timeout \in BOOLEAN /\ timedOut \in BOOLEAN /\ orphaned \in BOOLEAN
  /\ outcome \in {"none", "srt", "KitsError", "TimeoutExpired", "died"}
  /\ run \in 0..MaxRuns /\ wrote \subseteq Runs
  /\ uv \in {"none", "alive", "killed", "ok", "error"}
  /\ kits \in [Runs -> {"none", "alive", "hung", "ok", "error"} \cup Streams]
  /\ \A s \in Streams : pipe[s] \in Seq({"text", "bytes"}) /\ Len(pipe[s]) <= PipeSize
  /\ printed \in [Streams -> 0..MaxLines] /\ sink \in [Streams -> 0..MaxLines]
  /\ pump \in [Streams -> {"reading", "done", "dead"}]
  /\ srt \in [of : 0..MaxRuns, empty : BOOLEAN]
  /\ log \in [of : 0..MaxRuns, lines : [Streams -> 0..MaxLines]]

\* When run_logged is back, by whatever way, no process of the run writes on, as
\* long as one pump has read to the end.
NothingRunsOn ==
  outcome \in {"srt", "KitsError", "TimeoutExpired"} /\ (\E s \in Streams : pump[s] = "done")
    => ~Alive(run)

\* "Always persist the full, untruncated KITS output": the log of a run that was
\* checked holds every line that KITS printed, unless one did not decode.
LogIsWhole ==
  outcome \in {"srt", "KitsError"} =>
    /\ log.of = run
    /\ \A s \in Streams : pump[s] = "dead" \/ log.lines[s] = printed[s]

\* parse_transcript and the push read the SRT after transcribe is back: nobody
\* writes it any more, neither its own KITS nor that of an earlier run that failed
\* or timed out, unless the worker died during that run, or it timed out and both of
\* its pumps were dead.
AcceptedSrtStays == [][outcome = "srt" /\ ~orphaned => srt' = srt]_vars

\* A run ends, whether or not there is a timeout and however much KITS prints,
\* unless KITS hangs or a pump died and left its pipe to fill up.
RunEnds ==
  (worker # "idle") ~>
    (worker = "idle" \/ kits[run] = "hung" \/ \E s \in Streams : pump[s] = "dead")

\* kits_timeout is the "Subprocess timeout (seconds) for a single KITS
\* transcription": with one set, the stage does not wait for ever.
TimeoutBoundsRun == (timeout /\ worker = "wait") ~> (worker = "idle")
=============================================================================
