----------------------------- MODULE Benchmark -----------------------------
(***************************************************************************)
(* Benchmarks of the admin panel (src/omlx/admin/benchmark.py and the      *)
(* /api/bench routes of src/omlx/admin/routes.py).                         *)
(*                                                                         *)
(* A run is a task of its own: it unloads every model, loads its own, runs *)
(* its tests, unloads it and uploads the results.  It tells of its progress*)
(* in one queue, which any number of event streams take from.  A user's    *)
(* requests, and other runs, use the same pool of engines meanwhile.       *)
(***************************************************************************)
EXTENDS Integers, Sequences, FiniteSets, SequencesExt

CONSTANTS
    Runs,       \* benchmark runs
    Readers,    \* event streams of the panel
    Models,     \* models of the pool
    Singles,    \* prompt lengths a run tests
    Batches,    \* batch sizes a run tests, each twice
    MaxRuns,    \* finished runs that cleanup_old_runs keeps
    NoRun

ASSUME BenchmarkAssumption ==
    /\ Singles \in Nat \ {0} /\ Batches \in Nat /\ MaxRuns \in Nat \ {0}
    /\ NoRun \notin Runs \cup Readers

VARIABLES
    registry,     \* _benchmark_runs, in order
    runStatus,    \* run.status: unborn, running, completed, cancelled or error
    model,        \* model[b] the run measures
    phase,        \* where the task is: new, load, warmup, single, batch, cleanup,
                  \* upload, handler, over
    results,      \* results[b]: number of tests measured
    cancelling,   \* runs whose task CancelledError will be thrown into
    queue,        \* queue[b]: events not taken; progress and results count as one kind
    reader,       \* reader[q]: [run, at]
    took,         \* took[b]: reader that took the terminal event, or NoRun
    loaded,       \* models loaded in the pool
    robbed        \* runs whose model was unloaded by somebody else while measured

benchVars == <<registry, runStatus, model, phase, results, cancelling, queue, reader, took, loaded,
               robbed>>

Finished == {"completed", "cancelled", "error"}
Terminal == {"upload_done", "error"}
Measuring == {"warmup", "single", "batch"}
Tests == Singles + 2 * Batches

BenchInit ==
    /\ registry = << >>
    /\ runStatus = [b \in Runs |-> "unborn"]
    /\ model = [b \in Runs |-> CHOOSE m \in Models : TRUE]
    /\ phase = [b \in Runs |-> "none"]
    /\ results = [b \in Runs |-> 0]
    /\ cancelling = {}
    /\ queue = [b \in Runs |-> << >>]
    /\ reader = [q \in Readers |-> [run |-> NoRun, at |-> "none"]]
    /\ took = [b \in Runs |-> NoRun]
    /\ loaded = {}
    /\ robbed = {}

\* _send_event; a progress event after another adds nothing new.
Send(b, event) ==
    queue' = [queue EXCEPT ![b] = IF event = "progress" /\ @ # << >> /\ Last(@) = "progress"
                                  THEN @ ELSE Append(@, event)]

\* Runs that lose the engine they measure when these models are unloaded.
Losers(b, models) == {c \in Runs \ {b} : phase[c] \in Measuring /\ model[c] \in models}
Unload(b, models) ==
    /\ loaded' = loaded \ models
    /\ robbed' = robbed \cup Losers(b, models)

-----------------------------------------------------------------------------
(* Routes                                                                  *)

\* cleanup_old_runs: of the finished ones all but the last MaxRuns go.
CleanupOldRuns ==
    LET old == SelectSeq(registry, LAMBDA b : runStatus[b] \in Finished)
        gone == ToSet(SubSeq(old, 1, Len(old) - MaxRuns))
    IN SelectSeq(registry, LAMBDA b : b \notin gone)

StartBenchmark(b, m) ==
    /\ runStatus[b] = "unborn" /\ b = CHOOSE c \in Runs : runStatus[c] = "unborn"  \* fresh ids
    /\ registry' = Append(CleanupOldRuns, b)
    /\ runStatus' = [runStatus EXCEPT ![b] = "running"]
    /\ model' = [model EXCEPT ![b] = m]
    /\ phase' = [phase EXCEPT ![b] = "new"]
    /\ UNCHANGED <<results, cancelling, queue, reader, took, loaded, robbed>>

CancelBenchmark(b) ==
    /\ b \in ToSet(registry)
    /\ runStatus[b] = "running"
    /\ phase[b] # "new"      \* the task has had its first turn by the next request
    /\ cancelling' = cancelling \cup {b}
    /\ UNCHANGED <<registry, runStatus, model, phase, results, queue, reader, took, loaded, robbed>>

StreamBenchmark(q, b) ==
    /\ reader[q].at = "none" /\ q = CHOOSE p \in Readers : reader[p].at = "none"
    /\ b \in ToSet(registry)
    /\ reader' = [reader EXCEPT ![q] = [run |-> b, at |-> "waiting"]]
    /\ UNCHANGED <<registry, runStatus, model, phase, results, cancelling, queue, took, loaded, robbed>>

\* The stream sends an event, and ends after a terminal one.  (On an empty
\* queue it sends a comment every minute.)
TakeEvent(q) ==
    LET b == reader[q].run IN
    /\ reader[q].at = "waiting"
    /\ queue[b] # << >>
    /\ queue' = [queue EXCEPT ![b] = Tail(@)]
    /\ IF Head(queue[b]) \in Terminal
       THEN /\ reader' = [reader EXCEPT ![q].at = "ended"]
            /\ took' = [took EXCEPT ![b] = q]
       ELSE UNCHANGED <<reader, took>>
    /\ UNCHANGED <<registry, runStatus, model, phase, results, cancelling, loaded, robbed>>

\* The panel is closed; the run does not notice.
LeaveStream(q) ==
    /\ reader[q].at = "waiting"
    /\ reader' = [reader EXCEPT ![q].at = "left"]
    /\ UNCHANGED <<registry, runStatus, model, phase, results, cancelling, queue, took, loaded, robbed>>

-----------------------------------------------------------------------------
(* The task run_benchmark                                                  *)

At(b, where) == phase[b] = where /\ b \notin cancelling

UnloadAll(b) ==
    /\ At(b, "new")
    /\ Unload(b, loaded)
    /\ phase' = [phase EXCEPT ![b] = "load"]
    /\ Send(b, "progress")
    /\ UNCHANGED <<registry, runStatus, model, results, cancelling, reader, took>>

LoadTarget(b) ==
    /\ At(b, "load")
    /\ loaded' = loaded \cup {model[b]}
    /\ phase' = [phase EXCEPT ![b] = "warmup"]
    /\ Send(b, "progress")
    /\ UNCHANGED <<registry, runStatus, model, results, cancelling, reader, took, robbed>>

\* The warm-up, then test by test, on the engine it got; an engine that was
\* stopped does not answer.
Measure(b, where, count) ==
    /\ At(b, where) /\ b \notin robbed
    /\ results' = [results EXCEPT ![b] = @ + count]
    /\ phase' = [phase EXCEPT ![b] = IF results'[b] < Singles THEN "single"
                                     ELSE IF results'[b] < Tests THEN "batch" ELSE "cleanup"]
    /\ Send(b, "progress")
    /\ UNCHANGED <<registry, runStatus, model, cancelling, reader, took, loaded, robbed>>

WarmUp(b) == Measure(b, "warmup", 0)
RunSingleTest(b) == Measure(b, "single", 1)
\* Once with one prompt for all, once with different ones.
RunBatchTest(b) == Measure(b, "batch", 2)

CompleteRun(b) ==
    /\ At(b, "cleanup")
    /\ Unload(b, {model[b]})
    /\ runStatus' = [runStatus EXCEPT ![b] = "completed"]
    /\ phase' = [phase EXCEPT ![b] = "upload"]
    /\ Send(b, "done")
    /\ UNCHANGED <<registry, model, results, cancelling, reader, took>>

\* Failures of the upload are events too; in the end there is upload_done.
UploadResults(b) ==
    /\ phase[b] = "upload"
    /\ Send(b, "upload_done")
    /\ phase' = [phase EXCEPT ![b] = "over"]
    /\ UNCHANGED <<registry, runStatus, model, results, cancelling, reader, took, loaded, robbed>>

\* Mutant: only an exception is told, a cancellation is not.
EndInError_Silent(b, status) ==
    /\ runStatus' = [runStatus EXCEPT ![b] = status]
    /\ phase' = [phase EXCEPT ![b] = "handler"]
    /\ IF status = "error" THEN Send(b, "error") ELSE UNCHANGED queue
    /\ cancelling' = cancelling \ {b}
    /\ UNCHANGED <<registry, model, results, reader, took, loaded, robbed>>

\* An exception, or CancelledError: the status, one event, then the model is
\* unloaded.
EndInError(b, status) ==
    /\ runStatus' = [runStatus EXCEPT ![b] = status]
    /\ phase' = [phase EXCEPT ![b] = "handler"]
    /\ Send(b, "error")
    /\ cancelling' = cancelling \ {b}
    /\ UNCHANGED <<registry, model, results, reader, took, loaded, robbed>>

RunRaises(b) ==
    /\ phase[b] \in {"load"} \cup Measuring
    /\ b \notin cancelling
    /\ EndInError(b, "error")

RunCancelled(b) ==
    /\ b \in cancelling
    /\ phase[b] \in {"load", "cleanup"} \cup Measuring
    /\ EndInError(b, "cancelled")

UnloadAfterError(b) ==
    /\ phase[b] = "handler"
    /\ Unload(b, {model[b]})
    /\ phase' = [phase EXCEPT ![b] = "over"]
    /\ UNCHANGED <<registry, runStatus, model, results, cancelling, queue, reader, took>>

\* A user's request loads a model.
UserLoads(m) ==
    /\ m \notin loaded
    /\ loaded' = loaded \cup {m}
    /\ UNCHANGED <<registry, runStatus, model, phase, results, cancelling, queue, reader, took, robbed>>

TaskStep(b) ==
    \/ UnloadAll(b) \/ LoadTarget(b) \/ WarmUp(b) \/ RunSingleTest(b) \/ RunBatchTest(b)
    \/ CompleteRun(b) \/ UploadResults(b)
    \/ RunCancelled(b) \/ UnloadAfterError(b)

BenchNext ==
    \/ \E b \in Runs :
         \/ \E m \in Models : StartBenchmark(b, m)
         \/ CancelBenchmark(b) \/ TaskStep(b) \/ RunRaises(b)
         \/ \E q \in Readers : StreamBenchmark(q, b)
    \/ \E q \in Readers : TakeEvent(q) \/ LeaveStream(q)
    \/ \E m \in Models : UserLoads(m)

\* The event loop runs tasks that are ready; a live engine answers.
BenchFairness ==
    /\ \A b \in Runs : WF_benchVars(TaskStep(b))
    /\ \A q \in Readers : WF_benchVars(TakeEvent(q))

BenchSpec == BenchInit /\ [][BenchNext]_benchVars /\ BenchFairness

-----------------------------------------------------------------------------
(* Properties                                                              *)

\* A run says how it ends once, last, and a run that is over has said so: an
\* event stream opened at any time finds the terminal event, unless another
\* one took it.
LastWord ==
    \A b \in Runs :
        LET said == {i \in DOMAIN queue[b] : queue[b][i] \in Terminal}
        IN /\ said \subseteq {Len(queue[b])}
           /\ phase[b] \in {"handler", "over"} <=> said # {} \/ took[b] # NoRun
           /\ phase[b] = "over" => runStatus[b] \in Finished
           /\ runStatus[b] = "completed" => results[b] = Tests

\* A panel that watches a run is told how it ends, however it ends; unless its
\* model was unloaded under it by another run, or another panel was told.
PanelIsTold ==
    \A q \in Readers :
        reader[q].at = "waiting" ~>
            \/ reader[q].at # "waiting"
            \/ reader[q].run \in robbed
            \/ took[reader[q].run] \notin {NoRun, q}
=============================================================================
