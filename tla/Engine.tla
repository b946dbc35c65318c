-------------------------------- MODULE Engine --------------------------------
(***************************************************************************)
(* EngineCore of omlx/engine_core.py with the output collectors of         *)
(* omlx/output_collector.py, around Scheduler: the coroutines of the event *)
(* loop (one per client, and _engine_loop) and the single-threaded MLX     *)
(* executor that runs scheduler.add_request, step and fail_all_requests in *)
(* the order they were submitted.  A coroutine is one action per stretch   *)
(* between two awaits.  A client is a stream (BatchedEngine's              *)
(* stream_generate over stream_outputs) or a call of generate().           *)
(***************************************************************************)
EXTENDS Scheduler

CONSTANTS
  StreamRequest,   \* requests read by stream_outputs; the others use generate
  StreamInterval,  \* config.stream_interval
  MaxAbortAlls     \* bound: calls of abort_all_requests in a behaviour

ASSUME EngineAssumption ==
  /\ StreamRequest \subseteq Request
  /\ StreamInterval \in Nat \ {0} /\ MaxAbortAlls \in Nat
  /\ None \notin [rid: Request, new: Nat, total: Nat, finished: BOOLEAN, error: BOOLEAN]

VARIABLES
  client,      \* where the coroutine of each request is
  result,      \* history: how it ended
  received,    \* history: tokens it has been given in new_token_ids
  collectors,  \* keys of _output_collectors, _stream_states, _finished_events
  buffer,      \* RequestOutputCollector.output
  event,       \* requests whose _finished_events entry is set
  sent,        \* RequestStreamState.sent_tokens
  tasks,       \* the executor's queue; its head is being run
  loop,        \* where _engine_loop is
  failed,      \* what fail_all_requests returned
  told,        \* history: requests that abort_all_requests signalled
  restarted,   \* history: requests put back in the queue after a first token
  abortAlls    \* calls of abort_all_requests so far

loopVars   == <<tasks, loop, failed>>
clientVars == <<client, result, received, collectors, buffer, event, sent>>
histVars   == <<told, restarted, abortAlls>>
vars       == <<schedVars, clientVars, loopVars, histVars>>

AddTask(r) == [kind |-> "add",  rid |-> r]
StepTask   == [kind |-> "step", rid |-> None]
FailTask   == [kind |-> "fail", rid |-> None]

Active == {"adding", "streaming", "waiting"}

EngineInit ==
  /\ SchedInit
  /\ client     = [r \in Request |-> "none"]
  /\ result     = [r \in Request |-> "none"]
  /\ received   = [r \in Request |-> 0]
  /\ collectors = {}
  /\ buffer     = [r \in Request |-> None]
  /\ event      = {}
  /\ sent       = [r \in Request |-> 0]
  /\ tasks      = <<>>
  /\ loop       = "idle"
  /\ failed     = {}
  /\ told       = {}
  /\ restarted  = {}
  /\ abortAlls  = 0

-----------------------------------------------------------------------------
(* RequestOutputCollector and RequestStreamState.                          *)

\* Mutant: the newer output replaces the tokens of the one not yet read.
Merged_LatestTokens(old, new) == [new EXCEPT !.error = new.error \/ old.error]

\* _merge_outputs: tokens add up, the status is the latest, an error stays.
Merged(old, new) == [new EXCEPT !.new = old.new + new.new, !.error = new.error \/ old.error]

\* put, for every request that has an output in outs.
Put(outs) ==
  buffer' = [r \in Request |->
    IF r \in collectors /\ \E o \in outs : o.rid = r
    THEN LET o == CHOOSE o \in outs : o.rid = r
         IN  IF buffer[r] = None THEN o ELSE Merged(buffer[r], o)
    ELSE buffer[r]]

\* should_send; an interval of 1 bypasses it.
ShouldSend(o) ==
  \/ StreamInterval = 1
  \/ o.finished
  \/ sent[o.rid] = 0
  \/ o.total - sent[o.rid] >= StreamInterval

\* _cleanup_request.
Cleanup(r) ==
  /\ collectors' = collectors \ {r}
  /\ buffer'     = [buffer EXCEPT ![r] = None]
  /\ event'      = event \ {r}
  /\ sent'       = [sent EXCEPT ![r] = 0]

-----------------------------------------------------------------------------
(* The clients' coroutines.                                                *)

\* EngineCore.add_request up to its await.
ClientAdd(r) ==
  /\ client[r] = "none"
  /\ client'     = [client EXCEPT ![r] = "adding"]
  /\ collectors' = collectors \cup {r}
  /\ tasks'      = Append(tasks, AddTask(r))
  /\ UNCHANGED <<schedVars, result, received, buffer, event, sent, loop, failed, histVars>>

\* The await returned: stream_outputs starts, or generate waits for its event.
ClientAttach(r) ==
  /\ client[r] = "adding" /\ AddTask(r) \notin ToSet(tasks)
  /\ client' = [client EXCEPT ![r] = IF r \in StreamRequest THEN "streaming" ELSE "waiting"]
  /\ UNCHANGED <<schedVars, result, received, collectors, buffer, event, sent, loopVars, histVars>>

Ends(r, how) ==
  /\ client' = [client EXCEPT ![r] = "done"]
  /\ result' = [result EXCEPT ![r] = how]

\* One output of stream_outputs, which raises on an error and stops on a
\* finished one.  stream_generate aborts the request unless it saw it finish.
StreamRead(r) ==
  /\ client[r] = "streaming" /\ buffer[r] # None
  /\ received' = [received EXCEPT ![r] = @ + buffer[r].new]
  /\ IF buffer[r].error \/ buffer[r].finished
     THEN /\ Ends(r, IF buffer[r].error THEN "error" ELSE "ok")
          /\ Cleanup(r)
          /\ IF buffer[r].finished THEN UNCHANGED schedVars ELSE AbortRequest(r)
     ELSE /\ buffer' = [buffer EXCEPT ![r] = None]
          /\ UNCHANGED <<schedVars, client, result, collectors, event, sent>>
  /\ UNCHANGED <<loopVars, histVars>>

\* generate() after its event: the collector holds everything in one output.
GenerateReturn(r) ==
  /\ client[r] = "waiting" /\ r \in event
  /\ received' = [received EXCEPT ![r] = IF buffer[r] = None THEN 0 ELSE buffer[r].new]
  /\ Ends(r, IF buffer[r] = None \/ buffer[r].error THEN "error"
             ELSE IF buffer[r].finished THEN "ok" ELSE "cut")
  /\ Cleanup(r)
  /\ UNCHANGED <<schedVars, loopVars, histVars>>

\* Mutant: a disconnected client is cleaned up but its request goes on.
CancelAttached_NoAbort(r) ==
  /\ client[r] \in {"streaming", "waiting"}
  /\ Ends(r, "cancelled")
  /\ Cleanup(r)
  /\ UNCHANGED <<schedVars, received, loopVars, histVars>>

\* The client disconnects: generate catches CancelledError, stream_generate
\* runs its finally block; both abort the request and clean up.
CancelAttached(r) ==
  /\ client[r] \in {"streaming", "waiting"}
  /\ AbortRequest(r)
  /\ Ends(r, "cancelled")
  /\ Cleanup(r)
  /\ UNCHANGED <<received, loopVars, histVars>>

\* The client disconnects during the await of add_request, where nothing
\* catches it.  A task that has not started is cancelled with the future; one
\* that is at the head of the queue may be running.
CancelAdding(r) ==
  /\ client[r] = "adding"
  /\ Ends(r, "dropped")
  /\ \/ tasks' = Without(tasks, {AddTask(r)})
     \/ /\ AddTask(r) \in ToSet(tasks) => tasks[1] = AddTask(r)
        /\ UNCHANGED tasks
  /\ UNCHANGED <<schedVars, received, collectors, buffer, event, sent, loop, failed, histVars>>

\* Mutant: the abort looks like an ordinary last output.
AbortOutput_NoError(r) == Output(r, 0, 0, TRUE, FALSE)

AbortOutput(r) == Output(r, 0, 0, TRUE, TRUE)

\* abort_all_requests, which the memory enforcer calls.
AbortAllRequests ==
  /\ abortAlls < MaxAbortAlls /\ collectors # {}
  /\ pending'   = pending \cup collectors
  /\ Put({AbortOutput(r) : r \in collectors})
  /\ event'     = event \cup collectors
  /\ told'      = told \cup {r \in collectors : client[r] \in Active}
  /\ abortAlls' = abortAlls + 1
  /\ UNCHANGED <<arrived, waiting, running, requests, batchVars, reqVars, phase, output, faults,
                 client, result, received, collectors, sent, loopVars, restarted>>

-----------------------------------------------------------------------------
(* _engine_loop.                                                           *)

LoopSubmit ==
  /\ loop = "idle" /\ HasRequests
  /\ loop'  = "stepping"
  /\ tasks' = Append(tasks, StepTask)
  /\ UNCHANGED <<schedVars, clientVars, failed, histVars>>

\* Mutant: the finished event is left to the stream's last read.
FinishedIn_Streams(out) == {o.rid : o \in {o \in out : o.finished}} \cap StreamRequest

FinishedIn(out) == {o.rid : o \in {o \in out : o.finished}}

\* step returned: its outputs go to the collectors that still exist.
LoopDeliver ==
  /\ loop = "deliver" /\ ~output.raised
  /\ LET out == {o \in output.outputs : o.rid \in collectors}
     IN  /\ Put({o \in out : ShouldSend(o)})
         /\ event' = event \cup FinishedIn(out)
         /\ sent'  = [r \in Request |-> IF \E o \in out : o.rid = r /\ ShouldSend(o)
                                        THEN (CHOOSE o \in out : o.rid = r).total ELSE sent[r]]
  /\ loop' = "idle"
  /\ UNCHANGED <<schedVars, client, result, received, collectors, tasks, failed, histVars>>

\* step raised: fail_all_requests goes to the executor.
LoopCatch ==
  /\ loop = "deliver" /\ output.raised
  /\ loop'  = "failing"
  /\ tasks' = Append(tasks, FailTask)
  /\ UNCHANGED <<schedVars, clientVars, failed, histVars>>

LoopNotify ==
  /\ loop = "notify"
  /\ Put({AbortOutput(r) : r \in failed})
  /\ event'  = event \cup (failed \cap collectors)
  /\ loop'   = "idle"
  /\ failed' = {}
  /\ UNCHANGED <<schedVars, client, result, received, collectors, sent, tasks, histVars>>

-----------------------------------------------------------------------------
(* The MLX executor.                                                       *)

Runs(kind) == tasks # <<>> /\ Head(tasks).kind = kind

ExecAdd ==
  /\ Runs("add")
  /\ \E lookup \in Lookup : AddRequest(Head(tasks).rid, lookup)
  /\ tasks' = Tail(tasks)
  /\ UNCHANGED <<clientVars, loop, failed, histVars>>

StepPart ==
  \/ BeginStep
  \/ \E r \in Request : ProcessPendingAbort(r)
  \/ ScheduleWaiting
  \/ \E n \in 0 .. Len(waiting) : ScheduleRaises(n)
  \/ NothingToRun
  \/ \E stopped \in SUBSET UID, unstored \in SUBSET Request : GenerateTokens(stopped, unstored)
  \/ PrefillAborted
  \/ CacheCorrupted
  \/ StepRaises

ExecStep ==
  /\ Runs("step")
  /\ StepPart
  /\ IF phase' = "idle" THEN tasks' = Tail(tasks) /\ loop' = "deliver"
                        ELSE UNCHANGED <<tasks, loop>>
  /\ restarted' = restarted \cup {r \in Running : output_len[r] > 0 /\ r \in ToSet(waiting')}
  /\ UNCHANGED <<clientVars, failed, told, abortAlls>>

ExecFail ==
  /\ Runs("fail")
  /\ FailAllRequests
  /\ failed' = FailedIds
  /\ tasks'  = Tail(tasks)
  /\ loop'   = "notify"
  /\ UNCHANGED <<clientVars, histVars>>

Executor   == ExecAdd \/ ExecStep \/ ExecFail
EngineLoop == LoopSubmit \/ LoopDeliver \/ LoopCatch \/ LoopNotify
Client(r)  == ClientAttach(r) \/ StreamRead(r) \/ GenerateReturn(r)
Disconnect(r) == CancelAttached(r) \/ CancelAdding(r)

Next ==
  \/ Executor
  \/ EngineLoop
  \/ AbortAllRequests
  \/ \E r \in Request : ClientAdd(r) \/ Client(r) \/ Disconnect(r)

Spec == EngineInit /\ [][Next]_vars

\* The executor thread and the event loop run what is ready to run; clients
\* are free not to come, to disconnect and to keep their requests alive.
Fairness ==
  /\ WF_vars(Executor) /\ WF_vars(EngineLoop)
  /\ \A r \in Request : WF_vars(Client(r))

FairSpec == Spec /\ Fairness

-----------------------------------------------------------------------------
EngineTypeOK ==
  /\ SchedTypeOK
  /\ client \in [Request -> {"none", "done"} \cup Active]
  /\ result \in [Request -> {"none", "ok", "cut", "error", "cancelled", "dropped"}]
  /\ received \in [Request -> Nat] /\ sent \in [Request -> 0 .. MaxTokens]
  /\ collectors \subseteq Request /\ event \subseteq collectors
  /\ \A r \in Request : buffer[r] # None => buffer[r].rid = r /\ r \in collectors
  /\ ToSet(tasks) \subseteq {StepTask, FailTask} \cup {AddTask(r) : r \in Request}
  /\ loop \in {"idle", "stepping", "deliver", "failing", "notify"}
  /\ failed \cup told \cup restarted \subseteq Request
  /\ abortAlls \in 0 .. MaxAbortAlls

\* However the loop, the executor and the clients interleave, a client that is
\* told its request finished has been given each of its tokens once.  Outputs
\* are merged while the client is not reading.
EveryTokenOnce ==
  \A r \in Request \ restarted :
    /\ result[r] = "ok" => received[r] = output_len[r]
    /\ result[r] # "cut"

\* What clients wait for is there, and what they get is each token once.
OutputsExact == EngineTypeOK /\ EveryTokenOnce

\* A client that was waiting when all requests were aborted gets the error,
\* even when its request finishes in the step under way.
AbortAllIsReported == \A r \in told : result[r] # "ok"

\* A request computes for a client that still wants it, or its abort is noted.
Wanted(r) == client[r] \in Active \/ r \in pending

\* The only orphans are requests whose client left while add_request was
\* awaited, requests whose abort_all_requests a step processed before their
\* add_request ran, and requests whose abort found another's uid and raised.
OrphansExplained ==
  \A r \in requests :
    Wanted(r) \/ result[r] = "dropped" \/ r \in told \/ "uid" \in faults.strayed

\* Every client that stays gets its answer or an error, unless its request was
\* lost by an error while it was scheduled.
Answered == \A r \in Request : client[r] \in Active ~> client[r] = "done" \/ r \in faults.lost

\* Every request leaves the scheduler, also when nobody waits for it, unless it
\* was lost by an error while it was scheduled.
Finishes == \A r \in Request : r \in requests ~> r \notin requests \/ r \in faults.lost
=============================================================================
