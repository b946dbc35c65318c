------------------------------ MODULE Scheduler ------------------------------
(***************************************************************************)
(* The request lifecycle of Scheduler in omlx/scheduler.py: the waiting    *)
(* queue, the running batch, the two maps between request ids and the      *)
(* uids of mlx-lm's BatchGenerator, deferred aborts and the recovery from  *)
(* an interrupted prefill, a corrupted cache and an unexpected error.      *)
(*                                                                         *)
(* Everything but abort_request runs on the single thread of the MLX       *)
(* executor; abort_request runs on the event loop and may fall between any *)
(* two phases of a step.  The KV cache appears only as what a request owes *)
(* the block pool (PagedCache models the pool).  Text, sampling, harmony   *)
(* parsing and boundary snapshots are left out.                            *)
(***************************************************************************)
EXTENDS Integers, Sequences, FiniteSets, SequencesExt

CONSTANTS
  Request,              \* request ids; uuid4 ids, so each is added once
  VisionRequest,        \* those that carry vlm_inputs_embeds
  None,
  MaxNumSeqs,           \* config.max_num_seqs
  CompletionBatchSize,  \* config.completion_batch_size
  MaxTokens,            \* sampling_params.max_tokens, the same for all
  MaxRetries,           \* max_corruption_retries (3 in the code)
  MaxCorruptions,       \* bound: cache corruption errors in a behaviour
  MaxErrors             \* bound: other errors in a behaviour

ASSUME SchedulerAssumption ==
  /\ IsFiniteSet(Request) /\ VisionRequest \subseteq Request
  /\ MaxNumSeqs \in Nat \ {0} /\ CompletionBatchSize \in Nat \ {0}
  /\ MaxTokens \in Nat \ {0}  /\ MaxRetries \in Nat
  /\ MaxCorruptions \in Nat   /\ MaxErrors \in Nat
  /\ None \notin Request \cup Nat
  /\ None \notin [count: Nat, unprocessed: Seq(Nat), active: SUBSET Nat]

\* A BatchGenerator numbers its sequences from 0, and a request is inserted at
\* most once into the same generator.
UID == 0 .. Cardinality(Request) - 1

VARIABLES
  arrived,       \* history: the requests that add_request has been called for
  waiting,       \* the deque of waiting requests
  running,       \* the dict of running requests, in insertion order
  requests,      \* keys of the dict of all requests
  pending,       \* _pending_abort_ids
  uid_of,        \* request_id_to_uid
  rid_of,        \* uid_to_request_id
  generator,     \* batch_generator: None, or its next uid, its unprocessed
                 \* prompts and its active batch
  output_len,    \* len(output_token_ids)
  prompt_cache,  \* requests that hold KV reconstructed from the prefix cache
  embeds,        \* requests whose vlm_inputs_embeds is set
  table,         \* what a request's block table refers to, see Table
  retries,       \* cache_corruption_retries
  phase,         \* how far the executor is in step()
  output,        \* what the last step returned or raised
  faults         \* errors that happened so far, and what went astray: "uid" if a request
                 \* waits with the uid it had in an earlier generator, "prompt" if one
                 \* was aborted whose prompt the generator has not processed; the
                 \* requests lost by an error that came while they were scheduled

batchVars == <<generator, uid_of, rid_of>>
reqVars   == <<output_len, prompt_cache, embeds, table, retries>>
schedVars == <<arrived, waiting, running, requests, pending, batchVars, reqVars,
               phase, output, faults>>

Running == ToSet(running)
Waiting == ToSet(waiting)
Lost    == faults.lost \cap requests

NewGenerator == [count |-> 0, unprocessed |-> <<>>, active |-> {}]
Sequences(g) == IF g = None THEN {} ELSE ToSet(g.unprocessed) \cup g.active

\* none: no block.  live: the request and the block pool agree on the table.
\* kept: only the pool still has it.  stale: only the request still has it, the
\* pool was cleared.  misreleased: a stale table was given back to the pool.
Table == {"none", "live", "kept", "stale", "misreleased"}

Output(r, new, total, finished, error) ==
  [rid |-> r, new |-> new, total |-> total, finished |-> finished, error |-> error]

NoOutput == [outputs |-> {}, raised |-> FALSE]
Raised   == [outputs |-> {}, raised |-> TRUE]

\* The positions of s that stay when S goes, and what stays, in order.
Staying(s, S) == {i \in 1 .. Len(s) : s[i] \notin S}
Rank(P, i) == Cardinality({j \in P : j <= i})
Without(s, S) ==
  LET P == Staying(s, S)
  IN  [n \in 1 .. Cardinality(P) |-> s[CHOOSE i \in P : Rank(P, i) = n]]

\* Mutant: a queue with nothing running does not count as work.
HasRequests_Running == running # <<>>

HasRequests == waiting # <<>> \/ running # <<>>

SchedInit ==
  /\ arrived      = {}
  /\ waiting      = <<>>
  /\ running      = <<>>
  /\ requests     = {}
  /\ pending      = {}
  /\ uid_of       = [r \in Request |-> None]
  /\ rid_of       = [u \in UID |-> None]
  /\ generator    = None
  /\ output_len   = [r \in Request |-> 0]
  /\ prompt_cache = {}
  /\ embeds       = VisionRequest
  /\ table        = [r \in Request |-> "none"]
  /\ retries      = [r \in Request |-> 0]
  /\ phase        = "idle"
  /\ output       = NoOutput
  /\ faults       = [corruption |-> 0, error |-> 0, strayed |-> {}, lost |-> {}]

-----------------------------------------------------------------------------
(* add_request and abort_request.                                          *)

\* hit: the prefix cache had blocks for the prompt and rebuilt their KV; the
\* request then holds a reference to each.  rejected: the same, but
\* _validate_cache will not accept the KV when the request is scheduled, so
\* only the references remain.  miss: the table is deleted again.
Lookup == {"hit", "rejected", "miss"}

AddRequest(r, lookup) ==
  /\ phase = "idle"
  /\ r \notin arrived
  /\ arrived'      = arrived \cup {r}
  /\ requests'     = requests \cup {r}
  /\ waiting'      = Append(waiting, r)
  /\ prompt_cache' = IF lookup = "hit" THEN prompt_cache \cup {r} ELSE prompt_cache
  /\ table'        = IF lookup = "miss" THEN table ELSE [table EXCEPT ![r] = "live"]
  /\ UNCHANGED <<running, pending, batchVars, output_len, embeds, retries,
                 phase, output, faults>>

\* The event loop only notes the id; a step processes it.
AbortRequest(r) ==
  /\ pending' = pending \cup {r}
  /\ UNCHANGED <<arrived, waiting, running, requests, batchVars, reqVars, phase, output, faults>>

-----------------------------------------------------------------------------
(* step(), first part: _process_pending_aborts.                            *)

BeginStep ==
  /\ phase = "idle" /\ ~output.raised
  /\ phase'  = "aborting"
  /\ output' = NoOutput
  /\ UNCHANGED <<arrived, waiting, running, requests, pending, batchVars, reqVars, faults>>

\* Mutant: an abort leaves the request's references in the pool.
ReleasedTable_Kept(r) == table[r]

\* release_for_eviction of the request's blocks.  A table that outlived
\* clear() names blocks of the new pool, which are not the request's.
ReleasedTable(r) == IF table[r] = "stale" THEN "misreleased" ELSE "none"

\* _remove_uid_from_active_batch: only a sequence of the active batch can be
\* taken out of the generator.
WithoutSequence(r) ==
  IF generator = None THEN None ELSE [generator EXCEPT !.active = @ \ {uid_of[r]}]

Astray(what) == [faults EXCEPT !.strayed = @ \cup {what}]

\* _do_abort_request.
Abort(r) ==
  /\ r \in requests
  /\ uid_of[r] # None => rid_of[uid_of[r]] # None
  /\ waiting'   = Without(waiting, {r})
  /\ running'   = Without(running, {r})
  /\ requests'  = requests \ {r}
  /\ generator' = WithoutSequence(r)
  /\ uid_of'    = [uid_of EXCEPT ![r] = None]
  /\ rid_of'    = [u \in UID |-> IF u = uid_of[r] THEN None ELSE rid_of[u]]
  /\ table'     = [table EXCEPT ![r] = ReleasedTable(r)]
  /\ prompt_cache' = prompt_cache \ {r}
  /\ faults' = IF generator # None /\ uid_of[r] \in ToSet(generator.unprocessed)
               THEN Astray("prompt") ELSE faults
  /\ UNCHANGED <<output_len, embeds, retries, phase, output>>

\* The uid of a request put back in the queue may have lost its entry in
\* uid_to_request_id: del raises KeyError, outside the try block of step.
AbortRaises(r) ==
  /\ r \in requests
  /\ uid_of[r] # None /\ rid_of[uid_of[r]] = None
  /\ waiting'   = Without(waiting, {r})
  /\ generator' = WithoutSequence(r)
  /\ phase'     = "idle"
  /\ output'    = Raised
  /\ UNCHANGED <<running, requests, uid_of, rid_of, reqVars, faults>>

\* Not known, or finished meanwhile: nothing to abort.
AbortUnknown(r) ==
  /\ r \notin requests
  /\ UNCHANGED <<waiting, running, requests, batchVars, reqVars, phase, output, faults>>

ProcessPendingAbort(r) ==
  /\ phase = "aborting"
  /\ r \in pending
  /\ pending' = pending \ {r}
  /\ Abort(r) \/ AbortRaises(r) \/ AbortUnknown(r)
  /\ UNCHANGED arrived

-----------------------------------------------------------------------------
(* step(), second part: _schedule_waiting.                                 *)

\* Requests of one prefill batch agree on having a cache and on being vision
\* requests: mlx-lm cannot merge the caches of both kinds.
SameBatch(r, s) ==
  /\ r \in embeds <=> s \in embeds
  /\ r \in prompt_cache <=> s \in prompt_cache

Room == IF Len(waiting) < MaxNumSeqs - Len(running) THEN Len(waiting)
                                                    ELSE MaxNumSeqs - Len(running)

\* How many requests leave the queue: up to the first that does not fit.
NumScheduled ==
  CHOOSE n \in 0 .. Room :
    /\ \A i \in 1 .. n : SameBatch(waiting[1], waiting[i])
    /\ n < Room => ~SameBatch(waiting[1], waiting[n + 1])

\* The first n waiting requests get their uids, in the order of the queue.
Schedule(n) ==
  /\ phase = "aborting" /\ pending = {}
  /\ LET g == IF generator = None /\ Room > 0 THEN NewGenerator ELSE generator
     IN /\ running' = running \o SubSeq(waiting, 1, n)
        /\ IF n = 0 THEN generator' = g /\ UNCHANGED <<uid_of, rid_of>>
           ELSE /\ generator' = [g EXCEPT !.count = @ + n,
                                          !.unprocessed = @ \o [i \in 1 .. n |-> g.count + i - 1]]
                /\ uid_of' = [r \in Request |->
                     IF r \in ToSet(SubSeq(waiting, 1, n))
                     THEN g.count + (CHOOSE i \in 1 .. n : waiting[i] = r) - 1
                     ELSE uid_of[r]]
                /\ rid_of' = [u \in UID |->
                     IF u - g.count + 1 \in 1 .. n THEN waiting[u - g.count + 1] ELSE rid_of[u]]
  /\ UNCHANGED <<arrived, requests, pending, reqVars, output>>

StrayedAfter(n) ==
  IF \E i \in n + 1 .. Len(waiting) : uid_of[waiting[i]] # None
  THEN faults.strayed \cup {"uid"} ELSE faults.strayed

ScheduleWaiting ==
  LET n == NumScheduled IN
  /\ Schedule(n)
  /\ waiting' = SubSeq(waiting, n + 1, Len(waiting))
  /\ faults' = [faults EXCEPT !.strayed = StrayedAfter(n)]
  /\ phase' = "generating"

\* The next one has left the queue when its cache is validated, its sampler built
\* and its prompt inserted; an error of these finds it neither waiting nor running.
ScheduleRaises(n) ==
  /\ n <= NumScheduled /\ n < Room
  /\ faults.corruption < MaxCorruptions \/ faults.error < MaxErrors
  /\ Schedule(n)
  /\ waiting' = SubSeq(waiting, n + 2, Len(waiting))
  /\ faults' = [faults EXCEPT !.strayed = StrayedAfter(n), !.lost = @ \cup {waiting[n + 1]}]
  /\ phase' = "raising"

-----------------------------------------------------------------------------
(* step(), third part: BatchGenerator.next, _process_batch_responses and   *)
(* _cleanup_finished, or one of the ways it fails.                         *)

Generating == phase = "generating" /\ generator # None /\ running # <<>>

NothingToRun ==
  /\ phase = "generating"
  /\ generator = None \/ running = <<>>
  /\ phase' = "idle"
  /\ UNCHANGED <<arrived, waiting, running, requests, pending, batchVars, reqVars, output, faults>>

\* The prompts this call of next prefills, one at a time.
Prefilled ==
  LET room == CompletionBatchSize - Cardinality(generator.active)
  IN  SubSeq(generator.unprocessed, 1, IF room < Len(generator.unprocessed)
                                       THEN room ELSE Len(generator.unprocessed))

\* _process_batch_responses skips the sequences of requests that are gone.
Responded(batch) == {u \in batch : rid_of[u] \in Running}

\* _cleanup_finished.  unstored: store_cache gave no table for a finished
\* request, so the table the request came with is released.
CleanupFinished(finished, unstored) ==
  /\ unstored \subseteq {r \in finished : table[r] = "stale"}
  /\ running'      = Without(running, finished)
  /\ requests'     = requests \ finished
  /\ prompt_cache' = prompt_cache \ finished
  /\ table'        = [r \in Request |-> IF r \in unstored THEN "misreleased"
                                        ELSE IF r \in finished THEN "none" ELSE table[r]]
  /\ uid_of'       = [r \in Request |-> IF r \in finished THEN None ELSE uid_of[r]]
  /\ rid_of'       = [u \in UID |-> IF \E r \in finished : uid_of[r] = u THEN None ELSE rid_of[u]]

\* next() returns one token for each sequence; stopped are those whose token
\* ends them, the others end at max_tokens.
GenerateTokens(stopped, unstored) ==
  /\ Generating
  /\ LET batch    == generator.active \cup ToSet(Prefilled)
         answered == Responded(batch)
         len(u)   == output_len[rid_of[u]] + (IF u \in stopped THEN 0 ELSE 1)
         ended    == {u \in answered : u \in stopped \/ len(u) >= MaxTokens}
         finished == {rid_of[u] : u \in ended}
     IN /\ stopped \subseteq batch
        /\ CleanupFinished(finished, unstored)
        /\ output' = [outputs |-> {Output(rid_of[u], IF u \in stopped THEN 0 ELSE 1,
                                          len(u), u \in ended, FALSE) : u \in answered},
                      raised  |-> FALSE]
        /\ output_len' = [r \in Request |-> IF \E u \in answered : rid_of[u] = r
                                            THEN len(CHOOSE u \in answered : rid_of[u] = r)
                                            ELSE output_len[r]]
        /\ embeds'     = embeds \ {rid_of[u] : u \in answered}
        /\ generator'  = [generator EXCEPT
             !.active      = batch \ (ended \cup stopped \cup {uid_of[r] : r \in finished}),
             !.unprocessed = SubSeq(@, Len(Prefilled) + 1, Len(@))]
  /\ phase' = "idle"
  /\ UNCHANGED <<arrived, waiting, pending, retries, faults>>

(***************************************************************************)
(* _reschedule_running_requests: the running requests go back to the front *)
(* of the queue, the last one first, and start from scratch.               *)
(***************************************************************************)
Rescheduled(lost) ==
  /\ waiting'      = Reverse(Without(running, lost)) \o waiting
  /\ running'      = <<>>
  /\ requests'     = requests \ lost
  /\ output_len'   = [r \in Request |-> IF r \in Running \ lost THEN 0 ELSE output_len[r]]
  /\ prompt_cache' = prompt_cache \ Running

\* A prefill of this step found one of its uids among the pending aborts.
PrefillAborted ==
  /\ Generating
  /\ \E u \in ToSet(Prefilled) : rid_of[u] \in pending
  /\ generator' = None
  /\ Rescheduled({})
  /\ table' = [r \in Request |-> IF r \in Running /\ table[r] = "live"  THEN "kept"
                                 ELSE IF r \in Running /\ table[r] = "stale" THEN "none"
                                 ELSE table[r]]
  /\ phase' = "idle"
  /\ UNCHANGED <<arrived, pending, uid_of, rid_of, embeds, retries, output, faults>>

ClearedMaps == uid_of' = [r \in Request |-> None] /\ rid_of' = [u \in UID |-> None]

\* Where an error has come up that step() handles: out of _schedule_waiting, or
\* out of what follows it.
Failing == Generating \/ phase = "raising"

Exhausted == {r \in Running : retries[r] >= MaxRetries}

\* The error text says the cache is corrupted: the block pool is cleared with
\* everyone's tables, and requests out of retries are failed.
CacheCorrupted ==
  /\ Failing
  /\ faults.corruption < MaxCorruptions
  /\ faults'    = [faults EXCEPT !.corruption = @ + 1]
  /\ generator' = None
  /\ ClearedMaps
  /\ Rescheduled(Exhausted)
  /\ output'  = [outputs |-> {Output(r, 0, 0, TRUE, TRUE) : r \in Exhausted}, raised |-> FALSE]
  /\ retries' = [r \in Request |-> retries[r] + (IF r \in Running THEN 1 ELSE 0)]
  /\ table'   = [r \in Request |->
       IF table[r] = "misreleased" \/ (r \in Waiting \cup Lost /\ table[r] = "stale") THEN table[r]
       ELSE IF r \in Waiting \cup Lost /\ table[r] = "live" THEN "stale" ELSE "none"]
  /\ phase' = "idle"
  /\ UNCHANGED <<arrived, pending, embeds>>

\* Any other error leaves step().
StepRaises ==
  /\ Failing
  /\ faults.error < MaxErrors
  /\ faults' = [faults EXCEPT !.error = @ + 1]
  /\ output' = Raised
  /\ phase'  = "idle"
  /\ UNCHANGED <<arrived, waiting, running, requests, pending, batchVars, reqVars>>

\* Mutant: the waiting requests are dropped from the queue but not failed.
FailedIds_RunningOnly == Running

\* What fail_all_requests returns.
FailedIds == Running \cup Waiting

\* fail_all_requests, which the engine loop calls when step() raised.
FailAllRequests ==
  /\ phase = "idle" /\ output.raised
  /\ running'   = <<>>
  /\ waiting'   = <<>>
  /\ requests'  = requests \ FailedIds
  /\ generator' = None
  /\ prompt_cache' = prompt_cache \ FailedIds
  /\ output'    = NoOutput
  /\ UNCHANGED <<arrived, pending, uid_of, rid_of, output_len, embeds, table, retries, phase, faults>>

-----------------------------------------------------------------------------
Step ==
  \/ HasRequests /\ BeginStep
  \/ \E r \in Request : ProcessPendingAbort(r)
  \/ ScheduleWaiting
  \/ \E n \in 0 .. Len(waiting) : ScheduleRaises(n)
  \/ NothingToRun
  \/ \E stopped \in SUBSET UID, unstored \in SUBSET Request : GenerateTokens(stopped, unstored)
  \/ PrefillAborted
  \/ CacheCorrupted
  \/ StepRaises
  \/ FailAllRequests

SchedNext ==
  \/ \E r \in Request, lookup \in Lookup : AddRequest(r, lookup)
  \/ \E r \in Request : AbortRequest(r)
  \/ Step

SchedSpec == SchedInit /\ [][SchedNext]_schedVars

-----------------------------------------------------------------------------
Outputs == [rid: Request, new: {0, 1}, total: 0 .. MaxTokens, finished: BOOLEAN, error: BOOLEAN]

Generators == [count: 0 .. Cardinality(Request), unprocessed: Seq(UID), active: SUBSET UID]

SchedTypeOK ==
  /\ arrived \subseteq Request /\ pending \subseteq Request
  /\ waiting \in Seq(Request) /\ running \in Seq(Request)
  /\ requests \subseteq arrived
  /\ uid_of \in [Request -> UID \cup {None}]
  /\ rid_of \in [UID -> Request \cup {None}]
  /\ generator \in Generators \cup {None}
  /\ output_len \in [Request -> 0 .. MaxTokens]
  /\ prompt_cache \subseteq requests /\ embeds \subseteq VisionRequest
  /\ table \in [Request -> Table]
  /\ retries \in [Request -> 0 .. MaxRetries + 1]
  /\ \A r \in requests : retries[r] <= MaxRetries
  /\ phase \in {"idle", "aborting", "generating", "raising"}
  /\ output.outputs \subseteq Outputs /\ output.raised \in BOOLEAN
  /\ faults \in [corruption: 0 .. MaxCorruptions, error: 0 .. MaxErrors,
                 strayed: SUBSET {"uid", "prompt"}, lost: SUBSET arrived]

\* Every request the scheduler knows is queued, in the batch, or was lost by an
\* error while it was scheduled, in one of these ways and once, and the batch
\* respects max_num_seqs, whatever aborts, interrupted prefills and errors did.
TrackedOnce ==
  /\ requests \ faults.lost = Waiting \cup Running
  /\ Cardinality(requests \ faults.lost) = Len(waiting) + Len(running)
  /\ Len(running) <= MaxNumSeqs

\* Scheduler: "BatchGenerator processes all running requests together".  A
\* running request is reachable from its uid and its uid is in the generator;
\* otherwise no token ever arrives for it.
RunningInBatch ==
  phase = "idle" /\ ~output.raised =>
    \A r \in Running :
      /\ uid_of[r] \in Sequences(generator)
      /\ rid_of[uid_of[r]] = r

\* _do_abort_request: "Remove from running (BatchGenerator)".  No sequence is
\* computed for a request that is gone.
BatchServesRunning ==
  phase = "idle" /\ ~output.raised =>
    \A u \in Sequences(generator) : rid_of[u] \in Running

\* The queues, the uid maps and the batch tell of the same requests, except those
\* that an error lost on their way between the queues, and up to two things: after
\* an interrupted prefill a request may wait with the uid of an earlier generator
\* when the next one starts, and an abort takes no prompt out of the generator
\* that it has not processed yet.
RequestsTracked ==
  /\ SchedTypeOK
  /\ "uid" \notin faults.strayed => TrackedOnce /\ RunningInBatch
  /\ faults.strayed = {} => BatchServesRunning

\* The block tables disagree with the pool in two ways only: a table outlives
\* the pool it belongs to, or is released into another one, after a corruption;
\* blocks stay referenced by a request that is gone after an error of step(), or
\* of an abort that found another's uid, failed it.  KV rebuilt from blocks is
\* held together with references to them.
TablesExplained ==
  \A r \in Request :
    /\ table[r] \in {"stale", "misreleased"} => faults.corruption > 0
    /\ table[r] \in {"live", "kept"} /\ r \notin requests =>
         faults.error > 0 \/ "uid" \in faults.strayed
    /\ r \in prompt_cache => table[r] \in {"live", "stale"}

\* The comment "Fail all requests and remove from scheduler" (engine_core.py:225).
\* TLC refutes it: see "Other disagreements" in the README.
AllAreFailed == [][output.raised /\ ~output'.raised => requests' = {}]_schedVars
=============================================================================
