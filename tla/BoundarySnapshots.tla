------------------------- MODULE BoundarySnapshots -------------------------
(***************************************************************************)
(* Snapshots of the recurrent cache layers at block boundaries             *)
(* (src/omlx/cache/boundary_snapshot_store.py and the parts of             *)
(* src/omlx/scheduler.py that capture, use and drop them).                 *)
(*                                                                         *)
(* A hybrid model has layers whose state cannot be sliced after the fact.  *)
(* Prefill therefore stops at every block boundary, copies the state and   *)
(* gives it to a store, which buffers it and has a writer thread put it on *)
(* disk.  When the request ends the snapshots are read back and stored     *)
(* with the blocks.  Inference runs on one executor thread shared by all   *)
(* engines; every engine has a store and a writer thread of its own, but   *)
(* all stores use one directory, because every engine is configured with   *)
(* the same SSD cache directory.                                           *)
(***************************************************************************)
EXTENDS Integers, Sequences, FiniteSets

CONSTANTS
    Requests,    \* request ids
    Engines,     \* engines (models) of the pool
    EngineOf,    \* the engine a request is for
    BlockSize,   \* paged_cache_block_size
    StepSize,    \* prefill_step_size
    QueueLimit,  \* _MAX_PENDING_WRITES
    LengthOf,    \* prompt tokens a request has to prefill
    BaseOf,      \* prompt tokens the prefix cache has for it, whole blocks
    MaxOutput,   \* bound: tokens generated by a request
    MaxAttempts, \* 1 + the retries of a request
    MaxFaults,   \* bound: disk errors, memory limit hits and corruptions
    None

\* What a snapshot holds: the state of one attempt of a request after `tokens` tokens.
Snapshot == [req : Requests, attempt : Nat, tokens : Nat]

ASSUME SnapshotAssumption ==
    /\ BlockSize \in Nat \ {0}
    /\ StepSize \in Nat \ {0}
    /\ QueueLimit \in Nat \ {0}
    /\ MaxAttempts \in Nat \ {0}
    /\ LengthOf \in [Requests -> Nat \ {0}]
    /\ BaseOf \in [Requests -> Nat]
    /\ \A r \in Requests : BaseOf[r] % BlockSize = 0
    /\ EngineOf \in [Requests -> Engines]
    /\ None \notin Snapshot \cup [req : Requests, at : {"chunk", "check"}]

VARIABLES
    \* inference (scheduler, executor thread)
    up,        \* up[e]: the engine's scheduler and store exist
    phase,     \* phase[r]: new, waiting, prefill, decode or gone
    base,      \* base[r]: tokens the request's cache starts with
    length,    \* length[r]: prompt tokens to prefill
    done,      \* done[r]: processed_tokens of the current prefill
    made,      \* made[r]: output tokens
    attempt,   \* attempt[r]: how often the request was (re)scheduled
    executor,  \* the prefill under way: [req, at], or None
    aborting,  \* _pending_abort_ids
    marks,     \* _boundary_cache_snapshots: marks[r][tc] is None when on SSD
    \* stores
    pending,   \* pending[e]: _pending_writes, key -> snapshot
    registry,  \* registry[e]: keys of _file_registry
    queue,     \* queue[e]: _write_queue
    writer,    \* writer[e]: where the writer thread is, and its item
    named,     \* named[e]: the writer's local temp_path is bound
    files,     \* the shared directory: key -> snapshot
    temps,     \* keys with a temporary file in the directory
    \* history
    swept,     \* keys whose file another engine removed
    faults     \* faults that happened

reqVars == <<up, phase, base, length, done, made, attempt, executor, aborting, marks>>
storeVars == <<pending, registry, queue, writer, named, files, temps>>
snapVars == <<reqVars, storeVars, swept, faults>>

Keys == Requests \X Nat

Put(f, k, v) == [x \in DOMAIN f \cup {k} |-> IF x = k THEN v ELSE f[x]]
Drop(f, ks) == [x \in DOMAIN f \ ks |-> f[x]]
Empty == [x \in {} |-> 0]
KeysOf(r) == {k \in Keys : k[1] = r}
Idle == [at |-> "idle"]

Live(r) == phase[r] \in {"waiting", "prefill", "decode"}
Prompt(r) == base[r] + length[r]

SnapInit ==
    /\ up = [e \in Engines |-> FALSE]
    /\ phase = [r \in Requests |-> "new"]
    /\ base = [r \in Requests |-> 0]
    /\ length = [r \in Requests |-> 0]
    /\ done = [r \in Requests |-> 0]
    /\ made = [r \in Requests |-> 0]
    /\ attempt = [r \in Requests |-> 0]
    /\ executor = None
    /\ aborting = {}
    /\ marks = [r \in Requests |-> Empty]
    /\ pending = [e \in Engines |-> Empty]
    /\ registry = [e \in Engines |-> {}]
    /\ queue = [e \in Engines |-> << >>]
    /\ writer = [e \in Engines |-> Idle]
    /\ named = [e \in Engines |-> FALSE]
    /\ files = Empty
    /\ temps = {}
    /\ swept = {}
    /\ faults = 0

-----------------------------------------------------------------------------
(* The store                                                               *)

\* save(): buffer, register, enqueue.  A full queue leaves the snapshot in
\* the buffer.  The serialisation may fail, and then the scheduler keeps the
\* snapshot itself.  The three parts are one action: what a writer step
\* between them could do, it can also do after them.
Save(r, tc, snapshot) ==
    LET e == EngineOf[r] IN
    /\ pending' = [pending EXCEPT ![e] = Put(@, <<r, tc>>, snapshot)]
    /\ registry' = [registry EXCEPT ![e] = @ \cup {<<r, tc>>}]
    /\ queue' = IF Len(queue[e]) < QueueLimit
                THEN [queue EXCEPT ![e] = Append(@, [key |-> <<r, tc>>, val |-> snapshot])]
                ELSE queue
    /\ UNCHANGED <<writer, named, files, temps>>

\* load(): the buffer first, then the file, without asking the registry.
Load(r, tc) ==
    LET k == <<r, tc>>  e == EngineOf[r] IN
    IF k \in DOMAIN pending[e] THEN pending[e][k]
    ELSE IF k \in DOMAIN files THEN files[k] ELSE None

\* cleanup_request(): buffer, registry, then the request's directory.
CleanupRequest(r) ==
    LET e == EngineOf[r] IN
    /\ pending' = [pending EXCEPT ![e] = Drop(@, KeysOf(r))]
    /\ registry' = [registry EXCEPT ![e] = @ \ KeysOf(r)]
    /\ files' = Drop(files, KeysOf(r))
    /\ temps' = temps \ KeysOf(r)
    /\ UNCHANGED <<queue, writer, named, swept>>

\* The whole directory is removed and made again: every engine's files.
RemoveDirectory(e) ==
    /\ files' = Empty
    /\ temps' = {}
    /\ swept' = swept \cup {k \in DOMAIN files : EngineOf[k[1]] # e}

\* cleanup_all(): buffer and registry of this store, then the directory.
CleanupAll(e) ==
    /\ pending' = [pending EXCEPT ![e] = Empty]
    /\ registry' = [registry EXCEPT ![e] = {}]
    /\ RemoveDirectory(e)
    /\ UNCHANGED <<queue, writer, named>>

-----------------------------------------------------------------------------
(* The writer thread: take an item, make the directory and write a         *)
(* temporary file, rename it, update the buffer.                           *)

TakeItem(e) ==
    /\ writer[e] = Idle
    /\ queue[e] # << >>
    /\ writer' = [writer EXCEPT ![e] = [at |-> "write", item |-> Head(queue[e])]]
    /\ queue' = [queue EXCEPT ![e] = Tail(@)]
    /\ UNCHANGED <<reqVars, pending, registry, named, files, temps, swept, faults>>

WriteTemp(e) ==
    /\ writer[e].at = "write"
    /\ named' = [named EXCEPT ![e] = TRUE]
    /\ temps' = temps \cup {writer[e].item.key}
    /\ writer' = [writer EXCEPT ![e].at = "rename"]
    /\ UNCHANGED <<reqVars, pending, registry, queue, files, swept, faults>>

\* The except branch unlinks the temporary file and the file itself.
Unlink(k) ==
    /\ files' = Drop(files, {k})
    /\ temps' = temps \ {k}

\* A disk error.  When mkdir fails on the very first item temp_path is not
\* bound: the handler itself raises, finally runs, and the thread is dead.
WriteFails(e) ==
    /\ writer[e].at = "write"
    /\ faults < MaxFaults
    /\ faults' = faults + 1
    /\ \/ /\ named' = [named EXCEPT ![e] = TRUE]
          /\ Unlink(writer[e].item.key)
          /\ writer' = [writer EXCEPT ![e].at = "finish"]
       \/ /\ ~named[e]
          /\ writer' = [writer EXCEPT ![e].at = "dying"]
          /\ UNCHANGED <<named, files, temps>>
    /\ UNCHANGED <<reqVars, pending, registry, queue, swept>>

\* The temporary file may be gone: its directory was removed meanwhile.
RenameTemp(e) ==
    /\ writer[e].at = "rename"
    /\ LET k == writer[e].item.key IN
       IF k \in temps
       THEN /\ files' = Put(files, k, writer[e].item.val)
            /\ temps' = temps \ {k}
       ELSE Unlink(k)
    /\ writer' = [writer EXCEPT ![e].at = "finish"]
    /\ UNCHANGED <<reqVars, pending, registry, queue, named, swept, faults>>

\* Mutant: the buffered copy is dropped whether or not the file exists.
FinishWrite_Always(e) ==
    /\ writer[e].at \in {"finish", "dying"}
    /\ pending' = [pending EXCEPT ![e] = Drop(@, {writer[e].item.key})]
    /\ writer' = [writer EXCEPT ![e] = Idle]
    /\ UNCHANGED <<reqVars, registry, queue, named, files, temps, swept, faults>>

\* finally: once the file exists the buffer entry of its key is dropped.
FinishWrite(e) ==
    /\ writer[e].at \in {"finish", "dying"}
    /\ LET k == writer[e].item.key IN
       pending' = IF k \in DOMAIN files
                  THEN [pending EXCEPT ![e] = Drop(@, {k})] ELSE pending
    /\ writer' = [writer EXCEPT ![e] =
                    IF @.at = "dying" THEN [at |-> "dead"] ELSE Idle]
    /\ UNCHANGED <<reqVars, registry, queue, named, files, temps, swept, faults>>

WriterStep(e) ==
    TakeItem(e) \/ WriteTemp(e) \/ WriteFails(e) \/ RenameTemp(e) \/ FinishWrite(e)

-----------------------------------------------------------------------------
(* Capturing snapshots                                                     *)

Least(a, b) == IF a < b THEN a ELSE b
Most(a, b) == IF a > b THEN a ELSE b

\* _process_prompts: the last boundary at or below the end of the prompt, or
\* none if the prompt crosses no boundary.
TargetBoundary(r) == (Prompt(r) \div BlockSize) * BlockSize
HasTarget(r) == TargetBoundary(r) > base[r]

\* _next_boundary_limited_step in all_boundaries mode: no chunk goes past
\* the next boundary.  Prompts are prefilled one at a time
\* (prefill_batch_size = 1), so there is one row and no padding.
NextStep(r) ==
    LET allowed == Least(StepSize, length[r] - 1 - done[r])
        total == base[r] + Least(done[r], length[r] - 1)
        boundary == Least((total \div BlockSize + 1) * BlockSize, TargetBoundary(r))
        delta == boundary - base[r] - done[r] IN
    IF HasTarget(r) /\ total < TargetBoundary(r) /\ delta > 0
    THEN Most(1, Least(allowed, delta))
    ELSE Most(1, allowed)

\* The state the model's cache is in: tokens processed in this attempt.
StateAfter(r, tokens) == [req |-> r, attempt |-> attempt[r], tokens |-> tokens]

NoSnapshot == UNCHANGED <<marks, pending, registry, queue, writer, named, files, temps, faults>>

\* Offload to the store, or keep the snapshot in memory if that fails.
Capture(r, tc, snapshot) ==
    \/ /\ Save(r, tc, snapshot)
       /\ marks' = [marks EXCEPT ![r] = Put(@, tc, None)]
       /\ UNCHANGED faults
    \/ /\ faults < MaxFaults
       /\ faults' = faults + 1
       /\ marks' = [marks EXCEPT ![r] = Put(@, tc, snapshot)]
       /\ UNCHANGED storeVars

\* _emit_boundary_snapshots and _on_prefill_boundary_snapshot: only at a
\* boundary, only once per token count, and only if the request is still the
\* scheduler's (an engine closed under a prefill has forgotten it).
Emit(r, total, tokens) ==
    IF total > 0 /\ total % BlockSize = 0 /\ phase[r] = "prefill" /\ total \notin DOMAIN marks[r]
    THEN Capture(r, total, StateAfter(r, tokens))
    ELSE NoSnapshot

\* _maybe_capture_boundary_snapshot: after an output token, at a boundary.
CaptureOutput(r, total) ==
    IF total % BlockSize = 0 THEN Capture(r, total, StateAfter(r, total)) ELSE NoSnapshot

-----------------------------------------------------------------------------
(* Requests                                                                *)

Arrive(r) ==
    /\ up[EngineOf[r]]
    /\ phase[r] = "new"
    /\ phase' = [phase EXCEPT ![r] = "waiting"]
    /\ attempt' = [attempt EXCEPT ![r] = 1]
    /\ length' = [length EXCEPT ![r] = LengthOf[r]]
    /\ base' = [base EXCEPT ![r] = BaseOf[r]]
    /\ UNCHANGED <<up, done, made, executor, aborting, marks, storeVars, swept, faults>>

StartPrefill(r) ==
    /\ executor = None
    /\ phase[r] = "waiting"
    /\ phase' = [phase EXCEPT ![r] = "prefill"]
    /\ executor' = [req |-> r, at |-> "chunk"]
    /\ done' = [done EXCEPT ![r] = 0]
    /\ UNCHANGED <<up, base, length, made, attempt, aborting, marks, storeVars, swept, faults>>

At(r, where) == executor # None /\ executor = [req |-> r, at |-> where]

\* One turn of the prefill loop up to the emission; the last prompt token is
\* left for the end.
PrefillChunk(r) ==
    /\ At(r, "chunk")
    /\ length[r] - done[r] > 1
    /\ done' = [done EXCEPT ![r] = @ + NextStep(r)]
    /\ LET filled == base[r] + done'[r] IN
       Emit(r, base[r] + Least(done'[r], length[r] - 1), filled)
    /\ executor' = [executor EXCEPT !.at = "check"]
    /\ UNCHANGED <<up, phase, base, length, made, attempt, aborting, swept>>

\* The rest of the turn: memory limit, then the abort check.
ChunkGoesOn(r) ==
    /\ At(r, "check")
    /\ r \in aborting => ~Live(r)
    /\ executor' = [executor EXCEPT !.at = "chunk"]
    /\ UNCHANGED <<up, phase, base, length, done, made, attempt, aborting, marks, storeVars,
                   swept, faults>>

\* The last prompt token is sampled from, which completes the state.
EndPrefill(r) ==
    /\ At(r, "chunk")
    /\ length[r] - done[r] <= 1
    /\ Emit(r, Prompt(r), base[r] + done[r] + 1)
    /\ phase' = [phase EXCEPT ![r] = IF Live(r) THEN "decode" ELSE @]
    /\ executor' = None
    /\ UNCHANGED <<up, base, length, done, made, attempt, aborting, swept>>

Decode(r) ==
    /\ executor = None
    /\ phase[r] = "decode"
    /\ made[r] < MaxOutput
    /\ made' = [made EXCEPT ![r] = @ + 1]
    /\ CaptureOutput(r, Prompt(r) + made'[r])
    /\ UNCHANGED <<up, phase, base, length, done, attempt, executor, aborting, swept>>

\* _get_boundary_store_override: the snapshots at or below the tokens to be
\* stored are read back, the latest at once, the others block by block.
ReadBack(r, cacheable) ==
    LET valid == {tc \in DOMAIN marks[r] : 0 < tc /\ tc <= cacheable} IN
    [tc \in valid |-> IF marks[r][tc] = None THEN Load(r, tc) ELSE marks[r][tc]]

Finish(r) ==
    /\ executor = None
    /\ phase[r] = "decode"
    /\ phase' = [phase EXCEPT ![r] = "gone"]
    /\ marks' = [marks EXCEPT ![r] = Empty]
    /\ CleanupRequest(r)
    /\ UNCHANGED <<up, base, length, done, made, attempt, executor, aborting, faults>>

RequestAbort(r) ==
    /\ Live(r)
    /\ aborting' = aborting \cup {r}
    /\ UNCHANGED <<up, phase, base, length, done, made, attempt, executor, marks, storeVars,
                   swept, faults>>

\* _do_abort_request at the start of a step.
ProcessAbort(r) ==
    /\ executor = None
    /\ r \in aborting
    /\ aborting' = aborting \ {r}
    /\ IF Live(r)
       THEN /\ phase' = [phase EXCEPT ![r] = "gone"]
            /\ marks' = [marks EXCEPT ![r] = Empty]
            /\ CleanupRequest(r)
       ELSE UNCHANGED <<phase, marks, storeVars, swept>>
    /\ UNCHANGED <<up, base, length, done, made, attempt, executor, faults>>

-----------------------------------------------------------------------------
(* Failures of a step                                                      *)

Running(e) == {r \in Requests : EngineOf[r] = e /\ phase[r] \in {"prefill", "decode"}}
OfEngine(e) == {r \in Requests : EngineOf[r] = e}

ForgetSnapshots(e) ==
    /\ marks' = [r \in Requests |-> IF EngineOf[r] = e THEN Empty ELSE marks[r]]
    /\ CleanupAll(e)

\* _reschedule_running_requests: from scratch, with nothing cached, unless
\* the retries of a corruption have run out.
Reschedule(e, failed) ==
    LET again == Running(e) \ failed IN
    /\ phase' = [r \in Requests |-> IF r \in again THEN "waiting"
                                    ELSE IF r \in failed THEN "gone" ELSE phase[r]]
    /\ attempt' = [r \in Requests |-> IF r \in again THEN attempt[r] + 1 ELSE attempt[r]]
    /\ length' = [r \in Requests |-> IF r \in again THEN Prompt(r) ELSE length[r]]
    /\ base' = [r \in Requests |-> IF r \in again THEN 0 ELSE base[r]]
    /\ made' = [r \in Requests |-> IF r \in again THEN 0 ELSE made[r]]

\* _PrefillAbortedError between two chunks.
PrefillAborted(r) ==
    /\ At(r, "check")
    /\ r \in aborting
    /\ Live(r)
    /\ executor' = None
    /\ \A q \in Running(EngineOf[r]) : attempt[q] < MaxAttempts   \* bound
    /\ ForgetSnapshots(EngineOf[r])
    /\ Reschedule(EngineOf[r], {})
    /\ UNCHANGED <<up, done, aborting, faults>>

\* _recover_from_cache_error and the rescheduling with its retry limit.
CacheCorrupted(e) ==
    /\ up[e]
    /\ executor = None
    /\ Running(e) # {}
    /\ faults < MaxFaults
    /\ faults' = faults + 1
    /\ ForgetSnapshots(e)
    /\ Reschedule(e, {r \in Running(e) : attempt[r] >= MaxAttempts})
    /\ UNCHANGED <<up, done, executor, aborting>>

\* The memory limit ends a prefill with a RuntimeError: fail_all_requests
\* drops every request and leaves snapshots and store as they are.
MemoryExceeded(r) ==
    /\ At(r, "check")
    /\ up[EngineOf[r]]
    /\ faults < MaxFaults
    /\ faults' = faults + 1
    /\ executor' = None
    /\ phase' = [q \in Requests |-> IF q \in OfEngine(EngineOf[r]) /\ Live(q) THEN "gone" ELSE phase[q]]
    /\ UNCHANGED <<up, base, length, done, made, attempt, aborting, marks, storeVars, swept>>

-----------------------------------------------------------------------------
(* Engines                                                                 *)

\* The store's __init__ removes what a crash left behind, with the directory.
StartEngine(e) ==
    /\ ~up[e]
    /\ \A r \in OfEngine(e) : phase[r] = "new"
    /\ up' = [up EXCEPT ![e] = TRUE]
    /\ RemoveDirectory(e)
    /\ UNCHANGED <<phase, base, length, done, made, attempt, executor, aborting, marks, pending,
                   registry, queue, writer, named, faults>>

\* close() runs on the event loop, whatever the executor is doing:
\* deep_reset aborts every request, cleans the store and forgets it.  The
\* store is not shut down, so its writer thread goes on.
StopEngine(e) ==
    /\ up[e]
    /\ up' = [up EXCEPT ![e] = FALSE]
    /\ phase' = [r \in Requests |-> IF EngineOf[r] = e THEN "gone" ELSE phase[r]]
    /\ aborting' = aborting \ OfEngine(e)
    /\ ForgetSnapshots(e)
    /\ UNCHANGED <<base, length, done, made, attempt, executor, faults>>

-----------------------------------------------------------------------------
SnapNext ==
    \/ \E r \in Requests :
         \/ Arrive(r) \/ StartPrefill(r) \/ PrefillChunk(r) \/ ChunkGoesOn(r) \/ EndPrefill(r)
         \/ Decode(r) \/ Finish(r) \/ RequestAbort(r) \/ ProcessAbort(r)
         \/ PrefillAborted(r) \/ MemoryExceeded(r)
    \/ \E e \in Engines :
         \/ CacheCorrupted(e) \/ StartEngine(e) \/ StopEngine(e)
         \/ WriterStep(e)

SnapSpec == SnapInit /\ [][SnapNext]_snapVars

-----------------------------------------------------------------------------
(* Properties                                                              *)

\* Wherever a snapshot is kept under a token count (scheduler, buffer, write
\* queue, writer, disk), it is the state of that very request after exactly
\* so many tokens: resuming from it never skips or repeats a token.  Chunk
\* sizes, the prompt's last token and retries from scratch all enter here.
Fits(k, s) == s.req = k[1] /\ s.tokens = k[2] /\ s.attempt <= attempt[k[1]]

SnapshotsExact ==
    /\ \A r \in Requests : \A tc \in DOMAIN marks[r] :
         marks[r][tc] # None => Fits(<<r, tc>>, marks[r][tc])
    /\ \A e \in Engines :
         /\ \A k \in DOMAIN pending[e] : Fits(k, pending[e][k])
         /\ \A i \in 1..Len(queue[e]) : Fits(queue[e][i].key, queue[e][i].val)
         /\ writer[e].at \in {"write", "rename", "finish"} =>
              Fits(writer[e].item.key, writer[e].item.val)
    /\ \A k \in DOMAIN files : Fits(k, files[k])

\* The comment "stop at EVERY block boundary" (scheduler.py:378): a request
\* that generates has a snapshot at every boundary its cache has crossed
\* since the part it was given, whatever the chunk size and the retries.
EveryBoundary(r) ==
    phase[r] = "decode" =>
        DOMAIN marks[r] = {tc \in (base[r] + 1)..(Prompt(r) + made[r]) : tc % BlockSize = 0}

\* A snapshot the scheduler believes to be on SSD can be read back, unless
\* another engine removed the directory under it, or a late write of an
\* earlier attempt dropped the buffered copy and the next write then failed.
MarkedIsFound(r) ==
    phase[r] \in {"prefill", "decode"} =>
        LET found == ReadBack(r, Prompt(r) + made[r]) IN
        \A tc \in DOMAIN found :
            found[tc] # None \/ <<r, tc>> \in swept \/ (attempt[r] > 1 /\ faults > 0)

\* What a request needs to have its blocks stored is there: every boundary
\* was captured, and every capture can be read back.
SnapshotsComplete == \A r \in Requests : EveryBoundary(r) /\ MarkedIsFound(r)

\* "Files are ephemeral": nothing stays in a store's memory without a mark
\* of the scheduler that will clean it up, so the buffer cannot outgrow the
\* requests at work even when the queue is full or the writer is dead.
BufferIsMarked ==
    \A e \in Engines : \A k \in DOMAIN pending[e] :
        /\ k[2] \in DOMAIN marks[k[1]]
        /\ marks[k[1]][k[2]] = None
        /\ up[e]

\* The buffer, the marks and the files agree.
SnapshotsConsistent == SnapshotsExact /\ BufferIsMarked

\* A stored prefix of a stateful model has every snapshot it needs, and no
\* wrong one.
SnapshotsSound == SnapshotsConsistent /\ SnapshotsComplete

\* Statement of the store's __init__: it cleans up orphaned files from
\* previous crashes.  It removes the files of every other running engine.
OnlyOrphansRemoved == swept = {}
=============================================================================
