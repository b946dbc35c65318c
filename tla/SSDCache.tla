------------------------------- MODULE SSDCache -------------------------------
(***************************************************************************)
(* PagedSSDCacheManager of omlx/cache/paged_ssd_cache.py: KV blocks as     *)
(* files, an LRU index of them, an in-memory cache, and a writer thread    *)
(* behind a bounded queue.                                                 *)
(*                                                                         *)
(* One thread saves, loads and in the end closes, another writes; a step   *)
(* is what one of them does between two of its accesses to state that the  *)
(* other changes.  A hash stands for its block.  A file is <<h, k>>: k     *)
(* counts the "_tmp" in its name, because a temporary file that is left    *)
(* over is indexed under its own name after a restart.                     *)
(***************************************************************************)
EXTENDS Integers, Sequences, FiniteSets, SequencesExt, FiniteSetsExt

CONSTANTS
  Hash, None,
  Modes,        \* whether the hot cache is enabled: a subset of BOOLEAN
  Raw(_),       \* size of a block's tensors
  Overhead,     \* what save_block adds to it as an estimate of the header
  Header,       \* size of the header that is written
  NewBlock,     \* estimated_new_size
  Limits,       \* effective max sizes: the configured one and smaller ones
  HotMax,       \* hot_cache_max_bytes
  QueueSize,    \* _MAX_PENDING_WRITES
  Replaces,     \* whether os.rename replaces a file: not so on Windows
  MaxRestarts,  \* bound: restarts
  MaxTrouble    \* bound: restarts, failing writes, removals by other managers

ASSUME SSDCacheAssumption ==
  /\ IsFiniteSet(Hash) /\ Hash # {} /\ None \notin Hash \cup (Hash \X Nat)
  /\ Modes \subseteq BOOLEAN /\ Replaces \in BOOLEAN
  /\ \A h \in Hash : Raw(h) \in Nat \ {0}
  /\ {Overhead, Header, NewBlock, HotMax} \subseteq Nat
  /\ IsFiniteSet(Limits) /\ Limits \subseteq Nat /\ Limits # {}
  /\ QueueSize \in Nat \ {0}
  /\ {MaxRestarts, MaxTrouble} \subseteq Nat

Level == 0 .. MaxRestarts + 1

VARIABLES
  hot_enabled,
  index,     \* the indexed hashes, least recently used first
  fileSize,  \* file_size of each block's metadata
  level,     \* which file that metadata names
  total,     \* _total_size of the index
  hot,       \* the hashes in the hot cache, or in the read buffer without it
  hotTotal,  \* _hot_cache_total_bytes
  files,     \* the files of the cache directory
  writeQueue,
  shutdown,  \* _writer_shutdown
  writer,    \* where the writer thread is, and its block
  phase,     \* whether the manager is open, closing or closed
  proc,      \* where the thread is that uses the manager
  promise,   \* history: the blocks whose last save returned True
  scanned,   \* history: the size found at the start
  restarts,
  failed,    \* the blocks whose write failed
  removed    \* the blocks whose file another manager removed

indexVars == <<index, fileSize, level, total>>
hotVars   == <<hot, hotTotal>>
envVars   == <<hot_enabled, phase, scanned, restarts, failed, removed>>
vars == <<indexVars, hotVars, files, writeQueue, shutdown, writer, proc, promise, envVars>>

Indexed == ToSet(index)
InHot   == ToSet(hot)
Complete(h, k) == files[<<h, k>>] = "complete"

SumOf(size, hashes) == MapThenSumSet(LAMBDA h : size[h], hashes)
RawSize     == [h \in Hash |-> Raw(h)]
WrittenSize == [h \in Hash |-> Raw(h) + Header]

Trouble == restarts + Cardinality(failed) + Cardinality(removed) < MaxTrouble

Idle    == [at |-> "idle", h |-> None, unlinks |-> <<>>, flush |-> <<>>]
Waiting == [at |-> "idle", h |-> None, k |-> 0]

Init ==
  /\ hot_enabled \in Modes
  /\ index = <<>> /\ total = 0 /\ hot = <<>> /\ hotTotal = 0
  /\ fileSize = [h \in Hash |-> 0] /\ level = [h \in Hash |-> 0]
  /\ files = [f \in Hash \X Level |-> "none"]
  /\ writeQueue = <<>> /\ shutdown = FALSE /\ writer = Waiting
  /\ phase = "open" /\ proc = Idle
  /\ promise = [h \in Hash |-> "no"]
  /\ scanned = 0 /\ restarts = 0 /\ failed = {} /\ removed = {}

-----------------------------------------------------------------------------
(* PagedSSDCacheIndex; each method holds the index lock.                   *)

IndexAdd(h, size) ==
  /\ index'    = Append(RemoveFirst(index, h), h)
  /\ total'    = total + size - (IF h \in Indexed THEN fileSize[h] ELSE 0)
  /\ fileSize' = [fileSize EXCEPT ![h] = size]

IndexRemove(h) ==
  /\ index' = RemoveFirst(index, h)
  /\ total' = total - (IF h \in Indexed THEN fileSize[h] ELSE 0)

Touched(h) == IF h \in Indexed THEN Append(RemoveFirst(index, h), h) ELSE index

\* Mutant: the size is updated, the total is not.
IndexUpdate_SizeOnly(h) ==
  /\ fileSize' = [fileSize EXCEPT ![h] = Raw(h) + Header]
  /\ total'    = total

\* update_file_size.
IndexUpdate(h) ==
  IF h \in Indexed
  THEN /\ fileSize' = [fileSize EXCEPT ![h] = Raw(h) + Header]
       /\ total'    = total + Raw(h) + Header - fileSize[h]
  ELSE UNCHANGED <<fileSize, total>>

\* _get_effective_max_size depends on the free space of the disk.
TargetSize(limit) == IF limit >= NewBlock THEN limit - NewBlock ELSE (limit * 9) \div 10

\* How many entries evict_until_size takes from the front.
NumEvicted(target) ==
  Min({n \in 0 .. Len(index) :
         \/ total - SumOf(fileSize, ToSet(SubSeq(index, 1, n))) <= target
         \/ n = Len(index)})

\* _enforce_size_limit_for_new_block up to its unlinks, which the thread does
\* one by one.  A block in the hot cache can still be served from there.
Enforce(at) ==
  \E limit \in Limits :
    LET n       == NumEvicted(TargetSize(limit))
        evicted == SubSeq(index, 1, n)
        lost(h) == h \in ToSet(evicted) /\ ~(hot_enabled /\ h \in InHot)
    IN  /\ index'   = SubSeq(index, n + 1, Len(index))
        /\ total'   = total - SumOf(fileSize, ToSet(evicted))
        /\ proc'    = [proc EXCEPT !.at = at,
                                   !.unlinks = [i \in 1 .. n |-> <<evicted[i], level[evicted[i]]>>]]
        /\ promise' = [h \in Hash |-> IF lost(h) THEN "no" ELSE promise[h]]

Unlink ==
  /\ proc.unlinks # <<>>
  /\ files' = [files EXCEPT ![Head(proc.unlinks)] = "none"]
  /\ proc'  = [proc EXCEPT !.unlinks = Tail(@)]
  /\ UNCHANGED <<indexVars, hotVars, writeQueue, shutdown, writer, promise, envVars>>

\* Where the thread is, with its unlinks done.
At(place) == proc.at = place /\ proc.unlinks = <<>>

Full == Len(writeQueue) >= QueueSize

-----------------------------------------------------------------------------
(* The hot cache, and what it flushes to the SSD.                          *)

NumCooled(base, size) ==
  Min({n \in 0 .. Len(base) :
         \/ SumOf(RawSize, ToSet(SubSeq(base, n + 1, Len(base)))) + size <= HotMax
         \/ n = Len(base)})

\* _hot_cache_put, and the flushes it leaves the thread with.
HotPut(h) ==
  LET base == RemoveFirst(hot, h)
      n    == NumCooled(base, Raw(h))
      cold == SubSeq(base, 1, n)
  IN  /\ hot'      = Append(SubSeq(base, n + 1, Len(base)), h)
      /\ hotTotal' = hotTotal - (IF h \in InHot THEN Raw(h) ELSE 0) - SumOf(RawSize, ToSet(cold)) + Raw(h)
      /\ proc'     = [Idle EXCEPT !.at = "flush", !.flush = cold]

Flushed == Head(proc.flush)

\* close() skips blocks whose file exists.
FlushSkips ==
  /\ phase = "closing" /\ At("flush") /\ proc.flush # <<>>
  /\ files[<<Flushed, level[Flushed]>>] # "none"
  /\ proc' = [proc EXCEPT !.flush = Tail(@)]
  /\ UNCHANGED <<indexVars, hotVars, files, writeQueue, shutdown, writer, promise, envVars>>

\* _enqueue_ssd_write: contains and the size limit, then add, then put_nowait.
FlushBegins ==
  /\ At("flush") /\ proc.flush # <<>>
  /\ LET h == Flushed
     IN  /\ phase = "closing" => files[<<h, level[h]>>] = "none"
         /\ IF h \in Indexed
            THEN /\ proc' = [proc EXCEPT !.at = "put"]
                 /\ UNCHANGED <<index, total, promise>>
            ELSE Enforce("add")
  /\ UNCHANGED <<fileSize, level, hotVars, files, writeQueue, shutdown, writer, envVars>>

FlushAdds ==
  /\ At("add")
  /\ IndexAdd(Flushed, fileSize[Flushed])
  /\ proc' = [proc EXCEPT !.at = "put"]
  /\ UNCHANGED <<level, hotVars, files, writeQueue, shutdown, writer, promise, envVars>>

FlushPuts ==
  /\ At("put")
  /\ LET h == Flushed
     IN  IF Full THEN /\ IndexRemove(h)
                      /\ promise' = [promise EXCEPT ![h] = "no"]
                      /\ UNCHANGED writeQueue
                 ELSE /\ writeQueue' = Append(writeQueue, <<h, level[h]>>)
                      /\ UNCHANGED <<index, total, promise>>
  /\ proc' = [proc EXCEPT !.at = "flush", !.flush = Tail(@)]
  /\ UNCHANGED <<fileSize, level, hotVars, files, shutdown, writer, envVars>>

FlushEnds ==
  /\ At("flush") /\ proc.flush = <<>>
  /\ proc' = [proc EXCEPT !.at = IF phase = "closing" THEN "signal" ELSE "idle"]
  /\ UNCHANGED <<indexVars, hotVars, files, writeQueue, shutdown, writer, promise, envVars>>

-----------------------------------------------------------------------------
(* save_block.                                                             *)

Ready == phase = "open" /\ At("idle")
Returns == proc' = Idle

\* The block is in the index: it is not saved again.
SaveBegins(h) ==
  /\ Ready
  /\ index' = Touched(h)
  /\ IF h \in Indexed
     THEN /\ promise' = [promise EXCEPT ![h] = "yes"]
          /\ UNCHANGED proc
     ELSE /\ proc' = [proc EXCEPT !.at = "lookup", !.h = h]
          /\ UNCHANGED promise
  /\ UNCHANGED <<fileSize, level, total, hotVars, files, writeQueue, shutdown, writer, envVars>>

\* It is in the hot cache, or in the read buffer: True as well.
SaveFound ==
  /\ At("lookup") /\ proc.h \in InHot
  /\ promise' = [promise EXCEPT ![proc.h] = IF hot_enabled THEN "yes" ELSE "buffer"]
  /\ Returns
  /\ UNCHANGED <<indexVars, hotVars, files, writeQueue, shutdown, writer, envVars>>

SaveRefused ==
  /\ At("lookup") /\ proc.h \notin InHot
  /\ ~hot_enabled /\ Full
  /\ Returns
  /\ UNCHANGED <<indexVars, hotVars, files, writeQueue, shutdown, writer, promise, envVars>>

SaveMakesRoom ==
  /\ At("lookup") /\ proc.h \notin InHot
  /\ IF hot_enabled THEN /\ proc' = [proc EXCEPT !.at = "save"]
                         /\ UNCHANGED <<index, total, promise>>
                    ELSE ~Full /\ Enforce("save")
  /\ UNCHANGED <<fileSize, level, hotVars, files, writeQueue, shutdown, writer, envVars>>

\* The tensors cannot be prepared.
SaveFails ==
  /\ At("save")
  /\ Returns
  /\ UNCHANGED <<indexVars, hotVars, files, writeQueue, shutdown, writer, promise, envVars>>

Estimate(h) == Raw(h) + Overhead

\* Without the hot cache: index, read buffer and queue.
SaveQueues ==
  /\ At("save") /\ ~hot_enabled /\ ~Full
  /\ LET h == proc.h
     IN  /\ IndexAdd(h, Estimate(h))
         /\ level'      = [level EXCEPT ![h] = 0]
         /\ hot'        = Append(RemoveFirst(hot, h), h)
         /\ writeQueue' = Append(writeQueue, <<h, 0>>)
         /\ promise'    = [promise EXCEPT ![h] = "yes"]
  /\ Returns
  /\ UNCHANGED <<hotTotal, files, shutdown, writer, envVars>>

\* With it: only in memory, until it is evicted from there.
SaveHot ==
  /\ At("save") /\ hot_enabled
  /\ LET h == proc.h
     IN  /\ HotPut(h)
         /\ fileSize' = [fileSize EXCEPT ![h] = Estimate(h)]
         /\ level'    = [level EXCEPT ![h] = 0]
         /\ promise'  = [promise EXCEPT ![h] = "yes"]
  /\ UNCHANGED <<index, total, files, writeQueue, shutdown, writer, envVars>>

-----------------------------------------------------------------------------
(* load_block and load_block_with_metadata.                                *)

LoadHot(h) ==
  /\ Ready /\ h \in InHot
  /\ hot'   = Append(RemoveFirst(hot, h), h)
  /\ index' = Touched(h)
  /\ UNCHANGED <<fileSize, level, total, hotTotal, files, writeQueue, shutdown, writer, proc,
                 promise, envVars>>

LoadIndexed(h) ==
  /\ Ready /\ h \notin InHot /\ h \in Indexed
  /\ proc' = [proc EXCEPT !.h = h,
                          !.at = IF files[<<h, level[h]>>] = "none" THEN "missing" ELSE "read"]
  /\ UNCHANGED <<indexVars, hotVars, files, writeQueue, shutdown, writer, promise, envVars>>

\* The file was not there: the entry goes.
LoadForgets ==
  /\ At("missing")
  /\ IndexRemove(proc.h)
  /\ Returns
  /\ UNCHANGED <<fileSize, level, hotVars, files, writeQueue, shutdown, writer, promise, envVars>>

\* Read, and promoted to the hot cache if there is one.
LoadReads ==
  /\ At("read")
  /\ LET h == proc.h
     IN  /\ Complete(h, level[h])
         /\ index' = Touched(h)
         /\ IF hot_enabled THEN HotPut(h) ELSE Returns /\ UNCHANGED hotVars
  /\ UNCHANGED <<fileSize, level, total, files, writeQueue, shutdown, writer, promise, envVars>>

\* Somebody removed the file since.
LoadFails ==
  /\ At("read")
  /\ LET h == proc.h
     IN  /\ ~Complete(h, level[h])
         /\ IndexRemove(h)
         /\ files' = [files EXCEPT ![<<h, level[h]>>] = "none"]
  /\ Returns
  /\ UNCHANGED <<fileSize, level, hotVars, writeQueue, shutdown, writer, promise, envVars>>

-----------------------------------------------------------------------------
(* _writer_loop.                                                           *)

WriterTakes ==
  /\ writer.at = "idle" /\ writeQueue # <<>>
  /\ writer' = IF Head(writeQueue) = None THEN [Waiting EXCEPT !.at = "gone"]
               ELSE [at |-> "write", h |-> Head(writeQueue)[1], k |-> Head(writeQueue)[2]]
  /\ writeQueue' = Tail(writeQueue)
  /\ UNCHANGED <<indexVars, hotVars, files, shutdown, proc, promise, envVars>>

\* Mutant: the shutdown flag is enough.
WriterExits_Undrained ==
  /\ writer.at = "idle" /\ shutdown
  /\ writer' = [Waiting EXCEPT !.at = "gone"]
  /\ UNCHANGED <<indexVars, hotVars, files, writeQueue, shutdown, proc, promise, envVars>>

WriterExits ==
  /\ writer.at = "idle" /\ writeQueue = <<>> /\ shutdown
  /\ writer' = [Waiting EXCEPT !.at = "gone"]
  /\ UNCHANGED <<indexVars, hotVars, files, writeQueue, shutdown, proc, promise, envVars>>

WriterAt(place) == writer' = [writer EXCEPT !.at = place]
Temp  == <<writer.h, writer.k + 1>>
Final == <<writer.h, writer.k>>

WriteTemp ==
  /\ \/ writer.at = "write" /\ WriterAt("fill")   /\ files' = [files EXCEPT ![Temp] = "partial"]
     \/ writer.at = "fill"  /\ WriterAt("rename") /\ files' = [files EXCEPT ![Temp] = "complete"]
  /\ UNCHANGED <<indexVars, hotVars, writeQueue, shutdown, proc, promise, envVars>>

WriteRaises ==
  /\ writer.at \in {"write", "fill"} /\ Trouble
  /\ failed' = failed \cup {writer.h}
  /\ WriterAt("failed")
  /\ UNCHANGED <<indexVars, hotVars, files, writeQueue, shutdown, proc, promise, hot_enabled,
                 phase, scanned, restarts, removed>>

\* os.rename.
Rename ==
  /\ writer.at = "rename"
  /\ IF Replaces \/ files[Final] = "none"
     THEN files' = [files EXCEPT ![Final] = "complete", ![Temp] = "none"] /\ WriterAt("check")
     ELSE UNCHANGED files /\ WriterAt("failed")
  /\ UNCHANGED <<indexVars, hotVars, writeQueue, shutdown, proc, promise, envVars>>

\* Mutant: a block that was evicted while its write was pending stays.
WriterChecks_Keeps ==
  /\ writer.at = "check"
  /\ IndexUpdate(writer.h)
  /\ WriterAt("finish")
  /\ UNCHANGED <<index, level, hotVars, files, writeQueue, shutdown, proc, promise, envVars>>

\* update_file_size, and whether the block was evicted meanwhile.
WriterChecks ==
  /\ writer.at = "check"
  /\ IndexUpdate(writer.h)
  /\ WriterAt(IF writer.h \in Indexed THEN "finish" ELSE "drop")
  /\ UNCHANGED <<index, level, hotVars, files, writeQueue, shutdown, proc, promise, envVars>>

WriterDrops ==
  /\ writer.at = "drop"
  /\ files' = [files EXCEPT ![Final] = "none"]
  /\ WriterAt("finish")
  /\ UNCHANGED <<indexVars, hotVars, writeQueue, shutdown, proc, promise, envVars>>

\* An exception: forget the block, then remove what was written of it.
WriterForgets ==
  /\ writer.at = "failed"
  /\ IndexRemove(writer.h)
  /\ WriterAt("clean")
  /\ UNCHANGED <<fileSize, level, hotVars, files, writeQueue, shutdown, proc, promise, envVars>>

WriterCleans ==
  /\ writer.at = "clean"
  /\ files' = [files EXCEPT ![Temp] = "none", ![Final] = "none"]
  /\ WriterAt("finish")
  /\ UNCHANGED <<indexVars, hotVars, writeQueue, shutdown, proc, promise, envVars>>

\* The read buffer gives the block up.  _hot_cache_total_bytes, which did not
\* count it, is only shown in statistics then and not modelled.
WriterFinishes ==
  /\ writer.at = "finish"
  /\ hot' = IF hot_enabled THEN hot ELSE RemoveFirst(hot, writer.h)
  /\ writer' = Waiting
  /\ UNCHANGED <<indexVars, hotTotal, files, writeQueue, shutdown, proc, promise, envVars>>

-----------------------------------------------------------------------------
(* close(), restarts, and other managers.                                  *)

CloseBegins ==
  /\ Ready
  /\ phase' = "closing"
  /\ proc' = [Idle EXCEPT !.at = "flush", !.flush = IF hot_enabled THEN hot ELSE <<>>]
  /\ UNCHANGED <<indexVars, hotVars, files, writeQueue, shutdown, writer, promise, hot_enabled,
                 scanned, restarts, failed, removed>>

CloseSignals ==
  /\ At("signal")
  /\ shutdown'   = TRUE
  /\ writeQueue' = IF Full THEN writeQueue ELSE Append(writeQueue, None)
  /\ proc'       = [proc EXCEPT !.at = "join"]
  /\ UNCHANGED <<indexVars, hotVars, files, writer, promise, envVars>>

CloseEnds ==
  /\ At("join") /\ writer.at = "gone"
  /\ phase' = "closed"
  /\ hot'  = <<>> /\ hotTotal' = 0
  /\ proc' = Idle
  /\ UNCHANGED <<indexVars, files, writeQueue, shutdown, writer, promise, hot_enabled, scanned,
                 restarts, failed, removed>>

Found == {h \in Hash : \E k \in Level : Complete(h, k)}

(***************************************************************************)
(* A new manager on the directory, after close() or after the process was  *)
(* killed.  _scan_existing_files indexes what it can read, in the order of *)
(* glob; of two files of a block the later one counts.                     *)
(***************************************************************************)
Restart(order, which) ==
  /\ Trouble /\ restarts < MaxRestarts
  /\ restarts' = restarts + 1
  /\ \A h \in Found : Complete(h, which[h])
  /\ index'    = order
  /\ level'    = [h \in Hash |-> IF h \in Found THEN which[h] ELSE 0]
  /\ fileSize' = [h \in Hash |-> IF h \in Found THEN WrittenSize[h] ELSE 0]
  /\ total'    = SumOf(WrittenSize, ToSet(order))
  /\ scanned'  = total'
  /\ promise'  = [h \in Hash |->
       IF promise[h] = "yes" /\ (h \in Found \/ phase = "closed") THEN "yes" ELSE "no"]
  /\ hot' = <<>> /\ hotTotal' = 0
  /\ writeQueue' = <<>> /\ shutdown' = FALSE /\ writer' = Waiting
  /\ phase' = "open" /\ proc' = Idle
  /\ UNCHANGED <<files, hot_enabled, failed, removed>>

\* Managers of other models share the directory and the files found in it.
OtherRemoves(h) ==
  /\ Trouble
  /\ Complete(h, 0)
  /\ removed' = removed \cup {h}
  /\ files'   = [files EXCEPT ![<<h, 0>>] = "none"]
  /\ UNCHANGED <<indexVars, hotVars, writeQueue, shutdown, writer, proc, promise, hot_enabled,
                 phase, scanned, restarts, failed>>

-----------------------------------------------------------------------------
Saving == SaveFound \/ SaveRefused \/ SaveMakesRoom \/ SaveFails \/ SaveQueues \/ SaveHot

Loading == LoadForgets \/ LoadReads \/ LoadFails

Flushing == Unlink \/ FlushBegins \/ FlushAdds \/ FlushPuts \/ FlushEnds

Writing ==
  \/ WriterTakes \/ WriterExits \/ WriteTemp \/ Rename \/ WriterChecks \/ WriterDrops
  \/ WriterForgets \/ WriterCleans \/ WriterFinishes

Next ==
  \/ \E h \in Hash : SaveBegins(h) \/ LoadHot(h) \/ LoadIndexed(h) \/ OtherRemoves(h)
  \/ Saving \/ Loading \/ FlushSkips
  \/ Flushing
  \/ Writing \/ WriteRaises
  \/ CloseBegins \/ CloseSignals \/ CloseEnds
  \/ \E order \in SetToSeqs(Found), which \in [Found -> Level] : Restart(order, which)

Spec == Init /\ [][Next]_vars

-----------------------------------------------------------------------------
SSDTypeOK ==
  /\ hot_enabled \in Modes
  /\ Indexed \cup InHot \subseteq Hash /\ IsInjective(index) /\ IsInjective(hot)
  /\ fileSize \in [Hash -> Nat] /\ level \in [Hash -> Level]
  /\ total \in Nat /\ hotTotal \in Nat
  /\ files \in [Hash \X Level -> {"none", "partial", "complete"}]
  /\ Len(writeQueue) <= QueueSize
  /\ promise \in [Hash -> {"yes", "no", "buffer"}]

\* The sizes that evictions go by are those of the blocks that are there,
\* although the writer corrects them while others evict and add.
SizesExact ==
  /\ total = SumOf(fileSize, Indexed)
  /\ hot_enabled => hotTotal = SumOf(RawSize, InHot)

\* A block whose write is queued or under way.
Underway(h) ==
  \/ \E i \in 1 .. Len(writeQueue) : writeQueue[i] # None /\ writeQueue[i][1] = h
  \/ writer.h = h
  \/ h \in ToSet(proc.flush)

\* What a load would find now.
Loadable(h) == h \in InHot \/ (h \in Indexed /\ Complete(h, level[h]))

\* An index entry has its block in memory, on disk or on the way to it.
IndexBacked == \A h \in Indexed \ removed : Loadable(h) \/ Underway(h)

\* Without the hot cache every file is counted against the size limit: it has
\* an entry, or the writer or whoever evicted it is about to deal with it.
FilesCounted ==
  ~hot_enabled => \A h \in Hash :
    Complete(h, 0) =>
      \/ h \in Indexed \/ writer.h = h
      \/ <<h, 0>> \in ToSet(proc.unlinks)

\* The index and the files tell of the same blocks.
FilesIndexed == IndexBacked /\ FilesCounted

Ceiling == Max({TargetSize(limit) : limit \in Limits})
Largest == Max({Estimate(h) : h \in Hash})
Growth  == IF Header > Overhead THEN Header - Overhead ELSE 0

\* max_size_bytes: "Maximum total size of SSD cache files."  Room is made for a
\* block of a fixed size before another is added, and headers grow.
OvershootBounded ==
  total <= Max({scanned, Ceiling + Largest + Len(index) * Growth})

\* The hot cache keeps to its limit, whatever is saved and promoted into it.
HotBounded == hot_enabled => hotTotal <= HotMax \/ Len(hot) = 1

\* The sizes the index and the hot cache report, and their limits.
SizesRight == SSDTypeOK /\ SizesExact /\ OvershootBounded /\ HotBounded

\* Without the hot cache, a block that was saved can be loaded at once and
\* from then on, also after close() and a new start, until it is evicted, its
\* write fails or another manager removes it.  A save that is answered
\* from the read buffer alone is not counted.
KeptInBuffer ==
  ~hot_enabled => \A h \in Hash \ (failed \cup removed) : promise[h] = "yes" => Loadable(h)

\* save_block: "The block is immediately available for reads via the in-memory
\* pending-writes buffer."
\* TLC refutes it: see "Other disagreements" in the README.
Kept ==
  \A h \in Hash \ (failed \cup removed) : promise[h] = "yes" => Loadable(h) \/ Underway(h)
=============================================================================
