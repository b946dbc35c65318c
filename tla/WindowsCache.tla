---------------------------- MODULE WindowsCache ----------------------------
(***************************************************************************)
(* The block cache of the Windows port,                                    *)
(* src/omlx/cache/paged_cache_windows.py: blocks in memory in the order of *)
(* their use, files for blocks that were changed, and eviction for room    *)
(* or under memory pressure.                                               *)
(*                                                                         *)
(* Ids of blocks are hashes of their keys and taken to be distinct; each    *)
(* block has a prefix of its own.                                          *)
(***************************************************************************)
EXTENDS Integers, SequencesExt, FiniteSetsExt

CONSTANTS
    Blocks,        \* ids of blocks
    Sizes,         \* sizes of data (nbytes)
    MaxCacheSize,  \* max_cache_size
    NoBlock,       \* the answer None
    MaxPuts        \* bound: calls of put

ASSUME WindowsCacheAssumption ==
    /\ Sizes \subseteq Nat \ {0} /\ MaxCacheSize \in Nat /\ MaxPuts \in Nat
    /\ NoBlock \notin [size : Sizes, put : Nat]

VARIABLES
    blockTable, \* blocks: id -> data, which is its size and the put it is from
    accessed,   \* access_order, least recently used first
    dirtyFlag,  \* blocks whose is_dirty is set
    dirtyIds,   \* dirty_blocks
    usedBytes,  \* stats.used_size_bytes
    indexed,    \* block_index
    cacheFiles, \* the cache directory: <<id, suffixes>> -> data
    puts,
    recent,     \* all ids that were put since the cache was cleared, by their last use
    latest      \* what was put last under each id, for a property

cacheVars == <<blockTable, accessed, dirtyFlag, dirtyIds, usedBytes, indexed, cacheFiles, puts, recent, latest>>

Resident == DOMAIN blockTable
BlockSize == [b \in Resident |-> blockTable[b].size]
BytesOf(size, ids) == MapThenSumSet(LAMBDA b : size[b], ids)
SizeOf(ids) == BytesOf(BlockSize, ids)
MovedToEnd(seq, b) == Append(RemoveFirst(seq, b), b)
SetKey(f, x, y) == [z \in DOMAIN f \cup {x} |-> IF z = x THEN y ELSE f[z]]
DropKeys(f, xs) == [z \in DOMAIN f \ xs |-> f[z]]

CacheInit ==
    /\ blockTable = << >> /\ accessed = << >> /\ dirtyFlag = {} /\ dirtyIds = {} /\ usedBytes = 0
    /\ indexed = {} /\ cacheFiles = << >>
    /\ puts = 0 /\ recent = << >>
    /\ latest = [b \in Blocks |-> NoBlock]

-----------------------------------------------------------------------------
(* Files                                                                   *)

\* numpy.save appends ".npy" to a name that does not end in it.
NumpySave(name) ==
    IF Last(name[2]) = ".npy" THEN name ELSE <<name[1], Append(name[2], ".npy")>>

\* _write_block_to_disk: a temporary file, and then its new name; what fails is
\* only logged.
WriteBlock(b) ==
    LET temporary == <<b, <<".tmp">>>>
    IN  IF NumpySave(temporary) = temporary THEN <<b, <<".npy">>>> ELSE NumpySave(temporary)

WriteBlocks(ids) ==
    [f \in DOMAIN cacheFiles \cup {WriteBlock(b) : b \in ids} |->
        IF f[1] \in ids /\ f = WriteBlock(f[1]) THEN blockTable[f[1]] ELSE cacheFiles[f]]

-----------------------------------------------------------------------------
(* Memory                                                                  *)

\* The blocks of the first n places in the order of use.
Oldest(n) == ToSet(SubSeq(accessed, 1, n))

\* _evict_blocks: how many of the least recently used blocks make room for so
\* many bytes.
ToEvict(needed) ==
    LET toFree == needed - (MaxCacheSize - usedBytes)
    IN  Max({n \in 0..Len(accessed) : \A k \in 0..(n - 1) : SizeOf(Oldest(k)) < toFree})

\* _evict_block, of the first n.
Evict(n) ==
    /\ blockTable' = DropKeys(blockTable, Oldest(n))
    /\ usedBytes' = usedBytes - SizeOf(Oldest(n))
    /\ accessed' = SubSeq(accessed, n + 1, Len(accessed))
    /\ dirtyFlag' = dirtyFlag \ Oldest(n)
    /\ dirtyIds' = dirtyIds \ Oldest(n)

\* What put leaves after it has evicted the victims and added the block;
\* _add_to_memory counts a block that it replaces only once.
UsedAfter(victims, b, data) ==
    usedBytes - SizeOf(victims) + data.size
        - (IF b \in Resident \ victims THEN blockTable[b].size ELSE 0)

PutBlock(b, size) ==
    LET n       == ToEvict(size)
        victims == Oldest(n)
        data    == [size |-> size, put |-> puts + 1]
    IN  /\ puts < MaxPuts
        /\ puts' = puts + 1
        /\ cacheFiles' = WriteBlocks(victims \cap dirtyFlag)
        /\ blockTable' = SetKey(DropKeys(blockTable, victims), b, data)
        /\ usedBytes' = UsedAfter(victims, b, data)
        /\ accessed' = MovedToEnd(SubSeq(accessed, n + 1, Len(accessed)), b)
        /\ dirtyFlag' = dirtyFlag \ (victims \cup {b})
        /\ dirtyIds' = dirtyIds \ victims
        /\ indexed' = indexed \cup {b}
        /\ recent' = MovedToEnd(recent, b)
        /\ latest' = [latest EXCEPT ![b] = data]

\* get() of a block in memory.
GetBlock(b) ==
    /\ b \in Resident
    /\ accessed' = MovedToEnd(accessed, b)
    /\ recent' = MovedToEnd(recent, b)
    /\ UNCHANGED <<blockTable, dirtyFlag, dirtyIds, usedBytes, indexed, cacheFiles, puts, latest>>

\* get() of another block: its file is read into memory, without eviction, if
\* there is one.
GetFromDisk(b) ==
    LET name == <<b, <<".npy">>>>
        has  == name \in DOMAIN cacheFiles
    IN  /\ b \in indexed \ Resident
        /\ blockTable' = IF has THEN SetKey(blockTable, b, cacheFiles[name]) ELSE blockTable
        /\ usedBytes' = IF has THEN usedBytes + cacheFiles[name].size ELSE usedBytes
        /\ accessed' = IF has THEN Append(accessed, b) ELSE accessed
        /\ recent' = IF has THEN MovedToEnd(recent, b) ELSE recent
        /\ UNCHANGED <<dirtyFlag, dirtyIds, indexed, cacheFiles, puts, latest>>

MarkDirty(b) ==
    /\ b \in Resident
    /\ dirtyFlag' = dirtyFlag \cup {b}
    /\ dirtyIds' = dirtyIds \cup {b}
    /\ UNCHANGED <<blockTable, accessed, usedBytes, indexed, cacheFiles, puts, recent, latest>>

\* flush(), also at shutdown.
FlushCache ==
    /\ dirtyIds # {}
    /\ cacheFiles' = WriteBlocks(dirtyIds \cap Resident)
    /\ dirtyFlag' = dirtyFlag \ dirtyIds
    /\ dirtyIds' = {}
    /\ UNCHANGED <<blockTable, accessed, usedBytes, indexed, puts, recent, latest>>

ClearCache ==
    /\ cacheFiles' = WriteBlocks(dirtyIds \cap Resident)
    /\ blockTable' = << >> /\ accessed' = << >> /\ dirtyFlag' = {} /\ dirtyIds' = {} /\ usedBytes' = 0
    /\ indexed' = {} /\ recent' = << >>
    /\ UNCHANGED <<puts, latest>>

\* handle_memory_pressure: down to half of the limit, and nothing is written.
HandlePressure ==
    /\ 2 * usedBytes > MaxCacheSize
    /\ Evict(Max({n \in 0..Len(accessed) :
                   \A k \in 0..(n - 1) : 2 * (usedBytes - SizeOf(Oldest(k))) > MaxCacheSize}))
    /\ UNCHANGED <<indexed, cacheFiles, puts, recent, latest>>

CacheNext ==
    \/ \E b \in Blocks :
         \/ \E size \in Sizes : PutBlock(b, size)
         \/ GetBlock(b) \/ GetFromDisk(b) \/ MarkDirty(b)
    \/ FlushCache \/ ClearCache \/ HandlePressure

CacheSpec == CacheInit /\ [][CacheNext]_cacheVars

-----------------------------------------------------------------------------
(* Properties                                                              *)

\* The bytes that eviction goes by are those of the blocks in memory, which
\* never exceed the limit but for a single block that is larger.
BytesExact ==
    /\ usedBytes = SizeOf(Resident)
    /\ usedBytes <= MaxCacheSize \/ Cardinality(Resident) = 1

\* What is kept is what was used last: through evictions for room, under
\* pressure and blocks that are put again.
KeptAreRecent == IsSuffix(accessed, recent) /\ ToSet(accessed) = Resident

\* What can be read is what was put last under its key, also after the block
\* was dropped and put again, and the queue of dirty blocks misses none that is
\* marked.
ReadsAreLatest ==
    /\ \A b \in Resident : blockTable[b] = latest[b]
    /\ dirtyFlag \subseteq dirtyIds /\ dirtyIds \subseteq Resident

\* The accounts of the block cache agree with what it holds.
WindowsCacheExact == BytesExact /\ KeptAreRecent /\ ReadsAreLatest

\* The comment "Write dirty blocks to disk before evicting"
\* (paged_cache_windows.py:264): a changed block is dropped only once its data
\* is in its file.  TLC refutes it: see "Other disagreements" in the README.
DirtyIsWritten ==
    [][\A b \in dirtyFlag \ DOMAIN blockTable' :
          <<b, <<".npy">>>> \in DOMAIN cacheFiles' /\ cacheFiles'[<<b, <<".npy">>>>] = blockTable[b]]_cacheVars
=============================================================================
