----------------------------- MODULE PagedCache -----------------------------
(***************************************************************************)
(* PagedCacheManager of omlx/cache/paged_cache.py: the pool of KV-cache    *)
(* blocks with reference counts, the free list, the map from content hash  *)
(* to block and the growth of the pool on demand.                          *)
(*                                                                         *)
(* Every method runs under the manager's RLock, so a method is one action; *)
(* a method that loops over a table is one action per iteration, which     *)
(* allows more interleavings than the lock does.  The client is the        *)
(* scheduler with its prefix cache: held[r] is the set of references that  *)
(* request r owns, the blocks of its BlockTable.  enable_caching is TRUE.  *)
(***************************************************************************)
EXTENDS FreeBlockQueue, FiniteSets

CONSTANTS
  Request,    \* request ids
  Hash,       \* content hashes: a block's tokens chained to its parent's hash
  GrowBy      \* blocks one growth of the pool adds (256 in allocate_block)

ASSUME PagedCacheAssumption ==
  /\ IsFiniteSet(Request)
  /\ None \notin Hash
  /\ GrowBy \in Nat \ {0}

VARIABLES
  created,      \* _current_allocated_count = len(blocks): blocks 0 .. created-1
  ref_count,    \* CacheBlock.ref_count
  block_hash,   \* CacheBlock.block_hash
  allocated,    \* keys of allocated_blocks
  cached,       \* cached_block_hash_to_block: the blocks registered under a hash
  held,         \* references each request owns
  fresh,        \* blocks their owner has allocated and not registered yet
  stats         \* the counters of PagedCacheStats kept in step with the pool

vars == <<queue, created, ref_count, block_hash, allocated, cached, held, fresh, stats>>

NullBlock == 0
Null      == {NullBlock}

Min2(a, b) == IF a < b THEN a ELSE b

-----------------------------------------------------------------------------
(* __init__ and clear: the initial blocks, block 0 taken out as null block. *)

FreshQueue == PopLeft(NewQueue(InitialBlocks))
FreshStats == [allocated_blocks |-> 1, free_blocks |-> InitialBlocks - 1]

Init ==
  /\ queue      = FreshQueue
  /\ created    = InitialBlocks
  /\ ref_count  = [b \in Block |-> IF b = NullBlock THEN 1 ELSE 0]
  /\ block_hash = [b \in Block |-> None]
  /\ allocated  = Null
  /\ cached     = [h \in Hash |-> {}]
  /\ held       = [r \in Request |-> {}]
  /\ fresh      = {}
  /\ stats      = FreshStats

\* The blocks that allocate_block adds when the free list is empty.
Growth == IF queue.num = 0 THEN Min2(GrowBy, MaxBlocks - created) ELSE 0

GrownQueue == AppendRange(queue, created, created + Growth - 1)

\* allocate_block returns None exactly when this is false.
CanAllocate == queue.num # 0 \/ created < MaxBlocks

\* _maybe_evict_cached_block: the hash survives when it is not registered.
EvictedCached(b) ==
  [h \in Hash |-> IF h = block_hash[b] THEN cached[h] \ {b} ELSE cached[h]]

EvictedHash(b) ==
  IF block_hash[b] # None /\ b \in cached[block_hash[b]] THEN None ELSE block_hash[b]

\* Mutant: the blocks a growth adds are not counted as free.
TakeBlock_GrowthNotCounted(b) ==
  /\ CanAllocate
  /\ ~IsEmpty(GrownQueue)
  /\ b = First(GrownQueue)
  /\ queue'     = PopLeft(GrownQueue)
  /\ created'   = created + Growth
  /\ allocated' = allocated \cup {b}
  /\ stats'     = [allocated_blocks |-> stats.allocated_blocks + 1,
                   free_blocks      |-> stats.free_blocks - 1]

\* What every allocation does: grow if empty, pop the least recently freed
\* block b and count it.
TakeBlock(b) ==
  /\ CanAllocate
  /\ ~IsEmpty(GrownQueue)
  /\ b = First(GrownQueue)
  /\ queue'     = PopLeft(GrownQueue)
  /\ created'   = created + Growth
  /\ allocated' = allocated \cup {b}
  /\ stats'     = [allocated_blocks |-> stats.allocated_blocks + 1,
                   free_blocks |-> (IF Growth = 0 THEN stats.free_blocks
                                                  ELSE GrownQueue.num) - 1]

AllocateBlock(r, b) ==
  /\ TakeBlock(b)
  /\ cached'     = EvictedCached(b)
  /\ block_hash' = [block_hash EXCEPT ![b] = EvictedHash(b)]
  /\ ref_count'  = [ref_count EXCEPT ![b] = 1]
  /\ held'       = [held EXCEPT ![r] = @ \cup {b}]
  /\ fresh'      = fresh \cup {b}

(***************************************************************************)
(* The lazy restore inside get_computed_blocks: hash h is not in memory    *)
(* but is on the SSD, so a block is allocated for it with reference count  *)
(* 0 until a request claims it.                                            *)
(***************************************************************************)
RestoreBlock(h, b) ==
  /\ cached[h] = {}
  /\ TakeBlock(b)
  /\ cached'     = [EvictedCached(b) EXCEPT ![h] = @ \cup {b}]
  /\ block_hash' = [block_hash EXCEPT ![b] = h]
  /\ ref_count'  = [ref_count EXCEPT ![b] = 0]
  /\ UNCHANGED <<held, fresh>>

\* register_block_hash, which store_cache calls for a block it has just
\* allocated and not registered yet.
RegisterBlockHash(r, b, h) ==
  /\ b \in held[r] \cap fresh
  /\ block_hash' = [block_hash EXCEPT ![b] = h]
  /\ cached'     = [cached EXCEPT ![h] = @ \cup {b}]
  /\ fresh'      = fresh \ {b}
  /\ UNCHANGED <<queue, created, ref_count, allocated, held, stats>>

-----------------------------------------------------------------------------
(* Reference counting.                                                     *)

IncrementRef(r, b) ==
  /\ b \in allocated \ (Null \cup fresh)
  /\ b \notin held[r]
  /\ ref_count' = [ref_count EXCEPT ![b] = @ + 1]
  /\ held'      = [held EXCEPT ![r] = @ \cup {b}]
  /\ UNCHANGED <<queue, created, block_hash, allocated, cached, fresh, stats>>

\* Mutant: the block goes back to the free list whoever else holds it.
FreeShared_Recycled(r, b) ==
  /\ b \in held[r] /\ b \in allocated \ Null
  /\ ref_count[b] > 1
  /\ ref_count' = [ref_count EXCEPT ![b] = @ - 1]
  /\ held'      = [held EXCEPT ![r] = @ \ {b}]
  /\ cached'    = EvictedCached(b)
  /\ allocated' = allocated \ {b}
  /\ queue'     = AppendBlock(queue, b)
  /\ stats'     = [allocated_blocks |-> stats.allocated_blocks - 1,
                   free_blocks      |-> stats.free_blocks + 1]
  /\ UNCHANGED <<created, block_hash, fresh>>

\* free_block of a block other references keep.
FreeShared(r, b) ==
  /\ b \in held[r] /\ b \in allocated \ Null
  /\ ref_count[b] > 1
  /\ ref_count' = [ref_count EXCEPT ![b] = @ - 1]
  /\ held'      = [held EXCEPT ![r] = @ \ {b}]
  /\ UNCHANGED <<queue, created, block_hash, allocated, cached, fresh, stats>>

\* Mutant: the block goes back to the free list but stays in the hash map.
FreeLast_KeepCached(r, b) ==
  /\ b \in held[r] /\ b \in allocated \ Null
  /\ ref_count[b] <= 1
  /\ ref_count' = [ref_count EXCEPT ![b] = @ - 1]
  /\ held'      = [held EXCEPT ![r] = @ \ {b}]
  /\ allocated' = allocated \ {b}
  /\ queue'     = AppendBlock(queue, b)
  /\ stats'     = [allocated_blocks |-> stats.allocated_blocks - 1,
                   free_blocks      |-> stats.free_blocks + 1]
  /\ fresh'     = fresh \ {b}
  /\ UNCHANGED <<created, block_hash, cached>>

\* free_block of the last reference: out of the hash map, into the free list
\* at the most recently used end.  The block keeps its hash field.
FreeLast(r, b) ==
  /\ b \in held[r] /\ b \in allocated \ Null
  /\ ref_count[b] <= 1
  /\ ref_count' = [ref_count EXCEPT ![b] = @ - 1]
  /\ held'      = [held EXCEPT ![r] = @ \ {b}]
  /\ cached'    = EvictedCached(b)
  /\ allocated' = allocated \ {b}
  /\ queue'     = AppendBlock(queue, b)
  /\ stats'     = [allocated_blocks |-> stats.allocated_blocks - 1,
                   free_blocks      |-> stats.free_blocks + 1]
  /\ fresh'     = fresh \ {b}
  /\ UNCHANGED <<created, block_hash>>

FreeBlock(r, b) == FreeShared(r, b) \/ FreeLast(r, b)

\* One block of release_for_eviction: the reference goes, the block stays
\* allocated and findable.
ReleaseForEviction(r, b) ==
  /\ b \in held[r] /\ b \in allocated \ Null
  /\ ref_count[b] > 0
  /\ ref_count' = [ref_count EXCEPT ![b] = @ - 1]
  /\ held'      = [held EXCEPT ![r] = @ \ {b}]
  /\ UNCHANGED <<queue, created, block_hash, allocated, cached, fresh, stats>>

\* Mutant: the block is marked allocated but stays in the free list.
Touch_StillFree(r, b) ==
  /\ b \in (1 .. created - 1) \ fresh
  /\ b \notin held[r]
  /\ ref_count' = [ref_count EXCEPT ![b] = @ + 1]
  /\ held'      = [held EXCEPT ![r] = @ \cup {b}]
  /\ IF ref_count[b] = 0 /\ queue.prev[b] # None /\ queue.next[b] # None
     THEN /\ allocated' = allocated \cup {b}
          /\ stats'     = [allocated_blocks |-> stats.allocated_blocks + 1,
                           free_blocks      |-> stats.free_blocks - 1]
     ELSE UNCHANGED <<allocated, stats>>
  /\ UNCHANGED <<queue, created, block_hash, cached, fresh>>

\* touch: a block with no reference is first taken out of the free list when
\* it is there; remove raises RuntimeError otherwise and touch goes on.
Touch(r, b) ==
  /\ b \in (1 .. created - 1) \ fresh
  /\ b \notin held[r]
  /\ ref_count' = [ref_count EXCEPT ![b] = @ + 1]
  /\ held'      = [held EXCEPT ![r] = @ \cup {b}]
  /\ IF ref_count[b] = 0 /\ queue.prev[b] # None /\ queue.next[b] # None
     THEN /\ queue'     = Remove(queue, b)
          /\ allocated' = allocated \cup {b}
          /\ stats'     = [allocated_blocks |-> stats.allocated_blocks + 1,
                           free_blocks      |-> stats.free_blocks - 1]
     ELSE UNCHANGED <<queue, allocated, stats>>
  /\ UNCHANGED <<created, block_hash, cached, fresh>>

\* Mutant: the copy is handed out but the shared block keeps its count.
CowCopy_KeepRef(r, b, n) ==
  /\ b \in held[r] /\ b \in allocated \ fresh
  /\ ref_count[b] > 1
  /\ TakeBlock(n)
  /\ cached'     = EvictedCached(n)
  /\ block_hash' = [block_hash EXCEPT ![n] = block_hash[b]]
  /\ ref_count'  = [ref_count EXCEPT ![n] = 1]
  /\ held'       = [held EXCEPT ![r] = (@ \ {b}) \cup {n}]
  /\ UNCHANGED fresh

\* One shared block of get_blocks_for_generation, with _cow_copy_block: the
\* copy n carries the hash but is not registered under it.
CowCopy(r, b, n) ==
  /\ b \in held[r] /\ b \in allocated \ fresh
  /\ ref_count[b] > 1
  /\ TakeBlock(n)
  /\ cached'     = EvictedCached(n)
  /\ block_hash' = [block_hash EXCEPT ![n] = block_hash[b]]
  /\ ref_count'  = [ref_count EXCEPT ![n] = 1, ![b] = @ - 1]
  /\ held'       = [held EXCEPT ![r] = (@ \ {b}) \cup {n}]
  /\ UNCHANGED fresh

-----------------------------------------------------------------------------
(* Eviction and reset.                                                     *)

\* reconstruct_cache found no data for b: it must not be found again.
ForgetHash(r, b) ==
  /\ b \in held[r]
  /\ block_hash[b] # None
  /\ cached' = EvictedCached(b)
  /\ UNCHANGED <<queue, created, ref_count, block_hash, allocated, held, fresh, stats>>

\* One block of evict_lru_blocks: popped, unregistered, put back at the end.
EvictLruBlock ==
  /\ ~IsEmpty(queue)
  /\ LET b == First(queue) IN
       /\ queue'      = AppendBlock(PopLeft(queue), b)
       /\ cached'     = EvictedCached(b)
       /\ block_hash' = [block_hash EXCEPT ![b] = EvictedHash(b)]
  /\ UNCHANGED <<created, ref_count, allocated, held, fresh, stats>>

\* handle_memory_pressure(n) rotates the free list and reports whether it
\* holds n blocks; rotating does not lengthen it.
HandlesMemoryPressure(n) == queue.num >= n

ResetPrefixCache ==
  /\ MaxBlocks - queue.num <= 1
  /\ cached'     = [h \in Hash |-> {}]
  /\ block_hash' = [b \in Block |-> None]
  /\ UNCHANGED <<queue, created, ref_count, allocated, held, fresh, stats>>

Clear ==
  /\ queue'      = FreshQueue
  /\ created'    = InitialBlocks
  /\ ref_count'  = [b \in Block |-> IF b = NullBlock THEN 1 ELSE 0]
  /\ block_hash' = [b \in Block |-> None]
  /\ allocated'  = Null
  /\ cached'     = [h \in Hash |-> {}]
  /\ held'       = [r \in Request |-> {}]
  /\ fresh'      = {}
  /\ stats'      = FreshStats

-----------------------------------------------------------------------------
Next ==
  \/ \E r \in Request, b \in Block :
       \/ AllocateBlock(r, b)
       \/ IncrementRef(r, b)
       \/ FreeBlock(r, b)
       \/ ReleaseForEviction(r, b)
       \/ Touch(r, b)
       \/ ForgetHash(r, b)
       \/ \E h \in Hash  : RegisterBlockHash(r, b, h)
       \/ \E n \in Block : CowCopy(r, b, n)
  \/ \E h \in Hash, b \in Block : RestoreBlock(h, b)
  \/ EvictLruBlock
  \/ ResetPrefixCache
  \/ Clear

Spec == Init /\ [][Next]_vars

-----------------------------------------------------------------------------
TypeOK ==
  /\ queue \in Queue
  /\ created \in InitialBlocks .. MaxBlocks
  /\ ref_count \in [Block -> Int]
  /\ block_hash \in [Block -> Hash \cup {None}]
  /\ allocated \in SUBSET Block
  /\ cached \in [Hash -> SUBSET Block]
  /\ held \in [Request -> SUBSET Block]
  /\ fresh \in SUBSET Block
  /\ stats \in [allocated_blocks: Int, free_blocks: Int]

\* The free list is an intact list without repetition of exactly the created
\* blocks that are not allocated: none is lost, none is free and in use.
FreeIs(s) ==
  /\ Represents(queue, s)
  /\ {s[i] : i \in 1 .. Len(s)} = (0 .. created - 1) \ allocated

FreeListExact == \E n \in 0 .. MaxBlocks : \E s \in [1 .. n -> Block] : FreeIs(s)

\* A reference count is the number of requests that hold the block, and only
\* allocated blocks are held: no free or recycled block is in a request's table.
Holders(b) == {r \in Request : b \in held[r]}

RefCountExact ==
  \A b \in Block \ Null :
    /\ ref_count[b] = Cardinality(Holders(b))
    /\ b \notin allocated => Holders(b) = {}

\* A cache hit finds an allocated block that still carries the hash looked up.
CachedSound ==
  \A h \in Hash : \A b \in cached[h] : b \in allocated \ Null /\ block_hash[b] = h

\* The counters that get_stats and the admin pages report are the pool's.
StatsExact ==
  /\ stats.free_blocks = queue.num
  /\ stats.allocated_blocks = Cardinality(allocated)

\* What a request's table points to does not change under it: the hash of a
\* held block is written only by its sole holder, before anyone can find it.
WrittenBySoleHolder ==
  [][\A r \in Request : \A b \in held[r] \cap held'[r] :
       block_hash'[b] # block_hash[b] => Holders(b) = {r} /\ b \in fresh]_vars

\* CacheBlock: "ref_count: Reference count for sharing (0 = can be evicted)".
\* A pool with an evictable block can still serve an allocation: store_cache
\* calls handle_memory_pressure(1) when allocate_block fails.
\* TLC refutes it: see "Other disagreements" in the README.
EvictableIsReclaimable ==
  (\E b \in (1 .. created - 1) : ref_count[b] = 0)
    => CanAllocate \/ HandlesMemoryPressure(1)
=============================================================================
