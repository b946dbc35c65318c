----------------------------- MODULE PrefixCache -----------------------------
(***************************************************************************)
(* BlockAwarePrefixCache of omlx/cache/prefix_cache.py over the block pool *)
(* of PagedCache, as the scheduler uses it: add_request fetches the blocks *)
(* of a prompt and rebuilds their KV from the SSD, a finished request      *)
(* stores its blocks, every exit releases them.                            *)
(*                                                                         *)
(* All calls run on the executor thread, one after the other, so job is    *)
(* the call under way; each of its steps is one call to the pool, that is, *)
(* one action of PagedCache.  Only the SSD cache acts in between.          *)
(*                                                                         *)
(* Tokens are abstracted to units: a unit is one full block of tokens with *)
(* the extra key its request hashes with (the image of a vision prompt).   *)
(* compute_block_hash chains a block to its parents and SHA-256 does not   *)
(* collide, so a hash is the sequence of units it was computed from.       *)
(***************************************************************************)
EXTENDS PagedCache

Ext == INSTANCE SequencesExt

CONSTANTS
  Token,    \* what a full block of tokens can say
  Image,    \* extra keys, NoImage for text
  NoImage,
  Prompts,  \* [units |-> sequence of units, tail |-> further tokens follow]
  Models,   \* values of stateful
  MaxTrouble \* bound: blocks lost or refused, saves that fail, snapshots lost

Unit == [token: Token, image: Image]

\* The hashes a lookup can compute.
LookedUp(prompts) == (UNION {Ext!Prefixes(p.units) : p \in prompts}) \ {<< >>}

ASSUME PrefixAssumption ==
  /\ NoImage \in Image
  /\ Models \subseteq BOOLEAN /\ Models # {}
  /\ \A p \in Prompts : p.units \in Seq(Unit) /\ p.tail \in BOOLEAN
  \* One extra key goes with every block of a request.
  /\ \A p \in Prompts : \A i, j \in DOMAIN p.units : p.units[i].image = p.units[j].image
  /\ LookedUp(Prompts) \subseteq Hash /\ Hash \subseteq Seq(Unit)
  /\ None \notin Seq(Unit)
  /\ MaxTrouble \in Nat

VARIABLES
  prefix_index, \* _prefix_index: hash -> block ids, << >> when it has no entry
  files,        \* SSD cache: what is stored under a hash
  stateful,     \* some layers' cache cannot be sliced (Rotating, Arrays)
  stage,        \* where each request is
  prompt,       \* its prompt
  table,        \* block_ids of its BlockTable
  loaded,       \* data its KV was rebuilt from, one entry per block
  by_index,     \* requests whose blocks were found through prefix_index only
  job,          \* the call under way
  trouble       \* how much of MaxTrouble has happened

prefixVars == <<vars, prefix_index, files, stateful, stage, prompt, table, loaded,
                by_index, job, trouble>>

\* What a block file holds: the KV of the last block of the sequence kv, and
\* for a stateful model the layer state after the sequence at, or no state
\* but a placeholder (at = << >>).  beyond: taken after still more tokens.
Data == [kv: Seq(Unit), at: Seq(Unit), beyond: BOOLEAN]

Never == [kv |-> << >>, at |-> << >>, beyond |-> FALSE]  \* nothing was ever saved
Gone  == [kv |-> << >>, at |-> << >>, beyond |-> TRUE]   \* evicted or unreadable

OnDisk(h) == files[h].kv # << >>

Idle == [at |-> "idle"]

NoPrompt == [units |-> << >>, tail |-> FALSE]

PrefixInit ==
  /\ Init
  /\ prefix_index = [h \in Hash |-> << >>]
  /\ files  = [h \in Hash |-> Never]
  /\ stateful \in Models
  /\ stage  = [r \in Request |-> "none"]
  /\ prompt = [r \in Request |-> NoPrompt]
  /\ table  = [r \in Request |-> << >>]
  /\ loaded = [r \in Request |-> << >>]
  /\ by_index = {}
  /\ job    = Idle
  /\ trouble = 0

\* Something goes wrong, as often as the bound allows.
Trouble == trouble < MaxTrouble /\ trouble' = trouble + 1

Units(r) == prompt[r].units

-----------------------------------------------------------------------------
(* fetch_cache, called by Scheduler.add_request.                           *)

FetchBegins(r, p) ==
  /\ job = Idle /\ stage[r] = "none"
  /\ stage'  = [stage EXCEPT ![r] = "adding"]
  /\ prompt' = [prompt EXCEPT ![r] = p]
  /\ job'    = [at |-> "lookup", r |-> r, found |-> << >>]
  /\ UNCHANGED <<vars, prefix_index, files, stateful, table, loaded, by_index, trouble>>

\* The hash get_computed_blocks computes for the last block of the units s.
LookupHash(s) == s

\* The hash of the next block the lookup tries.
NextHash == LookupHash(SubSeq(Units(job.r), 1, Len(job.found) + 1))

Looking == job.at = "lookup" /\ Len(job.found) < Len(Units(job.r))

LookupFinds(b) ==
  /\ Looking
  /\ b \in cached[NextHash]
  /\ job' = [job EXCEPT !.found = Append(@, b)]
  /\ UNCHANGED <<vars, prefix_index, files, stateful, stage, prompt, table, loaded,
                 by_index, trouble>>

\* Mutant: the restored block keeps the reference of its allocation.
LookupRestores_KeepsRef(b) ==
  /\ Looking
  /\ OnDisk(NextHash)
  /\ cached[NextHash] = {}
  /\ TakeBlock(b)
  /\ cached'     = [EvictedCached(b) EXCEPT ![NextHash] = @ \cup {b}]
  /\ block_hash' = [block_hash EXCEPT ![b] = NextHash]
  /\ ref_count'  = [ref_count EXCEPT ![b] = 1]
  /\ job' = [job EXCEPT !.found = Append(@, b)]
  /\ UNCHANGED <<held, fresh, prefix_index, files, stateful, stage, prompt, table, loaded,
                 by_index, trouble>>

\* The lazy restore: the block is not in memory but on the SSD.
LookupRestores(b) ==
  /\ Looking
  /\ OnDisk(NextHash)
  /\ RestoreBlock(NextHash, b)
  /\ job' = [job EXCEPT !.found = Append(@, b)]
  /\ UNCHANGED <<prefix_index, files, stateful, stage, prompt, table, loaded, by_index,
                 trouble>>

LookupEnds ==
  /\ job.at = "lookup"
  /\ Looking => /\ cached[NextHash] = {}
                /\ ~(OnDisk(NextHash) /\ CanAllocate)

\* _find_best_prefix_match: the longest prefix the index has an entry for that
\* was made at the same length.
IndexMatch(units) ==
  LET known == {i \in 1 .. Len(units) : Len(prefix_index[SubSeq(units, 1, i)]) = i}
  IN  IF known = {} THEN << >>
      ELSE prefix_index[SubSeq(units, 1, Ext!Max(known))]

\* Blocks were found: the request's table will share them.
LookupHits ==
  /\ LookupEnds
  /\ job.found # << >>
  /\ job' = [job EXCEPT !.at = "share"]
  /\ UNCHANGED <<vars, prefix_index, files, stateful, stage, prompt, table, loaded,
                 by_index, trouble>>

LookupFallsBack ==
  /\ LookupEnds
  /\ job.found = << >>
  /\ LET match == IndexMatch(Units(job.r)) IN
       IF match = << >>
       THEN /\ stage' = [stage EXCEPT ![job.r] = "queued"]
            /\ job'   = Idle
            /\ UNCHANGED by_index
       ELSE /\ job'   = [at |-> "share", r |-> job.r, found |-> match]
            /\ by_index' = by_index \cup {job.r}
            /\ UNCHANGED stage
  /\ UNCHANGED <<vars, prefix_index, files, stateful, prompt, table, loaded, trouble>>

\* increment_ref of the blocks found; one that is not allocated is skipped.
Share ==
  /\ job.at = "share" /\ job.found # << >>
  /\ LET b == Head(job.found) IN
       IF b \in allocated
       THEN /\ IncrementRef(job.r, b)
            /\ table' = [table EXCEPT ![job.r] = Append(@, b)]
       ELSE UNCHANGED <<vars, table>>
  /\ job' = [job EXCEPT !.found = Tail(@)]
  /\ UNCHANGED <<prefix_index, files, stateful, stage, prompt, loaded, by_index, trouble>>

-----------------------------------------------------------------------------
(* reconstruct_cache, and what add_request does with its result.           *)

Loads(b) == block_hash[b] # None /\ OnDisk(block_hash[b])

\* Mutant: placeholders are taken for states.
HasState_Any(data) == TRUE

\* _is_placeholder_state, negated.
HasState(data) == ~stateful \/ data.at # << >>

\* _find_walk_back_truncation_point: the longest prefix of the loaded data
\* that ends in a block with a layer state, 0 when there is none.
WalkBack(data) ==
  LET usable == {i \in DOMAIN data : HasState(data[i])}
  IN  IF usable = {} THEN 0 ELSE Ext!Max(usable)

\* An exact hit leaves no token to start generation from.  A sliceable cache
\* is trimmed by one token; a stateful one is given up and the table deleted.
GivenUp(r, n) == stateful /\ n = Len(Units(r)) /\ ~prompt[r].tail

\* Mutant: the blocks walked back over are cut off the table but not freed.
ToFree_Unloaded(s, n, keep) == SubSeq(s, n + 1, Len(s))

\* The blocks to free when n of the table's blocks load and keep are kept:
\* those that did not load, then those walked back over or given up.
ToFree(s, n, keep) == SubSeq(s, n + 1, Len(s)) \o SubSeq(s, keep + 1, n)

\* How many blocks are used of those that loaded: up to the last layer state, and
\* none when the data of a layer, of whatever type, cannot be put together.
Kept(r, data, rebuilt) ==
  IF GivenUp(r, WalkBack(data)) \/ ~rebuilt THEN 0 ELSE WalkBack(data)

\* n blocks load.  When the next one does not, because it has no file or one
\* that cannot be read, it is taken out of the hash map; when it is refused
\* (other model, layers, shapes) it stays there.  When a layer cannot be rebuilt
\* or trimmed nothing is kept.
Reconstruct(n, refused, rebuilt) ==
  /\ job.at = "share" /\ job.found = << >> /\ table[job.r] # << >>
  /\ LET r    == job.r
         s    == table[r]
         data == [i \in 1 .. n |-> files[block_hash[s[i]]]]
         keep == Kept(r, data, rebuilt)
     IN  /\ n <= Len(s)
         /\ \A i \in 1 .. n : Loads(s[i])
         /\ refused => n < Len(s) /\ Loads(s[n + 1])
         /\ IF (n < Len(s) /\ Loads(s[n + 1])) \/ (~rebuilt /\ WalkBack(data) > 0)
            THEN Trouble ELSE rebuilt /\ UNCHANGED trouble
         /\ IF n = Len(s) \/ refused \/ block_hash[s[n + 1]] = None
            THEN UNCHANGED <<vars, files>>
            ELSE /\ ForgetHash(r, s[n + 1])
                 /\ files' = [files EXCEPT ![block_hash[s[n + 1]]] =
                                IF @ = Never THEN Never ELSE Gone]
         /\ table'  = [table EXCEPT ![r] = SubSeq(@, 1, keep)]
         /\ loaded' = [loaded EXCEPT ![r] = SubSeq(data, 1, keep)]
         /\ job'    = [at |-> "drop", r |-> r, blocks |-> ToFree(s, n, keep)]
  /\ UNCHANGED <<prefix_index, stateful, stage, prompt, by_index>>

\* No block of the index entry is allocated: an empty table, no KV.
FetchEmpty ==
  /\ job.at = "share" /\ job.found = << >> /\ table[job.r] = << >>
  /\ stage' = [stage EXCEPT ![job.r] = "queued"]
  /\ job'   = Idle
  /\ UNCHANGED <<vars, prefix_index, files, stateful, prompt, table, loaded, by_index,
                 trouble>>

\* free_block of a dropped block.
Drop ==
  /\ job.at = "drop" /\ job.blocks # << >>
  /\ FreeBlock(job.r, Head(job.blocks))
  /\ job' = [job EXCEPT !.blocks = Tail(@)]
  /\ UNCHANGED <<prefix_index, files, stateful, stage, prompt, table, loaded, by_index,
                 trouble>>

Queued ==
  /\ job.at = "drop" /\ job.blocks = << >>
  /\ stage' = [stage EXCEPT ![job.r] = "queued"]
  /\ job'   = Idle
  /\ UNCHANGED <<vars, prefix_index, files, stateful, prompt, table, loaded, by_index,
                 trouble>>

-----------------------------------------------------------------------------
(* store_cache, called when a request finishes.                            *)

\* The units the KV of r's first i blocks was computed from: what was loaded,
\* then the request's own tokens.
Computed(r, i) ==
  LET k == Len(loaded[r]) IN
    IF i <= k THEN loaded[r][i].kv
    ELSE (IF k = 0 THEN << >> ELSE loaded[r][k].kv) \o SubSeq(Units(r), k + 1, i)

\* What r was given is the KV of its own tokens, with the state after them.
OwnData(r) ==
  /\ \A i \in DOMAIN loaded[r] : loaded[r][i].kv = SubSeq(Units(r), 1, i)
  /\ stateful /\ loaded[r] # << >> =>
       Ext!Last(loaded[r]).at = SubSeq(Units(r), 1, Len(loaded[r]))

\* The state is of a later position than the KV.
StateBeyond(r) == stateful /\ loaded[r] # << >> /\ Ext!Last(loaded[r]).beyond

Own(r) == OwnData(r) /\ ~StateBeyond(r)

\* _get_boundary_store_override: the layer states captured at the boundaries
\* in snaps can be loaded, and the request is stored up to the last of them.
\* Without any (none captured, or the last one cannot be loaded back) all of
\* the sequence is stored with the state at its end; more: it then ends
\* beyond its last full block.  Own(r): a request that was served another's KV
\* is not followed further than to its exit.
StoreBegins(r, snaps, more) ==
  /\ job = Idle /\ stage[r] = "queued" /\ Own(r)
  /\ snaps \subseteq Len(loaded[r]) + 1 .. Len(Units(r))
  /\ snaps # {} => stateful
  /\ LET lost == stateful /\ snaps = {} /\ Len(table[r]) < Len(Units(r)) IN
       /\ more => lost
       /\ IF lost THEN Trouble ELSE UNCHANGED trouble
  /\ job' = [at |-> "store", r |-> r, snaps |-> snaps, more |-> more,
             end |-> IF snaps = {} THEN Len(Units(r))
                     ELSE Ext!Max(snaps)]
  /\ UNCHANGED <<vars, prefix_index, files, stateful, stage, prompt, table, loaded,
                 by_index>>

Storing == job.at = "store" /\ Len(table[job.r]) < job.end

NextUnit == Units(job.r)[Len(table[job.r]) + 1]

ParentHash(s) ==
  IF s = << >> \/ block_hash[Ext!Last(s)] = None THEN << >> ELSE block_hash[Ext!Last(s)]

\* store_cache looks for a block to share without the extra key.
ShareHash == Append(ParentHash(table[job.r]), [NextUnit EXCEPT !.image = NoImage])

StoreShares(b) ==
  /\ Storing
  /\ b \in cached[ShareHash]
  /\ IncrementRef(job.r, b)
  /\ table' = [table EXCEPT ![job.r] = Append(@, b)]
  /\ UNCHANGED <<prefix_index, files, stateful, stage, prompt, loaded, by_index, job,
                 trouble>>

StoreAllocates(b) ==
  /\ Storing
  /\ cached[ShareHash] = {}
  /\ AllocateBlock(job.r, b)
  /\ job' = [job EXCEPT !.at = "register"]
  /\ table' = [table EXCEPT ![job.r] = Append(@, b)]
  /\ UNCHANGED <<prefix_index, files, stateful, stage, prompt, loaded, by_index, trouble>>

StoreRegisters ==
  /\ job.at = "register"
  /\ LET s == table[job.r] IN
       RegisterBlockHash(job.r, Ext!Last(s),
         Append(ParentHash(Ext!Front(s)), Units(job.r)[Len(s)]))
  /\ job' = [job EXCEPT !.at = "save"]
  /\ UNCHANGED <<prefix_index, files, stateful, stage, prompt, table, loaded, by_index,
                 trouble>>

\* Mutant: the KV is sliced from the start of the new tokens, although the
\* request's KV starts with the reused prefix.
SliceOf_Relative(r, i) == Computed(r, i - Len(loaded[r]))

\* The KV range that is cut out of the request's KV for its block i.
SliceOf(r, i) == Computed(r, i)

\* The state that goes into block i: that of a layer which cannot be sliced is known
\* at the end and at boundaries with a snapshot; elsewhere it is a placeholder.
StateOf(r, i) ==
  IF ~stateful \/ i = job.end \/ i \in job.snaps THEN Computed(r, i) ELSE << >>

\* _extract_block_tensor_slice for the last block of the table.
BlockData ==
  LET i == Len(table[job.r])
  IN  [kv     |-> SliceOf(job.r, i),
       at     |-> StateOf(job.r, i),
       beyond |-> stateful /\ i = job.end /\ job.more]

\* save_block answers True without writing when the hash is on the SSD.
StoreSaves ==
  /\ job.at = "save"
  /\ LET h == block_hash[Ext!Last(table[job.r])] IN
       files' = IF OnDisk(h) THEN files ELSE [files EXCEPT ![h] = BlockData]
  /\ job' = [job EXCEPT !.at = "store"]
  /\ UNCHANGED <<vars, prefix_index, stateful, stage, prompt, table, loaded, by_index,
                 trouble>>

\* The slice cannot be cut or saved: the block is taken back.
StoreFails ==
  /\ job.at = "save" /\ Trouble
  /\ FreeBlock(job.r, Ext!Last(table[job.r]))
  /\ table' = [table EXCEPT ![job.r] = Ext!Front(@)]
  /\ job' = [job EXCEPT !.at = "store", !.end = Len(table[job.r]) - 1]
  /\ UNCHANGED <<prefix_index, files, stateful, stage, prompt, loaded, by_index>>

\* The entry of _update_prefix_index for the hash of the table's block i.
IndexEntry(h, old, s) ==
  LET named == {i \in DOMAIN s : block_hash[s[i]] = h}
  IN  IF named = {} THEN old
      ELSE SubSeq(s, 1, Ext!Max(named))

\* All blocks are stored, or the next one cannot be: the index learns
\* the table.
StoreEnds ==
  /\ job.at = "store"
  /\ Storing => cached[ShareHash] = {} /\ ~CanAllocate
  /\ prefix_index' = [h \in Hash |-> IndexEntry(h, prefix_index[h], table[job.r])]
  /\ job' = [at |-> "release", r |-> job.r, blocks |-> table[job.r]]
  /\ UNCHANGED <<vars, files, stateful, stage, prompt, table, loaded, by_index, trouble>>

-----------------------------------------------------------------------------
(* Every exit: release_for_eviction of the table, clear_request_entry.     *)

\* An abort, or a finish with no KV or no new tokens to store.
ExitBegins(r) ==
  /\ job = Idle /\ stage[r] = "queued"
  /\ job' = [at |-> "release", r |-> r, blocks |-> table[r]]
  /\ UNCHANGED <<vars, prefix_index, files, stateful, stage, prompt, table, loaded,
                 by_index, trouble>>

Release ==
  /\ job.at = "release" /\ job.blocks # << >>
  /\ ReleaseForEviction(job.r, Head(job.blocks))
  /\ job' = [job EXCEPT !.blocks = Tail(@)]
  /\ UNCHANGED <<prefix_index, files, stateful, stage, prompt, table, loaded, by_index,
                 trouble>>

\* The request's table and entry go; request ids are not used again.
Exit ==
  /\ job.at = "release" /\ job.blocks = << >>
  /\ stage'  = [stage EXCEPT ![job.r] = "none"]
  /\ prompt' = [prompt EXCEPT ![job.r] = NoPrompt]
  /\ table'  = [table EXCEPT ![job.r] = << >>]
  /\ loaded' = [loaded EXCEPT ![job.r] = << >>]
  /\ by_index' = by_index \ {job.r}
  /\ job'    = Idle
  /\ UNCHANGED <<vars, prefix_index, files, stateful, trouble>>

-----------------------------------------------------------------------------
(* The SSD cache and restarts.                                             *)

\* The SSD cache evicts a block, or loses its file.
Forget(h) ==
  /\ job = Idle
  /\ OnDisk(h) /\ Trouble
  /\ files' = [files EXCEPT ![h] = Gone]
  /\ UNCHANGED <<vars, prefix_index, stateful, stage, prompt, table, loaded, by_index, job>>

\* clear(), and a restart of the server: the files stay.  The tables of queued
\* requests outlive a clear(); that is the subject of Scheduler.
ClearAll ==
  /\ job = Idle
  /\ \A r \in Request : stage[r] = "none"
  /\ Clear
  /\ prefix_index' = [h \in Hash |-> << >>]
  /\ UNCHANGED <<files, stateful, stage, prompt, table, loaded, by_index, job, trouble>>

PrefixNext ==
  \/ \E r \in Request, p \in Prompts : FetchBegins(r, p)
  \/ \E b \in Block : LookupFinds(b) \/ LookupRestores(b)
  \/ LookupHits \/ LookupFallsBack \/ Share \/ FetchEmpty
  \/ \E n \in 0 .. MaxBlocks, refused, rebuilt \in BOOLEAN : Reconstruct(n, refused, rebuilt)
  \/ Drop \/ Queued
  \/ \E r \in Request, more \in BOOLEAN :
       \E snaps \in SUBSET (1 .. Len(Units(r))) : StoreBegins(r, snaps, more)
  \/ \E b \in Block : StoreShares(b) \/ StoreAllocates(b)
  \/ StoreRegisters \/ StoreSaves \/ StoreFails \/ StoreEnds
  \/ \E r \in Request : ExitBegins(r)
  \/ Release \/ Exit
  \/ \E h \in Hash : Forget(h)
  \/ ClearAll

PrefixSpec == PrefixInit /\ [][PrefixNext]_prefixVars

-----------------------------------------------------------------------------
Fetch == [at : {"lookup", "share"}, r : Request, found : Seq(Block)]
Store == [at : {"store", "register", "save"}, r : Request, snaps : SUBSET Nat,
          more : BOOLEAN, end : Nat]
Free  == [at : {"drop", "release"}, r : Request, blocks : Seq(Block)]
Job   == {Idle} \cup Fetch \cup Store \cup Free

\* store_cache stays within the sequence it stores.
StoreFits ==
  job \in Store =>
    /\ job.end <= Len(Units(job.r))
    /\ job.at # "store" => Len(table[job.r]) \in 1 .. Len(Units(job.r))

PrefixTypeOK ==
  /\ prefix_index \in [Hash -> Seq(Block)]
  /\ files \in [Hash -> Data]
  /\ stateful \in BOOLEAN
  /\ stage \in [Request -> {"none", "adding", "queued"}]
  /\ prompt \in [Request -> Prompts \cup {NoPrompt}]
  /\ table \in [Request -> Seq(Block)]
  /\ loaded \in [Request -> Seq(Data)]
  /\ by_index \subseteq {r \in Request : stage[r] # "none"}
  /\ job \in Job /\ StoreFits
  /\ trouble \in 0 .. MaxTrouble
  /\ \A r \in Request :
       /\ Len(loaded[r]) <= Len(table[r])
       /\ stage[r] = "none" => table[r] = << >>

\* The pool is only ever used the way PagedCache says: what is proved of the
\* pool for every client holds under the prefix cache.
ImplementsPool == Spec

\* Between calls, the references in the pool are those of the tables: no exit,
\* cut, rollback or walk back leaks one or gives one back twice.
TablesHoldRefs ==
  job = Idle =>
    \A b \in Block \ Null :
      ref_count[b] = Cardinality({e \in Request \X (1 .. MaxBlocks) :
                        e[2] \in DOMAIN table[e[1]] /\ table[e[1]][e[2]] = b})

\* A file holds the KV of the tokens its name was hashed from, for every hash
\* a prompt can look up; a state in it is the one after exactly these tokens,
\* unless the snapshot for it was lost.
FilesTellTheTruth ==
  \A h \in LookedUp(Prompts) : OnDisk(h) =>
    /\ files[h].kv = h
    /\ stateful => files[h].at \in {h, << >>}

\* Between calls, a lookup finds only blocks whose data was saved at some time.
FoundWasSaved ==
  job = Idle => \A h \in Hash : cached[h] # {} => files[h] # Never

\* What a hash finds is there, and is what the hash says.
FilesTrustworthy == PrefixTypeOK /\ FilesTellTheTruth /\ FoundWasSaved

\* A request whose blocks the hash map or the SSD named starts from the KV of
\* its own prompt and image, and from a layer state after the same tokens.
ServedByHashIsOwn ==
  \A r \in Request : stage[r] = "queued" /\ r \notin by_index => OwnData(r)

\* The KV a request starts from is that of its own prompt.
ServedOwnPrompt == \A r \in Request : stage[r] = "queued" => Own(r)
=============================================================================
