-------------------------- MODULE PrefixCacheProofs --------------------------
(***************************************************************************)
(* The prefix cache implements the block pool: every step of PrefixCache   *)
(* is a step of PagedCache or leaves the pool alone, so what               *)
(* PagedCacheProofs proves of the pool for every client holds under the    *)
(* prefix cache.  PrefixInv is what the calls need for it: requests that   *)
(* exist, tables of blocks, and hashes the pool knows.                     *)
(*                                                                         *)
(* Upon it rest, one invariant on the other, who holds which reference     *)
(* (RefsInv), how much each request has loaded (FitsInv), that what can be *)
(* found was saved (SavedInv), and that names tell what files and requests *)
(* hold (TruthInv).  There is one lemma per action for each of them.       *)
(***************************************************************************)
EXTENDS PrefixCache, PagedCacheProofs

\* A hash exists for every sequence of units, as SHA-256 gives one.
HashesClosed == \A h \in Hash \cup {<< >>}, u \in Unit : Append(h, u) \in Hash

ClientInv ==
  /\ prefix_index \in [Hash -> Seq(Block)]
  /\ prompt \in [Request -> Prompts \cup {NoPrompt}]
  /\ table \in [Request -> Seq(Block)]
  /\ job \in Job /\ StoreFits

PrefixInv == Inv /\ ClientInv

PoolStep == [Next]_vars

-----------------------------------------------------------------------------
LEMMA MaxExists ==
  ASSUME NEW n \in Nat, NEW S \in SUBSET (1 .. n), S # {}
  PROVE  Ext!Max(S) \in S
<1>. DEFINE T == {n - k : k \in S}
<1>1. /\ T \in SUBSET Nat
      /\ T # {}
  <2>1. \A k \in S : n - k \in Nat
    OBVIOUS
  <2>2. T \subseteq Nat
    BY <2>1, Zenon
  <2>3. PICK k \in S : TRUE
    OBVIOUS
  <2>4. n - k \in T
    BY Zenon
  <2>. QED
    BY <2>2, <2>4, Zenon
<1>. HIDE DEF T
<1>2. PICK t \in T : \A u \in T : ~(<<u, t>> \in OpToRel(<, Nat))
  BY <1>1, WFMin, NatLessThanWellFounded
<1>3. \A u \in T : ~(u < t)
  BY <1>1, <1>2 DEF OpToRel
<1>4. PICK m \in S : t = n - m
  BY DEF T
<1>5. ASSUME NEW k \in S PROVE m >= k
  <2>1. n - k \in T
    BY DEF T
  <2>. QED
    BY <1>3, <1>4, <2>1
<1>. QED
  BY <1>4, <1>5 DEF Ext!Max

\* The actions of the pool that the prefix cache uses are steps of the pool.
LEMMA PoolActions ==
  /\ UNCHANGED vars => PoolStep
  /\ \A r \in Request, b \in Block :
       AllocateBlock(r, b) \/ IncrementRef(r, b) \/ FreeBlock(r, b) => PoolStep
  /\ \A r \in Request, b \in Block :
       ReleaseForEviction(r, b) \/ ForgetHash(r, b) => PoolStep
  /\ \A r \in Request, b \in Block, h \in Hash : RegisterBlockHash(r, b, h) => PoolStep
  /\ \A h \in Hash, b \in Block : RestoreBlock(h, b) => PoolStep
  /\ Clear => PoolStep
BY DEF PoolStep, Next

\* Only blocks are held and allocated.
LEMMA BlocksOnly ==
  ASSUME PrefixInv
  PROVE  /\ \A r \in Request : held[r] \subseteq Block
         /\ allocated \subseteq Block
         /\ \A h \in Hash : cached[h] \subseteq Block
         /\ block_hash \in [Block -> Hash \cup {None}]
BY DEF PrefixInv, Inv, TypeOK

\* The names a lookup can compute.
Names == LookedUp(Prompts)

\* The units of a request, and the name each prefix of them gives its block.
LEMMA PrefixNamed ==
  ASSUME prompt \in [Request -> Prompts \cup {NoPrompt}], NEW r \in Request
  PROVE  /\ Units(r) \in Seq(Unit) /\ Len(Units(r)) \in Nat
         /\ \A i, j \in 1 .. Len(Units(r)) : Units(r)[i].image = Units(r)[j].image
         /\ \A i \in 1 .. Len(Units(r)) : SubSeq(Units(r), 1, i) \in Names
<1>1. CASE prompt[r] = NoPrompt
  <2>1. Units(r) = << >>
    BY <1>1 DEF NoPrompt, Units
  <2>. QED
    BY <2>1
<1>2. CASE prompt[r] \in Prompts
  <2>1. /\ Units(r) \in Seq(Unit)
        /\ \A i, j \in DOMAIN Units(r) : Units(r)[i].image = Units(r)[j].image
    BY <1>2, PrefixAssumption DEF Units
  <2>2. ASSUME NEW i \in 1 .. Len(Units(r)) PROVE SubSeq(Units(r), 1, i) \in Names
    <3>1. SubSeq(Units(r), 1, i) # << >>
      BY <2>1
    <3>2. SubSeq(Units(r), 1, i) \in Ext!Prefixes(Units(r))
      BY <2>1 DEF Ext!Prefixes
    <3>3. Ext!Prefixes(Units(r)) \in {Ext!Prefixes(p.units) : p \in Prompts}
      BY <1>2, Zenon DEF Units
    <3>4. SubSeq(Units(r), 1, i) \in UNION {Ext!Prefixes(p.units) : p \in Prompts}
      BY <3>2, <3>3, Zenon
    <3>. QED
      BY <3>1, <3>4 DEF LookedUp, Names
  <2>. QED
    BY <2>1, <2>2
<1>. QED
  BY <1>1, <1>2

\* The hashes a lookup computes are hashes of the pool.
LEMMA UnitHashes ==
  ASSUME PrefixInv, NEW r \in Request
  PROVE  /\ Units(r) \in Seq(Unit) /\ Len(Units(r)) \in Nat
         /\ \A i \in 1 .. Len(Units(r)) : SubSeq(Units(r), 1, i) \in Hash
BY PrefixNamed, PrefixAssumption DEF PrefixInv, ClientInv, Names

\* What kind of call is under way.
LEMMA JobKinds ==
  ASSUME PrefixInv
  PROVE  /\ job.at \in {"lookup", "share"} => job \in Fetch
         /\ job.at \in {"drop", "release"} => job \in Free
         /\ job.at \in {"store", "register", "save"} => job \in Store
BY DEF PrefixInv, ClientInv, Job, Idle, Fetch, Store, Free

\* The kinds of jobs are apart.
LEMMA NotStored == Fetch \cap Store = {} /\ Free \cap Store = {} /\ Idle \notin Store
<1>1. \A j \in Store : j.at \in {"store", "register", "save"}
  BY DEF Store
<1>2. \A j \in Fetch : j.at \in {"lookup", "share"}
  BY DEF Fetch
<1>3. \A j \in Free : j.at \in {"drop", "release"}
  BY DEF Free
<1>4. Idle.at = "idle"
  BY DEF Idle
<1>. QED
  BY <1>1, <1>2, <1>3, <1>4

\* A step after which no block is being stored.
LEMMA NotStoring ==
  ASSUME PrefixInv, job' \in {Idle} \cup Fetch \cup Free,
         table' \in [Request -> Seq(Block)],
         prompt' \in [Request -> Prompts \cup {NoPrompt}],
         UNCHANGED prefix_index
  PROVE  ClientInv'
BY NotStored DEF PrefixInv, ClientInv, Job, StoreFits

LEMMA Updates ==
  /\ \A j \in Fetch, f \in Seq(Block) : [j EXCEPT !.found = f] \in Fetch
  /\ \A j \in Fetch : [j EXCEPT !.at = "share"] \in Fetch
  /\ \A j \in Free, f \in Seq(Block) : [j EXCEPT !.blocks = f] \in Free
<1>1. ASSUME NEW j \in Fetch, NEW f \in Seq(Block) PROVE [j EXCEPT !.found = f] \in Fetch
  BY DEF Fetch
<1>2. ASSUME NEW j \in Fetch PROVE [j EXCEPT !.at = "share"] \in Fetch
  <2>. DEFINE A == {"lookup", "share"}
  <2>1. "share" \in A /\ j \in [at : A, r : Request, found : Seq(Block)]
    BY DEF Fetch
  <2>. HIDE DEF A
  <2>2. [j EXCEPT !.at = "share"] \in [at : A, r : Request, found : Seq(Block)]
    BY <2>1
  <2>. QED
    BY <2>2 DEF A, Fetch
<1>3. ASSUME NEW j \in Free, NEW f \in Seq(Block) PROVE [j EXCEPT !.blocks = f] \in Free
  BY DEF Free
<1>. QED
  BY <1>1, <1>2, <1>3

-----------------------------------------------------------------------------
(* fetch_cache.                                                            *)

LEMMA FetchStep ==
  ASSUME PrefixInv,
         \/ \E r \in Request, p \in Prompts : FetchBegins(r, p)
         \/ \E b \in Block : LookupFinds(b)
         \/ LookupHits
  PROVE  PoolStep /\ ClientInv'
<1>1. ASSUME NEW r \in Request, NEW p \in Prompts, FetchBegins(r, p) PROVE PoolStep /\ ClientInv'
  <2>1. UNCHANGED <<vars, prefix_index, table>> /\ prompt' = [prompt EXCEPT ![r] = p]
        /\ job' = [at |-> "lookup", r |-> r, found |-> << >>]
    BY <1>1 DEF FetchBegins
  <2>2. job' \in Fetch
    BY <2>1 DEF Fetch
  <2>3. prompt' \in [Request -> Prompts \cup {NoPrompt}]
    BY <2>1 DEF PrefixInv, ClientInv
  <2>. QED
    BY <2>1, <2>2, <2>3, PoolActions, NotStoring DEF PrefixInv, ClientInv
<1>2. ASSUME NEW b \in Block, LookupFinds(b) PROVE PoolStep /\ ClientInv'
  <2>1. UNCHANGED <<vars, prefix_index, table, prompt>> /\ job.at = "lookup"
        /\ job' = [job EXCEPT !.found = Append(job.found, b)]
    BY <1>2 DEF LookupFinds, Looking
  <2>2. job \in Fetch /\ Append(job.found, b) \in Seq(Block)
    BY <2>1, JobKinds DEF Fetch
  <2>3. job' \in Fetch
    BY <2>1, <2>2, Updates
  <2>. QED
    BY <2>1, <2>3, PoolActions, NotStoring DEF PrefixInv, ClientInv
<1>3. CASE LookupHits
  <2>1. UNCHANGED <<vars, prefix_index, table, prompt>> /\ job.at = "lookup"
        /\ job' = [job EXCEPT !.at = "share"]
    BY <1>3 DEF LookupHits, LookupEnds
  <2>2. job' \in Fetch
    BY <2>1, JobKinds, Updates
  <2>. QED
    BY <2>1, <2>2, PoolActions, NotStoring DEF PrefixInv, ClientInv
<1>. QED
  BY <1>1, <1>2, <1>3

LEMMA RestoresStep ==
  ASSUME PrefixInv, NEW b \in Block, LookupRestores(b)
  PROVE  PoolStep /\ ClientInv'
<1>1. UNCHANGED <<prefix_index, table, prompt>> /\ job.at = "lookup" /\ RestoreBlock(NextHash, b)
      /\ Len(job.found) < Len(Units(job.r))
      /\ job' = [job EXCEPT !.found = Append(job.found, b)]
  BY DEF LookupRestores, Looking
<1>2. job \in Fetch /\ Append(job.found, b) \in Seq(Block)
  BY <1>1, JobKinds DEF Fetch
<1>3. job.r \in Request /\ Len(job.found) \in Nat
  BY <1>2 DEF Fetch
<1>4. Len(job.found) + 1 \in 1 .. Len(Units(job.r))
  BY <1>1, <1>3, UnitHashes
<1>5. NextHash \in Hash
  BY <1>3, <1>4, UnitHashes DEF NextHash, LookupHash
<1>6. job' \in Fetch
  BY <1>1, <1>2, Updates
<1>. QED
  BY <1>1, <1>5, <1>6, PoolActions, NotStoring DEF PrefixInv, ClientInv

LEMMA FallsBackStep ==
  ASSUME PrefixInv, LookupFallsBack
  PROVE  PoolStep /\ ClientInv'
<1>. DEFINE u == Units(job.r)
            match == IndexMatch(u)
<1>1. UNCHANGED <<vars, prefix_index, table, prompt>> /\ job.at = "lookup"
      /\ IF match = << >> THEN job' = Idle ELSE job' = [at |-> "share", r |-> job.r, found |-> match]
  BY DEF LookupFallsBack, LookupEnds
<1>2. job.r \in Request
  BY <1>1, JobKinds DEF Fetch
<1>3. match \in Seq(Block)
  <2>. DEFINE known == {i \in 1 .. Len(u) : Len(prefix_index[SubSeq(u, 1, i)]) = i}
  <2>1. CASE known = {}
    BY <2>1 DEF IndexMatch
  <2>2. CASE known # {}
    <3>. DEFINE m == Ext!Max(known)
    <3>1. m \in 1 .. Len(u)
      BY <1>2, <2>2, MaxExists, UnitHashes
    <3>2. SubSeq(u, 1, m) \in Hash
      BY <1>2, <3>1, UnitHashes
    <3>3. match = prefix_index[SubSeq(u, 1, m)]
      BY <2>2 DEF IndexMatch
    <3>. QED
      BY <3>2, <3>3 DEF PrefixInv, ClientInv
  <2>. QED
    BY <2>1, <2>2
<1>. HIDE DEF match
<1>4. job' \in {Idle} \cup Fetch
  BY <1>1, <1>2, <1>3 DEF Fetch
<1>. QED
  BY <1>1, <1>4, PoolActions, NotStoring DEF PrefixInv, ClientInv

LEMMA ShareStep ==
  ASSUME PrefixInv, Share
  PROVE  PoolStep /\ ClientInv'
<1>. DEFINE b == Head(job.found)
<1>1. UNCHANGED <<prefix_index, prompt>> /\ job.at = "share" /\ job.found # << >>
      /\ job' = [job EXCEPT !.found = Tail(job.found)]
      /\ IF b \in allocated
         THEN IncrementRef(job.r, b) /\ table' = [table EXCEPT ![job.r] = Append(table[job.r], b)]
         ELSE UNCHANGED <<vars, table>>
  BY DEF Share
<1>2. job \in Fetch /\ job.r \in Request /\ Tail(job.found) \in Seq(Block) /\ b \in Block
  BY <1>1, JobKinds DEF Fetch
<1>. HIDE DEF b
<1>3. job' \in Fetch
  BY <1>1, <1>2, Updates
<1>4. table' \in [Request -> Seq(Block)]
  <2>1. table \in [Request -> Seq(Block)]
    BY DEF PrefixInv, ClientInv
  <2>2. Append(table[job.r], b) \in Seq(Block)
    BY <1>2, <2>1
  <2>. QED
    BY <1>1, <1>2, <2>1, <2>2
<1>5. PoolStep
  BY <1>1, <1>2, PoolActions
<1>. QED
  BY <1>1, <1>3, <1>4, <1>5, NotStoring DEF PrefixInv, ClientInv

-----------------------------------------------------------------------------
(* reconstruct_cache.                                                      *)

\* No more blocks are kept than were loaded.
LEMMA KeptFits ==
  ASSUME NEW n \in Nat, NEW data, DOMAIN data = 1 .. n, NEW r, NEW rebuilt
  PROVE  WalkBack(data) \in 0 .. n /\ Kept(r, data, rebuilt) \in 0 .. n
<1>. DEFINE usable == {i \in DOMAIN data : HasState(data[i])}
<1>1. usable \in SUBSET (1 .. n)
  OBVIOUS
<1>2. WalkBack(data) = IF usable = {} THEN 0 ELSE Ext!Max(usable)
  BY DEF WalkBack
<1>. HIDE DEF usable
<1>3. usable # {} => Ext!Max(usable) \in 1 .. n
  BY <1>1, MaxExists
<1>4. WalkBack(data) \in 0 .. n
  BY <1>2, <1>3
<1>5. Kept(r, data, rebuilt) \in {0, WalkBack(data)}
  BY Zenon DEF Kept
<1>. QED
  BY <1>4, <1>5

LEMMA ReconstructStep ==
  ASSUME PrefixInv, NEW n \in 0 .. MaxBlocks, NEW refused \in BOOLEAN, NEW rebuilt \in BOOLEAN,
         Reconstruct(n, refused, rebuilt)
  PROVE  PoolStep /\ ClientInv'
<1>. DEFINE r == job.r
            s == table[r]
            data == [i \in 1 .. n |-> files[block_hash[s[i]]]]
            keep == Kept(r, data, rebuilt)
<1>1. /\ job.at = "share" /\ n <= Len(s)
      /\ UNCHANGED <<prefix_index, prompt>>
      /\ (UNCHANGED vars) \/ ForgetHash(r, s[n + 1])
      /\ table' = [table EXCEPT ![r] = SubSeq(s, 1, keep)]
      /\ job'   = [at |-> "drop", r |-> r, blocks |-> ToFree(s, n, keep)]
  BY Zenon DEF Reconstruct
<1>2. job \in Fetch /\ r \in Request
  BY <1>1, JobKinds DEF Fetch
<1>3. s \in Seq(Block) /\ Len(s) \in Nat
  BY <1>2 DEF PrefixInv, ClientInv
<1>5. keep \in 0 .. n
  BY KeptFits
<1>. HIDE DEF keep
<1>6. /\ SubSeq(s, 1, keep) \in Seq(Block)
      /\ ToFree(s, n, keep) \in Seq(Block)
  BY <1>1, <1>3, <1>5 DEF ToFree
<1>. HIDE DEF s
<1>7. table' \in [Request -> Seq(Block)]
  BY <1>1, <1>2, <1>6 DEF PrefixInv, ClientInv
<1>8. job' \in Free
  BY <1>1, <1>2, <1>6 DEF Free
<1>9. PoolStep
  <2>1. CASE ForgetHash(r, s[n + 1])
    <3>1. s[n + 1] \in Block
      BY <1>2, <2>1, BlocksOnly DEF ForgetHash
    <3>. QED
      BY <1>2, <2>1, <3>1, PoolActions
  <2>. QED
    BY <1>1, <2>1, PoolActions
<1>. QED
  BY <1>1, <1>7, <1>8, <1>9, NotStoring DEF PrefixInv, ClientInv

LEMMA FetchEndsStep ==
  ASSUME PrefixInv, FetchEmpty \/ Queued
  PROVE  PoolStep /\ ClientInv'
<1>1. UNCHANGED <<vars, prefix_index, prompt, table>> /\ job' = Idle
  BY DEF FetchEmpty, Queued
<1>. QED
  BY <1>1, PoolActions, NotStoring DEF PrefixInv, ClientInv

LEMMA DropStepOfJob ==
  ASSUME PrefixInv, Drop
  PROVE  PoolStep /\ ClientInv'
<1>1. /\ UNCHANGED <<prefix_index, prompt, table>> /\ job.at = "drop" /\ job.blocks # << >>
      /\ FreeBlock(job.r, Head(job.blocks))
      /\ job' = [job EXCEPT !.blocks = Tail(job.blocks)]
  BY DEF Drop
<1>2. job \in Free /\ job.r \in Request /\ Tail(job.blocks) \in Seq(Block) /\ Head(job.blocks) \in Block
  BY <1>1, JobKinds DEF Free
<1>3. job' \in Free
  BY <1>1, <1>2, Updates
<1>. QED
  BY <1>1, <1>2, <1>3, PoolActions, NotStoring DEF PrefixInv, ClientInv

-----------------------------------------------------------------------------
(* Exits, restarts and the SSD cache.                                      *)

LEMMA ReleaseStepOfJob ==
  ASSUME PrefixInv, Release
  PROVE  PoolStep /\ ClientInv'
<1>1. /\ UNCHANGED <<prefix_index, prompt, table>> /\ job.at = "release" /\ job.blocks # << >>
      /\ ReleaseForEviction(job.r, Head(job.blocks))
      /\ job' = [job EXCEPT !.blocks = Tail(job.blocks)]
  BY DEF Release
<1>2. job \in Free /\ job.r \in Request /\ Tail(job.blocks) \in Seq(Block) /\ Head(job.blocks) \in Block
  BY <1>1, JobKinds DEF Free
<1>3. job' \in Free
  BY <1>1, <1>2, Updates
<1>. QED
  BY <1>1, <1>2, <1>3, PoolActions, NotStoring DEF PrefixInv, ClientInv

LEMMA ExitStep ==
  ASSUME PrefixInv, (\E r \in Request : ExitBegins(r)) \/ Exit
  PROVE  PoolStep /\ ClientInv'
<1>1. ASSUME NEW r \in Request, ExitBegins(r) PROVE PoolStep /\ ClientInv'
  <2>1. UNCHANGED <<vars, prefix_index, prompt, table>>
        /\ job' = [at |-> "release", r |-> r, blocks |-> table[r]]
    BY <1>1 DEF ExitBegins
  <2>2. job' \in Free
    BY <2>1 DEF PrefixInv, ClientInv, Free
  <2>. QED
    BY <2>1, <2>2, PoolActions, NotStoring DEF PrefixInv, ClientInv
<1>2. CASE Exit
  <2>1. /\ UNCHANGED <<vars, prefix_index>> /\ job' = Idle
        /\ prompt' = [prompt EXCEPT ![job.r] = NoPrompt]
        /\ table'  = [table EXCEPT ![job.r] = << >>]
    BY <1>2 DEF Exit
  <2>2. table' \in [Request -> Seq(Block)]
    <3>1. << >> \in Seq(Block) /\ table \in [Request -> Seq(Block)]
      BY DEF PrefixInv, ClientInv
    <3>. QED
      BY <2>1, <3>1
  <2>3. prompt' \in [Request -> Prompts \cup {NoPrompt}]
    BY <2>1 DEF PrefixInv, ClientInv
  <2>. QED
    BY <2>1, <2>2, <2>3, PoolActions, NotStoring DEF PrefixInv, ClientInv
<1>. QED
  BY <1>1, <1>2

LEMMA RestStep ==
  ASSUME PrefixInv, (\E h \in Hash : Forget(h)) \/ ClearAll
  PROVE  PoolStep /\ ClientInv'
<1>1. /\ UNCHANGED <<prompt, table>> /\ job' = Idle
      /\ prefix_index' \in [Hash -> Seq(Block)]
      /\ (UNCHANGED vars) \/ Clear
  <2>1. << >> \in Seq(Block)
    OBVIOUS
  <2>. QED
    BY <2>1 DEF Forget, ClearAll, PrefixInv, ClientInv
<1>2. PoolStep
  BY <1>1, PoolActions
<1>3. job' \notin Store /\ job' \in Job
  <2>1. Idle \notin Store /\ Idle \in Job
    BY NotStored, Zenon DEF Job
  <2>. QED
    BY <1>1, <2>1, Zenon
<1>4. StoreFits'
  BY <1>3 DEF StoreFits
<1>5. prompt' \in [Request -> Prompts \cup {NoPrompt}] /\ table' \in [Request -> Seq(Block)]
  BY <1>1 DEF PrefixInv, ClientInv
<1>. QED
  BY <1>1, <1>2, <1>3, <1>4, <1>5 DEF ClientInv

-----------------------------------------------------------------------------
(* store_cache.                                                            *)

LEMMA StoreBeginsStep ==
  ASSUME PrefixInv, NEW r \in Request, NEW more \in BOOLEAN,
         NEW snaps \in SUBSET (1 .. Len(Units(r))), StoreBegins(r, snaps, more)
  PROVE  PoolStep /\ ClientInv'
<1>. DEFINE end == IF snaps = {} THEN Len(Units(r)) ELSE Ext!Max(snaps)
<1>1. /\ UNCHANGED <<vars, prefix_index, prompt, table>>
      /\ job' = [at |-> "store", r |-> r, snaps |-> snaps, more |-> more, end |-> end]
  BY DEF StoreBegins
<1>2. Len(Units(r)) \in Nat
  BY UnitHashes
<1>3. end \in 0 .. Len(Units(r))
  <2>1. CASE snaps = {}
    BY <1>2, <2>1
  <2>2. CASE snaps # {}
    <3>1. Ext!Max(snaps) \in snaps
      BY <1>2, <2>2, MaxExists
    <3>2. \A x \in snaps : x \in 0 .. Len(Units(r))
      BY <1>2
    <3>3. end = Ext!Max(snaps)
      BY <2>2
    <3>. QED
      BY <3>1, <3>2, <3>3, Zenon
  <2>. QED
    BY <2>1, <2>2
<1>. HIDE DEF end
<1>4. snaps \in SUBSET Nat /\ end \in Nat
  BY <1>2, <1>3
<1>5. job' \in Store
  BY <1>1, <1>4 DEF Store
<1>6. StoreFits'
  BY <1>1, <1>2, <1>3 DEF StoreFits, Units
<1>. QED
  BY <1>1, <1>5, <1>6, PoolActions DEF PrefixInv, ClientInv, Job

\* A step of store_cache that keeps the prompt, for a job that is being stored.
LEMMA StoringOn ==
  ASSUME PrefixInv, job \in Store, NEW at \in {"store", "register", "save"}, NEW end \in Nat,
         UNCHANGED <<prefix_index, prompt>>,
         job' = [job EXCEPT !.at = at, !.end = end],
         table' \in [Request -> Seq(Block)],
         end <= Len(Units(job.r)),
         at # "store" => Len(table'[job.r]) \in 1 .. Len(Units(job.r))
  PROVE  ClientInv'
<1>1. job' \in Store /\ job'.r = job.r /\ job'.end = end /\ job'.at = at
  <2>. DEFINE A == {"store", "register", "save"}
  <2>1. job \in [at : A, r : Request, snaps : SUBSET Nat, more : BOOLEAN, end : Nat] /\ at \in A
    BY DEF Store
  <2>. HIDE DEF A
  <2>2. job' \in [at : A, r : Request, snaps : SUBSET Nat, more : BOOLEAN, end : Nat]
        /\ job'.r = job.r /\ job'.end = end /\ job'.at = at
    BY <2>1
  <2>. QED
    BY <2>2 DEF A, Store
<1>2. StoreFits'
  BY <1>1 DEF StoreFits, Units
<1>. QED
  BY <1>1, <1>2 DEF PrefixInv, ClientInv, Job

\* What StoreFits says of a job, and its table.
LEMMA StoringNow ==
  ASSUME PrefixInv, job \in Store
  PROVE  /\ job.r \in Request /\ job.end \in Nat /\ job.end <= Len(Units(job.r))
         /\ job = [job EXCEPT !.at = job.at, !.end = job.end]
         /\ table[job.r] \in Seq(Block) /\ Len(table[job.r]) \in Nat
         /\ Units(job.r) \in Seq(Unit) /\ Len(Units(job.r)) \in Nat
         /\ job.at # "store" => Len(table[job.r]) \in 1 .. Len(Units(job.r))
<1>1. job.r \in Request /\ job.end \in Nat /\ job = [job EXCEPT !.at = job.at, !.end = job.end]
  BY DEF Store
<1>2. table[job.r] \in Seq(Block) /\ Len(table[job.r]) \in Nat
  BY <1>1 DEF PrefixInv, ClientInv
<1>. QED
  BY <1>1, <1>2, UnitHashes DEF PrefixInv, ClientInv, StoreFits

LEMMA StoreSharesStep ==
  ASSUME PrefixInv, NEW b \in Block, StoreShares(b)
  PROVE  PoolStep /\ ClientInv'
<1>1. /\ UNCHANGED <<prefix_index, prompt>> /\ job.at = "store" /\ job' = job
      /\ IncrementRef(job.r, b)
      /\ table' = [table EXCEPT ![job.r] = Append(table[job.r], b)]
  BY DEF StoreShares, Storing
<1>2. job \in Store
  BY <1>1, JobKinds
<1>3. Append(table[job.r], b) \in Seq(Block)
  BY <1>2, StoringNow
<1>4. table' \in [Request -> Seq(Block)]
  BY <1>1, <1>3 DEF PrefixInv, ClientInv
<1>5. ClientInv'
  <2>1. job' = [job EXCEPT !.at = "store", !.end = job.end]
    BY <1>1, <1>2, StoringNow
  <2>. QED
    BY <1>1, <1>2, <1>4, <2>1, StoringNow, StoringOn
<1>. QED
  BY <1>1, <1>2, <1>5, StoringNow, PoolActions

LEMMA StoreAllocatesStep ==
  ASSUME PrefixInv, NEW b \in Block, StoreAllocates(b)
  PROVE  PoolStep /\ ClientInv'
<1>1. /\ UNCHANGED <<prefix_index, prompt>> /\ job.at = "store"
      /\ Len(table[job.r]) < job.end
      /\ job' = [job EXCEPT !.at = "register"]
      /\ AllocateBlock(job.r, b)
      /\ table' = [table EXCEPT ![job.r] = Append(table[job.r], b)]
  BY DEF StoreAllocates, Storing
<1>2. job \in Store
  BY <1>1, JobKinds
<1>3. Append(table[job.r], b) \in Seq(Block) /\ Len(Append(table[job.r], b)) = Len(table[job.r]) + 1
  BY <1>2, StoringNow
<1>4. table' \in [Request -> Seq(Block)] /\ table'[job.r] = Append(table[job.r], b)
  BY <1>1, <1>2, <1>3, StoringNow DEF PrefixInv, ClientInv
<1>5. Len(table'[job.r]) \in 1 .. Len(Units(job.r))
  BY <1>1, <1>2, <1>3, <1>4, StoringNow
<1>6. job' = [job EXCEPT !.at = "register", !.end = job.end]
  BY <1>1, <1>2 DEF Store
<1>7. ClientInv'
  BY <1>1, <1>2, <1>4, <1>5, <1>6, StoringNow, StoringOn
<1>. QED
  BY <1>1, <1>2, <1>7, StoringNow, PoolActions

\* The hash a block is registered under is one of the pool's.
LEMMA StoreRegistersStep ==
  ASSUME PrefixInv, HashesClosed, StoreRegisters
  PROVE  PoolStep /\ ClientInv'
<1>. DEFINE s == table[job.r]
            f == Ext!Front(s)
            h == Append(ParentHash(f), Units(job.r)[Len(s)])
<1>1. /\ UNCHANGED <<prefix_index, prompt, table>> /\ job.at = "register"
      /\ RegisterBlockHash(job.r, Ext!Last(s), h)
      /\ job' = [job EXCEPT !.at = "save"]
  BY DEF StoreRegisters
<1>2. job \in Store
  BY <1>1, JobKinds
<1>3. Len(s) \in 1 .. Len(Units(job.r)) /\ s \in Seq(Block)
  BY <1>1, <1>2, StoringNow
<1>4. Units(job.r)[Len(s)] \in Unit
  BY <1>2, <1>3, StoringNow
<1>5. f \in Seq(Block)
  BY <1>3 DEF Ext!Front
<1>. HIDE DEF s, f
<1>6. ParentHash(f) \in Hash \cup {<< >>}
  <2>1. CASE f = << >> \/ block_hash[Ext!Last(f)] = None
    BY <2>1 DEF ParentHash
  <2>2. CASE f # << >> /\ block_hash[Ext!Last(f)] # None
    <3>1. Ext!Last(f) \in Block
      BY <1>5, <2>2 DEF Ext!Last
    <3>2. block_hash[Ext!Last(f)] \in Hash
      BY <2>2, <3>1, BlocksOnly
    <3>. QED
      BY <2>2, <3>2 DEF ParentHash
  <2>. QED
    BY <2>1, <2>2
<1>7. h \in Hash
  BY <1>4, <1>6 DEF HashesClosed
<1>. HIDE DEF h
<1>8. Ext!Last(s) \in Block
  BY <1>1, <1>2, BlocksOnly, StoringNow DEF RegisterBlockHash
<1>9. PoolStep
  BY <1>1, <1>2, <1>7, <1>8, StoringNow, PoolActions
<1>10. ClientInv'
  <2>1. job' = [job EXCEPT !.at = "save", !.end = job.end]
    BY <1>1, <1>2 DEF Store
  <2>2. table' \in [Request -> Seq(Block)]
    BY <1>1 DEF PrefixInv, ClientInv
  <2>3. Len(table'[job.r]) \in 1 .. Len(Units(job.r))
    BY <1>1, <1>3 DEF s
  <2>. QED
    BY <1>1, <1>2, <2>1, <2>2, <2>3, StoringNow, StoringOn
<1>. QED
  BY <1>9, <1>10

LEMMA StoreSavesStep ==
  ASSUME PrefixInv, StoreSaves
  PROVE  PoolStep /\ ClientInv'
<1>1. /\ UNCHANGED <<vars, prefix_index, prompt, table>> /\ job.at = "save"
      /\ job' = [job EXCEPT !.at = "store"]
  BY DEF StoreSaves
<1>2. job \in Store
  BY <1>1, JobKinds
<1>3. job' = [job EXCEPT !.at = "store", !.end = job.end]
  BY <1>1, <1>2 DEF Store
<1>4. table' \in [Request -> Seq(Block)]
  BY <1>1 DEF PrefixInv, ClientInv
<1>. QED
  BY <1>1, <1>2, <1>3, <1>4, StoringNow, StoringOn, PoolActions

\* A failed save gives back the block that was allocated for it.
LEMMA StoreFailsStep ==
  ASSUME PrefixInv, StoreFails
  PROVE  PoolStep /\ ClientInv'
<1>. DEFINE s == table[job.r]
            f == Ext!Front(s)
            end == Len(s) - 1
<1>1. /\ UNCHANGED <<prefix_index, prompt>> /\ job.at = "save"
      /\ FreeBlock(job.r, Ext!Last(s))
      /\ table' = [table EXCEPT ![job.r] = f]
      /\ job' = [job EXCEPT !.at = "store", !.end = end]
  BY DEF StoreFails
<1>2. job \in Store
  BY <1>1, JobKinds
<1>3. Len(s) \in 1 .. Len(Units(job.r)) /\ s \in Seq(Block) /\ Len(Units(job.r)) \in Nat
  BY <1>1, <1>2, StoringNow
<1>4. end \in Nat /\ end <= Len(Units(job.r))
  BY <1>3
<1>5. f \in Seq(Block)
  BY <1>3 DEF Ext!Front
<1>6. Ext!Last(s) \in Block
  BY <1>3 DEF Ext!Last
<1>. HIDE DEF end, f, s
<1>7. table' \in [Request -> Seq(Block)]
  BY <1>1, <1>5 DEF PrefixInv, ClientInv
<1>8. ClientInv'
  BY <1>1, <1>2, <1>4, <1>7, StoringOn
<1>. QED
  BY <1>1, <1>2, <1>6, <1>8, StoringNow, PoolActions

\* The entries written to the index are prefixes of the stored table.
LEMMA StoreEndsStep ==
  ASSUME PrefixInv, StoreEnds
  PROVE  PoolStep /\ ClientInv'
<1>. DEFINE s == table[job.r]
<1>1. /\ UNCHANGED <<vars, prompt, table>> /\ job.at = "store"
      /\ prefix_index' = [h \in Hash |-> IndexEntry(h, prefix_index[h], s)]
      /\ job' = [at |-> "release", r |-> job.r, blocks |-> s]
  BY DEF StoreEnds
<1>2. job \in Store
  BY <1>1, JobKinds
<1>3. s \in Seq(Block) /\ Len(s) \in Nat /\ job.r \in Request
  BY <1>2, StoringNow
<1>. HIDE DEF s
<1>4. ASSUME NEW h \in Hash PROVE IndexEntry(h, prefix_index[h], s) \in Seq(Block)
  <2>. DEFINE named == {i \in DOMAIN s : block_hash[s[i]] = h}
  <2>1. CASE named = {}
    BY <2>1 DEF IndexEntry, PrefixInv, ClientInv
  <2>2. CASE named # {}
    <3>1. named \in SUBSET (1 .. Len(s))
      BY <1>3
    <3>2. IndexEntry(h, prefix_index[h], s) = SubSeq(s, 1, Ext!Max(named))
      BY <2>2 DEF IndexEntry
    <3>. HIDE DEF named
    <3>3. Ext!Max(named) \in named
      BY <1>3, <2>2, <3>1, MaxExists
    <3>4. Ext!Max(named) \in 1 .. Len(s)
      BY <3>1, <3>3, Zenon
    <3>. QED
      BY <1>3, <3>2, <3>4
  <2>. QED
    BY <2>1, <2>2
<1>5. prefix_index' \in [Hash -> Seq(Block)]
  BY <1>1, <1>4
<1>6. job' \in Free
  BY <1>1, <1>3 DEF Free
<1>7. job' \in Job /\ StoreFits'
  BY <1>6, NotStored DEF Job, StoreFits
<1>. QED
  BY <1>1, <1>5, <1>7, PoolActions DEF PrefixInv, ClientInv

-----------------------------------------------------------------------------
LEMMA PrefixStep ==
  ASSUME HashesClosed, PrefixInv, [PrefixNext]_prefixVars
  PROVE  PoolStep /\ PrefixInv'
<1>1. PoolStep /\ ClientInv'
  <2>1. CASE UNCHANGED prefixVars
    BY <2>1, PoolActions DEF prefixVars, PrefixInv, ClientInv, StoreFits, Units
  <2>2. ASSUME NEW b \in Block,
               \/ LookupFinds(b) \/ LookupRestores(b)
               \/ StoreShares(b) \/ StoreAllocates(b)
        PROVE  PoolStep /\ ClientInv'
    BY <2>2, FetchStep, RestoresStep, StoreSharesStep, StoreAllocatesStep
  <2>3. ASSUME NEW r \in Request, \/ \E p \in Prompts : FetchBegins(r, p)
                                  \/ ExitBegins(r)
        PROVE  PoolStep /\ ClientInv'
    BY <2>3, FetchStep, ExitStep
  <2>4. ASSUME NEW n \in 0 .. MaxBlocks, NEW refused \in BOOLEAN, NEW rebuilt \in BOOLEAN,
               Reconstruct(n, refused, rebuilt)
        PROVE  PoolStep /\ ClientInv'
    BY <2>4, ReconstructStep
  <2>5. ASSUME NEW r \in Request, NEW more \in BOOLEAN,
               NEW snaps \in SUBSET (1 .. Len(Units(r))), StoreBegins(r, snaps, more)
        PROVE  PoolStep /\ ClientInv'
    BY <2>5, StoreBeginsStep
  <2>6. CASE \/ LookupHits \/ LookupFallsBack \/ Share \/ FetchEmpty \/ Drop \/ Queued
    BY <2>6, FetchStep, FallsBackStep, ShareStep, FetchEndsStep, DropStepOfJob
  <2>7. CASE \/ StoreRegisters \/ StoreSaves \/ StoreFails \/ StoreEnds
    BY <2>7, StoreRegistersStep, StoreSavesStep, StoreFailsStep, StoreEndsStep
  <2>8. CASE \/ Release \/ Exit \/ ClearAll \/ \E h \in Hash : Forget(h)
    BY <2>8, ReleaseStepOfJob, ExitStep, RestStep
  <2>. QED
    BY <2>1, <2>2, <2>3, <2>4, <2>5, <2>6, <2>7, <2>8 DEF PrefixNext
<1>2. Inv'
  BY <1>1, InvStep DEF PrefixInv, PoolStep
<1>. QED
  BY <1>1, <1>2 DEF PrefixInv

LEMMA PrefixStart ==
  ASSUME PrefixInit
  PROVE  Init /\ PrefixInv
<1>1. << >> \in Seq(Block)
  OBVIOUS
<1>2. Init /\ Inv
  BY InitInv DEF PrefixInit
<1>3. job = Idle /\ job \in Job /\ job \notin Store
  BY NotStored, Zenon DEF PrefixInit, Job
<1>. QED
  BY <1>1, <1>2, <1>3 DEF PrefixInit, PrefixInv, ClientInv, StoreFits

\* What the calls of the prefix cache rely on: tables and index entries are
\* sequences of blocks, and a block being stored is in its request's table
\* (store_cache, reconstruct_cache and _update_prefix_index of prefix_cache.py).
THEOREM PrefixInvariant ==
  ASSUME HashesClosed
  PROVE  PrefixSpec => []PrefixInv
<1>1. PrefixInit => PrefixInv
  BY PrefixStart
<1>2. PrefixInv /\ [PrefixNext]_prefixVars => PrefixInv'
  BY PrefixStep
<1>. QED
  BY <1>1, <1>2, PTL DEF PrefixSpec

\* fetch_cache, reconstruct_cache, store_cache and the releases use the pool
\* only through its operations and as they ask to be used: the prefix cache
\* implements PagedCache.
THEOREM PrefixImplementsPool ==
  ASSUME HashesClosed
  PROVE  PrefixSpec => ImplementsPool
<1>1. PrefixInit => Init
  BY DEF PrefixInit
<1>2. PrefixInv /\ [PrefixNext]_prefixVars => [Next]_vars
  BY PrefixStep DEF PoolStep
<1>. QED
  BY <1>1, <1>2, PrefixInvariant, PTL DEF PrefixSpec, ImplementsPool, Spec

\* Whatever the prefix cache does with the pool, a block's reference count is
\* the number of references requests hold to it.
THEOREM PrefixRefCountExact ==
  ASSUME HashesClosed
  PROVE  PrefixSpec => []RefCountExact
BY PrefixImplementsPool, PagedRefCountExact, PTL DEF ImplementsPool

\* Whatever the prefix cache does with the pool, the hash map only names
\* blocks that carry the hash.
THEOREM PrefixCachedSound ==
  ASSUME HashesClosed
  PROVE  PrefixSpec => []CachedSound
BY PrefixImplementsPool, PagedCachedSound, PTL DEF ImplementsPool

-----------------------------------------------------------------------------
(* The references of each request: those of its table, and while it drops  *)
(* or releases blocks those of the blocks that are left.                   *)

Lists(s, b) == \E i \in 1 .. Len(s) : s[i] = b

Distinct(s) == \A i, j \in 1 .. Len(s) : s[i] = s[j] => i = j

Busy(r) == job # Idle /\ job.r = r

Listed(r, b) ==
  IF Busy(r) /\ job.at = "release" THEN Lists(job.blocks, b)
  ELSE \/ Lists(table[r], b)
       \/ Busy(r) /\ job.at = "drop" /\ Lists(job.blocks, b)

RefsOf(r) ==
  /\ Distinct(table[r])
  /\ \A b \in Block : b \in held[r] <=> Listed(r, b)
  /\ stage[r] = "none" => table[r] = << >>
  /\ Busy(r) =>
       /\ stage[r] # "none"
       /\ job.at = "lookup" => table[r] = << >>
       /\ job.at \in {"drop", "release"} => Distinct(job.blocks)
       /\ job.at = "drop" => \A b \in Block : ~(Lists(table[r], b) /\ Lists(job.blocks, b))

Refs == stage \in [Request -> {"none", "adding", "queued"}] /\ \A r \in Request : RefsOf(r)

RefsInv == PrefixInv /\ Refs

LEMMA GrownListed ==
  ASSUME NEW s \in Seq(Block), NEW b \in Block, ~Lists(s, b), Distinct(s)
  PROVE  /\ Distinct(Append(s, b))
         /\ \A c : Lists(Append(s, b), c) <=> Lists(s, c) \/ c = b
<1>1. /\ Len(Append(s, b)) = Len(s) + 1 /\ Len(s) \in Nat
      /\ Append(s, b)[Len(s) + 1] = b
      /\ \A i \in 1 .. Len(s) : Append(s, b)[i] = s[i]
  OBVIOUS
<1>2. PICK t : t = Append(s, b)
  OBVIOUS
<1>3. Distinct(t)
  BY <1>1, <1>2 DEF Distinct, Lists
<1>4. ASSUME NEW c PROVE Lists(t, c) <=> Lists(s, c) \/ c = b
  <2>1. ASSUME Lists(t, c), c # b PROVE Lists(s, c)
    BY <1>1, <1>2, <2>1 DEF Lists
  <2>2. ASSUME Lists(s, c) PROVE Lists(t, c)
    BY <1>1, <1>2, <2>2 DEF Lists
  <2>3. Lists(t, b)
    BY <1>1, <1>2 DEF Lists
  <2>. QED
    BY <2>1, <2>2, <2>3
<1>. QED
  BY <1>2, <1>3, <1>4

LEMMA TailListed ==
  ASSUME NEW s \in Seq(Block), s # << >>, Distinct(s)
  PROVE  /\ Distinct(Tail(s)) /\ Lists(s, Head(s)) /\ Head(s) \in Block
         /\ \A c : Lists(Tail(s), c) <=> Lists(s, c) /\ c # Head(s)
<1>. DEFINE t == Tail(s)
<1>1. /\ t \in Seq(Block) /\ Len(s) \in Nat \ {0} /\ Len(t) = Len(s) - 1 /\ Head(s) = s[1]
      /\ \A i \in 1 .. Len(s) - 1 : t[i] = s[i + 1]
  OBVIOUS
<1>. HIDE DEF t
<1>2. Distinct(t)
  BY <1>1 DEF Distinct
<1>3. ASSUME NEW c PROVE Lists(t, c) <=> Lists(s, c) /\ c # Head(s)
  <2>1. ASSUME Lists(t, c) PROVE Lists(s, c) /\ c # Head(s)
    BY <1>1, <2>1 DEF Lists, Distinct
  <2>2. ASSUME Lists(s, c), c # Head(s) PROVE Lists(t, c)
    <3>1. PICK i \in 1 .. Len(s) : s[i] = c
      BY <2>2 DEF Lists
    <3>2. i # 1 /\ i - 1 \in 1 .. Len(t) /\ t[i - 1] = c
      BY <1>1, <2>2, <3>1
    <3>. QED
      BY <3>2 DEF Lists
  <2>. QED
    BY <2>1, <2>2
<1>4. Lists(s, Head(s)) /\ Head(s) \in Block
  BY <1>1 DEF Lists
<1>. QED
  BY <1>2, <1>3, <1>4 DEF t

LEMMA FrontListed ==
  ASSUME NEW s \in Seq(Block), Len(s) # 0, Distinct(s)
  PROVE  /\ Distinct(Ext!Front(s)) /\ Lists(s, Ext!Last(s)) /\ Ext!Last(s) \in Block
         /\ Ext!Front(s) \in Seq(Block) /\ Len(Ext!Front(s)) = Len(s) - 1
         /\ \A c : Lists(Ext!Front(s), c) <=> Lists(s, c) /\ c # Ext!Last(s)
<1>. DEFINE t == Ext!Front(s)
            l == Ext!Last(s)
<1>1. /\ t \in Seq(Block) /\ Len(s) \in Nat \ {0} /\ Len(t) = Len(s) - 1 /\ l = s[Len(s)]
      /\ \A i \in 1 .. Len(s) - 1 : t[i] = s[i]
  <2>1. PICK n \in Nat : Len(s) = n + 1
    OBVIOUS
  <2>2. t = SubSeq(s, 1, n) /\ l = s[n + 1]
    BY <2>1 DEF Ext!Front, Ext!Last
  <2>. HIDE DEF t, l
  <2>3. t \in Seq(Block) /\ Len(t) = n /\ \A i \in 1 .. n : t[i] = s[i]
    BY <2>1, <2>2
  <2>. QED
    BY <2>1, <2>2, <2>3
<1>. HIDE DEF t, l
<1>2. Distinct(t)
  BY <1>1 DEF Distinct
<1>3. ASSUME NEW c PROVE Lists(t, c) <=> Lists(s, c) /\ c # l
  <2>1. ASSUME Lists(t, c) PROVE Lists(s, c) /\ c # l
    BY <1>1, <2>1 DEF Lists, Distinct
  <2>2. ASSUME Lists(s, c), c # l PROVE Lists(t, c)
    BY <1>1, <2>2 DEF Lists
  <2>. QED
    BY <2>1, <2>2
<1>4. Lists(s, l) /\ l \in Block
  BY <1>1 DEF Lists
<1>. QED
  BY <1>1, <1>2, <1>3, <1>4 DEF t, l

\* A step of one request's call leaves the references of the others alone.
LEMMA OthersKept ==
  ASSUME RefsInv, NEW q \in Request, RefsOf(q)', NEW st \in {"none", "adding", "queued"},
         stage' = [stage EXCEPT ![q] = st],
         \A r \in Request \ {q} : held'[r] = held[r] /\ table'[r] = table[r],
         job = Idle \/ job.r = q, job' = Idle \/ job'.r = q
  PROVE  Refs'
<1>1. stage' \in [Request -> {"none", "adding", "queued"}]
  BY DEF RefsInv, Refs
<1>2. ASSUME NEW r \in Request, r # q PROVE RefsOf(r)'
  <2>1. ~Busy(r) /\ ~Busy(r)'
    BY <1>2 DEF Busy
  <2>2. held'[r] = held[r] /\ table'[r] = table[r] /\ stage'[r] = stage[r] /\ RefsOf(r)
    BY <1>2 DEF RefsInv, Refs
  <2>. QED
    BY <2>1, <2>2 DEF RefsOf, Listed
<1>. QED
  BY <1>1, <1>2 DEF Refs

LEMMA RefsTyped ==
  ASSUME RefsInv
  PROVE  /\ held \in [Request -> SUBSET Block] /\ table \in [Request -> Seq(Block)]
         /\ stage \in [Request -> {"none", "adding", "queued"}]
         /\ \A r \in Request : RefsOf(r)
BY DEF RefsInv, Refs, PrefixInv, ClientInv, Inv, TypeOK

\* A call goes on without a change of references.
LEMMA RefsGoOn ==
  ASSUME RefsInv, NEW q \in Request, Busy(q), job' # Idle, job'.r = q,
         UNCHANGED <<held, table, stage>>,
         job.at \notin {"drop", "release"}, job'.at \notin {"drop", "release"},
         job'.at = "lookup" => job.at = "lookup"
  PROVE  Refs'
<1>1. RefsOf(q)'
  BY RefsTyped DEF RefsOf, Listed, Busy
<1>2. stage' = [stage EXCEPT ![q] = stage[q]] /\ stage[q] \in {"none", "adding", "queued"}
  BY RefsTyped
<1>. QED
  BY <1>1, <1>2, OthersKept DEF Busy

\* A call starts: nothing was under way.
LEMMA RefsStart ==
  ASSUME RefsInv, NEW q \in Request, job = Idle, job' # Idle, job'.r = q,
         UNCHANGED <<held, table>>, NEW st \in {"adding", "queued"},
         stage' = [stage EXCEPT ![q] = st],
         \/ job'.at = "lookup" /\ table[q] = << >>
         \/ job'.at = "store"
         \/ job'.at = "release" /\ job'.blocks = table[q]
  PROVE  Refs'
<1>1. RefsOf(q)'
  BY RefsTyped DEF RefsOf, Listed, Busy
<1>. QED
  BY <1>1, OthersKept DEF Busy

\* A call ends with nothing left to drop.
LEMMA RefsStop ==
  ASSUME RefsInv, NEW q \in Request, Busy(q), job' = Idle,
         UNCHANGED <<held, table>>, stage' = [stage EXCEPT ![q] = "queued"],
         \/ job.at \in {"lookup", "share"}
         \/ job.at = "drop" /\ job.blocks = << >>
  PROVE  Refs'
<1>1. RefsOf(q)'
  <2>1. \A b : ~Lists(<< >>, b)
    BY DEF Lists
  <2>. QED
    BY <2>1, RefsTyped DEF RefsOf, Listed, Busy
<1>. QED
  BY <1>1, OthersKept DEF Busy

\* A block comes to the table with the reference taken for it.
LEMMA RefsClaim ==
  ASSUME RefsInv, NEW q \in Request, Busy(q), job' # Idle, job'.r = q,
         NEW b \in Block, b \notin held[q],
         held' = [held EXCEPT ![q] = @ \cup {b}],
         table' = [table EXCEPT ![q] = Append(@, b)], UNCHANGED stage,
         job.at \notin {"drop", "release"}, job'.at \notin {"lookup", "drop", "release"}
  PROVE  Refs'
<1>. DEFINE s == table[q]
<1>1. s \in Seq(Block) /\ Distinct(s) /\ ~Lists(s, b)
  BY RefsTyped DEF RefsOf, Listed
<1>2. table'[q] = Append(s, b) /\ held'[q] = held[q] \cup {b} /\ stage'[q] = stage[q]
  BY RefsTyped
<1>3. /\ Distinct(Append(s, b))
      /\ \A c : Lists(Append(s, b), c) <=> Lists(s, c) \/ c = b
  BY <1>1, GrownListed
<1>4. RefsOf(q)'
  BY <1>2, <1>3, RefsTyped DEF RefsOf, Listed, Busy
<1>5. stage' = [stage EXCEPT ![q] = stage[q]] /\ stage[q] \in {"none", "adding", "queued"}
  BY RefsTyped
<1>6. \A r \in Request \ {q} : held'[r] = held[r] /\ table'[r] = table[r]
  BY RefsTyped
<1>. QED
  BY <1>4, <1>5, <1>6, OthersKept DEF Busy

\* One block of those left is given back.
LEMMA RefsDrop ==
  ASSUME RefsInv, NEW q \in Request, Busy(q), job.at \in {"drop", "release"},
         job.blocks \in Seq(Block), job.blocks # << >>,
         held' = [held EXCEPT ![q] = @ \ {Head(job.blocks)}],
         job' # Idle, job'.r = q, job'.at = job.at, job'.blocks = Tail(job.blocks),
         UNCHANGED <<table, stage>>
  PROVE  Refs'
<1>. DEFINE s == job.blocks
            h == Head(s)
            t == Tail(s)
<1>1. s \in Seq(Block) /\ Distinct(s)
  BY RefsTyped DEF RefsOf
<1>2. /\ Distinct(t) /\ Lists(s, h) /\ h \in Block
      /\ \A c : Lists(t, c) <=> Lists(s, c) /\ c # h
  BY <1>1, TailListed
<1>3. held'[q] = held[q] \ {h} /\ job'.blocks = t
  BY RefsTyped
<1>. HIDE DEF s, t, h
<1>4. /\ job.blocks = s /\ RefsOf(q) /\ table'[q] = table[q] /\ stage'[q] = stage[q]
      /\ Busy(q)'
  BY RefsTyped DEF Busy, s
<1>5. RefsOf(q)'
  <2>1. CASE job.at = "drop"
    BY <1>2, <1>3, <1>4, <2>1 DEF RefsOf, Listed
  <2>2. CASE job.at = "release"
    BY <1>2, <1>3, <1>4, <2>2 DEF RefsOf, Listed
  <2>. QED
    BY <2>1, <2>2
<1>6. stage' = [stage EXCEPT ![q] = stage[q]] /\ stage[q] \in {"none", "adding", "queued"}
  BY RefsTyped
<1>7. \A r \in Request \ {q} : held'[r] = held[r] /\ table'[r] = table[r]
  BY RefsTyped
<1>. QED
  BY <1>5, <1>6, <1>7, OthersKept DEF Busy

LEMMA JobAtWork ==
  ASSUME RefsInv, job.at # "idle"
  PROVE  /\ job # Idle /\ job.r \in Request /\ Busy(job.r)
         /\ job.at \in {"lookup", "share"} => job.found \in Seq(Block)
         /\ job.at \in {"drop", "release"} => job.blocks \in Seq(Block)
<1>1. job # Idle
  BY DEF Idle
<1>2. job \in Fetch \cup Store \cup Free
  BY <1>1 DEF RefsInv, PrefixInv, ClientInv, Job
<1>3. job.r \in Request
  BY <1>2 DEF Fetch, Store, Free
<1>4. job.at \in {"lookup", "share"} => job \in Fetch
  BY JobKinds DEF RefsInv
<1>5. job.at \in {"drop", "release"} => job \in Free
  BY JobKinds DEF RefsInv
<1>. QED
  BY <1>1, <1>3, <1>4, <1>5 DEF Busy, Fetch, Free

\* Steps that take a call further or end it, without a change of references.
LEMMA RefsOfLookup ==
  ASSUME RefsInv,
         \/ \E r \in Request, p \in Prompts : FetchBegins(r, p)
         \/ \E b \in Block : LookupFinds(b) \/ LookupRestores(b)
         \/ LookupHits \/ LookupFallsBack \/ FetchEmpty \/ Queued
  PROVE  Refs'
<1>1. ASSUME NEW r \in Request, NEW p \in Prompts, FetchBegins(r, p) PROVE Refs'
  <2>1. /\ job = Idle /\ stage[r] = "none" /\ UNCHANGED <<held, table>>
        /\ stage' = [stage EXCEPT ![r] = "adding"]
        /\ job' = [at |-> "lookup", r |-> r, found |-> << >>]
    BY <1>1 DEF FetchBegins, vars
  <2>2. table[r] = << >>
    BY <2>1, RefsTyped DEF RefsOf
  <2>3. job'.at = "lookup" /\ job'.r = r /\ job' # Idle
    BY <2>1 DEF Idle
  <2>. QED
    BY <2>1, <2>2, <2>3, RefsStart
<1>2. ASSUME NEW b \in Block, LookupFinds(b) \/ LookupRestores(b) PROVE Refs'
  <2>1. /\ UNCHANGED <<held, table, stage>> /\ job.at = "lookup"
        /\ job' = [job EXCEPT !.found = Append(@, b)]
    BY <1>2 DEF LookupFinds, LookupRestores, RestoreBlock, Looking, vars
  <2>2. job \in Fetch
    BY <2>1, JobKinds DEF RefsInv
  <2>3. job'.at = "lookup" /\ job'.r = job.r /\ job' # Idle
    BY <2>1, <2>2 DEF Idle, Fetch
  <2>. QED
    BY <2>1, <2>3, JobAtWork, RefsGoOn
<1>3. CASE LookupHits
  <2>1. /\ UNCHANGED <<held, table, stage>> /\ job.at = "lookup"
        /\ job' = [job EXCEPT !.at = "share"]
    BY <1>3 DEF LookupHits, LookupEnds, vars
  <2>2. job \in Fetch
    BY <2>1, JobKinds DEF RefsInv
  <2>3. job'.at = "share" /\ job'.r = job.r /\ job' # Idle
    BY <2>1, <2>2 DEF Idle, Fetch
  <2>. QED
    BY <2>1, <2>3, JobAtWork, RefsGoOn
<1>4. CASE LookupFallsBack
  <2>1. /\ UNCHANGED <<held, table>> /\ job.at = "lookup"
        /\ \/ stage' = [stage EXCEPT ![job.r] = "queued"] /\ job' = Idle
           \/ \E m : /\ job' = [at |-> "share", r |-> job.r, found |-> m]
                     /\ UNCHANGED stage
    BY <1>4, Zenon DEF LookupFallsBack, LookupEnds, vars
  <2>2. CASE stage' = [stage EXCEPT ![job.r] = "queued"] /\ job' = Idle
    BY <2>1, <2>2, JobAtWork, RefsStop
  <2>3. ASSUME NEW m, job' = [at |-> "share", r |-> job.r, found |-> m], UNCHANGED stage
        PROVE  Refs'
    <3>1. job'.at = "share" /\ job'.r = job.r /\ job' # Idle
      BY <2>3 DEF Idle
    <3>. QED
      BY <2>1, <2>3, <3>1, JobAtWork, RefsGoOn
  <2>. QED
    BY <2>1, <2>2, <2>3
<1>5. CASE FetchEmpty
  BY <1>5, JobAtWork, RefsStop DEF FetchEmpty, vars
<1>6. CASE Queued
  BY <1>6, JobAtWork, RefsStop DEF Queued, vars
<1>. QED
  BY <1>1, <1>2, <1>3, <1>4, <1>5, <1>6

LEMMA RefsOfShare ==
  ASSUME RefsInv, Share
  PROVE  Refs'
<1>. DEFINE b == Head(job.found)
<1>1. /\ job.at = "share" /\ job.found # << >> /\ UNCHANGED stage
      /\ job' = [job EXCEPT !.found = Tail(@)]
      /\ \/ /\ IncrementRef(job.r, b)
            /\ table' = [table EXCEPT ![job.r] = Append(@, b)]
         \/ UNCHANGED <<vars, table>>
  BY DEF Share
<1>2. job \in Fetch /\ job.found \in Seq(Block)
  BY <1>1, JobKinds DEF RefsInv, Fetch
<1>3. job'.at = "share" /\ job'.r = job.r /\ job' # Idle /\ b \in Block
  BY <1>1, <1>2 DEF Idle, Fetch
<1>. HIDE DEF b
<1>4. CASE IncrementRef(job.r, b) /\ table' = [table EXCEPT ![job.r] = Append(@, b)]
  <2>1. b \notin held[job.r] /\ held' = [held EXCEPT ![job.r] = @ \cup {b}]
    BY <1>4 DEF IncrementRef
  <2>. QED
    BY <1>1, <1>3, <1>4, <2>1, JobAtWork, RefsClaim
<1>5. CASE UNCHANGED <<vars, table>>
  BY <1>1, <1>3, <1>5, JobAtWork, RefsGoOn DEF vars
<1>. QED
  BY <1>1, <1>4, <1>5

LEMMA RefsOfDrop ==
  ASSUME RefsInv, Drop \/ Release
  PROVE  Refs'
<1>. DEFINE b == Head(job.blocks)
<1>1. /\ job.at \in {"drop", "release"} /\ job.blocks # << >> /\ UNCHANGED <<table, stage>>
      /\ job' = [job EXCEPT !.blocks = Tail(@)]
      /\ held' = [held EXCEPT ![job.r] = @ \ {b}]
  BY DEF Drop, Release, FreeBlock, FreeLast, FreeShared, ReleaseForEviction
<1>2. job \in Free /\ job.blocks \in Seq(Block)
  BY <1>1, JobKinds DEF RefsInv, Free
<1>3. job'.at = job.at /\ job'.r = job.r /\ job' # Idle /\ job'.blocks = Tail(job.blocks)
  BY <1>1, <1>2 DEF Idle, Free
<1>. QED
  BY <1>1, <1>2, <1>3, JobAtWork, RefsDrop

\* What is kept of a table and what is dropped.
LEMMA CutListed ==
  ASSUME NEW s \in Seq(Block), Distinct(s), NEW n \in 0 .. Len(s), NEW keep \in 0 .. n
  PROVE  LET a == SubSeq(s, 1, keep)
             z == ToFree(s, n, keep)
         IN  /\ a \in Seq(Block) /\ z \in Seq(Block) /\ Distinct(a) /\ Distinct(z)
             /\ \A c : Lists(s, c) <=> Lists(a, c) \/ Lists(z, c)
             /\ \A c : ~(Lists(a, c) /\ Lists(z, c))
<1>. DEFINE a == SubSeq(s, 1, keep)
            u == SubSeq(s, n + 1, Len(s))
            v == SubSeq(s, keep + 1, n)
            z == ToFree(s, n, keep)
<1>1. PICK l \in Nat : Len(s) = l
  OBVIOUS
<1>2. a \in Seq(Block) /\ Len(a) = keep /\ \A i \in 1 .. keep : a[i] = s[i]
  BY <1>1
<1>3. u \in Seq(Block) /\ Len(u) = l - n /\ \A i \in 1 .. l - n : u[i] = s[n + i]
  BY <1>1
<1>4. v \in Seq(Block) /\ Len(v) = n - keep /\ \A i \in 1 .. n - keep : v[i] = s[keep + i]
  BY <1>1
<1>5. z = u \o v
  BY DEF ToFree
<1>. HIDE DEF a, u, v, z
<1>6. /\ z \in Seq(Block) /\ Len(z) = (l - n) + (n - keep)
      /\ \A i \in 1 .. l - n : z[i] = u[i]
      /\ \A i \in 1 .. n - keep : z[(l - n) + i] = v[i]
  <2>1. l - n \in Nat /\ n - keep \in Nat
    BY <1>1
  <2>2. z \in Seq(Block) /\ Len(z) = (l - n) + (n - keep)
    <3>0. u \in Seq(Block) /\ v \in Seq(Block)
      BY <1>3, <1>4
    <3>1. z \in Seq(Block) /\ Len(z) = Len(u) + Len(v)
      BY <1>5, <3>0, ConcatProperties
    <3>. QED
      BY <1>3, <1>4, <3>1
  <2>3. \A i \in 1 .. l - n : z[i] = u[i]
    BY <1>3, <1>4, <1>5, <2>1
  <2>4. ASSUME NEW i \in 1 .. n - keep PROVE z[(l - n) + i] = v[i]
    BY <1>3, <1>4, <1>5, <2>1
  <2>. QED
    BY <2>2, <2>3, <2>4
<1>7. /\ Len(z) = l - keep
      /\ \A i \in 1 .. l - n : z[i] = s[n + i]
      /\ \A i \in l - n + 1 .. l - keep : z[i] = s[keep + (i - (l - n))]
  <2>1. ASSUME NEW i \in l - n + 1 .. l - keep PROVE z[i] = s[keep + (i - (l - n))]
    <3>1. i - (l - n) \in 1 .. n - keep /\ (l - n) + (i - (l - n)) = i
      BY <1>1
    <3>. QED
      BY <1>4, <1>6, <3>1
  <2>2. \A i \in 1 .. l - n : z[i] = s[n + i]
    BY <1>3, <1>6
  <2>. QED
    BY <1>1, <1>6, <2>1, <2>2
<1>8. Distinct(a)
  BY <1>1, <1>2 DEF Distinct
<1>9. \A i \in 1 .. l - keep :
        \E j \in keep + 1 .. l : /\ z[i] = s[j]
                                 /\ j = IF i <= l - n THEN n + i ELSE keep + (i - (l - n))
  BY <1>1, <1>7
<1>10. Distinct(z)
  <2>1. SUFFICES ASSUME NEW i \in 1 .. l - keep, NEW j \in 1 .. l - keep, z[i] = z[j]
                 PROVE  i = j
    BY <1>7 DEF Distinct
  <2>2. PICK x \in keep + 1 .. l : z[i] = s[x] /\ x = IF i <= l - n THEN n + i ELSE keep + (i - (l - n))
    BY <1>9
  <2>3. PICK y \in keep + 1 .. l : z[j] = s[y] /\ y = IF j <= l - n THEN n + j ELSE keep + (j - (l - n))
    BY <1>9
  <2>4. x \in 1 .. Len(s) /\ y \in 1 .. Len(s) /\ s[x] = s[y]
    <3>1. \A k \in keep + 1 .. l : k \in 1 .. l
      BY <1>1
    <3>2. x \in 1 .. l /\ y \in 1 .. l
      BY <3>1
    <3>3. s[x] = s[y]
      BY <2>1, <2>2, <2>3
    <3>. QED
      BY <1>1, <3>2, <3>3
  <2>5. x = y
    BY <2>4 DEF Distinct
  <2>. QED
    BY <1>1, <2>2, <2>3, <2>5
<1>11. ASSUME NEW c PROVE ~(Lists(a, c) /\ Lists(z, c))
  <2>1. SUFFICES ASSUME NEW i \in 1 .. keep, NEW j \in 1 .. l - keep, a[i] = c, z[j] = c
                 PROVE  FALSE
    BY <1>2, <1>7 DEF Lists
  <2>2. PICK x \in keep + 1 .. l : z[j] = s[x]
    BY <1>9
  <2>. QED
    BY <1>1, <1>2, <2>1, <2>2 DEF Distinct
<1>12. ASSUME NEW c PROVE Lists(s, c) <=> Lists(a, c) \/ Lists(z, c)
  <2>1. ASSUME Lists(a, c) PROVE Lists(s, c)
    BY <1>1, <1>2, <2>1 DEF Lists
  <2>2. ASSUME Lists(z, c) PROVE Lists(s, c)
    <3>1. PICK i \in 1 .. l - keep : z[i] = c
      BY <1>7, <2>2 DEF Lists
    <3>2. PICK x \in keep + 1 .. l : z[i] = s[x]
      BY <1>9
    <3>. QED
      BY <1>1, <3>1, <3>2 DEF Lists
  <2>3. ASSUME NEW x \in 1 .. l, s[x] = c PROVE Lists(a, c) \/ Lists(z, c)
    <3>1. CASE x <= keep
      BY <1>2, <2>3, <3>1 DEF Lists
    <3>2. CASE keep < x /\ x <= n
      <4>1. x - keep + (l - n) \in l - n + 1 .. l - keep
        BY <1>1, <3>2
      <4>2. z[x - keep + (l - n)] = s[x]
        BY <1>1, <1>7, <4>1
      <4>3. x - keep + (l - n) \in 1 .. Len(z)
        BY <1>1, <1>7, <4>1
      <4>. QED
        BY <2>3, <4>2, <4>3 DEF Lists
    <3>3. CASE n < x
      <4>1. x - n \in 1 .. l - n /\ x - n \in 1 .. Len(z) /\ n + (x - n) = x
        BY <1>1, <1>7, <3>3
      <4>2. z[x - n] = s[x]
        BY <1>7, <4>1
      <4>. QED
        BY <2>3, <4>1, <4>2 DEF Lists
    <3>. QED
      BY <1>1, <3>1, <3>2, <3>3
  <2>. QED
    BY <1>1, <2>1, <2>2, <2>3 DEF Lists
<1>. QED
  BY <1>2, <1>6, <1>8, <1>10, <1>11, <1>12 DEF a, z

LEMMA RefsOfReconstruct ==
  ASSUME RefsInv, NEW n \in 0 .. MaxBlocks, NEW refused \in BOOLEAN, NEW rebuilt \in BOOLEAN,
         Reconstruct(n, refused, rebuilt)
  PROVE  Refs'
<1>. DEFINE r == job.r
            s == table[r]
            data == [i \in 1 .. n |-> files[block_hash[s[i]]]]
            keep == Kept(r, data, rebuilt)
            left == ToFree(s, n, keep)
<1>1. /\ job.at = "share" /\ n <= Len(s) /\ UNCHANGED stage
      /\ (UNCHANGED vars) \/ ForgetHash(r, s[n + 1])
      /\ table' = [table EXCEPT ![r] = SubSeq(s, 1, keep)]
      /\ job'   = [at |-> "drop", r |-> r, blocks |-> left]
  BY Zenon DEF Reconstruct
<1>2. UNCHANGED held
  BY <1>1 DEF vars, ForgetHash
<1>3. keep \in 0 .. n
  BY KeptFits
<1>4. r \in Request /\ Busy(r)
  BY <1>1, JobAtWork
<1>. HIDE DEF keep, data
<1>5. s \in Seq(Block) /\ Distinct(s) /\ RefsOf(r) /\ n \in 0 .. Len(s)
  BY <1>1, <1>4, RefsTyped DEF RefsOf
<1>. DEFINE a == SubSeq(s, 1, keep)
<1>6. /\ a \in Seq(Block) /\ left \in Seq(Block) /\ Distinct(a) /\ Distinct(left)
      /\ \A c : Lists(s, c) <=> Lists(a, c) \/ Lists(left, c)
      /\ \A c : ~(Lists(a, c) /\ Lists(left, c))
  BY <1>3, <1>5, CutListed
<1>7. /\ table'[r] = a /\ stage'[r] = stage[r] /\ held'[r] = held[r] /\ job' # Idle
      /\ job'.at = "drop" /\ job'.r = r /\ job'.blocks = left
  BY <1>1, <1>2, <1>4, RefsTyped DEF Idle
<1>8. s = table[r] /\ job.at = "share" /\ job.r = r
  BY <1>1
<1>9. \A x \in Request \ {r} : held'[x] = held[x] /\ table'[x] = table[x]
  BY <1>1, <1>2, <1>4, RefsTyped
<1>10. stage' = [stage EXCEPT ![r] = stage[r]] /\ stage[r] \in {"none", "adding", "queued"}
  BY <1>1, <1>4, RefsTyped
<1>11. PICK q \in Request : q = r
  BY <1>4
<1>. HIDE DEF a, left, s, r
<1>12. RefsOf(q)'
  BY <1>4, <1>5, <1>6, <1>7, <1>8, <1>11 DEF RefsOf, Listed, Busy
<1>. QED
  BY <1>7, <1>8, <1>9, <1>10, <1>11, <1>12, OthersKept

LEMMA RefsOfStore ==
  ASSUME RefsInv,
         \/ \E r \in Request, more \in BOOLEAN :
              \E snaps \in SUBSET (1 .. Len(Units(r))) : StoreBegins(r, snaps, more)
         \/ \E b \in Block : StoreShares(b) \/ StoreAllocates(b)
         \/ StoreRegisters \/ StoreSaves
  PROVE  Refs'
<1>1. ASSUME NEW r \in Request, NEW more, NEW snaps, StoreBegins(r, snaps, more) PROVE Refs'
  <2>1. /\ job = Idle /\ stage[r] = "queued" /\ UNCHANGED <<held, table, stage>>
        /\ \E m : job' = [at |-> "store", r |-> r, snaps |-> snaps, more |-> more, end |-> m]
    BY <1>1, Zenon DEF StoreBegins, vars
  <2>2. stage' = [stage EXCEPT ![r] = "queued"]
    BY <2>1, RefsTyped
  <2>3. job'.at = "store" /\ job'.r = r
    BY <2>1
  <2>4. job' # Idle
    BY <2>3 DEF Idle
  <2>. QED
    BY <2>1, <2>2, <2>3, <2>4, RefsStart
<1>2. ASSUME NEW b \in Block, StoreShares(b) PROVE Refs'
  <2>1. /\ job.at = "store" /\ job' = job /\ UNCHANGED stage /\ b \notin held[job.r]
        /\ held' = [held EXCEPT ![job.r] = @ \cup {b}]
        /\ table' = [table EXCEPT ![job.r] = Append(@, b)]
    BY <1>2 DEF StoreShares, Storing, IncrementRef
  <2>. QED
    BY <2>1, JobAtWork, RefsClaim
<1>3. ASSUME NEW b \in Block, StoreAllocates(b) PROVE Refs'
  <2>1. /\ job.at = "store" /\ UNCHANGED stage /\ TakeBlock(b)
        /\ job' = [job EXCEPT !.at = "register"]
        /\ held' = [held EXCEPT ![job.r] = @ \cup {b}]
        /\ table' = [table EXCEPT ![job.r] = Append(@, b)]
    BY <1>3 DEF StoreAllocates, Storing, AllocateBlock
  <2>2. job \in Store
    BY <2>1, JobKinds DEF RefsInv
  <2>3. job'.at = "register" /\ job'.r = job.r /\ job' # Idle
    BY <2>1, <2>2 DEF Idle, Store
  <2>4. b \notin held[job.r]
    BY <2>1, JobAtWork, Taken DEF RefsInv, PrefixInv
  <2>. QED
    BY <2>1, <2>3, <2>4, JobAtWork, RefsClaim
<1>4. CASE StoreRegisters
  <2>1. job.at = "register" /\ job' = [job EXCEPT !.at = "save"] /\ UNCHANGED <<held, table, stage>>
    BY <1>4 DEF StoreRegisters, RegisterBlockHash
  <2>2. job \in Store
    BY <2>1, JobKinds DEF RefsInv
  <2>3. job'.at = "save" /\ job'.r = job.r /\ job' # Idle
    BY <2>1, <2>2 DEF Idle, Store
  <2>. QED
    BY <2>1, <2>3, JobAtWork, RefsGoOn
<1>5. CASE StoreSaves
  <2>1. job.at = "save" /\ job' = [job EXCEPT !.at = "store"] /\ UNCHANGED <<held, table, stage>>
    BY <1>5 DEF StoreSaves, vars
  <2>2. job \in Store
    BY <2>1, JobKinds DEF RefsInv
  <2>3. job'.at = "store" /\ job'.r = job.r /\ job' # Idle
    BY <2>1, <2>2 DEF Idle, Store
  <2>. QED
    BY <2>1, <2>3, JobAtWork, RefsGoOn
<1>. QED
  BY <1>1, <1>2, <1>3, <1>4, <1>5

\* A block whose save failed leaves the table with its reference.
LEMMA RefsOfStoreFails ==
  ASSUME RefsInv, StoreFails
  PROVE  Refs'
<1>. DEFINE r == job.r
            s == table[r]
            f == Ext!Front(s)
            l == Ext!Last(s)
<1>1. /\ job.at = "save" /\ UNCHANGED stage
      /\ held' = [held EXCEPT ![r] = @ \ {l}]
      /\ table' = [table EXCEPT ![r] = f]
      /\ job' = [job EXCEPT !.at = "store", !.end = Len(s) - 1]
  BY DEF StoreFails, FreeBlock, FreeLast, FreeShared
<1>2. job \in Store
  BY <1>1, JobKinds DEF RefsInv
<1>3. r \in Request /\ Busy(r)
  BY <1>1, JobAtWork
<1>4. job'.at = "store" /\ job'.r = r /\ job' # Idle
  BY <1>1, <1>2 DEF Idle, Store
<1>5. s \in Seq(Block) /\ Len(s) # 0 /\ Distinct(s) /\ RefsOf(r)
  BY <1>1, <1>2, <1>3, StoringNow, RefsTyped DEF RefsInv, RefsOf
<1>6. /\ Distinct(f) /\ Lists(s, l) /\ l \in Block
      /\ \A c : Lists(f, c) <=> Lists(s, c) /\ c # l
  BY <1>5, FrontListed
<1>7. /\ table'[r] = f /\ stage'[r] = stage[r] /\ held'[r] = held[r] \ {l}
      /\ stage' = [stage EXCEPT ![r] = stage[r]] /\ stage[r] \in {"none", "adding", "queued"}
      /\ \A x \in Request \ {r} : held'[x] = held[x] /\ table'[x] = table[x]
  BY <1>1, <1>3, RefsTyped
<1>8. s = table[r] /\ job.r = r
  OBVIOUS
<1>9. PICK q \in Request : q = r
  BY <1>3
<1>. HIDE DEF s, f, l, r
<1>10. RefsOf(q)'
  BY <1>1, <1>3, <1>4, <1>5, <1>6, <1>7, <1>8, <1>9 DEF RefsOf, Listed, Busy
<1>. QED
  BY <1>4, <1>7, <1>8, <1>9, <1>10, OthersKept

LEMMA RefsOfExit ==
  ASSUME RefsInv, StoreEnds \/ (\E r \in Request : ExitBegins(r)) \/ Exit
  PROVE  Refs'
<1>1. CASE StoreEnds
  <2>1. /\ job.at = "store" /\ UNCHANGED <<held, table, stage>>
        /\ job' = [at |-> "release", r |-> job.r, blocks |-> table[job.r]]
    BY <1>1 DEF StoreEnds, vars
  <2>2. PICK q \in Request : q = job.r /\ Busy(q)
    BY <2>1, JobAtWork
  <2>3. job' # Idle /\ job'.at = "release" /\ job'.r = q /\ job'.blocks = table[q]
    BY <2>1, <2>2 DEF Idle
  <2>4. RefsOf(q)'
    BY <2>1, <2>2, <2>3, RefsTyped DEF RefsOf, Listed, Busy
  <2>5. stage' = [stage EXCEPT ![q] = stage[q]] /\ stage[q] \in {"none", "adding", "queued"}
    BY <2>1, RefsTyped
  <2>. QED
    BY <2>1, <2>2, <2>3, <2>4, <2>5, OthersKept
<1>2. ASSUME NEW r \in Request, ExitBegins(r) PROVE Refs'
  <2>1. /\ job = Idle /\ stage[r] = "queued" /\ UNCHANGED <<held, table, stage>>
        /\ job' = [at |-> "release", r |-> r, blocks |-> table[r]]
    BY <1>2 DEF ExitBegins, vars
  <2>2. stage' = [stage EXCEPT ![r] = "queued"]
    BY <2>1, RefsTyped
  <2>3. job' # Idle /\ job'.at = "release" /\ job'.r = r /\ job'.blocks = table[r]
    BY <2>1 DEF Idle
  <2>. QED
    BY <2>1, <2>2, <2>3, RefsStart
<1>3. CASE Exit
  <2>1. /\ job.at = "release" /\ job.blocks = << >> /\ UNCHANGED held /\ job' = Idle
        /\ stage' = [stage EXCEPT ![job.r] = "none"]
        /\ table' = [table EXCEPT ![job.r] = << >>]
    BY <1>3 DEF Exit, vars
  <2>2. PICK q \in Request : q = job.r /\ Busy(q)
    BY <2>1, JobAtWork
  <2>3. held[q] = {}
    BY <2>1, <2>2, RefsTyped DEF RefsOf, Listed, Busy, Lists
  <2>4. table'[q] = << >> /\ stage'[q] = "none" /\ held'[q] = {}
    BY <2>1, <2>2, <2>3, RefsTyped
  <2>5. RefsOf(q)'
    BY <2>1, <2>4 DEF RefsOf, Listed, Busy, Lists, Distinct
  <2>6. \A x \in Request \ {q} : held'[x] = held[x] /\ table'[x] = table[x]
    BY <2>1, <2>2, RefsTyped
  <2>. QED
    BY <2>1, <2>2, <2>5, <2>6, OthersKept
<1>. QED
  BY <1>1, <1>2, <1>3

\* A request that is not under way and holds nothing.
LEMMA NothingHeld ==
  ASSUME NEW r \in Request, job = Idle, held[r] = {}, table[r] = << >>
  PROVE  RefsOf(r)
BY DEF RefsOf, Listed, Busy, Lists, Distinct

LEMMA RefsOfRest ==
  ASSUME RefsInv, (\E h \in Hash : Forget(h)) \/ ClearAll \/ UNCHANGED prefixVars
  PROVE  Refs'
<1>1. CASE (\E h \in Hash : Forget(h)) \/ UNCHANGED prefixVars
  <2>1. UNCHANGED <<held, table, stage, job>>
    BY <1>1 DEF Forget, prefixVars, vars
  <2>. QED
    BY <2>1 DEF RefsInv, Refs, RefsOf, Listed, Busy
<1>2. CASE ClearAll
  <2>1. /\ job' = Idle /\ UNCHANGED <<table, stage>> /\ held' = [r \in Request |-> {}]
        /\ \A r \in Request : stage[r] = "none"
    BY <1>2 DEF ClearAll, Clear
  <2>2. ASSUME NEW r \in Request PROVE RefsOf(r)'
    <3>1. table'[r] = << >> /\ held'[r] = {} /\ job' = Idle
      BY <2>1, RefsTyped DEF RefsOf
    <3>. QED
      BY <3>1 DEF RefsOf, Listed, Busy, Lists, Distinct
  <2>. QED
    BY <2>1, <2>2 DEF RefsInv, Refs
<1>. QED
  BY <1>1, <1>2

LEMMA RefsStep ==
  ASSUME HashesClosed, RefsInv, [PrefixNext]_prefixVars
  PROVE  RefsInv'
<1>1. PrefixInv'
  BY PrefixStep DEF RefsInv
<1>2. Refs'
  BY RefsOfLookup, RefsOfShare, RefsOfReconstruct, RefsOfDrop, RefsOfStore, RefsOfStoreFails,
     RefsOfExit, RefsOfRest DEF PrefixNext
<1>. QED
  BY <1>1, <1>2 DEF RefsInv

LEMMA RefsFromStart ==
  ASSUME PrefixInit
  PROVE  RefsInv
<1>1. \A r \in Request : held[r] = {} /\ table[r] = << >> /\ stage[r] = "none"
  BY DEF PrefixInit, Init
<1>2. job = Idle /\ stage \in [Request -> {"none", "adding", "queued"}]
  BY DEF PrefixInit
<1>3. \A r \in Request : RefsOf(r)
  BY <1>1, <1>2, NothingHeld
<1>. QED
  BY <1>2, <1>3, PrefixStart DEF RefsInv, Refs

\* The entries of the tables for a block are as many as its holders.
LEMMA EntriesAreHolders ==
  ASSUME RefsInv, job = Idle, NEW b \in Block
  PROVE  Cardinality({e \in Request \X (1 .. MaxBlocks) :
                        e[2] \in DOMAIN table[e[1]] /\ table[e[1]][e[2]] = b})
           = Cardinality(Holders(b))
<1>. DEFINE E == {e \in Request \X (1 .. MaxBlocks) :
                    e[2] \in DOMAIN table[e[1]] /\ table[e[1]][e[2]] = b}
            f == [e \in E |-> e[1]]
<1>1. ASSUME NEW r \in Request
      PROVE  /\ table[r] \in Seq(Block) /\ Distinct(table[r]) /\ DOMAIN table[r] = 1 .. Len(table[r])
             /\ b \in held[r] <=> Lists(table[r], b)
  BY RefsTyped DEF RefsOf, Listed, Busy
<1>2. ASSUME NEW r \in Request PROVE Len(table[r]) <= MaxBlocks
  <2>. DEFINE s == table[r]
  <2>1. s \in Seq(Block) /\ Distinct(s) /\ Len(s) \in Nat
    BY <1>1
  <2>. HIDE DEF s
  <2>2. SUFFICES ASSUME Len(s) > MaxBlocks PROVE FALSE
    BY <2>1, Nodes DEF s
  <2>3. /\ IsFiniteSet(1 .. Len(s)) /\ Cardinality(1 .. Len(s)) = Len(s)
        /\ IsFiniteSet(Block) /\ Cardinality(Block) = MaxBlocks
    <3>1. IsFiniteSet(1 .. Len(s)) /\ Cardinality(1 .. Len(s)) = IF 1 > Len(s) THEN 0 ELSE Len(s) - 1 + 1
      BY <2>1, FS_Interval
    <3>2. MaxBlocks - 1 \in Int /\ MaxBlocks \in Nat \ {0}
      BY Nodes
    <3>3. IsFiniteSet(Block) /\ Cardinality(Block) = IF 0 > MaxBlocks - 1 THEN 0 ELSE MaxBlocks - 1 - 0 + 1
      BY <3>2, FS_Interval DEF Block
    <3>. QED
      BY <2>1, <3>1, <3>2, <3>3
  <2>4. s \in [1 .. Len(s) -> Block]
    BY <2>1
  <2>5. \E x, y \in 1 .. Len(s) : x # y /\ s[x] = s[y]
    BY <2>2, <2>3, <2>4, FS_PigeonHole
  <2>. QED
    BY <2>1, <2>5 DEF Distinct
<1>3. ASSUME NEW e \in E
      PROVE  /\ e = <<e[1], e[2]>> /\ e[1] \in Request /\ e[2] \in 1 .. Len(table[e[1]])
             /\ table[e[1]][e[2]] = b
  BY <1>1
<1>4. f \in [E -> Holders(b)]
  <2>1. ASSUME NEW e \in E PROVE e[1] \in Holders(b)
    BY <1>1, <1>3 DEF Holders, Lists
  <2>. QED
    BY <2>1, Zenon
<1>5. ASSUME NEW e \in E, NEW d \in E, f[e] = f[d] PROVE e = d
  <2>1. e[1] = d[1]
    BY <1>5
  <2>2. e[2] = d[2]
    BY <1>1, <1>3, <2>1 DEF Distinct
  <2>. QED
    BY <1>3, <2>1, <2>2
<1>6. ASSUME NEW r \in Holders(b) PROVE \E e \in E : f[e] = r
  <2>1. r \in Request /\ Lists(table[r], b)
    BY <1>1 DEF Holders
  <2>2. PICK i \in 1 .. Len(table[r]) : table[r][i] = b
    BY <2>1 DEF Lists
  <2>3. i \in 1 .. MaxBlocks /\ i \in DOMAIN table[r]
    BY <1>1, <1>2, <2>1, Nodes
  <2>4. <<r, i>> \in E
    BY <2>1, <2>2, <2>3
  <2>. QED
    BY <2>4
<1>. HIDE DEF E, f
<1>7. f \in Bijection(E, Holders(b))
  BY <1>4, <1>5, <1>6 DEF Bijection, Injection, Surjection, IsInjective
<1>8. ExistsBijection(E, Holders(b))
  BY <1>7 DEF ExistsBijection
<1>9. IsFiniteSet(E)
  <2>1. IsFiniteSet(1 .. MaxBlocks)
    BY FS_Interval, Nodes
  <2>2. IsFiniteSet(Request \X (1 .. MaxBlocks))
    BY <2>1, FS_Product, PagedCacheAssumption
  <2>. QED
    BY <2>2, FS_Subset DEF E
<1>10. Cardinality(Holders(b)) = Cardinality(E)
  BY <1>8, <1>9, FS_Bijection
<1>. QED
  BY <1>10 DEF E

\* Between calls, the references in the pool are those of the tables: no exit,
\* cut, rollback or walk back leaks one or gives one back twice (fetch_cache,
\* reconstruct_cache, store_cache and release_for_eviction).
THEOREM PrefixTablesHoldRefs ==
  ASSUME HashesClosed
  PROVE  PrefixSpec => []TablesHoldRefs
<1>1. PrefixInit => RefsInv
  BY RefsFromStart
<1>2. RefsInv /\ [PrefixNext]_prefixVars => RefsInv'
  BY RefsStep
<1>3. RefsInv => TablesHoldRefs
  BY EntriesAreHolders DEF TablesHoldRefs, RefsInv, PrefixInv, Inv, RefCountExact
<1>. QED
  BY <1>1, <1>2, <1>3, PTL DEF PrefixSpec

-----------------------------------------------------------------------------
(* Files and what requests loaded from them.                               *)

FitsOf(r) ==
  /\ stage[r] = "none" => loaded[r] = << >> /\ r \notin by_index
  /\ Len(loaded[r]) <= Len(table[r])
  /\ ~Busy(r) \/ job.at = "drop" => Len(loaded[r]) = Len(table[r])
  /\ Busy(r) /\ job.at \in {"lookup", "share"} => loaded[r] = << >>
  /\ Busy(r) /\ job.at \in {"register", "save"} => Len(loaded[r]) < Len(table[r])

Fits ==
  /\ files \in [Hash -> Data] /\ stateful \in BOOLEAN /\ trouble \in 0 .. MaxTrouble
  /\ by_index \subseteq Request /\ loaded \in [Request -> Seq(Data)]
  /\ \A r \in Request : FitsOf(r)

FitsInv == RefsInv /\ Fits

LEMMA NoData == Never \in Data /\ Gone \in Data /\ << >> \in Seq(Data)
<1>1. << >> \in Seq(Unit) /\ << >> \in Seq(Data)
  OBVIOUS
<1>. QED
  BY <1>1 DEF Never, Gone, Data

\* A step of one request's call leaves what the others loaded alone.
LEMMA FitsOthers ==
  ASSUME FitsInv, NEW q \in Request, FitsOf(q)',
         files' \in [Hash -> Data], trouble' \in 0 .. MaxTrouble, stateful' = stateful,
         NEW d \in Seq(Data), loaded' = [loaded EXCEPT ![q] = d],
         by_index' \subseteq by_index \cup {q},
         \A r \in Request \ {q} : table'[r] = table[r] /\ stage'[r] = stage[r],
         job = Idle \/ job.r = q, job' = Idle \/ job'.r = q
  PROVE  Fits'
<1>1. ASSUME NEW r \in Request, r # q PROVE FitsOf(r)'
  <2>1. ~Busy(r) /\ ~Busy(r)'
    BY <1>1 DEF Busy
  <2>2. loaded'[r] = loaded[r] /\ table'[r] = table[r] /\ stage'[r] = stage[r] /\ FitsOf(r)
        /\ (r \in by_index' => r \in by_index)
    BY <1>1 DEF FitsInv, Fits
  <2>. QED
    BY <2>1, <2>2 DEF FitsOf
<1>2. loaded' \in [Request -> Seq(Data)] /\ by_index' \subseteq Request
  BY DEF FitsInv, Fits
<1>. QED
  BY <1>1, <1>2 DEF FitsInv, Fits

LEMMA FitsTyped ==
  ASSUME FitsInv
  PROVE  /\ files \in [Hash -> Data] /\ stateful \in BOOLEAN /\ trouble \in 0 .. MaxTrouble
         /\ by_index \subseteq Request /\ loaded \in [Request -> Seq(Data)]
         /\ \A r \in Request : FitsOf(r) /\ RefsOf(r)
         /\ \A r \in Request : table[r] \in Seq(Block) /\ loaded[r] \in Seq(Data)
         /\ table \in [Request -> Seq(Block)]
         /\ stage \in [Request -> {"none", "adding", "queued"}]
  BY RefsTyped DEF FitsInv, Fits, FitsOf

\* A step that changes neither files nor what was loaded.
LEMMA FitsOn ==
  ASSUME FitsInv, NEW q \in Request, job = Idle \/ job.r = q, job' = Idle \/ job'.r = q,
         UNCHANGED <<files, stateful, loaded, trouble>>,
         by_index' \subseteq by_index \cup {q},
         \A r \in Request \ {q} : table'[r] = table[r] /\ stage'[r] = stage[r],
         Len(loaded[q]) <= Len(table'[q]),
         stage'[q] # "none",
         ~Busy(q)' \/ job'.at = "drop" => Len(loaded[q]) = Len(table'[q]),
         Busy(q)' /\ job'.at \in {"lookup", "share"} => loaded[q] = << >>,
         Busy(q)' /\ job'.at \in {"register", "save"} => Len(loaded[q]) < Len(table'[q])
  PROVE  Fits'
<1>1. loaded' = [loaded EXCEPT ![q] = loaded[q]] /\ loaded[q] \in Seq(Data)
  BY DEF FitsInv, Fits
<1>2. FitsOf(q)'
  BY <1>1 DEF FitsOf
<1>. QED
  BY <1>1, <1>2, FitsOthers, FitsTyped

\* Which blocks come to the table of the request, and which step its call is at.
LEMMA FitsOfFetch ==
  ASSUME FitsInv,
         \/ \E r \in Request, p \in Prompts : FetchBegins(r, p)
         \/ \E b \in Block : LookupFinds(b) \/ LookupRestores(b)
         \/ LookupHits \/ LookupFallsBack \/ Share \/ FetchEmpty
  PROVE  Fits'
<1>1. ASSUME NEW r \in Request, NEW p \in Prompts, FetchBegins(r, p) PROVE Fits'
  <2>1. /\ job = Idle /\ stage[r] = "none" /\ stage' = [stage EXCEPT ![r] = "adding"]
        /\ job' = [at |-> "lookup", r |-> r, found |-> << >>]
        /\ UNCHANGED <<files, stateful, table, loaded, by_index, trouble>>
    BY <1>1 DEF FetchBegins
  <2>2. loaded[r] = << >> /\ Len(loaded[r]) = Len(table[r])
    BY <2>1, FitsTyped DEF FitsOf, RefsOf
  <2>3. stage'[r] = "adding" /\ job'.r = r /\ job'.at = "lookup" /\ Busy(r)'
    BY <2>1, FitsTyped DEF Busy, Idle
  <2>4. \A x \in Request \ {r} : table'[x] = table[x] /\ stage'[x] = stage[x]
    BY <2>1, FitsTyped
  <2>. QED
    BY <2>1, <2>2, <2>3, <2>4, FitsTyped, FitsOn
<1>2. ASSUME NEW q \in Request, job.r = q, job # Idle, job.at \in {"lookup", "share"},
             job' # Idle, job'.r = q, job'.at \in {"lookup", "share"},
             UNCHANGED <<files, stateful, loaded, trouble, stage>>,
             by_index' \subseteq by_index \cup {q},
             UNCHANGED table \/ \E b \in Block : table' = [table EXCEPT ![q] = Append(@, b)]
      PROVE  Fits'
  <2>1. Busy(q) /\ loaded[q] = << >> /\ stage[q] # "none" /\ Len(table'[q]) \in Nat
    BY <1>2, FitsTyped DEF FitsOf, RefsOf, Busy
  <2>2. Busy(q)' /\ \A x \in Request \ {q} : table'[x] = table[x] /\ stage'[x] = stage[x]
    BY <1>2, FitsTyped DEF Busy
  <2>. QED
    BY <1>2, <2>1, <2>2, FitsTyped, FitsOn
<1>3. ASSUME NEW q \in Request, job.r = q, job # Idle, job.at \in {"lookup", "share"},
             job' = Idle, stage' = [stage EXCEPT ![q] = "queued"],
             UNCHANGED <<files, stateful, loaded, trouble, by_index, table>>, table[q] = << >>
      PROVE  Fits'
  <2>1. Busy(q) /\ loaded[q] = << >> /\ Len(table'[q]) = 0 /\ stage'[q] = "queued" /\ ~Busy(q)'
    BY <1>3, FitsTyped DEF FitsOf, RefsOf, Busy
  <2>2. \A x \in Request \ {q} : table'[x] = table[x] /\ stage'[x] = stage[x]
    BY <1>3, FitsTyped
  <2>. QED
    BY <1>3, <2>1, <2>2, FitsTyped, FitsOn
<1>4. ASSUME job.at \in {"lookup", "share"}
      PROVE  job.r \in Request /\ job # Idle /\ job \in Fetch
             /\ (job.at = "lookup" => table[job.r] = << >>)
  BY <1>4, JobAtWork, JobKinds, FitsTyped DEF FitsInv, RefsInv, RefsOf
<1>5. ASSUME NEW b \in Block, LookupFinds(b) \/ LookupRestores(b) PROVE Fits'
  <2>1. /\ job.at = "lookup" /\ job' = [job EXCEPT !.found = Append(@, b)]
        /\ UNCHANGED <<files, stateful, loaded, trouble, stage, by_index, table>>
    BY <1>5 DEF LookupFinds, LookupRestores, Looking
  <2>2. job'.at = "lookup" /\ job'.r = job.r /\ job' # Idle
    BY <1>4, <2>1 DEF Idle, Fetch
  <2>. QED
    BY <1>2, <1>4, <2>1, <2>2
<1>6. CASE LookupHits
  <2>1. /\ job.at = "lookup" /\ job' = [job EXCEPT !.at = "share"]
        /\ UNCHANGED <<files, stateful, loaded, trouble, stage, by_index, table>>
    BY <1>6 DEF LookupHits, LookupEnds
  <2>2. job'.at = "share" /\ job'.r = job.r /\ job' # Idle
    BY <1>4, <2>1 DEF Idle, Fetch
  <2>. QED
    BY <1>2, <1>4, <2>1, <2>2
<1>7. CASE LookupFallsBack
  <2>1. /\ job.at = "lookup" /\ UNCHANGED <<files, stateful, loaded, trouble, table>>
        /\ \/ /\ stage' = [stage EXCEPT ![job.r] = "queued"] /\ job' = Idle
              /\ UNCHANGED by_index
           \/ /\ \E m : job' = [at |-> "share", r |-> job.r, found |-> m]
              /\ by_index' = by_index \cup {job.r} /\ UNCHANGED stage
    BY <1>7, Zenon DEF LookupFallsBack, LookupEnds
  <2>2. CASE stage' = [stage EXCEPT ![job.r] = "queued"] /\ job' = Idle /\ UNCHANGED by_index
    BY <1>3, <1>4, <2>1, <2>2
  <2>3. ASSUME NEW m, job' = [at |-> "share", r |-> job.r, found |-> m],
               by_index' = by_index \cup {job.r}, UNCHANGED stage
        PROVE  Fits'
    <3>1. job'.at = "share" /\ job'.r = job.r /\ job' # Idle
      BY <2>3 DEF Idle
    <3>. QED
      BY <1>2, <1>4, <2>1, <2>3, <3>1
  <2>. QED
    BY <2>1, <2>2, <2>3
<1>8. CASE Share
  <2>1. /\ job.at = "share" /\ job.found # << >> /\ job' = [job EXCEPT !.found = Tail(@)]
        /\ \/ table' = [table EXCEPT ![job.r] = Append(@, Head(job.found))]
           \/ UNCHANGED table
        /\ UNCHANGED <<files, stateful, loaded, trouble, stage, by_index>>
    BY <1>8 DEF Share
  <2>2. job'.at = "share" /\ job'.r = job.r /\ job' # Idle /\ Head(job.found) \in Block
    BY <1>4, <2>1 DEF Idle, Fetch
  <2>. QED
    BY <1>2, <1>4, <2>1, <2>2
<1>9. CASE FetchEmpty
  BY <1>3, <1>4, <1>9 DEF FetchEmpty
<1>. QED
  BY <1>1, <1>5, <1>6, <1>7, <1>8, <1>9

\* What store_cache writes for a block is data, and not nothing.
LEMMA BlockDataTyped ==
  ASSUME FitsInv, job.at = "save"
  PROVE  BlockData \in Data /\ BlockData.kv # << >>
<1>. DEFINE r == job.r
            i == Len(table[r])
            k == Len(loaded[r])
            a == IF k = 0 THEN << >> ELSE loaded[r][k].kv
            u == SubSeq(Units(r), k + 1, i)
            c == Computed(r, i)
<1>1. job \in Store /\ r \in Request /\ Busy(r) /\ job.more \in BOOLEAN
  BY JobAtWork, JobKinds DEF FitsInv, RefsInv, Store
<1>2. i \in 1 .. Len(Units(r)) /\ Units(r) \in Seq(Unit) /\ Len(Units(r)) \in Nat
  BY <1>1, StoringNow DEF FitsInv, RefsInv
<1>3. k < i /\ k \in Nat /\ loaded[r] \in Seq(Data)
  BY <1>1, FitsTyped DEF FitsOf
<1>. HIDE DEF r, i, k
<1>4. a \in Seq(Unit)
  <2>1. CASE k = 0
    BY <2>1
  <2>2. CASE k # 0
    <3>1. loaded[r][k] \in Data
      BY <1>3, <2>2 DEF k
    <3>. QED
      BY <2>2, <3>1 DEF Data
  <2>. QED
    BY <2>1, <2>2
<1>5. u \in Seq(Unit) /\ Len(u) \in Nat \ {0}
  BY <1>2, <1>3
<1>6. c = a \o u
  <2>1. ~(i <= Len(loaded[r]))
    BY <1>2, <1>3 DEF k
  <2>. QED
    BY <2>1, Zenon DEF Computed, k
<1>. HIDE DEF a, u, c
<1>7. c \in Seq(Unit) /\ c # << >>
  BY <1>4, <1>5, <1>6
<1>8. StateOf(r, i) \in Seq(Unit)
  <2>1. << >> \in Seq(Unit)
    OBVIOUS
  <2>. QED
    BY <1>7, <2>1 DEF StateOf, c
<1>9. (stateful /\ i = job.end /\ job.more) \in BOOLEAN
  OBVIOUS
<1>10. BlockData = [kv |-> c, at |-> StateOf(r, i), beyond |-> stateful /\ i = job.end /\ job.more]
  BY DEF BlockData, SliceOf, r, i, c
<1>. QED
  BY <1>7, <1>8, <1>9, <1>10 DEF Data

LEMMA FitsOfStore ==
  ASSUME FitsInv,
         \/ \E r \in Request, more \in BOOLEAN :
              \E snaps \in SUBSET (1 .. Len(Units(r))) : StoreBegins(r, snaps, more)
         \/ \E b \in Block : StoreShares(b) \/ StoreAllocates(b)
         \/ StoreRegisters \/ StoreEnds
         \/ \E r \in Request : ExitBegins(r)
         \/ Drop \/ Release \/ Queued
  PROVE  Fits'
<1>. USE DEF Idle
<1>1. ASSUME NEW r \in Request, NEW more, NEW snaps, StoreBegins(r, snaps, more) PROVE Fits'
  <2>1. /\ job = Idle /\ stage[r] = "queued"
        /\ UNCHANGED <<files, stateful, stage, table, loaded, by_index>>
        /\ trouble' \in 0 .. MaxTrouble
    <3>1. trouble \in 0 .. MaxTrouble /\ MaxTrouble \in Nat
      BY PrefixAssumption, FitsTyped
    <3>. QED
      BY <1>1, <3>1 DEF StoreBegins, Trouble
  <2>2. \E m : job' = [at |-> "store", r |-> r, snaps |-> snaps, more |-> more, end |-> m]
    BY <1>1, Zenon DEF StoreBegins
  <2>3. job'.at = "store" /\ job'.r = r /\ Busy(r)' /\ ~Busy(r)
    BY <2>1, <2>2 DEF Busy
  <2>4. FitsOf(r)'
    BY <2>1, <2>3, FitsTyped DEF FitsOf
  <2>5. loaded' = [loaded EXCEPT ![r] = loaded[r]]
    BY <2>1, FitsTyped
  <2>. QED
    BY <2>1, <2>3, <2>4, <2>5, FitsOthers, FitsTyped
<1>2. ASSUME NEW r \in Request, ExitBegins(r) PROVE Fits'
  <2>1. /\ job = Idle /\ stage[r] = "queued"
        /\ UNCHANGED <<files, stateful, stage, table, loaded, by_index, trouble>>
        /\ job' = [at |-> "release", r |-> r, blocks |-> table[r]]
    BY <1>2 DEF ExitBegins
  <2>2. job'.at = "release" /\ job'.r = r /\ Busy(r)' /\ ~Busy(r)
    BY <2>1 DEF Busy
  <2>. QED
    BY <2>1, <2>2, FitsOn, FitsTyped DEF FitsOf
<1>3. ASSUME job.at # "idle"
      PROVE  /\ job.r \in Request /\ Busy(job.r) /\ stage[job.r] # "none"
             /\ FitsOf(job.r) /\ table[job.r] \in Seq(Block)
             /\ job.at = "store" => job \in Store
             /\ job.at = "register" => job \in Store
             /\ job.at \in {"drop", "release"} => job \in Free
  BY <1>3, JobAtWork, JobKinds, FitsTyped DEF FitsInv, RefsInv, RefsOf
<1>4. ASSUME NEW b \in Block, StoreShares(b) \/ StoreAllocates(b) PROVE Fits'
  <2>1. /\ job.at = "store" /\ UNCHANGED <<files, stateful, stage, loaded, by_index, trouble>>
        /\ table' = [table EXCEPT ![job.r] = Append(@, b)]
        /\ \/ job' = job
           \/ job' = [job EXCEPT !.at = "register"]
    BY <1>4 DEF StoreShares, StoreAllocates, Storing
  <2>2. job'.at \in {"store", "register"} /\ job'.r = job.r /\ Busy(job.r)'
    BY <1>3, <2>1 DEF Busy, Store
  <2>3. Len(table'[job.r]) = Len(table[job.r]) + 1 /\ Len(table[job.r]) \in Nat /\ Len(loaded[job.r]) \in Nat
        /\ \A x \in Request \ {job.r} : table'[x] = table[x] /\ stage'[x] = stage[x]
    BY <1>3, <2>1, FitsTyped
  <2>4. Len(loaded[job.r]) <= Len(table'[job.r]) /\ Len(loaded[job.r]) < Len(table'[job.r])
    BY <1>3, <2>1, <2>3 DEF FitsOf
  <2>5. PICK q \in Request : q = job.r
    BY <1>3, <2>1
  <2>6. /\ job.r = q /\ job'.r = q /\ Busy(q)' /\ job'.at \in {"store", "register"} /\ stage'[q] # "none"
        /\ by_index' \subseteq by_index \cup {q} /\ UNCHANGED <<files, stateful, loaded, trouble>>
        /\ Len(loaded[q]) <= Len(table'[q]) /\ Len(loaded[q]) < Len(table'[q])
        /\ \A x \in Request \ {q} : table'[x] = table[x] /\ stage'[x] = stage[x]
    BY <1>3, <2>1, <2>2, <2>3, <2>4, <2>5
  <2>. QED
    BY <2>6, FitsOn
<1>5. CASE StoreRegisters
  <2>1. /\ job.at = "register" /\ job' = [job EXCEPT !.at = "save"]
        /\ UNCHANGED <<files, stateful, stage, loaded, by_index, trouble, table>>
    BY <1>5 DEF StoreRegisters
  <2>2. job'.at = "save" /\ job'.r = job.r /\ Busy(job.r)'
    BY <1>3, <2>1 DEF Busy, Store
  <2>. QED
    BY <1>3, <2>1, <2>2, FitsOn, FitsTyped DEF FitsOf
<1>6. CASE StoreEnds
  <2>1. /\ job.at = "store" /\ job' = [at |-> "release", r |-> job.r, blocks |-> table[job.r]]
        /\ UNCHANGED <<files, stateful, stage, loaded, by_index, trouble, table>>
    BY <1>6 DEF StoreEnds
  <2>2. job'.at = "release" /\ job'.r = job.r /\ Busy(job.r)'
    BY <1>3, <2>1 DEF Busy
  <2>. QED
    BY <1>3, <2>1, <2>2, FitsOn, FitsTyped DEF FitsOf
<1>7. CASE Drop \/ Release
  <2>1. /\ job.at \in {"drop", "release"} /\ job' = [job EXCEPT !.blocks = Tail(@)]
        /\ UNCHANGED <<files, stateful, stage, loaded, by_index, trouble, table>>
    BY <1>7 DEF Drop, Release
  <2>2. job'.at = job.at /\ job'.r = job.r /\ Busy(job.r)'
    BY <1>3, <2>1 DEF Busy, Free
  <2>. QED
    BY <1>3, <2>1, <2>2, FitsOn, FitsTyped DEF FitsOf
<1>8. CASE Queued
  <2>1. /\ job.at = "drop" /\ job' = Idle /\ stage' = [stage EXCEPT ![job.r] = "queued"]
        /\ UNCHANGED <<files, stateful, loaded, by_index, trouble, table>>
    BY <1>8 DEF Queued
  <2>2. ~Busy(job.r)' /\ stage'[job.r] = "queued"
        /\ \A x \in Request \ {job.r} : stage'[x] = stage[x]
    BY <1>3, <2>1, FitsTyped DEF Busy
  <2>3. PICK q \in Request : q = job.r
    BY <1>3, <2>1
  <2>. QED
    BY <1>3, <2>1, <2>2, <2>3, FitsOn, FitsTyped DEF FitsOf, Busy
<1>. QED
  BY <1>1, <1>2, <1>4, <1>5, <1>6, <1>7, <1>8

LEMMA TroubleFits ==
  ASSUME FitsInv, Trouble \/ UNCHANGED trouble
  PROVE  trouble' \in 0 .. MaxTrouble
<1>1. trouble \in 0 .. MaxTrouble /\ MaxTrouble \in Nat
  BY PrefixAssumption, FitsTyped
<1>. QED
  BY <1>1 DEF Trouble

\* The blocks that load, and their data.
LEMMA ReconstructData ==
  ASSUME FitsInv, NEW n \in 0 .. MaxBlocks, NEW refused \in BOOLEAN, NEW rebuilt \in BOOLEAN,
         Reconstruct(n, refused, rebuilt)
  PROVE  LET r    == job.r
             s    == table[r]
             data == [i \in 1 .. n |-> files[block_hash[s[i]]]]
             keep == Kept(r, data, rebuilt)
         IN  /\ r \in Request /\ Busy(r) /\ job.at = "share" /\ UNCHANGED <<stage, prompt>>
             /\ job' = [at |-> "drop", r |-> r, blocks |-> ToFree(s, n, keep)]
             /\ table' = [table EXCEPT ![r] = SubSeq(s, 1, keep)]
             /\ loaded' = [loaded EXCEPT ![r] = SubSeq(data, 1, keep)]
             /\ UNCHANGED <<stateful, by_index>>
             /\ s \in Seq(Block) /\ n <= Len(s) /\ data \in Seq(Data) /\ Len(data) = n
             /\ keep \in 0 .. n /\ keep \in {0, WalkBack(data)}
             /\ \A i \in 1 .. n : /\ s[i] \in Block /\ block_hash[s[i]] \in Hash
                                  /\ OnDisk(block_hash[s[i]])
             /\ Trouble \/ UNCHANGED trouble
             /\ \/ UNCHANGED <<vars, files>>
                \/ /\ ForgetHash(r, s[n + 1])
                   /\ files' = [files EXCEPT ![block_hash[s[n + 1]]] =
                                  IF @ = Never THEN Never ELSE Gone]
<1>. DEFINE r == job.r
            s == table[r]
            data == [i \in 1 .. n |-> files[block_hash[s[i]]]]
            keep == Kept(r, data, rebuilt)
<1>1. /\ job.at = "share" /\ n <= Len(s) /\ UNCHANGED <<stage, prompt, stateful, by_index>>
      /\ \A i \in 1 .. n : Loads(s[i])
      /\ table'  = [table EXCEPT ![r] = SubSeq(s, 1, keep)]
      /\ loaded' = [loaded EXCEPT ![r] = SubSeq(data, 1, keep)]
      /\ job'    = [at |-> "drop", r |-> r, blocks |-> ToFree(s, n, keep)]
      /\ \/ UNCHANGED <<vars, files>>
         \/ /\ ForgetHash(r, s[n + 1])
            /\ files' = [files EXCEPT ![block_hash[s[n + 1]]] = IF @ = Never THEN Never ELSE Gone]
  BY Zenon DEF Reconstruct
<1>2. Trouble \/ UNCHANGED trouble
  BY Zenon DEF Reconstruct
<1>3. r \in Request /\ Busy(r)
  BY <1>1, JobAtWork DEF FitsInv
<1>4. keep \in 0 .. n
  BY KeptFits
<1>5. keep \in {0, WalkBack(data)}
  BY Zenon DEF Kept
<1>6. s \in Seq(Block)
  BY <1>3, FitsTyped
<1>7. ASSUME NEW i \in 1 .. n
      PROVE  s[i] \in Block /\ block_hash[s[i]] \in Hash /\ OnDisk(block_hash[s[i]])
  <2>1. s[i] \in Block
    <3>0. n <= Len(s)
      BY <1>1, Zenon
    <3>. HIDE DEF s
    <3>1. n \in Nat /\ Len(s) \in Nat
      BY <1>6
    <3>2. i \in 1 .. Len(s)
      BY <3>0, <3>1
    <3>. QED
      BY <1>6, <3>2
  <2>2. block_hash[s[i]] # None /\ OnDisk(block_hash[s[i]])
    BY <1>1 DEF Loads
  <2>. QED
    BY <2>1, <2>2, BlocksOnly DEF FitsInv, RefsInv
<1>8. data \in [1 .. n -> Data]
  <2>1. ASSUME NEW i \in 1 .. n PROVE files[block_hash[s[i]]] \in Data
    BY <1>7, FitsTyped
  <2>. QED
    BY <2>1
<1>. HIDE DEF keep, s, r
<1>9. data \in Seq(Data) /\ Len(data) = n
  BY <1>8
<1>. QED
  BY <1>1, <1>2, <1>3, <1>4, <1>5, <1>6, <1>7, <1>9 DEF keep, s, r

LEMMA FitsOfReconstruct ==
  ASSUME FitsInv, NEW n \in 0 .. MaxBlocks, NEW refused \in BOOLEAN, NEW rebuilt \in BOOLEAN,
         Reconstruct(n, refused, rebuilt)
  PROVE  Fits'
<1>. DEFINE r == job.r
            s == table[r]
            data == [i \in 1 .. n |-> files[block_hash[s[i]]]]
            keep == Kept(r, data, rebuilt)
            d == SubSeq(data, 1, keep)
<1>0. PICK q \in Request : q = r
  BY ReconstructData
<1>1. /\ r \in Request /\ Busy(r) /\ UNCHANGED <<stage, stateful, by_index>>
      /\ job' = [at |-> "drop", r |-> r, blocks |-> ToFree(s, n, keep)]
      /\ table' = [table EXCEPT ![r] = SubSeq(s, 1, keep)]
      /\ loaded' = [loaded EXCEPT ![r] = d]
      /\ s \in Seq(Block) /\ n <= Len(s) /\ data \in Seq(Data) /\ Len(data) = n
      /\ keep \in 0 .. n
      /\ Trouble \/ UNCHANGED trouble
      /\ \/ UNCHANGED files
         \/ files' = [files EXCEPT ![block_hash[s[n + 1]]] = IF @ = Never THEN Never ELSE Gone]
  BY ReconstructData, Zenon
<1>2. files' \in [Hash -> Data]
  <2>. DEFINE g == block_hash[s[n + 1]]
  <2>1. CASE files' = [files EXCEPT ![g] = IF @ = Never THEN Never ELSE Gone]
    <3>. HIDE DEF g
    <3>. QED
      BY <2>1, FitsTyped, NoData
  <2>. QED
    BY <1>1, <2>1, FitsTyped
<1>3. /\ d \in Seq(Data) /\ Len(d) = keep
      /\ SubSeq(s, 1, keep) \in Seq(Block) /\ Len(SubSeq(s, 1, keep)) = keep
  <2>. HIDE DEF keep, data, s
  <2>. QED
    BY <1>1
<1>4. /\ table'[r] = SubSeq(s, 1, keep) /\ loaded'[r] = d /\ stage'[r] = stage[r]
      /\ job'.at = "drop" /\ job'.r = r /\ Busy(r)' /\ stage[r] # "none"
      /\ \A x \in Request \ {r} : table'[x] = table[x] /\ stage'[x] = stage[x]
  <2>1. job'.at = "drop" /\ job'.r = r /\ job' # Idle
    BY <1>1 DEF Idle
  <2>2. table'[r] = SubSeq(s, 1, keep) /\ stage'[r] = stage[r] /\ stage[r] # "none"
        /\ \A x \in Request \ {r} : table'[x] = table[x] /\ stage'[x] = stage[x]
    BY <1>1, FitsTyped DEF RefsOf
  <2>3. loaded'[r] = d
    BY <1>1, FitsTyped
  <2>. QED
    BY <2>1, <2>2, <2>3 DEF Busy
<1>5. trouble' \in 0 .. MaxTrouble
  BY <1>1, TroubleFits
<1>6. by_index' \subseteq by_index \cup {q} /\ stateful' = stateful /\ job.r = q
  BY <1>0, <1>1
<1>. HIDE DEF d, keep, data, s, r
<1>7. FitsOf(q)'
  BY <1>0, <1>3, <1>4 DEF FitsOf
<1>. QED
  BY <1>0, <1>1, <1>2, <1>3, <1>4, <1>5, <1>6, <1>7, FitsOthers

LEMMA FitsOfSave ==
  ASSUME FitsInv, StoreSaves \/ StoreFails
  PROVE  Fits'
<1>1. job.at = "save"
  BY DEF StoreSaves, StoreFails
<1>2. /\ job \in Store /\ job.r \in Request /\ Busy(job.r) /\ stage[job.r] # "none"
      /\ FitsOf(job.r) /\ RefsOf(job.r) /\ table[job.r] \in Seq(Block)
      /\ Len(table[job.r]) # 0
  BY <1>1, JobAtWork, JobKinds, FitsTyped, StoringNow DEF FitsInv, RefsInv, RefsOf
<1>3. PICK q \in Request : q = job.r
  BY <1>2
<1>4. CASE StoreSaves
  <2>. DEFINE h == block_hash[Ext!Last(table[job.r])]
  <2>1. /\ job' = [job EXCEPT !.at = "store"]
        /\ files' = IF OnDisk(h) THEN files ELSE [files EXCEPT ![h] = BlockData]
        /\ UNCHANGED <<stateful, stage, table, loaded, by_index, trouble>>
    BY <1>4 DEF StoreSaves
  <2>2. files' \in [Hash -> Data]
    <3>. HIDE DEF h
    <3>. QED
      BY <1>1, <2>1, BlockDataTyped, FitsTyped
  <2>3. job'.at = "store" /\ job'.r = q /\ Busy(q)'
    BY <1>2, <1>3, <2>1 DEF Busy, Idle, Store
  <2>4. FitsOf(q)'
    BY <1>2, <1>3, <2>1, <2>3 DEF FitsOf
  <2>5. loaded' = [loaded EXCEPT ![q] = loaded[q]]
    BY <2>1, FitsTyped
  <2>. QED
    BY <1>3, <2>1, <2>2, <2>3, <2>4, <2>5, FitsOthers, FitsTyped
<1>5. CASE StoreFails
  <2>. DEFINE f == Ext!Front(table[job.r])
  <2>1. /\ \E m : job' = [job EXCEPT !.at = "store", !.end = m]
        /\ table' = [table EXCEPT ![job.r] = f]
        /\ UNCHANGED <<files, stateful, stage, loaded, by_index>>
    BY <1>5, Zenon DEF StoreFails
  <2>2. Len(f) = Len(table[job.r]) - 1 /\ Len(loaded[job.r]) < Len(table[job.r])
    BY <1>1, <1>2, FrontListed DEF FitsOf, RefsOf
  <2>3. job'.at = "store" /\ job'.r = q /\ Busy(q)'
    BY <1>2, <1>3, <2>1 DEF Busy, Idle, Store
  <2>4. Len(loaded[q]) <= Len(f) /\ table'[q] = f
    <3>1. Len(loaded[job.r]) \in Nat /\ Len(table[job.r]) \in Nat
      BY <1>2, FitsTyped
    <3>. QED
      BY <1>2, <1>3, <2>1, <2>2, <3>1, FitsTyped
  <2>5. FitsOf(q)'
    BY <1>2, <1>3, <2>1, <2>3, <2>4 DEF FitsOf
  <2>6. loaded' = [loaded EXCEPT ![q] = loaded[q]]
    BY <2>1, FitsTyped
  <2>7. trouble' \in 0 .. MaxTrouble
    BY <1>5, TroubleFits DEF StoreFails
  <2>8. \A x \in Request \ {q} : table'[x] = table[x]
    BY <1>2, <1>3, <2>1, FitsTyped
  <2>. QED
    BY <1>3, <2>1, <2>3, <2>5, <2>6, <2>7, <2>8, FitsOthers, FitsTyped
<1>. QED
  BY <1>4, <1>5

LEMMA FitsOfRest ==
  ASSUME FitsInv, Exit \/ (\E h \in Hash : Forget(h)) \/ ClearAll \/ UNCHANGED prefixVars
  PROVE  Fits'
<1>1. CASE Exit
  <2>1. /\ job.at = "release" /\ job' = Idle
        /\ stage' = [stage EXCEPT ![job.r] = "none"]
        /\ table' = [table EXCEPT ![job.r] = << >>]
        /\ loaded' = [loaded EXCEPT ![job.r] = << >>]
        /\ by_index' = by_index \ {job.r}
        /\ UNCHANGED <<files, stateful, trouble>>
    BY <1>1 DEF Exit
  <2>2. PICK q \in Request : q = job.r
    BY <2>1, JobAtWork DEF FitsInv
  <2>3. /\ table'[q] = << >> /\ loaded'[q] = << >> /\ stage'[q] = "none"
        /\ \A x \in Request \ {q} : table'[x] = table[x] /\ stage'[x] = stage[x]
    BY <2>1, <2>2, FitsTyped
  <2>4. FitsOf(q)'
    BY <2>1, <2>2, <2>3 DEF FitsOf, Busy
  <2>5. << >> \in Seq(Data)
    BY NoData
  <2>. QED
    BY <2>1, <2>2, <2>3, <2>4, <2>5, FitsOthers, FitsTyped
<1>2. ASSUME NEW h \in Hash, Forget(h) PROVE Fits'
  <2>1. /\ files' = [files EXCEPT ![h] = Gone]
        /\ UNCHANGED <<stateful, stage, table, loaded, by_index, job>> /\ Trouble
    BY <1>2 DEF Forget
  <2>2. files' \in [Hash -> Data] /\ trouble' \in 0 .. MaxTrouble
    BY <2>1, NoData, FitsTyped, TroubleFits
  <2>. QED
    BY <2>1, <2>2 DEF FitsInv, Fits, FitsOf, Busy
<1>3. CASE ClearAll
  BY <1>3 DEF ClearAll, FitsInv, Fits, FitsOf, Busy
<1>4. CASE UNCHANGED prefixVars
  BY <1>4 DEF prefixVars, FitsInv, Fits, FitsOf, Busy
<1>. QED
  BY <1>1, <1>2, <1>3, <1>4

LEMMA FitsStep ==
  ASSUME HashesClosed, FitsInv, [PrefixNext]_prefixVars
  PROVE  FitsInv'
<1>1. RefsInv'
  BY RefsStep DEF FitsInv
<1>2. Fits'
  BY FitsOfFetch, FitsOfStore, FitsOfReconstruct, FitsOfSave, FitsOfRest DEF PrefixNext
<1>. QED
  BY <1>1, <1>2 DEF FitsInv

LEMMA FitsFromStart ==
  ASSUME PrefixInit
  PROVE  FitsInv
<1>1. /\ files = [h \in Hash |-> Never] /\ stateful \in BOOLEAN /\ trouble = 0 /\ by_index = {}
      /\ loaded = [r \in Request |-> << >>] /\ table = [r \in Request |-> << >>] /\ job = Idle
  BY PrefixAssumption DEF PrefixInit
<1>2. Fits
  BY <1>1, NoData, PrefixAssumption DEF Fits, FitsOf, Busy
<1>. QED
  BY <1>2, RefsFromStart DEF FitsInv

-----------------------------------------------------------------------------
(* Every allocated block carries a hash, except the one store_cache has    *)
(* taken and not registered yet, which has no other owner; and the data of *)
(* a block that can be found was saved, or is about to be.                 *)

LastBlock == Ext!Last(table[job.r])

HashesGiven ==
  /\ \A b \in allocated \ (Null \cup fresh) : block_hash[b] \in Hash \ {<< >>}
  /\ \A b \in fresh : job.at = "register" /\ b = LastBlock

SoleOwner ==
  job.at \in {"register", "save"} => \A r \in Request : LastBlock \in held[r] => r = job.r

Saved ==
  \A h \in Hash : \A b \in cached[h] : files[h] # Never \/ (job.at = "save" /\ b = LastBlock)

SavedInv == FitsInv /\ HashesGiven /\ SoleOwner /\ Saved

SavedPart == HashesGiven /\ SoleOwner /\ Saved

\* Calls that neither give hashes nor lose data.
LEMMA SavedOn ==
  ASSUME SavedInv, job.at \notin {"register", "save"}, job'.at \notin {"register", "save"},
         fresh' \subseteq fresh, allocated' \subseteq allocated, block_hash' = block_hash,
         \A h \in Hash : cached'[h] \subseteq cached[h],
         \A h \in Hash : files[h] # Never => files'[h] # Never
  PROVE  SavedPart'
<1>1. HashesGiven'
  BY DEF SavedInv, HashesGiven
<1>2. SoleOwner'
  BY DEF SoleOwner
<1>3. Saved'
  BY DEF SavedInv, Saved
<1>. QED
  BY <1>1, <1>2, <1>3 DEF SavedPart

\* What is evicted from the hash map is only taken away.
LEMMA EvictedLess ==
  ASSUME PrefixInv, NEW b \in Block
  PROVE  \A h \in Hash : EvictedCached(b)[h] \subseteq cached[h]
BY DEF EvictedCached

\* Between the calls for the pool no block is new.
LEMMA NoneFresh ==
  ASSUME SavedInv, job.at # "register"
  PROVE  fresh = {}
BY DEF SavedInv, HashesGiven

LEMMA SavedOfLookup ==
  ASSUME SavedInv,
         \/ \E r \in Request, p \in Prompts : FetchBegins(r, p)
         \/ \E b \in Block : LookupFinds(b)
         \/ LookupHits \/ LookupFallsBack \/ Share \/ FetchEmpty \/ Queued
  PROVE  SavedPart'
<1>1. /\ job.at \in {"idle", "lookup", "share", "drop"}
      /\ job'.at \in {"idle", "lookup", "share", "drop"}
  <2>1. CASE \E r \in Request, p \in Prompts : FetchBegins(r, p)
    BY <2>1 DEF FetchBegins, Idle
  <2>2. CASE \E b \in Block : LookupFinds(b)
    <3>1. job.at = "lookup" /\ \E b : job' = [job EXCEPT !.found = Append(@, b)]
      BY <2>2 DEF LookupFinds, Looking
    <3>. QED
      BY <3>1, JobKinds DEF SavedInv, FitsInv, RefsInv, Fetch
  <2>3. CASE LookupHits
    <3>1. job.at = "lookup" /\ job' = [job EXCEPT !.at = "share"]
      BY <2>3 DEF LookupHits, LookupEnds
    <3>. QED
      BY <3>1, JobKinds DEF SavedInv, FitsInv, RefsInv, Fetch
  <2>4. CASE LookupFallsBack
    <3>1. job.at = "lookup" /\ (job' = Idle \/ \E m : job' = [at |-> "share", r |-> job.r, found |-> m])
      BY <2>4, Zenon DEF LookupFallsBack, LookupEnds
    <3>. QED
      BY <3>1 DEF Idle
  <2>5. CASE Share
    <3>1. job.at = "share" /\ job' = [job EXCEPT !.found = Tail(@)]
      BY <2>5 DEF Share
    <3>. QED
      BY <3>1, JobKinds DEF SavedInv, FitsInv, RefsInv, Fetch
  <2>6. CASE FetchEmpty \/ Queued
    BY <2>6 DEF FetchEmpty, Queued, Idle
  <2>. QED
    BY <2>1, <2>2, <2>3, <2>4, <2>5, <2>6
<1>2. UNCHANGED <<fresh, allocated, block_hash, cached, files>>
  BY DEF FetchBegins, LookupFinds, LookupHits, LookupFallsBack, Share, IncrementRef, FetchEmpty,
         Queued, vars
<1>. QED
  BY <1>1, <1>2, SavedOn

LEMMA SavedOfExit ==
  ASSUME SavedInv,
         \/ Drop \/ Release \/ StoreEnds \/ Exit
         \/ \E r \in Request : ExitBegins(r)
         \/ \E b \in Block : StoreShares(b)
         \/ \E r \in Request, more \in BOOLEAN :
              \E snaps \in SUBSET (1 .. Len(Units(r))) : StoreBegins(r, snaps, more)
  PROVE  SavedPart'
<1>1. CASE Drop \/ Release
  <2>1. /\ job.at \in {"drop", "release"} /\ job' = [job EXCEPT !.blocks = Tail(@)]
        /\ job.blocks # << >> /\ UNCHANGED <<files, block_hash>>
        /\ fresh' \subseteq fresh /\ allocated' \subseteq allocated
        /\ cached' = cached \/ cached' = EvictedCached(Head(job.blocks))
    BY <1>1 DEF Drop, Release, FreeBlock, FreeLast, FreeShared, ReleaseForEviction
  <2>2. job \in Free
    BY <2>1, JobKinds DEF SavedInv, FitsInv, RefsInv
  <2>3. job'.at = job.at /\ Head(job.blocks) \in Block
    BY <2>1, <2>2 DEF Free
  <2>4. \A h \in Hash : cached'[h] \subseteq cached[h]
    BY <2>1, <2>3, EvictedLess DEF SavedInv, FitsInv, RefsInv
  <2>. QED
    BY <2>1, <2>3, <2>4, SavedOn
<1>2. CASE StoreEnds \/ Exit \/ \E r \in Request : ExitBegins(r)
  BY <1>2, SavedOn DEF StoreEnds, Exit, ExitBegins, Idle, vars
<1>3. ASSUME NEW b \in Block, StoreShares(b) PROVE SavedPart'
  BY <1>3, SavedOn DEF StoreShares, Storing, IncrementRef
<1>4. ASSUME NEW r \in Request, NEW more, NEW snaps, StoreBegins(r, snaps, more) PROVE SavedPart'
  <2>1. /\ job = Idle /\ UNCHANGED <<fresh, allocated, block_hash, cached, files>>
        /\ \E m : job' = [at |-> "store", r |-> r, snaps |-> snaps, more |-> more, end |-> m]
    BY <1>4, Zenon DEF StoreBegins, vars
  <2>2. job.at = "idle" /\ job'.at = "store"
    BY <2>1 DEF Idle
  <2>. QED
    BY <2>1, <2>2, SavedOn
<1>. QED
  BY <1>1, <1>2, <1>3, <1>4

LEMMA SavedOfReconstruct ==
  ASSUME SavedInv, NEW n \in 0 .. MaxBlocks, NEW refused \in BOOLEAN, NEW rebuilt \in BOOLEAN,
         Reconstruct(n, refused, rebuilt)
  PROVE  SavedPart'
<1>. DEFINE b == table[job.r][n + 1]
            g == block_hash[b]
<1>1. /\ job.at = "share" /\ job.r \in Request
      /\ \/ UNCHANGED <<vars, files>>
         \/ /\ ForgetHash(job.r, b)
            /\ files' = [files EXCEPT ![g] = IF @ = Never THEN Never ELSE Gone]
      /\ \E m : job' = [at |-> "drop", r |-> job.r, blocks |-> m]
  BY ReconstructData, Zenon DEF SavedInv
<1>2. job'.at = "drop"
  BY <1>1
<1>. HIDE DEF b, g
<1>3. UNCHANGED <<fresh, allocated, block_hash>>
  BY <1>1 DEF vars, ForgetHash
<1>4. \A h \in Hash : cached'[h] \subseteq cached[h]
  <2>1. CASE UNCHANGED vars
    BY <2>1 DEF vars
  <2>2. CASE ForgetHash(job.r, b)
    <3>1. b \in Block /\ cached' = EvictedCached(b)
      BY <1>1, <2>2, RefsTyped DEF SavedInv, FitsInv, ForgetHash
    <3>. QED
      BY <3>1, EvictedLess DEF SavedInv, FitsInv, RefsInv
  <2>. QED
    BY <1>1, <2>1, <2>2
<1>5. \A h \in Hash : files[h] # Never => files'[h] # Never
  <2>1. Gone # Never
    BY DEF Never, Gone
  <2>2. files \in [Hash -> Data]
    BY FitsTyped DEF SavedInv
  <2>3. \/ files' = files
        \/ files' = [files EXCEPT ![g] = IF @ = Never THEN Never ELSE Gone]
    BY <1>1
  <2>. QED
    BY <2>1, <2>2, <2>3
<1>. QED
  BY <1>1, <1>2, <1>3, <1>4, <1>5, SavedOn

LEMMA SavedOfRest ==
  ASSUME SavedInv, (\E h \in Hash : Forget(h)) \/ ClearAll \/ UNCHANGED prefixVars
  PROVE  SavedPart'
<1>1. ASSUME NEW h \in Hash, Forget(h) PROVE SavedPart'
  <2>1. /\ job.at = "idle" /\ job' = job /\ files' = [files EXCEPT ![h] = Gone]
        /\ UNCHANGED <<fresh, allocated, block_hash, cached>>
    BY <1>1 DEF Forget, Idle, vars
  <2>2. \A g \in Hash : files[g] # Never => files'[g] # Never
    BY <2>1, FitsTyped DEF SavedInv, Never, Gone
  <2>. QED
    BY <2>1, <2>2, SavedOn
<1>2. CASE ClearAll
  <2>1. /\ job' = Idle /\ allocated' = Null /\ fresh' = {} /\ cached' = [h \in Hash |-> {}]
    BY <1>2 DEF ClearAll, Clear
  <2>. QED
    BY <2>1 DEF SavedPart, HashesGiven, SoleOwner, Saved, Idle
<1>3. CASE UNCHANGED prefixVars
  BY <1>3 DEF prefixVars, vars, SavedInv, SavedPart, HashesGiven, SoleOwner, Saved, LastBlock
<1>. QED
  BY <1>1, <1>2, <1>3

\* The next hash a lookup computes is one a prompt can look up.
LEMMA NextHashKnown ==
  ASSUME PrefixInv, Looking
  PROVE  /\ job.r \in Request /\ Len(job.found) \in Nat
         /\ NextHash = SubSeq(Units(job.r), 1, Len(job.found) + 1)
         /\ Len(job.found) + 1 \in 1 .. Len(Units(job.r))
         /\ NextHash \in Hash \ {<< >>}
<1>1. job \in Fetch /\ Len(job.found) < Len(Units(job.r))
  BY JobKinds DEF Looking
<1>2. job.r \in Request /\ Len(job.found) \in Nat
  BY <1>1 DEF Fetch
<1>3. Len(job.found) + 1 \in 1 .. Len(Units(job.r))
  BY <1>1, <1>2, UnitHashes
<1>4. NextHash = SubSeq(Units(job.r), 1, Len(job.found) + 1)
  BY DEF NextHash, LookupHash
<1>5. NextHash \in Hash
  BY <1>2, <1>3, <1>4, UnitHashes
<1>6. PICK n \in 1 .. Len(Units(job.r)) : n = Len(job.found) + 1
  BY <1>3
<1>7. Units(job.r) \in Seq(Unit) /\ SubSeq(Units(job.r), 1, n) # << >>
  <2>1. Units(job.r) \in Seq(Unit)
    BY <1>2, UnitHashes
  <2>. QED
    BY <1>6, <2>1
<1>. QED
  BY <1>2, <1>3, <1>4, <1>5, <1>6, <1>7

LEMMA SavedOfRestores ==
  ASSUME SavedInv, NEW b \in Block, LookupRestores(b)
  PROVE  SavedPart'
<1>. DEFINE h == NextHash
<1>1. /\ job.at = "lookup" /\ Looking /\ OnDisk(h) /\ TakeBlock(b)
      /\ cached' = [EvictedCached(b) EXCEPT ![h] = @ \cup {b}]
      /\ block_hash' = [block_hash EXCEPT ![b] = h]
      /\ UNCHANGED <<fresh, files>> /\ allocated' = allocated \cup {b}
      /\ job' = [job EXCEPT !.found = Append(@, b)]
  BY DEF LookupRestores, RestoreBlock, TakeBlock, Looking
<1>2. h \in Hash \ {<< >>}
  BY <1>1, NextHashKnown DEF SavedInv, FitsInv, RefsInv
<1>3. job'.at = "lookup"
  BY <1>1, JobKinds DEF SavedInv, FitsInv, RefsInv, Fetch
<1>. HIDE DEF h
<1>4. HashesGiven'
  BY <1>1, <1>2, NoneFresh, BlocksOnly DEF SavedInv, FitsInv, RefsInv, HashesGiven
<1>5. SoleOwner'
  BY <1>3 DEF SoleOwner
<1>6. Saved'
  <2>1. \A g \in Hash : cached'[g] \subseteq IF g = h THEN cached[g] \cup {b} ELSE cached[g]
    BY <1>1, <1>2, EvictedLess DEF SavedInv, FitsInv, RefsInv, EvictedCached
  <2>2. files[h] # Never
    BY <1>1 DEF OnDisk, Never
  <2>. QED
    BY <1>1, <2>1, <2>2 DEF SavedInv, Saved
<1>. QED
  BY <1>4, <1>5, <1>6 DEF SavedPart

LEMMA SavedOfAllocates ==
  ASSUME SavedInv, NEW b \in Block, StoreAllocates(b)
  PROVE  SavedPart'
<1>1. /\ job.at = "store" /\ TakeBlock(b)
      /\ cached' = EvictedCached(b) /\ allocated' = allocated \cup {b} /\ fresh' = fresh \cup {b}
      /\ block_hash' = [block_hash EXCEPT ![b] = EvictedHash(b)]
      /\ held' = [held EXCEPT ![job.r] = @ \cup {b}]
      /\ table' = [table EXCEPT ![job.r] = Append(@, b)]
      /\ job' = [job EXCEPT !.at = "register"] /\ UNCHANGED files
  BY DEF StoreAllocates, Storing, AllocateBlock, TakeBlock
<1>2. job \in Store /\ job.r \in Request /\ table[job.r] \in Seq(Block)
  BY <1>1, JobKinds, JobAtWork, FitsTyped DEF SavedInv, FitsInv, RefsInv
<1>3. job'.at = "register" /\ job'.r = job.r
  BY <1>1, <1>2 DEF Store
<1>4. LastBlock' = b
  <2>1. table'[job.r] = Append(table[job.r], b)
    BY <1>1, <1>2, FitsTyped DEF SavedInv
  <2>2. Ext!Last(Append(table[job.r], b)) = b
    BY <1>2 DEF Ext!Last
  <2>3. Ext!Last(table'[job'.r]) = b
    BY <1>3, <2>1, <2>2
  <2>. QED
    BY <2>3 DEF LastBlock
<1>5. HashesGiven'
  BY <1>1, <1>3, <1>4, NoneFresh, BlocksOnly DEF SavedInv, FitsInv, RefsInv, HashesGiven
<1>6. SoleOwner'
  <2>1. \A r \in Request : b \notin held[r]
    BY <1>1, Taken DEF SavedInv, FitsInv, RefsInv, PrefixInv
  <2>. QED
    BY <1>1, <1>2, <1>3, <1>4, <2>1, RefsTyped DEF SavedInv, FitsInv, SoleOwner
<1>7. Saved'
  <2>1. \A h \in Hash : cached'[h] \subseteq cached[h]
    BY <1>1, EvictedLess DEF SavedInv, FitsInv, RefsInv
  <2>. QED
    BY <1>1, <2>1 DEF SavedInv, Saved
<1>. QED
  BY <1>5, <1>6, <1>7 DEF SavedPart

\* The hash store_cache registers.
OwnHash == Append(ParentHash(Ext!Front(table[job.r])), Units(job.r)[Len(table[job.r])])

LEMMA ParentKnown ==
  ASSUME PrefixInv, NEW f \in Seq(Block)
  PROVE  ParentHash(f) \in Hash \cup {<< >>}
<1>1. CASE f = << >> \/ block_hash[Ext!Last(f)] = None
  BY <1>1 DEF ParentHash
<1>2. CASE f # << >> /\ block_hash[Ext!Last(f)] # None
  <2>1. Ext!Last(f) \in Block
    BY <1>2 DEF Ext!Last
  <2>2. block_hash[Ext!Last(f)] \in Hash
    BY <1>2, <2>1, BlocksOnly
  <2>. QED
    BY <1>2, <2>2 DEF ParentHash
<1>. QED
  BY <1>1, <1>2

LEMMA OwnHashKnown ==
  ASSUME PrefixInv, HashesClosed, job.at = "register"
  PROVE  /\ OwnHash \in Hash \ {<< >>} /\ LastBlock \in Block /\ job.r \in Request
         /\ ParentHash(Ext!Front(table[job.r])) \in Hash \cup {<< >>}
         /\ Units(job.r)[Len(table[job.r])] \in Unit
<1>. DEFINE s == table[job.r]
            f == Ext!Front(s)
            u == Units(job.r)[Len(s)]
<1>1. job \in Store
  BY JobKinds
<1>2. Len(s) \in 1 .. Len(Units(job.r)) /\ s \in Seq(Block) /\ job.r \in Request
  BY <1>1, StoringNow
<1>3. u \in Unit
  BY <1>1, <1>2, StoringNow
<1>4. f \in Seq(Block) /\ LastBlock \in Block
  <2>1. f \in Seq(Block)
    BY <1>2 DEF Ext!Front
  <2>2. LastBlock \in Block
    BY <1>2 DEF LastBlock, Ext!Last
  <2>. QED
    BY <2>1, <2>2
<1>. HIDE DEF f, u, s
<1>5. ParentHash(f) \in Hash \cup {<< >>}
  BY <1>4, ParentKnown
<1>6. Append(ParentHash(f), u) \in Hash
  BY <1>3, <1>5 DEF HashesClosed
<1>7. ParentHash(f) \in Seq(Unit)
  <2>1. << >> \in Seq(Unit)
    OBVIOUS
  <2>. QED
    BY <1>5, <2>1, PrefixAssumption
<1>8. Append(ParentHash(f), u) # << >>
  BY <1>3, <1>7
<1>. QED
  BY <1>2, <1>3, <1>4, <1>5, <1>6, <1>8 DEF OwnHash, f, u, s

LEMMA SavedOfRegisters ==
  ASSUME SavedInv, HashesClosed, StoreRegisters
  PROVE  SavedPart'
<1>. DEFINE b == LastBlock
            h == OwnHash
<1>1. /\ job.at = "register" /\ b \in held[job.r] /\ b \in fresh
      /\ block_hash' = [block_hash EXCEPT ![b] = h]
      /\ cached' = [cached EXCEPT ![h] = @ \cup {b}]
      /\ fresh' = fresh \ {b}
      /\ UNCHANGED <<allocated, held, files, table>>
      /\ job' = [job EXCEPT !.at = "save"]
  BY DEF StoreRegisters, RegisterBlockHash, OwnHash, LastBlock
<1>2. h \in Hash \ {<< >>} /\ b \in Block /\ job.r \in Request
  BY <1>1, OwnHashKnown DEF SavedInv, FitsInv, RefsInv
<1>3. job'.at = "save" /\ job'.r = job.r
  BY <1>1, JobKinds DEF SavedInv, FitsInv, RefsInv, Store
<1>4. LastBlock' = b
  <2>1. Ext!Last(table'[job'.r]) = Ext!Last(table[job.r])
    BY <1>1, <1>3
  <2>. QED
    BY <2>1 DEF LastBlock
<1>. HIDE DEF b, h
<1>5. \A c \in fresh : c = b
  BY DEF SavedInv, HashesGiven, b
<1>6. HashesGiven'
  BY <1>1, <1>2, <1>5, BlocksOnly DEF SavedInv, FitsInv, RefsInv, HashesGiven
<1>7. SoleOwner'
  <2>1. \A r \in Request : b \in held[r] => r = job.r
    BY <1>1 DEF SavedInv, SoleOwner, b
  <2>. QED
    BY <1>1, <1>3, <1>4, <2>1 DEF SoleOwner
<1>8. Saved'
  <2>1. \A g \in Hash : cached'[g] \subseteq cached[g] \cup {b}
    BY <1>1, <1>2, BlocksOnly DEF SavedInv, FitsInv, RefsInv, PrefixInv, Inv, TypeOK
  <2>. QED
    BY <1>1, <1>3, <1>4, <2>1 DEF SavedInv, Saved
<1>. QED
  BY <1>6, <1>7, <1>8 DEF SavedPart

LEMMA SavedOfSaves ==
  ASSUME SavedInv, StoreSaves
  PROVE  SavedPart'
<1>. DEFINE h == block_hash[LastBlock]
<1>1. /\ job.at = "save" /\ UNCHANGED <<fresh, allocated, block_hash, cached>>
      /\ files' = IF OnDisk(h) THEN files ELSE [files EXCEPT ![h] = BlockData]
      /\ job' = [job EXCEPT !.at = "store"]
  BY DEF StoreSaves, vars, LastBlock
<1>2. job'.at = "store"
  BY <1>1, JobKinds DEF SavedInv, FitsInv, RefsInv, Store
<1>3. BlockData.kv # << >>
  BY <1>1, BlockDataTyped DEF SavedInv
<1>. HIDE DEF h
<1>4. \A g \in Hash : files[g] # Never => files'[g] # Never
  BY <1>1, <1>3, FitsTyped DEF SavedInv, Never
<1>5. h \in Hash => files'[h] # Never
  BY <1>1, <1>3, FitsTyped DEF SavedInv, Never, OnDisk
<1>6. Saved'
  <2>1. SUFFICES ASSUME NEW g \in Hash, NEW b \in cached[g] PROVE files'[g] # Never
    BY <1>1 DEF Saved
  <2>2. CASE files[g] # Never
    BY <1>4, <2>2
  <2>3. CASE b = LastBlock
    <3>1. g = h
      BY <2>3 DEF SavedInv, FitsInv, RefsInv, PrefixInv, Inv, CachedSound, h
    <3>. QED
      BY <1>5, <3>1
  <2>. QED
    BY <2>2, <2>3 DEF SavedInv, Saved
<1>7. HashesGiven' /\ SoleOwner'
  <2>1. fresh = {}
    BY <1>1, NoneFresh
  <2>. QED
    BY <1>1, <1>2, <2>1 DEF SavedInv, HashesGiven, SoleOwner
<1>. QED
  BY <1>6, <1>7 DEF SavedPart

\* A block whose save failed has no other owner: it leaves the hash map.
LEMMA SavedOfFails ==
  ASSUME SavedInv, StoreFails
  PROVE  SavedPart'
<1>. DEFINE b == LastBlock
<1>1. /\ job.at = "save" /\ FreeBlock(job.r, b) /\ UNCHANGED files
      /\ \E m : job' = [job EXCEPT !.at = "store", !.end = m]
  BY Zenon DEF StoreFails, LastBlock
<1>2. job'.at = "store" /\ job.r \in Request
  BY <1>1, JobKinds DEF SavedInv, FitsInv, RefsInv, Store
<1>. HIDE DEF b
<1>3. b \in held[job.r] /\ b \in Block \ Null
  BY <1>1, <1>2, BlocksOnly DEF SavedInv, FitsInv, RefsInv, FreeBlock, FreeLast, FreeShared
<1>4. ref_count[b] = 1
  <2>1. Holders(b) = {job.r}
    BY <1>1, <1>2, <1>3 DEF SavedInv, SoleOwner, Holders, b
  <2>2. Cardinality({job.r}) = 1
    BY FS_Singleton
  <2>. QED
    BY <1>3, <2>1, <2>2 DEF SavedInv, FitsInv, RefsInv, PrefixInv, Inv, RefCountExact
<1>5. /\ cached' = EvictedCached(b) /\ fresh' = fresh \ {b} /\ UNCHANGED block_hash
      /\ allocated' = allocated \ {b}
  BY <1>1, <1>4 DEF FreeBlock, FreeLast, FreeShared
<1>6. HashesGiven' /\ SoleOwner'
  <2>1. fresh = {}
    BY <1>1, NoneFresh
  <2>. QED
    BY <1>2, <1>5, <2>1 DEF SavedInv, HashesGiven, SoleOwner
<1>7. Saved'
  <2>1. SUFFICES ASSUME NEW g \in Hash, NEW c \in cached'[g] PROVE files[g] # Never
    BY <1>1 DEF Saved
  <2>2. c \in cached[g] /\ (c = b => g # block_hash[b])
    BY <1>5, <2>1 DEF EvictedCached
  <2>3. c # b
    BY <2>2 DEF SavedInv, FitsInv, RefsInv, PrefixInv, Inv, CachedSound
  <2>. QED
    BY <2>2, <2>3 DEF SavedInv, Saved, b
<1>. QED
  BY <1>6, <1>7 DEF SavedPart

LEMMA SavedStep ==
  ASSUME HashesClosed, SavedInv, [PrefixNext]_prefixVars
  PROVE  SavedInv'
<1>1. FitsInv'
  BY FitsStep DEF SavedInv
<1>2. SavedPart'
  BY SavedOfLookup, SavedOfExit, SavedOfReconstruct, SavedOfRest, SavedOfRestores,
     SavedOfAllocates, SavedOfRegisters, SavedOfSaves, SavedOfFails DEF PrefixNext
<1>. QED
  BY <1>1, <1>2 DEF SavedInv, SavedPart

LEMMA SavedFromStart ==
  ASSUME PrefixInit
  PROVE  SavedInv
<1>1. allocated = Null /\ fresh = {} /\ cached = [h \in Hash |-> {}] /\ job = Idle
  BY DEF PrefixInit, Init
<1>2. HashesGiven /\ SoleOwner /\ Saved
  BY <1>1 DEF HashesGiven, SoleOwner, Saved, Idle
<1>. QED
  BY <1>2, FitsFromStart DEF SavedInv

\* Between calls, a lookup finds only blocks whose data was saved at some
\* time: a block is registered before it is saved, and one whose save fails
\* leaves the hash map again (store_cache, reconstruct_cache).
THEOREM PrefixFoundWasSaved ==
  ASSUME HashesClosed
  PROVE  PrefixSpec => []FoundWasSaved
<1>1. PrefixInit => SavedInv
  BY SavedFromStart
<1>2. SavedInv /\ [PrefixNext]_prefixVars => SavedInv'
  BY SavedStep
<1>3. SavedInv => FoundWasSaved
  BY DEF SavedInv, Saved, FoundWasSaved, Idle
<1>. QED
  BY <1>1, <1>2, <1>3, PTL DEF PrefixSpec

-----------------------------------------------------------------------------
(* PrefixTypeOK.                                                           *)

LEMMA FitsMeansTyped ==
  ASSUME FitsInv
  PROVE  PrefixTypeOK
<1>1. \A r \in Request : stage[r] = "none" => r \notin by_index /\ table[r] = << >>
  BY FitsTyped DEF FitsOf, RefsOf
<1>2. \A r \in Request : Len(loaded[r]) <= Len(table[r])
  BY FitsTyped DEF FitsOf
<1>3. by_index \subseteq {r \in Request : stage[r] # "none"}
  BY <1>1, FitsTyped
<1>. QED
  BY <1>1, <1>2, <1>3, FitsTyped DEF PrefixTypeOK, FitsInv, RefsInv, PrefixInv, ClientInv

-----------------------------------------------------------------------------
(* Names: the blocks of one prompt share one extra key, so a name that     *)
(* mixes a text block with blocks of a vision prompt is never looked up.   *)

LEMMA NameParts ==
  ASSUME NEW h \in Names
  PROVE  /\ \A i, j \in 1 .. Len(h) : h[i].image = h[j].image
         /\ \A g \in Seq(Unit), u \in Unit : h = Append(g, u) => g \in Names \cup {<< >>}
<1>1. PICK p \in Prompts : h \in Ext!Prefixes(p.units)
  <2>1. h \in UNION {Ext!Prefixes(p.units) : p \in Prompts}
    BY DEF Names, LookedUp
  <2>2. PICK S \in {Ext!Prefixes(p.units) : p \in Prompts} : h \in S
    BY <2>1
  <2>. QED
    BY <2>2
<1>2. PICK n \in 0 .. Len(p.units) : h = SubSeq(p.units, 1, n)
  BY <1>1 DEF Ext!Prefixes
<1>. DEFINE s == p.units
<1>3. /\ s \in Seq(Unit)
      /\ \A i, j \in DOMAIN s : s[i].image = s[j].image
  BY PrefixAssumption
<1>. HIDE DEF s
<1>4. Len(h) = n /\ \A i \in 1 .. n : h[i] = s[i]
  BY <1>2, <1>3 DEF s
<1>5. \A i, j \in 1 .. Len(h) : h[i].image = h[j].image
  <2>1. \A i \in 1 .. n : i \in DOMAIN s
    BY <1>2, <1>3 DEF s
  <2>. QED
    BY <1>3, <1>4, <2>1
<1>6. ASSUME NEW g \in Seq(Unit), NEW u \in Unit, h = Append(g, u)
      PROVE  g \in Names \cup {<< >>}
  <2>1. Len(g) + 1 = n /\ Len(g) \in 0 .. Len(s)
    BY <1>2, <1>3, <1>4, <1>6 DEF s
  <2>2. \A i \in 1 .. Len(g) : g[i] = s[i]
    BY <1>4, <1>6, <2>1
  <2>3. g = SubSeq(s, 1, Len(g))
    BY <1>3, <2>1, <2>2
  <2>4. g \in Ext!Prefixes(s)
    BY <2>1, <2>3 DEF Ext!Prefixes
  <2>5. g \in UNION {Ext!Prefixes(q.units) : q \in Prompts}
    <3>1. Ext!Prefixes(s) \in {Ext!Prefixes(q.units) : q \in Prompts}
      BY Zenon DEF s
    <3>. QED
      BY <2>4, <3>1, Zenon
  <2>. QED
    BY <2>5 DEF Names, LookedUp
<1>. QED
  BY <1>5, <1>6

LEMMA NamesTyped == Names \subseteq Hash /\ << >> \notin Names /\ Hash \subseteq Seq(Unit)
BY PrefixAssumption DEF Names, LookedUp

\* h may be the name of the first i blocks of r: it is, or nobody looks it up,
\* or it names text only and no block of r is text.
TextOnly(h) == \A i \in 1 .. Len(h) : h[i].image = NoImage

Unknown(h) == h \notin Names \cup {<< >>}

Chains(r, h, i) ==
  \/ h = SubSeq(Units(r), 1, i)
  \/ Unknown(h)
  \/ /\ h # << >> /\ TextOnly(h)
     /\ \A j \in 1 .. Len(Units(r)) : Units(r)[j].image # NoImage

LEMMA Prolonged ==
  ASSUME NEW s \in Seq(Unit), NEW i \in 0 .. Len(s) - 1
  PROVE  /\ SubSeq(s, 1, i) \in Seq(Unit) /\ Len(SubSeq(s, 1, i)) = i
         /\ SubSeq(s, 1, i + 1) = Append(SubSeq(s, 1, i), s[i + 1])
         /\ \A j \in 1 .. i : SubSeq(s, 1, i)[j] = s[j]
         /\ s[i + 1] \in Unit /\ i + 1 \in 1 .. Len(s)
OBVIOUS

LEMMA UnknownGoesOn ==
  ASSUME NEW h \in Seq(Unit), NEW u \in Unit
  PROVE  /\ Append(h, u) \in Seq(Unit) /\ Append(h, u) # << >>
         /\ Unknown(h) => Unknown(Append(h, u))
         /\ (\E j \in 1 .. Len(h) : h[j].image # u.image) => Unknown(Append(h, u))
<1>1. /\ Append(h, u) \in Seq(Unit) /\ Append(h, u) # << >>
      /\ Len(Append(h, u)) = Len(h) + 1 /\ Append(h, u)[Len(h) + 1] = u
      /\ \A j \in 1 .. Len(h) : Append(h, u)[j] = h[j]
  OBVIOUS
<1>2. ASSUME Unknown(h) PROVE Unknown(Append(h, u))
  BY <1>1, <1>2, NameParts DEF Unknown
<1>3. ASSUME NEW j \in 1 .. Len(h), h[j].image # u.image PROVE Unknown(Append(h, u))
  <2>1. PICK g : g = Append(h, u)
    OBVIOUS
  <2>2. Len(h) + 1 \in 1 .. Len(g) /\ j \in 1 .. Len(g)
    BY <1>1, <2>1
  <2>3. g[j].image # g[Len(h) + 1].image
    BY <1>1, <1>3, <2>1
  <2>4. g \notin Names
    BY <2>2, <2>3, NameParts
  <2>. QED
    BY <1>1, <2>1, <2>4 DEF Unknown
<1>. QED
  BY <1>1, <1>2, <1>3

\* What store_cache registers after the parent h.
LEMMA ChainRegistered ==
  ASSUME prompt \in [Request -> Prompts \cup {NoPrompt}], NEW r \in Request,
         NEW h \in Seq(Unit), NEW i \in 0 .. Len(Units(r)) - 1, Chains(r, h, i)
  PROVE  LET g == Append(h, Units(r)[i + 1])
         IN  g = SubSeq(Units(r), 1, i + 1) \/ Unknown(g)
<1>. DEFINE s == Units(r)
            u == s[i + 1]
<1>1. s \in Seq(Unit)
  BY PrefixNamed
<1>. HIDE DEF s
<1>2. /\ SubSeq(s, 1, i + 1) = Append(SubSeq(s, 1, i), u)
      /\ u \in Unit /\ i + 1 \in 1 .. Len(s)
  BY <1>1, Prolonged DEF s
<1>3. CASE h = SubSeq(s, 1, i)
  BY <1>2, <1>3 DEF s
<1>4. CASE Unknown(h)
  BY <1>2, <1>4, UnknownGoesOn DEF s
<1>5. CASE h # << >> /\ TextOnly(h) /\ \A j \in 1 .. Len(s) : s[j].image # NoImage
  <2>1. 1 \in 1 .. Len(h) /\ h[1].image # u.image
    BY <1>2, <1>5 DEF TextOnly
  <2>. QED
    BY <1>2, <2>1, UnknownGoesOn DEF s
<1>. QED
  BY <1>3, <1>4, <1>5 DEF Chains, s

\* What store_cache shares after the parent h is text.
LEMMA ChainShared ==
  ASSUME prompt \in [Request -> Prompts \cup {NoPrompt}], NEW r \in Request,
         NEW h \in Seq(Unit), NEW i \in 0 .. Len(Units(r)) - 1, Chains(r, h, i)
  PROVE  Chains(r, Append(h, [Units(r)[i + 1] EXCEPT !.image = NoImage]), i + 1)
<1>. DEFINE s == Units(r)
            u == s[i + 1]
            t == [u EXCEPT !.image = NoImage]
            g == Append(h, t)
<1>. SUFFICES Chains(r, g, i + 1)
  OBVIOUS
<1>1. s \in Seq(Unit) /\ \A j, k \in 1 .. Len(s) : s[j].image = s[k].image
  BY PrefixNamed
<1>. HIDE DEF s
<1>2. /\ SubSeq(s, 1, i + 1) = Append(SubSeq(s, 1, i), u)
      /\ u \in Unit /\ i + 1 \in 1 .. Len(s)
      /\ SubSeq(s, 1, i) \in Seq(Unit) /\ Len(SubSeq(s, 1, i)) = i
      /\ \A j \in 1 .. i : SubSeq(s, 1, i)[j] = s[j]
  BY <1>1, Prolonged DEF s
<1>3. t \in Unit /\ t.image = NoImage /\ (u.image = NoImage => t = u)
  BY <1>2, PrefixAssumption DEF Unit
<1>. HIDE DEF u, t
<1>0. Chains(r, h, i)
  OBVIOUS
<1>4. /\ g \in Seq(Unit) /\ g # << >> /\ Len(g) = Len(h) + 1 /\ g[Len(h) + 1] = t
      /\ \A j \in 1 .. Len(h) : g[j] = h[j]
  BY <1>3
<1>. HIDE DEF g
<1>5. TextOnly(h) => TextOnly(g)
  BY <1>3, <1>4 DEF TextOnly
<1>6. CASE h = SubSeq(s, 1, i)
  <2>1. CASE u.image = NoImage
    BY <1>2, <1>3, <1>6, <2>1 DEF Chains, s, g
  <2>2. CASE u.image # NoImage
    <3>1. \A j \in 1 .. Len(s) : s[j].image # NoImage
      BY <1>1, <1>2, <2>2 DEF u
    <3>2. CASE i = 0
      <4>1. Len(h) = 0
        BY <1>2, <1>6, <3>2
      <4>2. TextOnly(h)
        BY <4>1 DEF TextOnly
      <4>. QED
        BY <1>4, <1>5, <3>1, <4>2 DEF Chains, s
    <3>3. CASE i # 0
      <4>1. 1 \in 1 .. Len(h) /\ h[1].image # t.image
        BY <1>2, <1>3, <1>6, <3>1, <3>3
      <4>2. Unknown(g)
        BY <1>3, <4>1, UnknownGoesOn DEF g
      <4>. QED
        BY <4>2 DEF Chains
    <3>. QED
      BY <3>2, <3>3
  <2>. QED
    BY <2>1, <2>2
<1>7. CASE Unknown(h)
  BY <1>3, <1>7, UnknownGoesOn DEF Chains, g
<1>8. CASE h # << >> /\ TextOnly(h) /\ \A j \in 1 .. Len(s) : s[j].image # NoImage
  BY <1>4, <1>5, <1>8 DEF Chains, s
<1>. QED
  BY <1>0, <1>6, <1>7, <1>8 DEF Chains, s

-----------------------------------------------------------------------------
(* What files and requests hold is what the names say: files under names a *)
(* lookup can compute, data loaded from such files, the blocks a lookup    *)
(* has found, the data of the requests served by hash, and, while a        *)
(* request is stored, its data and the names of its blocks.                *)

LoadedFrom(r) ==
  \A i \in 1 .. Len(loaded[r]) :
    block_hash[table[r][i]] \in Names => loaded[r][i].kv = block_hash[table[r][i]]

\* The table s and the blocks f found after it carry the names of the units u.
Carries(s, f, u, al, hash) ==
  /\ Len(s) + Len(f) <= Len(u)
  /\ \A i \in 1 .. Len(f) : f[i] \in al \ Null /\ hash[f[i]] = SubSeq(u, 1, Len(s) + i)
  /\ \A i \in 1 .. Len(s) : hash[s[i]] = SubSeq(u, 1, i)

Found ==
  job.at \in {"lookup", "share"} /\ job.r \notin by_index =>
    Carries(table[job.r], job.found, Units(job.r), allocated, block_hash)

Served(r) ==
  r \notin by_index /\ (stage[r] = "queued" \/ (Busy(r) /\ job.at = "drop")) => OwnData(r)

Chained ==
  /\ job.at \in {"store", "register", "save"} => OwnData(job.r)
  /\ Storing => Chains(job.r, ParentHash(table[job.r]), Len(table[job.r]))
  /\ job.at = "register" =>
       Chains(job.r, ParentHash(Ext!Front(table[job.r])), Len(table[job.r]) - 1)
  /\ job.at = "save" =>
       \/ block_hash[LastBlock] = SubSeq(Units(job.r), 1, Len(table[job.r]))
       \/ Unknown(block_hash[LastBlock])

Truth ==
  /\ FilesTellTheTruth /\ Found /\ Chained
  /\ \A r \in Request : LoadedFrom(r) /\ Served(r)

TruthInv == SavedInv /\ Truth

LEMMA TruthTyped ==
  ASSUME TruthInv
  PROVE  /\ FitsInv /\ PrefixInv /\ RefsInv /\ Truth /\ SavedInv
         /\ prompt \in [Request -> Prompts \cup {NoPrompt}]
         /\ by_index \subseteq Request
         /\ block_hash \in [Block -> Hash \cup {None}]
         /\ table \in [Request -> Seq(Block)]
         /\ stage \in [Request -> {"none", "adding", "queued"}]
         /\ loaded \in [Request -> Seq(Data)]
         /\ \A r \in Request : /\ table[r] \in Seq(Block) /\ loaded[r] \in Seq(Data)
                               /\ Len(loaded[r]) \in Nat /\ Len(table[r]) \in Nat
                               /\ Len(loaded[r]) <= Len(table[r])
BY FitsTyped, BlocksOnly
   DEF TruthInv, SavedInv, FitsInv, RefsInv, FitsOf, PrefixInv, ClientInv

LEMMA EmptyOwn ==
  ASSUME NEW r \in Request, loaded[r] = << >>
  PROVE  OwnData(r)
BY DEF OwnData

\* A step of q's call leaves the others, and the hashes of what they loaded, alone.
LEMMA TruthOthers ==
  ASSUME TruthInv, NEW q \in Request, job = Idle \/ job.r = q, job' = Idle \/ job'.r = q,
         UNCHANGED stateful,
         \A r \in Request \ {q} :
           /\ stage'[r] = stage[r] /\ prompt'[r] = prompt[r] /\ loaded'[r] = loaded[r]
           /\ table'[r] = table[r] /\ (r \in by_index => r \in by_index')
           /\ \A i \in 1 .. Len(loaded[r]) : block_hash'[table[r][i]] = block_hash[table[r][i]],
         FilesTellTheTruth', Found', Chained', LoadedFrom(q)', Served(q)'
  PROVE  Truth'
<1>1. ASSUME NEW r \in Request, r # q PROVE LoadedFrom(r)' /\ Served(r)'
  <2>1. ~Busy(r) /\ ~Busy(r)'
    BY <1>1 DEF Busy
  <2>2. /\ stage'[r] = stage[r] /\ prompt'[r] = prompt[r] /\ loaded'[r] = loaded[r]
        /\ table'[r] = table[r] /\ (r \in by_index => r \in by_index')
        /\ \A i \in 1 .. Len(loaded[r]) : block_hash'[table[r][i]] = block_hash[table[r][i]]
        /\ LoadedFrom(r) /\ Served(r)
    BY <1>1 DEF TruthInv, Truth
  <2>3. LoadedFrom(r)'
    BY <2>2 DEF LoadedFrom
  <2>4. OwnData(r) => OwnData(r)'
    BY <2>2 DEF OwnData, Units
  <2>5. Served(r)'
    BY <2>1, <2>2, <2>4 DEF Served
  <2>. QED
    BY <2>3, <2>5
<1>. QED
  BY <1>1 DEF Truth

\* A step that changes neither files, nor hashes, nor what was loaded.
LEMMA TruthOn ==
  ASSUME TruthInv, NEW q \in Request, job = Idle \/ job.r = q, job' = Idle \/ job'.r = q,
         UNCHANGED <<stateful, prompt, loaded, block_hash, files>>,
         \A r \in Request \ {q} : /\ stage'[r] = stage[r] /\ table'[r] = table[r]
                                  /\ r \in by_index => r \in by_index',
         \A i \in 1 .. Len(loaded[q]) : table'[q][i] = table[q][i],
         Found', Chained',
         \/ OwnData(q) \/ q \in by_index'
         \/ stage'[q] = stage[q] /\ by_index' = by_index /\ ~(Busy(q)' /\ job'.at = "drop")
         \/ stage'[q] # "queued" /\ ~(Busy(q)' /\ job'.at = "drop")
  PROVE  Truth'
<1>1. FilesTellTheTruth'
  BY DEF FilesTellTheTruth, OnDisk, TruthInv, Truth
<1>2. LoadedFrom(q)'
  BY DEF LoadedFrom, TruthInv, Truth
<1>3. OwnData(q) => OwnData(q)'
  BY DEF OwnData, Units
<1>4. Served(q)'
  BY <1>3 DEF Served, TruthInv, Truth
<1>. QED
  BY <1>1, <1>2, <1>4, TruthOthers

\* A call that neither looks up nor stores promises nothing of its blocks.
LEMMA NothingPromised ==
  (job.at \notin {"lookup", "share"} => Found)
  /\ (job.at \notin {"store", "register", "save"} => Chained)
BY DEF Found, Chained, Storing

LEMMA TruthOfLookupBegins ==
  ASSUME TruthInv, NEW r \in Request, NEW p \in Prompts, FetchBegins(r, p)
  PROVE  Truth'
<1>1. /\ job = Idle /\ stage[r] = "none"
      /\ stage' = [stage EXCEPT ![r] = "adding"] /\ prompt' = [prompt EXCEPT ![r] = p]
      /\ job' = [at |-> "lookup", r |-> r, found |-> << >>]
      /\ UNCHANGED <<block_hash, files, stateful, table, loaded, by_index>>
  BY DEF FetchBegins, vars
<1>2. job'.at = "lookup" /\ job'.r = r /\ job'.found = << >>
  BY <1>1
<1>3. table[r] = << >> /\ loaded[r] = << >>
  BY <1>1, TruthTyped, FitsTyped DEF FitsOf, RefsOf
<1>4. Chained'
  BY <1>2 DEF Chained, Storing
<1>5. Found'
  <2>1. prompt' \in [Request -> Prompts \cup {NoPrompt}]
    BY <1>1, TruthTyped
  <2>2. Len(Units(r)') \in Nat
    BY <2>1, PrefixNamed DEF Units
  <2>3. table'[r] = << >> /\ Len(<< >>) = 0
    BY <1>1, <1>3
  <2>. QED
    BY <1>2, <2>2, <2>3 DEF Found, Carries
<1>6. FilesTellTheTruth'
  BY <1>1 DEF FilesTellTheTruth, OnDisk, TruthInv, Truth
<1>7. LoadedFrom(r)'
  BY <1>1, <1>3 DEF LoadedFrom
<1>8. Served(r)'
  BY <1>1, <1>2, TruthTyped DEF Served
<1>. QED
  BY <1>1, <1>2, <1>4, <1>5, <1>6, <1>7, <1>8, TruthOthers, TruthTyped

\* A block is found: it carries the next name.
LEMMA FoundGrows ==
  ASSUME TruthInv, Looking, NEW b \in allocated', b # NullBlock, block_hash'[b] = NextHash,
         allocated \subseteq allocated',
         \A c \in allocated \ Null : block_hash'[c] = block_hash[c],
         job' = [job EXCEPT !.found = Append(@, b)], UNCHANGED <<prompt, table, by_index>>
  PROVE  Found' /\ Chained' /\ job'.at = "lookup" /\ job'.r = job.r
<1>. DEFINE f == job.found
<1>0. job \in Fetch /\ job.at = "lookup" /\ job.r \in Request
  BY JobKinds, TruthTyped DEF Looking, Fetch
<1>. PICK r \in Request : r = job.r
  BY <1>0
<1>1. job \in Fetch /\ job.at = "lookup" /\ r = job.r
  BY <1>0
<1>2. f \in Seq(Block) /\ Len(f) \in Nat
  BY <1>1 DEF Fetch
<1>3. job'.at = "lookup" /\ job'.r = r /\ job'.found = Append(f, b)
  BY <1>1 DEF Fetch
<1>4. table[r] = << >>
  BY <1>1, TruthTyped, JobAtWork, RefsTyped DEF RefsOf
<1>5. NextHash = SubSeq(Units(r), 1, Len(f) + 1) /\ Len(f) + 1 \in 1 .. Len(Units(r))
  BY NextHashKnown, TruthTyped
<1>6. Units(r)' = Units(r) /\ table'[r] = << >> /\ Len(<< >>) = 0 /\ Len(Units(r)) \in Nat
  BY <1>1, <1>4, UnitHashes, TruthTyped DEF Units
<1>. HIDE DEF f
<1>7. /\ Len(Append(f, b)) = Len(f) + 1 /\ Append(f, b)[Len(f) + 1] = b
      /\ \A i \in 1 .. Len(f) : Append(f, b)[i] = f[i]
  BY <1>2
<1>8. PICK g : g = Append(f, b)
  OBVIOUS
<1>9. ASSUME r \notin by_index
      PROVE  \A i \in 1 .. Len(g) : g[i] \in allocated' \ Null
                                    /\ block_hash'[g[i]] = SubSeq(Units(r), 1, 0 + i)
  <2>1. \A i \in 1 .. Len(f) : f[i] \in allocated \ Null
                               /\ block_hash[f[i]] = SubSeq(Units(r), 1, 0 + i)
    BY <1>1, <1>4, <1>6, <1>9 DEF TruthInv, Truth, Found, Carries, f
  <2>2. ASSUME NEW i \in 1 .. Len(g)
        PROVE  g[i] \in allocated' \ Null /\ block_hash'[g[i]] = SubSeq(Units(r), 1, 0 + i)
    <3>1. CASE i = Len(f) + 1
      BY <1>2, <1>5, <1>7, <1>8, <3>1 DEF Null
    <3>2. CASE i \in 1 .. Len(f)
      BY <1>7, <1>8, <2>1, <3>2
    <3>. QED
      BY <1>2, <1>7, <1>8, <3>1, <3>2
  <2>. QED
    BY <2>2
<1>10. Found'
  <2>1. job'.found = g /\ Len(g) = Len(f) + 1
    BY <1>3, <1>7, <1>8
  <2>2. /\ job'.r = r /\ job'.found = g /\ Units(r)' = Units(r) /\ Len(table'[r]) = 0
        /\ by_index' = by_index /\ 0 + Len(g) <= Len(Units(r))
    BY <1>2, <1>3, <1>5, <1>6, <2>1
  <2>3. Units(job.r)' = Units(r)
    BY <2>2 DEF Units
  <2>4. r \notin by_index => Carries(<< >>, g, Units(r), allocated', block_hash')
    BY <1>6, <1>9, <2>2 DEF Carries
  <2>. QED
    BY <1>6, <2>2, <2>3, <2>4 DEF Found
<1>11. Chained'
  BY <1>3 DEF Chained, Storing
<1>. QED
  BY <1>1, <1>3, <1>10, <1>11

LEMMA TruthOfLookupFinds ==
  ASSUME TruthInv, NEW b \in Block, LookupFinds(b)
  PROVE  Truth'
<1>1. /\ Looking /\ job.at = "lookup" /\ b \in cached[NextHash]
      /\ job' = [job EXCEPT !.found = Append(@, b)]
      /\ UNCHANGED <<allocated, block_hash, files, stateful, stage, prompt, table, loaded, by_index>>
  BY DEF LookupFinds, Looking, vars
<1>2. b \in allocated \ Null /\ block_hash[b] = NextHash
  BY <1>1, NextHashKnown, TruthTyped DEF PrefixInv, Inv, CachedSound
<1>3. Found' /\ Chained' /\ job'.at = "lookup" /\ job'.r = job.r
  BY <1>1, <1>2, FoundGrows DEF Null
<1>4. job.r \in Request
  BY <1>1, JobAtWork, TruthTyped
<1>. QED
  BY <1>1, <1>3, <1>4, TruthOn

\* Blocks of a table are not the one the pool takes.
LEMMA NotTaken ==
  ASSUME TruthInv, NEW b \in Block, TakeBlock(b), job.at # "release", NEW r \in Request,
         NEW i \in 1 .. Len(table[r])
  PROVE  table[r][i] \in Block /\ table[r][i] # b
<1>1. b \notin held[r]
  BY Taken, TruthTyped DEF PrefixInv
<1>2. table[r][i] \in Block
  BY TruthTyped
<1>3. Lists(table[r], table[r][i])
  BY DEF Lists
<1>. QED
  BY <1>1, <1>2, <1>3, TruthTyped, RefsTyped DEF RefsOf, Listed

LEMMA TruthOfLookupRestores ==
  ASSUME TruthInv, NEW b \in Block, LookupRestores(b)
  PROVE  Truth'
<1>1. /\ Looking /\ job.at = "lookup" /\ TakeBlock(b)
      /\ job' = [job EXCEPT !.found = Append(@, b)]
      /\ block_hash' = [block_hash EXCEPT ![b] = NextHash]
      /\ UNCHANGED <<files, stateful, stage, prompt, table, loaded, by_index>>
  BY DEF LookupRestores, RestoreBlock, Looking
<1>2. b \notin allocated /\ b # NullBlock /\ allocated' = allocated \cup {b}
  BY <1>1, Taken, TruthTyped DEF PrefixInv
<1>. PICK h : h = NextHash
  OBVIOUS
<1>3. block_hash' = [block_hash EXCEPT ![b] = h] /\ allocated \subseteq Block
  BY <1>1, TruthTyped, BlocksOnly
<1>4. block_hash'[b] = h /\ \A c \in allocated \ Null : block_hash'[c] = block_hash[c]
  BY <1>2, <1>3, TruthTyped
<1>5. Found' /\ Chained' /\ job'.at = "lookup" /\ job'.r = job.r
  BY <1>1, <1>2, <1>4, FoundGrows
<1>6. job.r \in Request /\ loaded[job.r] = << >>
  BY <1>1, JobAtWork, TruthTyped, FitsTyped DEF FitsOf
<1>7. \A r \in Request : \A i \in 1 .. Len(loaded[r]) :
         block_hash'[table[r][i]] = block_hash[table[r][i]]
  BY <1>1, <1>3, NotTaken, TruthTyped
<1>8. FilesTellTheTruth'
  BY <1>1 DEF FilesTellTheTruth, OnDisk, TruthInv, Truth
<1>9. LoadedFrom(job.r)' /\ OwnData(job.r)'
  BY <1>1, <1>6 DEF LoadedFrom, OwnData
<1>. QED
  BY <1>1, <1>5, <1>6, <1>7, <1>8, <1>9, TruthOthers DEF Served

LEMMA TruthOfLookupEnds ==
  ASSUME TruthInv, LookupHits \/ LookupFallsBack \/ FetchEmpty
  PROVE  Truth'
<1>1. /\ job.at \in {"lookup", "share"}
      /\ UNCHANGED <<block_hash, allocated, files, stateful, prompt, table, loaded>>
  BY Zenon DEF LookupHits, LookupFallsBack, FetchEmpty, LookupEnds, vars
<1>2. job \in Fetch /\ job.r \in Request
  BY <1>1, JobKinds, TruthTyped DEF Fetch
<1>. PICK r \in Request : r = job.r
  BY <1>2
<1>3. OwnData(r)
  BY <1>1, <1>2, JobAtWork, EmptyOwn, TruthTyped, FitsTyped DEF FitsOf
<1>4. CASE LookupHits
  <2>1. job' = [job EXCEPT !.at = "share"] /\ UNCHANGED <<stage, by_index>> /\ job.at = "lookup"
    BY <1>4 DEF LookupHits, LookupEnds
  <2>2. job'.at = "share" /\ job'.r = r /\ job'.found = job.found
    BY <1>2, <2>1 DEF Fetch
  <2>3. Found'
    <3>1. Found /\ Units(job.r)' = Units(job.r)
      BY <1>1, <2>2 DEF TruthInv, Truth, Units
    <3>. QED
      BY <1>1, <2>1, <2>2, <3>1 DEF Found
  <2>4. Chained'
    BY <2>2 DEF Chained, Storing
  <2>. QED
    BY <1>1, <1>3, <2>1, <2>2, <2>3, <2>4, TruthOn
<1>5. CASE job' = Idle /\ UNCHANGED by_index /\ \E st : stage' = [stage EXCEPT ![r] = st]
  <2>1. Found' /\ Chained'
    BY <1>5 DEF Found, Chained, Storing, Idle
  <2>2. \A q \in Request \ {r} : stage'[q] = stage[q]
    BY <1>5, TruthTyped
  <2>. QED
    BY <1>1, <1>3, <1>5, <2>1, <2>2, TruthOn
<1>6. CASE /\ \E m : job' = [at |-> "share", r |-> r, found |-> m]
           /\ by_index' = by_index \cup {r} /\ UNCHANGED stage
  <2>1. job'.at = "share" /\ job'.r = r
    BY <1>6
  <2>2. Found' /\ Chained'
    BY <1>6, <2>1 DEF Found, Chained, Storing
  <2>. QED
    BY <1>1, <1>3, <1>6, <2>1, <2>2, TruthOn
<1>7. CASE LookupFallsBack
  <2>1. \/ /\ stage' = [stage EXCEPT ![job.r] = "queued"] /\ job' = Idle /\ UNCHANGED by_index
        \/ /\ job' = [at |-> "share", r |-> job.r, found |-> IndexMatch(Units(job.r))]
           /\ by_index' = by_index \cup {job.r} /\ UNCHANGED stage
    BY <1>7, Zenon DEF LookupFallsBack
  <2>. QED
    BY <1>5, <1>6, <2>1, Zenon
<1>8. CASE FetchEmpty
  <2>1. stage' = [stage EXCEPT ![job.r] = "queued"] /\ job' = Idle /\ UNCHANGED by_index
    BY <1>8 DEF FetchEmpty
  <2>. QED
    BY <1>5, <2>1, Zenon
<1>. QED
  BY <1>4, <1>7, <1>8

\* The next block found moves to the table.
LEMMA TruthOfShare ==
  ASSUME TruthInv, Share
  PROVE  Truth'
<1>. DEFINE f == job.found
            b == Head(f)
<1>1. /\ job.at = "share" /\ f # << >>
      /\ \/ b \in allocated /\ table' = [table EXCEPT ![job.r] = Append(@, b)]
         \/ b \notin allocated /\ UNCHANGED table
      /\ job' = [job EXCEPT !.found = Tail(@)]
      /\ UNCHANGED <<block_hash, allocated, files, stateful, stage, prompt, loaded, by_index>>
  BY DEF Share, IncrementRef, vars
<1>2. job \in Fetch /\ job.r \in Request
  BY <1>1, JobKinds, TruthTyped DEF Fetch
<1>. PICK r \in Request : r = job.r
  BY <1>2
<1>3. f \in Seq(Block) /\ job'.at = "share" /\ job'.r = r /\ job'.found = Tail(f) /\ job.r = r
  BY <1>1, <1>2 DEF Fetch
<1>4. OwnData(r) /\ loaded[r] = << >>
  BY <1>1, <1>2, JobAtWork, EmptyOwn, TruthTyped, FitsTyped DEF FitsOf
<1>. DEFINE t == table[r]
<1>5. t \in Seq(Block) /\ table \in [Request -> Seq(Block)]
  BY TruthTyped
<1>. HIDE DEF f, b, t
<1>6. /\ Len(f) \in Nat \ {0} /\ Len(Tail(f)) = Len(f) - 1 /\ b = f[1]
      /\ \A i \in 1 .. Len(Tail(f)) : Tail(f)[i] = f[i + 1]
  BY <1>1, <1>3 DEF b
<1>7. /\ Len(t) \in Nat /\ Len(Append(t, b)) = Len(t) + 1 /\ Append(t, b)[Len(t) + 1] = b
      /\ \A i \in 1 .. Len(t) : Append(t, b)[i] = t[i]
  BY <1>5
<1>8. PICK g : g = Tail(f)
  OBVIOUS
<1>9. PICK s : s = Append(t, b)
  OBVIOUS
<1>10. PICK u : u = Units(r)
  OBVIOUS
<1>11. ASSUME r \notin by_index
       PROVE  Carries(table'[r], g, u, allocated, block_hash)
  <2>1. /\ Len(t) + Len(f) <= Len(u)
        /\ \A i \in 1 .. Len(f) : /\ f[i] \in allocated \ Null
                                  /\ block_hash[f[i]] = SubSeq(u, 1, Len(t) + i)
        /\ \A i \in 1 .. Len(t) : block_hash[t[i]] = SubSeq(u, 1, i)
    BY <1>1, <1>3, <1>10, <1>11 DEF TruthInv, Truth, Found, Carries, t, f
  <2>2. b \in allocated /\ block_hash[b] = SubSeq(u, 1, Len(t) + 1)
    BY <1>6, <2>1
  <2>3. table'[r] = s
    BY <1>1, <1>3, <1>5, <1>9, <2>2 DEF t
  <2>4. Len(s) + Len(g) <= Len(u)
    BY <1>6, <1>7, <1>8, <1>9, <2>1
  <2>5. ASSUME NEW i \in 1 .. Len(g)
        PROVE  g[i] \in allocated \ Null /\ block_hash[g[i]] = SubSeq(u, 1, Len(s) + i)
    <3>1. i + 1 \in 1 .. Len(f) /\ g[i] = f[i + 1] /\ Len(s) + i = Len(t) + (i + 1)
      BY <1>6, <1>7, <1>8, <1>9
    <3>. QED
      BY <2>1, <3>1
  <2>6. ASSUME NEW i \in 1 .. Len(s) PROVE block_hash[s[i]] = SubSeq(u, 1, i)
    <3>1. CASE i \in 1 .. Len(t)
      BY <1>7, <1>9, <2>1, <3>1
    <3>2. CASE i = Len(t) + 1
      BY <1>7, <1>9, <2>2, <3>2
    <3>. QED
      BY <1>7, <1>9, <3>1, <3>2
  <2>. QED
    BY <2>3, <2>4, <2>5, <2>6 DEF Carries
<1>12. Found'
  <2>1. Units(job.r)' = u
    BY <1>1, <1>3, <1>10 DEF Units
  <2>2. /\ job'.r = r /\ job'.found = g /\ by_index' = by_index
        /\ allocated' = allocated /\ block_hash' = block_hash
    BY <1>1, <1>3, <1>8
  <2>3. r \notin by_index => Carries(table'[r], g, u, allocated', block_hash')
    BY <1>11, <2>2
  <2>. QED
    BY <2>1, <2>2, <2>3 DEF Found
<1>13. Chained'
  BY <1>3 DEF Chained, Storing
<1>14. \A q \in Request \ {r} : table'[q] = table[q]
  BY <1>1, <1>3, <1>5
<1>. QED
  BY <1>1, <1>3, <1>4, <1>12, <1>13, <1>14, TruthOn

\* What is given back, and the end of add_request.
LEMMA TruthOfDrops ==
  ASSUME TruthInv, Drop \/ Queued \/ Release
  PROVE  Truth'
<1>1. /\ job.at \in {"drop", "release"}
      /\ UNCHANGED <<block_hash, files, stateful, prompt, table, loaded, by_index>>
  BY DEF Drop, Queued, Release, FreeBlock, FreeShared, FreeLast, ReleaseForEviction, vars
<1>2. job \in Free /\ job.r \in Request /\ job # Idle
  BY <1>1, JobKinds, TruthTyped DEF Free, Idle
<1>. PICK r \in Request : r = job.r
  BY <1>2
<1>3. CASE Drop \/ Release
  <2>1. UNCHANGED stage /\ job' = [job EXCEPT !.blocks = Tail(@)]
    BY <1>3 DEF Drop, Release
  <2>2. job'.at = job.at /\ job'.r = r
    BY <1>2, <2>1 DEF Free
  <2>3. Found' /\ Chained'
    BY <1>1, <2>2 DEF Found, Chained, Storing
  <2>4. job.at = "drop" => OwnData(r) \/ r \in by_index
    BY <1>2 DEF TruthInv, Truth, Served, Busy
  <2>. QED
    BY <1>1, <1>2, <2>1, <2>2, <2>3, <2>4, TruthOn
<1>4. CASE Queued
  <2>1. stage' = [stage EXCEPT ![r] = "queued"] /\ job' = Idle /\ job.at = "drop"
    BY <1>4 DEF Queued
  <2>2. Found' /\ Chained'
    BY <2>1 DEF Found, Chained, Storing, Idle
  <2>3. OwnData(r) \/ r \in by_index'
    BY <1>1, <1>2, <2>1 DEF TruthInv, Truth, Served, Busy
  <2>4. \A q \in Request \ {r} : stage'[q] = stage[q]
    BY <2>1, TruthTyped
  <2>. QED
    BY <1>1, <1>2, <2>1, <2>2, <2>3, <2>4, TruthOn
<1>. QED
  BY <1>3, <1>4

\* The last of the blocks kept has a layer state.
LEMMA WalkedBackTo ==
  ASSUME NEW data \in Seq(Data), WalkBack(data) # 0
  PROVE  WalkBack(data) \in 1 .. Len(data) /\ HasState(data[WalkBack(data)])
<1>. DEFINE S == {i \in 1 .. Len(data) : HasState(data[i])}
<1>1. S = {i \in DOMAIN data : HasState(data[i])}
  OBVIOUS
<1>2. S # {} /\ WalkBack(data) = Ext!Max(S)
  BY <1>1 DEF WalkBack
<1>3. S \in SUBSET (1 .. Len(data)) /\ Len(data) \in Nat
  OBVIOUS
<1>. HIDE DEF S
<1>4. Ext!Max(S) \in S
  BY <1>2, <1>3, MaxExists
<1>. QED
  BY <1>2, <1>4 DEF S

\* What is rebuilt is what the files hold under the names of the blocks.
LEMMA TruthOfReconstruct ==
  ASSUME TruthInv, NEW n \in 0 .. MaxBlocks, NEW refused \in BOOLEAN, NEW rebuilt \in BOOLEAN,
         Reconstruct(n, refused, rebuilt)
  PROVE  Truth'
<1>. DEFINE s == table[job.r]
            data == [i \in 1 .. n |-> files[block_hash[s[i]]]]
            keep == Kept(job.r, data, rebuilt)
<1>0. /\ job.r \in Request /\ Busy(job.r) /\ job.at = "share" /\ UNCHANGED <<stage, prompt>>
      /\ job' = [at |-> "drop", r |-> job.r, blocks |-> ToFree(s, n, keep)]
      /\ table' = [table EXCEPT ![job.r] = SubSeq(s, 1, keep)]
      /\ loaded' = [loaded EXCEPT ![job.r] = SubSeq(data, 1, keep)]
      /\ UNCHANGED <<stateful, by_index>>
      /\ s \in Seq(Block) /\ n <= Len(s) /\ data \in Seq(Data) /\ Len(data) = n
      /\ keep \in 0 .. n /\ keep \in {0, WalkBack(data)}
      /\ \A i \in 1 .. n : /\ s[i] \in Block /\ block_hash[s[i]] \in Hash
                           /\ OnDisk(block_hash[s[i]])
      /\ Trouble \/ UNCHANGED trouble
      /\ \/ UNCHANGED <<vars, files>>
         \/ /\ ForgetHash(job.r, s[n + 1])
            /\ files' = [files EXCEPT ![block_hash[s[n + 1]]] = IF @ = Never THEN Never ELSE Gone]
  <2>1. FitsInv
    BY TruthTyped
  <2>. QED
    BY <2>1, ReconstructData, ZenonT(60)
<1>2. \A i \in 1 .. n : data[i] = files[block_hash[s[i]]]
  OBVIOUS
<1>. PICK r \in Request : r = job.r
  BY <1>0
<1>. HIDE DEF data, keep, s
<1>1. /\ Busy(r) /\ job.at = "share" /\ UNCHANGED <<stage, prompt, stateful, by_index>>
      /\ job' = [at |-> "drop", r |-> r, blocks |-> ToFree(s, n, keep)]
      /\ table' = [table EXCEPT ![r] = SubSeq(s, 1, keep)]
      /\ loaded' = [loaded EXCEPT ![r] = SubSeq(data, 1, keep)]
      /\ s \in Seq(Block) /\ n <= Len(s) /\ data \in Seq(Data) /\ Len(data) = n
      /\ keep \in 0 .. n /\ keep \in {0, WalkBack(data)}
      /\ \A i \in 1 .. n : /\ s[i] \in Block /\ block_hash[s[i]] \in Hash
                           /\ OnDisk(block_hash[s[i]])
      /\ \/ UNCHANGED <<vars, files>>
         \/ /\ ForgetHash(r, s[n + 1])
            /\ files' = [files EXCEPT ![block_hash[s[n + 1]]] = IF @ = Never THEN Never ELSE Gone]
  BY <1>0, Zenon
<1>3. block_hash' = block_hash
  BY <1>1 DEF vars, ForgetHash
<1>4. \A h \in Hash : OnDisk(h)' => OnDisk(h) /\ files'[h] = files[h]
  <2>1. Never.kv = << >> /\ Gone.kv = << >> /\ files \in [Hash -> Data]
    BY TruthTyped, FitsTyped DEF Never, Gone
  <2>. PICK g : g = block_hash[s[n + 1]]
    OBVIOUS
  <2>2. files' = files \/ files' = [files EXCEPT ![g] = IF @ = Never THEN Never ELSE Gone]
    BY <1>1
  <2>3. ASSUME NEW h \in Hash, files'[h] # files[h] PROVE files'[h].kv = << >>
    BY <2>1, <2>2, <2>3
  <2>. QED
    BY <2>3 DEF OnDisk
<1>5. FilesTellTheTruth'
  BY <1>1, <1>4, NamesTyped DEF TruthInv, Truth, FilesTellTheTruth, Names
<1>6. \A i \in 1 .. n : block_hash[s[i]] \in Names =>
        /\ data[i].kv = block_hash[s[i]]
        /\ stateful => data[i].at \in {block_hash[s[i]], << >>}
  BY <1>1, <1>2 DEF TruthInv, Truth, FilesTellTheTruth, Names
<1>7. /\ table'[r] = SubSeq(s, 1, keep) /\ loaded'[r] = SubSeq(data, 1, keep)
      /\ \A q \in Request \ {r} : table'[q] = table[q] /\ loaded'[q] = loaded[q]
  BY <1>1, TruthTyped
<1>8. /\ n \in Nat /\ Len(s) \in Nat /\ keep \in Nat /\ keep <= n /\ keep <= Len(s)
      /\ Len(SubSeq(data, 1, keep)) = keep
      /\ \A i \in 1 .. keep : i \in 1 .. n /\ i \in 1 .. Len(s)
                              /\ SubSeq(s, 1, keep)[i] = s[i] /\ SubSeq(data, 1, keep)[i] = data[i]
  BY <1>1
<1>9. LoadedFrom(r)'
  BY <1>3, <1>6, <1>7, <1>8 DEF LoadedFrom
<1>10. job'.at = "drop" /\ job'.r = r
  BY <1>1
<1>11. Found' /\ Chained'
  BY <1>10 DEF Found, Chained, Storing
<1>12. ASSUME r \notin by_index PROVE OwnData(r)'
  <2>. PICK u : u = Units(r)
    OBVIOUS
  <2>. PICK d : d = SubSeq(data, 1, keep)
    OBVIOUS
  <2>1. Carries(s, job.found, u, allocated, block_hash) /\ job.found \in Seq(Block)
    BY <1>1, <1>12, JobAtWork, TruthTyped DEF TruthInv, Truth, Found, s
  <2>2. Len(u) \in Nat /\ Units(r)' = u /\ \A i \in 1 .. Len(u) : SubSeq(u, 1, i) \in Names
    BY <1>1, PrefixNamed, TruthTyped DEF Units
  <2>3. Len(s) <= Len(u) /\ \A i \in 1 .. Len(s) : block_hash[s[i]] = SubSeq(u, 1, i)
    BY <1>8, <2>1, <2>2 DEF Carries
  <2>4. \A i \in 1 .. keep : /\ d[i] = data[i] /\ data[i].kv = SubSeq(u, 1, i)
                             /\ stateful => data[i].at \in {SubSeq(u, 1, i), << >>}
    <3>1. ASSUME NEW i \in 1 .. keep
          PROVE  block_hash[s[i]] = SubSeq(u, 1, i) /\ SubSeq(u, 1, i) \in Names
      BY <1>8, <2>2, <2>3
    <3>. QED
      BY <1>6, <1>8, <3>1
  <2>5. d \in Seq(Data) /\ Len(d) = keep
    BY <1>1, <1>8
  <2>6. ASSUME stateful, d # << >> PROVE Ext!Last(d).at = SubSeq(u, 1, Len(d))
    <3>1. keep # 0 /\ keep \in 1 .. keep
      BY <1>8, <2>5, <2>6
    <3>2. keep = WalkBack(data) /\ HasState(data[keep])
      BY <1>1, <3>1, WalkedBackTo
    <3>3. data[keep].at # << >>
      BY <2>6, <3>2 DEF HasState
    <3>4. Ext!Last(d) = d[keep]
      BY <2>5 DEF Ext!Last
    <3>. QED
      BY <2>4, <2>5, <2>6, <3>1, <3>3, <3>4
  <2>7. \A i \in DOMAIN d : d[i].kv = SubSeq(u, 1, i)
    BY <2>4, <2>5
  <2>8. loaded'[r] = d /\ Units(r)' = u /\ stateful' = stateful
    BY <1>1, <1>7, <2>2
  <2>. QED
    BY <2>6, <2>7, <2>8 DEF OwnData
<1>13. Served(r)'
  BY <1>1, <1>12 DEF Served
<1>. QED
  BY <1>1, <1>3, <1>5, <1>7, <1>9, <1>10, <1>11, <1>13, TruthOthers

\* The blocks of a table have names, except one that is not registered yet.
LEMMA TableNamed ==
  ASSUME TruthInv, job.at \notin {"register", "release"}, NEW r \in Request,
         NEW i \in 1 .. Len(table[r])
  PROVE  table[r][i] \in Block /\ block_hash[table[r][i]] \in Hash \ {<< >>}
<1>. DEFINE b == table[r][i]
<1>1. b \in Block /\ Lists(table[r], b)
  BY TruthTyped DEF Lists
<1>. HIDE DEF b
<1>2. b \in held[r]
  BY <1>1, TruthTyped, RefsTyped DEF RefsOf, Listed
<1>3. b # NullBlock
  BY <1>2, TruthTyped DEF PrefixInv, Inv, Owners
<1>4. b \in allocated
  <2>1. r \in Holders(b)
    BY <1>2 DEF Holders
  <2>. QED
    BY <1>1, <1>3, <2>1, TruthTyped DEF PrefixInv, Inv, RefCountExact, Null
<1>5. b \notin fresh
  BY NoneFresh, TruthTyped
<1>6. b \in allocated \ (Null \cup fresh)
  BY <1>3, <1>4, <1>5 DEF Null
<1>7. block_hash[b] \in Hash \ {<< >>}
  BY <1>6, TruthTyped DEF SavedInv, HashesGiven
<1>. QED
  BY <1>1, <1>7 DEF b

LEMMA ParentOf ==
  ASSUME NEW s \in Seq(Block)
  PROVE  /\ s = << >> => ParentHash(s) = << >>
         /\ s # << >> /\ block_hash[s[Len(s)]] # None => ParentHash(s) = block_hash[s[Len(s)]]
<1>1. s # << >> => Ext!Last(s) = s[Len(s)]
  BY DEF Ext!Last
<1>. QED
  BY <1>1 DEF ParentHash

\* Storing starts after data that is the request's own.
LEMMA TruthOfStoreBegins ==
  ASSUME TruthInv, NEW r \in Request, NEW more, NEW snaps, StoreBegins(r, snaps, more)
  PROVE  Truth'
<1>1. /\ job = Idle /\ stage[r] = "queued" /\ OwnData(r)
      /\ UNCHANGED <<block_hash, files, stateful, stage, prompt, table, loaded, by_index>>
      /\ \E m : job' = [at |-> "store", r |-> r, snaps |-> snaps, more |-> more, end |-> m]
  BY Zenon DEF StoreBegins, vars, Own
<1>2. job'.at = "store" /\ job'.r = r
  BY <1>1
<1>. PICK s : s = table[r]
  OBVIOUS
<1>. PICK k : k = Len(s)
  OBVIOUS
<1>3. s \in Seq(Block) /\ k \in Nat /\ Len(loaded[r]) = k
  BY <1>1, TruthTyped, FitsTyped DEF FitsOf, Busy
<1>4. Chains(r, ParentHash(s), k)
  <2>1. CASE k = 0
    <3>1. s = << >> /\ SubSeq(Units(r), 1, 0) = << >>
      <4>1. s = << >>
        <5>1. s \in Seq(Block) /\ Len(s) = 0
          BY <1>3, <2>1
        <5>. QED
          BY <5>1, EmptySeq
      <4>2. Units(r) \in Seq(Unit)
        BY PrefixNamed, TruthTyped
      <4>. QED
        BY <4>1, <4>2
    <3>. QED
      BY <1>3, <2>1, <3>1, ParentOf DEF Chains
  <2>2. CASE k # 0
    <3>. DEFINE h == block_hash[s[k]]
    <3>1. k \in 1 .. Len(s) /\ s # << >> /\ k \in DOMAIN loaded[r] /\ k \in 1 .. Len(loaded[r])
      BY <1>3, <2>2, TruthTyped
    <3>2. h \in Hash \ {<< >>}
      BY <1>1, <3>1, TableNamed DEF Idle
    <3>3. ParentHash(s) = h
      BY <1>3, <3>1, <3>2, ParentOf, PagedCacheAssumption
    <3>4. h \in Names => h = SubSeq(Units(r), 1, k)
      BY <1>1, <3>1 DEF OwnData, TruthInv, Truth, LoadedFrom
    <3>. QED
      BY <3>2, <3>3, <3>4 DEF Chains, Unknown
  <2>. QED
    BY <2>1, <2>2
<1>5. ParentHash(s)' = ParentHash(s)
  BY <1>1 DEF ParentHash
<1>6. Chained'
  <2>1. OwnData(job.r)'
    BY <1>1, <1>2 DEF OwnData, Units
  <2>2. /\ ParentHash(table[job.r])' = ParentHash(s) /\ Len(table[job.r])' = k
        /\ Units(r)' = Units(r)
    BY <1>1, <1>2, <1>5 DEF ParentHash, Units
  <2>3. Chains(job.r, ParentHash(table[job.r]), Len(table[job.r]))'
    BY <1>2, <1>4, <2>2 DEF Chains
  <2>. QED
    BY <1>2, <2>1, <2>3 DEF Chained
<1>7. Found'
  BY <1>2 DEF Found
<1>. QED
  BY <1>1, <1>2, <1>6, <1>7, TruthOn

LEMMA StoreAt ==
  ASSUME TruthInv, HashesClosed, Storing
  PROVE  /\ job \in Store /\ job.r \in Request /\ job.at = "store"
         /\ Len(table[job.r]) \in 0 .. Len(Units(job.r)) - 1
         /\ ParentHash(table[job.r]) \in Seq(Unit) /\ ShareHash \in Hash \ {<< >>}
         /\ NextUnit \in Unit /\ table[job.r] \in Seq(Block)
         /\ Chains(job.r, ParentHash(table[job.r]), Len(table[job.r])) /\ OwnData(job.r)
<1>1. job \in Store /\ job.at = "store" /\ Len(table[job.r]) < job.end
  BY JobKinds, TruthTyped DEF Storing
<1>2. /\ job.r \in Request /\ table[job.r] \in Seq(Block) /\ Units(job.r) \in Seq(Unit)
      /\ Len(table[job.r]) \in 0 .. Len(Units(job.r)) - 1
  BY <1>1, StoringNow, TruthTyped
<1>3. NextUnit \in Unit
  BY <1>2 DEF NextUnit
<1>. DEFINE h == ParentHash(table[job.r])
            u == [NextUnit EXCEPT !.image = NoImage]
<1>4. h \in Hash \cup {<< >>} /\ h \in Seq(Unit)
  <2>1. h \in Hash \cup {<< >>}
    BY <1>2, ParentKnown, TruthTyped
  <2>2. << >> \in Seq(Unit)
    OBVIOUS
  <2>. QED
    BY <2>1, <2>2, NamesTyped
<1>5. u \in Unit
  BY <1>3, PrefixAssumption DEF Unit
<1>6. ShareHash = Append(h, u)
  BY DEF ShareHash
<1>. HIDE DEF h, u
<1>7. Append(h, u) \in Hash /\ Append(h, u) # << >>
  <2>1. Append(h, u) \in Hash
    BY <1>4, <1>5 DEF HashesClosed
  <2>2. Append(h, u) # << >>
    BY <1>4, <1>5
  <2>. QED
    BY <2>1, <2>2
<1>8. Chains(job.r, ParentHash(table[job.r]), Len(table[job.r])) /\ OwnData(job.r)
  BY <1>1 DEF TruthInv, Truth, Chained, Storing
<1>. QED
  BY <1>1, <1>2, <1>3, <1>4, <1>6, <1>7, <1>8 DEF h

\* A block is shared: it is named after the text of the next unit.
LEMMA TruthOfStoreShares ==
  ASSUME TruthInv, HashesClosed, NEW b \in Block, StoreShares(b)
  PROVE  Truth'
<1>1. /\ Storing /\ b \in cached[ShareHash] /\ job' = job
      /\ table' = [table EXCEPT ![job.r] = Append(@, b)]
      /\ UNCHANGED <<block_hash, files, stateful, stage, prompt, loaded, by_index>>
  BY DEF StoreShares, IncrementRef
<1>2. /\ job.r \in Request /\ job.at = "store" /\ ShareHash \in Hash \ {<< >>} /\ OwnData(job.r)
  BY <1>1, StoreAt
<1>. PICK r \in Request : r = job.r
  BY <1>2
<1>. PICK s : s = table[r]
  OBVIOUS
<1>. PICK i : i = Len(s)
  OBVIOUS
<1>. PICK h : h = ParentHash(s)
  OBVIOUS
<1>3. /\ s \in Seq(Block) /\ i \in 0 .. Len(Units(r)) - 1 /\ h \in Seq(Unit) /\ Chains(r, h, i)
      /\ ShareHash = Append(h, [Units(r)[i + 1] EXCEPT !.image = NoImage])
  BY <1>1, StoreAt DEF ShareHash, NextUnit
<1>4. PICK g : g = ShareHash
  OBVIOUS
<1>5. Chains(r, g, i + 1)
  BY <1>3, <1>4, ChainShared, TruthTyped
<1>6. block_hash[b] = g /\ g # None
  BY <1>1, <1>2, <1>4, TruthTyped, PagedCacheAssumption DEF PrefixInv, Inv, CachedSound
<1>7. PICK t : t = Append(s, b)
  OBVIOUS
<1>8. t \in Seq(Block) /\ Len(t) = i + 1 /\ t[Len(t)] = b /\ t # << >>
      /\ \A j \in 1 .. Len(s) : t[j] = s[j]
  <2>1. s \in Seq(Block) /\ i \in Nat /\ i = Len(s)
    BY <1>3
  <2>2. /\ t \in Seq(Block) /\ Len(t) = i + 1 /\ t[i + 1] = b
        /\ \A j \in 1 .. Len(s) : t[j] = s[j]
    BY <1>7, <2>1
  <2>. QED
    BY <2>1, <2>2
<1>9. ParentHash(t) = g
  BY <1>6, <1>8, ParentOf
<1>10. table'[r] = t /\ \A q \in Request \ {r} : table'[q] = table[q]
  BY <1>1, <1>7, TruthTyped
<1>11. job'.r = r /\ job'.at = "store"
  BY <1>1, <1>2
<1>12. Chained'
  <2>1. OwnData(job.r)'
    BY <1>1, <1>2 DEF OwnData, Units
  <2>2. table'[job'.r] = t /\ ParentHash(t)' = ParentHash(t) /\ Units(r)' = Units(r)
    BY <1>1, <1>10, <1>11 DEF ParentHash, Units
  <2>3. ParentHash(table[job.r])' = g /\ Len(table[job.r])' = i + 1
    BY <1>8, <1>9, <2>2 DEF ParentHash
  <2>4. Chains(job.r, ParentHash(table[job.r]), Len(table[job.r]))'
    BY <1>5, <1>11, <2>2, <2>3 DEF Chains
  <2>. QED
    BY <1>11, <2>1, <2>4 DEF Chained
<1>13. Found'
  BY <1>11 DEF Found
<1>14. \A j \in 1 .. Len(loaded[r]) : table'[r][j] = table[r][j]
  <2>1. Len(loaded[r]) <= Len(s) /\ Len(loaded[r]) \in Nat /\ Len(s) \in Nat
    BY TruthTyped
  <2>. QED
    BY <1>8, <1>10, <2>1
<1>. QED
  BY <1>1, <1>2, <1>10, <1>11, <1>12, <1>13, <1>14, TruthOn

\* A block is taken for the next unit.
LEMMA TruthOfStoreAllocates ==
  ASSUME TruthInv, HashesClosed, NEW b \in Block, StoreAllocates(b)
  PROVE  Truth'
<1>1. /\ Storing /\ TakeBlock(b) /\ job' = [job EXCEPT !.at = "register"]
      /\ table' = [table EXCEPT ![job.r] = Append(@, b)]
      /\ block_hash' = [block_hash EXCEPT ![b] = EvictedHash(b)]
      /\ UNCHANGED <<files, stateful, stage, prompt, loaded, by_index>>
  BY DEF StoreAllocates, AllocateBlock
<1>2. job \in Store /\ job.r \in Request /\ job.at = "store" /\ OwnData(job.r)
  BY <1>1, StoreAt
<1>. PICK r \in Request : r = job.r
  BY <1>2
<1>. PICK s : s = table[r]
  OBVIOUS
<1>. PICK t : t = Append(s, b)
  OBVIOUS
<1>3. s \in Seq(Block) /\ Len(s) \in Nat /\ Chains(r, ParentHash(s), Len(s))
  BY <1>1, StoreAt, TruthTyped
<1>4. job'.r = r /\ job'.at = "register"
  BY <1>1, <1>2 DEF Store
<1>. PICK e : e = EvictedHash(b)
  OBVIOUS
<1>5. \A q \in Request : \A j \in 1 .. Len(table[q]) :
         block_hash'[table[q][j]] = block_hash[table[q][j]]
  <2>1. block_hash' = [block_hash EXCEPT ![b] = e]
    BY <1>1
  <2>2. ASSUME NEW q \in Request, NEW j \in 1 .. Len(table[q])
        PROVE  block_hash'[table[q][j]] = block_hash[table[q][j]]
    <3>1. table[q][j] \in Block /\ table[q][j] # b
      BY <1>1, <1>2, NotTaken
    <3>. QED
      BY <2>1, <3>1, TruthTyped
  <2>. QED
    BY <2>2
<1>6. /\ t \in Seq(Block) /\ Len(t) = Len(s) + 1 /\ Ext!Front(t) = s
      /\ \A j \in 1 .. Len(s) : t[j] = s[j]
  <2>1. /\ t \in Seq(Block) /\ Len(t) = Len(s) + 1 /\ SubSeq(t, 1, Len(s)) = s
        /\ \A j \in 1 .. Len(s) : t[j] = s[j]
    BY <1>3
  <2>. QED
    BY <1>3, <2>1 DEF Ext!Front
<1>7. table'[r] = t /\ \A q \in Request \ {r} : table'[q] = table[q]
  BY <1>1, TruthTyped
<1>8. ParentHash(s)' = ParentHash(s)
  <2>1. s # << >> => Ext!Last(s) = s[Len(s)] /\ Len(s) \in 1 .. Len(table[r])
    BY <1>3 DEF Ext!Last
  <2>2. s # << >> => block_hash'[Ext!Last(s)] = block_hash[Ext!Last(s)]
    BY <1>5, <2>1
  <2>. QED
    BY <2>2 DEF ParentHash
<1>9. Chained'
  <2>1. OwnData(job.r)'
    BY <1>1, <1>2, <1>4 DEF OwnData, Units
  <2>2. Ext!Front(table'[job'.r]) = s /\ Len(table'[job'.r]) - 1 = Len(s)
    BY <1>3, <1>4, <1>6, <1>7
  <2>3. ParentHash(Ext!Front(table[job.r]))' = ParentHash(s) /\ Units(r)' = Units(r)
    BY <1>1, <1>8, <2>2 DEF ParentHash, Units
  <2>4. Chains(job.r, ParentHash(Ext!Front(table[job.r])), Len(table[job.r]) - 1)'
    BY <1>3, <1>4, <2>2, <2>3 DEF Chains
  <2>. QED
    BY <1>4, <2>1, <2>4 DEF Chained, Storing
<1>10. Found'
  BY <1>4 DEF Found
<1>11. \A q \in Request : \A j \in 1 .. Len(loaded[q]) :
          j \in 1 .. Len(table[q]) /\ block_hash'[table[q][j]] = block_hash[table[q][j]]
  BY <1>5, TruthTyped
<1>12. LoadedFrom(r)'
  <2>1. \A j \in 1 .. Len(loaded[r]) : table'[r][j] = table[r][j]
    BY <1>6, <1>7, <1>11
  <2>. QED
    BY <1>1, <1>11, <2>1 DEF LoadedFrom, TruthInv, Truth
<1>13. FilesTellTheTruth'
  BY <1>1 DEF FilesTellTheTruth, OnDisk, TruthInv, Truth
<1>14. Served(r)'
  BY <1>1, <1>2, <1>4 DEF Served, OwnData, Units
<1>. QED
  BY <1>1, <1>2, <1>4, <1>7, <1>9, <1>10, <1>11, <1>12, <1>13, <1>14, TruthOthers

\* The block taken is no block that somebody loaded from.
LEMMA LastNotLoaded ==
  ASSUME TruthInv, job.at \in {"register", "save"}
  PROVE  /\ job.r \in Request /\ LastBlock \in Block /\ job \in Store /\ OwnData(job.r)
         /\ table[job.r] \in Seq(Block)
         /\ Len(table[job.r]) \in 1 .. Len(Units(job.r)) /\ Len(Units(job.r)) \in Nat
         /\ LastBlock = table[job.r][Len(table[job.r])]
         /\ Len(loaded[job.r]) < Len(table[job.r])
         /\ \A r \in Request : \A i \in 1 .. Len(loaded[r]) :
              table[r][i] # LastBlock /\ table[r][i] \in Block
<1>1. job \in Store /\ job.r \in Request /\ Busy(job.r)
  BY JobKinds, JobAtWork, TruthTyped
<1>. PICK q \in Request : q = job.r
  BY <1>1
<1>. DEFINE s == table[q]
<1>2. /\ s \in Seq(Block) /\ Len(s) \in 1 .. Len(Units(q)) /\ Len(Units(q)) \in Nat
      /\ Len(s) \in Nat
  BY <1>1, StoringNow, TruthTyped
<1>3. Len(loaded[q]) < Len(s) /\ Distinct(s)
  BY <1>1, TruthTyped, FitsTyped DEF FitsOf, RefsOf
<1>. HIDE DEF s
<1>4. LastBlock = s[Len(s)] /\ LastBlock \in Block
  <2>1. Ext!Last(s) = s[Len(s)]
    BY DEF Ext!Last
  <2>. QED
    BY <1>2, <2>1 DEF LastBlock, s
<1>5. OwnData(q)
  BY DEF TruthInv, Truth, Chained
<1>6. ASSUME NEW r \in Request, NEW i \in 1 .. Len(loaded[r])
      PROVE  table[r][i] # LastBlock /\ table[r][i] \in Block
  <2>1. i \in 1 .. Len(table[r]) /\ table[r] \in Seq(Block)
    BY TruthTyped
  <2>2. CASE r = q
    BY <1>2, <1>3, <1>4, <2>1, <2>2, TruthTyped DEF Distinct, s
  <2>3. CASE r # q
    <3>1. Lists(table[r], table[r][i]) /\ table[r][i] \in Block
      BY <2>1 DEF Lists
    <3>2. table[r][i] \in held[r]
      BY <3>1, TruthTyped, RefsTyped DEF RefsOf, Listed
    <3>. QED
      BY <2>3, <3>1, <3>2, TruthTyped DEF SavedInv, SoleOwner
  <2>. QED
    BY <2>2, <2>3
<1>. QED
  BY <1>1, <1>2, <1>3, <1>4, <1>5, <1>6 DEF s

\* The block is registered under the name of the request's own units, or under
\* one that nobody looks up.
LEMMA TruthOfStoreRegisters ==
  ASSUME TruthInv, HashesClosed, StoreRegisters
  PROVE  Truth'
<1>1. /\ job.at = "register" /\ job' = [job EXCEPT !.at = "save"]
      /\ block_hash' = [block_hash EXCEPT ![LastBlock] = OwnHash]
      /\ UNCHANGED <<files, stateful, stage, prompt, table, loaded, by_index>>
  BY DEF StoreRegisters, RegisterBlockHash, OwnHash, LastBlock
<1>2. job \in Store /\ job.r \in Request /\ OwnData(job.r)
  BY <1>1, LastNotLoaded
<1>. PICK r \in Request : r = job.r
  BY <1>2
<1>. PICK b : b = LastBlock
  OBVIOUS
<1>. PICK h : h = OwnHash
  OBVIOUS
<1>. PICK s : s = table[r]
  OBVIOUS
<1>3. job'.r = r /\ job'.at = "save"
  BY <1>1, <1>2 DEF Store
<1>4. /\ b \in Block /\ Len(s) \in 1 .. Len(Units(r)) /\ Len(Units(r)) \in Nat
      /\ \A q \in Request : \A i \in 1 .. Len(loaded[q]) :
           table[q][i] # b /\ table[q][i] \in Block
  BY <1>1, LastNotLoaded
<1>5. h = SubSeq(Units(r), 1, Len(s)) \/ Unknown(h)
  <2>. DEFINE p == ParentHash(Ext!Front(s))
              i == Len(s) - 1
  <2>1. p \in Seq(Unit) /\ h = Append(p, Units(r)[Len(s)])
    <3>1. p \in Hash \cup {<< >>} /\ h = Append(p, Units(r)[Len(s)])
      BY <1>1, OwnHashKnown, TruthTyped DEF OwnHash
    <3>2. << >> \in Seq(Unit)
      OBVIOUS
    <3>. QED
      BY <3>1, <3>2, NamesTyped
  <2>2. Chains(r, p, i)
    BY <1>1 DEF TruthInv, Truth, Chained
  <2>3. i \in 0 .. Len(Units(r)) - 1 /\ i + 1 = Len(s)
    BY <1>4
  <2>. HIDE DEF p, i
  <2>. QED
    BY <2>1, <2>2, <2>3, ChainRegistered, TruthTyped
<1>6. LastBlock' = b
  <2>1. Ext!Last(table'[job'.r]) = Ext!Last(table[job.r])
    BY <1>1, <1>3
  <2>. QED
    BY <2>1 DEF LastBlock
<1>7. block_hash' = [block_hash EXCEPT ![b] = h]
  BY <1>1
<1>8. block_hash'[b] = h /\ \A c \in Block \ {b} : block_hash'[c] = block_hash[c]
  BY <1>4, <1>7, TruthTyped
<1>9. Chained'
  <2>1. OwnData(job.r)'
    BY <1>1, <1>2, <1>3 DEF OwnData, Units
  <2>2. Units(job.r)' = Units(r) /\ Len(table'[job'.r]) = Len(s)
    BY <1>1, <1>3 DEF Units
  <2>3. block_hash'[LastBlock'] = h
    BY <1>6, <1>8
  <2>. QED
    BY <1>3, <1>5, <2>1, <2>2, <2>3 DEF Chained, Storing
<1>10. Found'
  BY <1>3 DEF Found
<1>11. \A q \in Request : \A i \in 1 .. Len(loaded[q]) :
          block_hash'[table[q][i]] = block_hash[table[q][i]]
  BY <1>4, <1>8
<1>12. LoadedFrom(r)' /\ FilesTellTheTruth'
  BY <1>1, <1>11 DEF LoadedFrom, TruthInv, Truth, FilesTellTheTruth, OnDisk
<1>13. Served(r)'
  BY <1>1, <1>2, <1>3 DEF Served, OwnData, Units
<1>. QED
  BY <1>1, <1>2, <1>3, <1>9, <1>10, <1>11, <1>12, <1>13, TruthOthers

\* After data of its own a request computes the KV of its own units.
LEMMA ComputedOwn ==
  ASSUME NEW r \in Request, OwnData(r), Units(r) \in Seq(Unit), loaded[r] \in Seq(Data),
         NEW i \in 1 .. Len(Units(r)), Len(loaded[r]) < i
  PROVE  Computed(r, i) = SubSeq(Units(r), 1, i)
<1>. DEFINE k == Len(loaded[r])
            u == Units(r)
            a == IF k = 0 THEN << >> ELSE loaded[r][k].kv
<1>1. k \in Nat /\ k < i /\ u \in Seq(Unit) /\ i \in 1 .. Len(u) /\ Len(u) \in Nat
  OBVIOUS
<1>2. Computed(r, i) = a \o SubSeq(u, k + 1, i)
  <2>1. ~(i <= Len(loaded[r]))
    OBVIOUS
  <2>. QED
    BY <2>1, Zenon DEF Computed
<1>3. a = SubSeq(u, 1, k)
  <2>1. CASE k = 0
    BY <2>1
  <2>2. CASE k # 0
    <3>1. k \in DOMAIN loaded[r]
      BY <2>2
    <3>. QED
      BY <2>2, <3>1 DEF OwnData
  <2>. QED
    BY <2>1, <2>2
<1>. HIDE DEF k, u, a
<1>4. SubSeq(u, 1, k) \o SubSeq(u, k + 1, i) = SubSeq(u, 1, i)
  BY <1>1, ConcatAdjacentSubSeq
<1>. QED
  BY <1>2, <1>3, <1>4 DEF u

\* A file is written under the name of the block it holds.
LEMMA TruthOfStoreSaves ==
  ASSUME TruthInv, StoreSaves
  PROVE  Truth'
<1>1. /\ job.at = "save" /\ job' = [job EXCEPT !.at = "store"]
      /\ files' = IF OnDisk(block_hash[LastBlock]) THEN files
                  ELSE [files EXCEPT ![block_hash[LastBlock]] = BlockData]
      /\ UNCHANGED <<block_hash, stateful, stage, prompt, table, loaded, by_index>>
  BY DEF StoreSaves, LastBlock, vars
<1>2. job \in Store /\ job.r \in Request /\ OwnData(job.r)
  BY <1>1, LastNotLoaded
<1>. PICK r \in Request : r = job.r
  BY <1>2
<1>. PICK h : h = block_hash[LastBlock]
  OBVIOUS
<1>. PICK s : s = table[r]
  OBVIOUS
<1>. PICK u : u = Units(r)
  OBVIOUS
<1>. PICK d : d = BlockData
  OBVIOUS
<1>3. job'.r = r /\ job'.at = "store"
  BY <1>1, <1>2 DEF Store
<1>4. /\ s \in Seq(Block) /\ Len(s) \in 1 .. Len(u) /\ Len(u) \in Nat
      /\ Len(loaded[r]) < Len(s) /\ LastBlock = s[Len(s)] /\ s # << >>
      /\ LastBlock \in Block
  BY <1>1, LastNotLoaded
<1>5. u \in Seq(Unit)
  BY PrefixNamed, TruthTyped
<1>6. h = SubSeq(u, 1, Len(s)) \/ Unknown(h)
  BY <1>1 DEF TruthInv, Truth, Chained
<1>7. Computed(r, Len(s)) = SubSeq(u, 1, Len(s))
  BY <1>2, <1>4, <1>5, ComputedOwn, TruthTyped
<1>8. d.kv = SubSeq(u, 1, Len(s)) /\ d.at \in {SubSeq(u, 1, Len(s)), << >>}
  <2>1. BlockData.kv = SliceOf(r, Len(s)) /\ BlockData.at = StateOf(r, Len(s))
    BY DEF BlockData
  <2>2. SliceOf(r, Len(s)) = SubSeq(u, 1, Len(s))
    BY <1>7 DEF SliceOf
  <2>3. StateOf(r, Len(s)) \in {SubSeq(u, 1, Len(s)), << >>}
    BY <1>7 DEF StateOf
  <2>. QED
    BY <2>1, <2>2, <2>3
<1>9. FilesTellTheTruth'
  <2>1. SUFFICES ASSUME NEW g \in Names, files'[g].kv # << >>
                 PROVE  files'[g].kv = g /\ (stateful => files'[g].at \in {g, << >>})
    BY <1>1 DEF FilesTellTheTruth, OnDisk, Names
  <2>2. CASE files'[g] = files[g]
    BY <2>1, <2>2 DEF TruthInv, Truth, FilesTellTheTruth, OnDisk, Names
  <2>3. CASE files'[g] # files[g]
    <3>1. files' = files \/ files' = [files EXCEPT ![h] = d]
      BY <1>1
    <3>2. g \in Hash /\ files \in [Hash -> Data]
      BY TruthTyped, FitsTyped, NamesTyped
    <3>3. g = h /\ files'[g] = d
      BY <2>3, <3>1, <3>2
    <3>4. h = SubSeq(u, 1, Len(s))
      BY <1>6, <2>1, <3>3 DEF Unknown
    <3>. QED
      BY <1>8, <3>3, <3>4
  <2>. QED
    BY <2>2, <2>3
<1>10. Chained'
  <2>1. OwnData(job.r)'
    BY <1>1, <1>2, <1>3 DEF OwnData, Units
  <2>2. h # None
    <3>1. h \in Hash \ {<< >>}
      BY <1>1, <1>4, TableNamed
    <3>. QED
      BY <3>1, PagedCacheAssumption
  <2>3. ParentHash(s) = h
    BY <1>4, <2>2, ParentOf
  <2>4. Chains(r, h, Len(s))
    BY <1>6 DEF Chains
  <2>5. ParentHash(table[job.r])' = h /\ Len(table[job.r])' = Len(s) /\ Units(r)' = Units(r)
    BY <1>1, <1>3, <2>3 DEF ParentHash, Units
  <2>6. Chains(job.r, ParentHash(table[job.r]), Len(table[job.r]))'
    BY <1>3, <2>4, <2>5 DEF Chains
  <2>. QED
    BY <1>3, <2>1, <2>6 DEF Chained, Storing
<1>11. Found'
  BY <1>3 DEF Found
<1>12. LoadedFrom(r)'
  BY <1>1 DEF LoadedFrom, TruthInv, Truth
<1>13. Served(r)'
  BY <1>1, <1>2, <1>3 DEF Served, OwnData, Units
<1>. QED
  BY <1>1, <1>2, <1>3, <1>9, <1>10, <1>11, <1>12, <1>13, TruthOthers

\* The block that could not be saved leaves the table; nothing more is stored.
LEMMA TruthOfStoreFails ==
  ASSUME TruthInv, StoreFails
  PROVE  Truth'
<1>1. /\ job.at = "save" /\ FreeBlock(job.r, LastBlock)
      /\ table' = [table EXCEPT ![job.r] = Ext!Front(@)]
      /\ job' = [job EXCEPT !.at = "store", !.end = Len(table[job.r]) - 1]
      /\ UNCHANGED <<block_hash, files, stateful, stage, prompt, loaded, by_index>>
  BY DEF StoreFails, FreeBlock, FreeLast, FreeShared, LastBlock
<1>2. job \in Store /\ job.r \in Request /\ OwnData(job.r)
  BY <1>1, LastNotLoaded
<1>. PICK r \in Request : r = job.r
  BY <1>2
<1>. PICK s : s = table[r]
  OBVIOUS
<1>3. /\ s \in Seq(Block) /\ Len(s) \in Nat \ {0} /\ Len(loaded[r]) < Len(s)
      /\ Len(loaded[r]) \in Nat
  BY <1>1, LastNotLoaded, TruthTyped
<1>4. job'.r = r /\ job'.at = "store" /\ job'.end = Len(s) - 1
  BY <1>1, <1>2 DEF Store
<1>5. /\ Len(Ext!Front(s)) = Len(s) - 1
      /\ \A i \in 1 .. Len(s) - 1 : Ext!Front(s)[i] = s[i]
  BY <1>3 DEF Ext!Front
<1>6. table'[r] = Ext!Front(s) /\ \A q \in Request \ {r} : table'[q] = table[q]
  BY <1>1, TruthTyped
<1>7. Chained'
  <2>1. OwnData(job.r)'
    BY <1>1, <1>2, <1>4 DEF OwnData, Units
  <2>2. ~(Len(table'[job'.r]) < job'.end)
    BY <1>3, <1>4, <1>5, <1>6
  <2>. QED
    BY <1>4, <2>1, <2>2 DEF Chained, Storing
<1>8. Found'
  BY <1>4 DEF Found
<1>9. \A i \in 1 .. Len(loaded[r]) : table'[r][i] = table[r][i]
  BY <1>3, <1>5, <1>6
<1>. QED
  BY <1>1, <1>2, <1>4, <1>6, <1>7, <1>8, <1>9, TruthOn

LEMMA TruthOfExit ==
  ASSUME TruthInv, StoreEnds \/ (\E r \in Request : ExitBegins(r)) \/ Exit
  PROVE  Truth'
<1>1. ASSUME NEW r \in Request, job = Idle \/ job.r = r, job'.at = "release", job'.r = r,
             UNCHANGED <<block_hash, files, stateful, stage, prompt, table, loaded, by_index>>
      PROVE  Truth'
  <2>1. Found' /\ Chained'
    BY <1>1 DEF Found, Chained, Storing
  <2>. QED
    BY <1>1, <2>1, TruthOn
<1>2. CASE StoreEnds
  <2>1. /\ job.at = "store" /\ job' = [at |-> "release", r |-> job.r, blocks |-> table[job.r]]
        /\ UNCHANGED <<block_hash, files, stateful, stage, prompt, table, loaded, by_index>>
    BY <1>2 DEF StoreEnds, vars
  <2>2. job.r \in Request
    BY <2>1, JobAtWork, TruthTyped
  <2>3. job'.at = "release" /\ job'.r = job.r
    BY <2>1
  <2>. QED
    BY <1>1, <2>1, <2>2, <2>3
<1>3. ASSUME NEW r \in Request, ExitBegins(r) PROVE Truth'
  <2>1. /\ job = Idle /\ job' = [at |-> "release", r |-> r, blocks |-> table[r]]
        /\ UNCHANGED <<block_hash, files, stateful, stage, prompt, table, loaded, by_index>>
    BY <1>3 DEF ExitBegins, vars
  <2>2. job'.at = "release" /\ job'.r = r
    BY <2>1
  <2>. QED
    BY <1>1, <2>1, <2>2
<1>4. CASE Exit
  <2>1. /\ job.at = "release" /\ job' = Idle
        /\ stage'  = [stage EXCEPT ![job.r] = "none"]
        /\ prompt' = [prompt EXCEPT ![job.r] = NoPrompt]
        /\ table'  = [table EXCEPT ![job.r] = << >>]
        /\ loaded' = [loaded EXCEPT ![job.r] = << >>]
        /\ by_index' = by_index \ {job.r}
        /\ UNCHANGED <<block_hash, files, stateful>>
    BY <1>4 DEF Exit, vars
  <2>2. job.r \in Request
    BY <2>1, JobAtWork, TruthTyped
  <2>. PICK q \in Request : q = job.r
    BY <2>2
  <2>3. /\ stage'[q] = "none" /\ loaded'[q] = << >>
        /\ \A r \in Request \ {q} :
             /\ stage'[r] = stage[r] /\ prompt'[r] = prompt[r] /\ loaded'[r] = loaded[r]
             /\ table'[r] = table[r] /\ (r \in by_index => r \in by_index')
    BY <2>1, TruthTyped
  <2>4. Found' /\ Chained'
    BY <2>1 DEF Found, Chained, Storing, Idle
  <2>5. FilesTellTheTruth'
    BY <2>1 DEF FilesTellTheTruth, OnDisk, TruthInv, Truth
  <2>6. LoadedFrom(q)' /\ Served(q)'
    BY <2>1, <2>3 DEF LoadedFrom, Served, Busy
  <2>. QED
    BY <2>1, <2>3, <2>4, <2>5, <2>6, TruthOthers
<1>. QED
  BY <1>2, <1>3, <1>4

LEMMA TruthOfRest ==
  ASSUME TruthInv, (\E h \in Hash : Forget(h)) \/ ClearAll \/ UNCHANGED prefixVars
  PROVE  Truth'
<1>1. ASSUME NEW h \in Hash, Forget(h) PROVE Truth'
  <2>1. /\ job = Idle /\ files' = [files EXCEPT ![h] = Gone]
        /\ UNCHANGED <<block_hash, stateful, stage, prompt, table, loaded, by_index, job>>
    BY <1>1 DEF Forget, vars
  <2>2. Found' /\ Chained'
    BY <2>1 DEF Found, Chained, Storing, Idle
  <2>3. \A g \in Hash : files'[g].kv # << >> => files'[g] = files[g]
    <3>1. Gone.kv = << >> /\ files \in [Hash -> Data]
      BY TruthTyped, FitsTyped DEF Gone
    <3>. QED
      BY <2>1, <3>1
  <2>4. FilesTellTheTruth'
    BY <2>1, <2>3, NamesTyped DEF FilesTellTheTruth, OnDisk, TruthInv, Truth, Names
  <2>5. ASSUME NEW r \in Request PROVE LoadedFrom(r)' /\ Served(r)'
    BY <2>1 DEF LoadedFrom, Served, Busy, OwnData, Units, TruthInv, Truth
  <2>. QED
    BY <2>2, <2>4, <2>5 DEF Truth
<1>2. CASE ClearAll
  <2>1. /\ job = Idle /\ UNCHANGED <<files, stateful, stage, prompt, table, loaded, by_index, job>>
        /\ \A r \in Request : stage[r] = "none"
    BY <1>2 DEF ClearAll
  <2>2. Found' /\ Chained'
    BY <2>1 DEF Found, Chained, Storing, Idle
  <2>3. FilesTellTheTruth'
    BY <2>1 DEF FilesTellTheTruth, OnDisk, TruthInv, Truth
  <2>4. ASSUME NEW r \in Request PROVE LoadedFrom(r)' /\ Served(r)'
    <3>1. loaded'[r] = << >> /\ stage'[r] = "none"
      BY <2>1, TruthTyped, FitsTyped DEF FitsOf
    <3>. QED
      BY <2>1, <3>1 DEF LoadedFrom, Served, Busy
  <2>. QED
    BY <2>2, <2>3, <2>4 DEF Truth
<1>3. CASE UNCHANGED prefixVars
  BY <1>3 DEF prefixVars, vars, TruthInv, Truth, FilesTellTheTruth, Found, Chained, LoadedFrom,
              Served, OwnData, Units, Busy, OnDisk, Storing, Chains, ParentHash, LastBlock
<1>. QED
  BY <1>1, <1>2, <1>3

LEMMA TruthStep ==
  ASSUME HashesClosed, TruthInv, [PrefixNext]_prefixVars
  PROVE  TruthInv'
<1>1. SavedInv'
  BY SavedStep DEF TruthInv
<1>2. Truth'
  BY TruthOfLookupBegins, TruthOfLookupFinds, TruthOfLookupRestores, TruthOfLookupEnds,
     TruthOfShare, TruthOfReconstruct, TruthOfDrops, TruthOfStoreBegins, TruthOfStoreShares,
     TruthOfStoreAllocates, TruthOfStoreRegisters, TruthOfStoreSaves, TruthOfStoreFails,
     TruthOfExit, TruthOfRest DEF PrefixNext
<1>. QED
  BY <1>1, <1>2 DEF TruthInv

LEMMA TruthFromStart ==
  ASSUME PrefixInit
  PROVE  TruthInv
<1>1. /\ files = [h \in Hash |-> Never] /\ loaded = [r \in Request |-> << >>] /\ job = Idle
      /\ stage = [r \in Request |-> "none"]
  BY DEF PrefixInit
<1>2. FilesTellTheTruth
  BY <1>1, NamesTyped DEF FilesTellTheTruth, OnDisk, Never, Names
<1>3. Found /\ Chained
  BY <1>1 DEF Found, Chained, Storing, Idle
<1>4. \A r \in Request : LoadedFrom(r) /\ Served(r)
  BY <1>1 DEF LoadedFrom, Served, Busy
<1>. QED
  BY <1>2, <1>3, <1>4, SavedFromStart DEF TruthInv, Truth

\* What a hash finds is there, and is what the hash says: a file under a name a
\* lookup can compute holds the KV of the units in that name, and the layer
\* state after exactly these; a text block that is shared below a vision
\* prompt's parent keeps the name it was registered under (store_cache,
\* fetch_cache, reconstruct_cache).
THEOREM PrefixFilesTrustworthy ==
  ASSUME HashesClosed
  PROVE  PrefixSpec => []FilesTrustworthy
<1>1. PrefixInit => TruthInv
  BY TruthFromStart
<1>2. TruthInv /\ [PrefixNext]_prefixVars => TruthInv'
  BY TruthStep
<1>3. TruthInv => FilesTrustworthy
  BY FitsMeansTyped DEF TruthInv, Truth, SavedInv, Saved, FilesTrustworthy, FoundWasSaved, Idle
<1>. QED
  BY <1>1, <1>2, <1>3, PTL DEF PrefixSpec

\* A request whose blocks the hash map or the SSD named starts from the KV of
\* its own prompt and image, and from a layer state after the same tokens
\* (add_request, with what fetch_cache and reconstruct_cache give it).
THEOREM PrefixServedByHashIsOwn ==
  ASSUME HashesClosed
  PROVE  PrefixSpec => []ServedByHashIsOwn
<1>1. PrefixInit => TruthInv
  BY TruthFromStart
<1>2. TruthInv /\ [PrefixNext]_prefixVars => TruthInv'
  BY TruthStep
<1>3. TruthInv => ServedByHashIsOwn
  BY DEF TruthInv, Truth, Served, ServedByHashIsOwn
<1>. QED
  BY <1>1, <1>2, <1>3, PTL DEF PrefixSpec

=============================================================================
