---------------------------- MODULE SchedulerProofs ----------------------------
(***************************************************************************)
(* Theorems about the scheduler of omlx/scheduler.py (module Scheduler)    *)
(* and the engine around it (module Engine), for any requests, batch sizes *)
(* and numbers of errors: the queue, the uid maps and the generator tell   *)
(* of the same requests, the block tables disagree with the pool in the    *)
(* ways that are known, and clients are given each token once.             *)
(*                                                                         *)
(* SchedInv is inductive.  Its parts are of three strengths: Queues,       *)
(* Counters, Numbered and Caches hold whatever happens, Located holds      *)
(* until a request waits with the uid of an earlier generator, and Served  *)
(* until, besides, an unprocessed prompt was aborted.                      *)
(*                                                                         *)
(* EngineInv, in the second half, adds what a step tells the engine        *)
(* (CoreInv, StepEffect) and, for each request, what its coroutine's place *)
(* (ClientOf), its signals (SignalsOf) and its tokens (TokensOf) mean.     *)
(*                                                                         *)
(* The last part is about the logits processor that ends a thought within  *)
(* its budget (module ThinkingBudget).                                     *)
(***************************************************************************)
EXTENDS ThinkingBudget, Engine, DataTheorems

-----------------------------------------------------------------------------
(* The invariant                                                           *)

\* Both queues hold requests that add_request was called for, none twice, and
\* none that was lost.
Queues ==
  /\ IsInjective(waiting) /\ IsInjective(running)
  /\ Waiting \cap Running = {} /\ faults.lost \cap (Waiting \cup Running) = {}
  /\ Waiting \cup Running \subseteq requests
  /\ Len(running) <= MaxNumSeqs

\* A request starts from nothing, and leaves with its last token and its last
\* retry.  step() raises after an error, or in an abort that found a uid astray.
Counters ==
  /\ \A r \in Request \ arrived :
       output_len[r] = 0 /\ retries[r] = 0 /\ uid_of[r] = None /\ table[r] = "none"
  /\ \A r \in requests : output_len[r] < MaxTokens
  /\ output.raised => faults.error > 0 \/ "uid" \in faults.strayed

\* A generator has numbered no more sequences than requests have left the
\* queue, and holds each sequence once.
Numbered ==
  generator # None =>
    /\ generator.count <= Cardinality(arrived \ Waiting)
    /\ \A u \in Sequences(generator) : u < generator.count
    /\ IsInjective(generator.unprocessed)
    /\ ToSet(generator.unprocessed) \cap generator.active = {}

\* Rebuilt KV belongs to requests of the queues, which lose it when they go
\* back from the batch to the queue, and keep the uid they had; or to lost ones.
Caches ==
  /\ prompt_cache \subseteq Waiting \cup Running \cup faults.lost
  /\ \A r \in prompt_cache : r \in Waiting => uid_of[r] = None

\* Where a request is found: in a queue, and, with the generator it was given
\* to, under the uid that the maps agree on.  A lost one has no uid.
Located ==
  "uid" \notin faults.strayed =>
    /\ requests \ faults.lost = Waiting \cup Running
    /\ \A r \in Running : /\ generator # None
                          /\ uid_of[r] \in Sequences(generator)
                          /\ rid_of[uid_of[r]] = r
    /\ \A r \in Waiting : uid_of[r] # None => generator = None /\ rid_of[uid_of[r]] = r
    /\ \A r \in faults.lost : uid_of[r] = None

\* Every sequence is of a running request.
Served ==
  faults.strayed = {} =>
    \A u \in Sequences(generator) : rid_of[u] \in Running /\ uid_of[rid_of[u]] = u

SchedInv ==
  SchedTypeOK /\ Queues /\ Counters /\ Numbered /\ Caches /\ Located /\ Served
  /\ TablesExplained

\* What stays of a queue.
LEMMA Stays ==
  ASSUME NEW A, NEW s \in Seq(A), IsInjective(s), NEW S
  PROVE  /\ Without(s, S) \in Seq(A) /\ IsInjective(Without(s, S))
         /\ ToSet(Without(s, S)) = ToSet(s) \ S
         /\ Len(Without(s, S)) <= Len(s)
<1>. DEFINE P == Staying(s, S)
            N == Cardinality(P)
            f == [i \in P |-> Rank(P, i)]
            r == Without(s, S)
<1>0. Len(s) \in Nat /\ P \subseteq 1 .. Len(s)
  BY DEF Staying
<1>1. IsFiniteSet(1 .. Len(s)) /\ Cardinality(1 .. Len(s)) = Len(s)
  <2>1. /\ IsFiniteSet(1 .. Len(s))
        /\ Cardinality(1 .. Len(s)) = IF 1 > Len(s) THEN 0 ELSE Len(s) - 1 + 1
    BY <1>0, FS_Interval
  <2>. QED
    BY <1>0, <2>1
<1>2. IsFiniteSet(P) /\ N \in Nat /\ N <= Len(s)
  BY <1>0, <1>1, FS_Subset, FS_CardinalityType
<1>. HIDE DEF P, N, r
<1>3. ASSUME NEW i \in P
      PROVE  Rank(P, i) \in 1 .. N /\ IsFiniteSet({j \in P : j <= i})
  <2>. DEFINE B == {j \in P : j <= i}
  <2>1. IsFiniteSet(B) /\ Cardinality(B) \in Nat /\ Cardinality(B) <= N
    BY <1>2, FS_Subset, FS_CardinalityType DEF N
  <2>2. B # {}
    BY <1>0
  <2>3. Cardinality(B) # 0
    BY <2>1, <2>2, FS_EmptySet
  <2>. QED
    BY <1>2, <2>1, <2>3 DEF Rank
<1>4. ASSUME NEW i \in P, NEW j \in P, Rank(P, i) = Rank(P, j), i < j PROVE FALSE
  <2>0. \A k \in P : k \in Nat
    BY <1>0
  <2>1. {k \in P : k <= i} \subseteq {k \in P : k <= j}
    BY <2>0, <1>4
  <2>2. {k \in P : k <= j} = {k \in P : k <= i}
    BY <1>3, <1>4, <2>1, FS_Subset DEF Rank
  <2>. QED
    BY <1>0, <1>4, <2>2
<1>5. \A i, j \in P : Rank(P, i) = Rank(P, j) => i = j
  BY <1>0, <1>4
<1>6. f \in Injection(P, 1 .. N)
  BY <1>3, <1>5 DEF Injection, IsInjective
<1>7. IsFiniteSet(1 .. N) /\ Cardinality(1 .. N) = N
  BY <1>2, FS_Interval
<1>8. f \in Surjection(P, 1 .. N)
  BY <1>6, <1>7, FS_Injection DEF N
<1>9. \A n \in 1 .. N : \E i \in P : Rank(P, i) = n
  BY <1>8 DEF Surjection
<1>. DEFINE at(n) == CHOOSE i \in P : Rank(P, i) = n
<1>10. \A n \in 1 .. N : at(n) \in P /\ Rank(P, at(n)) = n
  BY <1>9
<1>11. r = [n \in 1 .. N |-> s[at(n)]]
  BY DEF r, Without, P, N
<1>. HIDE DEF at
<1>12. /\ r \in Seq(A) /\ Len(r) = N
       /\ \A n \in 1 .. N : r[n] = s[at(n)]
  <2>1. ASSUME NEW n \in 1 .. N PROVE s[at(n)] \in A
    <3>1. at(n) \in P
      BY <1>10
    <3>2. at(n) \in 1 .. Len(s)
      BY <1>0, <3>1
    <3>. QED
      BY <3>2
  <2>2. r \in [1 .. N -> A]
    BY <1>11, <2>1
  <2>3. r \in Seq(A) /\ Len(r) = N
    BY <1>2, <2>2
  <2>. QED
    BY <1>11, <2>3
<1>13. IsInjective(r)
  <2>1. ASSUME NEW m \in 1 .. N, NEW n \in 1 .. N, r[m] = r[n] PROVE m = n
    <3>1. at(m) \in 1 .. Len(s) /\ at(n) \in 1 .. Len(s) /\ s[at(m)] = s[at(n)]
      BY <1>0, <1>10, <1>12, <2>1
    <3>2. at(m) = at(n)
      BY <3>1 DEF IsInjective
    <3>. QED
      BY <1>10, <3>2
  <2>. QED
    BY <1>12, <2>1 DEF IsInjective
<1>14. ASSUME NEW w \in ToSet(r) PROVE w \in ToSet(s) \ S
  <2>1. PICK n \in 1 .. N : w = s[at(n)]
    BY <1>12 DEF ToSet
  <2>2. at(n) \in P
    BY <1>10
  <2>3. at(n) \in 1 .. Len(s) /\ s[at(n)] \notin S
    BY <2>2 DEF P, Staying
  <2>. QED
    BY <2>1, <2>3 DEF ToSet
<1>15. ASSUME NEW w \in ToSet(s) \ S PROVE w \in ToSet(r)
  <2>1. PICK i \in P : s[i] = w
    BY DEF ToSet, P, Staying
  <2>2. Rank(P, i) \in 1 .. N
    BY <1>3
  <2>3. at(Rank(P, i)) = i
    BY <1>5, <1>10, <2>2
  <2>. QED
    BY <1>12, <2>1, <2>2, <2>3 DEF ToSet
<1>. QED
  BY <1>2, <1>12, <1>13, <1>14, <1>15 DEF r
-----------------------------------------------------------------------------
(* Steps that move no request                                              *)

LEMMA Numbers ==
  /\ IsFiniteSet(Request) /\ Cardinality(Request) \in Nat
  /\ None \notin Request /\ None \notin UID /\ None \notin Generators
<1>1. IsFiniteSet(Request) /\ Cardinality(Request) \in Nat
  BY SchedulerAssumption, FS_CardinalityType
<1>2. UID \subseteq Nat
  BY <1>1 DEF UID
<1>3. Generators \subseteq [count: Nat, unprocessed: Seq(Nat), active: SUBSET Nat]
  <2>1. ASSUME NEW s \in Seq(UID) PROVE s \in Seq(Nat)
    <3>1. s \in [1 .. Len(s) -> UID] /\ Len(s) \in Nat
      OBVIOUS
    <3>2. s \in [1 .. Len(s) -> Nat]
      BY <1>2, <3>1
    <3>. QED
      BY <3>1, <3>2
  <2>2. ASSUME NEW g \in Generators
        PROVE  g \in [count: Nat, unprocessed: Seq(Nat), active: SUBSET Nat]
    <3>0. g.count \in 0 .. Cardinality(Request) /\ g.active \subseteq UID
      BY DEF Generators
    <3>a. g.count \in Nat
      BY <1>1, <3>0
    <3>b. g.active \subseteq Nat
      BY <1>2, <3>0
    <3>2. g.unprocessed \in Seq(Nat)
      BY <2>1 DEF Generators
    <3>. QED
      BY <3>a, <3>b, <3>2 DEF Generators
  <2>. QED
    BY <2>2
<1>. QED
  BY <1>1, <1>2, <1>3, SchedulerAssumption

\* As the queue gets shorter, more requests have left it.
LEMMA FewerWaiting ==
  ASSUME NEW A, A \subseteq Request, NEW W, NEW V, V \subseteq W
  PROVE  /\ Cardinality(A \ W) \in Nat /\ Cardinality(A \ V) \in Nat
         /\ Cardinality(A \ W) <= Cardinality(A \ V)
         /\ Cardinality(A \ V) <= Cardinality(Request)
<1>1. IsFiniteSet(A \ V) /\ Cardinality(A \ V) <= Cardinality(Request)
  BY Numbers, FS_Subset
<1>2. IsFiniteSet(A \ W) /\ Cardinality(A \ W) <= Cardinality(A \ V)
  BY <1>1, FS_Subset
<1>. QED
  BY <1>1, <1>2, FS_CardinalityType

\* The queues, the maps, the generator and the tables are as they were, and
\* nothing more went astray.
Unmoved ==
  /\ UNCHANGED <<arrived, waiting, running, requests, batchVars, reqVars>>
  /\ pending' \subseteq Request
  /\ phase' \in {"idle", "aborting", "generating", "raising"}
  /\ output'.outputs \subseteq Outputs /\ output'.raised \in BOOLEAN
  /\ output'.raised => faults'.error > 0 \/ "uid" \in faults'.strayed
  /\ faults' \in [corruption: 0 .. MaxCorruptions, error: 0 .. MaxErrors,
                  strayed: SUBSET {"uid", "prompt"}, lost: SUBSET arrived]
  /\ faults'.strayed = faults.strayed /\ faults'.lost = faults.lost
  /\ faults'.corruption >= faults.corruption /\ faults'.error >= faults.error

LEMMA UnmovedStep ==
  ASSUME SchedInv, Unmoved
  PROVE  SchedInv'
<1>. USE DEF SchedInv
<1>1. /\ arrived' = arrived /\ waiting' = waiting /\ running' = running
      /\ requests' = requests /\ generator' = generator
      /\ uid_of' = uid_of /\ rid_of' = rid_of /\ output_len' = output_len
      /\ prompt_cache' = prompt_cache /\ embeds' = embeds /\ table' = table
      /\ retries' = retries /\ Waiting' = Waiting /\ Running' = Running
  BY DEF Unmoved, batchVars, reqVars, Waiting, Running
<1>2. SchedTypeOK'
  BY <1>1 DEF Unmoved, SchedTypeOK
<1>3. Queues'
  BY <1>1 DEF Unmoved, Queues
<1>4. Counters'
  BY <1>1 DEF Unmoved, Counters
<1>5. Numbered'
  BY <1>1 DEF Numbered, Sequences
<1>6. Caches'
  BY <1>1 DEF Unmoved, Caches
<1>7. Located'
  BY <1>1 DEF Unmoved, Located, Sequences
<1>8. Served'
  BY <1>1 DEF Unmoved, Served, Sequences
<1>9. TablesExplained'
  BY <1>1 DEF Unmoved, TablesExplained, SchedTypeOK
<1>. QED
  BY <1>2, <1>3, <1>4, <1>5, <1>6, <1>7, <1>8, <1>9

LEMMA SchedInit_Inv ==
  ASSUME SchedInit PROVE SchedInv
<1>1. SchedTypeOK
  BY SchedulerAssumption DEF SchedInit, SchedTypeOK, UID, Table, NoOutput
<1>2. Waiting = {} /\ Running = {} /\ IsInjective(waiting) /\ IsInjective(running)
      /\ Len(running) = 0
  BY DEF SchedInit, Waiting, Running, ToSet, IsInjective
<1>3. Queues /\ Caches
  BY <1>2, SchedulerAssumption DEF SchedInit, Queues, Caches
<1>4. Counters /\ Numbered /\ TablesExplained
  BY SchedulerAssumption DEF SchedInit, Counters, Numbered, TablesExplained, NoOutput
<1>5. Located /\ Served
  BY <1>2 DEF SchedInit, Located, Served, Sequences
<1>. QED
  BY <1>1, <1>3, <1>4, <1>5 DEF SchedInv

LEMMA QuietSteps ==
  ASSUME SchedInv,
         \/ \E r \in Request : AbortRequest(r)
         \/ BeginStep
         \/ \E r \in Request : ProcessPendingAbort(r) /\ AbortUnknown(r)
         \/ NothingToRun
         \/ StepRaises
         \/ UNCHANGED schedVars
  PROVE  SchedInv'
<1>. USE DEF SchedInv
<1>0. /\ pending \subseteq Request /\ phase \in {"idle", "aborting", "generating", "raising"}
      /\ output.outputs \subseteq Outputs /\ output.raised \in BOOLEAN
      /\ faults \in [corruption: 0 .. MaxCorruptions, error: 0 .. MaxErrors,
                     strayed: SUBSET {"uid", "prompt"}, lost: SUBSET arrived]
      /\ output.raised => faults.error > 0 \/ "uid" \in faults.strayed
      /\ MaxCorruptions \in Nat /\ MaxErrors \in Nat
  BY SchedulerAssumption DEF SchedTypeOK, Counters
<1>1. CASE \E r \in Request : AbortRequest(r)
  BY <1>0, <1>1, UnmovedStep DEF AbortRequest, Unmoved
<1>2. CASE BeginStep
  BY <1>0, <1>2, UnmovedStep DEF BeginStep, Unmoved, NoOutput
<1>3. CASE \E r \in Request : ProcessPendingAbort(r) /\ AbortUnknown(r)
  BY <1>0, <1>3, UnmovedStep DEF ProcessPendingAbort, AbortUnknown, Unmoved
<1>4. CASE NothingToRun
  BY <1>0, <1>4, UnmovedStep DEF NothingToRun, Unmoved
<1>5. CASE StepRaises
  BY <1>0, <1>5, UnmovedStep DEF StepRaises, Unmoved, Raised
<1>6. CASE UNCHANGED schedVars
  BY <1>0, <1>6, UnmovedStep DEF schedVars, Unmoved
<1>. QED
  BY <1>1, <1>2, <1>3, <1>4, <1>5, <1>6

-----------------------------------------------------------------------------
(* add_request and the pending aborts                                      *)

LEMMA AddStep ==
  ASSUME SchedInv, NEW r \in Request, NEW lookup \in Lookup, AddRequest(r, lookup)
  PROVE  SchedInv'
<1>. USE DEF SchedInv
<1>a. /\ r \notin arrived /\ r \notin requests /\ r \notin Waiting /\ r \notin Running
      /\ output_len[r] = 0 /\ retries[r] = 0 /\ uid_of[r] = None /\ table[r] = "none"
  BY DEF AddRequest, SchedTypeOK, Counters, Queues
<1>b. /\ arrived' = arrived \cup {r} /\ requests' = requests \cup {r}
      /\ waiting' = Append(waiting, r)
      /\ prompt_cache' = IF lookup = "hit" THEN prompt_cache \cup {r} ELSE prompt_cache
      /\ table' = IF lookup = "miss" THEN table ELSE [table EXCEPT ![r] = "live"]
      /\ UNCHANGED <<running, pending, output_len, embeds, retries, phase, output, faults>>
      /\ generator' = generator /\ uid_of' = uid_of /\ rid_of' = rid_of
      /\ Running' = Running
  BY DEF AddRequest, batchVars, Running
<1>c. /\ waiting' \in Seq(Request) /\ IsInjective(waiting') /\ Waiting' = Waiting \cup {r}
  BY <1>a, <1>b, AppendNew DEF Queues, SchedTypeOK, Waiting
<1>1. SchedTypeOK'
  BY <1>a, <1>b, <1>c, SchedulerAssumption DEF SchedTypeOK, Table
<1>2. Queues'
  BY <1>a, <1>b, <1>c DEF Queues, SchedTypeOK
<1>3. Counters'
  BY <1>a, <1>b, SchedulerAssumption DEF Counters, SchedTypeOK
<1>4. Numbered'
  <2>1. arrived' \ Waiting' = arrived \ Waiting
    BY <1>a, <1>b, <1>c
  <2>. QED
    BY <1>b, <2>1 DEF Numbered, Sequences
<1>5. Caches'
  BY <1>a, <1>b, <1>c DEF Caches
<1>6. Located'
  <2>. SUFFICES ASSUME "uid" \notin faults.strayed PROVE Located'
    BY <1>b DEF Located
  <2>1. requests' \ faults'.lost = Waiting' \cup Running'
    BY <1>a, <1>b, <1>c DEF Located, SchedTypeOK
  <2>2. Sequences(generator)' = Sequences(generator)
    BY <1>b DEF Sequences
  <2>. QED
    BY <1>a, <1>b, <1>c, <2>1, <2>2 DEF Located
<1>7. Served'
  BY <1>b DEF Served, Sequences
<1>8. TablesExplained'
  BY <1>a, <1>b DEF TablesExplained, Lookup, SchedTypeOK
<1>. QED
  BY <1>1, <1>2, <1>3, <1>4, <1>5, <1>6, <1>7, <1>8

\* The generator without the sequence of a request.
LEMMA SequenceTaken ==
  ASSUME SchedInv, NEW r \in Request
  PROVE  LET g == WithoutSequence(r)
         IN  /\ g \in Generators \cup {None} /\ (g = None <=> generator = None)
             /\ Sequences(g) \subseteq Sequences(generator)
             /\ generator # None =>
                  /\ g.count = generator.count /\ g.unprocessed = generator.unprocessed
                  /\ g.active = generator.active \ {uid_of[r]}
                  /\ Sequences(generator) \subseteq Sequences(g) \cup {uid_of[r]}
<1>1. None \notin Generators
  BY Numbers
<1>2. CASE generator = None
  BY <1>1, <1>2 DEF WithoutSequence, Sequences
<1>3. CASE generator # None
  <2>1. generator \in Generators
    BY <1>3 DEF SchedInv, SchedTypeOK
  <2>2. /\ WithoutSequence(r) \in Generators
        /\ WithoutSequence(r).count = generator.count
        /\ WithoutSequence(r).unprocessed = generator.unprocessed
        /\ WithoutSequence(r).active = generator.active \ {uid_of[r]}
    BY <1>3, <2>1 DEF WithoutSequence, Generators
  <2>3. WithoutSequence(r) # None
    BY <1>1, <2>2
  <2>. QED
    BY <1>3, <2>2, <2>3 DEF Sequences
<1>. QED
  BY <1>2, <1>3

LEMMA AbortStep ==
  ASSUME SchedInv, NEW r \in Request, ProcessPendingAbort(r), Abort(r)
  PROVE  SchedInv'
<1>. USE DEF SchedInv
<1>a. /\ r \in requests /\ requests' = requests \ {r} /\ pending' = pending \ {r}
      /\ waiting' = Without(waiting, {r}) /\ running' = Without(running, {r})
      /\ generator' = WithoutSequence(r)
      /\ uid_of' = [uid_of EXCEPT ![r] = None]
      /\ rid_of' = [u \in UID |-> IF u = uid_of[r] THEN None ELSE rid_of[u]]
      /\ table' = [table EXCEPT ![r] = ReleasedTable(r)]
      /\ prompt_cache' = prompt_cache \ {r}
      /\ UNCHANGED <<arrived, output_len, embeds, retries, phase, output>>
  BY DEF ProcessPendingAbort, Abort
<1>b. /\ faults' \in [corruption: 0 .. MaxCorruptions, error: 0 .. MaxErrors,
                      strayed: SUBSET {"uid", "prompt"}, lost: SUBSET arrived]
      /\ faults'.corruption = faults.corruption /\ faults'.error = faults.error
      /\ faults.strayed \subseteq faults'.strayed /\ faults'.lost = faults.lost
      /\ "uid" \in faults'.strayed => "uid" \in faults.strayed
      /\ faults'.strayed = {} =>
           generator = None \/ uid_of[r] \notin ToSet(generator.unprocessed)
  BY DEF ProcessPendingAbort, Abort, Astray, SchedTypeOK
<1>c. /\ waiting' \in Seq(Request) /\ IsInjective(waiting') /\ Waiting' = Waiting \ {r}
      /\ running' \in Seq(Request) /\ IsInjective(running') /\ Running' = Running \ {r}
      /\ Len(running') <= Len(running) /\ Len(running) \in Nat /\ Len(running') \in Nat
  BY <1>a, Stays DEF Queues, SchedTypeOK, Waiting, Running
<1>d. /\ generator' \in Generators \cup {None} /\ (generator' = None <=> generator = None)
      /\ Sequences(generator)' \subseteq Sequences(generator)
      /\ generator # None =>
           /\ generator'.count = generator.count
           /\ generator'.unprocessed = generator.unprocessed
           /\ generator'.active = generator.active \ {uid_of[r]}
           /\ Sequences(generator) \subseteq Sequences(generator)' \cup {uid_of[r]}
  <2>1. Sequences(generator)' = Sequences(WithoutSequence(r))
    BY <1>a DEF Sequences
  <2>. QED
    BY <1>a, <2>1, SequenceTaken
<1>1. SchedTypeOK'
  <2>1. uid_of' \in [Request -> UID \cup {None}] /\ rid_of' \in [UID -> Request \cup {None}]
    BY <1>a DEF SchedTypeOK
  <2>2. table' \in [Request -> Table]
    BY <1>a DEF SchedTypeOK, Table, ReleasedTable
  <2>. QED
    BY <1>a, <1>b, <1>c, <1>d, <2>1, <2>2 DEF SchedTypeOK
<1>2. Queues'
  BY <1>a, <1>b, <1>c, SchedulerAssumption DEF Queues
<1>3. Counters'
  BY <1>a, <1>b DEF Counters, SchedTypeOK
<1>4. Numbered'
  <2>1. /\ Cardinality(arrived \ Waiting) \in Nat
        /\ Cardinality(arrived' \ Waiting') \in Nat
        /\ Cardinality(arrived \ Waiting) <= Cardinality(arrived' \ Waiting')
    BY <1>a, <1>c, FewerWaiting DEF SchedTypeOK
  <2>2. generator # None => generator.count \in Nat
    BY Numbers DEF SchedTypeOK, Generators
  <2>. QED
    BY <1>d, <2>1, <2>2 DEF Numbered
<1>5. Caches'
  BY <1>a, <1>b, <1>c DEF Caches, Queues, SchedTypeOK
<1>6. Located'
  <2>. SUFFICES ASSUME "uid" \notin faults'.strayed PROVE Located'
    BY DEF Located
  <2>0. "uid" \notin faults.strayed
    BY <1>b
  <2>1. requests' \ faults'.lost = Waiting' \cup Running'
    BY <1>a, <1>b, <1>c, <2>0 DEF Located
  <2>2. ASSUME NEW q \in Running'
        PROVE  generator' # None /\ uid_of'[q] \in Sequences(generator)' /\ rid_of'[uid_of'[q]] = q
    <3>1. q \in Running /\ q # r /\ q \in Request
      BY <1>c, <2>2 DEF Queues, SchedTypeOK
    <3>2. generator # None /\ uid_of[q] \in Sequences(generator) /\ rid_of[uid_of[q]] = q
      BY <2>0, <3>1 DEF Located
    <3>3. uid_of'[q] = uid_of[q] /\ uid_of[q] \in UID
      BY <1>a, <3>1, <3>2, Numbers DEF SchedTypeOK, Sequences, Generators, ToSet
    <3>4. uid_of[q] # uid_of[r]
      <4>1. r \in Waiting \cup Running \cup faults.lost
        BY <1>a, <2>0 DEF Located
      <4>2. CASE r \in Running
        BY <2>0, <3>1, <3>2, <4>2 DEF Located
      <4>3. CASE r \in Waiting \cup faults.lost
        <5>1. uid_of[r] = None
          BY <2>0, <3>2, <4>3 DEF Located
        <5>. QED
          BY <3>3, <5>1, Numbers
      <4>. QED
        BY <4>1, <4>2, <4>3
    <3>. QED
      BY <1>a, <1>d, <3>2, <3>3, <3>4
  <2>3. ASSUME NEW q \in Waiting', uid_of'[q] # None
        PROVE  generator' = None /\ rid_of'[uid_of'[q]] = q
    <3>1. q \in Waiting /\ q # r /\ q \in Request
      BY <1>c, <2>3 DEF Queues, SchedTypeOK
    <3>2. uid_of'[q] = uid_of[q] /\ uid_of[q] \in UID
      BY <1>a, <2>3, <3>1 DEF SchedTypeOK
    <3>3. generator = None /\ rid_of[uid_of[q]] = q
      BY <2>0, <2>3, <3>1, <3>2, Numbers DEF Located
    <3>4. uid_of[r] # uid_of[q]
      <4>1. SUFFICES ASSUME uid_of[r] = uid_of[q] PROVE FALSE
        OBVIOUS
      <4>2. r \in Waiting
        BY <1>a, <2>0, <3>2, <3>3, <4>1, Numbers DEF Located
      <4>3. rid_of[uid_of[r]] = r
        BY <2>0, <3>2, <4>1, <4>2, Numbers DEF Located
      <4>. QED
        BY <3>1, <3>3, <4>1, <4>3
    <3>. QED
      BY <1>a, <1>d, <3>2, <3>3, <3>4
  <2>4. \A q \in faults'.lost : uid_of'[q] = None
    BY <1>a, <1>b, <2>0 DEF Located, SchedTypeOK
  <2>. QED
    BY <2>1, <2>2, <2>3, <2>4 DEF Located
<1>7. Served'
  <2>. SUFFICES ASSUME faults'.strayed = {}, NEW u \in Sequences(generator)'
                PROVE  rid_of'[u] \in Running' /\ uid_of'[rid_of'[u]] = u
    BY DEF Served
  <2>0. faults.strayed = {} /\ "uid" \notin faults.strayed
    BY <1>b
  <2>1. /\ u \in Sequences(generator) /\ rid_of[u] \in Running /\ uid_of[rid_of[u]] = u
    BY <1>d, <2>0 DEF Served
  <2>2. generator # None /\ u \in UID /\ rid_of[u] \in Request
    BY <2>1 DEF Sequences, Generators, SchedTypeOK, ToSet, Queues
  <2>3. u # uid_of[r]
    BY <1>b, <1>d, <2>0, <2>2 DEF Sequences
  <2>4. rid_of'[u] = rid_of[u] /\ rid_of[u] # r
    BY <1>a, <2>1, <2>2, <2>3
  <2>. QED
    BY <1>a, <1>c, <2>1, <2>2, <2>4 DEF SchedTypeOK
<1>8. TablesExplained'
  BY <1>a, <1>b DEF TablesExplained, SchedTypeOK, ReleasedTable
<1>. QED
  BY <1>1, <1>2, <1>3, <1>4, <1>5, <1>6, <1>7, <1>8

\* An abort raises only when a uid went astray before.
LEMMA AbortRaisesStep ==
  ASSUME SchedInv, NEW r \in Request, ProcessPendingAbort(r), AbortRaises(r)
  PROVE  SchedInv'
<1>. USE DEF SchedInv
<1>a. /\ r \in requests /\ pending' = pending \ {r}
      /\ uid_of[r] # None /\ rid_of[uid_of[r]] = None
      /\ waiting' = Without(waiting, {r}) /\ generator' = WithoutSequence(r)
      /\ phase' = "idle" /\ output' = Raised
      /\ UNCHANGED <<arrived, running, requests, uid_of, rid_of, output_len, prompt_cache,
                     embeds, table, retries, faults>>
      /\ Running' = Running
  BY DEF ProcessPendingAbort, AbortRaises, reqVars, Running
<1>b. "uid" \in faults.strayed
  <2>. SUFFICES ASSUME "uid" \notin faults.strayed PROVE FALSE
    OBVIOUS
  <2>1. r \in Waiting \cup Running /\ r \notin faults.lost
    BY <1>a DEF Located
  <2>2. rid_of[uid_of[r]] = r
    BY <1>a, <2>1 DEF Located
  <2>. QED
    BY <1>a, <2>2, Numbers
<1>c. waiting' \in Seq(Request) /\ IsInjective(waiting') /\ Waiting' = Waiting \ {r}
  BY <1>a, Stays DEF Queues, SchedTypeOK, Waiting
<1>d. /\ generator' \in Generators \cup {None} /\ (generator' = None <=> generator = None)
      /\ Sequences(generator)' \subseteq Sequences(generator)
      /\ generator # None =>
           /\ generator'.count = generator.count
           /\ generator'.unprocessed = generator.unprocessed
           /\ generator'.active = generator.active \ {uid_of[r]}
  <2>1. Sequences(generator)' = Sequences(WithoutSequence(r))
    BY <1>a DEF Sequences
  <2>. QED
    BY <1>a, <2>1, SequenceTaken
<1>1. SchedTypeOK'
  BY <1>a, <1>c, <1>d DEF SchedTypeOK, Raised
<1>2. Queues'
  BY <1>a, <1>c DEF Queues, SchedTypeOK
<1>3. Counters'
  BY <1>a, <1>b DEF Counters
<1>4. Numbered'
  <2>1. /\ Cardinality(arrived \ Waiting) \in Nat
        /\ Cardinality(arrived' \ Waiting') \in Nat
        /\ Cardinality(arrived \ Waiting) <= Cardinality(arrived' \ Waiting')
    BY <1>a, <1>c, FewerWaiting DEF SchedTypeOK
  <2>2. generator # None => generator.count \in Nat
    BY Numbers DEF SchedTypeOK, Generators
  <2>. QED
    BY <1>d, <2>1, <2>2 DEF Numbered
<1>5. Caches'
  BY <1>a, <1>c DEF Caches
<1>6. Located' /\ Served'
  BY <1>a, <1>b DEF Located, Served
<1>7. TablesExplained'
  BY <1>a DEF TablesExplained
<1>. QED
  BY <1>1, <1>2, <1>3, <1>4, <1>5, <1>6, <1>7

-----------------------------------------------------------------------------
(* _schedule_waiting                                                       *)

LEMMA RoomFacts ==
  ASSUME SchedInv
  PROVE  /\ Room \in 0 .. Len(waiting) /\ Len(waiting) \in Nat
         /\ Len(running) \in Nat /\ Len(running) + Room <= MaxNumSeqs
<1>1. Len(waiting) \in Nat /\ Len(running) \in Nat /\ MaxNumSeqs \in Nat
      /\ Len(running) <= MaxNumSeqs
  BY SchedulerAssumption DEF SchedInv, SchedTypeOK, Queues
<1>. QED
  BY <1>1 DEF Room

\* Some number of requests leaves the queue.
LEMMA NumScheduledRange ==
  ASSUME SchedInv
  PROVE  NumScheduled \in 0 .. Room
<1>. DEFINE Stop == {n \in 0 .. Room : n < Room => ~SameBatch(waiting[1], waiting[n + 1])}
<1>1. Room \in Nat
  BY RoomFacts
<1>2. IsFiniteSet(0 .. Room)
  BY <1>1, FS_Interval
<1>3. Stop \subseteq 0 .. Room /\ Room \in Stop
  BY <1>1
<1>4. IsFiniteSet(Stop) /\ Stop \subseteq Int /\ Stop # {}
  BY <1>1, <1>2, <1>3, FS_Subset
<1>5. PICK n \in Stop : \A m \in Stop : n <= m
  <2>. HIDE DEF Stop
  <2>. QED
    BY <1>4, LeastNumber
<1>6. n \in 0 .. Room /\ (n < Room => ~SameBatch(waiting[1], waiting[n + 1]))
  OBVIOUS
<1>7. ASSUME NEW i \in 1 .. n PROVE SameBatch(waiting[1], waiting[i])
  <2>1. i - 1 \in 0 .. Room /\ i - 1 < Room /\ ~(n <= i - 1) /\ (i - 1) + 1 = i
    BY <1>1, <1>6
  <2>2. i - 1 \notin Stop
    BY <1>5, <2>1
  <2>. QED
    BY <2>1, <2>2
<1>. QED
  BY <1>6, <1>7 DEF NumScheduled

\* What follows the first n requests of the queue.
Rest(n) == SubSeq(waiting, n + 1, Len(waiting))

\* What scheduling n requests does, whatever becomes of the rest of the queue.
LEMMA ScheduleFacts ==
  ASSUME SchedInv, NEW n \in 0 .. Room, Schedule(n), Waiting' \subseteq ToSet(Rest(n))
  PROVE  \E first \in SUBSET Request :
           /\ running' \in Seq(Request) /\ IsInjective(running')
           /\ Waiting = first \cup ToSet(Rest(n)) /\ first \cap ToSet(Rest(n)) = {}
           /\ Running' = Running \cup first /\ Len(running') <= MaxNumSeqs
           /\ generator' \in Generators \cup {None}
           /\ generator # None \/ first # {} => generator' # None
           /\ uid_of' \in [Request -> UID \cup {None}]
           /\ rid_of' \in [UID -> Request \cup {None}]
           /\ Numbered'
           /\ Sequences(generator) \subseteq Sequences(generator)'
           /\ \A u \in Sequences(generator) : rid_of'[u] = rid_of[u]
           /\ \A q \in Request \ first : uid_of'[q] = uid_of[q]
           /\ \A q \in first : uid_of'[q] \in Sequences(generator)' /\ rid_of'[uid_of'[q]] = q
           /\ \A u \in Sequences(generator)' \ Sequences(generator) :
                rid_of'[u] \in first /\ uid_of'[rid_of'[u]] = u
           /\ \A u \in UID : rid_of'[u] \in first \cup {rid_of[u]}
<1>. DEFINE g == IF generator = None /\ Room > 0 THEN NewGenerator ELSE generator
            s == SubSeq(waiting, 1, n)
            late == ToSet(Rest(n))
            first == ToSet(s)
<1>a. /\ running' = running \o s 
      /\ IF n = 0 THEN generator' = g /\ UNCHANGED <<uid_of, rid_of>>
         ELSE /\ generator' = [g EXCEPT !.count = @ + n,
                                        !.unprocessed = @ \o [i \in 1 .. n |-> g.count + i - 1]]
              /\ uid_of' = [r \in Request |->
                   IF r \in first THEN g.count + (CHOOSE i \in 1 .. n : waiting[i] = r) - 1
                   ELSE uid_of[r]]
              /\ rid_of' = [u \in UID |->
                   IF u - g.count + 1 \in 1 .. n THEN waiting[u - g.count + 1] ELSE rid_of[u]]
      /\ arrived' = arrived
  BY DEF Schedule
<1>b. n \in 0 .. Len(waiting) /\ n <= Room /\ Len(waiting) \in Nat /\ Room \in Nat
      /\ Len(running) \in Nat /\ Len(running) + n <= MaxNumSeqs /\ n \in Nat
      /\ MaxNumSeqs \in Nat
  BY RoomFacts, SchedulerAssumption
<1>c. /\ waiting \in Seq(Request) /\ running \in Seq(Request) /\ arrived \subseteq Request
      /\ IsInjective(waiting) /\ IsInjective(running) /\ Waiting \cap Running = {}
      /\ Waiting \subseteq arrived
      /\ uid_of \in [Request -> UID \cup {None}] /\ rid_of \in [UID -> Request \cup {None}]
      /\ generator \in Generators \cup {None}
      /\ Running \subseteq Request
  BY DEF SchedInv, SchedTypeOK, Queues
<1>d. /\ s \in Seq(Request) /\ IsInjective(s) /\ Len(s) = n
      /\ first \cap late = {} /\ first \cup late = Waiting
      /\ \A i \in 1 .. n : s[i] = waiting[i]
  BY <1>b, <1>c, Split DEF Waiting, Rest
<1>e. first \subseteq Request /\ \A i \in 1 .. n : waiting[i] \in first
  <2>1. ASSUME NEW i \in 1 .. Len(s) PROVE s[i] \in first /\ s[i] \in Request
    <3>. HIDE DEF s
    <3>1. s \in Seq(Request)
      BY <1>d
    <3>. QED
      BY <3>1 DEF ToSet
  <2>2. \A q \in first : \E i \in 1 .. Len(s) : q = s[i]
    BY <1>d DEF ToSet
  <2>. QED
    BY <1>d, <2>1, <2>2
<1>. HIDE DEF s, late, first
<1>h. /\ running' \in Seq(Request) /\ IsInjective(running') /\ Len(running') = Len(running) + n
      /\ Running' = Running \cup first
  <2>1. ToSet(running) \cap ToSet(s) = {}
    BY <1>c, <1>d DEF Running, first
  <2>2. /\ running \o s \in Seq(Request) /\ IsInjective(running \o s)
        /\ Len(running \o s) = Len(running) + Len(s)
        /\ ToSet(running \o s) = ToSet(running) \cup ToSet(s)
    <3>1. running \in Seq(Request) /\ IsInjective(running) /\ s \in Seq(Request) /\ IsInjective(s)
      BY <1>c, <1>d
    <3>. QED
      BY <2>1, <3>1, Concatenated
  <2>3. Running' = ToSet(running \o s)
    BY <1>a DEF Running
  <2>. QED
    BY <1>a, <1>d, <2>2, <2>3 DEF Running, first
<1>i. /\ Waiting = first \cup late /\ first \cap late = {} /\ Len(running') <= MaxNumSeqs
      /\ Waiting' \subseteq late
  BY <1>a, <1>b, <1>d, <1>h DEF late
<1>j. /\ Cardinality(arrived \ late) \in Nat /\ Cardinality(arrived \ Waiting') \in Nat
      /\ Cardinality(arrived \ late) <= Cardinality(arrived \ Waiting')
  BY <1>c, <1>i, FewerWaiting
<1>1. /\ g \in Generators \cup {None} /\ (generator # None => g # None)
      /\ (n > 0 => g # None) /\ Sequences(g) = Sequences(generator)
  <2>1. NewGenerator \in Generators /\ Sequences(NewGenerator) = {}
    BY Numbers DEF NewGenerator, Generators, Sequences, ToSet
  <2>2. generator = None => Sequences(generator) = {}
    BY DEF Sequences
  <2>3. CASE generator = None /\ Room > 0
    <3>1. g = NewGenerator
      BY <2>3
    <3>2. NewGenerator # None
      BY <2>1, Numbers
    <3>. QED
      BY <2>1, <2>2, <2>3, <3>1, <3>2
  <2>4. CASE ~(generator = None /\ Room > 0)
    <3>1. g = generator
      BY <2>4
    <3>2. n > 0 => Room > 0
      BY <1>b
    <3>. QED
      BY <1>c, <2>4, <3>1, <3>2
  <2>. QED
    BY <2>3, <2>4
<1>2. g # None => /\ g \in Generators /\ g.count \in Nat
                  /\ g.count <= Cardinality(arrived \ Waiting)
                  /\ \A u \in Sequences(g) : u < g.count /\ u \in UID
                  /\ IsInjective(g.unprocessed) /\ g.unprocessed \in Seq(UID)
                  /\ ToSet(g.unprocessed) \cap g.active = {}
  <2>1. CASE generator = None /\ Room > 0
    <3>1. Cardinality(arrived \ Waiting) \in Nat
      BY <1>c, FewerWaiting
    <3>2. NewGenerator \in Generators
      BY Numbers DEF NewGenerator, Generators
    <3>. QED
      BY <2>1, <3>1, <3>2 DEF NewGenerator, Sequences, ToSet, IsInjective
  <2>2. CASE ~(generator = None /\ Room > 0)
    <3>1. g = generator
      BY <2>2
    <3>2. generator # None => /\ generator.count \in Nat /\ generator.unprocessed \in Seq(UID)
                              /\ generator.active \subseteq UID
      BY <1>c, Numbers DEF Generators
    <3>3. generator # None => \A u \in Sequences(generator) : u \in UID
      BY <3>2 DEF Sequences, ToSet
    <3>. QED
      BY <1>c, <3>1, <3>2, <3>3 DEF SchedInv, Numbered
  <2>. QED
    BY <2>1, <2>2
<1>. HIDE DEF g
<1>3. CASE n = 0
  <2>1. first = {}
    BY <1>d, <1>e, <1>b, <1>3 DEF first, ToSet
  <2>2. generator' = g /\ uid_of' = uid_of /\ rid_of' = rid_of
    BY <1>a, <1>3
  <2>3. late = Waiting
    BY <1>i, <2>1
  <2>4. Sequences(generator)' = Sequences(g)
    BY <2>2 DEF Sequences
  <2>5. Numbered'
    BY <1>2, <1>a, <1>j, <2>2, <2>3, <2>4 DEF Numbered
  <2>. QED
    BY <1>1, <1>c, <1>e, <1>h, <1>i, <2>1, <2>2, <2>4, <2>5 DEF late
<1>4. CASE n > 0
  <2>. DEFINE new == [i \in 1 .. n |-> g.count + i - 1]
  <2>0. /\ g \in Generators /\ g.count \in Nat /\ g.unprocessed \in Seq(UID)
        /\ g.count <= Cardinality(arrived \ Waiting)
        /\ \A u \in Sequences(g) : u < g.count /\ u \in UID
    BY <1>1, <1>2, <1>4
  <2>1. Cardinality(arrived \ late) = Cardinality(arrived \ Waiting) + n
        /\ Cardinality(arrived \ Waiting) \in Nat
        /\ Cardinality(arrived \ late) <= Cardinality(Request)
    <3>1. arrived \ late = (arrived \ Waiting) \cup first
          /\ (arrived \ Waiting) \cap first = {}
      BY <1>c, <1>i
    <3>2. IsFiniteSet(first) /\ Cardinality(first) = n
      BY <1>d, LenOfSet DEF first
    <3>3. IsFiniteSet(arrived \ Waiting)
      BY <1>c, Numbers, FS_Subset
    <3>4. Cardinality(arrived \ Waiting) \in Nat
          /\ Cardinality(arrived \ late) <= Cardinality(Request)
      BY <1>c, <1>i, FewerWaiting
    <3>5. Cardinality((arrived \ Waiting) \cup first)
            = Cardinality(arrived \ Waiting) + Cardinality(first) - Cardinality({})
      BY <3>1, <3>2, <3>3, FS_Union
    <3>6. Cardinality({}) = 0
      BY FS_EmptySet
    <3>7. Cardinality(arrived \ Waiting) \in Nat
      BY <3>3, FS_CardinalityType
    <3>8. Cardinality(arrived \ late) = Cardinality(arrived \ Waiting) + n - 0
      BY <3>1, <3>2, <3>5, <3>6
    <3>. QED
      BY <1>b, <3>4, <3>7, <3>8
  <2>2. g.count + n <= Cardinality(Request) /\ \A i \in 1 .. n : g.count + i - 1 \in UID
    <3>1. g.count + n <= Cardinality(Request)
      BY <1>b, <2>0, <2>1, Numbers
    <3>. QED
      BY <1>b, <2>0, <3>1, Numbers DEF UID
  <2>3. /\ new \in Seq(UID) /\ IsInjective(new)
        /\ \A i \in 1 .. n : g.count + i - 1 \in ToSet(new)
        /\ \A u \in ToSet(new) : u \in UID /\ u - g.count + 1 \in 1 .. n
    <3>1. new \in Seq(UID)
      BY <1>b, <2>2
    <3>2. IsInjective(new)
      BY <1>b, <2>0 DEF IsInjective
    <3>3. DOMAIN new = 1 .. n /\ \A i \in 1 .. n : new[i] = g.count + i - 1
      OBVIOUS
    <3>. HIDE DEF new
    <3>4. \A i \in 1 .. n : g.count + i - 1 \in ToSet(new)
      BY <3>3 DEF ToSet
    <3>5. ASSUME NEW u \in ToSet(new) PROVE u \in UID /\ u - g.count + 1 \in 1 .. n
      <4>1. PICK i \in 1 .. n : u = g.count + i - 1
        BY <3>3 DEF ToSet
      <4>. QED
        BY <1>b, <2>0, <2>2, <4>1
    <3>. QED
      BY <3>1, <3>2, <3>4, <3>5
  <2>4. /\ generator' \in Generators /\ generator'.count = g.count + n
        /\ generator'.unprocessed = g.unprocessed \o new
        /\ generator'.active = g.active
        /\ IsInjective(generator'.unprocessed)
        /\ ToSet(generator'.unprocessed) = ToSet(g.unprocessed) \cup ToSet(new)
    <3>1. generator' = [g EXCEPT !.count = @ + n, !.unprocessed = @ \o new]
      BY <1>4, <1>a
    <3>. HIDE DEF new
    <3>2. ToSet(g.unprocessed) \cap ToSet(new) = {}
      <4>1. \A u \in ToSet(g.unprocessed) : u < g.count /\ u \in UID
        BY <1>1, <1>4, <2>0 DEF Sequences
      <4>2. \A u \in UID : u \in Int
        BY Numbers DEF UID
      <4>3. \A u \in ToSet(new) : ~(u < g.count)
        <5>1. ASSUME NEW u \in ToSet(new) PROVE ~(u < g.count)
          <6>1. u \in UID /\ u - g.count + 1 \in 1 .. n
            BY <2>3
          <6>. QED
            BY <1>b, <2>0, <4>2, <6>1
        <5>. QED
          BY <5>1
      <4>. QED
        BY <4>1, <4>3
    <3>3. /\ g.unprocessed \o new \in Seq(UID) /\ IsInjective(g.unprocessed \o new)
          /\ ToSet(g.unprocessed \o new) = ToSet(g.unprocessed) \cup ToSet(new)
      BY <1>1, <1>2, <1>4, <2>3, <3>2, Concatenated
    <3>4. g.count + n \in 0 .. Cardinality(Request)
      BY <1>b, <2>0, <2>2, Numbers
    <3>. QED
      BY <2>0, <3>1, <3>3, <3>4 DEF Generators
  <2>. HIDE DEF new
  <2>5. Sequences(generator)' = Sequences(g) \cup ToSet(new) /\ generator' # None
    <3>1. generator' # None /\ g # None
      BY <2>0, <2>4, Numbers
    <3>. QED
      BY <2>4, <3>1 DEF Sequences
  <2>6. \A q \in Request \ first : uid_of'[q] = uid_of[q]
    BY <1>4, <1>a
  <2>7. ASSUME NEW i \in 1 .. n
        PROVE  uid_of'[waiting[i]] = g.count + i - 1 /\ rid_of'[g.count + i - 1] = waiting[i]
    <3>1. waiting[i] \in first /\ waiting[i] \in Request
      BY <1>e
    <3>2. \A j \in 1 .. n : waiting[j] = waiting[i] => j = i
      BY <1>b, <1>c DEF IsInjective
    <3>3. (CHOOSE j \in 1 .. n : waiting[j] = waiting[i]) = i
      BY <3>2
    <3>4. uid_of'[waiting[i]] = g.count + i - 1
      BY <1>4, <1>a, <3>1, <3>3
    <3>5. g.count + i - 1 \in UID /\ (g.count + i - 1) - g.count + 1 = i
      BY <1>b, <2>0, <2>2
    <3>6. rid_of'[g.count + i - 1] = waiting[i]
      BY <1>4, <1>a, <3>5
    <3>. QED
      BY <3>4, <3>6
  <2>8. \A q \in first : \E i \in 1 .. n : q = waiting[i]
    BY <1>d DEF first, ToSet
  <2>9. uid_of' \in [Request -> UID \cup {None}] /\ rid_of' \in [UID -> Request \cup {None}]
    <3>1. ASSUME NEW q \in Request PROVE uid_of'[q] \in UID \cup {None}
      <4>1. CASE q \in first
        BY <2>2, <2>7, <2>8, <4>1
      <4>2. CASE q \notin first
        BY <1>c, <2>6, <4>2
      <4>. QED
        BY <4>1, <4>2
    <3>2. ASSUME NEW u \in UID PROVE rid_of'[u] \in Request \cup {None}
      BY <1>4, <1>a, <1>c, <1>e
    <3>3. uid_of' = [q \in Request |-> uid_of'[q]] /\ rid_of' = [u \in UID |-> rid_of'[u]]
      BY <1>4, <1>a
    <3>. QED
      BY <3>1, <3>2, <3>3
  <2>10. Numbered'
    <3>1. generator'.count <= Cardinality(arrived' \ Waiting')
      BY <1>a, <1>b, <1>j, <2>0, <2>1, <2>4
    <3>2. ASSUME NEW u \in Sequences(generator)' PROVE u < generator'.count
      <4>1. \A v \in UID : v \in Int
        BY Numbers DEF UID
      <4>2. CASE u \in Sequences(g)
        BY <1>b, <2>0, <2>4, <4>1, <4>2
      <4>3. CASE u \in ToSet(new)
        <5>1. u \in UID /\ u - g.count + 1 \in 1 .. n
          BY <2>3, <4>3
        <5>. QED
          BY <1>b, <2>0, <2>4, <4>1, <5>1
      <4>. QED
        BY <2>5, <4>2, <4>3
    <3>3. ToSet(generator'.unprocessed) \cap generator'.active = {}
      <4>1. \A u \in ToSet(new) : u \notin g.active
        <5>1. ASSUME NEW u \in ToSet(new), u \in g.active PROVE FALSE
          <6>1. u \in UID /\ u - g.count + 1 \in 1 .. n /\ u \in Int
            BY <2>3, Numbers DEF UID
          <6>2. u < g.count
            BY <1>1, <1>4, <2>0, <5>1 DEF Sequences
          <6>. QED
            BY <1>b, <2>0, <6>1, <6>2
        <5>. QED
          BY <5>1
      <4>. QED
        BY <1>1, <1>2, <1>4, <2>4, <4>1
    <3>. QED
      BY <2>4, <3>1, <3>2, <3>3 DEF Numbered
  <2>11. ASSUME NEW u \in Sequences(generator) PROVE rid_of'[u] = rid_of[u]
    <3>1. u \in UID /\ u < g.count /\ u \in Int
      BY <1>1, <2>0, Numbers DEF UID
    <3>2. u - g.count + 1 \notin 1 .. n
      BY <1>b, <2>0, <3>1
    <3>. QED
      BY <1>4, <1>a, <3>1, <3>2
  <2>12. ASSUME NEW q \in first
         PROVE  uid_of'[q] \in Sequences(generator)' /\ rid_of'[uid_of'[q]] = q
    BY <2>3, <2>5, <2>7, <2>8
  <2>13. ASSUME NEW u \in Sequences(generator)', u \notin Sequences(generator)
         PROVE  rid_of'[u] \in first /\ uid_of'[rid_of'[u]] = u
    <3>1. u \in ToSet(new)
      BY <1>1, <2>5, <2>13
    <3>2. u \in Int /\ u - g.count + 1 \in 1 .. n
      BY <2>3, <3>1, Numbers DEF UID
    <3>3. PICK i \in 1 .. n : i = u - g.count + 1
      BY <3>2
    <3>4. g.count + i - 1 = u
      BY <2>0, <3>2, <3>3
    <3>. QED
      BY <1>e, <2>7, <3>4
  <2>14. \A u \in UID : rid_of'[u] \in first \cup {rid_of[u]}
    BY <1>4, <1>a, <1>e
  <2>. QED
    BY <1>1, <1>e, <1>h, <1>i, <2>4, <2>5, <2>6, <2>9, <2>10, <2>11, <2>12, <2>13, <2>14
       DEF late
<1>5. n = 0 \/ n > 0
  BY <1>b
<1>. QED
  BY <1>3, <1>4, <1>5, Zenon

\* The rest of the queue, and what follows its first request.
LEMMA RestFacts ==
  ASSUME SchedInv, NEW n \in 0 .. Len(waiting)
  PROVE  /\ Rest(n) \in Seq(Request) /\ IsInjective(Rest(n))
         /\ \A r \in ToSet(Rest(n)) : \E i \in n + 1 .. Len(waiting) : r = waiting[i]
         /\ n < Len(waiting) =>
              /\ ToSet(Rest(n)) = {waiting[n + 1]} \cup ToSet(Rest(n + 1))
              /\ waiting[n + 1] \notin ToSet(Rest(n + 1))
<1>1. waiting \in Seq(Request) /\ IsInjective(waiting) /\ Len(waiting) \in Nat
  BY DEF SchedInv, SchedTypeOK, Queues
<1>2. Rest(n) \in Seq(Request) /\ IsInjective(Rest(n)) /\ Len(Rest(n)) = Len(waiting) - n
  BY <1>1, Split DEF Rest
<1>3. ASSUME NEW m \in 0 .. Len(waiting)
      PROVE  ToSet(Rest(m)) = {waiting[i] : i \in m + 1 .. Len(waiting)}
  <2>1. /\ DOMAIN Rest(m) = 1 .. Len(waiting) - m
        /\ \A i \in 1 .. Len(waiting) - m : Rest(m)[i] = waiting[m + i]
    BY <1>1 DEF Rest
  <2>2. \A i \in m + 1 .. Len(waiting) : i - m \in 1 .. Len(waiting) - m /\ m + (i - m) = i
    BY <1>1
  <2>3. \A i \in 1 .. Len(waiting) - m : m + i \in m + 1 .. Len(waiting)
    BY <1>1
  <2>4. \A q \in ToSet(Rest(m)) : \E i \in m + 1 .. Len(waiting) : q = waiting[i]
    BY <2>1, <2>3 DEF ToSet
  <2>5. ASSUME NEW i \in m + 1 .. Len(waiting) PROVE waiting[i] \in ToSet(Rest(m))
    <3>1. i - m \in DOMAIN Rest(m) /\ Rest(m)[i - m] = waiting[i]
      BY <2>1, <2>2
    <3>. QED
      BY <3>1 DEF ToSet
  <2>. QED
    BY <2>4, <2>5
<1>4. ASSUME n < Len(waiting)
      PROVE  /\ ToSet(Rest(n)) = {waiting[n + 1]} \cup ToSet(Rest(n + 1))
             /\ waiting[n + 1] \notin ToSet(Rest(n + 1))
  <2>1. n + 1 \in 0 .. Len(waiting) /\ n + 1 \in 1 .. Len(waiting)
    BY <1>1, <1>4
  <2>2. ToSet(Rest(n + 1)) = {waiting[i] : i \in (n + 1) + 1 .. Len(waiting)}
    BY <1>3, <2>1
  <2>3. \A i \in n + 1 .. Len(waiting) : i = n + 1 \/ i \in (n + 1) + 1 .. Len(waiting)
    BY <1>1
  <2>4. \A i \in (n + 1) + 1 .. Len(waiting) :
          i \in n + 1 .. Len(waiting) /\ i # n + 1 /\ i \in 1 .. Len(waiting)
    BY <1>1
  <2>5. n + 1 \in n + 1 .. Len(waiting)
    BY <1>1, <1>4
  <2>6. \A i \in (n + 1) + 1 .. Len(waiting) : waiting[i] # waiting[n + 1]
    BY <1>1, <2>1, <2>4 DEF IsInjective
  <2>. QED
    BY <1>3, <2>2, <2>3, <2>4, <2>5, <2>6
<1>. QED
  BY <1>2, <1>3, <1>4

\* One of the requests that follow may be gone.
LEMMA ScheduleStep ==
  ASSUME SchedInv, NEW n \in 0 .. Room, Schedule(n), NEW gone \in SUBSET Request,
         waiting' \in Seq(Request), IsInjective(waiting'),
         ToSet(Rest(n)) = gone \cup Waiting', gone \cap Waiting' = {},
         faults' \in [corruption: 0 .. MaxCorruptions, error: 0 .. MaxErrors,
                      strayed: SUBSET {"uid", "prompt"}, lost: SUBSET arrived],
         faults'.corruption = faults.corruption, faults'.error = faults.error,
         faults'.strayed = StrayedAfter(n), faults'.lost = faults.lost \cup gone,
         phase' \in {"generating", "raising"}
  PROVE  SchedInv'
<1>. USE DEF SchedInv
<1>. DEFINE late == ToSet(Rest(n))
<1>a. PICK first \in SUBSET Request :
        /\ running' \in Seq(Request) /\ IsInjective(running')
        /\ Waiting = first \cup late /\ first \cap late = {}
        /\ Running' = Running \cup first /\ Len(running') <= MaxNumSeqs
        /\ generator' \in Generators \cup {None}
        /\ generator # None \/ first # {} => generator' # None
        /\ uid_of' \in [Request -> UID \cup {None}]
        /\ rid_of' \in [UID -> Request \cup {None}]
        /\ Numbered'
        /\ Sequences(generator) \subseteq Sequences(generator)'
        /\ \A u \in Sequences(generator) : rid_of'[u] = rid_of[u]
        /\ \A q \in Request \ first : uid_of'[q] = uid_of[q]
        /\ \A q \in first : uid_of'[q] \in Sequences(generator)' /\ rid_of'[uid_of'[q]] = q
        /\ \A u \in Sequences(generator)' \ Sequences(generator) :
             rid_of'[u] \in first /\ uid_of'[rid_of'[u]] = u
        /\ \A u \in UID : rid_of'[u] \in first \cup {rid_of[u]}
  <2>1. Waiting' \subseteq ToSet(Rest(n))
    OBVIOUS
  <2>. QED
    BY <2>1, ScheduleFacts, Zenon
<1>b. UNCHANGED <<arrived, requests, pending, output, output_len, prompt_cache, embeds,
                  table, retries>>
  BY DEF Schedule, reqVars
<1>c. /\ faults.strayed \subseteq faults'.strayed
      /\ "uid" \notin faults'.strayed => \A r \in late : uid_of[r] = None
  <2>1. \A r \in late : \E i \in n + 1 .. Len(waiting) : r = waiting[i]
    BY RestFacts, RoomFacts
  <2>. QED
    BY <2>1 DEF StrayedAfter
<1>d. /\ Waiting \subseteq Request /\ Running \subseteq Request /\ Waiting \cap Running = {}
      /\ Waiting \cup Running \subseteq requests
      /\ prompt_cache \subseteq Waiting \cup Running \cup faults.lost
      /\ faults.lost \cap (Waiting \cup Running) = {}
      /\ late = gone \cup Waiting' /\ gone \cap Waiting' = {}
  BY DEF SchedTypeOK, Queues, Caches
<1>. HIDE DEF late
<1>1. SchedTypeOK'
  BY <1>a, <1>b, <1>c DEF SchedTypeOK
<1>2. Queues'
  BY <1>a, <1>b, <1>d DEF Queues
<1>3. Counters'
  <2>1. \A r \in Request \ arrived : r \notin first /\ r \in Request
    BY <1>a, <1>d DEF SchedTypeOK
  <2>2. \A r \in Request \ arrived' : uid_of'[r] = uid_of[r]
    BY <1>a, <1>b, <2>1
  <2>. QED
    BY <1>b, <1>c, <2>2 DEF Counters
<1>4. Numbered'
  BY <1>a
<1>5. Caches'
  <2>1. \A r \in prompt_cache : r \in Waiting' => r \notin first /\ r \in Request /\ r \in Waiting
    BY <1>a, <1>d
  <2>. QED
    BY <1>a, <1>b, <1>d, <2>1 DEF Caches
<1>6. Located'
  <2>. SUFFICES ASSUME "uid" \notin faults'.strayed PROVE Located'
    BY DEF Located
  <2>0. "uid" \notin faults.strayed /\ \A r \in Waiting' : uid_of[r] = None
    BY <1>c, <1>d
  <2>1. requests' \ faults'.lost = Waiting' \cup Running'
    <3>1. requests \ faults.lost = Waiting \cup Running
      BY <2>0 DEF Located
    <3>. QED
      BY <1>a, <1>b, <1>d, <3>1
  <2>2. ASSUME NEW q \in Running'
        PROVE  generator' # None /\ uid_of'[q] \in Sequences(generator)' /\ rid_of'[uid_of'[q]] = q
    <3>1. CASE q \in first
      BY <1>a, <3>1
    <3>2. CASE q \notin first
      <4>1. q \in Running /\ q \in Request
        BY <1>a, <1>d, <2>2, <3>2
      <4>2. generator # None /\ uid_of[q] \in Sequences(generator) /\ rid_of[uid_of[q]] = q
        BY <2>0, <4>1 DEF Located
      <4>3. uid_of'[q] = uid_of[q]
        BY <1>a, <3>2, <4>1
      <4>. QED
        BY <1>a, <4>2, <4>3
    <3>. QED
      BY <3>1, <3>2
  <2>3. \A q \in Waiting' : uid_of'[q] = None
    BY <1>a, <1>d, <2>0
  <2>4. \A q \in faults'.lost : uid_of'[q] = None
    <3>1. \A q \in faults.lost : q \in Request /\ q \notin first /\ uid_of[q] = None
      BY <1>a, <1>d, <2>0 DEF Located, SchedTypeOK
    <3>2. \A q \in gone : q \in Request /\ q \notin first /\ uid_of[q] = None
      BY <1>a, <1>c, <1>d
    <3>. QED
      BY <1>a, <3>1, <3>2
  <2>. QED
    BY <2>1, <2>2, <2>3, <2>4 DEF Located
<1>7. Served'
  <2>. SUFFICES ASSUME faults'.strayed = {}, NEW u \in Sequences(generator)'
                PROVE  rid_of'[u] \in Running' /\ uid_of'[rid_of'[u]] = u
    BY DEF Served
  <2>1. CASE u \in Sequences(generator)
    <3>1. rid_of[u] \in Running /\ uid_of[rid_of[u]] = u /\ rid_of'[u] = rid_of[u]
      BY <1>a, <1>c, <2>1 DEF Served
    <3>2. rid_of[u] \notin first /\ rid_of[u] \in Request
      BY <1>a, <1>d, <3>1
    <3>. QED
      BY <1>a, <3>1, <3>2
  <2>2. CASE u \notin Sequences(generator)
    BY <1>a, <2>2
  <2>. QED
    BY <2>1, <2>2
<1>8. TablesExplained'
  BY <1>b, <1>c DEF TablesExplained
<1>. QED
  BY <1>1, <1>2, <1>3, <1>4, <1>5, <1>6, <1>7, <1>8

\* _schedule_waiting to its end, and to the request at which it raises.
LEMMA Scheduling ==
  ASSUME SchedInv, ScheduleWaiting \/ \E n \in 0 .. Len(waiting) : ScheduleRaises(n)
  PROVE  \E n \in 0 .. Room, gone \in SUBSET Request :
           /\ Schedule(n) /\ waiting' \in Seq(Request) /\ IsInjective(waiting')
           /\ ToSet(Rest(n)) = gone \cup Waiting' /\ gone \cap Waiting' = {}
           /\ faults' \in [corruption: 0 .. MaxCorruptions, error: 0 .. MaxErrors,
                           strayed: SUBSET {"uid", "prompt"}, lost: SUBSET arrived]
           /\ faults'.corruption = faults.corruption /\ faults'.error = faults.error
           /\ faults'.strayed = StrayedAfter(n) /\ faults'.lost = faults.lost \cup gone
           /\ phase' \in {"generating", "raising"}
<1>1. /\ waiting \in Seq(Request) /\ Len(waiting) \in Nat /\ Waiting \subseteq arrived
      /\ arrived \subseteq Request /\ Room \in 0 .. Len(waiting) /\ Room \in Nat
      /\ faults \in [corruption: 0 .. MaxCorruptions, error: 0 .. MaxErrors,
                     strayed: SUBSET {"uid", "prompt"}, lost: SUBSET arrived]
  BY RoomFacts DEF SchedInv, SchedTypeOK, Queues
<1>2. ASSUME NEW n \in 0 .. Len(waiting)
      PROVE  StrayedAfter(n) \in SUBSET {"uid", "prompt"}
  BY <1>1 DEF StrayedAfter
<1>3. CASE ScheduleWaiting
  <2>. DEFINE n == NumScheduled
  <2>1. n \in 0 .. Room /\ n \in 0 .. Len(waiting)
    BY <1>1, NumScheduledRange
  <2>2. /\ Schedule(n) /\ waiting' = Rest(n) /\ phase' = "generating" /\ arrived' = arrived
        /\ faults' = [faults EXCEPT !.strayed = StrayedAfter(n)]
    BY <1>3 DEF ScheduleWaiting, Schedule, Rest
  <2>. HIDE DEF n
  <2>3. waiting' \in Seq(Request) /\ IsInjective(waiting') /\ Waiting' = ToSet(Rest(n))
    BY <2>1, <2>2, RestFacts DEF Waiting
  <2>4. /\ faults' \in [corruption: 0 .. MaxCorruptions, error: 0 .. MaxErrors,
                        strayed: SUBSET {"uid", "prompt"}, lost: SUBSET arrived]
        /\ faults'.corruption = faults.corruption /\ faults'.error = faults.error
        /\ faults'.strayed = StrayedAfter(n) /\ faults'.lost = faults.lost \cup {}
    BY <1>1, <1>2, <2>1, <2>2
  <2>5. {} \in SUBSET Request /\ ToSet(Rest(n)) = {} \cup Waiting' /\ {} \cap Waiting' = {}
    BY <2>3
  <2>. QED
    BY <2>1, <2>2, <2>3, <2>4, <2>5
<1>4. ASSUME NEW n \in 0 .. Len(waiting), ScheduleRaises(n)
      PROVE  \E m \in 0 .. Room, gone \in SUBSET Request :
           /\ Schedule(m) /\ waiting' \in Seq(Request) /\ IsInjective(waiting')
           /\ ToSet(Rest(m)) = gone \cup Waiting' /\ gone \cap Waiting' = {}
           /\ faults' \in [corruption: 0 .. MaxCorruptions, error: 0 .. MaxErrors,
                           strayed: SUBSET {"uid", "prompt"}, lost: SUBSET arrived]
           /\ faults'.corruption = faults.corruption /\ faults'.error = faults.error
           /\ faults'.strayed = StrayedAfter(m) /\ faults'.lost = faults.lost \cup gone
           /\ phase' \in {"generating", "raising"}
  <2>1. n \in 0 .. Room /\ n < Len(waiting) /\ n + 1 \in 0 .. Len(waiting)
    <3>1. n < Room
      BY <1>4 DEF ScheduleRaises
    <3>2. n \in Nat /\ Len(waiting) \in Nat /\ Room \in Nat /\ Room <= Len(waiting)
      BY <1>1
    <3>. QED
      BY <3>1, <3>2
  <2>2. /\ Schedule(n) /\ waiting' = Rest(n + 1) /\ phase' = "raising" /\ arrived' = arrived
        /\ faults' = [faults EXCEPT !.strayed = StrayedAfter(n), !.lost = @ \cup {waiting[n + 1]}]
    <3>1. (n + 1) + 1 = n + 2
      BY <1>1
    <3>2. Rest(n + 1) = SubSeq(waiting, n + 2, Len(waiting))
      BY <3>1 DEF Rest
    <3>3. arrived' = arrived
      BY <1>4 DEF ScheduleRaises, Schedule
    <3>. QED
      BY <1>4, <3>2, <3>3 DEF ScheduleRaises
  <2>3. /\ waiting' \in Seq(Request) /\ IsInjective(waiting') /\ Waiting' = ToSet(Rest(n + 1))
        /\ ToSet(Rest(n)) = {waiting[n + 1]} \cup ToSet(Rest(n + 1))
        /\ waiting[n + 1] \notin ToSet(Rest(n + 1))
    BY <2>1, <2>2, RestFacts DEF Waiting
  <2>4. waiting[n + 1] \in Request /\ waiting[n + 1] \in arrived
    <3>1. waiting[n + 1] \in Waiting
      BY <1>1, <2>1 DEF Waiting, ToSet
    <3>. QED
      BY <1>1, <3>1
  <2>5. /\ faults' \in [corruption: 0 .. MaxCorruptions, error: 0 .. MaxErrors,
                        strayed: SUBSET {"uid", "prompt"}, lost: SUBSET arrived]
        /\ faults'.corruption = faults.corruption /\ faults'.error = faults.error
        /\ faults'.strayed = StrayedAfter(n) /\ faults'.lost = faults.lost \cup {waiting[n + 1]}
    BY <1>1, <1>2, <2>2, <2>4
  <2>6. {waiting[n + 1]} \in SUBSET Request /\ {waiting[n + 1]} \cap Waiting' = {}
        /\ ToSet(Rest(n)) = {waiting[n + 1]} \cup Waiting'
    BY <2>3, <2>4
  <2>. QED
    BY <2>1, <2>2, <2>3, <2>5, <2>6
<1>. QED
  BY <1>3, <1>4

LEMMA ScheduleSteps ==
  ASSUME SchedInv, ScheduleWaiting \/ \E n \in 0 .. Len(waiting) : ScheduleRaises(n)
  PROVE  SchedInv'
  BY Scheduling, ScheduleStep

-----------------------------------------------------------------------------
(* next() and what follows it                                              *)

\* The prompts that are prefilled and those that are not.
LEMMA PrefilledFacts ==
  ASSUME SchedInv, generator # None
  PROVE  LET rest == SubSeq(generator.unprocessed, Len(Prefilled) + 1,
                            Len(generator.unprocessed))
         IN  /\ generator \in Generators
             /\ ToSet(Prefilled) \subseteq UID /\ rest \in Seq(UID) /\ IsInjective(rest)
             /\ ToSet(Prefilled) \cap ToSet(rest) = {}
             /\ ToSet(Prefilled) \cup ToSet(rest) = ToSet(generator.unprocessed)
<1>. DEFINE s == generator.unprocessed
            room == CompletionBatchSize - Cardinality(generator.active)
            k == IF room < Len(s) THEN room ELSE Len(s)
            m == IF k < 1 THEN 0 ELSE k
            rest == SubSeq(s, Len(Prefilled) + 1, Len(s))
<1>1. /\ generator \in Generators /\ s \in Seq(UID) /\ generator.active \subseteq UID
      /\ IsInjective(s) /\ Len(s) \in Nat
  BY DEF SchedInv, SchedTypeOK, Numbered, Generators
<1>2. room \in Int
  <2>1. IsFiniteSet(UID)
    BY Numbers, FS_Interval DEF UID
  <2>2. Cardinality(generator.active) \in Nat
    BY <1>1, <2>1, FS_Subset, FS_CardinalityType
  <2>. QED
    BY <2>2, SchedulerAssumption
<1>3. Prefilled = SubSeq(s, 1, k)
  BY DEF Prefilled
<1>. HIDE DEF s, room
<1>4. k \in Int /\ k <= Len(s) /\ m \in 0 .. Len(s)
  BY <1>1, <1>2
<1>5. Prefilled = SubSeq(s, 1, m)
  <2>1. CASE k < 1
    BY <1>1, <1>3, <1>4, <2>1
  <2>2. CASE ~(k < 1)
    BY <1>3, <2>2
  <2>. QED
    BY <2>1, <2>2
<1>. HIDE DEF k, m
<1>6. /\ Prefilled \in Seq(UID) /\ Len(Prefilled) = m
      /\ SubSeq(s, m + 1, Len(s)) \in Seq(UID) /\ IsInjective(SubSeq(s, m + 1, Len(s)))
      /\ ToSet(Prefilled) \cap ToSet(SubSeq(s, m + 1, Len(s))) = {}
      /\ ToSet(Prefilled) \cup ToSet(SubSeq(s, m + 1, Len(s))) = ToSet(s)
  BY <1>1, <1>4, <1>5, Split
<1>7. ToSet(Prefilled) \subseteq UID
  BY <1>6 DEF ToSet
<1>8. SubSeq(s, m + 1, Len(s)) = rest
  BY <1>6
<1>. QED
  BY <1>1, <1>6, <1>7, <1>8 DEF s

LEMMA GenerateStep ==
  ASSUME SchedInv, NEW stopped \in SUBSET UID, NEW unstored \in SUBSET Request,
         GenerateTokens(stopped, unstored)
  PROVE  SchedInv'
<1>. DEFINE batch    == generator.active \cup ToSet(Prefilled)
            rest     == SubSeq(generator.unprocessed, Len(Prefilled) + 1,
                               Len(generator.unprocessed))
            answered == Responded(batch)
            len(u)   == output_len[rid_of[u]] + (IF u \in stopped THEN 0 ELSE 1)
            ended    == {u \in answered : u \in stopped \/ len(u) >= MaxTokens}
            finished == {rid_of[u] : u \in ended}
<1>a. /\ generator # None /\ stopped \subseteq batch /\ phase' = "idle"
      /\ UNCHANGED <<arrived, waiting, pending, retries, faults>> /\ Waiting' = Waiting
  BY DEF GenerateTokens, Generating, Waiting
<1>b. /\ unstored \subseteq {r \in finished : table[r] = "stale"}
      /\ running' = Without(running, finished) /\ requests' = requests \ finished
      /\ prompt_cache' = prompt_cache \ finished
      /\ table' = [r \in Request |-> IF r \in unstored THEN "misreleased"
                                     ELSE IF r \in finished THEN "none" ELSE table[r]]
      /\ uid_of' = [r \in Request |-> IF r \in finished THEN None ELSE uid_of[r]]
      /\ rid_of' = [u \in UID |-> IF \E r \in finished : uid_of[r] = u THEN None ELSE rid_of[u]]
  BY DEF GenerateTokens, CleanupFinished
<1>c. output' = [outputs |-> {Output(rid_of[u], IF u \in stopped THEN 0 ELSE 1,
                                     len(u), u \in ended, FALSE) : u \in answered},
                 raised  |-> FALSE]
  BY DEF GenerateTokens
<1>d. output_len' = [r \in Request |-> IF \E u \in answered : rid_of[u] = r
                                       THEN len(CHOOSE u \in answered : rid_of[u] = r)
                                       ELSE output_len[r]]
  BY DEF GenerateTokens
<1>e. /\ embeds' = embeds \ {rid_of[u] : u \in answered}
      /\ generator' = [generator EXCEPT
           !.active      = batch \ (ended \cup stopped \cup {uid_of[r] : r \in finished}),
           !.unprocessed = rest]
  BY DEF GenerateTokens
<1>f. /\ generator \in Generators /\ ToSet(Prefilled) \subseteq UID
      /\ rest \in Seq(UID) /\ IsInjective(rest)
      /\ ToSet(Prefilled) \cap ToSet(rest) = {}
      /\ ToSet(Prefilled) \cup ToSet(rest) = ToSet(generator.unprocessed)
  BY <1>a, PrefilledFacts
<1>g. /\ generator.active \subseteq UID
      /\ ToSet(generator.unprocessed) \cap generator.active = {}
  BY <1>a, <1>f DEF Generators, SchedInv, Numbered
<1>. HIDE DEF rest
<1>h. /\ batch \subseteq UID /\ batch \cap ToSet(rest) = {}
      /\ Sequences(generator) = batch \cup ToSet(rest)
  BY <1>a, <1>f, <1>g DEF Sequences
<1>. HIDE DEF batch
<1>i. /\ answered \subseteq batch /\ \A u \in answered : rid_of[u] \in Running
      /\ \A u \in batch : rid_of[u] \in Running => u \in answered
  BY DEF Responded
<1>. HIDE DEF answered
<1>j. /\ Running \subseteq requests /\ requests \subseteq arrived /\ arrived \subseteq Request
      /\ Waiting \cap Running = {} /\ Waiting \subseteq requests
      /\ faults.lost \cap (Waiting \cup Running) = {}
  BY DEF SchedInv, SchedTypeOK, Queues
<1>k. \A u \in answered : /\ output_len[rid_of[u]] \in Nat /\ output_len[rid_of[u]] < MaxTokens
                          /\ len(u) \in 0 .. MaxTokens
  <2>1. ASSUME NEW u \in answered
        PROVE  output_len[rid_of[u]] \in Nat /\ output_len[rid_of[u]] < MaxTokens
    BY <1>i, <1>j, SchedulerAssumption DEF SchedInv, SchedTypeOK, Counters
  <2>. QED
    BY <2>1, SchedulerAssumption
<1>l. /\ ended \subseteq answered
      /\ \A u \in answered : u \notin ended => u \notin stopped /\ ~(len(u) >= MaxTokens)
  OBVIOUS
<1>. HIDE DEF len, ended
<1>m. finished \subseteq Running /\ finished \subseteq Request
      /\ \A u \in ended : rid_of[u] \in finished
  BY <1>i, <1>j, <1>l
<1>q. \A r \in finished : \E u \in ended : rid_of[u] = r
  OBVIOUS
<1>. HIDE DEF finished
<1>n. /\ running' \in Seq(Request) /\ IsInjective(running') /\ Running' = Running \ finished
      /\ Len(running') <= Len(running) /\ Len(running) \in Nat /\ Len(running') \in Nat
  BY <1>b, Stays DEF SchedInv, SchedTypeOK, Queues, Running
<1>o. /\ generator' \in Generators /\ generator'.count = generator.count
      /\ generator'.active = batch \ (ended \cup stopped \cup {uid_of[r] : r \in finished})
      /\ generator'.unprocessed = rest
  BY <1>e, <1>f, <1>h DEF Generators
<1>p. /\ generator' # None
      /\ Sequences(generator)'
           = (batch \ (ended \cup stopped \cup {uid_of[r] : r \in finished})) \cup ToSet(rest)
  <2>1. generator' # None
    BY <1>o, Numbers
  <2>. QED
    BY <1>o, <2>1 DEF Sequences
<1>1. SchedTypeOK'
  <2>1. output_len' \in [Request -> 0 .. MaxTokens]
    <3>1. ASSUME NEW r \in Request PROVE output_len'[r] \in 0 .. MaxTokens
      <4>1. CASE \E u \in answered : rid_of[u] = r
        <5>1. PICK c \in answered : c = CHOOSE u \in answered : rid_of[u] = r
          BY <4>1
        <5>. QED
          BY <1>d, <1>k, <4>1, <5>1
      <4>2. CASE ~\E u \in answered : rid_of[u] = r
        BY <1>d, <4>2 DEF SchedInv, SchedTypeOK
      <4>. QED
        BY <4>1, <4>2
    <3>. QED
      BY <1>d, <3>1
  <2>2. output'.outputs \subseteq Outputs /\ output'.raised = FALSE
    <3>1. ASSUME NEW u \in answered
          PROVE  Output(rid_of[u], IF u \in stopped THEN 0 ELSE 1, len(u), u \in ended, FALSE)
                   \in Outputs
      <4>1. rid_of[u] \in Request /\ len(u) \in 0 .. MaxTokens
        BY <1>i, <1>j, <1>k
      <4>2. (u \in ended) \in BOOLEAN
        OBVIOUS
      <4>. QED
        BY <4>1, <4>2 DEF Output, Outputs
    <3>. QED
      BY <1>c, <3>1
  <2>3. uid_of' \in [Request -> UID \cup {None}] /\ rid_of' \in [UID -> Request \cup {None}]
    BY <1>b DEF SchedInv, SchedTypeOK
  <2>4. table' \in [Request -> Table]
    BY <1>b DEF SchedInv, SchedTypeOK, Table
  <2>5. /\ arrived' \subseteq Request /\ pending' \subseteq Request /\ waiting' \in Seq(Request)
        /\ requests' \subseteq arrived' /\ prompt_cache' \subseteq requests'
        /\ embeds' \subseteq VisionRequest
        /\ retries' \in [Request -> 0 .. MaxRetries + 1]
        /\ \A r \in requests' : retries'[r] <= MaxRetries
        /\ faults' \in [corruption: 0 .. MaxCorruptions, error: 0 .. MaxErrors,
                        strayed: SUBSET {"uid", "prompt"}, lost: SUBSET arrived]
    BY <1>a, <1>b, <1>e DEF SchedInv, SchedTypeOK
  <2>. QED
    BY <1>a, <1>n, <1>o, <2>1, <2>2, <2>3, <2>4, <2>5 DEF SchedTypeOK
<1>2. Queues'
  <2>1. Len(running) <= MaxNumSeqs /\ IsInjective(waiting)
    BY DEF SchedInv, Queues
  <2>. QED
    BY <1>a, <1>b, <1>j, <1>m, <1>n, <2>1, SchedulerAssumption DEF Queues
<1>3. Counters'
  <2>1. ASSUME NEW r \in Request \ arrived'
        PROVE  /\ output_len'[r] = 0 /\ retries'[r] = 0 /\ uid_of'[r] = None
               /\ table'[r] = "none"
    <3>1. r \notin Running /\ r \notin finished /\ r \notin unstored
      BY <1>a, <1>b, <1>j, <1>m
    <3>2. ~\E u \in answered : rid_of[u] = r
      BY <1>i, <3>1
    <3>. QED
      BY <1>a, <1>b, <1>d, <3>1, <3>2 DEF SchedInv, Counters
  <2>2. ASSUME NEW r \in requests' PROVE output_len'[r] < MaxTokens
    <3>1. r \in requests /\ r \notin finished /\ r \in Request
      BY <1>b, <1>j
    <3>2. CASE \E u \in answered : rid_of[u] = r
      <4>1. PICK c \in answered : c = (CHOOSE u \in answered : rid_of[u] = r) /\ rid_of[c] = r
        BY <3>2
      <4>2. c \notin ended
        BY <1>m, <3>1, <4>1
      <4>. QED
        BY <1>d, <1>k, <1>l, <3>1, <3>2, <4>1, <4>2, SchedulerAssumption
    <3>3. CASE ~\E u \in answered : rid_of[u] = r
      BY <1>d, <3>1, <3>3 DEF SchedInv, Counters
    <3>. QED
      BY <3>2, <3>3
  <2>3. output'.raised = FALSE
    BY <1>c
  <2>. QED
    BY <2>1, <2>2, <2>3 DEF Counters
<1>4. Numbered'
  <2>1. generator.count <= Cardinality(arrived \ Waiting)
        /\ \A u \in Sequences(generator) : u < generator.count
    BY <1>a DEF SchedInv, Numbered
  <2>. QED
    BY <1>a, <1>f, <1>h, <1>o, <1>p, <2>1 DEF Numbered
<1>5. Caches'
  <2>1. prompt_cache \subseteq Waiting \cup Running \cup faults.lost
        /\ \A r \in prompt_cache : r \in Waiting => uid_of[r] = None
    BY DEF SchedInv, Caches
  <2>. QED
    BY <1>a, <1>b, <1>j, <1>n, <2>1 DEF Caches
<1>6. Located'
  <2>. SUFFICES ASSUME "uid" \notin faults'.strayed PROVE Located'
    BY DEF Located
  <2>0. /\ requests \ faults.lost = Waiting \cup Running
        /\ \A r \in Running : uid_of[r] \in Sequences(generator) /\ rid_of[uid_of[r]] = r
        /\ \A r \in Waiting \cup faults.lost : uid_of[r] = None
    BY <1>a DEF SchedInv, Located
  <2>1. requests' \ faults'.lost = Waiting' \cup Running'
    BY <1>a, <1>b, <1>j, <1>m, <1>n, <2>0
  <2>2. ASSUME NEW q \in Running'
        PROVE  uid_of'[q] \in Sequences(generator)' /\ rid_of'[uid_of'[q]] = q
    <3>1. q \in Running /\ q \notin finished /\ q \in Request
      BY <1>j, <1>n, <2>2
    <3>2. /\ uid_of'[q] = uid_of[q] /\ uid_of[q] \in Sequences(generator)
          /\ rid_of[uid_of[q]] = q
      BY <1>b, <2>0, <3>1
    <3>3. \A r \in finished : uid_of[r] # uid_of[q]
      BY <1>m, <2>0, <3>1, <3>2
    <3>4. uid_of[q] \in UID
      BY <1>f, <1>h, <3>2 DEF ToSet
    <3>5. rid_of'[uid_of[q]] = q
      BY <1>b, <3>2, <3>3, <3>4
    <3>6. uid_of[q] \notin ended /\ uid_of[q] \notin stopped
      <4>1. uid_of[q] \notin ended
        BY <1>m, <3>1, <3>2
      <4>. QED
        BY <1>a, <1>i, <1>l, <3>1, <3>2, <4>1
    <3>7. uid_of[q] \in Sequences(generator)'
      BY <1>h, <1>p, <3>2, <3>3, <3>6
    <3>. QED
      BY <3>2, <3>5, <3>7
  <2>3. \A q \in Waiting' : uid_of'[q] = None
    BY <1>a, <1>b, <1>j, <2>0
  <2>4. \A q \in faults'.lost : uid_of'[q] = None
    BY <1>a, <1>b, <2>0 DEF SchedInv, SchedTypeOK
  <2>. QED
    BY <1>p, <2>1, <2>2, <2>3, <2>4 DEF Located
<1>7. Served'
  <2>. SUFFICES ASSUME faults'.strayed = {}, NEW u \in Sequences(generator)'
                PROVE  rid_of'[u] \in Running' /\ uid_of'[rid_of'[u]] = u
    BY DEF Served
  <2>1. u \in Sequences(generator) /\ u \in UID
    BY <1>h, <1>p, <1>f DEF ToSet
  <2>2. /\ rid_of[u] \in Running /\ uid_of[rid_of[u]] = u
        /\ \A v \in Sequences(generator) : rid_of[v] = rid_of[u] => v = u
    BY <1>a, <2>1 DEF SchedInv, Served
  <2>3. rid_of[u] \notin finished
    <3>1. SUFFICES ASSUME rid_of[u] \in finished PROVE FALSE
      OBVIOUS
    <3>2. PICK v \in ended : rid_of[v] = rid_of[u]
      BY <1>q, <3>1, Zenon
    <3>3. v = u /\ v \in batch
      BY <1>h, <1>i, <1>l, <2>2, <3>2
    <3>. QED
      BY <1>h, <1>p, <3>3
  <2>4. \A r \in finished : uid_of[r] # u
    <3>1. ASSUME NEW r \in finished, uid_of[r] = u PROVE FALSE
      <4>1. PICK v \in ended : rid_of[v] = r
        BY <1>q, Zenon
      <4>2. v \in Sequences(generator)
        BY <1>h, <1>i, <1>l
      <4>3. uid_of[rid_of[v]] = v
        BY <1>a, <4>2 DEF SchedInv, Served
      <4>. QED
        BY <1>m, <2>3, <3>1, <4>1, <4>3
    <3>. QED
      BY <3>1
  <2>5. rid_of'[u] = rid_of[u] /\ rid_of[u] \in Request
    BY <1>b, <1>j, <2>1, <2>2, <2>4
  <2>. QED
    BY <1>b, <1>n, <2>2, <2>3, <2>5
<1>8. TablesExplained'
  <2>1. ASSUME NEW r \in Request, table'[r] \in {"stale", "misreleased"}
        PROVE  faults'.corruption > 0
    BY <1>a, <1>b, <2>1 DEF SchedInv, TablesExplained
  <2>2. ASSUME NEW r \in Request, table'[r] \in {"live", "kept"}, r \notin requests'
        PROVE  faults'.error > 0 \/ "uid" \in faults'.strayed
    BY <1>a, <1>b, <2>2 DEF SchedInv, TablesExplained
  <2>3. ASSUME NEW r \in Request, r \in prompt_cache' PROVE table'[r] \in {"live", "stale"}
    BY <1>b, <2>3 DEF SchedInv, TablesExplained
  <2>. QED
    BY <2>1, <2>2, <2>3 DEF TablesExplained
<1>. QED
  BY <1>1, <1>2, <1>3, <1>4, <1>5, <1>6, <1>7, <1>8 DEF SchedInv

-----------------------------------------------------------------------------
(* The recoveries                                                          *)

LEMMA RescheduledQueues ==
  ASSUME SchedInv, NEW lost \in SUBSET Running, Rescheduled(lost)
  PROVE  /\ waiting' \in Seq(Request) /\ IsInjective(waiting')
         /\ Waiting' = (Running \ lost) \cup Waiting
         /\ running' = <<>> /\ Running' = {} /\ IsInjective(running') /\ Len(running') = 0
<1>. DEFINE s == Without(running, lost)
            t == Reverse(s)
<1>1. waiting' = t \o waiting /\ running' = <<>>
  BY DEF Rescheduled
<1>2. s \in Seq(Request) /\ IsInjective(s) /\ ToSet(s) = Running \ lost
  BY Stays DEF SchedInv, SchedTypeOK, Queues, Running
<1>. HIDE DEF s
<1>3. t \in Seq(Request) /\ IsInjective(t) /\ ToSet(t) = Running \ lost
  BY <1>2, Reversed
<1>. HIDE DEF t
<1>4. /\ waiting \in Seq(Request) /\ IsInjective(waiting) /\ Waiting \cap Running = {}
      /\ Waiting = ToSet(waiting)
  BY DEF SchedInv, SchedTypeOK, Queues, Waiting
<1>5. /\ t \o waiting \in Seq(Request) /\ IsInjective(t \o waiting)
      /\ ToSet(t \o waiting) = ToSet(t) \cup ToSet(waiting)
  BY <1>3, <1>4, Concatenated
<1>6. Waiting' = ToSet(t \o waiting)
  BY <1>1 DEF Waiting
<1>7. running' = <<>> /\ Running' = {} /\ IsInjective(running') /\ Len(running') = 0
  BY <1>1 DEF Running, ToSet, IsInjective
<1>8. waiting' \in Seq(Request) /\ IsInjective(waiting')
  BY <1>1, <1>5
<1>. QED
  BY <1>3, <1>4, <1>5, <1>6, <1>7, <1>8

LEMMA PrefillAbortedStep ==
  ASSUME SchedInv, PrefillAborted
  PROVE  SchedInv'
<1>. USE DEF SchedInv
<1>a. /\ generator # None /\ generator' = None /\ Rescheduled({}) /\ phase' = "idle"
      /\ requests' = requests
      /\ output_len' = [r \in Request |-> IF r \in Running THEN 0 ELSE output_len[r]]
      /\ prompt_cache' = prompt_cache \ Running
      /\ table' = [r \in Request |-> IF r \in Running /\ table[r] = "live"  THEN "kept"
                                     ELSE IF r \in Running /\ table[r] = "stale" THEN "none"
                                     ELSE table[r]]
      /\ UNCHANGED <<arrived, pending, uid_of, rid_of, embeds, retries, output, faults>>
  BY DEF PrefillAborted, Rescheduled, Generating
<1>b. /\ waiting' \in Seq(Request) /\ IsInjective(waiting') /\ Waiting' = Running \cup Waiting
      /\ running' \in Seq(Request) /\ Running' = {} /\ IsInjective(running')
      /\ Len(running') = 0
  <2>1. {} \in SUBSET Running /\ Running \ {} = Running
    OBVIOUS
  <2>2. /\ waiting' \in Seq(Request) /\ IsInjective(waiting')
        /\ Waiting' = (Running \ {}) \cup Waiting
        /\ running' = <<>> /\ Running' = {} /\ IsInjective(running') /\ Len(running') = 0
    BY <1>a, <2>1, RescheduledQueues
  <2>. QED
    BY <2>1, <2>2
<1>c. /\ Waiting \subseteq requests /\ Running \subseteq requests
      /\ requests \subseteq arrived /\ arrived \subseteq Request
  BY DEF SchedTypeOK, Queues
<1>d. Sequences(generator)' = {}
  BY <1>a DEF Sequences
<1>1. SchedTypeOK'
  <2>1. output_len' \in [Request -> 0 .. MaxTokens] /\ table' \in [Request -> Table]
    BY <1>a, SchedulerAssumption DEF SchedTypeOK, Table
  <2>. QED
    BY <1>a, <1>b, <2>1 DEF SchedTypeOK
<1>2. Queues'
  BY <1>a, <1>b, <1>c, SchedulerAssumption DEF Queues
<1>3. Counters'
  BY <1>a, <1>c, SchedulerAssumption DEF Counters
<1>4. Numbered' /\ Served'
  BY <1>a, <1>d DEF Numbered, Served
<1>5. Caches'
  BY <1>a, <1>b DEF Caches
<1>6. Located'
  <2>. SUFFICES ASSUME "uid" \notin faults'.strayed PROVE Located'
    BY DEF Located
  <2>1. /\ requests \ faults.lost = Waiting \cup Running
        /\ \A q \in Running : rid_of[uid_of[q]] = q
        /\ \A q \in Waiting \cup faults.lost : uid_of[q] = None
    BY <1>a DEF Located
  <2>. QED
    BY <1>a, <1>b, <2>1 DEF Located
<1>7. TablesExplained'
  <2>1. ASSUME NEW r \in Request, table'[r] \in {"stale", "misreleased"}
        PROVE  faults'.corruption > 0
    BY <1>a, <2>1 DEF TablesExplained
  <2>2. ASSUME NEW r \in Request, table'[r] \in {"live", "kept"}, r \notin requests'
        PROVE  faults'.error > 0 \/ "uid" \in faults'.strayed
    BY <1>a, <1>c, <2>2 DEF TablesExplained
  <2>3. ASSUME NEW r \in Request, r \in prompt_cache' PROVE table'[r] \in {"live", "stale"}
    BY <1>a, <2>3 DEF TablesExplained
  <2>. QED
    BY <2>1, <2>2, <2>3 DEF TablesExplained
<1>. QED
  BY <1>1, <1>2, <1>3, <1>4, <1>5, <1>6, <1>7

LEMMA CacheCorruptedStep ==
  ASSUME SchedInv, CacheCorrupted
  PROVE  SchedInv'
<1>. USE DEF SchedInv
<1>a. /\ generator' = None /\ Rescheduled(Exhausted) /\ phase' = "idle"
      /\ requests' = requests \ Exhausted
      /\ output_len' = [r \in Request |-> IF r \in Running \ Exhausted THEN 0 ELSE output_len[r]]
      /\ prompt_cache' = prompt_cache \ Running
      /\ uid_of' = [r \in Request |-> None] /\ rid_of' = [u \in UID |-> None]
      /\ retries' = [r \in Request |-> retries[r] + (IF r \in Running THEN 1 ELSE 0)]
      /\ UNCHANGED <<arrived, pending, embeds>>
  BY DEF CacheCorrupted, Rescheduled, ClearedMaps
<1>b. /\ faults.corruption < MaxCorruptions
      /\ faults' = [faults EXCEPT !.corruption = @ + 1]
      /\ output' = [outputs |-> {Output(r, 0, 0, TRUE, TRUE) : r \in Exhausted}, raised |-> FALSE]
      /\ table' = [r \in Request |->
           IF table[r] = "misreleased" \/ (r \in Waiting \cup Lost /\ table[r] = "stale") THEN table[r]
           ELSE IF r \in Waiting \cup Lost /\ table[r] = "live" THEN "stale" ELSE "none"]
  BY DEF CacheCorrupted
<1>c. /\ Waiting \subseteq requests /\ Running \subseteq requests
      /\ requests \subseteq arrived /\ arrived \subseteq Request
      /\ Exhausted \subseteq Running /\ Waiting \cap Running = {}
      /\ \A r \in Running : r \notin Exhausted => ~(retries[r] >= MaxRetries)
  BY DEF SchedTypeOK, Queues, Exhausted
<1>d. /\ waiting' \in Seq(Request) /\ IsInjective(waiting')
      /\ Waiting' = (Running \ Exhausted) \cup Waiting
      /\ running' \in Seq(Request) /\ Running' = {} /\ IsInjective(running')
      /\ Len(running') = 0
  <2>1. Exhausted \in SUBSET Running
    BY <1>c
  <2>2. /\ waiting' \in Seq(Request) /\ IsInjective(waiting')
        /\ Waiting' = (Running \ Exhausted) \cup Waiting
        /\ running' = <<>> /\ Running' = {} /\ IsInjective(running') /\ Len(running') = 0
    BY <1>a, <2>1, RescheduledQueues
  <2>. QED
    BY <2>2
<1>e. Sequences(generator)' = {}
  BY <1>a DEF Sequences
<1>f. /\ faults' \in [corruption: 0 .. MaxCorruptions, error: 0 .. MaxErrors,
                      strayed: SUBSET {"uid", "prompt"}, lost: SUBSET arrived]
      /\ faults'.corruption > 0 /\ faults'.error = faults.error
      /\ faults'.strayed = faults.strayed /\ faults'.lost = faults.lost
  <2>1. /\ faults \in [corruption: 0 .. MaxCorruptions, error: 0 .. MaxErrors,
                       strayed: SUBSET {"uid", "prompt"}, lost: SUBSET arrived]
        /\ MaxCorruptions \in Nat /\ MaxErrors \in Nat
    BY SchedulerAssumption DEF SchedTypeOK
  <2>2. faults.corruption + 1 \in 0 .. MaxCorruptions /\ faults.corruption + 1 > 0
    BY <1>b, <2>1
  <2>. QED
    BY <1>b, <2>1, <2>2
<1>1. SchedTypeOK'
  <2>1. output_len' \in [Request -> 0 .. MaxTokens] /\ table' \in [Request -> Table]
    BY <1>a, <1>b, SchedulerAssumption DEF SchedTypeOK, Table
  <2>2. ASSUME NEW r \in Request
        PROVE  /\ retries'[r] \in 0 .. MaxRetries + 1
               /\ r \in requests' => retries'[r] <= MaxRetries
    <3>1. retries[r] \in 0 .. MaxRetries + 1 /\ (r \in requests => retries[r] <= MaxRetries)
      BY DEF SchedTypeOK
    <3>. QED
      BY <1>a, <1>c, <3>1, SchedulerAssumption
  <2>3. retries' \in [Request -> 0 .. MaxRetries + 1] /\ \A r \in requests' : retries'[r] <= MaxRetries
    BY <1>a, <1>c, <2>2
  <2>4. uid_of' \in [Request -> UID \cup {None}] /\ rid_of' \in [UID -> Request \cup {None}]
    BY <1>a
  <2>5. output'.outputs \subseteq Outputs /\ output'.raised \in BOOLEAN
    <3>1. ASSUME NEW r \in Exhausted PROVE Output(r, 0, 0, TRUE, TRUE) \in Outputs
      <4>1. r \in Request /\ 0 \in 0 .. MaxTokens
        BY <1>c, SchedulerAssumption
      <4>. QED
        BY <4>1 DEF Outputs, Output
    <3>. QED
      BY <1>b, <3>1
  <2>6. prompt_cache' \subseteq requests' /\ requests' \subseteq arrived'
        /\ arrived' \subseteq Request /\ pending' \subseteq Request
        /\ embeds' \subseteq VisionRequest
    BY <1>a, <1>c DEF SchedTypeOK, Caches
  <2>. QED
    BY <1>a, <1>d, <1>f, <2>1, <2>3, <2>4, <2>5, <2>6 DEF SchedTypeOK
<1>2. Queues'
  BY <1>a, <1>c, <1>d, <1>f, SchedulerAssumption DEF Queues
<1>3. Counters'
  <2>1. ASSUME NEW r \in Request \ arrived'
        PROVE  /\ output_len'[r] = 0 /\ retries'[r] = 0 /\ uid_of'[r] = None
               /\ table'[r] = "none"
    <3>1. r \notin Running /\ r \notin Waiting /\ r \notin arrived
      BY <1>a, <1>c
    <3>2. output_len[r] = 0 /\ retries[r] = 0 /\ table[r] = "none"
      BY <3>1 DEF Counters
    <3>. QED
      BY <1>a, <1>b, <3>1, <3>2
  <2>2. \A r \in requests' : output_len'[r] < MaxTokens
    BY <1>a, <1>c, SchedulerAssumption DEF Counters
  <2>3. output'.raised = FALSE
    BY <1>b
  <2>. QED
    BY <2>1, <2>2, <2>3 DEF Counters
<1>4. Numbered' /\ Served'
  BY <1>a, <1>e DEF Numbered, Served
<1>5. Caches'
  BY <1>a, <1>c, <1>d, <1>f DEF Caches
<1>6. Located'
  <2>. SUFFICES ASSUME "uid" \notin faults.strayed PROVE Located'
    BY <1>f DEF Located
  <2>1. requests \ faults.lost = Waiting \cup Running /\ faults.lost \cap (Waiting \cup Running) = {}
    BY DEF Located, Queues
  <2>2. requests' \ faults'.lost = Waiting' \cup Running'
    BY <1>a, <1>c, <1>d, <1>f, <2>1
  <2>. QED
    BY <1>a, <1>c, <1>d, <1>f, <2>2 DEF Located, SchedTypeOK
<1>7. TablesExplained'
  <2>1. ASSUME NEW r \in Request, table'[r] \in {"live", "kept"}
        PROVE  FALSE
    BY <1>b, <2>1
  <2>2. ASSUME NEW r \in Request, r \in prompt_cache' PROVE table'[r] \in {"live", "stale"}
    <3>1. r \in Waiting \cup Lost /\ table[r] \in {"live", "stale"}
      BY <1>a, <2>2 DEF TablesExplained, Caches, Lost, SchedTypeOK
    <3>. QED
      BY <1>b, <3>1
  <2>. QED
    BY <1>f, <2>1, <2>2 DEF TablesExplained
<1>. QED
  BY <1>1, <1>2, <1>3, <1>4, <1>5, <1>6, <1>7

LEMMA FailAllStep ==
  ASSUME SchedInv, FailAllRequests
  PROVE  SchedInv'
<1>. USE DEF SchedInv
<1>a. /\ output.raised /\ running' = <<>> /\ waiting' = <<>>
      /\ requests' = requests \ (Running \cup Waiting) /\ generator' = None
      /\ prompt_cache' = prompt_cache \ (Running \cup Waiting) /\ output' = NoOutput
      /\ UNCHANGED <<arrived, pending, uid_of, rid_of, output_len, embeds, table, retries,
                     phase, faults>>
  BY DEF FailAllRequests, FailedIds
<1>b. /\ Waiting' = {} /\ Running' = {} /\ Sequences(generator)' = {}
      /\ IsInjective(waiting') /\ IsInjective(running') /\ Len(running') = 0
  BY <1>a DEF Waiting, Running, Sequences, ToSet, IsInjective
<1>c. /\ prompt_cache' \subseteq faults.lost /\ prompt_cache' \subseteq requests'
      /\ faults.lost \cap (Waiting \cup Running) = {}
  BY <1>a DEF Caches, Queues, SchedTypeOK
<1>d. faults.error > 0 \/ "uid" \in faults.strayed
  BY <1>a DEF Counters
<1>1. SchedTypeOK'
  BY <1>a, <1>c DEF SchedTypeOK, NoOutput
<1>2. Queues'
  BY <1>b, SchedulerAssumption DEF Queues
<1>3. Counters'
  BY <1>a, <1>d DEF Counters
<1>4. Numbered' /\ Served' /\ Caches'
  BY <1>a, <1>b, <1>c DEF Numbered, Served, Caches
<1>5. Located'
  BY <1>a, <1>b, <1>c DEF Located
<1>6. TablesExplained'
  BY <1>a, <1>d DEF TablesExplained
<1>. QED
  BY <1>1, <1>2, <1>3, <1>4, <1>5, <1>6

-----------------------------------------------------------------------------
(* The theorems                                                            *)

LEMMA SchedStep_Inv ==
  ASSUME SchedInv, [SchedNext]_schedVars
  PROVE  SchedInv'
<1>1. ASSUME NEW r \in Request, NEW lookup \in Lookup, AddRequest(r, lookup) PROVE SchedInv'
  BY <1>1, AddStep
<1>2. ASSUME NEW r \in Request, AbortRequest(r) PROVE SchedInv'
  BY <1>2, QuietSteps
<1>3. CASE UNCHANGED schedVars
  BY <1>3, QuietSteps
<1>4. CASE Step
  <2>1. CASE HasRequests /\ BeginStep
    BY <2>1, QuietSteps
  <2>2. ASSUME NEW r \in Request, ProcessPendingAbort(r) PROVE SchedInv'
    <3>1. Abort(r) \/ AbortRaises(r) \/ AbortUnknown(r)
      BY <2>2 DEF ProcessPendingAbort
    <3>2. CASE AbortUnknown(r)
      BY <2>2, <3>2, QuietSteps
    <3>. QED
      BY <2>2, <3>1, <3>2, AbortStep, AbortRaisesStep
  <2>3. CASE ScheduleWaiting \/ \E n \in 0 .. Len(waiting) : ScheduleRaises(n)
    BY <2>3, ScheduleSteps
  <2>4. CASE NothingToRun \/ StepRaises
    BY <2>4, QuietSteps
  <2>5. ASSUME NEW stopped \in SUBSET UID, NEW unstored \in SUBSET Request,
               GenerateTokens(stopped, unstored)
        PROVE  SchedInv'
    BY <2>5, GenerateStep
  <2>6. CASE PrefillAborted
    BY <2>6, PrefillAbortedStep
  <2>7. CASE CacheCorrupted
    BY <2>7, CacheCorruptedStep
  <2>8. CASE FailAllRequests
    BY <2>8, FailAllStep
  <2>. QED
    BY <1>4, <2>1, <2>2, <2>3, <2>4, <2>5, <2>6, <2>7, <2>8 DEF Step
<1>. QED
  BY <1>1, <1>2, <1>3, <1>4 DEF SchedNext

LEMMA SchedInv_Tracked ==
  ASSUME SchedInv
  PROVE  RequestsTracked
<1>1. SchedTypeOK
  BY DEF SchedInv
<1>2. ASSUME "uid" \notin faults.strayed PROVE TrackedOnce
  <2>1. /\ requests \ faults.lost = Waiting \cup Running /\ Waiting \cap Running = {}
        /\ Len(running) <= MaxNumSeqs
        /\ waiting \in Seq(Request) /\ IsInjective(waiting)
        /\ running \in Seq(Request) /\ IsInjective(running)
    BY <1>2 DEF SchedInv, SchedTypeOK, Queues, Located
  <2>2. /\ IsFiniteSet(Waiting) /\ Cardinality(Waiting) = Len(waiting)
        /\ IsFiniteSet(Running) /\ Cardinality(Running) = Len(running)
        /\ Len(waiting) \in Nat /\ Len(running) \in Nat
    BY <2>1, LenOfSet DEF Waiting, Running
  <2>3. Cardinality(Waiting \cup Running)
          = Cardinality(Waiting) + Cardinality(Running) - Cardinality({})
    BY <2>1, <2>2, FS_Union
  <2>4. Cardinality({}) = 0
    BY FS_EmptySet
  <2>5. Cardinality(requests \ faults.lost) = Len(waiting) + Len(running)
    <3>1. requests \ faults.lost = Waiting \cup Running
      BY <2>1
    <3>2. Cardinality(Waiting \cup Running) = Len(waiting) + Len(running)
      BY <2>2, <2>3, <2>4
    <3>. QED
      BY <3>1, <3>2, Zenon
  <2>. QED
    BY <2>1, <2>5 DEF TrackedOnce
<1>3. ASSUME "uid" \notin faults.strayed PROVE RunningInBatch
  BY <1>3 DEF SchedInv, Located, RunningInBatch
<1>4. ASSUME faults.strayed = {} PROVE BatchServesRunning
  BY <1>4 DEF SchedInv, Served, BatchServesRunning
<1>. QED
  BY <1>1, <1>2, <1>3, <1>4 DEF RequestsTracked

LEMMA SchedInvariant == SchedSpec => []SchedInv
<1>1. SchedInit => SchedInv
  BY SchedInit_Inv
<1>2. SchedInv /\ [SchedNext]_schedVars => SchedInv'
  BY SchedStep_Inv
<1>. QED
  BY <1>1, <1>2, PTL DEF SchedSpec

\* Whatever the queue, the batch size and the errors: as long as no request
\* waits with the uid of an earlier generator, every request the scheduler
\* knows is in one queue, once, within max_num_seqs, and a running one is found
\* in the generator under its uid; as long as, besides, no unprocessed prompt
\* was aborted, the generator computes for running requests only.
THEOREM SchedulerRequestsTracked == SchedSpec => []RequestsTracked
<1>1. SchedInv => RequestsTracked
  BY SchedInv_Tracked
<1>. QED
  BY <1>1, SchedInvariant, PTL

\* Whatever happens, a block table disagrees with the block pool only after a
\* corruption, or, for a request that is gone, after an error, and rebuilt KV
\* comes with references to its blocks.
THEOREM SchedulerTablesExplained == SchedSpec => []TablesExplained
<1>1. SchedInv => TablesExplained
  BY DEF SchedInv
<1>. QED
  BY <1>1, SchedInvariant, PTL

-----------------------------------------------------------------------------
(* The engine around the scheduler.                                        *)

\* A generator has at most one sequence for a request, and none for one that
\* waits; rid_of names requests that add_request was called for.
OneSequence ==
  /\ \A u \in UID : rid_of[u] # None => rid_of[u] \in arrived
  /\ \A u \in Sequences(generator) : rid_of[u] \notin Waiting
  /\ \A u, v \in Sequences(generator) :
       rid_of[u] = rid_of[v] /\ rid_of[u] # None => u = v

\* What a step produced: at most one output for a request, none before its end.
StepOutput ==
  /\ phase # "idle" \/ output.raised => output.outputs = {}
  /\ \A o \in output.outputs : o.rid \in arrived
  /\ \A o, p \in output.outputs : o.rid = p.rid => o = p

CoreInv == SchedInv /\ OneSequence /\ StepOutput

Collected == [rid: Request, new: Nat, total: Nat, finished: BOOLEAN, error: BOOLEAN]

EngineTyped ==
  /\ client \in [Request -> {"none", "done"} \cup Active]
  /\ result \in [Request -> {"none", "ok", "error", "cancelled", "dropped"}]
  /\ received \in [Request -> Nat] /\ sent \in [Request -> 0 .. MaxTokens]
  /\ collectors \subseteq Request /\ event \subseteq collectors
  /\ buffer \in [Request -> Collected \cup {None}]
  /\ \A r \in Request : buffer[r] # None => buffer[r].rid = r /\ r \in collectors
  /\ tasks \in Seq({StepTask, FailTask} \cup {AddTask(r) : r \in Request})
  /\ IsInjective(tasks)
  /\ loop \in {"idle", "stepping", "deliver", "failing", "notify"}
  /\ StepTask \in ToSet(tasks) => loop = "stepping"
  /\ FailTask \in ToSet(tasks) => loop = "failing"
  /\ failed \subseteq arrived \ requests
  /\ told \subseteq Request /\ restarted \subseteq Request
  /\ abortAlls \in 0 .. MaxAbortAlls

\* Where the coroutine of r is says what there is of r.
ClientOf(r) ==
  /\ client[r] = "none" => r \notin collectors \cup arrived \cup told
  /\ client[r] \in Active => r \in collectors
  /\ client[r] # "done" => result[r] = "none"
  /\ r \in collectors => client[r] \in Active \/ result[r] = "dropped"
  /\ AddTask(r) \in ToSet(tasks) =>
       r \notin arrived /\ (client[r] = "adding" \/ result[r] = "dropped")
  /\ client[r] \in {"none", "adding", "waiting"} => received[r] = 0

\* The outputs of the last step that the loop has not delivered yet.
Undelivered == IF loop = "deliver" THEN output.outputs ELSE {}

Left(r) == r \in arrived \ requests

Has(r) == buffer[r] # None

\* A last output or an event of r means that r has left the scheduler, or that
\* abort_all_requests signalled it.
SignalsOf(r) ==
  /\ Has(r) /\ buffer[r].finished => Left(r) \/ r \in told \/ result[r] = "dropped"
  /\ Has(r) /\ buffer[r].finished /\ ~buffer[r].error => Left(r)
  /\ r \in event => Left(r) \/ r \in told \/ result[r] = "dropped"
  /\ r \in event /\ client[r] \in {"adding", "waiting"} =>
       Has(r) /\ (buffer[r].finished \/ buffer[r].error)
  /\ \A o \in Undelivered : o.rid = r =>
       /\ o.finished => Left(r)
       /\ ~(Has(r) /\ buffer[r].finished /\ ~buffer[r].error)
  /\ r \in told =>
       \/ client[r] \in Active /\ Has(r) /\ buffer[r].error
       \/ client[r] = "done" /\ result[r] # "ok"

Buffered(r) == IF Has(r) THEN buffer[r].new ELSE 0

\* Each token of r is received, in its collector, or not delivered yet.
TokensOf(r) ==
  /\ client[r] # "done" =>
       /\ (\A o \in Undelivered : o.rid # r) => output_len[r] = received[r] + Buffered(r)
       /\ \A o \in Undelivered : o.rid = r =>
            output_len[r] = received[r] + Buffered(r) + o.new
  /\ result[r] = "ok" => Left(r) /\ received[r] = output_len[r]

\* With a stream interval of 1 every output is sent.
TokensSafe == StreamInterval = 1 => \A r \in Request \ restarted : TokensOf(r)

EngineInv ==
  /\ CoreInv /\ EngineTyped /\ OrphansExplained
  /\ \A r \in Request : ClientOf(r) /\ SignalsOf(r)
  /\ TokensSafe

-----------------------------------------------------------------------------
(* What the engine needs of a step of the scheduler                        *)

\* What a step tells the engine: whom it restarted, and for the others one
\* output with the tokens they got.
Restarted(r) == r \in Running /\ output_len[r] > 0 /\ r \in Waiting'

Told(r) ==
  /\ \A o \in output'.outputs : o.rid = r => output_len'[r] = output_len[r] + o.new
  /\ (\A o \in output'.outputs : o.rid # r) => output_len'[r] = output_len[r]

Produced ==
  /\ \A o \in output'.outputs : o.rid \in requests /\ (o.finished => o.rid \notin requests')
  /\ \A r \in Request : Restarted(r) \/ Told(r)

StepEffect ==
  /\ arrived' = arrived /\ requests' \subseteq requests
  /\ "uid" \in faults.strayed => "uid" \in faults'.strayed
  /\ \A r \in pending : r \in pending' \/ r \notin requests' \/ "uid" \in faults'.strayed
  /\ IF phase' = "idle" THEN Produced ELSE output_len' = output_len

LEMMA CoreTyped ==
  ASSUME CoreInv
  PROVE  /\ SchedInv /\ OneSequence /\ StepOutput
         /\ arrived \subseteq Request /\ requests \subseteq arrived /\ Waiting \cap Running = {}
         /\ Waiting \cup Running \subseteq requests /\ pending \subseteq Request
         /\ rid_of \in [UID -> Request \cup {None}] /\ Sequences(generator) \subseteq UID
         /\ output_len \in [Request -> Nat] /\ output.outputs \subseteq Outputs
         /\ generator \in Generators \cup {None}
<1>1. SchedTypeOK /\ Queues /\ SchedInv
  BY DEF CoreInv, SchedInv
<1>2. Sequences(generator) \subseteq UID
  <2>1. CASE generator = None
    BY <2>1 DEF Sequences
  <2>2. CASE generator \in Generators
    <3>1. generator.unprocessed \in Seq(UID) /\ generator.active \subseteq UID
      BY <2>2 DEF Generators
    <3>2. ToSet(generator.unprocessed) \subseteq UID
      BY <3>1 DEF ToSet
    <3>. QED
      BY <3>1, <3>2 DEF Sequences
  <2>. QED
    BY <1>1, <2>1, <2>2 DEF SchedTypeOK
<1>3. output_len \in [Request -> Nat]
  BY <1>1, SchedulerAssumption DEF SchedTypeOK
<1>. QED
  BY <1>1, <1>2, <1>3 DEF CoreInv, SchedTypeOK, Queues

\* The generator loses sequences, the maps entries, and no request joins the
\* queue: each request keeps one sequence at most.
LEMMA SequencesLost ==
  ASSUME CoreInv, arrived \subseteq arrived', Waiting' \subseteq Waiting,
         Sequences(generator)' \subseteq Sequences(generator),
         \A u \in UID : rid_of'[u] \in {rid_of[u], None}
  PROVE  OneSequence'
<1>1. None \notin Request
  BY SchedulerAssumption
<1>2. \A u \in Sequences(generator)' : u \in Sequences(generator) /\ rid_of'[u] \in {rid_of[u], None}
  BY CoreTyped
<1>3. \A u \in UID : rid_of'[u] # None => rid_of'[u] \in arrived'
  BY CoreTyped DEF OneSequence
<1>4. \A u \in Sequences(generator)' : rid_of'[u] \notin Waiting'
  BY <1>1, <1>2, CoreTyped DEF OneSequence
<1>5. \A u, v \in Sequences(generator)' :
        rid_of'[u] = rid_of'[v] /\ rid_of'[u] # None => u = v
  BY <1>2, CoreTyped DEF OneSequence
<1>. QED
  BY <1>3, <1>4, <1>5 DEF OneSequence

\* There is no generator.
LEMMA NoSequence ==
  ASSUME CoreInv, arrived' = arrived, Sequences(generator)' = {},
         \A u \in UID : rid_of'[u] \in {rid_of[u], None}
  PROVE  OneSequence'
<1>1. \A u \in UID : rid_of'[u] # None => rid_of'[u] \in arrived'
  BY CoreTyped DEF OneSequence
<1>. QED
  BY <1>1 DEF OneSequence

LEMMA CoreAdds ==
  ASSUME CoreInv, NEW r \in Request, NEW lookup \in Lookup, AddRequest(r, lookup)
  PROVE  CoreInv'
<1>1. /\ r \notin arrived /\ arrived' = arrived \cup {r} /\ phase = "idle" /\ phase' = phase
      /\ waiting' = Append(waiting, r) /\ output' = output
      /\ generator' = generator /\ rid_of' = rid_of
  BY DEF AddRequest, batchVars
<1>2. Waiting' = Waiting \cup {r}
  BY <1>1, CoreTyped, AppendNew DEF Waiting, SchedInv, Queues, SchedTypeOK
<1>3. Sequences(generator)' = Sequences(generator)
  BY <1>1 DEF Sequences
<1>4. \A u \in Sequences(generator) : rid_of[u] # r
  BY <1>1, CoreTyped, SchedulerAssumption DEF OneSequence
<1>5. OneSequence'
  BY <1>1, <1>2, <1>3, <1>4, CoreTyped DEF OneSequence
<1>6. StepOutput'
  BY <1>1, CoreTyped DEF StepOutput
<1>. QED
  BY <1>5, <1>6, AddStep, CoreTyped DEF CoreInv

\* The event loop notes aborts.
LEMMA CoreNotes ==
  ASSUME CoreInv, pending' \subseteq Request,
         UNCHANGED <<arrived, waiting, running, requests, batchVars, reqVars, phase, output, faults>>
  PROVE  CoreInv'
<1>1. /\ arrived' = arrived /\ waiting' = waiting /\ phase' = phase /\ output' = output
      /\ generator' = generator /\ rid_of' = rid_of /\ faults' = faults
      /\ Waiting' = Waiting /\ Sequences(generator)' = Sequences(generator)
  BY DEF batchVars, Waiting, Sequences
<1>2. OneSequence' /\ StepOutput'
  <2>1. OneSequence /\ StepOutput
    BY CoreTyped
  <2>. QED
    BY <1>1, <2>1 DEF OneSequence, StepOutput
<1>3. Unmoved
  <2>1. /\ phase \in {"idle", "aborting", "generating", "raising"}
        /\ output.outputs \subseteq Outputs /\ output.raised \in BOOLEAN
        /\ output.raised => faults.error > 0 \/ "uid" \in faults.strayed
        /\ faults \in [corruption: 0 .. MaxCorruptions, error: 0 .. MaxErrors,
                       strayed: SUBSET {"uid", "prompt"}, lost: SUBSET arrived]
        /\ MaxCorruptions \in Nat /\ MaxErrors \in Nat
    BY CoreTyped, SchedulerAssumption DEF SchedInv, SchedTypeOK, Counters
  <2>. QED
    BY <1>1, <2>1 DEF Unmoved
<1>. QED
  BY <1>2, <1>3, UnmovedStep, CoreTyped DEF CoreInv

\* Steps that only go on, or end without an output.
LEMMA CoreGoesOn ==
  ASSUME CoreInv, BeginStep \/ NothingToRun \/ StepRaises
  PROVE  CoreInv' /\ StepEffect
<1>1. /\ arrived' = arrived /\ waiting' = waiting /\ requests' = requests /\ pending' = pending
      /\ generator' = generator /\ rid_of' = rid_of /\ output_len' = output_len
      /\ faults'.strayed = faults.strayed
      /\ Waiting' = Waiting /\ Sequences(generator)' = Sequences(generator)
  <2>1. faults \in [corruption: 0 .. MaxCorruptions, error: 0 .. MaxErrors,
                    strayed: SUBSET {"uid", "prompt"}, lost: SUBSET arrived]
    BY CoreTyped DEF SchedInv, SchedTypeOK
  <2>. QED
    BY <2>1 DEF BeginStep, NothingToRun, StepRaises, batchVars, reqVars, Waiting, Sequences
<1>2. output'.outputs = {}
  BY CoreTyped DEF BeginStep, NothingToRun, StepRaises, NoOutput, Raised, StepOutput
<1>3. OneSequence' /\ StepOutput'
  BY <1>1, <1>2, CoreTyped DEF OneSequence, StepOutput
<1>4. StepEffect
  BY <1>1, <1>2 DEF StepEffect, Produced, Told
<1>. QED
  BY <1>3, <1>4, QuietSteps, CoreTyped DEF CoreInv

LEMMA CoreAborts ==
  ASSUME CoreInv, NEW r \in Request, ProcessPendingAbort(r)
  PROVE  CoreInv' /\ StepEffect
<1>1. /\ phase = "aborting" /\ pending' = pending \ {r} /\ arrived' = arrived
      /\ output.outputs = {}
  BY CoreTyped DEF ProcessPendingAbort, StepOutput
<1>2. CASE AbortUnknown(r)
  <2>1. /\ waiting' = waiting /\ requests' = requests /\ generator' = generator
        /\ rid_of' = rid_of /\ output_len' = output_len /\ faults' = faults
        /\ phase' = phase /\ output' = output /\ r \notin requests
        /\ Waiting' = Waiting /\ Sequences(generator)' = Sequences(generator)
    BY <1>2 DEF AbortUnknown, batchVars, reqVars, Waiting, Sequences
  <2>2. OneSequence' /\ StepOutput'
    BY <1>1, <2>1, CoreTyped DEF OneSequence, StepOutput
  <2>3. StepEffect
    BY <1>1, <2>1 DEF StepEffect
  <2>. QED
    BY <1>2, <2>2, <2>3, QuietSteps, CoreTyped DEF CoreInv
<1>3. CASE Abort(r)
  <2>1. /\ waiting' = Without(waiting, {r}) /\ requests' = requests \ {r}
        /\ generator' = WithoutSequence(r)
        /\ rid_of' = [u \in UID |-> IF u = uid_of[r] THEN None ELSE rid_of[u]]
        /\ output_len' = output_len /\ phase' = phase /\ output' = output
        /\ faults.strayed \subseteq faults'.strayed
    BY <1>3, CoreTyped DEF Abort, Astray, SchedInv, SchedTypeOK
  <2>2. Waiting' \subseteq Waiting
    BY <2>1, Stays, CoreTyped DEF Waiting, SchedInv, Queues, SchedTypeOK
  <2>3. Sequences(generator)' \subseteq Sequences(generator)
    <3>1. Sequences(generator)' = Sequences(WithoutSequence(r))
      BY <2>1 DEF Sequences
    <3>. QED
      BY <3>1, SequenceTaken, CoreTyped
  <2>4. OneSequence'
    BY <1>1, <2>1, <2>2, <2>3, SequencesLost
  <2>5. StepOutput' /\ StepEffect
    BY <1>1, <2>1, CoreTyped DEF StepOutput, StepEffect
  <2>. QED
    BY <1>3, <2>4, <2>5, AbortStep, CoreTyped DEF CoreInv
<1>4. CASE AbortRaises(r)
  <2>1. /\ r \in requests /\ uid_of[r] # None /\ rid_of[uid_of[r]] = None
        /\ waiting' = Without(waiting, {r}) /\ generator' = WithoutSequence(r)
        /\ rid_of' = rid_of /\ requests' = requests /\ faults' = faults
        /\ output_len' = output_len /\ output' = Raised
    BY <1>4 DEF AbortRaises, reqVars
  <2>2. Waiting' \subseteq Waiting
    BY <2>1, Stays, CoreTyped DEF Waiting, SchedInv, Queues, SchedTypeOK
  <2>3. Sequences(generator)' \subseteq Sequences(generator)
    <3>1. Sequences(generator)' = Sequences(WithoutSequence(r))
      BY <2>1 DEF Sequences
    <3>. QED
      BY <3>1, SequenceTaken, CoreTyped
  <2>4. OneSequence'
    BY <1>1, <2>1, <2>2, <2>3, SequencesLost
  <2>5. "uid" \in faults.strayed
    <3>. SUFFICES ASSUME "uid" \notin faults.strayed PROVE FALSE
      OBVIOUS
    <3>1. r \in Waiting \cup Running /\ r \notin faults.lost
      BY <2>1, CoreTyped DEF SchedInv, Located
    <3>2. rid_of[uid_of[r]] = r
      BY <2>1, <3>1, CoreTyped DEF SchedInv, Located
    <3>. QED
      BY <2>1, <3>2, Numbers
  <2>6. output'.outputs = {}
    BY <2>1 DEF Raised
  <2>7. StepOutput'
    BY <2>6 DEF StepOutput
  <2>8. StepEffect
    BY <1>1, <2>1, <2>5, <2>6 DEF StepEffect, Produced, Told
  <2>. QED
    BY <1>4, <2>4, <2>7, <2>8, AbortRaisesStep, CoreTyped DEF CoreInv
<1>. QED
  BY <1>2, <1>3, <1>4 DEF ProcessPendingAbort

\* The requests that leave the queue get the new sequences.
LEMMA CoreSchedules ==
  ASSUME CoreInv, ScheduleWaiting \/ \E n \in 0 .. Len(waiting) : ScheduleRaises(n)
  PROVE  CoreInv' /\ StepEffect
<1>a. PICK n \in 0 .. Room, gone \in SUBSET Request :
        /\ Schedule(n) /\ ToSet(Rest(n)) = gone \cup Waiting'
        /\ faults'.strayed = StrayedAfter(n) /\ phase' \in {"generating", "raising"}
  BY Scheduling, CoreTyped, Zenon
<1>b. Waiting' \subseteq ToSet(Rest(n))
  BY <1>a
<1>1. PICK first \in SUBSET Request :
        /\ Waiting = first \cup ToSet(Rest(n)) /\ first \cap ToSet(Rest(n)) = {}
        /\ Sequences(generator) \subseteq Sequences(generator)'
        /\ \A u \in Sequences(generator) : rid_of'[u] = rid_of[u]
        /\ \A u \in Sequences(generator)' \ Sequences(generator) :
             rid_of'[u] \in first /\ uid_of'[rid_of'[u]] = u
        /\ \A u \in UID : rid_of'[u] \in first \cup {rid_of[u]}
  BY <1>a, <1>b, ScheduleFacts, CoreTyped, Zenon
<1>2. /\ phase = "aborting" /\ phase' # "idle" /\ output' = output /\ arrived' = arrived
      /\ pending' = pending /\ requests' = requests /\ output_len' = output_len
      /\ "uid" \in faults.strayed => "uid" \in faults'.strayed
  BY <1>a DEF Schedule, StrayedAfter, reqVars
<1>3. OneSequence'
  <2>1. \A u \in UID : rid_of'[u] # None => rid_of'[u] \in arrived'
    BY <1>1, <1>2, CoreTyped DEF OneSequence
  <2>2. \A u \in Sequences(generator)' : rid_of'[u] \notin Waiting'
    BY <1>1, <1>b, CoreTyped DEF OneSequence
  <2>3. ASSUME NEW u \in Sequences(generator)', NEW v \in Sequences(generator)',
               rid_of'[u] = rid_of'[v], rid_of'[u] # None
        PROVE  u = v
    BY <1>1, <2>3, CoreTyped DEF OneSequence
  <2>. QED
    BY <2>1, <2>2, <2>3 DEF OneSequence
<1>4. StepOutput' /\ StepEffect
  BY <1>2, CoreTyped DEF StepOutput, StepEffect
<1>. QED
  BY <1>3, <1>4, ScheduleSteps, CoreTyped DEF CoreInv

\* Each answered sequence has an output of its own, and its request one token
\* more, unless it stopped.
LEMMA CoreGenerates ==
  ASSUME CoreInv, NEW stopped \in SUBSET UID, NEW unstored \in SUBSET Request,
         GenerateTokens(stopped, unstored)
  PROVE  CoreInv' /\ StepEffect
<1>. DEFINE batch    == generator.active \cup ToSet(Prefilled)
            rest     == SubSeq(generator.unprocessed, Len(Prefilled) + 1,
                               Len(generator.unprocessed))
            answered == Responded(batch)
            gain(u)  == IF u \in stopped THEN 0 ELSE 1
            len(u)   == output_len[rid_of[u]] + gain(u)
            ended    == {u \in answered : u \in stopped \/ len(u) >= MaxTokens}
            finished == {rid_of[u] : u \in ended}
            out(u)   == Output(rid_of[u], gain(u), len(u), u \in ended, FALSE)
<1>1. /\ generator # None /\ phase' = "idle" /\ arrived' = arrived /\ pending' = pending
      /\ faults' = faults /\ Waiting' = Waiting /\ requests' = requests \ finished
      /\ rid_of' = [u \in UID |-> IF \E r \in finished : uid_of[r] = u THEN None ELSE rid_of[u]]
  BY DEF GenerateTokens, Generating, Waiting, CleanupFinished
<1>2. /\ output'.outputs = {out(u) : u \in answered} /\ output'.raised = FALSE
      /\ output_len' = [r \in Request |-> IF \E u \in answered : rid_of[u] = r
                                          THEN len(CHOOSE u \in answered : rid_of[u] = r)
                                          ELSE output_len[r]]
      /\ generator' = [generator EXCEPT
           !.active      = batch \ (ended \cup stopped \cup {uid_of[r] : r \in finished}),
           !.unprocessed = rest]
  BY DEF GenerateTokens
<1>3. /\ generator \in Generators /\ ToSet(rest) \subseteq ToSet(generator.unprocessed)
      /\ ToSet(Prefilled) \subseteq ToSet(generator.unprocessed)
  BY <1>1, PrefilledFacts, CoreTyped, Zenon
<1>4. Sequences(generator)' \subseteq Sequences(generator) /\ answered \subseteq Sequences(generator)
  <2>. HIDE DEF rest
  <2>1. Sequences(generator) = ToSet(generator.unprocessed) \cup generator.active
    BY <1>1 DEF Sequences
  <2>2. batch \subseteq Sequences(generator)
    BY <1>3, <2>1
  <2>3. generator'.active \subseteq batch /\ generator'.unprocessed = rest
    <3>. HIDE DEF batch, ended, finished
    <3>. QED
      BY <1>2, <1>3 DEF Generators
  <2>4. Sequences(generator)' \subseteq ToSet(rest) \cup batch
    BY <2>3 DEF Sequences
  <2>. QED
    BY <1>3, <2>1, <2>2, <2>4 DEF Responded
<1>5. \A u \in answered : rid_of[u] \in Running /\ rid_of[u] \in Request /\ rid_of[u] \in requests
  BY CoreTyped DEF Responded
<1>6. \A u, v \in answered : rid_of[u] = rid_of[v] => u = v
  BY <1>4, <1>5, CoreTyped, SchedulerAssumption DEF OneSequence
<1>7. \A u \in answered : out(u).rid = rid_of[u] /\ out(u).new = gain(u)
                          /\ out(u).finished = (u \in ended)
  BY DEF Output
<1>8. \A u \in ended : u \in answered /\ rid_of[u] \in finished
  OBVIOUS
<1>. HIDE DEF batch, rest, answered, ended, finished, gain, out
<1>9. ASSUME NEW o \in output'.outputs
      PROVE  \E u \in answered : o = out(u) /\ o.rid = rid_of[u] /\ o.new = gain(u)
                                 /\ (o.finished => rid_of[u] \in finished)
  <2>1. PICK u \in answered : o = out(u)
    BY <1>2
  <2>. QED
    BY <1>7, <1>8, <2>1
<1>10. ASSUME NEW u \in answered
       PROVE  output_len'[rid_of[u]] = output_len[rid_of[u]] + gain(u)
  <2>1. (CHOOSE v \in answered : rid_of[v] = rid_of[u]) = u
    BY <1>6
  <2>. QED
    BY <1>2, <1>5, <2>1
<1>11. ASSUME NEW r \in Request PROVE Told(r)
  <2>1. ASSUME NEW o \in output'.outputs, o.rid = r
        PROVE  output_len'[r] = output_len[r] + o.new
    BY <1>9, <1>10, <2>1
  <2>2. ASSUME \A o \in output'.outputs : o.rid # r PROVE output_len'[r] = output_len[r]
    <3>1. ASSUME NEW u \in answered PROVE rid_of[u] # r
      BY <1>2, <1>7, <2>2
    <3>. QED
      BY <1>2, <3>1
  <2>. QED
    BY <2>1, <2>2 DEF Told
<1>12. OneSequence'
  BY <1>1, <1>4, SequencesLost, CoreTyped
<1>13. StepOutput'
  <2>1. ASSUME NEW o \in output'.outputs, NEW p \in output'.outputs, o.rid = p.rid PROVE o = p
    <3>1. PICK u \in answered : o = out(u) /\ o.rid = rid_of[u]
      BY <1>9
    <3>2. PICK v \in answered : p = out(v) /\ p.rid = rid_of[v]
      BY <1>9
    <3>. QED
      BY <1>6, <2>1, <3>1, <3>2
  <2>2. \A o \in output'.outputs : o.rid \in arrived'
    BY <1>1, <1>5, <1>9, CoreTyped
  <2>. QED
    BY <1>1, <1>2, <2>1, <2>2 DEF StepOutput
<1>14. StepEffect
  <2>1. \A o \in output'.outputs : o.rid \in requests /\ (o.finished => o.rid \notin requests')
    BY <1>1, <1>5, <1>9
  <2>. QED
    BY <1>1, <1>11, <2>1 DEF StepEffect, Produced
<1>. QED
  BY <1>12, <1>13, <1>14, GenerateStep, CoreTyped DEF CoreInv

LEMMA CoreRestarts ==
  ASSUME CoreInv, PrefillAborted
  PROVE  CoreInv' /\ StepEffect
<1>1. /\ generator' = None /\ Rescheduled({}) /\ phase' = "idle" /\ phase = "generating"
      /\ requests' = requests /\ output' = output
      /\ output_len' = [r \in Request |-> IF r \in Running THEN 0 ELSE output_len[r]]
      /\ arrived' = arrived /\ pending' = pending /\ rid_of' = rid_of /\ faults' = faults
  BY DEF PrefillAborted, Rescheduled, Generating
<1>2. Waiting' = Running \cup Waiting
  <2>1. {} \in SUBSET Running /\ Running \ {} = Running
    OBVIOUS
  <2>2. Waiting' = (Running \ {}) \cup Waiting
    BY <1>1, <2>1, RescheduledQueues, CoreTyped
  <2>. QED
    BY <2>1, <2>2
<1>3. output.outputs = {}
  BY <1>1, CoreTyped DEF StepOutput
<1>4. ASSUME NEW r \in Request PROVE Restarted(r) \/ Told(r)
  <2>1. output_len[r] \in Nat
    BY CoreTyped
  <2>. QED
    BY <1>1, <1>2, <1>3, <2>1 DEF Restarted, Told
<1>5. OneSequence'
  <2>1. Sequences(generator)' = {}
    BY <1>1 DEF Sequences
  <2>. QED
    BY <1>1, <2>1, NoSequence
<1>6. StepOutput' /\ StepEffect
  BY <1>1, <1>3, <1>4 DEF StepOutput, StepEffect, Produced
<1>. QED
  BY <1>5, <1>6, PrefillAbortedStep, CoreTyped DEF CoreInv

LEMMA CoreRecovers ==
  ASSUME CoreInv, CacheCorrupted
  PROVE  CoreInv' /\ StepEffect
<1>1. /\ generator' = None /\ Rescheduled(Exhausted) /\ phase' = "idle"
      /\ requests' = requests \ Exhausted
      /\ output_len' = [r \in Request |-> IF r \in Running \ Exhausted THEN 0 ELSE output_len[r]]
      /\ rid_of' = [u \in UID |-> None] /\ arrived' = arrived /\ pending' = pending
      /\ output'.outputs = {Output(r, 0, 0, TRUE, TRUE) : r \in Exhausted}
      /\ output'.raised = FALSE /\ faults'.strayed = faults.strayed
  <2>1. faults \in [corruption: 0 .. MaxCorruptions, error: 0 .. MaxErrors,
                    strayed: SUBSET {"uid", "prompt"}, lost: SUBSET arrived]
    BY CoreTyped DEF SchedInv, SchedTypeOK
  <2>. QED
    BY <2>1 DEF CacheCorrupted, Rescheduled, ClearedMaps
<1>2. Exhausted \subseteq Running /\ Exhausted \subseteq requests
  BY CoreTyped DEF Exhausted
<1>3. Waiting' = (Running \ Exhausted) \cup Waiting
  BY <1>1, <1>2, RescheduledQueues, CoreTyped
<1>4. \A o \in output'.outputs :
        o.rid \in Exhausted /\ o.new = 0 /\ o = Output(o.rid, 0, 0, TRUE, TRUE)
  BY <1>1 DEF Output
<1>5. ASSUME NEW r \in Request PROVE Restarted(r) \/ Told(r)
  <2>1. output_len[r] \in Nat
    BY CoreTyped
  <2>2. CASE r \in Running \ Exhausted /\ output_len[r] > 0
    BY <1>3, <2>2 DEF Restarted
  <2>3. CASE ~(r \in Running \ Exhausted /\ output_len[r] > 0)
    <3>1. output_len'[r] = output_len[r]
      BY <1>1, <2>1, <2>3
    <3>2. ASSUME NEW o \in output'.outputs PROVE output_len[r] = output_len[r] + o.new
      <4>1. o.new = 0
        BY <1>4, Zenon
      <4>2. output_len[r] = output_len[r] + 0
        BY <2>1
      <4>. QED
        BY <4>1, <4>2, Zenon
    <3>. QED
      BY <3>1, <3>2 DEF Told
  <2>. QED
    BY <2>2, <2>3
<1>6. OneSequence'
  <2>1. Sequences(generator)' = {}
    BY <1>1 DEF Sequences
  <2>. QED
    BY <1>1, <2>1, NoSequence
<1>7. StepOutput'
  <2>1. \A o, p \in output'.outputs : o.rid = p.rid => o = p
    BY <1>4, Zenon
  <2>2. \A o \in output'.outputs : o.rid \in arrived'
    BY <1>1, <1>2, <1>4, CoreTyped
  <2>. QED
    BY <1>1, <2>1, <2>2 DEF StepOutput
<1>8. StepEffect
  <2>1. \A o \in output'.outputs : o.rid \in requests /\ o.rid \notin requests'
    BY <1>1, <1>2, <1>4
  <2>. QED
    BY <1>1, <1>5, <2>1 DEF StepEffect, Produced
<1>. QED
  BY <1>6, <1>7, <1>8, CacheCorruptedStep, CoreTyped DEF CoreInv

LEMMA CoreSteps ==
  ASSUME CoreInv, StepPart
  PROVE  CoreInv' /\ StepEffect
<1>1. CASE BeginStep \/ NothingToRun \/ StepRaises
  BY <1>1, CoreGoesOn
<1>2. ASSUME NEW r \in Request, ProcessPendingAbort(r) PROVE CoreInv' /\ StepEffect
  BY <1>2, CoreAborts
<1>3. ASSUME NEW stopped \in SUBSET UID, NEW unstored \in SUBSET Request,
             GenerateTokens(stopped, unstored)
      PROVE  CoreInv' /\ StepEffect
  BY <1>3, CoreGenerates
<1>. QED
  BY <1>1, <1>2, <1>3, CoreSchedules, CoreRestarts, CoreRecovers DEF StepPart

LEMMA CoreFails ==
  ASSUME CoreInv, FailAllRequests
  PROVE  /\ CoreInv' /\ arrived' = arrived /\ requests' = requests \ FailedIds
         /\ UNCHANGED <<pending, output_len, faults>> /\ output'.outputs = {}
         /\ FailedIds \subseteq requests
<1>1. /\ arrived' = arrived /\ requests' = requests \ FailedIds /\ generator' = None
      /\ UNCHANGED <<pending, output_len, faults, rid_of>> /\ output' = NoOutput
  BY DEF FailAllRequests
<1>2. OneSequence'
  <2>1. Sequences(generator)' = {}
    BY <1>1 DEF Sequences
  <2>. QED
    BY <1>1, <2>1, NoSequence
<1>3. StepOutput'
  BY <1>1 DEF StepOutput, NoOutput
<1>. QED
  BY <1>1, <1>2, <1>3, FailAllStep, CoreTyped DEF CoreInv, NoOutput, FailedIds

LEMMA CoreStart ==
  ASSUME SchedInit PROVE CoreInv
<1>1. generator = None /\ Waiting = {} /\ rid_of = [u \in UID |-> None] /\ phase = "idle"
      /\ output = NoOutput
  BY DEF SchedInit, Waiting, ToSet
<1>2. OneSequence /\ StepOutput
  BY <1>1 DEF OneSequence, StepOutput, Sequences, NoOutput
<1>. QED
  BY <1>2, SchedInit_Inv DEF CoreInv

-----------------------------------------------------------------------------
(* Frames: what an action leaves of a client                               *)

LEMMA EngineParts ==
  ASSUME EngineInv
  PROVE  /\ CoreInv /\ EngineTyped /\ OrphansExplained
         /\ \A r \in Request : ClientOf(r) /\ SignalsOf(r)
         /\ TokensSafe
         /\ \A r \in Request : client[r] \notin {"none", "done"} <=> client[r] \in Active
         /\ \A o \in output.outputs : o.rid \in arrived /\ o.rid \in Request
         /\ Undelivered \subseteq output.outputs
BY CoreTyped DEF EngineInv, EngineTyped, Active, StepOutput, Undelivered

LEMMA TaskNames ==
  /\ \A q, r \in Request : AddTask(q) = AddTask(r) => q = r
  /\ \A r \in Request : AddTask(r) # StepTask /\ AddTask(r) # FailTask
  /\ StepTask # FailTask
  /\ \A r \in Request : AddTask(r).kind = "add" /\ AddTask(r).rid = r
  /\ StepTask.kind = "step" /\ FailTask.kind = "fail"
BY DEF AddTask, StepTask, FailTask

Task == {StepTask, FailTask} \cup {AddTask(r) : r \in Request}

SameClient(q) ==
  /\ client'[q] = client[q] /\ result'[q] = result[q] /\ received'[q] = received[q]
  /\ buffer'[q] = buffer[q] /\ (q \in event' <=> q \in event)
  /\ (q \in collectors' <=> q \in collectors) /\ (q \in told' <=> q \in told)

LEMMA ClientKept ==
  ASSUME NEW q \in Request, ClientOf(q), SameClient(q),
         q \in arrived' => q \in arrived \/ client[q] # "none",
         AddTask(q) \in ToSet(tasks)' => AddTask(q) \in ToSet(tasks) /\ q \notin arrived'
  PROVE  ClientOf(q)'
<1>1. (AddTask(q) \in ToSet(tasks))' <=> AddTask(q) \in ToSet(tasks)'
  BY DEF AddTask
<1>. QED
  BY <1>1 DEF ClientOf, SameClient

LEMMA SignalsKept ==
  ASSUME NEW q \in Request, SignalsOf(q), SameClient(q), Left(q) => Left(q)',
         \A o \in Undelivered' : o.rid = q =>
           (o.finished => Left(q)') /\ ~(Has(q) /\ buffer[q].finished /\ ~buffer[q].error)
  PROVE  SignalsOf(q)'
BY DEF SignalsOf, SameClient, Has

LEMMA TokensKept ==
  ASSUME NEW q \in Request, TokensOf(q), SameClient(q), Left(q) => Left(q)',
         output_len'[q] = output_len[q], Undelivered' = Undelivered
  PROVE  TokensOf(q)'
BY DEF TokensOf, SameClient, Has, Buffered

\* The scheduler is not touched, but for aborts that are noted.
Untouched ==
  /\ pending \subseteq pending' /\ pending' \subseteq Request
  /\ UNCHANGED <<arrived, waiting, running, requests, batchVars, reqVars, phase, output, faults>>

LEMMA UntouchedCore ==
  ASSUME CoreInv, Untouched
  PROVE  /\ CoreInv' /\ arrived' = arrived /\ requests' = requests /\ output_len' = output_len
         /\ output' = output /\ faults' = faults /\ \A q \in Request : Left(q)' = Left(q)
BY CoreNotes DEF Untouched, reqVars, Left

\* One client acts, the loop does not.
LEMMA OneClient ==
  ASSUME EngineInv, NEW r \in Request, Untouched, UNCHANGED <<loop, failed, histVars>>,
         EngineTyped', ClientOf(r)', SignalsOf(r)',
         \A q \in Request \ {r} :
           SameClient(q) /\ (AddTask(q) \in ToSet(tasks)' => AddTask(q) \in ToSet(tasks)),
         r \in requests =>
           client'[r] \in Active \/ r \in pending' \/ result'[r] = "dropped" \/ r \in told,
         StreamInterval = 1 /\ r \notin restarted => TokensOf(r)'
  PROVE  EngineInv'
<1>1. /\ CoreInv' /\ arrived' = arrived /\ requests' = requests /\ output_len' = output_len
      /\ output' = output /\ faults' = faults /\ \A q \in Request : Left(q)' = Left(q)
  BY UntouchedCore, EngineParts
<1>2. /\ Undelivered' = Undelivered /\ told' = told /\ restarted' = restarted
  BY <1>1 DEF Undelivered, histVars
<1>3. ASSUME NEW q \in Request PROVE ClientOf(q)' /\ SignalsOf(q)'
  <2>1. CASE q = r
    BY <2>1
  <2>2. CASE q # r
    <3>1. ClientOf(q) /\ SignalsOf(q) /\ SameClient(q)
      BY <2>2, EngineParts
    <3>2. AddTask(q) \in ToSet(tasks)' => AddTask(q) \in ToSet(tasks) /\ q \notin arrived'
      BY <1>1, <2>2, <3>1 DEF ClientOf
    <3>3. \A o \in Undelivered' : o.rid = q =>
            (o.finished => Left(q)') /\ ~(Has(q) /\ buffer[q].finished /\ ~buffer[q].error)
      BY <1>1, <1>2, <3>1 DEF SignalsOf
    <3>. QED
      BY <1>1, <3>1, <3>2, <3>3, ClientKept, SignalsKept
  <2>. QED
    BY <2>1, <2>2
<1>4. OrphansExplained'
  <2>. SUFFICES ASSUME NEW q \in requests
                PROVE  \/ Wanted(q)' \/ result'[q] = "dropped" \/ q \in told'
                       \/ "uid" \in faults'.strayed
    BY <1>1 DEF OrphansExplained
  <2>0. q \in Request
    BY EngineParts, CoreTyped
  <2>1. CASE q = r
    BY <1>2, <2>1 DEF Wanted
  <2>2. CASE q # r
    <3>1. client'[q] = client[q] /\ result'[q] = result[q]
      BY <2>0, <2>2 DEF SameClient
    <3>2. Wanted(q) \/ result[q] = "dropped" \/ q \in told \/ "uid" \in faults.strayed
      BY EngineParts DEF OrphansExplained
    <3>3. Wanted(q) => Wanted(q)'
      BY <3>1 DEF Wanted, Untouched
    <3>. QED
      BY <1>1, <1>2, <3>1, <3>2, <3>3
  <2>. QED
    BY <2>1, <2>2
<1>5. TokensSafe'
  <2>. SUFFICES ASSUME StreamInterval = 1, NEW q \in Request, q \notin restarted
                PROVE  TokensOf(q)'
    BY <1>2 DEF TokensSafe
  <2>1. CASE q = r
    BY <2>1
  <2>2. CASE q # r
    <3>1. TokensOf(q) /\ SameClient(q)
      BY <2>2, EngineParts DEF TokensSafe
    <3>. QED
      BY <1>1, <1>2, <3>1, TokensKept
  <2>. QED
    BY <2>1, <2>2
<1>. QED
  BY <1>1, <1>3, <1>4, <1>5 DEF EngineInv

-----------------------------------------------------------------------------
(* The clients' coroutines                                                 *)

LEMMA TypedClient ==
  ASSUME EngineInv, NEW r \in Request, UNCHANGED <<loop, failed, histVars, arrived, requests>>,
         client'[r] \in {"done"} \cup Active, client' = [client EXCEPT ![r] = client'[r]],
         result'[r] \in {"none", "ok", "error", "cancelled", "dropped"},
         result' = [result EXCEPT ![r] = result'[r]],
         received'[r] \in Nat, received' = [received EXCEPT ![r] = received'[r]],
         sent'[r] \in 0 .. MaxTokens, sent' = [sent EXCEPT ![r] = sent'[r]],
         buffer'[r] \in {buffer[r], None}, buffer' = [buffer EXCEPT ![r] = buffer'[r]],
         collectors \ {r} \subseteq collectors', collectors' \subseteq collectors \cup {r},
         event' \subseteq event \cap collectors',
         buffer'[r] = None \/ r \notin collectors \/ r \in collectors',
         tasks' \in Seq(Task), IsInjective(tasks'),
         ToSet(tasks') \subseteq ToSet(tasks) \cup {AddTask(r)}
  PROVE  EngineTyped'
<1>1. EngineTyped
  BY EngineParts
<1>2. /\ client' \in [Request -> {"none", "done"} \cup Active]
      /\ result' \in [Request -> {"none", "ok", "error", "cancelled", "dropped"}]
      /\ received' \in [Request -> Nat] /\ sent' \in [Request -> 0 .. MaxTokens]
  <2>1. /\ client \in [Request -> {"none", "done"} \cup Active]
        /\ result \in [Request -> {"none", "ok", "error", "cancelled", "dropped"}]
        /\ received \in [Request -> Nat] /\ sent \in [Request -> 0 .. MaxTokens]
    BY <1>1 DEF EngineTyped
  <2>2. client' \in [Request -> {"none", "done"} \cup Active]
    BY <2>1
  <2>3. result' \in [Request -> {"none", "ok", "error", "cancelled", "dropped"}]
    BY <2>1
  <2>4. received' \in [Request -> Nat] /\ sent' \in [Request -> 0 .. MaxTokens]
    BY <2>1
  <2>. QED
    BY <2>2, <2>3, <2>4
<1>3. /\ collectors' \subseteq Request /\ event' \subseteq collectors'
      /\ buffer' \in [Request -> Collected \cup {None}]
      /\ \A q \in Request : buffer'[q] # None => buffer'[q].rid = q /\ q \in collectors'
  <2>1. /\ collectors \subseteq Request /\ buffer \in [Request -> Collected \cup {None}]
        /\ \A q \in Request : buffer[q] # None => buffer[q].rid = q /\ q \in collectors
    BY <1>1 DEF EngineTyped
  <2>2. \A q \in Request : q # r => buffer'[q] = buffer[q]
    BY <2>1
  <2>3. buffer' \in [Request -> Collected \cup {None}]
    BY <2>1
  <2>. QED
    BY <2>1, <2>2, <2>3
<1>4. /\ StepTask \in ToSet(tasks') => loop' = "stepping"
      /\ FailTask \in ToSet(tasks') => loop' = "failing"
  <2>1. StepTask # AddTask(r) /\ FailTask # AddTask(r)
    BY TaskNames
  <2>2. loop' = loop
    OBVIOUS
  <2>3. /\ StepTask \in ToSet(tasks) => loop = "stepping"
        /\ FailTask \in ToSet(tasks) => loop = "failing"
    BY <1>1 DEF EngineTyped
  <2>. QED
    BY <2>1, <2>2, <2>3
<1>5. StepTask' = StepTask /\ FailTask' = FailTask
  BY DEF StepTask, FailTask
<1>. QED
  BY <1>1, <1>2, <1>3, <1>4, <1>5 DEF EngineTyped, histVars, Task, Active, Collected, AddTask

LEMMA AddedClient ==
  ASSUME EngineInv, NEW r \in Request, ClientAdd(r)
  PROVE  EngineInv'
<1>1. Untouched /\ UNCHANGED <<loop, failed, histVars, arrived, requests>>
  BY CoreTyped, EngineParts DEF ClientAdd, Untouched, schedVars
<1>2. ClientOf(r) /\ SignalsOf(r) /\ EngineTyped /\ tasks \in Seq(Task) /\ IsInjective(tasks)
  BY EngineParts DEF EngineTyped, Task
<1>3. AddTask(r) \notin ToSet(tasks)
  BY <1>2 DEF ClientAdd, ClientOf, Active
<1>4. tasks' = Append(tasks, AddTask(r)) /\ AddTask(r) \in Task
  BY DEF ClientAdd, Task
<1>5. tasks' \in Seq(Task) /\ IsInjective(tasks') /\ ToSet(tasks') = ToSet(tasks) \cup {AddTask(r)}
  BY <1>2, <1>3, <1>4, AppendNew
<1>6. /\ client'[r] = "adding" /\ client' = [client EXCEPT ![r] = client'[r]]
      /\ r \in collectors' /\ collectors' = collectors \cup {r}
      /\ UNCHANGED <<result, received, buffer, event, sent>>
      /\ client[r] = "none"
  BY <1>2 DEF ClientAdd, EngineTyped
<1>7. EngineTyped'
  <2>1. /\ result[r] \in {"none", "ok", "error", "cancelled", "dropped"}
        /\ received[r] \in Nat /\ sent[r] \in 0 .. MaxTokens
        /\ result = [result EXCEPT ![r] = result[r]] /\ sent = [sent EXCEPT ![r] = sent[r]]
        /\ received = [received EXCEPT ![r] = received[r]]
        /\ buffer = [buffer EXCEPT ![r] = buffer[r]]
    BY <1>2 DEF EngineTyped
  <2>2. client'[r] \in {"done"} \cup Active
    BY <1>6 DEF Active
  <2>3. collectors \ {r} \subseteq collectors' /\ collectors' \subseteq collectors \cup {r}
        /\ event' \subseteq event \cap collectors'
        /\ (buffer'[r] = None \/ r \notin collectors \/ r \in collectors')
    BY <1>2, <1>6 DEF EngineTyped
  <2>. QED
    BY <1>1, <1>5, <1>6, <2>1, <2>2, <2>3, TypedClient
<1>8. Undelivered' = Undelivered /\ Left(r)' = Left(r) /\ told' = told /\ output_len' = output_len
  BY <1>1 DEF Untouched, Undelivered, histVars, Left, reqVars
<1>9. ClientOf(r)'
  BY <1>1, <1>2, <1>6, <1>8 DEF ClientOf, Active
<1>10. SignalsOf(r)'
  BY <1>2, <1>6, <1>8 DEF SignalsOf, Has, ClientOf, Active, EngineTyped
<1>11. StreamInterval = 1 /\ r \notin restarted => TokensOf(r)'
  BY <1>2, <1>6, <1>8, EngineParts DEF TokensOf, TokensSafe, Has, Buffered
<1>12. ASSUME NEW q \in Request \ {r}
       PROVE  SameClient(q) /\ (AddTask(q) \in ToSet(tasks)' => AddTask(q) \in ToSet(tasks))
  BY <1>1, <1>2, <1>5, <1>6, <1>8, TaskNames DEF SameClient, EngineTyped
<1>. QED
  BY <1>1, <1>6, <1>7, <1>9, <1>10, <1>11, <1>12, OneClient DEF Active

LEMMA AttachedClient ==
  ASSUME EngineInv, NEW r \in Request, ClientAttach(r)
  PROVE  EngineInv'
<1>1. Untouched /\ UNCHANGED <<loop, failed, histVars, arrived, requests>>
  BY CoreTyped, EngineParts DEF ClientAttach, Untouched, schedVars, loopVars
<1>2. ClientOf(r) /\ SignalsOf(r) /\ EngineTyped /\ tasks \in Seq(Task) /\ IsInjective(tasks)
  BY EngineParts DEF EngineTyped, Task
<1>3. /\ client'[r] \in {"streaming", "waiting"} /\ client' = [client EXCEPT ![r] = client'[r]]
      /\ UNCHANGED <<result, received, buffer, event, sent, collectors, tasks>>
      /\ client[r] = "adding" /\ AddTask(r) \notin ToSet(tasks)
  BY <1>2 DEF ClientAttach, EngineTyped, loopVars
<1>4. EngineTyped'
  <2>1. /\ result[r] \in {"none", "ok", "error", "cancelled", "dropped"}
        /\ received[r] \in Nat /\ sent[r] \in 0 .. MaxTokens
        /\ result = [result EXCEPT ![r] = result[r]] /\ sent = [sent EXCEPT ![r] = sent[r]]
        /\ received = [received EXCEPT ![r] = received[r]]
        /\ buffer = [buffer EXCEPT ![r] = buffer[r]]
    BY <1>2 DEF EngineTyped
  <2>2. client'[r] \in {"done"} \cup Active
    BY <1>3 DEF Active
  <2>3. collectors \ {r} \subseteq collectors' /\ collectors' \subseteq collectors \cup {r}
        /\ event' \subseteq event \cap collectors'
        /\ (buffer'[r] = None \/ r \notin collectors \/ r \in collectors')
    BY <1>2, <1>3 DEF EngineTyped
  <2>. QED
    BY <1>1, <1>2, <1>3, <2>1, <2>2, <2>3, TypedClient
<1>5. Undelivered' = Undelivered /\ Left(r)' = Left(r) /\ told' = told /\ output_len' = output_len
  BY <1>1 DEF Untouched, Undelivered, histVars, Left, reqVars
<1>6. ClientOf(r)'
  BY <1>1, <1>2, <1>3, <1>5 DEF ClientOf, Active, AddTask
<1>7. SignalsOf(r)'
  BY <1>2, <1>3, <1>5 DEF SignalsOf, Has, ClientOf, Active
<1>8. StreamInterval = 1 /\ r \notin restarted => TokensOf(r)'
  BY <1>2, <1>3, <1>5, EngineParts DEF TokensOf, TokensSafe, Has, Buffered
<1>9. ASSUME NEW q \in Request \ {r}
      PROVE  SameClient(q) /\ (AddTask(q) \in ToSet(tasks)' => AddTask(q) \in ToSet(tasks))
  BY <1>1, <1>2, <1>3, <1>5 DEF SameClient, EngineTyped
<1>. QED
  BY <1>1, <1>3, <1>4, <1>6, <1>7, <1>8, <1>9, OneClient DEF Active

\* The outputs for a reader that is there: with the last one it is done.
LEMMA StreamReads ==
  ASSUME EngineInv, NEW r \in Request, StreamRead(r)
  PROVE  EngineInv'
<1>1. Untouched /\ UNCHANGED <<loop, failed, tasks, histVars, arrived, requests>>
  <2>1. UNCHANGED schedVars \/ AbortRequest(r)
    BY DEF StreamRead
  <2>2. pending \subseteq Request
    BY CoreTyped, EngineParts
  <2>. QED
    BY <2>1, <2>2 DEF StreamRead, Untouched, AbortRequest, schedVars, loopVars
<1>2. ClientOf(r) /\ SignalsOf(r) /\ EngineTyped /\ tasks \in Seq(Task) /\ IsInjective(tasks)
  BY EngineParts DEF EngineTyped, Task
<1>3. /\ client[r] = "streaming" /\ Has(r) /\ buffer[r] \in Collected
      /\ buffer[r].new \in Nat /\ received[r] \in Nat
      /\ received'[r] = received[r] + buffer[r].new
      /\ received' = [received EXCEPT ![r] = received'[r]]
  BY <1>2 DEF StreamRead, EngineTyped, Has, Collected
<1>4. Undelivered' = Undelivered /\ Left(r)' = Left(r) /\ told' = told /\ output_len' = output_len
  BY <1>1 DEF Untouched, Undelivered, histVars, Left, reqVars
<1>5. /\ buffer'[r] = None /\ buffer' = [buffer EXCEPT ![r] = buffer'[r]]
      /\ \/ /\ ~(buffer[r].error \/ buffer[r].finished)
            /\ UNCHANGED <<client, result, collectors, event, sent, pending>>
         \/ /\ buffer[r].error \/ buffer[r].finished
            /\ client'[r] = "done" /\ client' = [client EXCEPT ![r] = client'[r]]
            /\ result'[r] = (IF buffer[r].error THEN "error" ELSE "ok")
            /\ result' = [result EXCEPT ![r] = result'[r]]
            /\ collectors' = collectors \ {r} /\ event' = event \ {r}
            /\ sent'[r] = 0 /\ sent' = [sent EXCEPT ![r] = sent'[r]]
            /\ buffer[r].finished \/ r \in pending'
  BY <1>2 DEF StreamRead, EngineTyped, Ends, Cleanup, AbortRequest, schedVars
<1>6. EngineTyped'
  <2>1. /\ result'[r] \in {"none", "ok", "error", "cancelled", "dropped"}
        /\ received'[r] \in Nat /\ sent'[r] \in 0 .. MaxTokens
        /\ result' = [result EXCEPT ![r] = result'[r]] /\ sent' = [sent EXCEPT ![r] = sent'[r]]
        /\ client' = [client EXCEPT ![r] = client'[r]]
    <3>1. MaxTokens \in Nat
      BY SchedulerAssumption
    <3>. QED
      BY <1>2, <1>3, <1>5, <3>1 DEF EngineTyped
  <2>2. client'[r] \in {"done"} \cup Active
    BY <1>3, <1>5 DEF Active
  <2>3. collectors \ {r} \subseteq collectors' /\ collectors' \subseteq collectors \cup {r}
        /\ event' \subseteq event \cap collectors'
        /\ (buffer'[r] = None \/ r \notin collectors \/ r \in collectors')
    BY <1>2, <1>5 DEF EngineTyped
  <2>. QED
    BY <1>1, <1>2, <1>3, <1>5, <2>1, <2>2, <2>3, TypedClient
<1>7. ClientOf(r)'
  BY <1>1, <1>2, <1>3, <1>4, <1>5 DEF ClientOf, Active, AddTask
<1>8. SignalsOf(r)'
  <2>1. CASE ~(buffer[r].error \/ buffer[r].finished)
    <3>1. client' = client /\ result' = result /\ event' = event
      BY <1>5, <2>1
    <3>2. r \notin told
      BY <1>2, <1>3, <2>1 DEF SignalsOf
    <3>. QED
      BY <1>2, <1>3, <1>4, <1>5, <3>1, <3>2 DEF SignalsOf, Has
  <2>2. CASE buffer[r].error \/ buffer[r].finished
    <3>1. client'[r] = "done" /\ r \notin event'
          /\ result'[r] = (IF buffer[r].error THEN "error" ELSE "ok")
      BY <1>5, <2>2
    <3>2. r \in told => buffer[r].error
      BY <1>2, <1>3 DEF SignalsOf
    <3>. QED
      BY <1>2, <1>4, <1>5, <3>1, <3>2 DEF SignalsOf, Has
  <2>. QED
    BY <2>1, <2>2
<1>9. ASSUME StreamInterval = 1, r \notin restarted PROVE TokensOf(r)'
  <2>1. TokensOf(r)
    BY <1>9, EngineParts DEF TokensSafe
  <2>2. Buffered(r) = buffer[r].new /\ Buffered(r)' = 0
    BY <1>3, <1>5 DEF Buffered, Has
  <2>3. received'[r] + 0 = received[r] + Buffered(r) /\ received'[r] \in Nat
    BY <1>3, <2>2
  <2>4. client'[r] # "done" => client[r] # "done"
    BY <1>3
  <2>5. result'[r] = "ok" => Left(r)' /\ received'[r] = output_len'[r]
    <3>1. SUFFICES ASSUME result'[r] = "ok" PROVE Left(r) /\ received'[r] = output_len[r]
      BY <1>4
    <3>2. buffer[r].finished /\ ~buffer[r].error
      BY <1>2, <1>3, <1>5, <3>1 DEF ClientOf
    <3>3. Left(r) /\ \A o \in Undelivered : o.rid # r
      BY <1>2, <1>3, <3>2 DEF SignalsOf
    <3>4. output_len[r] = received[r] + Buffered(r)
      BY <1>3, <2>1, <3>3 DEF TokensOf
    <3>. QED
      BY <2>3, <3>3, <3>4
  <2>6. \A o \in Undelivered : o.rid = r => o.new \in Nat
    BY EngineParts, CoreTyped DEF Outputs
  <2>. QED
    BY <1>3, <1>4, <2>1, <2>2, <2>3, <2>4, <2>5, <2>6 DEF TokensOf
<1>10. ASSUME NEW q \in Request \ {r}
       PROVE  SameClient(q) /\ (AddTask(q) \in ToSet(tasks)' => AddTask(q) \in ToSet(tasks))
  <2>1. client'[q] = client[q] /\ result'[q] = result[q] /\ (q \in event' <=> q \in event)
        /\ (q \in collectors' <=> q \in collectors)
    BY <1>2, <1>5 DEF EngineTyped
  <2>2. received'[q] = received[q] /\ buffer'[q] = buffer[q]
    BY <1>2, <1>3, <1>5 DEF EngineTyped
  <2>. QED
    BY <1>1, <1>4, <2>1, <2>2 DEF SameClient
<1>11. r \in requests => client'[r] \in Active \/ r \in pending' \/ result'[r] = "dropped" \/ r \in told
  <2>1. CASE client' = client
    BY <1>3, <2>1 DEF Active
  <2>2. CASE buffer[r].finished
    BY <1>2, <1>3, <2>2 DEF SignalsOf, ClientOf, Left
  <2>. QED
    BY <1>5, <2>1, <2>2
<1>. QED
  BY <1>1, <1>6, <1>7, <1>8, <1>9, <1>10, <1>11, OneClient

\* The collector holds everything in one output.
LEMMA GenerateReturns ==
  ASSUME EngineInv, NEW r \in Request, GenerateReturn(r)
  PROVE  EngineInv'
<1>1. Untouched /\ UNCHANGED <<loop, failed, tasks, histVars, arrived, requests>>
  BY CoreTyped, EngineParts DEF GenerateReturn, Untouched, schedVars, loopVars
<1>2. ClientOf(r) /\ SignalsOf(r) /\ EngineTyped /\ tasks \in Seq(Task) /\ IsInjective(tasks)
  BY EngineParts DEF EngineTyped, Task
<1>3. client[r] = "waiting" /\ r \in event
  BY DEF GenerateReturn
<1>4. /\ Has(r) /\ (buffer[r].finished \/ buffer[r].error) /\ received[r] = 0
      /\ result[r] = "none"
  BY <1>2, <1>3 DEF SignalsOf, ClientOf
<1>5. buffer[r] \in Collected /\ buffer[r].new \in Nat
  BY <1>2, <1>4 DEF EngineTyped, Has, Collected
<1>6. /\ received'[r] = buffer[r].new /\ received' = [received EXCEPT ![r] = received'[r]]
      /\ result'[r] = (IF buffer[r].error THEN "error" ELSE "ok")
      /\ result' = [result EXCEPT ![r] = result'[r]]
      /\ client'[r] = "done" /\ client' = [client EXCEPT ![r] = client'[r]]
      /\ buffer'[r] = None /\ buffer' = [buffer EXCEPT ![r] = buffer'[r]]
      /\ collectors' = collectors \ {r} /\ event' = event \ {r}
      /\ sent'[r] = 0 /\ sent' = [sent EXCEPT ![r] = sent'[r]]
  BY <1>2, <1>4 DEF GenerateReturn, EngineTyped, Ends, Cleanup, Has
<1>7. Undelivered' = Undelivered /\ Left(r)' = Left(r) /\ told' = told /\ output_len' = output_len
  BY <1>1 DEF Untouched, Undelivered, histVars, Left, reqVars
<1>8. EngineTyped'
  <2>1. /\ result'[r] \in {"none", "ok", "error", "cancelled", "dropped"}
        /\ received'[r] \in Nat /\ sent'[r] \in 0 .. MaxTokens
    BY <1>5, <1>6, SchedulerAssumption
  <2>2. client'[r] \in {"done"} \cup Active
    BY <1>6
  <2>3. /\ collectors \ {r} \subseteq collectors' /\ collectors' \subseteq collectors \cup {r}
        /\ event' \subseteq event \cap collectors'
        /\ (buffer'[r] = None \/ r \notin collectors \/ r \in collectors')
    BY <1>2, <1>6 DEF EngineTyped
  <2>. QED
    BY <1>1, <1>2, <1>6, <2>1, <2>2, <2>3, TypedClient
<1>9. ClientOf(r)'
  BY <1>1, <1>2, <1>3, <1>4, <1>6, <1>7 DEF ClientOf, Active, AddTask
<1>10. SignalsOf(r)'
  <2>1. r \in told => buffer[r].error
    BY <1>2, <1>3 DEF SignalsOf
  <2>. QED
    BY <1>2, <1>6, <1>7, <2>1 DEF SignalsOf, Has
<1>11. ASSUME StreamInterval = 1, r \notin restarted PROVE TokensOf(r)'
  <2>1. TokensOf(r)
    BY <1>11, EngineParts DEF TokensSafe
  <2>2. SUFFICES ASSUME result'[r] = "ok" PROVE Left(r) /\ received'[r] = output_len[r]
    BY <1>6, <1>7 DEF TokensOf
  <2>3. buffer[r].finished /\ ~buffer[r].error
    BY <1>4, <1>6, <2>2
  <2>4. Left(r) /\ \A o \in Undelivered : o.rid # r
    BY <1>2, <1>4, <2>3 DEF SignalsOf
  <2>5. output_len[r] = 0 + buffer[r].new
    BY <1>3, <1>4, <2>1, <2>4 DEF TokensOf, Buffered
  <2>. QED
    BY <1>5, <1>6, <2>4, <2>5
<1>12. ASSUME NEW q \in Request \ {r}
       PROVE  SameClient(q) /\ (AddTask(q) \in ToSet(tasks)' => AddTask(q) \in ToSet(tasks))
  BY <1>1, <1>2, <1>6, <1>7 DEF SameClient, EngineTyped
<1>13. r \in requests => r \in told
  BY <1>2, <1>3, <1>4 DEF SignalsOf, Left
<1>. QED
  BY <1>1, <1>8, <1>9, <1>10, <1>11, <1>12, <1>13, OneClient

\* A client that leaves notes the abort.
LEMMA AttachedCancels ==
  ASSUME EngineInv, NEW r \in Request, CancelAttached(r)
  PROVE  EngineInv'
<1>1. /\ Untouched /\ UNCHANGED <<loop, failed, tasks, histVars, arrived, requests>>
      /\ r \in pending'
  BY CoreTyped, EngineParts DEF CancelAttached, AbortRequest, Untouched, loopVars
<1>2. ClientOf(r) /\ SignalsOf(r) /\ EngineTyped /\ tasks \in Seq(Task) /\ IsInjective(tasks)
  BY EngineParts DEF EngineTyped, Task
<1>3. /\ received' = received
      /\ result'[r] = "cancelled" /\ result' = [result EXCEPT ![r] = result'[r]]
      /\ client'[r] = "done" /\ client' = [client EXCEPT ![r] = client'[r]]
      /\ buffer'[r] = None /\ buffer' = [buffer EXCEPT ![r] = buffer'[r]]
      /\ collectors' = collectors \ {r} /\ event' = event \ {r}
      /\ sent'[r] = 0 /\ sent' = [sent EXCEPT ![r] = sent'[r]]
      /\ client[r] \in {"streaming", "waiting"} /\ result[r] = "none"
  BY <1>2 DEF CancelAttached, EngineTyped, Ends, Cleanup, ClientOf
<1>4. Undelivered' = Undelivered /\ Left(r)' = Left(r) /\ told' = told /\ output_len' = output_len
  BY <1>1 DEF Untouched, Undelivered, histVars, Left, reqVars
<1>5. EngineTyped'
  <2>1. /\ received[r] \in Nat /\ sent'[r] \in 0 .. MaxTokens
        /\ received = [received EXCEPT ![r] = received[r]]
    BY <1>2, <1>3, SchedulerAssumption DEF EngineTyped
  <2>2. /\ client'[r] \in {"done"} \cup Active
        /\ result'[r] \in {"none", "ok", "error", "cancelled", "dropped"}
    BY <1>3
  <2>3. /\ collectors \ {r} \subseteq collectors' /\ collectors' \subseteq collectors \cup {r}
        /\ event' \subseteq event \cap collectors'
        /\ (buffer'[r] = None \/ r \notin collectors \/ r \in collectors')
    BY <1>2, <1>3 DEF EngineTyped
  <2>. QED
    BY <1>1, <1>2, <1>3, <2>1, <2>2, <2>3, TypedClient
<1>6. ClientOf(r)'
  BY <1>1, <1>2, <1>3, <1>4 DEF ClientOf, Active, AddTask
<1>7. SignalsOf(r)'
  BY <1>2, <1>3, <1>4 DEF SignalsOf, Has
<1>8. TokensOf(r)'
  BY <1>3 DEF TokensOf
<1>9. ASSUME NEW q \in Request \ {r}
      PROVE  SameClient(q) /\ (AddTask(q) \in ToSet(tasks)' => AddTask(q) \in ToSet(tasks))
  BY <1>1, <1>2, <1>3, <1>4 DEF SameClient, EngineTyped
<1>. QED
  BY <1>1, <1>5, <1>6, <1>7, <1>8, <1>9, OneClient

\* A client that leaves during the await of add_request leaves its collector.
LEMMA AddingCancels ==
  ASSUME EngineInv, NEW r \in Request, CancelAdding(r)
  PROVE  EngineInv'
<1>1. Untouched /\ UNCHANGED <<loop, failed, histVars, arrived, requests>>
  BY CoreTyped, EngineParts DEF CancelAdding, Untouched, schedVars
<1>2. ClientOf(r) /\ SignalsOf(r) /\ EngineTyped /\ tasks \in Seq(Task) /\ IsInjective(tasks)
  BY EngineParts DEF EngineTyped, Task
<1>3. /\ UNCHANGED <<received, buffer, event, sent, collectors>>
      /\ result'[r] = "dropped" /\ result' = [result EXCEPT ![r] = result'[r]]
      /\ client'[r] = "done" /\ client' = [client EXCEPT ![r] = client'[r]]
      /\ client[r] = "adding" /\ result[r] = "none"
  BY <1>2 DEF CancelAdding, EngineTyped, Ends, ClientOf
<1>4. tasks' \in Seq(Task) /\ IsInjective(tasks') /\ ToSet(tasks') \subseteq ToSet(tasks)
  <2>1. Without(tasks, {AddTask(r)}) \in Seq(Task) /\ IsInjective(Without(tasks, {AddTask(r)}))
        /\ ToSet(Without(tasks, {AddTask(r)})) \subseteq ToSet(tasks)
    BY <1>2, Stays
  <2>. QED
    BY <1>2, <2>1 DEF CancelAdding
<1>5. Undelivered' = Undelivered /\ Left(r)' = Left(r) /\ told' = told /\ output_len' = output_len
  BY <1>1 DEF Untouched, Undelivered, histVars, Left, reqVars
<1>6. EngineTyped'
  <2>1. /\ received[r] \in Nat /\ sent[r] \in 0 .. MaxTokens
        /\ received = [received EXCEPT ![r] = received[r]]
        /\ buffer = [buffer EXCEPT ![r] = buffer[r]] /\ sent = [sent EXCEPT ![r] = sent[r]]
    BY <1>2 DEF EngineTyped
  <2>2. /\ client'[r] \in {"done"} \cup Active
        /\ result'[r] \in {"none", "ok", "error", "cancelled", "dropped"}
    BY <1>3
  <2>3. /\ collectors \ {r} \subseteq collectors' /\ collectors' \subseteq collectors \cup {r}
        /\ event' \subseteq event \cap collectors'
        /\ (buffer'[r] = None \/ r \notin collectors \/ r \in collectors')
    BY <1>2, <1>3 DEF EngineTyped
  <2>. QED
    BY <1>1, <1>3, <1>4, <2>1, <2>2, <2>3, TypedClient
<1>7. ClientOf(r)'
  BY <1>1, <1>2, <1>3, <1>4, <1>5 DEF ClientOf, Active, AddTask
<1>8. SignalsOf(r)'
  BY <1>2, <1>3, <1>5 DEF SignalsOf, Has
<1>9. TokensOf(r)'
  BY <1>3 DEF TokensOf
<1>10. ASSUME NEW q \in Request \ {r}
       PROVE  SameClient(q) /\ (AddTask(q) \in ToSet(tasks)' => AddTask(q) \in ToSet(tasks))
  BY <1>1, <1>2, <1>3, <1>4, <1>5 DEF SameClient, EngineTyped
<1>. QED
  BY <1>1, <1>3, <1>6, <1>7, <1>8, <1>9, <1>10, OneClient

-----------------------------------------------------------------------------
(* The event loop: what is put into the collectors                         *)

Joined(b, o) == IF b = None THEN o ELSE Merged(b, o)

LEMMA Joins ==
  ASSUME NEW b \in Collected \cup {None}, NEW o \in Collected
  PROVE  /\ Joined(b, o) \in Collected /\ Joined(b, o) # None
         /\ Joined(b, o).rid = o.rid /\ Joined(b, o).finished = o.finished
         /\ Joined(b, o).error <=> o.error \/ (b # None /\ b.error)
         /\ Joined(b, o).new = (IF b = None THEN 0 ELSE b.new) + o.new
<1>1. None \notin Collected
  BY EngineAssumption DEF Collected
<1>2. CASE b = None
  <2>1. Joined(b, o) = o
    BY <1>2 DEF Joined
  <2>2. o.new \in Nat /\ o # None
    BY <1>1 DEF Collected
  <2>. QED
    BY <1>2, <2>1, <2>2
<1>3. CASE b # None
  <2>1. Joined(b, o) = [o EXCEPT !.new = b.new + o.new, !.error = o.error \/ b.error]
    BY <1>3 DEF Joined, Merged
  <2>2. b \in Collected /\ b.new \in Nat /\ o.new \in Nat /\ b.error \in BOOLEAN /\ o.error \in BOOLEAN
    BY <1>3 DEF Collected
  <2>3. /\ Joined(b, o) \in Collected
        /\ Joined(b, o).rid = o.rid /\ Joined(b, o).finished = o.finished
        /\ Joined(b, o).error = (o.error \/ b.error) /\ Joined(b, o).new = b.new + o.new
    <3>1. PICK n \in Nat, e \in BOOLEAN : n = b.new + o.new /\ e = (o.error \/ b.error)
      BY <2>2
    <3>2. Joined(b, o) = [o EXCEPT !.new = n, !.error = e]
      BY <2>1, <3>1
    <3>3. /\ [o EXCEPT !.new = n, !.error = e] \in Collected
          /\ [o EXCEPT !.new = n, !.error = e].rid = o.rid
          /\ [o EXCEPT !.new = n, !.error = e].finished = o.finished
          /\ [o EXCEPT !.new = n, !.error = e].error = e
          /\ [o EXCEPT !.new = n, !.error = e].new = n
      BY DEF Collected
    <3>. QED
      BY <3>1, <3>2, <3>3, Zenon
  <2>. QED
    BY <1>1, <1>3, <2>3
<1>. QED
  BY <1>2, <1>3

\* Each collector that an output is for has it, joined to what it held.
LEMMA PutOne ==
  ASSUME EngineTyped, NEW outs, Put(outs), NEW r \in Request,
         \A o, p \in outs : o.rid = p.rid => o = p
  PROVE  \/ buffer'[r] = buffer[r] /\ (r \notin collectors \/ \A o \in outs : o.rid # r)
         \/ r \in collectors /\ \E o \in outs : o.rid = r /\ buffer'[r] = Joined(buffer[r], o)
<1>1. CASE r \in collectors /\ \E o \in outs : o.rid = r
  <2>1. PICK o \in outs : o.rid = r
    BY <1>1
  <2>2. (CHOOSE p \in outs : p.rid = r) = o
    BY <2>1
  <2>3. buffer'[r] = Joined(buffer[r], o)
    BY <1>1, <2>2 DEF Put, Joined
  <2>. QED
    BY <1>1, <2>1, <2>3
<1>2. CASE ~(r \in collectors /\ \E o \in outs : o.rid = r)
  BY <1>2 DEF Put
<1>. QED
  BY <1>1, <1>2

LEMMA PutTyped ==
  ASSUME EngineTyped, NEW outs \in SUBSET Collected, Put(outs),
         \A o, p \in outs : o.rid = p.rid => o = p
  PROVE  /\ buffer' \in [Request -> Collected \cup {None}]
         /\ \A r \in Request : buffer'[r] # None => buffer'[r].rid = r /\ r \in collectors
<1>1. ASSUME NEW r \in Request
      PROVE  /\ buffer'[r] \in Collected \cup {None}
             /\ buffer'[r] # None => buffer'[r].rid = r /\ r \in collectors
  <2>1. /\ buffer[r] \in Collected \cup {None}
        /\ buffer[r] # None => buffer[r].rid = r /\ r \in collectors
    BY DEF EngineTyped
  <2>2. CASE buffer'[r] = buffer[r]
    BY <2>1, <2>2
  <2>3. ASSUME NEW o \in outs, r \in collectors, o.rid = r, buffer'[r] = Joined(buffer[r], o)
        PROVE  /\ buffer'[r] \in Collected \cup {None}
               /\ buffer'[r] # None => buffer'[r].rid = r /\ r \in collectors
    BY <2>1, <2>3, Joins
  <2>. QED
    BY <2>2, <2>3, PutOne
<1>2. \E f : buffer' = [r \in Request |-> f[r]]
  <2>1. buffer' = [r \in Request |-> buffer'[r]]
    BY DEF Put
  <2>. QED
    BY <2>1
<1>. QED
  BY <1>1, <1>2

\* The loop only sends.
LEMMA LoopSends ==
  ASSUME EngineInv, Untouched, EngineTyped', told \subseteq told',
         UNCHANGED <<client, result, received, collectors, tasks, restarted>>,
         \A q \in told' : client[q] # "none" \/ q \in told,
         \A q \in Request : SignalsOf(q)',
         StreamInterval = 1 => \A q \in Request \ restarted : TokensOf(q)'
  PROVE  EngineInv'
<1>1. /\ CoreInv' /\ arrived' = arrived /\ requests' = requests
      /\ output' = output /\ faults' = faults
  BY UntouchedCore, EngineParts
<1>2. ASSUME NEW q \in Request PROVE ClientOf(q)'
  BY <1>1, EngineParts DEF ClientOf, Active, AddTask
<1>3. OrphansExplained'
  <2>. SUFFICES ASSUME NEW q \in requests
                PROVE  \/ Wanted(q)' \/ result'[q] = "dropped" \/ q \in told'
                       \/ "uid" \in faults'.strayed
    BY <1>1 DEF OrphansExplained
  <2>1. Wanted(q) \/ result[q] = "dropped" \/ q \in told \/ "uid" \in faults.strayed
    BY EngineParts DEF OrphansExplained
  <2>2. Wanted(q) => Wanted(q)'
    BY DEF Wanted, Untouched
  <2>. QED
    BY <1>1, <2>1, <2>2
<1>4. TokensSafe'
  BY DEF TokensSafe
<1>. QED
  BY <1>1, <1>2, <1>3, <1>4 DEF EngineInv

\* One AbortOutput for each request of a set.
LEMMA AbortOutputs ==
  ASSUME NEW S \in SUBSET Request
  PROVE  LET outs == {AbortOutput(r) : r \in S}
         IN  /\ outs \in SUBSET Collected /\ \A o, p \in outs : o.rid = p.rid => o = p
             /\ \A o \in outs : o.rid \in S /\ o.new = 0 /\ o.finished /\ o.error
             /\ \A r \in S : \E o \in outs : o.rid = r
<1>. DEFINE outs == {AbortOutput(r) : r \in S}
<1>1. \A r \in S : AbortOutput(r) \in Collected /\ AbortOutput(r).rid = r
        /\ AbortOutput(r).new = 0 /\ AbortOutput(r).finished = TRUE /\ AbortOutput(r).error = TRUE
  BY DEF AbortOutput, Output, Collected
<1>2. \A o \in outs : o.rid \in S /\ o = AbortOutput(o.rid)
  BY <1>1
<1>. QED
  BY <1>1, <1>2

\* What an AbortOutput does to a collector.
LEMMA AbortPut ==
  ASSUME EngineTyped, NEW S \in SUBSET Request, Put({AbortOutput(r) : r \in S}), NEW q \in Request
  PROVE  /\ q \in S /\ q \in collectors =>
              Has(q)' /\ buffer'[q].finished /\ buffer'[q].error /\ Buffered(q)' = Buffered(q)
         /\ ~(q \in S /\ q \in collectors) => buffer'[q] = buffer[q]
<1>. DEFINE outs == {AbortOutput(r) : r \in S}
<1>1. /\ outs \in SUBSET Collected /\ \A o, p \in outs : o.rid = p.rid => o = p
      /\ \A o \in outs : o.rid \in S /\ o.new = 0 /\ o.finished /\ o.error
      /\ \A r \in S : \E o \in outs : o.rid = r
  BY AbortOutputs
<1>2. Put(outs)
  OBVIOUS
<1>. HIDE DEF outs
<1>3. buffer[q] \in Collected \cup {None}
  BY DEF EngineTyped
<1>4. \/ buffer'[q] = buffer[q] /\ (q \notin collectors \/ \A o \in outs : o.rid # q)
      \/ q \in collectors /\ \E o \in outs : o.rid = q /\ buffer'[q] = Joined(buffer[q], o)
  BY <1>1, <1>2, PutOne
<1>5. ASSUME NEW o \in outs, o.rid = q, buffer'[q] = Joined(buffer[q], o)
      PROVE  Has(q)' /\ buffer'[q].finished /\ buffer'[q].error /\ Buffered(q)' = Buffered(q)
  <2>1. /\ Joined(buffer[q], o) # None /\ Joined(buffer[q], o).finished = o.finished
        /\ Joined(buffer[q], o).error
        /\ Joined(buffer[q], o).new = (IF buffer[q] = None THEN 0 ELSE buffer[q].new) + o.new
    BY <1>1, <1>3, Joins, ZenonT(40)
  <2>2. (IF buffer[q] = None THEN 0 ELSE buffer[q].new) \in Nat /\ o.new = 0
    BY <1>1, <1>3 DEF Collected
  <2>. QED
    BY <1>1, <1>5, <2>1, <2>2 DEF Has, Buffered
<1>. QED
  BY <1>1, <1>4, <1>5

-----------------------------------------------------------------------------
(* The event loop                                                          *)

LEMMA AllAborted ==
  ASSUME EngineInv, AbortAllRequests
  PROVE  EngineInv'
<1>1. /\ EngineTyped /\ collectors \subseteq Request
      /\ Put({AbortOutput(r) : r \in collectors})
      /\ event' = event \cup collectors
      /\ told' = told \cup {r \in collectors : client[r] \in Active}
      /\ abortAlls' = abortAlls + 1 /\ abortAlls < MaxAbortAlls
      /\ UNCHANGED <<client, result, received, collectors, sent, tasks, loop, failed, restarted>>
      /\ output' = output /\ output_len' = output_len /\ UNCHANGED <<arrived, requests>>
  BY EngineParts DEF AbortAllRequests, EngineTyped, loopVars, reqVars
<1>2. Untouched
  BY <1>1, CoreTyped, EngineParts DEF AbortAllRequests, Untouched
<1>3. EngineTyped'
  <2>1. LET outs == {AbortOutput(r) : r \in collectors}
        IN  outs \in SUBSET Collected /\ \A o, p \in outs : o.rid = p.rid => o = p
    BY <1>1, AbortOutputs
  <2>2. /\ buffer' \in [Request -> Collected \cup {None}]
        /\ \A r \in Request : buffer'[r] # None => buffer'[r].rid = r /\ r \in collectors
    BY <1>1, <2>1, PutTyped
  <2>3. abortAlls' \in 0 .. MaxAbortAlls
    BY <1>1, EngineAssumption DEF EngineTyped
  <2>. QED
    BY <1>1, <2>2, <2>3 DEF EngineTyped, Active, Collected, StepTask, FailTask, AddTask
<1>4. Undelivered' = Undelivered /\ \A q \in Request : Left(q)' = Left(q)
  BY <1>1 DEF Undelivered, Left
<1>5. ASSUME NEW q \in Request
      PROVE  /\ q \in collectors =>
                  Has(q)' /\ buffer'[q].finished /\ buffer'[q].error /\ Buffered(q)' = Buffered(q)
             /\ q \notin collectors => buffer'[q] = buffer[q]
  BY <1>1, AbortPut
<1>6. ASSUME NEW q \in Request PROVE SignalsOf(q)'
  <2>1. SignalsOf(q) /\ ClientOf(q)
    BY EngineParts
  <2>2. CASE q \in collectors
    <3>1. client[q] \in Active => q \in told'
      BY <1>1, <2>2
    <3>2. q \in told' => client[q] \in Active \/ (client[q] = "done" /\ result[q] # "ok")
      BY <1>1, <2>1 DEF SignalsOf
    <3>3. client[q] \in Active \/ result[q] = "dropped"
      BY <2>1, <2>2 DEF ClientOf
    <3>4. Has(q)' /\ buffer'[q].finished /\ buffer'[q].error
      BY <1>5, <2>2
    <3>5. (\A o \in Undelivered : o.rid = q => (o.finished => Left(q))) /\ result' = result
          /\ client' = client /\ Undelivered' = Undelivered /\ Left(q)' = Left(q)
      BY <1>1, <1>4, <2>1 DEF SignalsOf
    <3>. QED
      BY <3>1, <3>2, <3>3, <3>4, <3>5 DEF SignalsOf
  <2>3. CASE q \notin collectors
    <3>1. buffer'[q] = buffer[q] /\ (q \in event' <=> q \in event) /\ (q \in told' <=> q \in told)
      BY <1>1, <1>5, <2>3
    <3>. QED
      BY <1>1, <1>4, <2>1, <3>1 DEF SignalsOf, Has
  <2>. QED
    BY <2>2, <2>3
<1>7. ASSUME StreamInterval = 1, NEW q \in Request \ restarted PROVE TokensOf(q)'
  <2>1. TokensOf(q) /\ Buffered(q)' = Buffered(q)
    BY <1>5, <1>7, EngineParts DEF TokensSafe, Buffered, Has
  <2>. QED
    BY <1>1, <1>4, <2>1 DEF TokensOf
<1>8. \A q \in told' : client[q] # "none" \/ q \in told
  BY <1>1 DEF Active
<1>. QED
  BY <1>1, <1>2, <1>3, <1>6, <1>7, <1>8, LoopSends

LEMMA Notified ==
  ASSUME EngineInv, LoopNotify
  PROVE  EngineInv'
<1>1. /\ EngineTyped /\ failed \subseteq Request /\ failed \subseteq arrived \ requests
      /\ loop = "notify" /\ loop' = "idle" /\ failed' = {}
      /\ Put({AbortOutput(r) : r \in failed})
      /\ event' = event \cup (failed \cap collectors)
      /\ UNCHANGED <<client, result, received, collectors, sent, tasks, told, restarted, abortAlls>>
      /\ output_len' = output_len /\ UNCHANGED <<arrived, requests>>
  BY CoreTyped, EngineParts DEF LoopNotify, EngineTyped, histVars, schedVars, reqVars
<1>2. Untouched
  BY <1>1, CoreTyped, EngineParts DEF LoopNotify, Untouched, schedVars
<1>3. EngineTyped'
  <2>1. LET outs == {AbortOutput(r) : r \in failed}
        IN  outs \in SUBSET Collected /\ \A o, p \in outs : o.rid = p.rid => o = p
    BY <1>1, AbortOutputs
  <2>2. /\ buffer' \in [Request -> Collected \cup {None}]
        /\ \A r \in Request : buffer'[r] # None => buffer'[r].rid = r /\ r \in collectors
    BY <1>1, <2>1, PutTyped
  <2>. QED
    BY <1>1, <2>2 DEF EngineTyped, Active, Collected, StepTask, FailTask, AddTask
<1>4. Undelivered' = {} /\ Undelivered = {} /\ \A q \in Request : Left(q)' = Left(q)
  BY <1>1 DEF Undelivered, Left
<1>5. ASSUME NEW q \in Request
      PROVE  /\ q \in failed /\ q \in collectors =>
                  Has(q)' /\ buffer'[q].finished /\ buffer'[q].error /\ Buffered(q)' = Buffered(q)
             /\ ~(q \in failed /\ q \in collectors) => buffer'[q] = buffer[q]
  BY <1>1, AbortPut
<1>6. ASSUME NEW q \in Request PROVE SignalsOf(q)'
  <2>1. SignalsOf(q) /\ told' = told
    BY <1>1, EngineParts
  <2>2. CASE q \in failed /\ q \in collectors
    <3>1. Left(q)
      BY <1>1, <2>2 DEF Left
    <3>2. Has(q)' /\ buffer'[q].finished /\ buffer'[q].error
      BY <1>5, <2>2
    <3>. QED
      BY <1>1, <1>4, <2>1, <3>1, <3>2 DEF SignalsOf
  <2>3. CASE ~(q \in failed /\ q \in collectors)
    <3>1. buffer'[q] = buffer[q] /\ (q \in event' <=> q \in event)
      BY <1>1, <1>5, <2>3
    <3>. QED
      BY <1>1, <1>4, <2>1, <3>1 DEF SignalsOf, Has
  <2>. QED
    BY <2>2, <2>3
<1>7. ASSUME StreamInterval = 1, NEW q \in Request \ restarted PROVE TokensOf(q)'
  <2>1. TokensOf(q) /\ Buffered(q)' = Buffered(q)
    BY <1>5, <1>7, EngineParts DEF TokensSafe, Buffered, Has
  <2>. QED
    BY <1>1, <1>4, <2>1 DEF TokensOf
<1>. QED
  BY <1>1, <1>2, <1>3, <1>6, <1>7, LoopSends

\* The outputs of a step that had no error.
LEMMA Delivered ==
  ASSUME EngineInv, LoopDeliver
  PROVE  EngineInv'
<1>. DEFINE out   == {o \in output.outputs : o.rid \in collectors}
            sends == {o \in out : ShouldSend(o)}
<1>1. /\ EngineTyped /\ loop = "deliver" /\ loop' = "idle"
      /\ Put(sends) /\ event' = event \cup FinishedIn(out)
      /\ sent' = [r \in Request |-> IF \E o \in out : o.rid = r /\ ShouldSend(o)
                                    THEN (CHOOSE o \in out : o.rid = r).total ELSE sent[r]]
      /\ UNCHANGED <<client, result, received, collectors, tasks, failed, told, restarted, abortAlls>>
      /\ output_len' = output_len /\ UNCHANGED <<arrived, requests>>
  BY CoreTyped, EngineParts DEF LoopDeliver, histVars, schedVars, reqVars
<1>2. Untouched
  BY <1>1, CoreTyped, EngineParts DEF LoopDeliver, Untouched, schedVars
<1>3. /\ out \subseteq Outputs /\ sends \subseteq out /\ Undelivered = output.outputs
      /\ \A o \in out : o.rid \in collectors /\ o.rid \in arrived
      /\ \A o, p \in out : o.rid = p.rid => o = p
      /\ \A o \in out : o.finished => o \in sends
      /\ StreamInterval = 1 => sends = out
  BY <1>1, CoreTyped, EngineParts DEF StepOutput, ShouldSend, Undelivered
<1>4. \A o \in output.outputs : o.rid \in collectors => o \in out
  OBVIOUS
<1>5. \A o \in out : o \in Undelivered
  BY <1>3
<1>6. out \subseteq Collected /\ \A o \in out : o.total \in 0 .. MaxTokens /\ o.rid \in Request
  <2>1. MaxTokens \in Nat
    BY SchedulerAssumption
  <2>. QED
    BY <1>3, <2>1 DEF Outputs, Collected
<1>. HIDE DEF out, sends
<1>7. \A q : q \in FinishedIn(out) <=> \E o \in out : o.rid = q /\ o.finished
  BY DEF FinishedIn
<1>8. EngineTyped'
  <2>1. sends \in SUBSET Collected /\ \A o, p \in sends : o.rid = p.rid => o = p
    BY <1>3, <1>6
  <2>2. /\ buffer' \in [Request -> Collected \cup {None}]
        /\ \A r \in Request : buffer'[r] # None => buffer'[r].rid = r /\ r \in collectors
    BY <1>1, <2>1, PutTyped
  <2>3. event' \subseteq collectors
    <3>1. \A q \in FinishedIn(out) : q \in collectors
      BY <1>3, <1>7
    <3>2. event \subseteq collectors
      BY <1>1 DEF EngineTyped
    <3>. QED
      BY <1>1, <3>1, <3>2
  <2>4. sent' \in [Request -> 0 .. MaxTokens]
    <3>1. ASSUME NEW r \in Request, \E o \in out : o.rid = r
          PROVE  (CHOOSE o \in out : o.rid = r).total \in 0 .. MaxTokens
      BY <1>6, <3>1
    <3>2. sent \in [Request -> 0 .. MaxTokens]
      BY <1>1 DEF EngineTyped
    <3>3. \A r \in Request : sent[r] \in 0 .. MaxTokens
      BY <3>2
    <3>. QED
      BY <1>1, <3>1, <3>3
  <2>. QED
    BY <1>1, <2>2, <2>3, <2>4 DEF EngineTyped, Active, Collected, StepTask, FailTask, AddTask
<1>9. Undelivered' = {} /\ \A q \in Request : Left(q)' = Left(q)
  BY <1>1 DEF Undelivered, Left
<1>10. ASSUME NEW q \in Request
       PROVE  \/ buffer'[q] = buffer[q] /\ (q \notin collectors \/ \A o \in sends : o.rid # q)
              \/ \E o \in sends :
                   /\ o.rid = q /\ Has(q)' /\ buffer'[q].finished = o.finished
                   /\ buffer'[q].error <=> o.error \/ (Has(q) /\ buffer[q].error)
                   /\ Buffered(q)' = Buffered(q) + o.new
  <2>1. CASE buffer'[q] = buffer[q] /\ (q \notin collectors \/ \A o \in sends : o.rid # q)
    BY <2>1
  <2>2. ASSUME NEW o \in sends, o.rid = q, buffer'[q] = Joined(buffer[q], o)
        PROVE  /\ Has(q)' /\ buffer'[q].finished = o.finished
               /\ buffer'[q].error <=> o.error \/ (Has(q) /\ buffer[q].error)
               /\ Buffered(q)' = Buffered(q) + o.new
    <3>1. buffer[q] \in Collected \cup {None} /\ o \in Collected
      BY <1>1, <1>3, <1>6 DEF EngineTyped
    <3>. QED
      BY <2>2, <3>1, Joins DEF Has, Buffered
  <2>3. \A o, p \in sends : o.rid = p.rid => o = p
    BY <1>3
  <2>. QED
    BY <1>1, <2>1, <2>2, <2>3, PutOne
<1>11. ASSUME NEW q \in Request PROVE SignalsOf(q)'
  <2>1. SignalsOf(q)
    BY EngineParts
  <2>2. CASE \E o \in out : o.rid = q /\ o \in sends
    <3>1. PICK o \in sends :
            /\ o.rid = q /\ Has(q)' /\ buffer'[q].finished = o.finished
            /\ buffer'[q].error <=> o.error \/ (Has(q) /\ buffer[q].error)
      BY <1>3, <1>10, <2>2
    <3>2. o.finished => Left(q)
      BY <1>3, <1>5, <2>1, <3>1 DEF SignalsOf
    <3>3. ~(Has(q) /\ buffer[q].finished /\ ~buffer[q].error)
      BY <1>3, <1>5, <2>1, <3>1 DEF SignalsOf
    <3>4. q \in event' => q \in event \/ o.finished
      BY <1>1, <1>3, <1>7, <3>1
    <3>. QED
      BY <1>1, <1>9, <2>1, <3>1, <3>2, <3>3, <3>4 DEF SignalsOf
  <2>3. CASE \A o \in sends : o.rid # q
    <3>1. buffer'[q] = buffer[q]
      BY <1>10, <2>3
    <3>2. q \in event' <=> q \in event
      BY <1>1, <1>3, <1>7, <2>3
    <3>. QED
      BY <1>1, <1>9, <2>1, <3>1, <3>2 DEF SignalsOf, Has
  <2>. QED
    BY <1>3, <2>2, <2>3
<1>12. ASSUME StreamInterval = 1, NEW q \in Request \ restarted PROVE TokensOf(q)'
  <2>1. TokensOf(q) /\ sends = out /\ ClientOf(q)
    BY <1>3, <1>12, EngineParts DEF TokensSafe
  <2>2. SUFFICES ASSUME client[q] # "done" PROVE output_len[q] = received[q] + Buffered(q)'
    BY <1>1, <1>9, <2>1 DEF TokensOf
  <2>3. CASE \A o \in Undelivered : o.rid # q
    <3>1. buffer'[q] = buffer[q]
      BY <1>5, <1>10, <2>1, <2>3
    <3>. QED
      BY <2>1, <2>2, <2>3, <3>1 DEF TokensOf, Buffered, Has
  <2>4. ASSUME NEW p \in Undelivered, p.rid = q PROVE output_len[q] = received[q] + Buffered(q)'
    <3>1. q \in arrived
      BY <2>4, EngineParts
    <3>2. q \in collectors
      BY <1>1, <2>1, <2>2, <3>1 DEF ClientOf, EngineTyped
    <3>3. p \in out
      BY <1>3, <1>4, <2>4, <3>2
    <3>4. Buffered(q)' = Buffered(q) + p.new
      BY <1>3, <1>10, <2>1, <2>4, <3>2, <3>3
    <3>5. output_len[q] = received[q] + Buffered(q) + p.new
      BY <2>1, <2>2, <2>4 DEF TokensOf
    <3>6. received[q] \in Nat /\ Buffered(q) \in Nat /\ p.new \in Nat
      BY <1>1, <1>6, <3>3 DEF EngineTyped, Buffered, Has, Collected
    <3>. QED
      BY <3>4, <3>5, <3>6
  <2>. QED
    BY <2>3, <2>4
<1>. QED
  BY <1>1, <1>2, <1>8, <1>11, <1>12, LoopSends

-----------------------------------------------------------------------------
(* The loop's submissions and the executor: no client moves                *)

LEMMA ClientsKept ==
  ASSUME EngineInv, CoreInv', EngineTyped', UNCHANGED <<clientVars, told>>,
         restarted \subseteq restarted',
         "uid" \in faults.strayed => "uid" \in faults'.strayed,
         \A q \in pending : q \in pending' \/ q \notin requests' \/ "uid" \in faults'.strayed,
         \A q \in requests' :
           q \in requests \/ client[q] \in Active \/ result[q] = "dropped" \/ q \in told,
         \A q \in Request :
           /\ q \in arrived' => q \in arrived \/ client[q] # "none"
           /\ AddTask(q) \in ToSet(tasks)' => AddTask(q) \in ToSet(tasks) /\ q \notin arrived'
           /\ Left(q) => Left(q)'
           /\ \A o \in Undelivered' : o.rid = q =>
                (o.finished => Left(q)') /\ ~(Has(q) /\ buffer[q].finished /\ ~buffer[q].error),
         StreamInterval = 1 => \A q \in Request \ restarted' : TokensOf(q)'
  PROVE  EngineInv'
<1>1. ASSUME NEW q \in Request PROVE SameClient(q) /\ ClientOf(q) /\ SignalsOf(q)
  BY EngineParts DEF SameClient, clientVars
<1>2. ASSUME NEW q \in Request PROVE ClientOf(q)'
  BY <1>1, ClientKept
<1>3. ASSUME NEW q \in Request PROVE SignalsOf(q)'
  BY <1>1, SignalsKept
<1>4. OrphansExplained'
  <2>. SUFFICES ASSUME NEW q \in requests'
                PROVE  \/ Wanted(q)' \/ result'[q] = "dropped" \/ q \in told'
                       \/ "uid" \in faults'.strayed
    BY DEF OrphansExplained
  <2>1. \/ client[q] \in Active \/ q \in pending \/ result[q] = "dropped" \/ q \in told
        \/ "uid" \in faults.strayed
    BY EngineParts DEF OrphansExplained, Wanted
  <2>2. client' = client /\ result' = result /\ told' = told
    BY DEF clientVars
  <2>. QED
    BY <2>1, <2>2 DEF Wanted
<1>5. TokensSafe'
  BY DEF TokensSafe
<1>. QED
  BY <1>2, <1>3, <1>4, <1>5 DEF EngineInv

\* A task behind the others.
LEMMA LoopSubmits ==
  ASSUME EngineInv, LoopSubmit \/ LoopCatch
  PROVE  EngineInv'
<1>1. /\ EngineTyped /\ tasks \in Seq(Task) /\ IsInjective(tasks)
      /\ UNCHANGED schedVars /\ UNCHANGED <<clientVars, failed, histVars>>
  BY EngineParts DEF EngineTyped, Task, LoopSubmit, LoopCatch
<1>2. PICK t \in {StepTask, FailTask} :
        /\ tasks' = Append(tasks, t) /\ t \notin ToSet(tasks)
        /\ StepTask \notin ToSet(tasks) /\ FailTask \notin ToSet(tasks)
        /\ t = StepTask => loop' = "stepping"
        /\ t = FailTask => loop' = "failing"
        /\ loop' \in {"stepping", "failing"} /\ Undelivered = {}
  <2>1. \/ loop = "idle" /\ loop' = "stepping" /\ tasks' = Append(tasks, StepTask)
        \/ /\ loop = "deliver" /\ loop' = "failing" /\ tasks' = Append(tasks, FailTask)
           /\ output.raised
    BY DEF LoopSubmit, LoopCatch
  <2>2. StepTask \notin ToSet(tasks) /\ FailTask \notin ToSet(tasks)
    BY <1>1, <2>1 DEF EngineTyped
  <2>3. Undelivered = {}
    BY <2>1, CoreTyped, EngineParts DEF Undelivered, StepOutput
  <2>. QED
    BY <2>1, <2>2, <2>3, TaskNames
<1>3. /\ tasks' \in Seq(Task) /\ IsInjective(tasks') /\ ToSet(tasks') = ToSet(tasks) \cup {t}
  BY <1>1, <1>2, AppendNew DEF Task
<1>4. /\ UNCHANGED <<arrived, requests, pending, output, output_len, faults, told, restarted>>
      /\ UNCHANGED <<client, result, received, collectors, buffer, event, sent, abortAlls>>
  BY <1>1 DEF schedVars, reqVars, clientVars, histVars
<1>5. CoreInv'
  <2>1. Untouched
    BY <1>1, CoreTyped, EngineParts DEF Untouched, schedVars
  <2>. QED
    BY <2>1, UntouchedCore, EngineParts
<1>6. EngineTyped'
  <2>1. /\ StepTask \in ToSet(tasks') => loop' = "stepping"
        /\ FailTask \in ToSet(tasks') => loop' = "failing"
    BY <1>2, <1>3, TaskNames
  <2>. QED
    BY <1>1, <1>2, <1>3, <1>4, <2>1 DEF EngineTyped, Active, Collected, StepTask, FailTask, AddTask, Task
<1>7. Undelivered' = {} /\ \A q \in Request : Left(q)' = Left(q)
  BY <1>2, <1>4 DEF Undelivered, Left
<1>8. ASSUME NEW q \in Request
      PROVE  AddTask(q) \in ToSet(tasks)' => AddTask(q) \in ToSet(tasks) /\ q \notin arrived'
  <2>1. AddTask(q) # t
    BY TaskNames
  <2>. QED
    BY <1>3, <1>4, <2>1, EngineParts DEF ClientOf
<1>9. ASSUME StreamInterval = 1, NEW q \in Request \ restarted' PROVE TokensOf(q)'
  <2>1. TokensOf(q) /\ SameClient(q)
    BY <1>4, <1>9, EngineParts DEF TokensSafe, SameClient
  <2>. QED
    BY <1>2, <1>4, <1>7, <2>1, TokensKept
<1>. QED
  BY <1>1, <1>4, <1>5, <1>6, <1>7, <1>8, <1>9, ClientsKept

\* The head of the executor's queue is done.
LEMMA TaskDone ==
  ASSUME EngineInv, tasks # <<>>, tasks' = Tail(tasks)
  PROVE  /\ Head(tasks) \in ToSet(tasks) /\ Head(tasks) \in Task
         /\ tasks' \in Seq(Task) /\ IsInjective(tasks')
         /\ ToSet(tasks') = ToSet(tasks) \ {Head(tasks)}
         /\ Head(tasks).kind = "step" <=> Head(tasks) = StepTask
         /\ Head(tasks).kind = "fail" <=> Head(tasks) = FailTask
         /\ Head(tasks).kind = "add" => \E r \in Request : Head(tasks) = AddTask(r)
<1>1. tasks \in Seq(Task) /\ IsInjective(tasks)
  BY EngineParts DEF EngineTyped, Task
<1>2. ToSet(tasks) = {Head(tasks)} \cup ToSet(Tail(tasks)) /\ Head(tasks) \in Task
  BY <1>1, FirstAndRest
<1>3. Tail(tasks) \in Seq(Task) /\ IsInjective(Tail(tasks))
      /\ ToSet(Tail(tasks)) = ToSet(tasks) \ {Head(tasks)}
  BY <1>1, TailRest
<1>4. /\ Head(tasks).kind = "step" <=> Head(tasks) = StepTask
      /\ Head(tasks).kind = "fail" <=> Head(tasks) = FailTask
      /\ Head(tasks).kind = "add" => \E r \in Request : Head(tasks) = AddTask(r)
  BY <1>2 DEF Task, StepTask, FailTask, AddTask
<1>. QED
  BY <1>2, <1>3, <1>4

LEMMA AddRuns ==
  ASSUME EngineInv, ExecAdd
  PROVE  EngineInv'
<1>1. EngineTyped /\ CoreInv /\ Undelivered \subseteq output.outputs
  BY EngineParts
<1>2. PICK r \in Request : Head(tasks) = AddTask(r)
  BY TaskDone DEF ExecAdd, Runs
<1>3. PICK lookup \in Lookup : AddRequest(r, lookup)
  BY <1>2, TaskNames DEF ExecAdd
<1>4. /\ tasks' \in Seq(Task) /\ IsInjective(tasks') /\ ToSet(tasks') = ToSet(tasks) \ {AddTask(r)}
      /\ AddTask(r) \in ToSet(tasks)
  BY <1>2, TaskDone DEF ExecAdd, Runs
<1>5. /\ r \notin arrived /\ arrived' = arrived \cup {r} /\ requests' = requests \cup {r}
      /\ UNCHANGED <<pending, output, output_len, faults, told, restarted>>
      /\ UNCHANGED <<client, result, received, collectors, buffer, event, sent>>
      /\ UNCHANGED <<loop, failed, abortAlls>>
  BY <1>3 DEF ExecAdd, AddRequest, clientVars, histVars
<1>6. CoreInv'
  BY <1>1, <1>3, CoreAdds
<1>7. EngineTyped'
  <2>1. failed' \subseteq arrived' \ requests'
    BY <1>1, <1>5 DEF EngineTyped
  <2>2. /\ StepTask \in ToSet(tasks') => loop' = "stepping"
        /\ FailTask \in ToSet(tasks') => loop' = "failing"
    BY <1>1, <1>4, <1>5 DEF EngineTyped
  <2>. QED
    BY <1>1, <1>4, <1>5, <2>1, <2>2 DEF EngineTyped, Active, Collected, StepTask, FailTask, AddTask, Task
<1>8. Undelivered' = Undelivered /\ \A q \in Request : Left(q) => Left(q)'
  BY <1>5 DEF Undelivered, Left
<1>9. client[r] \in Active \/ result[r] = "dropped"
  BY <1>4, EngineParts DEF ClientOf, Active
<1>10. client[r] # "none"
  BY <1>4, EngineParts DEF ClientOf
<1>11. ASSUME NEW q \in Request
       PROVE  /\ q \in arrived' => q \in arrived \/ client[q] # "none"
              /\ AddTask(q) \in ToSet(tasks)' => AddTask(q) \in ToSet(tasks) /\ q \notin arrived'
              /\ \A o \in Undelivered' : o.rid = q =>
                   (o.finished => Left(q)') /\ ~(Has(q) /\ buffer[q].finished /\ ~buffer[q].error)
  <2>1. ClientOf(q) /\ SignalsOf(q)
    BY EngineParts
  <2>2. AddTask(q) \in ToSet(tasks)' => AddTask(q) \in ToSet(tasks) /\ q \notin arrived'
    BY <1>4, <1>5, <2>1 DEF ClientOf
  <2>. QED
    BY <1>5, <1>8, <1>10, <2>1, <2>2 DEF SignalsOf
<1>12. ASSUME StreamInterval = 1, NEW q \in Request \ restarted' PROVE TokensOf(q)'
  <2>1. TokensOf(q) /\ SameClient(q)
    BY <1>5, <1>12, EngineParts DEF TokensSafe, SameClient
  <2>. QED
    BY <1>5, <1>8, <2>1, TokensKept
<1>13. UNCHANGED <<clientVars, told>>
  BY <1>5 DEF clientVars
<1>. QED
  BY <1>5, <1>6, <1>7, <1>8, <1>9, <1>11, <1>12, <1>13, ClientsKept

LEMMA FailRuns ==
  ASSUME EngineInv, ExecFail
  PROVE  EngineInv'
<1>1. EngineTyped /\ CoreInv
  BY EngineParts
<1>2. /\ CoreInv' /\ arrived' = arrived /\ requests' = requests \ FailedIds
      /\ UNCHANGED <<pending, output_len, faults>> /\ output'.outputs = {}
      /\ FailedIds \subseteq requests
  BY <1>1, CoreFails DEF ExecFail
<1>3. /\ Head(tasks) = FailTask /\ FailTask \in ToSet(tasks) /\ tasks' \in Seq(Task)
      /\ IsInjective(tasks') /\ ToSet(tasks') = ToSet(tasks) \ {FailTask}
  BY TaskDone DEF ExecFail, Runs
<1>4. /\ loop = "failing" /\ loop' = "notify" /\ failed' = FailedIds
      /\ UNCHANGED <<client, result, received, collectors, buffer, event, sent>>
      /\ UNCHANGED <<told, restarted, abortAlls>>
  BY <1>1, <1>3 DEF ExecFail, EngineTyped, clientVars, histVars
<1>5. EngineTyped'
  <2>1. failed' \subseteq arrived' \ requests'
    BY <1>2, <1>4, CoreTyped, EngineParts
  <2>2. StepTask \notin ToSet(tasks') /\ FailTask \notin ToSet(tasks')
    BY <1>1, <1>3, <1>4 DEF EngineTyped
  <2>. QED
    BY <1>1, <1>3, <1>4, <2>1, <2>2 DEF EngineTyped, Active, Collected, StepTask, FailTask, AddTask, Task
<1>6. Undelivered' = {} /\ Undelivered = {} /\ \A q \in Request : Left(q) => Left(q)'
  BY <1>2, <1>4 DEF Undelivered, Left
<1>7. ASSUME NEW q \in Request
      PROVE  AddTask(q) \in ToSet(tasks)' => AddTask(q) \in ToSet(tasks) /\ q \notin arrived'
  BY <1>2, <1>3, EngineParts DEF ClientOf
<1>8. ASSUME StreamInterval = 1, NEW q \in Request \ restarted' PROVE TokensOf(q)'
  <2>1. TokensOf(q) /\ SameClient(q)
    BY <1>4, <1>8, EngineParts DEF TokensSafe, SameClient
  <2>. QED
    BY <1>2, <1>6, <2>1, TokensKept
<1>9. UNCHANGED <<clientVars, told>>
  BY <1>4 DEF clientVars
<1>. QED
  BY <1>2, <1>4, <1>5, <1>6, <1>7, <1>8, <1>9, ClientsKept

LEMMA StepRuns ==
  ASSUME EngineInv, ExecStep
  PROVE  EngineInv'
<1>1. EngineTyped /\ CoreInv /\ CoreInv' /\ StepEffect
  BY CoreSteps, EngineParts DEF ExecStep
<1>2. tasks # <<>> /\ Head(tasks) = StepTask /\ StepTask \in ToSet(tasks)
  <2>1. tasks # <<>> /\ Head(tasks).kind = "step"
    BY DEF ExecStep, Runs
  <2>2. tasks \in Seq(Task)
    BY <1>1 DEF EngineTyped, Task
  <2>3. Head(tasks) \in Task /\ Head(tasks) \in ToSet(tasks)
    BY <2>1, <2>2, FirstAndRest
  <2>4. Head(tasks) = StepTask
    BY <2>1, <2>3 DEF Task, StepTask, FailTask, AddTask
  <2>. QED
    BY <2>1, <2>3, <2>4
<1>3. /\ loop = "stepping" /\ failed' = failed
      /\ UNCHANGED <<client, result, received, collectors, buffer, event, sent>>
      /\ UNCHANGED <<told, abortAlls>>
      /\ \/ phase' = "idle" /\ tasks' = Tail(tasks) /\ loop' = "deliver"
         \/ phase' # "idle" /\ tasks' = tasks /\ loop' = "stepping"
      /\ restarted \subseteq restarted' /\ restarted' \subseteq Request
      /\ \A q \in Request : Restarted(q) => q \in restarted'
  <2>1. loop = "stepping" /\ restarted \subseteq Request
    BY <1>1, <1>2 DEF EngineTyped
  <2>2. \A q \in Running : q \in Request
    BY CoreTyped, EngineParts
  <2>. QED
    BY <2>1, <2>2 DEF ExecStep, clientVars, Restarted, Waiting
<1>4. /\ tasks' \in Seq(Task) /\ IsInjective(tasks') /\ ToSet(tasks') \subseteq ToSet(tasks)
      /\ FailTask \notin ToSet(tasks') /\ (StepTask \in ToSet(tasks') => loop' = "stepping")
  <2>1. FailTask \notin ToSet(tasks)
    BY <1>1, <1>3 DEF EngineTyped
  <2>2. CASE tasks' = Tail(tasks)
    <3>1. /\ tasks' \in Seq(Task) /\ IsInjective(tasks')
          /\ ToSet(tasks') = ToSet(tasks) \ {StepTask}
      BY <1>2, <2>2, TaskDone
    <3>. QED
      BY <2>1, <3>1
  <2>3. CASE tasks' = tasks /\ loop' = "stepping"
    BY <1>1, <2>1, <2>3 DEF EngineTyped, Task
  <2>. QED
    BY <1>3, <2>2, <2>3
<1>5. /\ arrived' = arrived /\ requests' \subseteq requests
      /\ "uid" \in faults.strayed => "uid" \in faults'.strayed
      /\ \A q \in pending : q \in pending' \/ q \notin requests' \/ "uid" \in faults'.strayed
  BY <1>1 DEF StepEffect
<1>6. EngineTyped'
  <2>1. failed' \subseteq arrived' \ requests'
    BY <1>1, <1>3, <1>5 DEF EngineTyped
  <2>2. loop' \in {"idle", "stepping", "deliver", "failing", "notify"}
    BY <1>3
  <2>. QED
    BY <1>1, <1>3, <1>4, <2>1, <2>2 DEF EngineTyped, Active, Collected, StepTask, FailTask, AddTask, Task
<1>7. Undelivered = {} /\ (phase' # "idle" => Undelivered' = {})
      /\ (phase' = "idle" => Undelivered' = output'.outputs)
  BY <1>3 DEF Undelivered
<1>8. \A q \in Request : Left(q) => Left(q)'
  BY <1>5 DEF Left
<1>9. ASSUME NEW q \in Request
      PROVE  /\ AddTask(q) \in ToSet(tasks)' => AddTask(q) \in ToSet(tasks) /\ q \notin arrived'
             /\ \A o \in Undelivered' : o.rid = q =>
                  (o.finished => Left(q)') /\ ~(Has(q) /\ buffer[q].finished /\ ~buffer[q].error)
  <2>1. AddTask(q) \in ToSet(tasks)' => AddTask(q) \in ToSet(tasks) /\ q \notin arrived'
    BY <1>4, <1>5, EngineParts DEF ClientOf
  <2>2. ASSUME NEW o \in Undelivered', o.rid = q
        PROVE  (o.finished => Left(q)') /\ ~(Has(q) /\ buffer[q].finished /\ ~buffer[q].error)
    <3>1. q \in requests /\ (o.finished => q \notin requests')
      BY <1>1, <1>7, <2>2 DEF StepEffect, Produced
    <3>2. q \in arrived /\ ~Left(q)
      BY <3>1, CoreTyped, EngineParts DEF Left
    <3>. QED
      BY <1>5, <3>1, <3>2, EngineParts DEF SignalsOf, Left
  <2>. QED
    BY <2>1, <2>2
<1>10. ASSUME StreamInterval = 1, NEW q \in Request \ restarted' PROVE TokensOf(q)'
  <2>1. TokensOf(q) /\ SameClient(q) /\ ~Restarted(q)
    BY <1>3, <1>10, EngineParts DEF TokensSafe, SameClient
  <2>2. CASE phase' # "idle"
    <3>1. output_len' = output_len
      BY <1>1, <2>2 DEF StepEffect
    <3>. QED
      BY <1>7, <1>8, <2>1, <2>2, <3>1, TokensKept
  <2>3. CASE phase' = "idle"
    <3>1. Told(q) /\ \A o \in output'.outputs : o.rid \in requests
      BY <1>1, <1>10, <2>1, <2>3 DEF StepEffect, Produced
    <3>2. client[q] # "done" => output_len[q] = received[q] + Buffered(q)
      BY <1>7, <2>1 DEF TokensOf
    <3>3. Buffered(q)' = Buffered(q) /\ received'[q] = received[q]
          /\ client'[q] = client[q] /\ result'[q] = result[q]
      BY <2>1 DEF SameClient, Buffered, Has
    <3>4. Left(q) => output_len'[q] = output_len[q]
      BY <3>1 DEF Told, Left
    <3>. QED
      BY <1>7, <1>8, <2>1, <2>3, <3>1, <3>2, <3>3, <3>4 DEF TokensOf, Told
  <2>. QED
    BY <2>2, <2>3
<1>11. UNCHANGED <<clientVars, told>>
  BY <1>3 DEF clientVars
<1>. QED
  BY <1>1, <1>3, <1>5, <1>6, <1>8, <1>9, <1>10, <1>11, ClientsKept

-----------------------------------------------------------------------------
(* Theorems about the engine                                               *)

LEMMA EngineStart ==
  ASSUME EngineInit
  PROVE  EngineInv
<1>1. /\ client = [r \in Request |-> "none"] /\ result = [r \in Request |-> "none"]
      /\ received = [r \in Request |-> 0] /\ sent = [r \in Request |-> 0]
      /\ buffer = [r \in Request |-> None] /\ collectors = {} /\ event = {} /\ tasks = <<>>
      /\ loop = "idle" /\ failed = {} /\ told = {} /\ restarted = {} /\ abortAlls = 0
      /\ arrived = {} /\ requests = {} /\ output_len = [r \in Request |-> 0]
  BY DEF EngineInit, SchedInit
<1>2. CoreInv
  BY CoreStart DEF EngineInit
<1>3. ToSet(tasks) = {} /\ IsInjective(tasks) /\ tasks \in Seq(Task)
  BY <1>1 DEF ToSet, IsInjective
<1>4. EngineTyped
  BY <1>1, <1>3, SchedulerAssumption, EngineAssumption DEF EngineTyped, Task
<1>5. Undelivered = {}
  BY <1>1 DEF Undelivered
<1>6. ASSUME NEW r \in Request PROVE ClientOf(r) /\ SignalsOf(r) /\ TokensOf(r)
  BY <1>1, <1>3, <1>5 DEF ClientOf, SignalsOf, TokensOf, Has, Buffered, Active
<1>7. OrphansExplained
  BY <1>1 DEF OrphansExplained
<1>. QED
  BY <1>2, <1>4, <1>6, <1>7 DEF EngineInv, TokensSafe

LEMMA EngineStands ==
  ASSUME EngineInv, UNCHANGED vars
  PROVE  EngineInv'
<1>1. /\ UNCHANGED schedVars
      /\ UNCHANGED <<client, result, received, collectors, buffer, event, sent>>
      /\ UNCHANGED <<tasks, loop, failed, told, restarted, abortAlls>>
  BY DEF vars, clientVars, loopVars, histVars
<1>2. Untouched /\ EngineTyped
  BY <1>1, CoreTyped, EngineParts DEF Untouched, schedVars
<1>3. EngineTyped'
  BY <1>1, <1>2 DEF schedVars, EngineTyped, Active, Collected, StepTask, FailTask, AddTask
<1>4. /\ Undelivered' = Undelivered /\ output_len' = output_len
      /\ \A q \in Request : (Left(q)' <=> Left(q)) /\ SameClient(q)
  BY <1>1 DEF schedVars, reqVars, Undelivered, Left, SameClient
<1>5. ASSUME NEW q \in Request PROVE SignalsOf(q)'
  <2>1. SignalsOf(q) /\ SameClient(q)
    BY <1>4, EngineParts
  <2>. QED
    BY <1>4, <2>1, SignalsKept DEF SignalsOf
<1>6. ASSUME StreamInterval = 1, NEW q \in Request \ restarted PROVE TokensOf(q)'
  BY <1>4, <1>6, TokensKept, EngineParts DEF TokensSafe
<1>. QED
  BY <1>1, <1>2, <1>3, <1>5, <1>6, LoopSends, EngineParts DEF ClientOf

\* Every action of the engine keeps the invariant.
LEMMA EngineSteps ==
  ASSUME EngineInv, [Next]_vars
  PROVE  EngineInv'
<1>1. CASE Executor
  BY <1>1, AddRuns, StepRuns, FailRuns DEF Executor
<1>2. CASE EngineLoop
  BY <1>2, LoopSubmits, Delivered, Notified DEF EngineLoop
<1>3. CASE AbortAllRequests
  BY <1>3, AllAborted
<1>4. ASSUME NEW r \in Request, ClientAdd(r) \/ Client(r) \/ Disconnect(r)
      PROVE  EngineInv'
  BY <1>4, AddedClient, AttachedClient, StreamReads, GenerateReturns, AttachedCancels,
     AddingCancels DEF Client, Disconnect
<1>5. CASE UNCHANGED vars
  BY <1>5, EngineStands
<1>. QED
  BY <1>1, <1>2, <1>3, <1>4, <1>5 DEF Next

LEMMA EngineInvariant == Spec => []EngineInv
<1>1. EngineInit => EngineInv
  BY EngineStart
<1>2. EngineInv /\ [Next]_vars => EngineInv'
  BY EngineSteps
<1>. QED
  BY <1>1, <1>2, PTL DEF Spec

\* With the stream interval the server runs with (1 by default, config.py and
\* batched.py; a larger one drops the outputs between two sends), a client that
\* is told its request finished has been given each of its tokens exactly once,
\* for any number of requests, tokens, errors and aborts: OutputsExact.
THEOREM EngineOutputsExact ==
  ASSUME StreamInterval = 1
  PROVE  Spec => []OutputsExact
<1>1. EngineInv => OutputsExact
  <2>. SUFFICES ASSUME EngineInv PROVE OutputsExact
    OBVIOUS
  <2>1. EngineTyped /\ SchedTypeOK
    BY CoreTyped, EngineParts DEF SchedInv
  <2>2. ToSet(tasks) \subseteq {StepTask, FailTask} \cup {AddTask(r) : r \in Request}
    BY <2>1 DEF EngineTyped, ToSet
  <2>3. failed \subseteq Request
    BY <2>1, CoreTyped, EngineParts DEF EngineTyped
  <2>4. EngineTypeOK
    BY <2>1, <2>2, <2>3 DEF EngineTypeOK, EngineTyped
  <2>5. EveryTokenOnce
    BY <2>1, EngineParts DEF EveryTokenOnce, EngineTyped, TokensSafe, TokensOf
  <2>. QED
    BY <2>4, <2>5 DEF OutputsExact
<1>. QED
  BY <1>1, EngineInvariant, PTL

\* Whatever the step under way does, a client that waited when
\* abort_all_requests ran is not told that its request finished.
THEOREM EngineAbortAllIsReported == Spec => []AbortAllIsReported
<1>1. EngineInv => AbortAllIsReported
  <2>. SUFFICES ASSUME EngineInv, NEW r \in told PROVE result[r] # "ok"
    BY DEF AbortAllIsReported
  <2>1. r \in Request /\ ClientOf(r) /\ SignalsOf(r)
    BY EngineParts DEF EngineTyped
  <2>. QED
    BY <2>1 DEF ClientOf, SignalsOf, Active
<1>. QED
  BY <1>1, EngineInvariant, PTL

\* A request that computes has a client, or its abort is noted, up to the three
\* ways of losing one that OrphansExplained lists.
THEOREM EngineOrphansExplained == Spec => []OrphansExplained
<1>1. EngineInv => OrphansExplained
  BY EngineParts
<1>. QED
  BY <1>1, EngineInvariant, PTL

-----------------------------------------------------------------------------
(***************************************************************************)
(* BudgetKept, for any vocabulary, closings, budgets and samplers.         *)
(*                                                                         *)
(* The processor knows the window of what it has noted (WindowKept), which *)
(* is all but the last token; as long as it counts, no tag has ended there.*)
(* What it forces begins after the tokens that are free (ForcedPart).  The *)
(* last token of a tag comes once in what is forced and not after it, so   *)
(* that a tag which the thought had begun does not end there too           *)
(* (EndsOnce).                                                             *)
(***************************************************************************)
TagLength == Len(closing.end)
LengthOfForced == Len(ForceSequence)
EndsTag(n) == n \in TagLength .. Len(written) /\ \A i \in 1 .. TagLength : written[n - TagLength + i] = closing.end[i]

BudgetTypeOK ==
    /\ closing \in Closings /\ budget \in Nat
    /\ written \in Seq(Vocabulary)
    /\ counter \in [thinking : BOOLEAN, used : Nat, first : BOOLEAN, forced : Nat, recent : Seq(Vocabulary),
                    phase : {"counting", "forcing", "suppressing", "done"}]

\* The last of the first n tokens, as many as the tag has.
Window(noted, n) ==
    /\ noted \in Seq(Vocabulary) /\ Len(noted) <= TagLength /\ Len(noted) <= n
    /\ Len(noted) \in {TagLength, n}
    /\ \A i \in 1 .. Len(noted) : noted[i] = written[n - Len(noted) + i]

\* All but the last token were noted.
WindowKept == Window(counter.recent, IF written = << >> THEN 0 ELSE Len(written) - 1)

\* So many tokens of the forced sequence follow the free ones.
ForcedPart(n) ==
    /\ FreeTokens + n <= Len(written)
    /\ \A i \in 1 .. n : written[FreeTokens + i] = ForceSequence[i]

Counting ==
    /\ counter.forced = 0 /\ counter.thinking /\ counter.used = Len(written)
    /\ Len(written) <= FreeTokens
    /\ counter.first <=> written = << >>
    /\ WindowKept
    /\ \A n \in 1 .. Len(written) - 1 : ~EndsTag(n)

Forcing ==
    /\ counter.forced < LengthOfForced
    /\ Len(written) = FreeTokens + counter.forced + 1
    /\ ~counter.first
    /\ ForcedPart(counter.forced + 1)
    /\ \A n \in 1 .. FreeTokens : ~EndsTag(n)

Suppressing ==
    /\ counter.forced = LengthOfForced
    /\ ForcedPart(LengthOfForced)
    /\ \A n \in 1 .. FreeTokens : ~EndsTag(n)
    /\ \A n \in FreeTokens + LengthOfForced + 1 .. Len(written) : written[n] \notin ToSet(closing.end)

ClosedByModel == counter.forced = 0 /\ \E n \in 1 .. FreeTokens : EndsTag(n)

BudgetInv ==
    /\ BudgetTypeOK
    /\ \/ counter.phase = "counting" /\ Counting
       \/ counter.phase = "forcing" /\ Forcing
       \/ counter.phase = "suppressing" /\ Suppressing
       \/ counter.phase = "done" /\ ClosedByModel

\* Two sequences, one after the other, a part of one, and all but the last item.
LEMMA OneAfterTheOther ==
  ASSUME NEW V, NEW s \in Seq(V), NEW t \in Seq(V)
  PROVE  /\ s \o t \in Seq(V) /\ Len(s \o t) = Len(s) + Len(t)
         /\ \A i \in 1 .. Len(s) : (s \o t)[i] = s[i]
         /\ \A i \in 1 .. Len(t) : (s \o t)[Len(s) + i] = t[i]
OBVIOUS

LEMMA PartItems ==
  ASSUME NEW V, NEW s \in Seq(V), NEW a \in 1 .. Len(s), NEW b \in 1 .. Len(s), NEW k \in Nat, k = b - a + 1
  PROVE  /\ SubSeq(s, a, b) \in Seq(V) /\ Len(SubSeq(s, a, b)) = k
         /\ \A i \in 1 .. k : SubSeq(s, a, b)[i] = s[a + i - 1]
OBVIOUS

LEMMA FrontItems ==
  ASSUME NEW V, NEW s \in Seq(V), s # << >>
  PROVE  /\ Front(s) \in Seq(V) /\ Len(Front(s)) = Len(s) - 1
         /\ \A i \in 1 .. Len(s) - 1 : Front(s)[i] = s[i]
<1>1. Front(s) = SubSeq(s, 1, Len(s) - 1)
  BY DEF Front
<1>. HIDE DEF Front
<1>. DEFINE n == Len(s) - 1
<1>2. n \in Nat /\ n <= Len(s) /\ n = Len(s) - 1
  OBVIOUS
<1>. HIDE DEF n
<1>3. /\ SubSeq(s, 1, n) \in Seq(V) /\ Len(SubSeq(s, 1, n)) = n
      /\ \A i \in 1 .. n : SubSeq(s, 1, n)[i] = s[i]
  BY <1>2
<1>. QED
  BY <1>1, <1>2, <1>3

\* What is forced: the tag between what goes around it, with its last token once.
LEMMA ForcedItems ==
  ASSUME BudgetTypeOK
  PROVE  /\ TagLength \in Nat \ {0} /\ Len(closing.leading) \in Nat /\ Len(closing.trailing) \in Nat
         /\ closing.end \in Seq(Vocabulary) /\ ForceSequence \in Seq(Vocabulary)
         /\ LengthOfForced \in Nat \ {0} /\ LengthOfForced >= Len(closing.leading) + TagLength
         /\ FreeTokens \in Nat /\ (budget > 0 => FreeTokens = budget - 1) /\ (budget = 0 => FreeTokens = 0)
         /\ \A i \in 1 .. TagLength : ForceSequence[Len(closing.leading) + i] = closing.end[i]
         /\ \A d \in 1 .. LengthOfForced :
              ForceSequence[d] = closing.end[TagLength] => d = Len(closing.leading) + TagLength
<1>. DEFINE a == closing.leading
            e == closing.end
            z == closing.trailing
            f == ForceSequence
<1>1. /\ a \in Seq(Vocabulary) /\ e \in Seq(Vocabulary) /\ z \in Seq(Vocabulary) /\ e # << >>
      /\ Last(e) \notin ToSet(Front(e)) \cup ToSet(a) \cup ToSet(z)
  BY ThinkingBudgetAssumption DEF BudgetTypeOK
<1>2. f = (a \o e) \o z /\ TagLength = Len(e) /\ LengthOfForced = Len(f)
  BY DEF ForceSequence, TagLength, LengthOfForced
<1>3. FreeTokens \in Nat /\ (budget > 0 => FreeTokens = budget - 1) /\ (budget = 0 => FreeTokens = 0)
  BY DEF FreeTokens, BudgetTypeOK
<1>. HIDE DEF a, e, z, f
<1>4. Len(a) \in Nat /\ Len(e) \in Nat \ {0} /\ Len(z) \in Nat
  BY <1>1
<1>. DEFINE b == a \o e
<1>5. /\ b \in Seq(Vocabulary) /\ Len(b) = Len(a) + Len(e)
      /\ \A i \in 1 .. Len(a) : b[i] = a[i]
      /\ \A i \in 1 .. Len(e) : b[Len(a) + i] = e[i]
  BY <1>1, OneAfterTheOther
<1>6. f = b \o z
  BY <1>2
<1>. HIDE DEF b
<1>7. /\ f \in Seq(Vocabulary) /\ Len(f) = Len(b) + Len(z)
      /\ \A i \in 1 .. Len(b) : f[i] = b[i]
      /\ \A i \in 1 .. Len(z) : f[Len(b) + i] = z[i]
  <2>1. /\ b \o z \in Seq(Vocabulary) /\ Len(b \o z) = Len(b) + Len(z)
        /\ \A i \in 1 .. Len(b) : (b \o z)[i] = b[i]
        /\ \A i \in 1 .. Len(z) : (b \o z)[Len(b) + i] = z[i]
    <3>1. b \in Seq(Vocabulary) /\ z \in Seq(Vocabulary)
      BY <1>1, <1>5
    <3>2. \A s, t \in Seq(Vocabulary) :
            /\ s \o t \in Seq(Vocabulary) /\ Len(s \o t) = Len(s) + Len(t)
            /\ \A i \in 1 .. Len(s) : (s \o t)[i] = s[i]
            /\ \A i \in 1 .. Len(t) : (s \o t)[Len(s) + i] = t[i]
      BY OneAfterTheOther
    <3>. QED
      BY <3>1, <3>2, Zenon
  <2>. QED
    BY <1>6, <2>1
<1>a. Len(f) \in Nat \ {0} /\ Len(f) >= Len(a) + Len(e)
  BY <1>4, <1>5, <1>7
<1>8. \A i \in 1 .. Len(e) : f[Len(a) + i] = e[i]
  BY <1>4, <1>5, <1>7
<1>9. ASSUME NEW d \in 1 .. Len(f), f[d] = e[Len(e)] PROVE d = Len(a) + Len(e)
  <2>1. Last(e) = e[Len(e)]
    BY DEF Last
  <2>2. CASE d \in 1 .. Len(a)
    <3>1. f[d] = a[d]
      BY <1>4, <1>5, <1>7, <2>2
    <3>. QED
      BY <1>1, <1>9, <2>1, <2>2, <3>1 DEF ToSet
  <2>3. CASE d \in Len(a) + Len(e) + 1 .. Len(f)
    <3>1. PICK i \in 1 .. Len(z) : d = Len(b) + i
      <4>. DEFINE i == d - Len(b)
      <4>1. i \in 1 .. Len(z) /\ d = Len(b) + i
        BY <1>4, <1>5, <1>7, <2>3
      <4>. HIDE DEF i
      <4>. QED
        BY <4>1
    <3>2. f[d] = z[i]
      BY <1>7, <3>1
    <3>. QED
      BY <1>1, <1>9, <2>1, <3>2 DEF ToSet
  <2>4. CASE d \in Len(a) + 1 .. Len(a) + Len(e) - 1
    <3>1. PICK i \in 1 .. Len(e) - 1 : d = Len(a) + i
      <4>. DEFINE i == d - Len(a)
      <4>1. i \in 1 .. Len(e) - 1 /\ d = Len(a) + i
        BY <1>4, <2>4
      <4>. HIDE DEF i
      <4>. QED
        BY <4>1
    <3>2. f[d] = e[i]
      BY <1>4, <1>8, <3>1
    <3>3. Front(e) \in Seq(Vocabulary) /\ Len(Front(e)) = Len(e) - 1 /\ Front(e)[i] = e[i]
      BY <1>1, FrontItems
    <3>4. e[i] \in ToSet(Front(e))
      <4>1. i \in DOMAIN Front(e)
        BY <3>3
      <4>. QED
        BY <3>3, <4>1, Zenon DEF ToSet
    <3>. QED
      BY <1>1, <1>9, <2>1, <3>2, <3>4
  <2>. QED
    BY <1>4, <1>5, <1>7, <2>2, <2>3, <2>4
<1>. QED
  BY <1>1, <1>2, <1>3, <1>4, <1>7, <1>8, <1>9, <1>a DEF a, e, z, f

\* The last k items.
LEMMA LastItems ==
  ASSUME NEW V, NEW s \in Seq(V), NEW k \in Nat \ {0}
  PROVE  LET x == LastOf(s, k)
         IN  /\ x \in Seq(V) /\ Len(x) <= k /\ Len(x) <= Len(s) /\ Len(x) \in {k, Len(s)}
             /\ \A i \in 1 .. Len(x) : x[i] = s[Len(s) - Len(x) + i]
<1>. DEFINE m == Len(s)
            a == m - k + 1
<1>1. m \in Nat /\ m = Len(s)
  OBVIOUS
<1>2. CASE m > k
  <2>1. LastOf(s, k) = SubSeq(s, a, m)
    BY <1>1, <1>2 DEF LastOf
  <2>2. a \in 1 .. m /\ m - a + 1 = k /\ k <= m /\ \A i \in 1 .. k : a + i - 1 = m - k + i
    BY <1>1, <1>2
  <2>. HIDE DEF a
  <2>3. /\ SubSeq(s, a, m) \in Seq(V) /\ Len(SubSeq(s, a, m)) = m - a + 1
        /\ \A i \in 1 .. m - a + 1 : SubSeq(s, a, m)[i] = s[a + i - 1]
    BY <1>1, <2>2
  <2>. QED
    BY <1>1, <2>1, <2>2, <2>3
<1>3. CASE m <= k
  <2>1. LastOf(s, k) = SubSeq(s, 1, m)
    <3>1. ~(m > k)
      BY <1>1, <1>3
    <3>. QED
      BY <3>1 DEF LastOf
  <2>2. SubSeq(s, 1, m) = s
    BY <1>1
  <2>3. LastOf(s, k) = s
    BY <2>1, <2>2, Zenon
  <2>4. s \in Seq(V) /\ Len(s) <= k /\ Len(s) <= Len(s) /\ Len(s) \in {k, Len(s)}
    BY <1>1, <1>3
  <2>5. \A i \in 1 .. Len(s) : s[i] = s[Len(s) - Len(s) + i]
    <3>1. \A i \in 1 .. m : m - m + i = i
      BY <1>1
    <3>. QED
      BY <1>1, <3>1
  <2>. QED
    BY <2>3, <2>4, <2>5, Zenon
<1>. QED
  BY <1>1, <1>2, <1>3

\* One item more at the end.
LEMMA OneMore ==
  ASSUME NEW V, NEW q \in Seq(V), q # << >>, NEW r \in Seq(V), Len(r) < Len(q),
         \A i \in 1 .. Len(r) : r[i] = q[Len(q) - 1 - Len(r) + i]
  PROVE  /\ Append(r, Last(q)) \in Seq(V) /\ Len(Append(r, Last(q))) = Len(r) + 1
         /\ \A i \in 1 .. Len(r) + 1 : Append(r, Last(q))[i] = q[Len(q) - 1 - Len(r) + i]
<1>1. Last(q) = q[Len(q)] /\ q[Len(q)] \in V /\ Len(q) \in Nat /\ Len(r) \in Nat
  BY DEF Last
<1>. HIDE DEF Last
<1>2. Append(r, Last(q)) \in Seq(V) /\ Len(Append(r, Last(q))) = Len(r) + 1
  BY <1>1
<1>3. \A i \in 1 .. Len(r) : Append(r, Last(q))[i] = r[i]
  BY <1>1
<1>4. Append(r, Last(q))[Len(r) + 1] = q[Len(q)]
  BY <1>1
<1>5. Len(q) - 1 - Len(r) + (Len(r) + 1) = Len(q)
  BY <1>1
<1>6. ASSUME NEW i \in 1 .. Len(r) + 1 PROVE Append(r, Last(q))[i] = q[Len(q) - 1 - Len(r) + i]
  <2>1. CASE i \in 1 .. Len(r)
    BY <1>3, <2>1
  <2>2. CASE i = Len(r) + 1
    BY <1>4, <1>5, <2>2
  <2>. QED
    BY <1>1, <2>1, <2>2
<1>. QED
  BY <1>2, <1>6

\* What the window is after the last token was noted, and what it tells.
LEMMA NotedWindow ==
  ASSUME BudgetTypeOK, written # << >>, Window(counter.recent, Len(written) - 1),
         NEW noted, noted = LastOf(Append(counter.recent, Last(written)), TagLength),
         NEW n, n = Len(written)
  PROVE  Window(noted, n) /\ (noted = closing.end <=> EndsTag(n))
<1>1. n \in Nat \ {0} /\ TagLength \in Nat \ {0} /\ written \in Seq(Vocabulary)
  BY ForcedItems DEF BudgetTypeOK
<1>2. Window(noted, n)
  <2>. DEFINE r == counter.recent
              s == Append(r, Last(written))
  <2>1. /\ r \in Seq(Vocabulary) /\ Len(r) \in Nat /\ Len(r) <= TagLength /\ Len(r) <= n - 1
        /\ Len(r) = TagLength \/ Len(r) = n - 1
        /\ \A i \in 1 .. Len(r) : r[i] = written[n - 1 - Len(r) + i]
    <3>1. Len(written) - 1 = n - 1 /\ r \in Seq(Vocabulary)
      BY DEF Window
    <3>2. /\ Len(r) <= TagLength /\ Len(r) <= n - 1 /\ Len(r) \in {TagLength, n - 1}
          /\ \A i \in 1 .. Len(r) : r[i] = written[n - 1 - Len(r) + i]
      BY DEF Window
    <3>. HIDE DEF r
    <3>3. Len(r) \in Nat
      BY <3>1
    <3>. QED
      BY <3>1, <3>2, <3>3
  <2>. HIDE DEF r
  <2>2. Len(r) < Len(written)
    BY <1>1, <2>1
  <2>3. /\ s \in Seq(Vocabulary) /\ Len(s) = Len(r) + 1
        /\ \A i \in 1 .. Len(r) + 1 : s[i] = written[n - 1 - Len(r) + i]
    <3>1. r \in Seq(Vocabulary) /\ written \in Seq(Vocabulary) /\ written # << >> /\ Len(written) = n
      BY <1>1, <2>1
    <3>2. \A i \in 1 .. Len(r) : r[i] = written[Len(written) - 1 - Len(r) + i]
      BY <2>1, <3>1
    <3>3. /\ s \in Seq(Vocabulary) /\ Len(s) = Len(r) + 1
          /\ \A i \in 1 .. Len(r) + 1 : s[i] = written[Len(written) - 1 - Len(r) + i]
      <4>1. \A q, y \in Seq(Vocabulary) :
              /\ q # << >> /\ Len(y) < Len(q)
              /\ \A i \in 1 .. Len(y) : y[i] = q[Len(q) - 1 - Len(y) + i]
              => /\ Append(y, Last(q)) \in Seq(Vocabulary) /\ Len(Append(y, Last(q))) = Len(y) + 1
                 /\ \A i \in 1 .. Len(y) + 1 : Append(y, Last(q))[i] = q[Len(q) - 1 - Len(y) + i]
        BY OneMore
      <4>. QED
        BY <2>2, <3>1, <3>2, <4>1, Zenon
    <3>. QED
      BY <3>1, <3>3
  <2>4. noted = LastOf(s, TagLength)
    BY DEF r
  <2>. HIDE DEF s
  <2>5. /\ noted \in Seq(Vocabulary) /\ Len(noted) <= TagLength /\ Len(noted) <= Len(s)
        /\ Len(noted) \in {TagLength, Len(s)}
        /\ \A i \in 1 .. Len(noted) : noted[i] = s[Len(s) - Len(noted) + i]
    <3>1. s \in Seq(Vocabulary) /\ TagLength \in Nat \ {0}
      BY <1>1, <2>3
    <3>2. LET x == LastOf(s, TagLength)
          IN  /\ x \in Seq(Vocabulary) /\ Len(x) <= TagLength /\ Len(x) <= Len(s) /\ Len(x) \in {TagLength, Len(s)}
              /\ \A i \in 1 .. Len(x) : x[i] = s[Len(s) - Len(x) + i]
      BY <3>1, LastItems, Zenon
    <3>. QED
      BY <2>4, <3>2, Zenon
  <2>6. Len(noted) \in Nat
    BY <2>5
  <2>7. Len(noted) <= n /\ (Len(noted) = TagLength \/ Len(noted) = n)
    BY <1>1, <2>1, <2>3, <2>5, <2>6
  <2>8. ASSUME NEW i \in 1 .. Len(noted) PROVE noted[i] = written[n - Len(noted) + i]
    <3>. DEFINE d == Len(s) - Len(noted) + i
    <3>1. d \in 1 .. Len(r) + 1 /\ n - 1 - Len(r) + d = n - Len(noted) + i
      BY <1>1, <2>1, <2>3, <2>5, <2>6
    <3>2. noted[i] = s[d]
      BY <2>5
    <3>. HIDE DEF d
    <3>. QED
      BY <2>3, <3>1, <3>2
  <2>. QED
    BY <2>5, <2>7, <2>8 DEF Window
<1>3. closing.end \in Seq(Vocabulary) /\ Len(closing.end) = TagLength
  BY ForcedItems DEF TagLength
<1>4. noted = closing.end <=> Len(noted) = TagLength /\ \A i \in 1 .. TagLength : noted[i] = closing.end[i]
  <2>1. ASSUME Len(noted) = TagLength, \A i \in 1 .. TagLength : noted[i] = closing.end[i]
        PROVE  noted = closing.end
    <3>. DEFINE e == closing.end
    <3>1. e \in Seq(Vocabulary) /\ Len(e) = Len(noted) /\ \A i \in 1 .. Len(e) : noted[i] = e[i]
      BY <1>3, <2>1
    <3>2. noted \in Seq(Vocabulary)
      BY <1>2 DEF Window
    <3>. HIDE DEF e
    <3>3. noted = e
      BY <3>1, <3>2
    <3>. QED
      BY <3>3 DEF e
  <2>. QED
    BY <1>3, <2>1
<1>5. EndsTag(n) <=> n >= TagLength /\ \A i \in 1 .. TagLength : written[n - TagLength + i] = closing.end[i]
  BY <1>1 DEF EndsTag
<1>6. /\ Len(noted) \in Nat /\ Len(noted) <= n /\ (Len(noted) = TagLength \/ Len(noted) = n)
      /\ Len(noted) <= TagLength
      /\ \A i \in 1 .. Len(noted) : noted[i] = written[n - Len(noted) + i]
  BY <1>2 DEF Window
<1>7. CASE n >= TagLength
  <2>1. Len(noted) = TagLength
    BY <1>1, <1>6, <1>7
  <2>. QED
    BY <1>2, <1>4, <1>5, <1>6, <1>7, <2>1
<1>8. CASE n < TagLength
  <2>1. Len(noted) # TagLength
    BY <1>1, <1>6, <1>8
  <2>. QED
    BY <1>1, <1>2, <1>4, <1>5, <1>8, <2>1
<1>9. n >= TagLength \/ n < TagLength
  BY <1>1
<1>. QED
  BY <1>7, <1>8, <1>9

\* One more token.
LEMMA OneMoreToken ==
  ASSUME BudgetTypeOK, NEW token \in Vocabulary, written' = Append(written, token),
         UNCHANGED <<closing, budget>>
  PROVE  /\ Len(written) \in Nat /\ written' \in Seq(Vocabulary) /\ Len(written') = Len(written) + 1
         /\ \A i \in 1 .. Len(written) : written'[i] = written[i]
         /\ written'[Len(written) + 1] = token /\ written' # << >>
         /\ TagLength' = TagLength /\ ForceSequence' = ForceSequence /\ FreeTokens' = FreeTokens
         /\ LengthOfForced' = LengthOfForced
         /\ \A n \in 0 .. Len(written) : EndsTag(n)' <=> EndsTag(n)
<1>1. /\ Len(written) \in Nat /\ written' \in Seq(Vocabulary) /\ Len(written') = Len(written) + 1
      /\ \A i \in 1 .. Len(written) : written'[i] = written[i]
      /\ written'[Len(written) + 1] = token /\ written' # << >>
  BY DEF BudgetTypeOK
<1>2. /\ TagLength' = TagLength /\ ForceSequence' = ForceSequence /\ FreeTokens' = FreeTokens
      /\ LengthOfForced' = LengthOfForced
  BY DEF TagLength, ForceSequence, FreeTokens, LengthOfForced
<1>3. TagLength \in Nat \ {0}
  BY ForcedItems
<1>4. ASSUME NEW n \in 0 .. Len(written) PROVE EndsTag(n)' <=> EndsTag(n)
  <2>1. EndsTag(n) <=> n >= TagLength /\ \A i \in 1 .. TagLength : written[n - TagLength + i] = closing.end[i]
    BY <1>1, <1>3 DEF EndsTag
  <2>2. EndsTag(n)' <=> n >= TagLength /\ \A i \in 1 .. TagLength : written'[n - TagLength + i] = closing.end[i]
    BY <1>1, <1>2, <1>3 DEF EndsTag
  <2>3. n >= TagLength => \A i \in 1 .. TagLength : written'[n - TagLength + i] = written[n - TagLength + i]
    BY <1>1, <1>3
  <2>. QED
    BY <2>1, <2>2, <2>3
<1>. QED
  BY <1>1, <1>2, <1>4


\* What was noted of the last token, while the processor counts.
LEMMA NotedCount ==
  ASSUME BudgetTypeOK, counter.phase = "counting", Counting, NEW c, c = Noted(counter)
  PROVE  /\ c \in [thinking : BOOLEAN, used : Nat, first : BOOLEAN, forced : Nat, recent : Seq(Vocabulary),
                   phase : {"counting", "forcing", "suppressing", "done"}]
         /\ c.forced = 0
         /\ \/ c.phase = "done" /\ \E n \in 1 .. FreeTokens : EndsTag(n)
            \/ /\ c.phase = "counting" /\ c.thinking /\ c.used = Len(written) /\ ~c.first
               /\ Window(c.recent, Len(written))
               /\ \A n \in 1 .. Len(written) : ~EndsTag(n)
<1>1. CASE written = << >>
  <2>1. counter.first /\ c = [counter EXCEPT !.first = FALSE]
    BY <1>1 DEF Counting, Noted
  <2>2. Window(counter.recent, 0)
    BY <1>1 DEF Counting, WindowKept
  <2>3. Len(written) = 0
    BY <1>1
  <2>4. c.recent = counter.recent
    BY <2>1 DEF BudgetTypeOK
  <2>5. Window(c.recent, Len(written))
    BY <2>2, <2>3, <2>4
  <2>6. c \in [thinking : BOOLEAN, used : Nat, first : BOOLEAN, forced : Nat, recent : Seq(Vocabulary),
               phase : {"counting", "forcing", "suppressing", "done"}]
    BY <2>1 DEF BudgetTypeOK
  <2>7. /\ c.forced = counter.forced /\ c.phase = counter.phase /\ c.thinking = counter.thinking
        /\ c.used = counter.used /\ c.first = FALSE
    BY <2>1 DEF BudgetTypeOK
  <2>. QED
    BY <2>3, <2>5, <2>6, <2>7 DEF Counting
<1>2. CASE written # << >>
  <2>. DEFINE n == Len(written)
              noted == LastOf(Append(counter.recent, Last(written)), TagLength)
  <2>1. n \in Nat \ {0} /\ ~counter.first
    BY <1>2 DEF BudgetTypeOK, Counting
  <2>2. Window(counter.recent, n - 1)
    BY <1>2 DEF Counting, WindowKept
  <2>3. Window(noted, n) /\ (noted = closing.end <=> EndsTag(n))
    BY <1>2, <2>2, NotedWindow
  <2>4. c = IF noted = closing.end
            THEN [counter EXCEPT !.recent = noted, !.thinking = FALSE, !.phase = "done"]
            ELSE [counter EXCEPT !.recent = noted, !.thinking = @ \/ Last(written) = ThinkStart]
    BY <1>2, <2>1 DEF Noted, AfterToken, TagLength
  <2>. HIDE DEF noted
  <2>5. noted \in Seq(Vocabulary)
    BY <2>3 DEF Window
  <2>6. CASE noted = closing.end
    <3>1. n \in 1 .. FreeTokens /\ EndsTag(n)
      BY <2>1, <2>3, <2>6, ForcedItems DEF Counting
    <3>2. c = [counter EXCEPT !.recent = noted, !.thinking = FALSE, !.phase = "done"]
      BY <2>4, <2>6
    <3>. QED
      BY <2>5, <3>1, <3>2 DEF BudgetTypeOK, Counting
  <2>7. CASE noted # closing.end
    <3>1. c = [counter EXCEPT !.recent = noted, !.thinking = @ \/ Last(written) = ThinkStart]
      BY <2>4, <2>7
    <3>2. c = [counter EXCEPT !.recent = noted, !.thinking = TRUE]
      BY <3>1 DEF Counting, BudgetTypeOK
    <3>3. ASSUME NEW m \in 1 .. n PROVE ~EndsTag(m)
      BY <2>1, <2>3, <2>7 DEF Counting
    <3>4. c.recent = noted
      BY <3>2 DEF BudgetTypeOK
    <3>5. Window(c.recent, n)
      BY <2>3, <3>4
    <3>6. c \in [thinking : BOOLEAN, used : Nat, first : BOOLEAN, forced : Nat, recent : Seq(Vocabulary),
                 phase : {"counting", "forcing", "suppressing", "done"}]
      BY <2>5, <3>2 DEF BudgetTypeOK
    <3>7. /\ c.forced = counter.forced /\ c.phase = counter.phase /\ c.thinking = TRUE
          /\ c.used = counter.used /\ c.first = counter.first
      BY <3>2 DEF BudgetTypeOK
    <3>. QED
      BY <2>1, <3>3, <3>5, <3>6, <3>7 DEF Counting
  <2>. QED
    BY <2>6, <2>7
<1>. QED
  BY <1>1, <1>2

\* What was forced stays.
LEMMA ForcedStays ==
  ASSUME BudgetTypeOK, NEW token \in Vocabulary, written' = Append(written, token),
         UNCHANGED <<closing, budget>>, NEW n \in Nat, n <= LengthOfForced, ForcedPart(n)
  PROVE  /\ ForcedPart(n)'
         /\ Len(written) = FreeTokens + n /\ n < LengthOfForced /\ token = ForceSequence[n + 1] => ForcedPart(n + 1)'
         /\ (\A m \in 1 .. FreeTokens : ~EndsTag(m)) => \A m \in 1 .. FreeTokens' : ~EndsTag(m)'
<1>1. FreeTokens \in Nat /\ LengthOfForced \in Nat
  BY ForcedItems
<1>2. /\ Len(written) \in Nat /\ Len(written') = Len(written) + 1
      /\ \A i \in 1 .. Len(written) : written'[i] = written[i]
      /\ written'[Len(written) + 1] = token
      /\ ForceSequence' = ForceSequence /\ FreeTokens' = FreeTokens
      /\ \A m \in 0 .. Len(written) : EndsTag(m)' <=> EndsTag(m)
  BY OneMoreToken
<1>3. FreeTokens + n <= Len(written) /\ \A i \in 1 .. n : written[FreeTokens + i] = ForceSequence[i]
  BY DEF ForcedPart
<1>4. \A i \in 1 .. n : written'[FreeTokens + i] = ForceSequence[i]
  <2>. TAKE i \in 1 .. n
  <2>1. FreeTokens + i \in 1 .. Len(written)
    BY <1>1, <1>2, <1>3
  <2>. QED
    BY <1>2, <1>3, <2>1
<1>5. ForcedPart(n)'
  BY <1>1, <1>2, <1>3, <1>4 DEF ForcedPart
<1>6. ASSUME Len(written) = FreeTokens + n, n < LengthOfForced, token = ForceSequence[n + 1]
      PROVE  ForcedPart(n + 1)'
  <2>1. Len(written) + 1 = FreeTokens + (n + 1)
    BY <1>1, <1>6
  <2>2. written'[FreeTokens + (n + 1)] = ForceSequence[n + 1]
    BY <1>2, <1>6, <2>1
  <2>3. ASSUME NEW i \in 1 .. n + 1 PROVE written'[FreeTokens + i] = ForceSequence[i]
    <3>1. i \in 1 .. n \/ i = n + 1
      OBVIOUS
    <3>. QED
      BY <1>4, <2>2, <3>1
  <2>. QED
    BY <1>1, <1>2, <2>1, <2>3 DEF ForcedPart
<1>7. ASSUME \A m \in 1 .. FreeTokens : ~EndsTag(m), NEW m \in 1 .. FreeTokens' PROVE ~EndsTag(m)'
  <2>1. m \in 0 .. Len(written) /\ m \in 1 .. FreeTokens
    BY <1>1, <1>2, <1>3
  <2>. QED
    BY <1>2, <1>7, <2>1
<1>. QED
  BY <1>5, <1>6, <1>7

\* The state after a call that does not force yet.
LEMMA CountingGoesOn ==
  ASSUME BudgetTypeOK, counter.phase = "counting", Counting, BudgetNext
  PROVE  BudgetInv'
<1>. DEFINE c == Noted(counter)
            n == Len(written)
            CounterStates == [thinking : BOOLEAN, used : Nat, first : BOOLEAN, forced : Nat, recent : Seq(Vocabulary),
                         phase : {"counting", "forcing", "suppressing", "done"}]
<1>1. /\ c \in CounterStates /\ c.forced = 0
      /\ \/ c.phase = "done" /\ \E m \in 1 .. FreeTokens : EndsTag(m)
         \/ /\ c.phase = "counting" /\ c.thinking /\ c.used = n /\ ~c.first
            /\ Window(c.recent, n) /\ \A m \in 1 .. n : ~EndsTag(m)
  BY NotedCount
<1>2. counter' = Charged(c)
  BY DEF BudgetNext, GenerateToken, Called
<1>. HIDE DEF c
<1>3. /\ UNCHANGED <<closing, budget>>
      /\ FreeTokens \in Nat /\ (budget > 0 => FreeTokens = budget - 1) /\ (budget = 0 => FreeTokens = 0)
      /\ LengthOfForced \in Nat \ {0} /\ budget \in Nat /\ n \in Nat /\ n <= FreeTokens
      /\ ForceSequence \in Seq(Vocabulary) /\ Len(ForceSequence) = LengthOfForced
  BY ForcedItems DEF BudgetNext, GenerateToken, BudgetTypeOK, Counting, LengthOfForced
<1>4. PICK token \in LeftBy(counter') : written' = Append(written, token)
  BY DEF BudgetNext, GenerateToken
<1>5. ASSUME token \in Vocabulary
      PROVE  /\ written' \in Seq(Vocabulary) /\ Len(written') = n + 1 /\ written' # << >>
             /\ \A i \in 1 .. n : written'[i] = written[i]
             /\ TagLength' = TagLength /\ FreeTokens' = FreeTokens /\ LengthOfForced' = LengthOfForced
             /\ \A m \in 0 .. n : EndsTag(m)' <=> EndsTag(m)
  BY <1>3, <1>4, <1>5, OneMoreToken
<1>6. ASSUME token \in Vocabulary, counter' \in CounterStates PROVE BudgetTypeOK'
  BY <1>3, <1>5, <1>6 DEF BudgetTypeOK
<1>7. CASE c.phase = "done"
  <2>1. counter' = c /\ token \in Vocabulary
    BY <1>2, <1>4, <1>7 DEF Charged, LeftBy
  <2>2. PICK m \in 1 .. FreeTokens : EndsTag(m)
    BY <1>1, <1>7
  <2>3. m \in 0 .. n
    BY <2>2 DEF EndsTag
  <2>4. EndsTag(m)' /\ m \in 1 .. FreeTokens'
    BY <1>5, <2>1, <2>2, <2>3
  <2>5. ClosedByModel'
    BY <1>1, <2>1, <2>4 DEF ClosedByModel
  <2>. QED
    BY <1>1, <1>6, <1>7, <2>1, <2>5 DEF BudgetInv
<1>8. CASE c.phase = "counting" /\ c.used + 1 >= budget
  <2>1. counter' = [c EXCEPT !.used = @ + 1, !.phase = "forcing", !.forced = 0]
    BY <1>1, <1>2, <1>8 DEF Charged
  <2>2. /\ counter' \in CounterStates /\ counter'.phase = "forcing" /\ counter'.forced = 0
        /\ counter'.first = c.first
    <3>1. counter' \in CounterStates
      <4>1. c.used + 1 \in Nat /\ 0 \in Nat
        BY <1>1
      <4>2. counter' = [c EXCEPT !.used = c.used + 1, !.phase = "forcing", !.forced = 0]
        BY <1>1, <2>1
      <4>. QED
        BY <1>1, <4>1, <4>2
    <3>2. /\ counter'.phase = "forcing" /\ counter'.forced = 0
          /\ counter'.first = c.first
      BY <1>1, <2>1
    <3>. QED
      BY <3>1, <3>2
  <2>3. token = ForceSequence[1] /\ token \in Vocabulary
    BY <1>3, <1>4, <2>2 DEF LeftBy
  <2>4. n = FreeTokens
    BY <1>1, <1>3, <1>8
  <2>5. ForcedPart(0) /\ 0 <= LengthOfForced
    BY <1>3, <2>4 DEF ForcedPart
  <2>6. ForcedPart(1)' /\ \A m \in 1 .. FreeTokens' : ~EndsTag(m)'
    <3>1. /\ Len(written) = FreeTokens + 0 /\ 0 < LengthOfForced /\ token = ForceSequence[0 + 1] /\ 0 + 1 = 1
          /\ \A m \in 1 .. FreeTokens : ~EndsTag(m)
      BY <1>1, <1>3, <1>8, <2>3, <2>4
    <3>2. ForcedPart(0 + 1)' /\ \A m \in 1 .. FreeTokens' : ~EndsTag(m)'
      BY <1>3, <1>4, <2>3, <2>5, <3>1, ForcedStays
    <3>. QED
      BY <3>1, <3>2
  <2>7. Forcing'
    <3>1. counter'.forced < LengthOfForced' /\ Len(written') = FreeTokens' + counter'.forced + 1
      BY <1>3, <1>5, <2>2, <2>3, <2>4
    <3>2. counter'.forced + 1 = 1 /\ ~counter'.first
      BY <1>1, <1>8, <2>2
    <3>3. ForcedPart(counter.forced + 1)'
      <4>1. FreeTokens' + 1 <= Len(written') /\ \A i \in 1 .. 1 : written'[FreeTokens' + i] = ForceSequence'[i]
        BY <2>6 DEF ForcedPart
      <4>. QED
        BY <3>2, <4>1 DEF ForcedPart
    <3>. QED
      BY <2>6, <3>1, <3>2, <3>3 DEF Forcing
  <2>. QED
    BY <1>6, <2>2, <2>3, <2>7 DEF BudgetInv
<1>9. CASE c.phase = "counting" /\ ~(c.used + 1 >= budget)
  <2>1. counter' = [c EXCEPT !.used = @ + 1]
    BY <1>1, <1>2, <1>9 DEF Charged
  <2>2. /\ counter' \in CounterStates /\ counter'.phase = "counting" /\ counter'.forced = 0
        /\ counter'.first = c.first /\ counter'.thinking = c.thinking /\ counter'.used = n + 1
        /\ counter'.recent = c.recent
    BY <1>1, <1>9, <2>1
  <2>3. token \in Vocabulary
    BY <1>4, <2>2 DEF LeftBy
  <2>4. n + 1 <= FreeTokens
    BY <1>1, <1>3, <1>9
  <2>5. WindowKept'
    <3>1. Len(written') - 1 = n /\ written' # << >>
      BY <1>3, <1>5, <2>3
    <3>2. /\ c.recent \in Seq(Vocabulary) /\ Len(c.recent) \in Nat /\ Len(c.recent) <= TagLength
          /\ Len(c.recent) <= n /\ Len(c.recent) \in {TagLength, n}
          /\ \A i \in 1 .. Len(c.recent) : c.recent[i] = written[n - Len(c.recent) + i]
      BY <1>1, <1>9 DEF Window
    <3>3. ASSUME NEW i \in 1 .. Len(c.recent) PROVE c.recent[i] = written'[n - Len(c.recent) + i]
      <4>1. n - Len(c.recent) + i \in 1 .. n
        BY <1>3, <3>2
      <4>. QED
        BY <1>5, <2>3, <3>2, <4>1
    <3>4. PICK k \in Nat : k = n
      BY <1>3
    <3>5. Window(counter.recent, k)'
      BY <1>5, <2>2, <2>3, <3>2, <3>3, <3>4 DEF Window
    <3>6. (IF written = << >> THEN 0 ELSE Len(written) - 1)' = k
      BY <3>1, <3>4
    <3>. QED
      BY <3>5, <3>6 DEF WindowKept, Window
  <2>6. ASSUME NEW m \in 1 .. Len(written') - 1 PROVE ~EndsTag(m)'
    <3>1. m \in 1 .. n /\ m \in 0 .. n
      BY <1>3, <1>5, <2>3
    <3>. QED
      BY <1>1, <1>5, <1>9, <2>3, <3>1
  <2>7. Counting'
    BY <1>1, <1>5, <1>9, <2>2, <2>3, <2>4, <2>5, <2>6 DEF Counting
  <2>. QED
    BY <1>6, <2>2, <2>3, <2>7 DEF BudgetInv
<1>. QED
  BY <1>1, <1>7, <1>8, <1>9

\* The tag that was forced begins at the limit.
LEMMA ForcedTag ==
  ASSUME BudgetTypeOK, NEW n \in Nat, ForcedPart(n), n >= Len(closing.leading) + TagLength
  PROVE  EndsTag(FreeTokens + Len(closing.leading) + TagLength)
<1>1. /\ TagLength \in Nat \ {0} /\ Len(closing.leading) \in Nat /\ FreeTokens \in Nat
      /\ \A i \in 1 .. TagLength : ForceSequence[Len(closing.leading) + i] = closing.end[i]
  BY ForcedItems
<1>2. FreeTokens + n <= Len(written) /\ \A i \in 1 .. n : written[FreeTokens + i] = ForceSequence[i]
  BY DEF ForcedPart
<1>3. Len(written) \in Nat
  BY DEF BudgetTypeOK
<1>. DEFINE a == Len(closing.leading)
            p == FreeTokens + a + TagLength
<1>4. p \in TagLength .. Len(written)
  BY <1>1, <1>2, <1>3
<1>5. ASSUME NEW i \in 1 .. TagLength PROVE written[p - TagLength + i] = closing.end[i]
  <2>1. a + i \in 1 .. n /\ p - TagLength + i = FreeTokens + (a + i)
    BY <1>1
  <2>2. written[FreeTokens + (a + i)] = ForceSequence[a + i]
    BY <1>2, <2>1
  <2>. QED
    BY <1>1, <2>1, <2>2
<1>. QED
  BY <1>4, <1>5 DEF EndsTag

\* Where a tag ends in what was forced.
LEMMA EndsOnce ==
  ASSUME BudgetTypeOK, NEW k \in Nat, k <= LengthOfForced, ForcedPart(k),
         \A m \in 1 .. FreeTokens : ~EndsTag(m),
         NEW n \in Nat, n <= FreeTokens + k, EndsTag(n)
  PROVE  n = FreeTokens + Len(closing.leading) + TagLength
<1>1. /\ TagLength \in Nat \ {0} /\ Len(closing.leading) \in Nat /\ FreeTokens \in Nat
      /\ LengthOfForced \in Nat
      /\ \A d \in 1 .. LengthOfForced :
           ForceSequence[d] = closing.end[TagLength] => d = Len(closing.leading) + TagLength
  BY ForcedItems
<1>2. n >= TagLength /\ written[n - TagLength + TagLength] = closing.end[TagLength]
  BY <1>1 DEF EndsTag
<1>3. n - TagLength + TagLength = n /\ n > FreeTokens
  BY <1>1, <1>2
<1>. DEFINE d == n - FreeTokens
<1>4. d \in 1 .. k /\ n = FreeTokens + d /\ d \in 1 .. LengthOfForced
  BY <1>1, <1>3
<1>. HIDE DEF d
<1>5. written[n] = ForceSequence[d]
  BY <1>4 DEF ForcedPart
<1>6. d = Len(closing.leading) + TagLength
  BY <1>1, <1>2, <1>3, <1>4, <1>5
<1>. QED
  BY <1>1, <1>4, <1>6

\* The positions of BudgetKept.
LEMMA ClosedPositions ==
  ASSUME BudgetTypeOK
  PROVE  \A n \in Nat : n \in ClosedAt <=> EndsTag(n)
<1>1. TagLength \in Nat \ {0} /\ closing.end \in Seq(Vocabulary) /\ Len(closing.end) = TagLength
  BY ForcedItems DEF TagLength
<1>2. written \in Seq(Vocabulary) /\ Len(written) \in Nat
  BY DEF BudgetTypeOK
<1>3. ASSUME NEW n \in TagLength .. Len(written)
      PROVE  SubSeq(written, n - TagLength + 1, n) = closing.end
               <=> \A i \in 1 .. TagLength : written[n - TagLength + i] = closing.end[i]
  <2>. DEFINE x == SubSeq(written, n - TagLength + 1, n)
              a == n - TagLength + 1
  <2>1. a \in 1 .. Len(written) /\ n \in 1 .. Len(written) /\ n - a + 1 = TagLength
        /\ \A i \in 1 .. TagLength : a + i - 1 = n - TagLength + i
    BY <1>1, <1>2
  <2>2. x = SubSeq(written, a, n)
    OBVIOUS
  <2>. HIDE DEF a, x
  <2>3. x \in Seq(Vocabulary) /\ Len(x) = TagLength /\ \A i \in 1 .. TagLength : x[i] = written[a + i - 1]
    BY <1>1, <1>2, <2>1, <2>2, PartItems
  <2>4. Len(x) = TagLength /\ \A i \in 1 .. TagLength : x[i] = written[n - TagLength + i]
    BY <2>1, <2>3
  <2>5. x = closing.end <=> \A i \in 1 .. TagLength : x[i] = closing.end[i]
    <3>1. ASSUME \A i \in 1 .. TagLength : x[i] = closing.end[i] PROVE x = closing.end
      <4>. DEFINE e == closing.end
      <4>1. e \in Seq(Vocabulary) /\ Len(e) = Len(x) /\ \A i \in 1 .. Len(e) : x[i] = e[i]
        BY <1>1, <2>4, <3>1
      <4>2. x \in Seq(Vocabulary)
        BY <2>3
      <4>. HIDE DEF e
      <4>3. x = e
        BY <4>1, <4>2
      <4>. QED
        BY <4>3 DEF e
    <3>. QED
      BY <3>1
  <2>6. x = closing.end <=> \A i \in 1 .. TagLength : written[n - TagLength + i] = closing.end[i]
    BY <2>4, <2>5
  <2>. QED
    BY <2>6 DEF x
<1>4. ClosedAt = {n \in TagLength .. Len(written) : SubSeq(written, n - TagLength + 1, n) = closing.end}
  BY DEF ClosedAt, TagLength
<1>. QED
  BY <1>3, <1>4 DEF EndsTag

LEMMA BudgetInvKept == BudgetInv => BudgetKept
<1>. SUFFICES ASSUME BudgetInv PROVE BudgetKept
  OBVIOUS
<1>. DEFINE a == Len(closing.leading)
            p == FreeTokens + a + TagLength
<1>1. /\ TagLength \in Nat \ {0} /\ a \in Nat /\ FreeTokens \in Nat /\ BudgetTypeOK
      /\ LengthOfForced \in Nat \ {0} /\ LengthOfForced >= a + TagLength
      /\ ForceSequence \in Seq(Vocabulary) /\ Len(ForceSequence) = LengthOfForced
      /\ closing.end \in Seq(Vocabulary) /\ Len(closing.end) = TagLength
      /\ written \in Seq(Vocabulary) /\ Len(written) \in Nat
      /\ counter.forced \in Nat
  <2>1. BudgetTypeOK
    BY DEF BudgetInv
  <2>2. /\ TagLength \in Nat \ {0} /\ a \in Nat /\ FreeTokens \in Nat
        /\ LengthOfForced \in Nat \ {0} /\ LengthOfForced >= a + TagLength
        /\ ForceSequence \in Seq(Vocabulary) /\ closing.end \in Seq(Vocabulary)
    BY <2>1, ForcedItems
  <2>3. Len(ForceSequence) = LengthOfForced /\ Len(closing.end) = TagLength
    BY DEF LengthOfForced, TagLength
  <2>4. written \in Seq(Vocabulary) /\ Len(written) \in Nat /\ counter.forced \in Nat
    BY <2>1 DEF BudgetTypeOK
  <2>. QED
    BY <2>1, <2>2, <2>3, <2>4
<1>2. /\ counter.phase = "forcing" => Forcing
      /\ counter.phase = "suppressing" => Suppressing
      /\ counter.phase \in {"counting", "done"} => counter.forced = 0
      /\ counter.phase \in {"counting", "forcing", "suppressing", "done"}
  BY DEF BudgetInv, Counting, ClosedByModel
<1>3. /\ FreeTokens \in Nat /\ LengthOfForced \in Nat /\ LengthOfForced >= a + TagLength
      /\ Len(written) \in Nat /\ counter.forced \in Nat /\ a \in Nat /\ TagLength \in Nat
  BY <1>1
<1>4. \A n \in Nat : n \in ClosedAt <=> EndsTag(n)
  BY <1>1, ClosedPositions
<1>5. ASSUME Len(written) >= p PROVE \E n \in ClosedAt : n <= p
  <2>1. CASE counter.phase = "counting"
    BY <1>1, <1>5, <2>1 DEF BudgetInv, Counting
  <2>2. CASE counter.phase = "forcing"
    <3>1. Len(written) = FreeTokens + counter.forced + 1 /\ ForcedPart(counter.forced + 1)
      BY <2>2 DEF BudgetInv, Forcing
    <3>2. counter.forced + 1 \in Nat /\ counter.forced + 1 >= a + TagLength
      <4>1. FreeTokens + counter.forced + 1 >= FreeTokens + a + TagLength
        BY <1>5, <3>1
      <4>. HIDE DEF a
      <4>. QED
        BY <1>3, <4>1
    <3>3. EndsTag(p)
      BY <1>1, <3>1, <3>2, ForcedTag
    <3>. QED
      BY <1>1, <1>4, <3>3
  <2>3. CASE counter.phase = "suppressing"
    <3>1. ForcedPart(LengthOfForced) /\ LengthOfForced \in Nat /\ LengthOfForced >= a + TagLength
      BY <1>2, <1>3, <2>3 DEF Suppressing
    <3>2. EndsTag(p)
      BY <1>1, <3>1, ForcedTag
    <3>. QED
      BY <1>1, <1>4, <3>2
  <2>4. CASE counter.phase = "done"
    <3>1. PICK n \in 1 .. FreeTokens : EndsTag(n)
      BY <2>4 DEF BudgetInv, ClosedByModel
    <3>. QED
      BY <1>1, <1>4, <3>1
  <2>. QED
    BY <2>1, <2>2, <2>3, <2>4 DEF BudgetInv
<1>6. ASSUME WasForced PROVE Cardinality(ClosedAt) <= 1
  <2>1. ASSUME NEW n \in Nat, EndsTag(n) PROVE n = p
    <3>1. CASE counter.phase = "forcing"
      <4>1. /\ Len(written) = FreeTokens + (counter.forced + 1) /\ ForcedPart(counter.forced + 1)
            /\ counter.forced + 1 \in Nat /\ counter.forced + 1 <= LengthOfForced
            /\ \A m \in 1 .. FreeTokens : ~EndsTag(m)
        <5>1. /\ counter.forced < LengthOfForced /\ Len(written) = FreeTokens + counter.forced + 1
              /\ ForcedPart(counter.forced + 1) /\ \A m \in 1 .. FreeTokens : ~EndsTag(m)
          BY <1>2, <3>1 DEF Forcing
        <5>2. /\ FreeTokens + counter.forced + 1 = FreeTokens + (counter.forced + 1)
              /\ counter.forced + 1 \in Nat /\ counter.forced + 1 <= LengthOfForced
          BY <1>3, <5>1
        <5>. QED
          BY <5>1, <5>2
      <4>2. n <= FreeTokens + (counter.forced + 1)
        BY <1>1, <2>1, <4>1 DEF EndsTag
      <4>. QED
        BY <1>1, <2>1, <4>1, <4>2, EndsOnce
    <3>2. CASE counter.phase = "suppressing"
      <4>1. /\ ForcedPart(LengthOfForced) /\ LengthOfForced \in Nat
            /\ \A m \in 1 .. FreeTokens : ~EndsTag(m)
            /\ \A m \in FreeTokens + LengthOfForced + 1 .. Len(written) : written[m] \notin ToSet(closing.end)
        BY <1>2, <1>3, <3>2 DEF Suppressing
      <4>2. n \in TagLength .. Len(written) /\ written[n - TagLength + TagLength] = closing.end[TagLength]
        <5>1. TagLength \in 1 .. TagLength
          BY <1>1
        <5>. QED
          BY <2>1, <5>1 DEF EndsTag
      <4>3. n - TagLength + TagLength = n
        BY <1>1
      <4>4. closing.end[TagLength] \in ToSet(closing.end)
        BY <1>1 DEF ToSet
      <4>5. n \notin FreeTokens + LengthOfForced + 1 .. Len(written)
        BY <4>1, <4>2, <4>3, <4>4
      <4>6. n <= FreeTokens + LengthOfForced
        <5>1. n <= Len(written)
          BY <4>2
        <5>. QED
          BY <1>3, <4>5, <5>1
      <4>7. LengthOfForced <= LengthOfForced
        BY <1>3
      <4>. QED
        BY <1>1, <1>3, <2>1, <4>1, <4>6, <4>7, EndsOnce
    <3>3. CASE counter.phase \in {"counting", "done"}
      BY <1>6, <1>2, <3>3 DEF WasForced
    <3>. QED
      BY <1>2, <3>1, <3>2, <3>3
  <2>2. ClosedAt \subseteq {p}
    <3>1. ClosedAt \subseteq Nat
      BY <1>1 DEF ClosedAt
    <3>. QED
      BY <1>4, <2>1, <3>1
  <2>3. IsFiniteSet({p}) /\ Cardinality({p}) = 1
    BY FS_Singleton
  <2>4. Cardinality(ClosedAt) <= Cardinality({p})
    BY <2>2, <2>3, FS_Subset
  <2>. QED
    BY <2>3, <2>4
<1>7. ASSUME counter.phase = "suppressing"
      PROVE  SubSeq(written, FreeTokens + 1, FreeTokens + Len(ForceSequence)) = ForceSequence
  <2>. DEFINE l == LengthOfForced
              m == FreeTokens + l
              x == SubSeq(written, FreeTokens + 1, m)
  <2>1. ForcedPart(l)
    BY <1>7, <1>2 DEF Suppressing
  <2>2. m <= Len(written) /\ \A i \in 1 .. l : written[FreeTokens + i] = ForceSequence[i]
    BY <2>1 DEF ForcedPart
  <2>3. /\ l \in Nat \ {0} /\ m \in 1 .. Len(written) /\ FreeTokens + 1 \in 1 .. Len(written)
        /\ m - (FreeTokens + 1) + 1 = l
        /\ \A i \in 1 .. l : FreeTokens + 1 + i - 1 = FreeTokens + i
    <3>1. l \in Nat \ {0} /\ m = FreeTokens + l
      BY <1>1, Zenon
    <3>. HIDE DEF l, m
    <3>. QED
      BY <1>1, <2>2, <3>1
  <2>. HIDE DEF l, m
  <2>4. /\ x \in Seq(Vocabulary) /\ Len(x) = m - (FreeTokens + 1) + 1
        /\ \A i \in 1 .. m - (FreeTokens + 1) + 1 : x[i] = written[FreeTokens + 1 + i - 1]
    <3>. DEFINE b == FreeTokens + 1
    <3>1. b \in 1 .. Len(written) /\ m \in 1 .. Len(written) /\ l \in Nat /\ l = m - b + 1
      BY <2>3
    <3>2. x = SubSeq(written, b, m)
      OBVIOUS
    <3>. HIDE DEF b, x
    <3>3. x \in Seq(Vocabulary) /\ Len(x) = l /\ \A i \in 1 .. l : x[i] = written[b + i - 1]
      BY <1>1, <3>1, <3>2, PartItems
    <3>. QED
      BY <2>3, <3>3 DEF b
  <2>. HIDE DEF x
  <2>5. Len(x) = l /\ \A i \in 1 .. l : x[i] = ForceSequence[i]
    BY <2>2, <2>3, <2>4
  <2>6. Len(ForceSequence) = l
    BY <1>1 DEF l
  <2>7. x = ForceSequence
    <3>1. Len(x) = Len(ForceSequence) /\ \A i \in 1 .. Len(x) : x[i] = ForceSequence[i]
      BY <2>5, <2>6
    <3>2. x \in Seq(Vocabulary) /\ ForceSequence \in Seq(Vocabulary)
      BY <1>1, <2>4
    <3>. HIDE DEF l
    <3>. QED
      BY <3>1, <3>2
  <2>. QED
    BY <1>1, <2>7 DEF x, m, l
<1>. QED
  BY <1>1, <1>5, <1>6, <1>7 DEF BudgetKept

LEMMA BudgetStep == BudgetInv /\ [BudgetNext]_budgetVars => BudgetInv'
<1>. SUFFICES ASSUME BudgetInv, [BudgetNext]_budgetVars PROVE BudgetInv'
  OBVIOUS
<1>1. CASE UNCHANGED budgetVars
  <2>1. /\ UNCHANGED <<closing, budget, counter, written>>
        /\ TagLength' = TagLength /\ ForceSequence' = ForceSequence /\ FreeTokens' = FreeTokens
    BY <1>1 DEF budgetVars, TagLength, ForceSequence, FreeTokens
  <2>2. LengthOfForced' = LengthOfForced
    BY <2>1 DEF LengthOfForced
  <2>3. \A n : EndsTag(n)' <=> EndsTag(n)
    BY <2>1 DEF EndsTag
  <2>4. WindowKept' <=> WindowKept
    BY <2>1 DEF WindowKept, Window
  <2>5. Counting' <=> Counting
    BY <2>1, <2>3, <2>4 DEF Counting
  <2>6. Forcing' <=> Forcing
    BY <2>1, <2>2, <2>3 DEF Forcing, ForcedPart
  <2>7. Suppressing' <=> Suppressing
    BY <2>1, <2>2, <2>3 DEF Suppressing, ForcedPart
  <2>8. ClosedByModel' <=> ClosedByModel
    BY <2>1, <2>3 DEF ClosedByModel
  <2>9. BudgetTypeOK' <=> BudgetTypeOK
    BY <2>1 DEF BudgetTypeOK
  <2>. QED
    BY <2>1, <2>5, <2>6, <2>7, <2>8, <2>9 DEF BudgetInv
<1>2. CASE BudgetNext
  <2>. DEFINE c == counter
              n == Len(written)
              f == FreeTokens
  <2>1. /\ BudgetTypeOK /\ UNCHANGED <<closing, budget>> /\ counter' = Called(counter)
        /\ n \in Nat /\ f \in Nat /\ LengthOfForced \in Nat \ {0}
        /\ ForceSequence \in Seq(Vocabulary) /\ Len(ForceSequence) = LengthOfForced
        /\ closing.end \in Seq(Vocabulary)
    <3>1. BudgetTypeOK /\ UNCHANGED <<closing, budget>> /\ counter' = Called(counter)
      BY <1>2 DEF BudgetInv, BudgetNext, GenerateToken
    <3>2. /\ TagLength \in Nat \ {0} /\ LengthOfForced \in Nat \ {0} /\ f \in Nat
          /\ ForceSequence \in Seq(Vocabulary) /\ closing.end \in Seq(Vocabulary)
      BY <3>1, ForcedItems
    <3>3. n \in Nat /\ Len(ForceSequence) = LengthOfForced
      BY <3>1 DEF BudgetTypeOK, LengthOfForced
    <3>. QED
      BY <3>1, <3>2, <3>3
  <2>2. PICK token \in LeftBy(counter') : written' = Append(written, token)
    BY <1>2 DEF BudgetNext, GenerateToken
  <2>3. ASSUME token \in Vocabulary
        PROVE  /\ written' \in Seq(Vocabulary) /\ Len(written') = n + 1 /\ written' # << >>
               /\ \A i \in 1 .. n : written'[i] = written[i]
               /\ written'[n + 1] = token
               /\ FreeTokens' = f /\ LengthOfForced' = LengthOfForced
               /\ \A m \in 0 .. n : EndsTag(m)' <=> EndsTag(m)
    BY <2>1, <2>2, <2>3, OneMoreToken
  <2>4. CASE c.phase = "counting"
    BY <1>2, <2>1, <2>4, CountingGoesOn DEF BudgetInv
  <2>5. CASE c.phase = "forcing"
    <3>1. /\ c.forced < LengthOfForced /\ n = f + c.forced + 1 /\ ~c.first
          /\ ForcedPart(c.forced + 1) /\ \A m \in 1 .. f : ~EndsTag(m)
      BY <2>5 DEF BudgetInv, Forcing
    <3>2. written # << >> /\ c.forced \in Nat
      BY <2>1, <3>1 DEF BudgetTypeOK
    <3>3. Noted(c) = IF c.forced + 1 >= LengthOfForced
                     THEN [c EXCEPT !.forced = @ + 1, !.thinking = FALSE, !.phase = "suppressing"]
                     ELSE [c EXCEPT !.forced = @ + 1]
      BY <2>1, <2>5, <3>1, <3>2 DEF Noted, AfterToken, PhaseAfterForced
    <3>4. CASE c.forced + 1 >= LengthOfForced
      <4>1. Noted(c) = [c EXCEPT !.forced = c.forced + 1, !.thinking = FALSE, !.phase = "suppressing"]
        BY <3>3, <3>4
      <4>2. Noted(c).phase = "suppressing" /\ Noted(c).forced = c.forced + 1
        BY <2>1, <4>1 DEF BudgetTypeOK
      <4>3. counter' = Noted(c)
        BY <2>1, <2>5, <4>2 DEF Called, Charged
      <4>4. token \in Vocabulary \ ToSet(closing.end)
        BY <2>2, <4>2, <4>3 DEF LeftBy
      <4>5. c.forced + 1 = LengthOfForced
        BY <2>1, <3>1, <3>2, <3>4
      <4>6. ForcedPart(LengthOfForced)' /\ \A m \in 1 .. FreeTokens' : ~EndsTag(m)'
        <5>1. PICK k \in Nat : k = LengthOfForced
          BY <2>1
        <5>2. ForcedPart(k) /\ k <= LengthOfForced
          BY <2>1, <3>1, <4>5, <5>1
        <5>3. ForcedPart(k)' /\ \A m \in 1 .. FreeTokens' : ~EndsTag(m)'
          BY <2>1, <2>2, <3>1, <4>4, <5>2, ForcedStays
        <5>4. LengthOfForced' = k
          BY <2>3, <4>4, <5>1
        <5>. QED
          BY <5>3, <5>4 DEF ForcedPart
      <4>7. ASSUME NEW m \in FreeTokens' + LengthOfForced' + 1 .. Len(written') PROVE written'[m] \notin ToSet(closing'.end)
        <5>1. m = n + 1
          BY <2>1, <2>3, <3>1, <3>2, <4>4, <4>5
        <5>. QED
          BY <2>1, <2>3, <4>4, <5>1
      <4>8. Suppressing'
        BY <2>3, <4>2, <4>3, <4>4, <4>5, <4>6, <4>7 DEF Suppressing
      <4>9. counter' \in [thinking : BOOLEAN, used : Nat, first : BOOLEAN, forced : Nat, recent : Seq(Vocabulary),
                          phase : {"counting", "forcing", "suppressing", "done"}]
        <5>. DEFINE k == c.forced + 1
        <5>1. k \in Nat /\ counter' = [c EXCEPT !.forced = k, !.thinking = FALSE, !.phase = "suppressing"]
          BY <3>2, <4>1, <4>3
        <5>. HIDE DEF k
        <5>. QED
          BY <2>1, <5>1 DEF BudgetTypeOK
      <4>10. BudgetTypeOK'
        BY <2>1, <2>3, <4>4, <4>9 DEF BudgetTypeOK
      <4>. QED
        BY <4>2, <4>3, <4>8, <4>10 DEF BudgetInv
    <3>5. CASE ~(c.forced + 1 >= LengthOfForced)
      <4>. DEFINE k == c.forced + 1
      <4>1. Noted(c) = [c EXCEPT !.forced = k]
        BY <3>3, <3>5
      <4>2. k \in Nat /\ k < LengthOfForced /\ n = f + k /\ k + 1 \in 1 .. Len(ForceSequence)
        BY <2>1, <3>1, <3>2, <3>5
      <4>3. Noted(c).phase = "forcing" /\ Noted(c).forced = k /\ Noted(c).first = c.first
        BY <2>1, <2>5, <4>1 DEF BudgetTypeOK
      <4>4. counter' = Noted(c)
        BY <2>1, <2>5, <4>3 DEF Called, Charged
      <4>5. token = ForceSequence[k + 1] /\ token \in Vocabulary
        <5>1. token = ForceSequence[k + 1]
          BY <2>2, <4>3, <4>4 DEF LeftBy
        <5>. QED
          BY <2>1, <4>2, <5>1
      <4>6. PICK j \in Nat : j = k
        BY <4>2
      <4>7. ForcedPart(j + 1)' /\ \A m \in 1 .. FreeTokens' : ~EndsTag(m)'
        <5>1. ForcedPart(j) /\ j <= LengthOfForced /\ Len(written) = FreeTokens + j /\ j < LengthOfForced
              /\ token = ForceSequence[j + 1]
          BY <2>1, <3>1, <4>2, <4>5, <4>6
        <5>. QED
          BY <2>1, <2>2, <3>1, <4>5, <5>1, ForcedStays
      <4>8. Forcing'
        <5>1. counter'.forced = j /\ counter'.first = c.first
          BY <4>3, <4>4, <4>6
        <5>2. ForcedPart(counter.forced + 1)'
          BY <4>7, <5>1 DEF ForcedPart
        <5>3. counter'.forced < LengthOfForced' /\ Len(written') = FreeTokens' + counter'.forced + 1
          BY <2>1, <2>3, <4>2, <4>5, <4>6, <5>1
        <5>. QED
          BY <3>1, <4>7, <5>1, <5>2, <5>3 DEF Forcing
      <4>9. counter' \in [thinking : BOOLEAN, used : Nat, first : BOOLEAN, forced : Nat, recent : Seq(Vocabulary),
                          phase : {"counting", "forcing", "suppressing", "done"}]
        BY <2>1, <4>1, <4>2, <4>4 DEF BudgetTypeOK
      <4>10. BudgetTypeOK'
        BY <2>1, <2>3, <4>5, <4>9 DEF BudgetTypeOK
      <4>. QED
        BY <4>3, <4>4, <4>8, <4>10 DEF BudgetInv
    <3>. QED
      BY <3>4, <3>5
  <2>6. CASE c.phase = "suppressing"
    <3>1. counter' = counter /\ token \in Vocabulary \ ToSet(closing.end)
      BY <2>1, <2>2, <2>6 DEF Called, LeftBy
    <3>2. /\ c.forced = LengthOfForced /\ ForcedPart(LengthOfForced) /\ \A m \in 1 .. f : ~EndsTag(m)
          /\ \A m \in f + LengthOfForced + 1 .. n : written[m] \notin ToSet(closing.end)
      BY <2>6 DEF BudgetInv, Suppressing
    <3>3. PICK k \in Nat : k = LengthOfForced
      BY <2>1
    <3>4. ForcedPart(k)' /\ \A m \in 1 .. FreeTokens' : ~EndsTag(m)'
      <4>1. ForcedPart(k) /\ k <= LengthOfForced
        BY <3>2, <3>3
      <4>. QED
        BY <2>1, <2>2, <3>1, <3>2, <4>1, ForcedStays
    <3>5. LengthOfForced' = k
      BY <2>3, <3>1, <3>3
    <3>6. ForcedPart(LengthOfForced)'
      BY <3>4, <3>5 DEF ForcedPart
    <3>7. ASSUME NEW m \in FreeTokens' + LengthOfForced' + 1 .. Len(written')
          PROVE  written'[m] \notin ToSet(closing'.end)
      <4>1. m \in f + LengthOfForced + 1 .. n \/ m = n + 1
        <5>1. Len(written') = n + 1 /\ FreeTokens' = f /\ LengthOfForced' = LengthOfForced
          BY <2>3, <3>1
        <5>2. n \in Nat /\ f \in Nat /\ LengthOfForced \in Nat
          BY <2>1
        <5>3. m \in f + LengthOfForced + 1 .. n + 1
          BY <5>1
        <5>. HIDE DEF n, f
        <5>. QED
          BY <5>2, <5>3
      <4>2. CASE m \in f + LengthOfForced + 1 .. n
        <5>1. m \in 1 .. n
          BY <2>1, <4>2
        <5>. QED
          BY <2>1, <2>3, <3>1, <3>2, <4>2, <5>1
      <4>3. CASE m = n + 1
        BY <2>1, <2>3, <3>1, <4>3
      <4>. QED
        BY <4>1, <4>2, <4>3
    <3>8. Suppressing'
      BY <3>1, <3>2, <3>3, <3>4, <3>5, <3>6, <3>7 DEF Suppressing
    <3>9. BudgetTypeOK'
      BY <2>1, <2>3, <3>1 DEF BudgetTypeOK
    <3>. QED
      BY <2>6, <3>1, <3>8, <3>9 DEF BudgetInv
  <2>7. CASE c.phase = "done"
    <3>1. counter' = counter /\ token \in Vocabulary
      BY <2>1, <2>2, <2>7 DEF Called, LeftBy
    <3>2. PICK m \in 1 .. f : EndsTag(m)
      BY <2>7 DEF BudgetInv, ClosedByModel
    <3>3. m \in 0 .. n
      BY <3>2 DEF EndsTag
    <3>4. m \in 1 .. FreeTokens' /\ EndsTag(m)'
      BY <2>3, <3>1, <3>2, <3>3
    <3>5. ClosedByModel'
      BY <2>7, <3>1, <3>4 DEF BudgetInv, ClosedByModel
    <3>6. BudgetTypeOK'
      BY <2>1, <2>3, <3>1 DEF BudgetTypeOK
    <3>. QED
      BY <2>7, <3>1, <3>5, <3>6 DEF BudgetInv
  <2>. QED
    BY <2>1, <2>4, <2>5, <2>6, <2>7 DEF BudgetInv
<1>. QED
  BY <1>1, <1>2 DEF budgetVars

LEMMA BudgetStart == BudgetInit => BudgetInv
<1>. SUFFICES ASSUME BudgetInit PROVE BudgetInv
  OBVIOUS
<1>1. budget \in Nat
  <2>1. PICK request \in AtMostOne(Budgets), own \in AtMostOne(Budgets \ {0}) :
          budget \in ThinkingBudgetOf(request, own)
    BY DEF BudgetInit
  <2>2. request \subseteq Budgets /\ own \subseteq Budgets
    BY <2>1 DEF AtMostOne
  <2>. QED
    BY <2>1, <2>2, ThinkingBudgetAssumption DEF ThinkingBudgetOf
<1>2. closing \in Closings /\ written = << >> /\ Len(written) = 0
  BY DEF BudgetInit
<1>3. /\ counter \in [thinking : BOOLEAN, used : Nat, first : BOOLEAN, forced : Nat, recent : Seq(Vocabulary),
                      phase : {"counting", "forcing", "suppressing", "done"}]
      /\ counter.thinking = TRUE /\ counter.used = 0 /\ counter.first = TRUE /\ counter.forced = 0
      /\ counter.phase = "counting" /\ counter.recent = << >>
  BY DEF BudgetInit
<1>4. BudgetTypeOK
  BY <1>1, <1>2, <1>3 DEF BudgetTypeOK
<1>5. FreeTokens \in Nat /\ TagLength \in Nat
  BY <1>4, ForcedItems
<1>6. WindowKept
  BY <1>2, <1>3, <1>5 DEF WindowKept, Window
<1>. QED
  BY <1>2, <1>3, <1>4, <1>5, <1>6 DEF BudgetInv, Counting

\* BudgetKept: a thought is closed in time, also when the model had begun the tag
\* itself, and what the processor forces is written whole and closes once.
THEOREM ThinkingBudgetKept == BudgetSpec => []BudgetKept
<1>. QED
  BY BudgetStart, BudgetStep, BudgetInvKept, PTL DEF BudgetSpec
=============================================================================
