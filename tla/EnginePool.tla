------------------------------ MODULE EnginePool ------------------------------
(***************************************************************************)
(* EnginePool of omlx/engine_pool.py with its users: clients that get an   *)
(* engine and generate on it (BatchedEngine of omlx/engine/batched.py),    *)
(* the ProcessMemoryEnforcer of omlx/process_memory_enforcer.py with its   *)
(* TTL check, the admin and benchmark routes that unload engines without   *)
(* the pool's lock, those that change its limit or switch the enforcer off *)
(* and on, and the rediscovery of models after a download or a change of   *)
(* directories.                                                            *)
(*                                                                         *)
(* All of them are coroutines of one event loop; an action is a stretch    *)
(* between two awaits.  An entry is <<m, i>>, the i-th EngineEntry object  *)
(* of model m; an engine is <<m, k>>.  Indices are taken again once        *)
(* nothing refers to the object.                                           *)
(***************************************************************************)
EXTENDS Integers, Sequences, FiniteSets, SequencesExt, FiniteSetsExt

CONSTANTS
  Model, Client, Admin,
  Enforcer,        \* the enforcer's task
  None,
  Size(_),         \* estimated_size of a model
  Batched,         \* the models a BatchedEngine serves
  Embedder,        \* those an embedding or reranker engine serves
  MaxModelMemory,  \* the limit at first
  Limits,          \* the limits an administrator may set; None is no limit
  Pinned,          \* the models pinned at first
  Objects          \* bound: entry objects, and engine objects, of a model

ASSUME EnginePoolAssumption ==
  /\ IsFiniteSet(Model) /\ Pinned \subseteq Model
  /\ Client \cap Admin = {} /\ Enforcer \notin Client \cup Admin
  /\ \A m \in Model : Size(m) \in Nat \ {0}
  /\ Batched \cap Embedder = {}
  /\ Limits \subseteq Nat \cup {None} /\ MaxModelMemory \in Limits
  /\ Objects \in Nat \ {0}
  /\ None \notin Model \cup Nat

Task   == Client \cup Admin \cup {Enforcer}
Index  == 1 .. Objects

VARIABLES
  table,    \* _entries: the index of each model's entry, None if it has none
  entry,    \* the EngineEntry objects: engine and is_loading
  limit,    \* _max_model_memory
  cap,      \* the max_memory_bytes each admin task applies
  pinned,   \* the models pinned in the settings, as is_pinned of each entry is
  recency,  \* the loaded models, oldest last_access first
  memory,   \* _current_model_memory
  engine,   \* state of the engine objects
  lock,     \* _lock: its holder, then the tasks that wait for it
  pc,       \* where each task is
  goal,     \* the model a client asks for
  use,      \* the engine a client was given
  job,      \* the unload a task is in: model, entry, engine and where to go on
  todo,     \* the models an admin task has yet to unload
  drift     \* history: what happened that the account does not survive

poolVars == <<table, entry, recency, memory, engine>>
taskVars == <<pc, goal, use, job, todo>>
settings == <<limit, cap, pinned>>
vars == <<poolVars, lock, taskVars, drift, settings>>

\* A new EngineEntry of discover_models.
NewEntry == [engine |-> None, loading |-> FALSE]

Init ==
  /\ table   = [m \in Model |-> 1]
  /\ entry   = [e \in Model \X Index |-> NewEntry]
  /\ limit   = MaxModelMemory
  /\ cap     = [a \in Admin |-> None]
  /\ pinned  = Pinned
  /\ recency = <<>>
  /\ memory  = 0
  /\ engine  = [x \in Model \X Index |-> "free"]
  /\ lock    = <<>>
  /\ pc      = [t \in Task |-> IF t = Enforcer THEN "sleep" ELSE "idle"]
  /\ goal    = [c \in Client |-> None]
  /\ use     = [c \in Client |-> None]
  /\ job     = [t \in Task |-> None]
  /\ todo    = [a \in Admin |-> {}]
  /\ drift   = {}

Known(m)  == table[m] # None
Entry(m)  == <<m, table[m]>>
Loaded(m) == Known(m) /\ entry[Entry(m)].engine # None

\* asyncio.Lock is first in, first out.
Holds(t) == lock # <<>> /\ Head(lock) = t

Release == lock' = Tail(lock)

\* _find_lru_victim: the first of the models that are not pinned.
Candidates == ToSet(recency) \ pinned
IsVictim(m) ==
  \E i \in DOMAIN recency :
    recency[i] = m /\ m \in Candidates /\ \A j \in 1 .. i - 1 : recency[j] \in pinned

\* Clients with a request in flight on an engine.
InFlight(x) == {c \in Client : pc[c] = "using" /\ goal[c] = x[1] /\ use[c] = x[2]}

\* Of these, the ones that wait for a collector of an engine core: embed and
\* rerank run on the executor, whatever happens to the engine.
Waiting(x) == IF x[1] \in Embedder THEN {} ELSE InFlight(x)

\* The coroutines of these clients have nothing left but to end.
Leave(cs) ==
  /\ goal' = [c \in Client |-> IF c \in cs THEN None ELSE goal[c]]
  /\ use'  = [c \in Client |-> IF c \in cs THEN None ELSE use[c]]

-----------------------------------------------------------------------------
(* _unload_engine, by any task.                                            *)

\* Up to the await of engine.stop().  Two unloads of one entry may overlap
\* when one of them does not hold the lock.
BeginUnload(t, m, back) ==
  LET x == <<m, entry[Entry(m)].engine>>
  IN  /\ engine' = [engine EXCEPT ![x] = IF @ = "running" THEN "stopping" ELSE @]
      /\ job'    = [job EXCEPT ![t] = [entry |-> Entry(m), engine |-> x, back |-> back]]
      /\ drift'  = IF \E s \in Task : pc[s] = "stopping" /\ job[s].entry = Entry(m)
                   THEN drift \cup {"overlap"} ELSE drift
      /\ UNCHANGED <<table, entry, recency, memory>>

Forgotten(e) ==
  IF e = Entry(e[1]) THEN RemoveFirst(recency, e[1]) ELSE recency

\* stop() returned: BatchedEngine.stop closed the engine, which forgets the
\* collectors of its requests.  A second stop of the same engine raises, which
\* is logged; what follows is done twice.
Stopped(t) ==
  /\ pc[t] = "stopping"
  /\ LET e == job[t].entry
         x == job[t].engine
     IN  /\ engine'  = [engine EXCEPT ![x] = "stopped"]
         /\ memory'  = memory - Size(e[1])
         /\ entry'   = [entry EXCEPT ![e].engine = None]
         /\ recency' = Forgotten(e)
         /\ pc'      = [s \in Task |-> IF s = t THEN "clearing"
                                       ELSE IF s \in Waiting(x) THEN "stranded" ELSE pc[s]]
         /\ Leave(Waiting(x))
  /\ UNCHANGED <<table, lock, job, todo, drift, settings>>

\* mx.clear_cache has run on the executor.
Cleared(t) ==
  /\ pc[t] = "clearing"
  /\ pc'  = [pc EXCEPT ![t] = job[t].back]
  /\ job' = [job EXCEPT ![t] = None]
  /\ UNCHANGED <<poolVars, lock, goal, use, todo, drift, settings>>

-----------------------------------------------------------------------------
(* get_engine.                                                             *)

GetEngine(c, m) ==
  /\ pc[c] = "idle"
  /\ pc'   = [pc EXCEPT ![c] = "lookup"]
  /\ goal' = [goal EXCEPT ![c] = m]
  /\ lock' = Append(lock, c)
  /\ UNCHANGED <<poolVars, use, job, todo, drift, settings>>

Touched(m) == Append(RemoveFirst(recency, m), m)

AlreadyLoaded(c) ==
  /\ pc[c] = "lookup" /\ Holds(c)
  /\ Loaded(goal[c])
  /\ recency' = Touched(goal[c])
  /\ pc'      = [pc EXCEPT ![c] = "got"]
  /\ use'     = [use EXCEPT ![c] = entry[Entry(goal[c])].engine]
  /\ Release
  /\ UNCHANGED <<table, entry, memory, engine, goal, job, todo, drift, settings>>

\* Mutant: a call that raises keeps the lock.
GetRaises_Locked(c) ==
  /\ pc' = [pc EXCEPT ![c] = "done"]
  /\ Leave({c})
  /\ UNCHANGED <<poolVars, lock, job, todo, drift, settings>>

GetRaises(c) ==
  /\ pc' = [pc EXCEPT ![c] = "done"]
  /\ Leave({c})
  /\ Release
  /\ UNCHANGED <<poolVars, job, todo, drift, settings>>

\* Mutant: the model that is to be loaded is forgotten.
Fits_Already(need) == limit # None => memory <= limit

Fits(need) == limit # None => memory + need <= limit

WithHeadroom(m) == Size(m) + Size(m) \div 4

TooLarge(m) == limit # None /\ Size(m) > limit

NeedsRoom(c) ==
  /\ Holds(c)
  /\ \/ pc[c] = "lookup" /\ Known(goal[c]) /\ ~Loaded(goal[c]) /\ ~TooLarge(goal[c])
     \/ pc[c] = "evict"

\* _ensure_memory_available compares with the limit again after each eviction,
\* and raises a TypeError if it was disabled during one.
LimitGone(c) == pc[c] = "evict" /\ limit = None

\* The lookup failed, or neither weights nor eviction make the model fit.
GetFails(c) ==
  /\ Holds(c)
  /\ \/ pc[c] = "lookup" /\ (Known(goal[c]) => ~Loaded(goal[c]) /\ TooLarge(goal[c]))
     \/ NeedsRoom(c) /\ Candidates = {} /\ ~Fits(Size(goal[c]))
     \/ LimitGone(c)
  /\ GetRaises(c)

\* _ensure_memory_available with the KV headroom: evict the oldest.
EvictForLoad(c) ==
  /\ NeedsRoom(c)
  /\ ~Fits(WithHeadroom(goal[c]))
  /\ \E m \in Model : IsVictim(m) /\ BeginUnload(c, m, "evict")
  /\ pc' = [pc EXCEPT ![c] = "stopping"]
  /\ UNCHANGED <<lock, goal, use, todo, settings>>

\* The model fits with the headroom, or it fits and nothing more can be
\* evicted.  Nobody looks at max_model_memory again after that.
HasRoom(c) ==
  \/ /\ NeedsRoom(c) /\ ~LimitGone(c)
     /\ Fits(WithHeadroom(goal[c])) \/ (Candidates = {} /\ Fits(Size(goal[c])))
  \/ Holds(c) /\ pc[c] = "process"

\* The check of process memory, which may be short whatever the account says.
EvictForProcess(c) ==
  /\ HasRoom(c)
  /\ \E m \in Model : IsVictim(m) /\ BeginUnload(c, m, "process")
  /\ pc' = [pc EXCEPT ![c] = "stopping"]
  /\ UNCHANGED <<lock, goal, use, todo, settings>>

\* The process memory limit with nothing left to evict, or an entry that was
\* removed during an eviction.
LoadRefused(c) ==
  /\ HasRoom(c)
  /\ Candidates = {} \/ ~Known(goal[c])
  /\ GetRaises(c)

\* _load_engine up to the await of engine.start().
BeginLoad(c) ==
  /\ HasRoom(c) /\ Known(goal[c])
  /\ \E k \in Index :
       /\ engine[<<goal[c], k>>] = "free"
       /\ engine' = [engine EXCEPT ![<<goal[c], k>>] = "starting"]
       /\ use'    = [use EXCEPT ![c] = k]
  /\ entry' = [entry EXCEPT ![Entry(goal[c])].loading = TRUE]
  /\ job'   = [job EXCEPT ![c] = [entry |-> Entry(goal[c])]]
  /\ pc'    = [pc EXCEPT ![c] = "loading"]
  /\ UNCHANGED <<table, recency, memory, lock, goal, todo, drift, settings>>

Counted(m) == memory + Size(m)

\* start() returned.  The entry may have been replaced meanwhile: then the
\* engine belongs to an entry nobody finds, and the caller gets None.
LoadDone(c) ==
  /\ pc[c] = "loading"
  /\ LET m == goal[c]
         e == job[c].entry
         current == table[m] = e[2]
     IN  /\ engine'  = [engine EXCEPT ![<<m, use[c]>>] = "running"]
         /\ entry'   = [entry EXCEPT ![e].engine = use[c], ![e].loading = FALSE]
         /\ memory'  = Counted(m)
         /\ recency' = IF current THEN Touched(m) ELSE recency
         /\ pc'      = [pc EXCEPT ![c] = IF current THEN "got" ELSE "done"]
         /\ Leave(IF current THEN {} ELSE {c})
         /\ drift'   = IF current THEN drift ELSE drift \cup {"replaced"}
  /\ job' = [job EXCEPT ![c] = None]
  /\ Release
  /\ UNCHANGED <<table, todo, settings>>

LoadFails(c) ==
  /\ pc[c] = "loading"
  /\ engine' = [engine EXCEPT ![<<goal[c], use[c]>>] = "stopped"]
  /\ entry'  = [entry EXCEPT ![job[c].entry].loading = FALSE]
  /\ job'    = [job EXCEPT ![c] = None]
  /\ pc'     = [pc EXCEPT ![c] = "done"]
  /\ Leave({c})
  /\ Release
  /\ UNCHANGED <<table, recency, memory, todo, drift, settings>>

-----------------------------------------------------------------------------
(* A client uses the engine it got, without the lock.                      *)

Used(c) == <<goal[c], use[c]>>

\* generate and stream_generate start an engine that is not loaded.
StartGenerate(c) ==
  /\ pc[c] = "got" /\ goal[c] \notin Embedder
  /\ pc' = [pc EXCEPT ![c] = IF engine[Used(c)] \in {"running", "stopping"}
                             THEN "using" ELSE "reviving"]
  /\ UNCHANGED <<poolVars, lock, goal, use, job, todo, drift, settings>>

Revived(c) ==
  /\ pc[c] = "reviving"
  /\ engine' = [engine EXCEPT ![Used(c)] = "running"]
  /\ pc'     = [pc EXCEPT ![c] = "using"]
  /\ drift'  = drift \cup {"revived"}
  /\ UNCHANGED <<table, entry, recency, memory, lock, goal, use, job, todo, settings>>

\* embed and rerank raise if the model is gone.
StartEmbed(c) ==
  /\ pc[c] = "got" /\ goal[c] \in Embedder
  /\ LET gone == engine[Used(c)] # "running"
     IN  /\ pc' = [pc EXCEPT ![c] = IF gone THEN "done" ELSE "using"]
         /\ Leave(IF gone THEN {c} ELSE {})
  /\ UNCHANGED <<poolVars, lock, job, todo, drift, settings>>

\* The engine's loop, which stop() cancels, brings the request to its end.
Generated(c) ==
  /\ pc[c] = "using" /\ (engine[Used(c)] = "running" \/ goal[c] \in Embedder)
  /\ pc' = [pc EXCEPT ![c] = "done"]
  /\ Leave({c})
  /\ UNCHANGED <<poolVars, lock, job, todo, drift, settings>>

-----------------------------------------------------------------------------
(* ProcessMemoryEnforcer: _enforcement_loop, and the routes that stop it,  *)
(* start it, or run _check_and_enforce themselves after a change of its    *)
(* limit.                                                                  *)

\* Memory also holds KV caches, so it may be over the limit whenever an engine
\* is in memory.
MayBeOver == \E x \in Model \X Index : engine[x] \in {"running", "stopping", "starting"}

\* stop() has been called and waits for the task to end.
Quitting == \E a \in Admin : pc[a] = "quit"

\* _check_and_enforce waits for the lock if the limit is exceeded, the TTL
\* check waits for it always.
Poll ==
  /\ pc[Enforcer] = "sleep" => ~Quitting
  /\ \/ pc[Enforcer] = "sleep" /\ MayBeOver /\ pc' = [pc EXCEPT ![Enforcer] = "enforce"]
     \/ pc[Enforcer] \in {"sleep", "enforced"} /\ pc' = [pc EXCEPT ![Enforcer] = "expire"]
  /\ lock' = Append(lock, Enforcer)
  /\ UNCHANGED <<poolVars, goal, use, job, todo, drift, settings>>

CheckNow(a) ==
  /\ pc[a] = "idle" /\ pc[Enforcer] # "off"
  /\ MayBeOver
  /\ pc'   = [pc EXCEPT ![a] = "enforce"]
  /\ lock' = Append(lock, a)
  /\ UNCHANGED <<poolVars, goal, use, job, todo, drift, settings>>

AfterEnforcing(t) == IF t = Enforcer THEN "enforced" ELSE "done"

\* abort_all_requests gives every request of an engine an error, then an
\* engine is unloaded if another one that is not pinned remains.
Enforce(t) ==
  /\ pc[t] = "enforce" /\ Holds(t)
  /\ MayBeOver
  /\ \E m \in Model :
       LET told == Waiting(<<m, entry[Entry(m)].engine>>)
           Aborted(next) == [s \in Task |-> IF s = t THEN next
                                            ELSE IF s \in told THEN "done" ELSE pc[s]]
       IN  /\ IsVictim(m)
           /\ Leave(told)
           /\ \/ /\ Candidates # {m}
                 /\ BeginUnload(t, m, "enforce")
                 /\ pc' = Aborted("stopping")
                 /\ UNCHANGED lock
              \/ /\ Candidates = {m}
                 /\ pc' = Aborted(AfterEnforcing(t))
                 /\ Release
                 /\ UNCHANGED <<poolVars, job, drift>>
  /\ UNCHANGED <<todo, settings>>

\* Under the limit again, or nothing that could be evicted.
EnforceEnds(t) ==
  /\ pc[t] = "enforce" /\ Holds(t)
  /\ pc' = [pc EXCEPT ![t] = AfterEnforcing(t)]
  /\ Release
  /\ UNCHANGED <<poolVars, goal, use, job, todo, drift, settings>>

\* check_ttl_expirations spares pinned models and batched engines with
\* requests; it does not see those of the others.  An engine just given to a
\* client has a recent last_access.
Idle(m) ==
  /\ Loaded(m)
  /\ \A c \in Client : ~(pc[c] = "got" /\ Used(c) = <<m, entry[Entry(m)].engine>>)
  /\ ~entry[Entry(m)].loading /\ m \notin pinned
  /\ m \in Batched => InFlight(<<m, entry[Entry(m)].engine>>) = {}

Expire(m) ==
  /\ pc[Enforcer] = "expire" /\ Holds(Enforcer)
  /\ Idle(m)
  /\ BeginUnload(Enforcer, m, "expire")
  /\ pc' = [pc EXCEPT ![Enforcer] = "stopping"]
  /\ UNCHANGED <<lock, goal, use, todo, settings>>

ExpireEnds ==
  /\ pc[Enforcer] = "expire" /\ Holds(Enforcer)
  /\ pc' = [pc EXCEPT ![Enforcer] = "sleep"]
  /\ Release
  /\ UNCHANGED <<poolVars, goal, use, job, todo, drift, settings>>

\* stop() cancels the task where it awaits and waits for it.  Until then the
\* loop may go on: EngineCore.stop catches the cancellation.
StopEnforcer(a) ==
  /\ pc[a] = "idle" /\ pc[Enforcer] # "off"
  /\ pc' = [pc EXCEPT ![a] = "quit"]
  /\ UNCHANGED <<poolVars, lock, goal, use, job, todo, drift, settings>>

\* The lock is given back, or no longer waited for.
EnforcerOff ==
  /\ pc'   = [pc EXCEPT ![Enforcer] = "off"]
  /\ job'  = [job EXCEPT ![Enforcer] = None]
  /\ lock' = RemoveFirst(lock, Enforcer)
  /\ UNCHANGED <<goal, use, todo, settings>>

Cancelled ==
  /\ Quitting
  /\ pc[Enforcer] \in {"sleep", "enforce", "expire", "clearing"}
  /\ EnforcerOff
  /\ UNCHANGED <<poolVars, drift>>

\* EmbeddingEngine.stop has dropped the model and awaits the executor: the
\* cancellation passes _unload_engine, the entry keeps the engine.
StopCancelled ==
  /\ Quitting
  /\ pc[Enforcer] = "stopping" /\ job[Enforcer].engine[1] \in Embedder
  /\ engine' = [engine EXCEPT ![job[Enforcer].engine] = "stopped"]
  /\ drift'  = drift \cup {"cancelled"}
  /\ EnforcerOff
  /\ UNCHANGED <<table, entry, recency, memory>>

EnforcerStopped(a) ==
  /\ pc[a] = "quit" /\ pc[Enforcer] = "off"
  /\ pc' = [pc EXCEPT ![a] = "done"]
  /\ UNCHANGED <<poolVars, lock, goal, use, job, todo, drift, settings>>

\* A new enforcer, once the old one is forgotten.
StartEnforcer ==
  /\ pc[Enforcer] = "off" /\ ~Quitting
  /\ pc' = [pc EXCEPT ![Enforcer] = "sleep"]
  /\ UNCHANGED <<poolVars, lock, goal, use, job, todo, drift, settings>>

-----------------------------------------------------------------------------
(* Routes that act on the pool without its lock.                           *)

\* unload_model unloads one loaded model; a change of the cache settings, of
\* the model directories and a benchmark unload all that are loaded now.
AdminStarts(a) ==
  /\ pc[a] = "idle"
  /\ \E ms \in {{m} : m \in Model} \cup {Model} :
       /\ \E m \in ms : Loaded(m)
       /\ todo' = [todo EXCEPT ![a] = {m \in ms : Loaded(m)}]
  /\ pc' = [pc EXCEPT ![a] = "unload"]
  /\ UNCHANGED <<poolVars, lock, goal, use, job, drift, settings>>

\* An engine that is gone meanwhile is skipped.
AdminUnloads(a, m) ==
  /\ pc[a] = "unload" /\ m \in todo[a]
  /\ todo' = [todo EXCEPT ![a] = @ \ {m}]
  /\ IF Loaded(m) THEN BeginUnload(a, m, "unload") /\ pc' = [pc EXCEPT ![a] = "stopping"]
                  ELSE UNCHANGED <<poolVars, job, drift, pc>>
  /\ UNCHANGED <<lock, goal, use, settings>>

AdminEnds(a) ==
  /\ pc[a] = "unload" /\ todo[a] = {}
  /\ pc' = [pc EXCEPT ![a] = "done"]
  /\ UNCHANGED <<poolVars, lock, goal, use, job, todo, drift, settings>>

\* _apply_max_model_memory_runtime: the limit holds at once, without the lock.
ChangeLimit(a) ==
  /\ pc[a] = "idle"
  /\ \E max \in Limits : limit' = max /\ cap' = [cap EXCEPT ![a] = max]
  /\ pc' = [pc EXCEPT ![a] = "limit"]
  /\ UNCHANGED <<poolVars, lock, goal, use, job, todo, drift, pinned>>

OverCap(a) == cap[a] # None /\ memory > cap[a]

\* While the account is above it, the oldest engine is unloaded.
EvictForLimit(a) ==
  /\ pc[a] = "limit" /\ OverCap(a)
  /\ \E m \in Model : IsVictim(m) /\ BeginUnload(a, m, "limit")
  /\ pc' = [pc EXCEPT ![a] = "stopping"]
  /\ UNCHANGED <<lock, goal, use, todo, settings>>

LimitEnds(a) ==
  /\ pc[a] = "limit"
  /\ OverCap(a) => Candidates = {}
  /\ pc' = [pc EXCEPT ![a] = "done"]
  /\ UNCHANGED <<poolVars, lock, goal, use, job, todo, drift, settings>>

\* Entry objects that a task still writes to.
HeldEntries == {job[t].entry : t \in {s \in Task : pc[s] \in {"stopping", "loading"}}}
Unheld(m) == {i \in Index : <<m, i>> \notin HeldEntries}

\* Mutant: loaded models get a new entry as well.
Discover_Loaded(found) ==
  LET Fresh(m) == CHOOSE i \in Unheld(m) : i # table[m]
  IN  /\ \A m \in found : Unheld(m) \ {table[m]} # {}
      /\ table' = [m \in Model |-> IF m \in found THEN Fresh(m) ELSE None]
      /\ entry' = [e \in Model \X Index |->
           IF e[1] \in found /\ e[2] = Fresh(e[1]) THEN NewEntry ELSE entry[e]]

(***************************************************************************)
(* discover_models with the models found on disk: an entry without engine  *)
(* is replaced, one with an engine is kept, one that is not found is       *)
(* removed unless loaded.                                                  *)
(***************************************************************************)
Discover(found) ==
  LET Fresh(m) == CHOOSE i \in Unheld(m) : TRUE
  IN  /\ \A m \in found : Loaded(m) \/ Unheld(m) # {}
      /\ table' = [m \in Model |-> IF Loaded(m) THEN table[m]
                                   ELSE IF m \in found THEN Fresh(m) ELSE None]
      /\ entry' = [e \in Model \X Index |->
           IF ~Loaded(e[1]) /\ e[1] \in found /\ e[2] = Fresh(e[1]) THEN NewEntry ELSE entry[e]]

\* A download ended, or a model was deleted.
Rediscover(found) ==
  /\ Discover(found)
  /\ recency' = recency
  /\ UNCHANGED <<memory, engine, lock, taskVars, drift, settings>>

\* _apply_model_dirs_runtime after its unloads: the entries are forgotten and
\* the account starts again from 0, whatever was loaded meanwhile.
ChangeDirs(a) ==
  /\ pc[a] = "unload" /\ todo[a] = {}
  /\ \A m \in Model : Unheld(m) # {}
  /\ table'   = [m \in Model |-> CHOOSE i \in Unheld(m) : TRUE]
  /\ entry'   = [e \in Model \X Index |-> IF e[2] = table'[e[1]] THEN NewEntry ELSE entry[e]]
  /\ recency' = <<>>
  /\ memory'  = 0
  /\ drift'   = IF \E x \in Model \X Index : engine[x] \in {"running", "stopping"}
                THEN drift \cup {"reset"} ELSE drift
  /\ pc'      = [pc EXCEPT ![a] = "done"]
  /\ UNCHANGED <<engine, lock, goal, use, job, todo, settings>>

\* update_model_settings.
ChangePin(a) ==
  /\ pc[a] = "idle"
  /\ \E m \in Model : pinned' = IF m \in pinned THEN pinned \ {m} ELSE pinned \cup {m}
  /\ pc' = [pc EXCEPT ![a] = "done"]
  /\ UNCHANGED <<poolVars, lock, goal, use, job, todo, drift, limit, cap>>

-----------------------------------------------------------------------------
Unloading(t) == Stopped(t) \/ Cleared(t)

Getting(c) ==
  \/ AlreadyLoaded(c) \/ GetFails(c) \/ LoadRefused(c) \/ EvictForLoad(c)
  \/ EvictForProcess(c) \/ BeginLoad(c) \/ LoadDone(c) \/ LoadFails(c)

Generating(c) == StartGenerate(c) \/ StartEmbed(c) \/ Revived(c)

Enforcing ==
  \/ \E t \in Admin \cup {Enforcer} : Enforce(t) \/ EnforceEnds(t)
  \/ ExpireEnds \/ \E m \in Model : Expire(m)

Switching ==
  \/ Cancelled \/ StopCancelled \/ StartEnforcer
  \/ \E a \in Admin : CheckNow(a) \/ StopEnforcer(a) \/ EnforcerStopped(a)

Administering(a) ==
  \/ AdminEnds(a) \/ \E m \in Model : AdminUnloads(a, m)
  \/ EvictForLimit(a) \/ LimitEnds(a)

Next ==
  \/ \E t \in Task : Unloading(t)
  \/ \E c \in Client : Getting(c) \/ Generating(c) \/ Generated(c)
  \/ \E c \in Client, m \in Model : GetEngine(c, m)
  \/ Poll \/ Enforcing \/ Switching
  \/ \E a \in Admin : Administering(a) \/ ChangeDirs(a)
  \/ \E a \in Admin : AdminStarts(a) \/ ChangeLimit(a) \/ ChangePin(a)
  \/ \E found \in {Model} \cup {Model \ {m} : m \in Model} : Rediscover(found)

Spec == Init /\ [][Next]_vars

-----------------------------------------------------------------------------
PoolTypeOK ==
  /\ table \in [Model -> Index \cup {None}]
  /\ entry \in [Model \X Index -> [engine: Index \cup {None}, loading: BOOLEAN]]
  /\ limit \in Limits /\ cap \in [Admin -> Limits \cup {None}]
  /\ pinned \subseteq Model
  /\ engine \in [Model \X Index -> {"free", "starting", "running", "stopping", "stopped"}]
  /\ ToSet(recency) = {m \in Model : Loaded(m)} /\ IsInjective(recency)
  /\ memory \in Int
  /\ ToSet(lock) \subseteq Task /\ IsInjective(lock)
  /\ drift \subseteq {"overlap", "replaced", "revived", "reset", "cancelled"}

Weight(engines) == MapThenSumSet(LAMBDA x : Size(x[1]), engines)
InMemory == {x \in Model \X Index : engine[x] \in {"running", "stopping"}}

\* current_model_memory: "Current memory used by loaded models in bytes".
MemoryCounted == memory = Weight(InMemory)

\* The account is exact until two unloads of a model overlap, an entry is
\* replaced while its model loads, a client starts an unloaded engine again,
\* the directories change while a model loads or the enforcer is cancelled
\* while it stops an engine: nothing else makes it drift, no eviction, failed
\* load, TTL, enforcement or change of the limit in any interleaving.
AccountExplained == drift = {} => MemoryCounted

\* What a client that is past the check of the limit will add.
PastCheck(c) ==
  \/ pc[c] \in {"loading", "process"}
  \/ pc[c] \in {"stopping", "clearing"} /\ job[c].back = "process"

Due(c) == IF PastCheck(c) THEN Size(goal[c]) ELSE 0

Within(c) == limit # None => memory + Due(c) <= limit

\* "Pre-load memory checking to ensure models fit before loading": no step but
\* a change of the limit brings what is loaded, with the load that is past its
\* check, above the limit, and none adds to what a change has left above it.
LimitRespected ==
  drift' = {} => \A c \in Client :
    \/ Within(c)'
    \/ \E d \in Client : memory' + Due(c)' <= memory + Due(d)

\* The account and the limit, and what makes either wrong.
MemoryExplained ==
  [](PoolTypeOK /\ AccountExplained) /\ [][LimitRespected]_vars

\* Every engine in memory belongs to the entry that get_engine finds, so that
\* it can be used again and evicted.
OwnedExplained ==
  drift = {} => \A x \in InMemory : Known(x[1]) /\ entry[Entry(x[1])].engine = x[2]

\* The enforcer asks loading models to abort, but a load holds the lock from
\* its start to its end: while the enforcer or the TTL check looks, no model is
\* loading, and no model is ever loaded twice at a time.
LoadHoldsLock ==
  \A e \in Model \X Index : entry[e].loading =>
    \E c \in Client : Holds(c) /\ pc[c] = "loading" /\ job[c].entry = e

\* Whoever holds the lock is inside get_engine, the enforcement or the TTL
\* check: no failure, eviction or refusal leaves the lock behind.
LockNotLeaked ==
  lock # <<>> => pc[Head(lock)] \in {"lookup", "evict", "process", "loading", "stopping",
                                    "clearing", "enforce", "expire"}

\* The lock of the pool and the loading flags under it.
LockDiscipline == LoadHoldsLock /\ LockNotLeaked

\* _apply_max_model_memory_runtime: "If current usage exceeds new limit, unloads
\* LRU models until within limit."
\* TLC refutes it: see "Other disagreements" in the README.
LimitApplied ==
  \/ limit # None => memory <= limit
  \/ Candidates = {} \/ \E a \in Admin : pc[a] \in {"limit", "stopping", "clearing"}

\* _unload_engine: "This aborts any in-progress requests".  No client is left
\* waiting for an engine that is gone.
\* TLC refutes it: see "Other disagreements" in the README.
NobodyStranded == \A c \in Client : pc[c] # "stranded"
=============================================================================
