---------------------------- MODULE WindowsModels ----------------------------
(***************************************************************************)
(* The model table of the Windows port, src/omlx/memory_manager_windows.py:*)
(* models that are registered, pinned, accessed and evicted, by threads of *)
(* the application and by the thread that watches the memory.  The lock of *)
(* the class is never taken, so their steps interleave, and a step that    *)
(* looks at the table while another thread changes it can raise.           *)
(*                                                                         *)
(* Sizes, counts of accesses and the GPU only go into reports, and the     *)
(* list model_access_order is written and never read; they are left out.   *)
(***************************************************************************)
EXTENDS Naturals, SequencesExt, FiniteSetsExt

CONSTANTS
    WinModels,        \* models
    NoModel,          \* no model yet
    Pinnable,         \* models that are pinned, bound
    Callers,          \* threads of the application
    Watchers,         \* monitor threads, as many as are started
    Teams,            \* [threads, loads]: those that run together, and bound: how often
                      \* they load each model
    MaxModels,        \* max_models_loaded
    MinModels         \* min_models_to_keep

ASSUME WindowsModelsAssumption ==
    /\ Callers \cap Watchers = {}
    /\ Teams \subseteq [threads : SUBSET (Callers \cup Watchers), loads : [WinModels -> Nat]]
    /\ MaxModels \in Nat \ {0} /\ MinModels \in Nat

VARIABLES
    byAccess,   \* loaded_models, by last_access_time
    isPinned,   \* those that are pinned
    freeing,    \* models that have an eviction callback
    inMemory,   \* models that the application holds
    monitoring, \* self.monitoring
    at,         \* where each thread is
    target,     \* the model that it registers
    victim,     \* the model that it evicts
    toEvict,    \* models that clear_all has yet to evict, in each caller
    left,       \* evictions that a watcher may still do in this round
    loads,      \* loads of each model that are still allowed
    stirred,    \* threads whose iteration over the table another thread has stirred
    brokeOff,     \* enforcing the limit has raised, and was not done since, for a property
    dropped     \* how each model was last dropped, for a property

winVars == <<byAccess, isPinned, freeing, inMemory, monitoring, at, target, victim, toEvict, left,
             loads, stirred, brokeOff, dropped>>
Table == <<byAccess, isPinned, freeing, inMemory, dropped>>
Threads == Callers \cup Watchers
Registered == ToSet(byAccess)

WindowsModelsInit ==
    /\ byAccess = << >> /\ isPinned = {} /\ freeing = {} /\ inMemory = {}
    /\ monitoring = FALSE
    /\ \E team \in Teams :
         /\ at = [x \in Threads |-> IF x \notin team.threads THEN "absent"
                                  ELSE IF x \in Callers THEN "idle" ELSE "off"]
         /\ loads = team.loads
    /\ target = [w \in Callers |-> NoModel] /\ victim = [x \in Threads |-> NoModel]
    /\ toEvict = [w \in Callers |-> << >>]
    /\ left = [x \in Watchers |-> 0]
    /\ stirred = {} /\ brokeOff = FALSE
    /\ dropped = [m \in WinModels |-> "never"]

GoTo(x, place) == at' = [at EXCEPT ![x] = place]

-----------------------------------------------------------------------------
(* evict_model, in steps that other threads see                            *)

\* _select_eviction_candidate: the oldest one that is not pinned; if all are,
\* the oldest one.
Candidate ==
    LET free == {i \in DOMAIN byAccess : byAccess[i] \notin isPinned}
    IN  byAccess[IF free # {} THEN Min(free) ELSE 1]

StartEviction(x, m) == victim' = [victim EXCEPT ![x] = m] /\ GoTo(x, "evict")

\* It iterates over the table, which other threads change meanwhile.
StartSelection(x) ==
    /\ victim' = [victim EXCEPT ![x] = Candidate]
    /\ GoTo(x, "select")
    /\ stirred' = stirred \ {x}
Stir == stirred' = stirred \cup {x \in Threads : at[x] = "select"}

\* What it reads is a mix of the table before and after what other threads did,
\* which the two stand for.
Select(x) ==
    /\ at[x] = "select"
    /\ \/ GoTo(x, "evict") /\ UNCHANGED victim
       \/ byAccess # << >> /\ StartEviction(x, Candidate)
    /\ UNCHANGED <<Table, monitoring, target, toEvict, left, loads, stirred, brokeOff>>

\* The others may have left nothing, which ends the round of evictions.
SelectNone(x) ==
    /\ at[x] = "select" /\ byAccess = << >>
    /\ victim' = [victim EXCEPT ![x] = NoModel]
    /\ GoTo(x, IF x \in Watchers THEN "pressure" ELSE "callback")
    /\ UNCHANGED <<Table, monitoring, target, toEvict, left, loads, stirred, brokeOff>>

\* What is raised leaves register_model or shutdown, and the application goes on;
\* in the monitor thread it ends the round.
RaiseOut(x) ==
    /\ GoTo(x, IF x \in Watchers THEN "watch" ELSE "idle")
    /\ victim' = [victim EXCEPT ![x] = NoModel]
    /\ target' = [w \in Callers |-> IF w = x THEN NoModel ELSE target[w]]
    /\ toEvict' = [w \in Callers |-> IF w = x THEN << >> ELSE toEvict[w]]
    /\ left' = [y \in Watchers |-> IF y = x THEN 0 ELSE left[y]]
    /\ brokeOff' = (brokeOff \/ (x \in Callers /\ toEvict[x] = << >>))

\* A dictionary that changes its size under an iteration raises, and so does the
\* entry of a model that is gone.
LookRaises(x) ==
    /\ \/ at[x] = "select" /\ x \in stirred
       \/ at[x] = "evict" /\ victim[x] \notin Registered
    /\ RaiseOut(x)
    /\ UNCHANGED <<Table, monitoring, loads, stirred>>

\* Where a thread goes on after an eviction: enforcing the limit is a loop.
AfterEviction_Once(x) ==
    IF x \in Watchers THEN "pressure" ELSE IF toEvict[x] # << >> THEN "clear" ELSE "callback"
AfterEviction(x) ==
    IF x \in Watchers THEN "pressure" ELSE IF toEvict[x] # << >> THEN "clear" ELSE "enforce"

\* The model may be gone already; a model without callback is only forgotten.
BeginEviction(x) ==
    /\ at[x] = "evict"
    /\ GoTo(x, IF victim[x] \notin Registered THEN AfterEviction(x)
               ELSE IF victim[x] \in freeing THEN "freeing" ELSE "forget")
    /\ dropped' = [dropped EXCEPT ![victim[x]] =
                     IF victim[x] \in Registered THEN "unfreed" ELSE @]
    /\ victim' = [victim EXCEPT ![x] = IF victim[x] \in Registered THEN @ ELSE NoModel]
    /\ UNCHANGED <<byAccess, isPinned, freeing, inMemory, monitoring, target, toEvict, left, loads,
                   stirred, brokeOff>>

\* The callback frees the model; what it raises is only logged.
RunCallback(x, ok) ==
    /\ at[x] = "freeing"
    /\ inMemory' = IF ok THEN inMemory \ {victim[x]} ELSE inMemory
    /\ dropped' = [dropped EXCEPT ![victim[x]] =
                     IF ok /\ @ = "unfreed" THEN "freed" ELSE @]
    /\ GoTo(x, "forget")
    /\ UNCHANGED <<byAccess, isPinned, freeing, monitoring, target, victim, toEvict, left, loads,
                   stirred, brokeOff>>

\* Another thread may take the model out of model_access_order between the look
\* and the removal: that raises before the callback is taken out.
Forget(x, raises) ==
    /\ at[x] = "forget"
    /\ byAccess' = RemoveFirst(byAccess, victim[x])
    /\ isPinned' = isPinned \ {victim[x]}
    /\ IF victim[x] \in Registered THEN Stir ELSE UNCHANGED stirred
    /\ IF raises
       THEN RaiseOut(x) /\ UNCHANGED freeing
       ELSE /\ freeing' = freeing \ {victim[x]}
            /\ victim' = [victim EXCEPT ![x] = NoModel]
            /\ GoTo(x, AfterEviction(x))
            /\ UNCHANGED <<target, toEvict, left, brokeOff>>
    /\ UNCHANGED <<inMemory, monitoring, loads, dropped>>

-----------------------------------------------------------------------------
(* The application                                                         *)

\* The application loads a model, or has it, and will register it.
LoadModel(w, m) ==
    /\ at[w] = "idle" /\ loads[m] > 0
    /\ \A v \in Callers : at[v] = "register" => target[v] # m
    /\ loads' = [loads EXCEPT ![m] = @ - 1]
    /\ inMemory' = inMemory \cup {m}
    /\ target' = [target EXCEPT ![w] = m]
    /\ GoTo(w, "register")
    /\ UNCHANGED <<byAccess, isPinned, freeing, monitoring, victim, toEvict, left, dropped, stirred,
                   brokeOff>>

\* register_model: a model that is registered again replaces its entry.
RegisterModel(w, pinned) ==
    LET m == target[w] IN
    /\ at[w] = "register" /\ (pinned => m \in Pinnable)
    /\ byAccess' = Append(RemoveFirst(byAccess, m), m)
    /\ isPinned' = IF pinned THEN isPinned \cup {m} ELSE isPinned \ {m}
    /\ dropped' = [dropped EXCEPT ![m] = IF @ = "freed" THEN "registered" ELSE @]
    /\ GoTo(w, "enforce")
    /\ IF m \in Registered THEN UNCHANGED stirred ELSE Stir
    /\ UNCHANGED <<freeing, inMemory, monitoring, target, victim, toEvict, left, loads, brokeOff>>

\* _enforce_model_limit.
EnforceLimit(w) ==
    /\ at[w] = "enforce"
    /\ IF Len(byAccess) > MaxModels
       THEN StartSelection(w) /\ UNCHANGED brokeOff
       ELSE GoTo(w, "callback") /\ brokeOff' = FALSE /\ UNCHANGED <<victim, stirred>>
    /\ UNCHANGED <<Table, monitoring, target, toEvict, left, loads>>

\* set_eviction_callback, after the registration.
SetCallback(w) ==
    /\ at[w] = "callback"
    /\ freeing' = freeing \cup {target[w]}
    /\ target' = [target EXCEPT ![w] = NoModel]
    /\ GoTo(w, "idle")
    /\ UNCHANGED <<byAccess, isPinned, inMemory, monitoring, victim, toEvict, left, loads, dropped,
                   stirred, brokeOff>>

RecordAccess(m) ==
    /\ m \in Registered
    /\ byAccess' = Append(RemoveFirst(byAccess, m), m)
    /\ UNCHANGED <<isPinned, freeing, inMemory, monitoring, at, target, victim, toEvict, left,
                   loads, dropped, stirred, brokeOff>>

PinOrUnpin(m) ==
    /\ m \in Registered \cap Pinnable
    /\ isPinned' = IF m \in isPinned THEN isPinned \ {m} ELSE isPinned \cup {m}
    /\ UNCHANGED <<byAccess, freeing, inMemory, monitoring, at, target, victim, toEvict, left,
                   loads, dropped, stirred, brokeOff>>

-----------------------------------------------------------------------------
(* The thread that watches the memory                                      *)

StartMonitoring ==
    /\ ~monitoring
    /\ monitoring' = TRUE
    /\ \E x \in Watchers : at[x] = "off" /\ GoTo(x, "watch")
    /\ UNCHANGED <<Table, target, victim, toEvict, left, loads, stirred, brokeOff>>

\* shutdown: monitoring ends, with a wait of 5 s for the thread, which may
\* still be in a callback; then clear_all evicts the models there are.
Shutdown(w) ==
    /\ at[w] = "idle" /\ monitoring
    /\ monitoring' = FALSE
    /\ GoTo(w, "join")
    /\ UNCHANGED <<Table, target, victim, toEvict, left, loads, stirred, brokeOff>>

ClearAll(w) ==
    /\ at[w] = "join"
    /\ \A x \in Watchers : at[x] \in {"absent", "off", "ended", "freeing"}
    /\ toEvict' = [toEvict EXCEPT ![w] = byAccess]
    /\ IF byAccess = << >> THEN GoTo(w, "idle") /\ UNCHANGED victim
                           ELSE StartEviction(w, Head(byAccess))
    /\ UNCHANGED <<Table, monitoring, target, left, loads, stirred, brokeOff>>

ClearNext(w) ==
    /\ at[w] = "clear"
    /\ toEvict' = [toEvict EXCEPT ![w] = Tail(@)]
    /\ IF Tail(toEvict[w]) = << >> THEN GoTo(w, "idle") /\ UNCHANGED victim
                                   ELSE StartEviction(w, toEvict[w][2])
    /\ UNCHANGED <<Table, monitoring, target, left, loads, stirred, brokeOff>>

\* One round: the state of the memory decides how many models may go.
Watch(x, allowed) ==
    /\ at[x] = "watch"
    /\ IF monitoring
       THEN /\ left' = [left EXCEPT ![x] = allowed]
            /\ GoTo(x, "pressure")
       ELSE UNCHANGED left /\ GoTo(x, "ended")
    /\ UNCHANGED <<Table, monitoring, target, victim, toEvict, loads, stirred, brokeOff>>

\* max(1, n), for HIGH and CRITICAL; an ELEVATED memory takes one model.
Atleast1(n) == IF n < 1 THEN 1 ELSE n
Evictions ==
    LET n == Len(byAccess)
    IN  {0, 1, Atleast1(n \div 2), Atleast1(IF n > MinModels THEN n - MinModels ELSE 0)}

RelievePressure(x) ==
    /\ at[x] = "pressure"
    /\ IF left[x] > 0 /\ Len(byAccess) > MinModels
       THEN left' = [left EXCEPT ![x] = @ - 1] /\ StartSelection(x)
       ELSE left' = [left EXCEPT ![x] = 0] /\ GoTo(x, "watch") /\ UNCHANGED <<victim, stirred>>
    /\ UNCHANGED <<Table, monitoring, target, toEvict, loads, brokeOff>>

WindowsModelsNext ==
    \/ \E x \in Threads :
         \/ Select(x) \/ SelectNone(x) \/ LookRaises(x) \/ BeginEviction(x)
         \/ \E ok \in BOOLEAN : RunCallback(x, ok) \/ Forget(x, ~ok)
    \/ \E w \in Callers :
         \/ \E m \in WinModels : LoadModel(w, m)
         \/ \E pinned \in BOOLEAN : RegisterModel(w, pinned)
         \/ EnforceLimit(w) \/ SetCallback(w) \/ Shutdown(w) \/ ClearAll(w) \/ ClearNext(w)
    \/ \E m \in WinModels : RecordAccess(m) \/ PinOrUnpin(m)
    \/ StartMonitoring
    \/ \E x \in Watchers :
         \/ \E allowed \in Evictions : Watch(x, allowed)
         \/ RelievePressure(x)

WindowsModelsSpec == WindowsModelsInit /\ [][WindowsModelsNext]_winVars

-----------------------------------------------------------------------------
(* Properties                                                              *)

\* However registrations and evictions interleave, the table is within its
\* limit once nobody is about to enforce it, unless the last to enforce it was
\* stopped by what it raised when another thread changed the table under it.
LimitKept ==
    (\A w \in Callers : at[w] \in {"absent", "idle", "join", "clear", "callback"})
        => Len(byAccess) <= MaxModels \/ brokeOff

\* A model stays in memory without being in the table only if it is about to be
\* registered, was dropped before it had a callback or with one that failed, or
\* was registered again while it was being dropped.
LeaksExplained ==
    \A m \in inMemory \ Registered :
        \/ \E w \in Callers : at[w] = "register" /\ target[w] = m
        \/ dropped[m] \in {"unfreed", "registered"}

\* What is pinned is in the table, and a callback that will never be called is
\* one that came after its model was dropped.
ModelsTracked == LimitKept /\ LeaksExplained /\ isPinned \subseteq Registered

\* The comment "Pinned models won't be evicted" (memory_manager_windows.py:72).
\* TLC refutes it: see "Other disagreements" in the README.
PinnedStay ==
    [][\A m \in isPinned :
          m \notin ToSet(byAccess') => \E w \in Callers : toEvict[w] # << >>]_winVars

\* The comment "Always keep at least 1 model" (memory_manager_windows.py:55), of
\* evictions under pressure and for the limit.  TLC refutes it: see the README.
MinimumKept ==
    [][ToSet(byAccess') # Registered /\ (\A w \in Callers : toEvict[w] = << >>)
         => Len(byAccess') >= MinModels]_winVars
=============================================================================
