--------------------------- MODULE EnginePoolProofs ---------------------------
(***************************************************************************)
(* LockDiscipline, MemoryExplained and OwnedExplained for any models,      *)
(* clients, administrators and bounds.                                     *)
(*                                                                         *)
(* What makes the first inductive is who is in the queue of the lock: just *)
(* the clients inside get_engine and the tasks inside the enforcement      *)
(* (Queue), never an administrator whose unloads go on beside it.  Only    *)
(* the head evicts or loads, and an unload goes back to where it was       *)
(* called (Jobs).                                                          *)
(*                                                                         *)
(* The other two say what holds while nothing of drift has happened: each  *)
(* engine in memory is the one of its model's entry (OwnedExplained), and  *)
(* the other way round (Current).  An unload under way is the only one of  *)
(* its entry and its engine is still in memory (Stopping), a load under    *)
(* way has an engine and an entry of its own (Starting).  That no step     *)
(* breaks the limit follows step by step: only a load that is done adds to *)
(* the account, what it was Due.                                           *)
(*                                                                         *)
(* The last parts are about what the Windows port keeps in memory instead: *)
(* its block cache and its model table (module WindowsPort).               *)
(***************************************************************************)
EXTENDS EnginePool, WindowsPort, DataTheorems

Places == {"idle", "lookup", "evict", "process", "loading", "stopping", "clearing", "got", "using",
           "reviving", "stranded", "done", "unload", "limit", "quit", "sleep", "enforce", "enforced",
           "expire", "off"}

\* An administrator that unloads without the lock.
Beside(t) == pc[t] \in {"stopping", "clearing"} /\ job[t].back \in {"unload", "limit"}

Waits(t) == ~Beside(t) /\ pc[t] \in {"lookup", "evict", "process", "loading", "stopping", "clearing",
                                     "enforce", "expire"}
Inside(t) == ~Beside(t) /\ pc[t] \in {"evict", "process", "loading", "stopping", "clearing"}

Queue ==
    /\ lock \in Seq(Task) /\ IsInjective(lock)
    /\ pc \in [Task -> Places]
    /\ \A t \in Task : t \in ToSet(lock) <=> Waits(t)
    /\ \A t \in Task : Inside(t) => Holds(t)

Backs(t) == IF t \in Client THEN {"evict", "process"}
            ELSE IF t \in Admin THEN {"unload", "limit", "enforce"} ELSE {"enforce", "expire"}

Jobs ==
    /\ DOMAIN job = Task
    /\ \A t \in Task : pc[t] \in {"stopping", "clearing"} => job[t].back \in Backs(t)

Loads ==
    /\ DOMAIN entry = Model \X Index
    /\ \A e \in Model \X Index :
         /\ "loading" \in DOMAIN entry[e]
         /\ entry[e].loading => \E c \in Client : pc[c] = "loading" /\ job[c].entry = e

LockInv == Queue /\ Jobs /\ Loads

LEMMA TaskFacts ==
  /\ Client \subseteq Task /\ Admin \subseteq Task /\ Enforcer \in Task
  /\ \A c \in Client : c \notin Admin /\ c # Enforcer
  /\ Enforcer \notin Admin
  BY EnginePoolAssumption DEF Task

-----------------------------------------------------------------------------
(* The queue of the lock                                                   *)

\* The lock does not change hands: nobody enters or leaves.
LEMMA QueueKept ==
  ASSUME Queue, lock' = lock, pc' \in [Task -> Places],
         \A t \in Task : Waits(t)' <=> Waits(t),
         \A t \in Task : Inside(t)' => Holds(t)
  PROVE  Queue'
  BY DEF Queue, Holds

\* A task asks for the lock.
LEMMA QueueJoined ==
  ASSUME Queue, NEW t \in Task, ~Waits(t), lock' = Append(lock, t),
         pc' \in [Task -> Places], Waits(t)', ~Inside(t)', job' = job,
         \A s \in Task \ {t} : pc'[s] = pc[s]
  PROVE  Queue'
<1>1. t \notin ToSet(lock)
  BY DEF Queue
<1>2. /\ lock' \in Seq(Task) /\ IsInjective(lock')
      /\ ToSet(lock') = ToSet(lock) \cup {t}
  BY <1>1 DEF Queue, ToSet, IsInjective
<1>3. \A s \in Task : Holds(s) => Holds(s)'
  BY DEF Queue, Holds
<1>4. \A s \in Task \ {t} : (Waits(s)' <=> Waits(s)) /\ (Inside(s)' <=> Inside(s))
  BY DEF Waits, Inside, Beside
<1>. QED
  BY <1>2, <1>3, <1>4 DEF Queue

\* Its holder gives it back; of the others, only requests end.
LEMMA QueueReleased ==
  ASSUME Queue, NEW t \in Task, Holds(t), Release,
         pc' \in [Task -> Places], ~Waits(t)', ~Inside(t)',
         \A s \in Task \ {t} : (Waits(s)' <=> Waits(s)) /\ (Inside(s)' => Inside(s))
  PROVE  Queue'
<1>1. /\ lock' \in Seq(Task) /\ IsInjective(lock')
      /\ ToSet(lock') = ToSet(lock) \ {t}
  <2>1. lock # << >> /\ lock[1] = t /\ lock' = Tail(lock) /\ Len(lock) \in Nat \ {0}
    BY DEF Queue, Holds, Release
  <2>2. lock' \in Seq(Task) /\ Len(lock') = Len(lock) - 1
        /\ \A i \in 1 .. Len(lock) - 1 : lock'[i] = lock[i + 1]
    BY <2>1 DEF Queue
  <2>3. IsInjective(lock')
    BY <2>1, <2>2 DEF Queue, IsInjective
  <2>4. \A s \in ToSet(lock') : s \in ToSet(lock) /\ s # t
    BY <2>1, <2>2 DEF Queue, IsInjective, ToSet
  <2>5. ASSUME NEW s \in ToSet(lock), s # t PROVE s \in ToSet(lock')
    <3>1. PICK i \in 1 .. Len(lock) : lock[i] = s
      BY DEF ToSet, Queue
    <3>2. i - 1 \in 1 .. Len(lock) - 1 /\ lock'[i - 1] = s
      BY <2>1, <2>2, <2>5, <3>1
    <3>. QED
      BY <2>2, <3>2 DEF ToSet
  <2>. QED
    BY <2>2, <2>3, <2>4, <2>5
<1>2. \A s \in Task \ {t} : ~Inside(s)
  BY DEF Queue, Holds
<1>. QED
  BY <1>1, <1>2 DEF Queue

\* A task leaves the queue wherever it is in it.
LEMMA QueueLeft ==
  ASSUME Queue, NEW t \in Task, lock' = RemoveFirst(lock, t),
         pc' \in [Task -> Places], ~Waits(t)', ~Inside(t)',
         \A s \in Task \ {t} : (Waits(s)' <=> Waits(s)) /\ (Inside(s)' => Inside(s))
  PROVE  Queue'
<1>1. /\ lock' \in Seq(Task) /\ IsInjective(lock')
      /\ ToSet(lock') = ToSet(lock) \ {t}
  BY RemoveOne DEF Queue
<1>2. ASSUME NEW s \in Task \ {t}, Holds(s) PROVE Holds(s)'
  <2>1. lock # << >> /\ lock[1] = s
    BY <1>2 DEF Holds, Queue
  <2>2. CASE t \notin ToSet(lock)
    BY <2>1, <2>2 DEF Holds, RemoveFirst, ToSet
  <2>3. CASE t \in ToSet(lock)
    <3>1. PICK k \in 1 .. Len(lock) : lock[k] = t
      BY <2>3 DEF ToSet, Queue
    <3>2. k # 1 /\ Len(lock) \in Nat
      BY <1>2, <2>1, <3>1 DEF Queue
    <3>3. /\ Len(lock') = Len(lock) - 1
          /\ \A i \in 1 .. Len(lock) - 1 : lock'[i] = IF i < k THEN lock[i] ELSE lock[i + 1]
      BY <3>1, RemoveItems DEF Queue
    <3>4. 1 \in 1 .. Len(lock) - 1 /\ 1 < k
      BY <3>1, <3>2
    <3>5. lock'[1] = s /\ lock' # << >>
      BY <1>1, <2>1, <3>3, <3>4
    <3>. QED
      BY <3>5 DEF Holds
  <2>. QED
    BY <2>2, <2>3
<1>. QED
  BY <1>1, <1>2 DEF Queue

-----------------------------------------------------------------------------
(* An unload, by any task                                                  *)

LEMMA StoppedStep ==
  ASSUME LockInv, NEW t \in Task, Stopped(t) PROVE LockInv'
<1>. USE TaskFacts
<1>. DEFINE x == job[t].engine
<1>0. /\ pc[t] = "stopping" /\ lock' = lock /\ job' = job
      /\ pc' = [s \in Task |-> IF s = t THEN "clearing"
                               ELSE IF s \in Waiting(x) THEN "stranded" ELSE pc[s]]
  BY DEF Stopped
<1>1. /\ pc' \in [Task -> Places] /\ pc'[t] = "clearing"
      /\ \A s \in Task \ {t} : pc'[s] = pc[s] \/ (pc[s] = "using" /\ pc'[s] = "stranded")
  BY <1>0 DEF Waiting, InFlight, LockInv, Queue, Places
<1>2. Queue'
  BY <1>0, <1>1, QueueKept DEF LockInv, Queue, Waits, Inside, Beside
<1>3. Jobs'
  BY <1>0, <1>1 DEF LockInv, Jobs
<1>4. /\ DOMAIN entry' = DOMAIN entry
      /\ \A e \in DOMAIN entry : "loading" \in DOMAIN entry[e] =>
           "loading" \in DOMAIN entry'[e] /\ entry'[e].loading = entry[e].loading
  BY DEF Stopped
<1>5. \A c \in Client : pc[c] = "loading" => pc'[c] = "loading" /\ job'[c] = job[c]
  BY <1>0, <1>1
<1>6. Loads'
  BY <1>4, <1>5 DEF LockInv, Loads
<1>. QED
  BY <1>2, <1>3, <1>6 DEF LockInv

LEMMA ClearedStep ==
  ASSUME LockInv, NEW t \in Task, Cleared(t) PROVE LockInv'
<1>. USE TaskFacts
<1>1. /\ pc[t] = "clearing" /\ pc' = [pc EXCEPT ![t] = job[t].back]
      /\ job' = [job EXCEPT ![t] = None] /\ lock' = lock /\ entry' = entry
      /\ job[t].back \in Backs(t)
  BY DEF Cleared, poolVars, LockInv, Jobs
<1>2. job[t].back \in {"evict", "process", "unload", "limit", "enforce", "expire"}
  BY <1>1 DEF Backs
<1>3. Queue'
  <2>1. pc' \in [Task -> Places] /\ pc'[t] = job[t].back
    BY <1>1, <1>2 DEF LockInv, Queue, Places
  <2>2. (Waits(t)' <=> Waits(t)) /\ (Inside(t)' => Inside(t))
    BY <1>1, <1>2, <2>1 DEF Waits, Inside, Beside
  <2>3. \A s \in Task \ {t} : pc'[s] = pc[s] /\ job'[s] = job[s]
    BY <1>1 DEF LockInv, Queue, Jobs
  <2>4. \A s \in Task : (Waits(s)' <=> Waits(s)) /\ (Inside(s)' => Inside(s))
    BY <2>2, <2>3 DEF Waits, Inside, Beside
  <2>. QED
    BY <1>1, <2>1, <2>4, QueueKept DEF LockInv, Queue
<1>4. Jobs'
  BY <1>1, <1>2 DEF LockInv, Jobs, Queue
<1>5. Loads'
  BY <1>1 DEF LockInv, Loads, Jobs, Queue
<1>. QED
  BY <1>3, <1>4, <1>5 DEF LockInv

\* A task that begins an unload from a place with the same right to the lock.
LEMMA BeginUnloadStep ==
  ASSUME LockInv, NEW t \in Task, NEW m, NEW back \in Backs(t), BeginUnload(t, m, back),
         lock' = lock, pc[t] \notin {"loading", "stopping", "clearing"},
         back \in {"unload", "limit"} \/ Holds(t),
         Waits(t) <=> back \notin {"unload", "limit"},
         pc' \in [Task -> Places], pc'[t] = "stopping",
         \A s \in Task \ {t} : pc'[s] = pc[s] \/ (pc[s] = "using" /\ pc'[s] = "done")
  PROVE  LockInv'
<1>. USE TaskFacts
<1>1. DOMAIN job' = Task /\ job'[t].back = back /\ entry' = entry
      /\ \A s \in Task \ {t} : job'[s] = job[s]
  BY DEF BeginUnload, LockInv, Jobs
<1>2. \A s \in Task : (Waits(s)' <=> Waits(s)) /\ (Inside(s)' => Holds(s))
  <2>1. (Waits(t)' <=> Waits(t)) /\ (Inside(t)' => Holds(t))
    BY <1>1 DEF Waits, Inside, Beside
  <2>2. ASSUME NEW s \in Task \ {t}
        PROVE  (Waits(s)' <=> Waits(s)) /\ (Inside(s)' => Inside(s))
    BY <1>1 DEF Waits, Inside, Beside
  <2>. QED
    BY <2>1, <2>2 DEF LockInv, Queue
<1>3. Queue'
  BY <1>2, QueueKept DEF LockInv
<1>4. Jobs'
  BY <1>1 DEF LockInv, Jobs, Backs
<1>5. Loads'
  BY <1>1 DEF LockInv, Loads
<1>. QED
  BY <1>3, <1>4, <1>5 DEF LockInv

-----------------------------------------------------------------------------
(* get_engine                                                              *)

LEMMA GetEngineStep ==
  ASSUME LockInv, NEW c \in Client, NEW m \in Model, GetEngine(c, m) PROVE LockInv'
<1>. USE TaskFacts
<1>1. /\ pc[c] = "idle" /\ pc' = [pc EXCEPT ![c] = "lookup"] /\ lock' = Append(lock, c)
      /\ job' = job /\ entry' = entry
  BY DEF GetEngine, poolVars
<1>2. /\ pc' \in [Task -> Places] /\ pc'[c] = "lookup"
      /\ \A s \in Task \ {c} : pc'[s] = pc[s]
  BY <1>1 DEF LockInv, Queue, Places
<1>3. ~Waits(c) /\ Waits(c)' /\ ~Inside(c)'
  BY <1>1, <1>2 DEF Waits, Inside, Beside
<1>4. Queue'
  BY <1>1, <1>2, <1>3, QueueJoined DEF LockInv
<1>5. Jobs'
  BY <1>1, <1>2 DEF LockInv, Jobs
<1>6. Loads'
  BY <1>1, <1>2 DEF LockInv, Loads
<1>. QED
  BY <1>4, <1>5, <1>6 DEF LockInv

\* A client that gives the lock back without having changed an entry.
LEMMA ClientReleases ==
  ASSUME LockInv, NEW c \in Client, Holds(c), Release, pc[c] # "loading",
         NEW place \in {"got", "done"}, pc' = [pc EXCEPT ![c] = place],
         UNCHANGED <<entry, job>>
  PROVE  LockInv'
<1>. USE TaskFacts
<1>1. /\ pc' \in [Task -> Places] /\ pc'[c] = place
      /\ \A s \in Task \ {c} : pc'[s] = pc[s]
  BY DEF LockInv, Queue, Places
<1>2. Queue'
  BY <1>1, QueueReleased DEF LockInv, Waits, Inside, Beside
<1>3. Jobs'
  BY <1>1 DEF LockInv, Jobs
<1>4. Loads'
  BY <1>1 DEF LockInv, Loads
<1>. QED
  BY <1>2, <1>3, <1>4 DEF LockInv

\* _find_lru_victim, for either limit.
LEMMA EvictingStep ==
  ASSUME LockInv, NEW c \in Client, EvictForLoad(c) \/ EvictForProcess(c) PROVE LockInv'
<1>. USE TaskFacts
<1>1. /\ Holds(c) /\ pc[c] \in {"lookup", "evict", "process"} /\ lock' = lock
      /\ \E m \in Model : \E back \in {"evict", "process"} : BeginUnload(c, m, back)
      /\ pc' = [pc EXCEPT ![c] = "stopping"]
  BY DEF EvictForLoad, EvictForProcess, HasRoom, NeedsRoom
<1>2. /\ pc' \in [Task -> Places] /\ pc'[c] = "stopping"
      /\ \A s \in Task \ {c} : pc'[s] = pc[s]
  BY <1>1 DEF LockInv, Queue, Places
<1>3. Waits(c) /\ Backs(c) = {"evict", "process"}
  BY <1>1 DEF Waits, Beside, Backs
<1>. QED
  BY <1>1, <1>2, <1>3, BeginUnloadStep

LEMMA BeginLoadStep ==
  ASSUME LockInv, NEW c \in Client, BeginLoad(c) PROVE LockInv'
<1>. USE TaskFacts
<1>. DEFINE e == Entry(goal[c])
<1>1. /\ Holds(c) /\ pc[c] \in {"lookup", "evict", "process"} /\ lock' = lock
      /\ entry' = [entry EXCEPT ![e].loading = TRUE]
      /\ job' = [job EXCEPT ![c] = [entry |-> e]]
      /\ pc' = [pc EXCEPT ![c] = "loading"]
  BY DEF BeginLoad, HasRoom, NeedsRoom
<1>. HIDE DEF e
<1>2. /\ pc' \in [Task -> Places] /\ pc'[c] = "loading"
      /\ \A s \in Task \ {c} : pc'[s] = pc[s]
  BY <1>1 DEF LockInv, Queue, Places
<1>4. DOMAIN job' = Task /\ job'[c].entry = e /\ \A s \in Task \ {c} : job'[s] = job[s]
  BY <1>1 DEF LockInv, Jobs
<1>3. Queue'
  BY <1>1, <1>2, <1>4, QueueKept DEF LockInv, Queue, Waits, Inside, Beside
<1>5. Jobs'
  BY <1>2, <1>4 DEF LockInv, Jobs, Backs
<1>6. /\ DOMAIN entry' = DOMAIN entry
      /\ \A f \in DOMAIN entry : "loading" \in DOMAIN entry[f] =>
           /\ "loading" \in DOMAIN entry'[f]
           /\ f # e => entry'[f].loading = entry[f].loading
  BY <1>1
<1>7. Loads'
  BY <1>1, <1>2, <1>4, <1>6 DEF LockInv, Loads
<1>. QED
  BY <1>3, <1>5, <1>7 DEF LockInv

\* The load ends: it was the only one, so that no entry is loading now.
LEMMA LoadEndsStep ==
  ASSUME LockInv, NEW c \in Client, LoadDone(c) \/ LoadFails(c) PROVE LockInv'
<1>. USE TaskFacts
<1>. DEFINE e == job[c].entry
<1>1. pc[c] = "loading" /\ Holds(c)
  BY DEF LoadDone, LoadFails, LockInv, Queue, Inside, Beside
<1>2. /\ Release /\ job' = [job EXCEPT ![c] = None]
      /\ \E place \in {"got", "done"} : pc' = [pc EXCEPT ![c] = place]
  BY DEF LoadDone, LoadFails
<1>3. /\ DOMAIN entry' = DOMAIN entry
      /\ \A f \in DOMAIN entry : "loading" \in DOMAIN entry[f] =>
           /\ "loading" \in DOMAIN entry'[f]
           /\ f # e => entry'[f].loading = entry[f].loading
           /\ f = e => entry'[f].loading = FALSE
  BY DEF LoadDone, LoadFails
<1>. HIDE DEF e
<1>4. /\ pc' \in [Task -> Places] /\ pc'[c] \in {"got", "done"}
      /\ \A s \in Task \ {c} : pc'[s] = pc[s]
  BY <1>2 DEF LockInv, Queue, Places
<1>0. \A s \in Task \ {c} : job'[s] = job[s]
  BY <1>2 DEF LockInv, Jobs
<1>5. Queue'
  BY <1>0, <1>1, <1>2, <1>4, QueueReleased DEF LockInv, Waits, Inside, Beside
<1>6. Jobs'
  BY <1>2, <1>4 DEF LockInv, Jobs
<1>7. \A d \in Client : pc[d] = "loading" => d = c
  BY <1>1 DEF LockInv, Queue, Inside, Beside, Holds
<1>8. \A f \in Model \X Index : ~entry'[f].loading
  BY <1>3, <1>7 DEF LockInv, Loads, e
<1>9. Loads'
  BY <1>3, <1>8 DEF LockInv, Loads
<1>. QED
  BY <1>5, <1>6, <1>9 DEF LockInv

LEMMA GettingStep ==
  ASSUME LockInv, NEW c \in Client, Getting(c) PROVE LockInv'
<1>1. CASE AlreadyLoaded(c)
  BY <1>1, ClientReleases DEF AlreadyLoaded
<1>2. CASE GetFails(c)
  BY <1>2, ClientReleases DEF GetFails, NeedsRoom, LimitGone, GetRaises, poolVars
<1>3. CASE LoadRefused(c)
  BY <1>3, ClientReleases DEF LoadRefused, HasRoom, NeedsRoom, GetRaises, poolVars
<1>. QED
  BY <1>1, <1>2, <1>3, EvictingStep, BeginLoadStep, LoadEndsStep DEF Getting

-----------------------------------------------------------------------------
(* What goes on beside the lock                                            *)

\* A task that neither waits nor unloads, before or after its step.
LEMMA AsideStep ==
  ASSUME LockInv, NEW t \in Task, NEW place \in Places, pc' = [pc EXCEPT ![t] = place],
         UNCHANGED <<lock, entry, job>>,
         {pc[t], place} \cap {"lookup", "evict", "process", "loading", "stopping", "clearing",
                              "enforce", "expire"} = {}
  PROVE  LockInv'
<1>1. /\ pc' \in [Task -> Places] /\ pc'[t] = place
      /\ \A s \in Task \ {t} : pc'[s] = pc[s]
  BY DEF LockInv, Queue
<1>2. Queue'
  BY <1>1, QueueKept DEF LockInv, Queue, Waits, Inside, Beside
<1>3. Jobs'
  BY <1>1 DEF LockInv, Jobs
<1>4. \A c \in Client : pc[c] = "loading" => pc'[c] = "loading" /\ job'[c] = job[c]
  BY <1>1, TaskFacts
<1>5. Loads'
  BY <1>4 DEF LockInv, Loads
<1>. QED
  BY <1>2, <1>3, <1>5 DEF LockInv

LEMMA GeneratingStep ==
  ASSUME LockInv, NEW c \in Client, Generating(c) \/ Generated(c) PROVE LockInv'
<1>1. c \in Task
  BY TaskFacts
<1>2. CASE StartGenerate(c)
  <2>1. \E place \in {"using", "reviving"} : pc' = [pc EXCEPT ![c] = place]
    BY <1>2 DEF StartGenerate
  <2>2. pc[c] = "got" /\ UNCHANGED <<lock, entry, job>>
    BY <1>2 DEF StartGenerate, poolVars
  <2>. QED
    BY <1>1, <2>1, <2>2, AsideStep DEF Places
<1>3. CASE Revived(c)
  BY <1>1, <1>3, AsideStep DEF Revived, Places
<1>4. CASE Generated(c)
  BY <1>1, <1>4, AsideStep DEF Generated, poolVars, Places
<1>5. CASE StartEmbed(c)
  <2>1. \E place \in {"using", "done"} : pc' = [pc EXCEPT ![c] = place]
    BY <1>5 DEF StartEmbed
  <2>2. pc[c] = "got" /\ UNCHANGED <<lock, entry, job>>
    BY <1>5 DEF StartEmbed, poolVars
  <2>. QED
    BY <1>1, <2>1, <2>2, AsideStep DEF Places
<1>. QED
  BY <1>2, <1>3, <1>4, <1>5 DEF Generating

LEMMA PollStep ==
  ASSUME LockInv, NEW t \in Task, (Poll /\ t = Enforcer) \/ CheckNow(t) PROVE LockInv'
<1>1. /\ pc[t] \in {"idle", "sleep", "enforced"} /\ lock' = Append(lock, t)
      /\ \E place \in {"enforce", "expire"} : pc' = [pc EXCEPT ![t] = place]
      /\ job' = job /\ entry' = entry
  BY DEF Poll, CheckNow, poolVars
<1>2. /\ pc' \in [Task -> Places] /\ pc'[t] \in {"enforce", "expire"}
      /\ \A s \in Task \ {t} : pc'[s] = pc[s]
  BY <1>1 DEF LockInv, Queue, Places
<1>3. ~Waits(t) /\ Waits(t)' /\ ~Inside(t)'
  BY <1>1, <1>2 DEF Waits, Inside, Beside
<1>4. Queue'
  BY <1>1, <1>2, <1>3, QueueJoined DEF LockInv
<1>5. Jobs'
  BY <1>1, <1>2 DEF LockInv, Jobs
<1>6. Loads'
  BY <1>1, <1>2, TaskFacts DEF LockInv, Loads
<1>. QED
  BY <1>4, <1>5, <1>6 DEF LockInv

\* A task that enforced gives the lock back; requests it aborted end.
LEMMA EnforcerReleases ==
  ASSUME LockInv, NEW t \in Task, Holds(t), Release, pc[t] \in {"enforce", "expire"},
         pc' \in [Task -> Places], pc'[t] \in {"enforced", "sleep", "done"},
         \A s \in Task \ {t} : pc'[s] = pc[s] \/ (pc[s] = "using" /\ pc'[s] = "done"),
         UNCHANGED <<entry, job>>
  PROVE  LockInv'
<1>. USE TaskFacts
<1>1. Queue'
  BY QueueReleased DEF LockInv, Waits, Inside, Beside
<1>2. Jobs'
  BY DEF LockInv, Jobs
<1>3. Loads'
  BY DEF LockInv, Loads
<1>. QED
  BY <1>1, <1>2, <1>3 DEF LockInv

LEMMA EnforceStep ==
  ASSUME LockInv, NEW t \in Admin \cup {Enforcer}, Enforce(t) PROVE LockInv'
<1>. USE TaskFacts
<1>. DEFINE Aborted(told, next) == [s \in Task |-> IF s = t THEN next
                                                   ELSE IF s \in told THEN "done" ELSE pc[s]]
<1>1. pc[t] = "enforce" /\ Holds(t) /\ t \in Task /\ AfterEnforcing(t) \in {"enforced", "done"}
  BY DEF Enforce, AfterEnforcing
<1>2. PICK m \in Model :
        LET told == Waiting(<<m, entry[Entry(m)].engine>>)
        IN  \/ BeginUnload(t, m, "enforce") /\ pc' = Aborted(told, "stopping") /\ lock' = lock
            \/ pc' = Aborted(told, AfterEnforcing(t)) /\ Release /\ UNCHANGED <<entry, job>>
  BY DEF Enforce, poolVars
<1>. DEFINE told == Waiting(<<m, entry[Entry(m)].engine>>)
<1>3. \A s \in told : pc[s] = "using"
  BY DEF Waiting, InFlight
<1>4. \/ BeginUnload(t, m, "enforce") /\ pc' = Aborted(told, "stopping") /\ lock' = lock
      \/ pc' = Aborted(told, AfterEnforcing(t)) /\ Release /\ UNCHANGED <<entry, job>>
  BY <1>2
<1>. HIDE DEF told
<1>5. CASE BeginUnload(t, m, "enforce") /\ pc' = Aborted(told, "stopping") /\ lock' = lock
  <2>1. /\ pc' \in [Task -> Places] /\ pc'[t] = "stopping"
        /\ \A s \in Task \ {t} : pc'[s] = pc[s] \/ (pc[s] = "using" /\ pc'[s] = "done")
    BY <1>1, <1>3, <1>5 DEF LockInv, Queue, Places
  <2>2. Waits(t) /\ "enforce" \in Backs(t)
    BY <1>1 DEF Waits, Beside, Backs
  <2>. QED
    BY <1>1, <1>5, <2>1, <2>2, BeginUnloadStep
<1>6. CASE pc' = Aborted(told, AfterEnforcing(t)) /\ Release /\ UNCHANGED <<entry, job>>
  <2>1. /\ pc' \in [Task -> Places] /\ pc'[t] \in {"enforced", "done"}
        /\ \A s \in Task \ {t} : pc'[s] = pc[s] \/ (pc[s] = "using" /\ pc'[s] = "done")
    BY <1>1, <1>3, <1>6 DEF LockInv, Queue, Places
  <2>. QED
    BY <1>1, <1>6, <2>1, EnforcerReleases
<1>. QED
  BY <1>4, <1>5, <1>6

LEMMA EnforcingStep ==
  ASSUME LockInv, Enforcing PROVE LockInv'
<1>. USE TaskFacts
<1>1. ASSUME NEW t \in Task, pc[t] \in {"enforce", "expire"}, Holds(t), Release,
             NEW place \in {"enforced", "sleep", "done"}, pc' = [pc EXCEPT ![t] = place],
             UNCHANGED <<entry, job>>
      PROVE  LockInv'
  <2>1. /\ pc' \in [Task -> Places] /\ pc'[t] = place
        /\ \A s \in Task \ {t} : pc'[s] = pc[s]
    BY <1>1 DEF LockInv, Queue, Places
  <2>. QED
    BY <1>1, <2>1, EnforcerReleases
<1>2. ASSUME NEW t \in Admin \cup {Enforcer}, EnforceEnds(t) PROVE LockInv'
  BY <1>1, <1>2 DEF EnforceEnds, AfterEnforcing, poolVars
<1>3. CASE ExpireEnds
  BY <1>1, <1>3 DEF ExpireEnds, poolVars
<1>4. ASSUME NEW m \in Model, Expire(m) PROVE LockInv'
  <2>1. /\ pc[Enforcer] = "expire" /\ Holds(Enforcer) /\ lock' = lock
        /\ BeginUnload(Enforcer, m, "expire") /\ pc' = [pc EXCEPT ![Enforcer] = "stopping"]
    BY <1>4 DEF Expire
  <2>2. /\ pc' \in [Task -> Places] /\ pc'[Enforcer] = "stopping"
        /\ \A s \in Task \ {Enforcer} : pc'[s] = pc[s]
    BY <2>1 DEF LockInv, Queue, Places
  <2>3. Waits(Enforcer) /\ "expire" \in Backs(Enforcer)
    BY <2>1 DEF Waits, Beside, Backs
  <2>. QED
    BY <2>1, <2>2, <2>3, BeginUnloadStep
<1>. QED
  BY <1>2, <1>3, <1>4, EnforceStep DEF Enforcing

\* Wherever the enforcer is cancelled, it is no longer in the queue.
LEMMA OffStep ==
  ASSUME LockInv, Cancelled \/ StopCancelled PROVE LockInv'
<1>. USE TaskFacts
<1>1. /\ pc' = [pc EXCEPT ![Enforcer] = "off"] /\ job' = [job EXCEPT ![Enforcer] = None]
      /\ lock' = RemoveFirst(lock, Enforcer) /\ entry' = entry
  BY DEF Cancelled, StopCancelled, EnforcerOff, poolVars
<1>2. /\ pc' \in [Task -> Places] /\ pc'[Enforcer] = "off" /\ DOMAIN job' = Task
      /\ \A s \in Task \ {Enforcer} : pc'[s] = pc[s] /\ job'[s] = job[s]
  BY <1>1 DEF LockInv, Queue, Jobs, Places
<1>3. /\ ~Waits(Enforcer)' /\ ~Inside(Enforcer)'
      /\ \A s \in Task \ {Enforcer} : (Waits(s)' <=> Waits(s)) /\ (Inside(s)' => Inside(s))
  BY <1>2 DEF Waits, Inside, Beside
<1>4. Queue'
  BY <1>1, <1>2, <1>3, QueueLeft DEF LockInv
<1>5. Jobs'
  BY <1>2 DEF LockInv, Jobs
<1>6. Loads'
  BY <1>1, <1>2 DEF LockInv, Loads
<1>. QED
  BY <1>4, <1>5, <1>6 DEF LockInv

LEMMA SwitchingStep ==
  ASSUME LockInv, Switching PROVE LockInv'
<1>. USE TaskFacts
<1>1. CASE StartEnforcer
  BY <1>1, AsideStep DEF StartEnforcer, poolVars, Places
<1>2. ASSUME NEW a \in Admin, StopEnforcer(a) \/ EnforcerStopped(a) PROVE LockInv'
  <2>1. \E place \in {"quit", "done"} : pc' = [pc EXCEPT ![a] = place]
    BY <1>2 DEF StopEnforcer, EnforcerStopped
  <2>2. pc[a] \in {"idle", "quit"} /\ UNCHANGED <<lock, entry, job>>
    BY <1>2 DEF StopEnforcer, EnforcerStopped, poolVars
  <2>. QED
    BY <2>1, <2>2, AsideStep DEF Places
<1>. QED
  BY <1>1, <1>2, OffStep, PollStep DEF Switching

LEMMA AdminStep ==
  ASSUME LockInv, NEW a \in Admin,
         AdminStarts(a) \/ ChangeLimit(a) \/ ChangePin(a) \/ Administering(a)
  PROVE  LockInv'
<1>1. a \in Task /\ Backs(a) = {"unload", "limit", "enforce"}
  BY TaskFacts DEF Backs
<1>2. CASE AdminStarts(a) \/ ChangeLimit(a) \/ ChangePin(a) \/ AdminEnds(a) \/ LimitEnds(a)
  <2>1. PICK place \in {"unload", "limit", "done"} : pc' = [pc EXCEPT ![a] = place]
    BY <1>2 DEF AdminStarts, ChangeLimit, ChangePin, AdminEnds, LimitEnds
  <2>2. pc[a] \in {"idle", "unload", "limit"} /\ UNCHANGED <<lock, entry, job>>
    BY <1>2 DEF AdminStarts, ChangeLimit, ChangePin, AdminEnds, LimitEnds, poolVars
  <2>3. place \in Places /\ {pc[a], place} \cap {"lookup", "evict", "process", "loading", "stopping",
                                                  "clearing", "enforce", "expire"} = {}
    BY <2>2 DEF Places
  <2>. QED
    BY <1>1, <2>1, <2>2, <2>3, AsideStep
<1>3. ASSUME NEW m \in Model, NEW back \in {"unload", "limit"}, pc[a] = back, lock' = lock,
             BeginUnload(a, m, back), pc' = [pc EXCEPT ![a] = "stopping"]
      PROVE  LockInv'
  <2>1. /\ pc' \in [Task -> Places] /\ pc'[a] = "stopping"
        /\ \A s \in Task \ {a} : pc'[s] = pc[s]
    BY <1>1, <1>3 DEF LockInv, Queue, Places
  <2>2. ~Waits(a)
    BY <1>3 DEF Waits
  <2>. QED
    BY <1>1, <1>3, <2>1, <2>2, BeginUnloadStep
<1>4. CASE EvictForLimit(a)
  BY <1>3, <1>4 DEF EvictForLimit
<1>5. ASSUME NEW m \in Model, AdminUnloads(a, m) PROVE LockInv'
  <2>1. CASE Loaded(m)
    BY <1>3, <1>5, <2>1 DEF AdminUnloads
  <2>2. CASE ~Loaded(m)
    BY <1>5, <2>2 DEF AdminUnloads, poolVars, LockInv, Queue, Jobs, Loads, Waits, Inside, Beside, Holds
  <2>. QED
    BY <2>1, <2>2
<1>. QED
  BY <1>2, <1>4, <1>5 DEF Administering

\* New entries are not loading.
LEMMA NewEntries ==
  ASSUME LockInv, DOMAIN entry' = Model \X Index,
         \A e \in Model \X Index : entry'[e] \in {NewEntry, entry[e]},
         NEW a \in Task, pc' = pc \/ (pc[a] = "unload" /\ pc' = [pc EXCEPT ![a] = "done"]),
         UNCHANGED <<lock, job>>
  PROVE  LockInv'
<1>1. /\ pc' \in [Task -> Places]
      /\ \A s \in Task : pc'[s] = pc[s] \/ (pc[s] = "unload" /\ pc'[s] = "done")
  BY DEF LockInv, Queue, Places
<1>2. Queue'
  BY <1>1, QueueKept DEF LockInv, Queue, Waits, Inside, Beside
<1>3. Jobs'
  BY <1>1 DEF LockInv, Jobs
<1>4. "loading" \in DOMAIN NewEntry /\ NewEntry.loading = FALSE
  BY DEF NewEntry
<1>5. \A c \in Client : pc[c] = "loading" => pc'[c] = "loading" /\ job'[c] = job[c]
  BY <1>1, TaskFacts
<1>6. \A e \in Model \X Index :
        /\ "loading" \in DOMAIN entry'[e]
        /\ entry'[e].loading => entry[e].loading
  BY <1>4 DEF LockInv, Loads
<1>7. Loads'
  BY <1>5, <1>6 DEF LockInv, Loads
<1>. QED
  BY <1>2, <1>3, <1>7 DEF LockInv

LEMMA RediscoverStep ==
  ASSUME LockInv, NEW found, Rediscover(found) PROVE LockInv'
<1>1. /\ DOMAIN entry' = Model \X Index
      /\ \A e \in Model \X Index : entry'[e] \in {NewEntry, entry[e]}
  BY DEF Rediscover, Discover
<1>2. UNCHANGED <<pc, lock, job>>
  BY DEF Rediscover, taskVars
<1>. QED
  BY <1>1, <1>2, NewEntries, TaskFacts

LEMMA ChangeDirsStep ==
  ASSUME LockInv, NEW a \in Admin, ChangeDirs(a) PROVE LockInv'
<1>1. /\ DOMAIN entry' = Model \X Index
      /\ \A e \in Model \X Index : entry'[e] \in {NewEntry, entry[e]}
  BY DEF ChangeDirs
<1>. QED
  BY <1>1, NewEntries, TaskFacts DEF ChangeDirs

-----------------------------------------------------------------------------
LEMMA LockInvInit == Init => LockInv
<1>. SUFFICES ASSUME Init PROVE LockInv
  OBVIOUS
<1>1. Queue
  <2>1. lock = << >> /\ pc \in [Task -> Places] /\ \A t \in Task : pc[t] \in {"sleep", "idle"}
    BY DEF Init, Places
  <2>2. lock \in Seq(Task) /\ IsInjective(lock) /\ ToSet(lock) = {}
    BY <2>1 DEF IsInjective, ToSet
  <2>. QED
    BY <2>1, <2>2 DEF Queue, Waits, Inside, Beside
<1>2. Jobs
  BY DEF Init, Jobs
<1>3. Loads
  BY DEF Init, Loads, NewEntry
<1>. QED
  BY <1>1, <1>2, <1>3 DEF LockInv

LEMMA LockInvStep == LockInv /\ [Next]_vars => LockInv'
<1>. SUFFICES ASSUME LockInv, [Next]_vars PROVE LockInv'
  OBVIOUS
<1>1. CASE \E t \in Task : Unloading(t)
  BY <1>1, StoppedStep, ClearedStep DEF Unloading
<1>2. CASE \E c \in Client : Getting(c) \/ Generating(c) \/ Generated(c)
  BY <1>2, GettingStep, GeneratingStep
<1>3. CASE \E c \in Client, m \in Model : GetEngine(c, m)
  BY <1>3, GetEngineStep
<1>4. CASE Poll \/ Enforcing \/ Switching
  BY <1>4, PollStep, EnforcingStep, SwitchingStep, TaskFacts
<1>5. ASSUME NEW a \in Admin,
             AdminStarts(a) \/ ChangeLimit(a) \/ ChangePin(a) \/ Administering(a) \/ ChangeDirs(a)
      PROVE  LockInv'
  BY <1>5, AdminStep, ChangeDirsStep
<1>6. CASE \E found \in {Model} \cup {Model \ {m} : m \in Model} : Rediscover(found)
  BY <1>6, RediscoverStep
<1>7. CASE UNCHANGED vars
  BY <1>7 DEF vars, poolVars, taskVars, LockInv, Queue, Jobs, Loads, Waits, Inside, Beside, Holds
<1>. QED
  BY <1>1, <1>2, <1>3, <1>4, <1>5, <1>6, <1>7 DEF Next

LEMMA LockInvImplies == LockInv => LockDiscipline
<1>. SUFFICES ASSUME LockInv PROVE LockDiscipline
  OBVIOUS
<1>1. LoadHoldsLock
  BY TaskFacts DEF LockInv, Loads, Queue, Inside, Beside, LoadHoldsLock
<1>2. ASSUME lock # << >> PROVE Head(lock) \in Task /\ Waits(Head(lock))
  <2>1. Head(lock) \in Task /\ Head(lock) \in ToSet(lock)
    BY <1>2 DEF LockInv, Queue, ToSet
  <2>. QED
    BY <2>1 DEF LockInv, Queue
<1>3. LockNotLeaked
  BY <1>2 DEF LockNotLeaked, Waits
<1>. QED
  BY <1>1, <1>3 DEF LockDiscipline

\* Whatever fails, is evicted, unloaded or rediscovered, and in whatever order:
\* the lock of the pool is held only by a task inside get_engine, the
\* enforcement or the TTL check, and a loading flag only stands under it.
THEOREM PoolLockDiscipline == Spec => []LockDiscipline
<1>1. LockInv /\ [Next]_vars => LockInv'
  BY LockInvStep
<1>. QED
  BY LockInvInit, <1>1, LockInvImplies, PTL DEF Spec

-----------------------------------------------------------------------------
(* The account of the memory                                               *)

Engines == Model \X Index

LEMMA EnginesFinite == IsFiniteSet(Engines)
<1>1. IsFiniteSet(Index)
  BY FS_Interval, EnginePoolAssumption DEF Index
<1>. QED
  BY <1>1, FS_Product, EnginePoolAssumption DEF Engines

\* The weights of sets of engines are a sum.
LEMMA WeightsAreSum ==
  IsSum([T \in SUBSET Engines |-> Weight(T)], [x \in Engines |-> Size(x[1])], Engines)
<1>. DEFINE g == [x \in Engines |-> Size(x[1])]
            pick == [T \in SUBSET Engines |-> CHOOSE x \in T : TRUE]
            value == [T \in SUBSET Engines |-> Weight(T)]
            Rec(sum, T) == sum = [s \in SUBSET T |->
                             IF s = {} THEN 0
                             ELSE Size((CHOOSE x \in s : TRUE)[1]) + sum[s \ {CHOOSE x \in s : TRUE}]]
            Best(T) == CHOOSE sum : Rec(sum, T)
<1>1. \A T \in SUBSET Engines : T # {} => pick[T] \in T
  OBVIOUS
<1>2. \A x \in Engines : g[x] \in Int
  BY EnginePoolAssumption DEF Engines
<1>3. ASSUME NEW T \in SUBSET Engines, NEW sum PROVE Rec(sum, T) <=> IsFold(sum, g, pick, T)
  BY <1>1, <1>3 DEF IsFold
<1>4. ASSUME NEW T \in SUBSET Engines PROVE value[T] = Best(T)[T]
  BY Zenon DEF Weight, MapThenSumSet, MapThenFoldSet
<1>5. value = [T \in SUBSET Engines |-> value[T]]
  OBVIOUS
<1>. HIDE DEF g, pick, value
<1>6. ASSUME NEW T \in SUBSET Engines PROVE IsFold(Best(T), g, pick, T)
  <2>1. IsFiniteSet(T)
    BY FS_Subset, EnginesFinite
  <2>2. \E sum : IsFold(sum, g, pick, T)
    BY <1>1, <2>1, FoldsExist
  <2>3. \E sum : Rec(sum, T)
    <3>. HIDE DEF Rec
    <3>. QED
      BY <1>3, <2>2
  <2>4. Rec(Best(T), T)
    BY <2>3, Zenon
  <2>. QED
    BY <1>3, <2>4
<1>. HIDE DEF Best
<1>7. IsSum(value, g, Engines)
  BY <1>1, <1>2, <1>4, <1>5, <1>6, EnginesFinite, FoldsAreSum
<1>. QED
  BY <1>7 DEF g, value

LEMMA WeightFacts ==
  /\ Weight({}) = 0
  /\ \A T \in SUBSET Engines : Weight(T) \in Nat
  /\ \A T \in SUBSET Engines : \A x \in Engines \ T : Weight(T \cup {x}) = Weight(T) + Size(x[1])
<1>. DEFINE g == [x \in Engines |-> Size(x[1])]
            value == [T \in SUBSET Engines |-> Weight(T)]
<1>1. IsSum(value, g, Engines)
  BY WeightsAreSum
<1>2. \A x \in Engines : g[x] \in Nat /\ g[x] = Size(x[1])
  BY EnginePoolAssumption DEF Engines
<1>3. \A T \in SUBSET Engines : value[T] = Weight(T)
  OBVIOUS
<1>. HIDE DEF g, value
<1>4. \A T \in SUBSET Engines : value[T] \in Nat
  BY <1>1, <1>2, EnginesFinite, SumsAreNat
<1>5. ASSUME NEW T \in SUBSET Engines, NEW x \in Engines \ T
      PROVE  value[T \cup {x}] = g[x] + value[T]
  BY <1>1, SumWith
<1>6. ASSUME NEW T \in SUBSET Engines, NEW x \in Engines \ T
      PROVE  Weight(T \cup {x}) = Weight(T) + Size(x[1])
  <2>1. T \cup {x} \in SUBSET Engines
    OBVIOUS
  <2>2. Weight(T \cup {x}) = value[T \cup {x}] /\ Weight(T) = value[T] /\ value[T] \in Nat
    BY <1>3, <1>4, <2>1
  <2>3. value[T \cup {x}] = Size(x[1]) + value[T] /\ Size(x[1]) \in Nat
    BY <1>2, <1>5
  <2>. HIDE DEF Weight
  <2>. QED
    BY <2>2, <2>3
<1>. QED
  BY <1>1, <1>3, <1>4, <1>6 DEF IsSum

-----------------------------------------------------------------------------
(* The table, the engines and the account                                  *)

Ordered == recency \in Seq(Model)

\* What the places of the tasks say of the models, entries and engines they hold.
Getters == {"lookup", "evict", "process", "loading", "stopping", "clearing"}
Tasks ==
    /\ DOMAIN goal = Client /\ DOMAIN use = Client
    /\ \A c \in Client : pc[c] \in Getters => goal[c] \in Model
    /\ \A c \in Client : pc[c] = "loading" =>
         use[c] \in Index /\ job[c].entry \in Engines /\ job[c].entry[1] = goal[c]
    /\ \A t \in Task : pc[t] = "stopping" =>
         job[t].entry \in Engines /\ job[t].engine \in Engines /\ job[t].engine[1] = job[t].entry[1]

\* A client that evicts asks for a model that is not loaded.
Evicting == {"evict", "process", "stopping", "clearing"}
Unloaded == \A c \in Client : pc[c] \in Evicting => ~Loaded(goal[c])

Owned == \A x \in InMemory : Known(x[1]) /\ entry[Entry(x[1])].engine = x[2]
Current == \A m \in Model : Loaded(m) => <<m, entry[Entry(m)].engine>> \in InMemory

Stopping ==
    /\ \A t \in Task : pc[t] = "stopping" => job[t].engine \in InMemory /\ job[t].entry = Entry(job[t].engine[1])
    /\ \A s, t \in Task :
         pc[s] = "stopping" /\ pc[t] = "stopping" /\ job[s].entry = job[t].entry => s = t

Starting ==
    \A c \in Client : pc[c] = "loading" =>
        engine[<<goal[c], use[c]>>] = "starting" /\ entry[job[c].entry].engine = None

Account == Owned /\ Current /\ Stopping /\ Starting /\ MemoryCounted
Settled == limit \in Limits /\ cap \in [Admin -> Limits \cup {None}] /\ pinned \subseteq Model
PoolInv == PoolTypeOK /\ Ordered /\ Tasks /\ Unloaded /\ (drift = {} => Account)

LEMMA NoneFacts == None \notin Index /\ None \notin Model /\ Index \subseteq Nat
  BY EnginePoolAssumption DEF Index

LEMMA LoadedFacts ==
  ASSUME PoolTypeOK, NEW m \in Model, Loaded(m)
  PROVE  /\ table[m] \in Index /\ Entry(m) \in Engines /\ Entry(m) = <<m, table[m]>>
         /\ entry[Entry(m)].engine \in Index
<1>1. table[m] \in Index
  BY DEF PoolTypeOK, Loaded, Known
<1>2. Entry(m) \in Engines
  BY <1>1 DEF Entry, Engines
<1>3. entry[Entry(m)] \in [engine : Index \cup {None}, loading : BOOLEAN]
  BY <1>2 DEF PoolTypeOK, Engines
<1>. QED
  BY <1>1, <1>2, <1>3 DEF Loaded, Entry

LEMMA QueueTyped == LockInv => ToSet(lock) \subseteq Task /\ IsInjective(lock)
  BY DEF LockInv, Queue, ToSet

LEMMA UnloadedKept ==
  ASSUME PoolInv, \A n \in Model : Loaded(n)' => Loaded(n),
         \A c \in Client : pc'[c] \in Evicting =>
            /\ goal'[c] = goal[c] /\ goal[c] \in Model
            /\ pc[c] \in Evicting \/ ~Loaded(goal[c])
  PROVE  Unloaded'
<1>1. ASSUME NEW c \in Client, pc'[c] \in Evicting PROVE ~Loaded(goal[c])'
  <2>1. ~Loaded(goal[c]) /\ goal[c] \in Model /\ goal'[c] = goal[c]
    BY <1>1 DEF PoolInv, Unloaded
  <2>2. ASSUME NEW n \in Model, ~Loaded(n), goal'[c] = n PROVE ~Loaded(goal[c])'
    BY <2>2 DEF Loaded, Known, Entry
  <2>. QED
    BY <2>1, <2>2
<1>. QED
  BY <1>1 DEF Unloaded

\* The pool stays as it is, but for the order of use; and nobody begins to
\* unload or to load.
LEMMA PoolKept ==
  ASSUME PoolInv, LockInv', UNCHANGED <<table, entry, memory, engine, drift>>, Settled',
         Ordered', IsInjective(recency'), ToSet(recency') = ToSet(recency),
         DOMAIN goal' = Client, DOMAIN use' = Client,
         \A c \in Client : pc'[c] \in Getters =>
            goal'[c] \in Model \/ (pc[c] \in Getters /\ goal'[c] = goal[c]),
         \A c \in Client : pc'[c] = "loading" =>
            pc[c] = "loading" /\ goal'[c] = goal[c] /\ use'[c] = use[c] /\ job'[c] = job[c],
         \A t \in Task : pc'[t] = "stopping" => pc[t] = "stopping" /\ job'[t] = job[t],
         \A c \in Client : pc'[c] \in Evicting => pc[c] \in Evicting /\ goal'[c] = goal[c]
  PROVE  PoolInv'
<1>1. PoolTypeOK'
  <2>1. \A m \in Model : Loaded(m)' <=> Loaded(m)
    BY DEF Loaded, Known, Entry, MemoryCounted
  <2>2. (ToSet(recency) = {m \in Model : Loaded(m)})'
    BY <2>1 DEF PoolInv, PoolTypeOK
  <2>. QED
    BY <2>2, QueueTyped DEF PoolInv, PoolTypeOK, Settled, LockInv, Queue, ToSet
<1>2. Tasks'
  BY DEF PoolInv, Tasks
<1>u. Unloaded'
  <2>1. \A m \in Model : Loaded(m)' => Loaded(m)
    BY DEF Loaded, Known, Entry
  <2>2. \A c \in Client : pc'[c] \in Evicting => goal[c] \in Model
    BY DEF PoolInv, Tasks, Evicting, Getters
  <2>. QED
    BY <2>1, <2>2, UnloadedKept
<1>3. ASSUME drift = {} PROVE Account'
  <2>1. InMemory' = InMemory
    BY DEF InMemory
  <2>2. Owned' /\ Current' /\ MemoryCounted'
    BY <1>3, <2>1 DEF PoolInv, Account, Owned, Current, Loaded, Known, Entry, MemoryCounted
  <2>3. Stopping'
    BY <1>3, <2>1 DEF PoolInv, Account, Stopping, Entry
  <2>4. Starting'
    BY <1>3 DEF PoolInv, Account, Starting
  <2>. QED
    BY <2>2, <2>3, <2>4 DEF Account
<1>. QED
  BY <1>1, <1>2, <1>u, <1>3 DEF PoolInv

\* A task marks the engine of a loaded model as stopping.
LEMMA UnloadBegins ==
  ASSUME PoolInv, LockInv, LockInv', NEW t \in Task, NEW m \in Model, NEW back,
         Loaded(m), BeginUnload(t, m, back), UNCHANGED settings, pc[t] # "stopping",
         t \in Client => pc[t] \in {"lookup", "evict", "process"} /\ ~Loaded(goal[t]), pc'[t] = "stopping",
         \A s \in Task \ {t} : pc'[s] = pc[s] \/ (pc[s] = "using" /\ pc'[s] = "done"),
         DOMAIN goal' = Client, DOMAIN use' = Client,
         \A c \in Client : pc'[c] # "done" => goal'[c] = goal[c] /\ use'[c] = use[c]
  PROVE  PoolInv'
<1>. DEFINE e == Entry(m)
            k == entry[e].engine
            x == <<m, k>>
<1>. USE TaskFacts
<1>1. table[m] \in Index /\ e \in Engines /\ e = <<m, table[m]>> /\ k \in Index /\ x \in Engines
  BY LoadedFacts DEF PoolInv, Engines
<1>2. /\ engine' = [engine EXCEPT ![x] = IF @ = "running" THEN "stopping" ELSE @]
      /\ job' = [job EXCEPT ![t] = [entry |-> e, engine |-> x, back |-> back]]
      /\ UNCHANGED <<table, entry, recency, memory>>
      /\ drift' = drift \/ drift' = drift \cup {"overlap"}
      /\ drift' = {} => ~ \E s \in Task : pc[s] = "stopping" /\ job[s].entry = e
  BY DEF BeginUnload
<1>. HIDE DEF k, x, e
<1>3. /\ job'[t].entry = e /\ job'[t].engine = x /\ \A s \in Task \ {t} : job'[s] = job[s]
  BY <1>2 DEF LockInv, Jobs
<1>4. PoolTypeOK'
  <2>1. \A n \in Model : Loaded(n)' <=> Loaded(n)
    BY <1>2 DEF Loaded, Known, Entry, MemoryCounted
  <2>2. (ToSet(recency) = {n \in Model : Loaded(n)})'
    BY <1>2, <2>1 DEF PoolInv, PoolTypeOK
  <2>3. engine' \in [Model \X Index -> {"free", "starting", "running", "stopping", "stopped"}]
    BY <1>1, <1>2 DEF PoolInv, PoolTypeOK
  <2>4. ToSet(lock') \subseteq Task /\ IsInjective(lock')
    BY QueueTyped DEF LockInv, Queue, ToSet
  <2>. QED
    BY <1>2, <2>2, <2>3, <2>4 DEF PoolInv, PoolTypeOK, settings
<1>5. Ordered'
  BY <1>2 DEF PoolInv, Ordered
<1>6. Tasks'
  <2>1. x[1] = e[1]
    BY <1>1 DEF x
  <2>2. \A s \in Task : pc'[s] = "stopping" /\ s # t => pc[s] = "stopping" /\ job'[s] = job[s]
    BY <1>3
  <2>3. \A c \in Client : pc'[c] = "loading" => pc[c] = "loading" /\ job'[c] = job[c]
    BY <1>3
  <2>4. \A c \in Client : pc'[c] \in Getters => pc[c] \in Getters /\ pc'[c] # "done"
    BY DEF Getters
  <2>5. "done" \notin Getters
    BY DEF Getters
  <2>. QED
    BY <1>1, <1>3, <2>1, <2>2, <2>3, <2>4, <2>5 DEF PoolInv, Tasks
<1>u. Unloaded'
  <2>1. \A n \in Model : Loaded(n)' => Loaded(n)
    BY <1>2 DEF Loaded, Known, Entry
  <2>2. ASSUME NEW c \in Client, pc'[c] \in Evicting
        PROVE  goal'[c] = goal[c] /\ goal[c] \in Model /\ (pc[c] \in Evicting \/ ~Loaded(goal[c]))
    <3>1. pc'[c] # "done" /\ pc[c] \in Getters /\ (pc[c] \in Evicting \/ c = t)
      BY <2>2 DEF Evicting, Getters
    <3>. QED
      BY <3>1 DEF PoolInv, Tasks
  <2>. QED
    BY <2>1, <2>2, UnloadedKept
<1>7. ASSUME drift' = {} PROVE Account'
  <2>1. /\ drift = {} /\ Account
        /\ \A s \in Task : pc[s] = "stopping" => job[s].entry # e
    BY <1>2, <1>7 DEF PoolInv
  <2>2. InMemory' = InMemory /\ x \in InMemory
    <3>1. \A y \in Model \X Index : engine'[y] \in {"running", "stopping"} <=> engine[y] \in {"running", "stopping"}
      BY <1>2 DEF PoolInv, PoolTypeOK
    <3>. QED
      BY <2>1, <3>1 DEF InMemory, Account, Current, x, k, e
  <2>3. Owned' /\ Current' /\ MemoryCounted'
    BY <1>2, <2>1, <2>2 DEF Account, Owned, Current, Loaded, Known, Entry, MemoryCounted
  <2>4. Stopping'
    <3>1. e = <<x[1], table'[x[1]]>>
      BY <1>2 DEF x, e, Entry
    <3>2. \A s \in Task : pc'[s] = "stopping" /\ s # t => pc[s] = "stopping" /\ job'[s] = job[s]
      BY <1>3
    <3>3. ASSUME NEW s \in Task, pc'[s] = "stopping"
          PROVE  /\ job'[s].engine \in InMemory'
                 /\ job'[s].entry = <<job'[s].engine[1], table'[job'[s].engine[1]]>>
      <4>1. CASE s = t
        BY <1>3, <2>2, <3>1, <4>1
      <4>2. CASE s # t
        <5>1. pc[s] = "stopping" /\ job'[s] = job[s]
          BY <3>2, <3>3, <4>2
        <5>2. job[s].engine \in InMemory /\ job[s].entry = Entry(job[s].engine[1])
          BY <2>1, <5>1 DEF Account, Stopping
        <5>. QED
          BY <1>2, <2>2, <5>1, <5>2 DEF Entry
      <4>. QED
        BY <4>1, <4>2
    <3>4. \A s \in Task, u \in Task :
            pc'[s] = "stopping" /\ pc'[u] = "stopping" /\ job'[s].entry = job'[u].entry => s = u
      BY <1>3, <2>1, <3>2 DEF Account, Stopping
    <3>. QED
      BY <3>3, <3>4 DEF Stopping, Entry
  <2>5. Starting'
    <3>1. \A y \in Model \X Index : engine[y] = "starting" => engine'[y] = "starting"
      BY <1>2 DEF PoolInv, PoolTypeOK
    <3>2. \A c \in Client : pc'[c] = "loading" =>
            pc[c] = "loading" /\ job'[c] = job[c] /\ goal'[c] = goal[c] /\ use'[c] = use[c]
      BY <1>3
    <3>3. \A c \in Client : pc[c] = "loading" => <<goal[c], use[c]>> \in Model \X Index
      BY DEF PoolInv, Tasks, Getters
    <3>. QED
      BY <1>2, <2>1, <3>1, <3>2, <3>3 DEF Account, Starting
  <2>. QED
    BY <2>3, <2>4, <2>5 DEF Account
<1>. QED
  BY <1>4, <1>5, <1>6, <1>u, <1>7 DEF PoolInv

\* The engine is gone, and its weight is taken off.
LEMMA StoppedKeepsPool ==
  ASSUME PoolInv, LockInv, LockInv', NEW t \in Task, Stopped(t) PROVE PoolInv'
<1>. DEFINE e == job[t].entry
            x == job[t].engine
            m == e[1]
<1>. USE TaskFacts, NoneFacts
<1>1. /\ pc[t] = "stopping"
      /\ engine' = [engine EXCEPT ![x] = "stopped"]
      /\ memory' = memory - Size(m)
      /\ entry' = [entry EXCEPT ![e].engine = None]
      /\ recency' = IF e = Entry(m) THEN RemoveFirst(recency, m) ELSE recency
      /\ pc' = [s \in Task |-> IF s = t THEN "clearing"
                               ELSE IF s \in Waiting(x) THEN "stranded" ELSE pc[s]]
      /\ Leave(Waiting(x))
      /\ UNCHANGED <<table, job, drift, settings>>
  BY DEF Stopped, Forgotten
<1>2. e \in Engines /\ x \in Engines /\ x[1] = m /\ m \in Model /\ e = <<m, e[2]>>
  BY <1>1 DEF PoolInv, Tasks, Engines
<1>. HIDE DEF e, x, m
<1>3. /\ \A s \in Task : pc'[s] \in {"stopping", "loading"} => s # t /\ pc'[s] = pc[s]
      /\ \A c \in Client : pc'[c] \in Getters =>
           pc[c] \in Getters /\ goal'[c] = goal[c] /\ use'[c] = use[c]
      /\ DOMAIN goal' = Client /\ DOMAIN use' = Client
  BY <1>1 DEF Waiting, InFlight, Leave, Getters
<1>4. entry' \in [Engines -> [engine : Index \cup {None}, loading : BOOLEAN]]
      /\ \A f \in Engines : entry'[f].engine = (IF f = e THEN None ELSE entry[f].engine)
  BY <1>1, <1>2 DEF PoolInv, PoolTypeOK, Engines
<1>5. \A n \in Model : Loaded(n)' <=> Loaded(n) /\ e # Entry(n)
  <2>1. ASSUME NEW n \in Model PROVE Loaded(n)' <=> Loaded(n) /\ e # Entry(n)
    <3>1. Known(n) => Entry(n) \in Engines
      BY DEF PoolInv, PoolTypeOK, Known, Entry, Engines
    <3>. QED
      BY <1>1, <1>4, <3>1 DEF Loaded, Known, Entry
  <2>. QED
    BY <2>1
<1>6. \A n \in Model : e = Entry(n) => n = m
  BY <1>2 DEF Entry
<1>7. /\ Ordered' /\ IsInjective(recency')
      /\ ToSet(recency') = {n \in Model : Loaded(n)} \ (IF e = Entry(m) THEN {m} ELSE {})
  BY <1>1, RemoveOne DEF PoolInv, PoolTypeOK, Ordered
<1>8. PoolTypeOK'
  <2>1. (ToSet(recency) = {n \in Model : Loaded(n)})'
    BY <1>5, <1>6, <1>7
  <2>2. engine' \in [Model \X Index -> {"free", "starting", "running", "stopping", "stopped"}]
    BY <1>1, <1>2 DEF PoolInv, PoolTypeOK, Engines
  <2>3. ToSet(lock') \subseteq Task /\ IsInjective(lock')
    BY QueueTyped DEF LockInv, Queue, ToSet
  <2>4. memory' \in Int
    BY <1>1, <1>2, EnginePoolAssumption DEF PoolInv, PoolTypeOK
  <2>. QED
    BY <1>1, <1>4, <1>7, <2>1, <2>2, <2>3, <2>4 DEF PoolInv, PoolTypeOK, Engines, settings
<1>9. Tasks'
  BY <1>1, <1>3 DEF PoolInv, Tasks, Getters
<1>u. Unloaded'
  <2>1. \A c \in Client : pc'[c] \in Evicting => pc'[c] \in Getters
    BY DEF Evicting, Getters
  <2>2. \A c \in Client : pc'[c] \in Evicting => pc[c] \in Evicting
    BY <1>1, <1>3 DEF Evicting
  <2>3. \A c \in Client : pc[c] \in Getters => goal[c] \in Model
    BY DEF PoolInv, Tasks
  <2>. QED
    BY <1>3, <1>5, <2>1, <2>2, <2>3, UnloadedKept
<1>10. ASSUME drift' = {} PROVE Account'
  <2>1. /\ drift = {} /\ Account
        /\ x \in InMemory /\ e = Entry(m) /\ Loaded(m)
        /\ entry[e].engine = x[2] /\ x = <<m, x[2]>>
    <3>1. drift = {} /\ Account
      BY <1>1, <1>10 DEF PoolInv
    <3>2. x \in InMemory /\ e = Entry(m)
      BY <1>1, <1>2, <3>1 DEF Account, Stopping, e, x
    <3>3. Known(m) /\ entry[Entry(m)].engine = x[2]
      BY <1>2, <3>1, <3>2 DEF Account, Owned
    <3>4. x[2] \in Index /\ x = <<x[1], x[2]>>
      BY <1>2 DEF Engines
    <3>. QED
      BY <1>2, <3>1, <3>2, <3>3, <3>4 DEF Loaded
  <2>2. InMemory' = InMemory \ {x}
    BY <1>1, <1>2 DEF InMemory, PoolInv, PoolTypeOK, Engines
  <2>3. ASSUME NEW y \in InMemory' PROVE y \in InMemory /\ y[1] # m
    <3>1. y \in InMemory /\ y # x /\ y = <<y[1], y[2]>>
      BY <2>2 DEF InMemory
    <3>2. y[1] = m => y[2] = x[2]
      BY <2>1, <3>1 DEF Account, Owned
    <3>. QED
      BY <2>1, <3>1, <3>2
  <2>4. Owned'
    <3>1. ASSUME NEW y \in InMemory' PROVE Known(y[1])' /\ entry'[<<y[1], table'[y[1]]>>].engine = y[2]
      <4>1. Known(y[1]) /\ entry[Entry(y[1])].engine = y[2] /\ y[1] \in Model
        BY <2>1, <2>3 DEF Account, Owned, InMemory
      <4>2. Entry(y[1]) # e /\ Entry(y[1]) \in Engines
        BY <1>2, <2>3, <4>1 DEF Entry, Known, PoolInv, PoolTypeOK, Engines
      <4>. QED
        BY <1>1, <1>4, <4>1, <4>2 DEF Known, Entry
    <3>. QED
      BY <3>1 DEF Owned, Entry
  <2>5. Current'
    <3>1. ASSUME NEW n \in Model, Loaded(n)' PROVE <<n, entry'[<<n, table'[n]>>].engine>> \in InMemory'
      <4>1. Loaded(n) /\ e # Entry(n)
        BY <1>5, <3>1
      <4>2. <<n, entry[Entry(n)].engine>> \in InMemory /\ n # m /\ Entry(n) \in Engines
        BY <2>1, <4>1, LoadedFacts DEF Account, Current, PoolInv
      <4>3. entry'[Entry(n)].engine = entry[Entry(n)].engine
        BY <1>4, <4>1, <4>2
      <4>. QED
        BY <1>1, <2>1, <2>2, <4>2, <4>3 DEF Entry
    <3>. QED
      BY <3>1 DEF Current, Entry
  <2>6. Stopping'
    <3>1. ASSUME NEW s \in Task, pc'[s] = "stopping"
          PROVE  /\ pc[s] = "stopping" /\ job'[s] = job[s]
                 /\ job[s].engine \in InMemory' /\ job[s].entry = <<job[s].engine[1], table'[job[s].engine[1]]>>
      <4>1. s # t /\ pc[s] = "stopping" /\ job' = job /\ table' = table
        BY <1>1, <1>3, <3>1
      <4>2. job[s].engine \in InMemory /\ job[s].entry = Entry(job[s].engine[1])
        BY <2>1, <4>1 DEF Account, Stopping
      <4>3. job[s].entry # e
        BY <1>1, <2>1, <4>1 DEF Account, Stopping, e
      <4>4. job[s].engine # x
        BY <1>2, <2>1, <4>2, <4>3
      <4>. QED
        BY <2>2, <4>1, <4>2, <4>4 DEF Entry
    <3>. QED
      BY <2>1, <3>1 DEF Account, Stopping, Entry
  <2>7. Starting'
    <3>1. ASSUME NEW c \in Client, pc'[c] = "loading"
          PROVE  engine'[<<goal'[c], use'[c]>>] = "starting" /\ entry'[job'[c].entry].engine = None
      <4>1. /\ pc[c] = "loading" /\ goal'[c] = goal[c] /\ use'[c] = use[c] /\ job' = job
        BY <1>1, <1>3, <3>1 DEF Getters
      <4>2. /\ engine[<<goal[c], use[c]>>] = "starting" /\ entry[job[c].entry].engine = None
            /\ job[c].entry \in Engines /\ <<goal[c], use[c]>> \in Engines
        BY <2>1, <4>1 DEF Account, Starting, PoolInv, Tasks, Getters, Engines
      <4>3. <<goal[c], use[c]>> # x
        BY <2>1, <4>2 DEF InMemory
      <4>. QED
        BY <1>1, <1>4, <4>1, <4>2, <4>3 DEF PoolInv, PoolTypeOK, Engines
    <3>. QED
      BY <3>1 DEF Starting
  <2>8. memory' = Weight(InMemory')
    <3>1. InMemory' \in SUBSET Engines /\ x \in Engines \ InMemory' /\ InMemory' \cup {x} = InMemory
      BY <1>2, <2>1, <2>2 DEF InMemory, Engines
    <3>2. Weight(InMemory) = Weight(InMemory') + Size(m) /\ Weight(InMemory') \in Nat
      BY <1>2, <3>1, WeightFacts
    <3>3. Size(m) \in Nat /\ memory = Weight(InMemory)
      BY <1>2, <2>1, EnginePoolAssumption DEF Account, MemoryCounted
    <3>. QED
      BY <1>1, <3>2, <3>3
  <2>. QED
    BY <2>4, <2>5, <2>6, <2>7, <2>8 DEF Account, MemoryCounted
<1>. QED
  BY <1>7, <1>8, <1>9, <1>u, <1>10 DEF PoolInv

\* The limit was checked, and the engine is started under the lock.
LEMMA BeginLoadKeepsPool ==
  ASSUME PoolInv, LockInv, LockInv', NEW c \in Client, BeginLoad(c) PROVE PoolInv'
<1>. DEFINE m == goal[c]
            e == Entry(m)
<1>. USE TaskFacts, NoneFacts
<1>1. /\ Holds(c) /\ pc[c] \in {"lookup", "evict", "process"} /\ Known(m)
      /\ pc[c] = "lookup" => ~Loaded(m)
      /\ entry' = [entry EXCEPT ![e].loading = TRUE]
      /\ job' = [job EXCEPT ![c] = [entry |-> e]]
      /\ pc' = [pc EXCEPT ![c] = "loading"]
      /\ UNCHANGED <<table, recency, memory, lock, goal, drift, settings>>
  BY DEF BeginLoad, HasRoom, NeedsRoom
<1>2. PICK k \in Index :
        /\ engine[<<m, k>>] = "free"
        /\ engine' = [engine EXCEPT ![<<m, k>>] = "starting"]
        /\ use' = [use EXCEPT ![c] = k]
  BY DEF BeginLoad
<1>3. m \in Model
  BY <1>1 DEF PoolInv, Tasks, Getters
<1>4. e \in Engines /\ e = <<m, table[m]>> /\ <<m, k>> \in Engines
  BY <1>1, <1>3 DEF Known, Entry, Engines, PoolInv, PoolTypeOK
<1>. HIDE DEF e, m
<1>5. /\ job'[c] = [entry |-> e] /\ pc'[c] = "loading" /\ use'[c] = k
      /\ \A s \in Task \ {c} : job'[s] = job[s] /\ pc'[s] = pc[s]
      /\ \A d \in Client \ {c} : use'[d] = use[d]
      /\ DOMAIN use' = Client
  BY <1>1, <1>2 DEF LockInv, Queue, Jobs, PoolInv, Tasks
<1>6. \A d \in Client : pc'[d] = "loading" => d = c
  BY <1>1, <1>5 DEF LockInv, Queue, Inside, Beside, Holds
<1>7. entry' \in [Engines -> [engine : Index \cup {None}, loading : BOOLEAN]]
      /\ \A f \in Engines : entry'[f].engine = entry[f].engine
  <2>1. entry \in [Engines -> [engine : Index \cup {None}, loading : BOOLEAN]]
    BY DEF PoolInv, PoolTypeOK, Engines
  <2>2. entry' = [entry EXCEPT ![e] = [entry[e] EXCEPT !.loading = TRUE]]
    BY <1>1
  <2>3. [entry[e] EXCEPT !.loading = TRUE] \in [engine : Index \cup {None}, loading : BOOLEAN]
    BY <1>4, <2>1
  <2>4. [entry[e] EXCEPT !.loading = TRUE].engine = entry[e].engine
    BY <1>4, <2>1
  <2>. QED
    BY <1>4, <2>1, <2>2, <2>3, <2>4
<1>8. \A n \in Model : Loaded(n)' <=> Loaded(n)
  BY <1>1, <1>7 DEF PoolInv, PoolTypeOK, Engines, Loaded, Known, Entry
<1>9. PoolTypeOK'
  <2>1. (ToSet(recency) = {n \in Model : Loaded(n)})'
    BY <1>1, <1>8 DEF PoolInv, PoolTypeOK
  <2>2. engine' \in [Model \X Index -> {"free", "starting", "running", "stopping", "stopped"}]
    BY <1>2 DEF PoolInv, PoolTypeOK
  <2>3. ToSet(lock') \subseteq Task /\ IsInjective(lock')
    BY QueueTyped DEF LockInv, Queue, ToSet
  <2>. QED
    BY <1>1, <1>7, <2>1, <2>2, <2>3 DEF PoolInv, PoolTypeOK, Engines, settings
<1>10. Tasks'
  <2>1. \A s \in Task : pc'[s] = "stopping" => pc[s] = "stopping" /\ job'[s] = job[s]
    BY <1>5
  <2>2. \A d \in Client : pc'[d] \in Getters => pc[d] \in Getters /\ goal'[d] = goal[d]
    BY <1>1, <1>5 DEF Getters
  <2>3. e[1] = goal'[c]
    BY <1>1, <1>4 DEF m
  <2>. QED
    BY <1>1, <1>4, <1>5, <1>6, <2>1, <2>2, <2>3 DEF PoolInv, Tasks
<1>u. Unloaded'
  <2>1. \A d \in Client : pc'[d] \in Evicting => pc[d] \in Evicting /\ pc[d] \in Getters
    BY <1>5 DEF Evicting, Getters
  <2>2. \A d \in Client : pc[d] \in Getters => goal[d] \in Model
    BY DEF PoolInv, Tasks
  <2>. QED
    BY <1>1, <1>8, <2>1, <2>2, UnloadedKept
<1>11. ASSUME drift' = {} PROVE Account'
  <2>1. drift = {} /\ Account
    BY <1>1, <1>11 DEF PoolInv
  <2>2. InMemory' = InMemory
    BY <1>2 DEF InMemory, PoolInv, PoolTypeOK
  <2>3. ASSUME NEW n \in Model, Known(n) PROVE Entry(n) \in Engines
    BY <2>3 DEF Known, Entry, Engines, PoolInv, PoolTypeOK
  <2>4. Owned' /\ Current' /\ MemoryCounted'
    <3>1. Owned'
      <4>1. \A y \in InMemory : y[1] \in Model
        BY DEF InMemory
      <4>. QED
        BY <1>1, <1>7, <2>1, <2>2, <2>3, <4>1 DEF Account, Owned, Known, Entry
    <3>2. Current'
      <4>1. ASSUME NEW n \in Model, Loaded(n)' PROVE <<n, entry'[<<n, table'[n]>>].engine>> \in InMemory'
        <5>1. Loaded(n) /\ Entry(n) \in Engines
          BY <1>8, <2>3, <4>1 DEF Loaded
        <5>. QED
          BY <1>1, <1>7, <2>1, <2>2, <5>1 DEF Account, Current, Entry
      <4>. QED
        BY <4>1 DEF Current, Entry
    <3>. QED
      BY <1>1, <2>1, <2>2, <3>1, <3>2 DEF Account, MemoryCounted
  <2>5. Stopping'
    BY <1>1, <1>5, <2>1, <2>2 DEF Account, Stopping, Entry
  <2>6. Starting'
    <3>1. engine'[<<m, k>>] = "starting"
      BY <1>2, <1>4 DEF PoolInv, PoolTypeOK, Engines
    <3>2. entry'[e].engine = None
      <4>1. ~Loaded(m)
        <5>1. CASE pc[c] = "lookup"
          BY <1>1, <5>1
        <5>2. CASE pc[c] \in {"evict", "process"}
          BY <1>3, <5>2 DEF PoolInv, Unloaded, Evicting, m
        <5>. QED
          BY <1>1, <5>1, <5>2
      <4>. QED
        BY <1>1, <1>4, <1>7, <4>1 DEF Loaded, e
    <3>. QED
      BY <1>1, <1>5, <1>6, <3>1, <3>2 DEF Starting, m
  <2>. QED
    BY <2>4, <2>5, <2>6 DEF Account
<1>. QED
  BY <1>1, <1>9, <1>10, <1>u, <1>11 DEF PoolInv, Ordered

\* The engine runs and is counted; unless it is current, drift says so.
LEMMA LoadDoneKeepsPool ==
  ASSUME PoolInv, LockInv, LockInv', NEW c \in Client, LoadDone(c) PROVE PoolInv'
<1>. DEFINE m == goal[c]
            e == job[c].entry
            k == use[c]
            x == <<m, k>>
            current == table[m] = e[2]
<1>. USE TaskFacts, NoneFacts
<1>1. /\ pc[c] = "loading"
      /\ engine' = [engine EXCEPT ![x] = "running"]
      /\ entry' = [entry EXCEPT ![e].engine = k, ![e].loading = FALSE]
      /\ memory' = memory + Size(m)
      /\ recency' = IF current THEN Append(RemoveFirst(recency, m), m) ELSE recency
      /\ pc' = [pc EXCEPT ![c] = IF current THEN "got" ELSE "done"]
      /\ Leave(IF current THEN {} ELSE {c})
      /\ drift' = IF current THEN drift ELSE drift \cup {"replaced"}
      /\ job' = [job EXCEPT ![c] = None]
      /\ UNCHANGED <<table, settings>>
  BY DEF LoadDone, Counted, Touched
<1>2. /\ m \in Model /\ k \in Index /\ x \in Engines /\ e \in Engines /\ e[1] = m /\ e = <<m, e[2]>>
  BY <1>1 DEF PoolInv, Tasks, Getters, Engines
<1>. HIDE DEF m, e, k, x
<1>3. /\ \A d \in Client : pc'[d] # "loading"
      /\ \A s \in Task : pc'[s] = "stopping" => pc[s] = "stopping" /\ job'[s] = job[s]
      /\ \A d \in Client : pc'[d] \in Getters => d # c /\ pc[d] = pc'[d] /\ goal'[d] = goal[d]
      /\ DOMAIN goal' = Client /\ DOMAIN use' = Client
  <2>1. \A d \in Client : pc[d] = "loading" => d = c
    BY <1>1 DEF LockInv, Queue, Inside, Beside, Holds
  <2>2. pc'[c] \in {"got", "done"} /\ \A s \in Task \ {c} : pc'[s] = pc[s]
    BY <1>1 DEF LockInv, Queue
  <2>3. \A s \in Task \ {c} : job'[s] = job[s]
    BY <1>1 DEF LockInv, Jobs
  <2>4. \A d \in Client \ {c} : goal'[d] = goal[d]
    BY <1>1 DEF Leave
  <2>5. DOMAIN goal' = Client /\ DOMAIN use' = Client
    BY <1>1 DEF Leave
  <2>. QED
    BY <2>1, <2>2, <2>3, <2>4, <2>5 DEF Getters
<1>4. entry' \in [Engines -> [engine : Index \cup {None}, loading : BOOLEAN]]
      /\ \A f \in Engines : entry'[f].engine = (IF f = e THEN k ELSE entry[f].engine)
  <2>1. entry \in [Engines -> [engine : Index \cup {None}, loading : BOOLEAN]]
    BY DEF PoolInv, PoolTypeOK, Engines
  <2>2. entry' = [entry EXCEPT ![e] = [entry[e] EXCEPT !.engine = k, !.loading = FALSE]]
    BY <1>1
  <2>3. [entry[e] EXCEPT !.engine = k, !.loading = FALSE] \in [engine : Index \cup {None}, loading : BOOLEAN]
    BY <1>2, <2>1
  <2>4. [entry[e] EXCEPT !.engine = k, !.loading = FALSE].engine = k
    BY <1>2, <2>1
  <2>. QED
    BY <1>2, <2>1, <2>2, <2>3, <2>4
<1>5. \A n \in Model : Loaded(n)' <=> Loaded(n) \/ (n = m /\ current)
  <2>1. ASSUME NEW n \in Model PROVE Loaded(n)' <=> Loaded(n) \/ (n = m /\ current)
    <3>1. CASE ~Known(n)
      <4>1. ~Known(n)' /\ table[n] = None /\ e[2] \in Index
        BY <1>1, <1>2, <3>1 DEF Known, Engines
      <4>. QED
        BY <3>1, <4>1 DEF Loaded
    <3>2. CASE Known(n)
      <4>1. Known(n)' /\ <<n, table[n]>> \in Engines
        BY <1>1, <3>2 DEF Known, PoolInv, PoolTypeOK, Engines
      <4>2. <<n, table[n]>> = e <=> n = m /\ current
        BY <1>2
      <4>. QED
        BY <1>1, <1>2, <1>4, <3>2, <4>1, <4>2 DEF Loaded, Entry
    <3>. QED
      BY <3>1, <3>2
  <2>. QED
    BY <2>1
<1>6. /\ Ordered' /\ IsInjective(recency')
      /\ ToSet(recency') = {n \in Model : Loaded(n)} \cup (IF current THEN {m} ELSE {})
  BY <1>1, <1>2, MoveLast DEF PoolInv, PoolTypeOK, Ordered
<1>7. PoolTypeOK'
  <2>1. (ToSet(recency) = {n \in Model : Loaded(n)})'
    BY <1>2, <1>5, <1>6
  <2>2. engine' \in [Model \X Index -> {"free", "starting", "running", "stopping", "stopped"}]
    BY <1>1 DEF PoolInv, PoolTypeOK
  <2>3. ToSet(lock') \subseteq Task /\ IsInjective(lock')
    BY QueueTyped DEF LockInv, Queue, ToSet
  <2>4. memory' \in Int
    BY <1>1, <1>2, EnginePoolAssumption DEF PoolInv, PoolTypeOK
  <2>. QED
    BY <1>1, <1>4, <1>6, <2>1, <2>2, <2>3, <2>4 DEF PoolInv, PoolTypeOK, Engines, settings
<1>8. Tasks'
  BY <1>3 DEF PoolInv, Tasks
<1>9. Unloaded'
  <2>1. ASSUME NEW d \in Client, pc'[d] \in Evicting PROVE FALSE
    <3>1. d # c /\ pc[d] = pc'[d]
      BY <1>3, <2>1 DEF Evicting, Getters
    <3>2. Inside(d)
      BY <2>1, <3>1, TaskFacts DEF LockInv, Jobs, Backs, Inside, Beside, Evicting
    <3>. QED
      BY <1>1, <3>1, <3>2 DEF LockInv, Queue, Inside, Beside, Holds
  <2>. QED
    BY <2>1 DEF Unloaded
<1>10. ASSUME drift' = {} PROVE Account'
  <2>1. drift = {} /\ current /\ Account
    BY <1>1, <1>10 DEF PoolInv
  <2>2. e = Entry(m) /\ ~Loaded(m) /\ x \notin InMemory
        /\ \A y \in InMemory : y[1] # m
    <3>1. e = Entry(m) /\ entry[e].engine = None /\ engine[x] = "starting"
      BY <1>1, <1>2, <2>1 DEF Account, Starting, Entry, e, x, m, k
    <3>2. \A y \in InMemory : y[1] # m
      BY <2>1, <3>1 DEF Account, Owned, InMemory
    <3>. QED
      BY <3>1, <3>2 DEF Loaded, InMemory
  <2>3. InMemory' = InMemory \cup {x}
    BY <1>1, <1>2 DEF InMemory, PoolInv, PoolTypeOK, Engines
  <2>4. Owned'
    <3>1. ASSUME NEW y \in InMemory' PROVE Known(y[1])' /\ entry'[<<y[1], table'[y[1]]>>].engine = y[2]
      <4>1. CASE y = x
        <5>1. table[m] = e[2] /\ e[2] \in Index /\ y[1] = m /\ y[2] = k
          BY <1>2, <2>1, <4>1 DEF Engines, x
        <5>. QED
          BY <1>1, <1>2, <1>4, <5>1 DEF Known
      <4>2. CASE y # x
        <5>1. /\ y \in InMemory /\ y[1] \in Model /\ y[1] # m
              /\ Known(y[1]) /\ entry[Entry(y[1])].engine = y[2]
          BY <2>1, <2>2, <2>3, <4>2 DEF Account, Owned, InMemory
        <5>2. Entry(y[1]) # e /\ Entry(y[1]) \in Engines
          BY <1>2, <5>1 DEF Entry, Known, PoolInv, PoolTypeOK, Engines
        <5>. QED
          BY <1>1, <1>4, <5>1, <5>2 DEF Known, Entry
      <4>. QED
        BY <4>1, <4>2
    <3>. QED
      BY <3>1 DEF Owned, Entry
  <2>5. Current'
    <3>1. ASSUME NEW n \in Model, Loaded(n)' PROVE <<n, entry'[<<n, table'[n]>>].engine>> \in InMemory'
      <4>1. CASE n = m
        BY <1>1, <1>2, <1>4, <2>2, <2>3, <4>1 DEF Entry, x
      <4>2. CASE n # m
        <5>1. Loaded(n)
          BY <1>5, <3>1, <4>2
        <5>2. <<n, entry[Entry(n)].engine>> \in InMemory /\ Entry(n) \in Engines /\ Entry(n) # e
          BY <1>2, <2>1, <4>2, <5>1, LoadedFacts DEF Account, Current, PoolInv
        <5>. QED
          BY <1>1, <1>4, <2>3, <5>2 DEF Entry
      <4>. QED
        BY <4>1, <4>2
    <3>. QED
      BY <3>1 DEF Current, Entry
  <2>6. Stopping'
    BY <1>1, <1>3, <2>1, <2>3 DEF Account, Stopping, Entry
  <2>7. Starting'
    BY <1>3 DEF Starting
  <2>8. memory' = Weight(InMemory')
    <3>1. InMemory \in SUBSET Engines /\ x \in Engines \ InMemory
      BY <1>2, <2>2 DEF InMemory, Engines
    <3>2. x[1] = m
      BY DEF x
    <3>3. Weight(InMemory \cup {x}) = Weight(InMemory) + Size(m) /\ Weight(InMemory) \in Nat
      BY <3>1, <3>2, WeightFacts
    <3>. QED
      BY <1>1, <2>1, <2>3, <3>3 DEF Account, MemoryCounted
  <2>. QED
    BY <2>4, <2>5, <2>6, <2>7, <2>8 DEF Account, MemoryCounted
<1>. QED
  BY <1>6, <1>7, <1>8, <1>9, <1>10 DEF PoolInv

LEMMA LoadFailsKeepsPool ==
  ASSUME PoolInv, LockInv, LockInv', NEW c \in Client, LoadFails(c) PROVE PoolInv'
<1>. DEFINE m == goal[c]
            e == job[c].entry
            x == <<m, use[c]>>
<1>. USE TaskFacts, NoneFacts
<1>1. /\ pc[c] = "loading"
      /\ engine' = [engine EXCEPT ![x] = "stopped"]
      /\ entry' = [entry EXCEPT ![e].loading = FALSE]
      /\ job' = [job EXCEPT ![c] = None]
      /\ pc' = [pc EXCEPT ![c] = "done"]
      /\ Leave({c})
      /\ UNCHANGED <<table, recency, memory, drift, settings>>
  BY DEF LoadFails
<1>2. m \in Model /\ x \in Engines /\ e \in Engines
  BY <1>1 DEF PoolInv, Tasks, Getters, Engines
<1>. HIDE DEF m, e, x
<1>3. /\ \A d \in Client : pc'[d] # "loading"
      /\ \A s \in Task : pc'[s] = "stopping" => pc[s] = "stopping" /\ job'[s] = job[s]
      /\ \A d \in Client : pc'[d] \in Getters => d # c /\ pc[d] = pc'[d] /\ goal'[d] = goal[d]
      /\ DOMAIN goal' = Client /\ DOMAIN use' = Client
  <2>1. \A d \in Client : pc[d] = "loading" => d = c
    BY <1>1 DEF LockInv, Queue, Inside, Beside, Holds
  <2>2. pc'[c] = "done" /\ \A s \in Task \ {c} : pc'[s] = pc[s]
    BY <1>1 DEF LockInv, Queue
  <2>3. \A s \in Task \ {c} : job'[s] = job[s]
    BY <1>1 DEF LockInv, Jobs
  <2>4. DOMAIN goal' = Client /\ DOMAIN use' = Client /\ \A d \in Client \ {c} : goal'[d] = goal[d]
    BY <1>1 DEF Leave
  <2>. QED
    BY <2>1, <2>2, <2>3, <2>4 DEF Getters
<1>4. entry' \in [Engines -> [engine : Index \cup {None}, loading : BOOLEAN]]
      /\ \A f \in Engines : entry'[f].engine = entry[f].engine
  <2>1. entry \in [Engines -> [engine : Index \cup {None}, loading : BOOLEAN]]
    BY DEF PoolInv, PoolTypeOK, Engines
  <2>2. entry' = [entry EXCEPT ![e] = [entry[e] EXCEPT !.loading = FALSE]]
    BY <1>1
  <2>3. [entry[e] EXCEPT !.loading = FALSE] \in [engine : Index \cup {None}, loading : BOOLEAN]
    BY <1>2, <2>1
  <2>4. [entry[e] EXCEPT !.loading = FALSE].engine = entry[e].engine
    BY <1>2, <2>1
  <2>. QED
    BY <1>2, <2>1, <2>2, <2>3, <2>4
<1>5. ASSUME NEW n \in Model, Known(n) PROVE Entry(n) \in Engines
  BY <1>5 DEF Known, Entry, Engines, PoolInv, PoolTypeOK
<1>6. \A n \in Model : Loaded(n)' <=> Loaded(n)
  BY <1>1, <1>4, <1>5 DEF Loaded, Known, Entry
<1>7. PoolTypeOK'
  <2>1. (ToSet(recency) = {n \in Model : Loaded(n)})'
    BY <1>1, <1>6 DEF PoolInv, PoolTypeOK
  <2>2. engine' \in [Model \X Index -> {"free", "starting", "running", "stopping", "stopped"}]
    BY <1>1 DEF PoolInv, PoolTypeOK
  <2>3. ToSet(lock') \subseteq Task /\ IsInjective(lock')
    BY QueueTyped DEF LockInv, Queue, ToSet
  <2>. QED
    BY <1>1, <1>4, <2>1, <2>2, <2>3 DEF PoolInv, PoolTypeOK, Engines, settings
<1>8. Tasks'
  BY <1>3 DEF PoolInv, Tasks
<1>9. Unloaded'
  <2>1. \A d \in Client : pc'[d] \in Evicting => pc'[d] \in Getters
    BY DEF Evicting, Getters
  <2>2. \A d \in Client : pc[d] \in Getters => goal[d] \in Model
    BY DEF PoolInv, Tasks
  <2>. QED
    BY <1>3, <1>6, <2>1, <2>2, UnloadedKept
<1>10. ASSUME drift' = {} PROVE Account'
  <2>1. drift = {} /\ Account /\ engine[x] = "starting"
    BY <1>1, <1>10 DEF PoolInv, Account, Starting, x, m
  <2>2. InMemory' = InMemory
    BY <1>1, <1>2, <2>1 DEF InMemory, PoolInv, PoolTypeOK, Engines
  <2>3. Owned'
    <3>1. \A y \in InMemory : y[1] \in Model
      BY DEF InMemory
    <3>. QED
      BY <1>1, <1>4, <1>5, <2>1, <2>2, <3>1 DEF Account, Owned, Known, Entry
  <2>4. Current'
    <3>1. ASSUME NEW n \in Model, Loaded(n)' PROVE <<n, entry'[<<n, table'[n]>>].engine>> \in InMemory'
      <4>1. Loaded(n) /\ Entry(n) \in Engines
        BY <1>5, <1>6, <3>1 DEF Loaded
      <4>. QED
        BY <1>1, <1>4, <2>1, <2>2, <4>1 DEF Account, Current, Entry
    <3>. QED
      BY <3>1 DEF Current, Entry
  <2>5. Stopping'
    BY <1>1, <1>3, <2>1, <2>2 DEF Account, Stopping, Entry
  <2>6. Starting'
    BY <1>3 DEF Starting
  <2>. QED
    BY <1>1, <2>1, <2>2, <2>3, <2>4, <2>5, <2>6 DEF Account, MemoryCounted
<1>. QED
  BY <1>1, <1>7, <1>8, <1>9, <1>10 DEF PoolInv, Ordered

\* A client starts an engine that was unloaded: drift says so.
LEMMA RevivedKeepsPool ==
  ASSUME PoolInv, LockInv, NEW c \in Client, Revived(c) PROVE PoolInv'
<1>. USE TaskFacts
<1>1. /\ pc[c] = "reviving"
      /\ engine' = [engine EXCEPT ![Used(c)] = "running"]
      /\ pc' = [pc EXCEPT ![c] = "using"]
      /\ drift' = drift \cup {"revived"}
      /\ UNCHANGED <<table, entry, recency, memory, lock, goal, use, job, settings>>
  BY DEF Revived
<1>2. PoolTypeOK'
  <2>1. \A n \in Model : Loaded(n)' <=> Loaded(n)
    BY <1>1 DEF Loaded, Known, Entry
  <2>2. (ToSet(recency) = {n \in Model : Loaded(n)})'
    BY <1>1, <2>1 DEF PoolInv, PoolTypeOK
  <2>3. engine' \in [Model \X Index -> {"free", "starting", "running", "stopping", "stopped"}]
    BY <1>1 DEF PoolInv, PoolTypeOK
  <2>. QED
    BY <1>1, <2>2, <2>3 DEF PoolInv, PoolTypeOK, settings
<1>3. \A s \in Task : pc'[s] = IF s = c THEN "using" ELSE pc[s]
  BY <1>1 DEF LockInv, Queue
<1>4. Tasks'
  BY <1>1, <1>3 DEF PoolInv, Tasks, Getters
<1>5. Unloaded'
  <2>1. \A n \in Model : Loaded(n)' => Loaded(n)
    BY <1>1 DEF Loaded, Known, Entry
  <2>2. \A d \in Client : pc'[d] \in Evicting => pc[d] \in Evicting /\ goal[d] \in Model
    BY <1>3 DEF PoolInv, Tasks, Evicting, Getters
  <2>. QED
    BY <1>1, <2>1, <2>2, UnloadedKept
<1>. QED
  BY <1>1, <1>2, <1>4, <1>5 DEF PoolInv, Ordered

\* Entries without an engine are replaced or removed; a task's own entry is not
\* taken again.
LEMMA RediscoverKeepsPool ==
  ASSUME PoolInv, LockInv, NEW found \in SUBSET Model, Rediscover(found) PROVE PoolInv'
<1>. DEFINE Fresh(m) == CHOOSE i \in Unheld(m) : TRUE
<1>. USE TaskFacts, NoneFacts
<1>1. /\ \A m \in found : Loaded(m) \/ Unheld(m) # {}
      /\ table' = [m \in Model |-> IF Loaded(m) THEN table[m] ELSE IF m \in found THEN Fresh(m) ELSE None]
      /\ entry' = [e \in Model \X Index |->
           IF ~Loaded(e[1]) /\ e[1] \in found /\ e[2] = Fresh(e[1]) THEN NewEntry ELSE entry[e]]
      /\ UNCHANGED <<recency, memory, engine, lock, pc, goal, use, job, drift, settings>>
  BY DEF Rediscover, Discover, taskVars
<1>2. \A m \in Model : Unheld(m) # {} => Fresh(m) \in Index
  BY DEF Unheld
<1>. HIDE DEF Fresh
<1>3. NewEntry \in [engine : Index \cup {None}, loading : BOOLEAN] /\ NewEntry.engine = None
  BY DEF NewEntry
<1>4. entry' \in [Engines -> [engine : Index \cup {None}, loading : BOOLEAN]]
  BY <1>1, <1>3 DEF PoolInv, PoolTypeOK, Engines
<1>5. table' \in [Model -> Index \cup {None}]
  BY <1>1, <1>2 DEF PoolInv, PoolTypeOK
<1>6. ASSUME NEW m \in Model, Loaded(m)
      PROVE  table'[m] = table[m] /\ <<m, table[m]>> \in Engines /\ entry'[<<m, table[m]>>] = entry[<<m, table[m]>>]
  BY <1>1, <1>6, LoadedFacts DEF PoolInv, Engines
<1>7. ASSUME NEW m \in Model PROVE Loaded(m)' <=> Loaded(m)
  <2>1. CASE Loaded(m)
    BY <1>6, <2>1 DEF Loaded, Known, Entry
  <2>2. CASE ~Loaded(m) /\ m \in found
    <3>1. table'[m] = Fresh(m) /\ <<m, Fresh(m)>> \in Model \X Index
      BY <1>1, <1>2, <2>2
    <3>2. entry'[<<m, Fresh(m)>>] = NewEntry
      BY <1>1, <2>2, <3>1
    <3>. QED
      BY <1>3, <2>2, <3>1, <3>2 DEF Loaded, Entry
  <2>3. CASE ~Loaded(m) /\ m \notin found
    BY <1>1, <2>3 DEF Loaded, Known
  <2>. QED
    BY <2>1, <2>2, <2>3
<1>8. PoolTypeOK'
  <2>1. (ToSet(recency) = {n \in Model : Loaded(n)})'
    BY <1>1, <1>7 DEF PoolInv, PoolTypeOK
  <2>. QED
    BY <1>1, <1>4, <1>5, <2>1 DEF PoolInv, PoolTypeOK, Engines, settings
<1>9. Tasks'
  BY <1>1 DEF PoolInv, Tasks
<1>10. Unloaded'
  <2>1. \A d \in Client : pc[d] \in Evicting => goal[d] \in Model
    BY DEF PoolInv, Tasks, Evicting, Getters
  <2>. QED
    BY <1>1, <1>7, <2>1, UnloadedKept
<1>11. ASSUME drift = {} PROVE Account'
  <2>1. Account /\ InMemory' = InMemory
    BY <1>1, <1>11 DEF PoolInv, InMemory
  <2>2. ASSUME NEW y \in InMemory
        PROVE  /\ y[1] \in Model /\ Loaded(y[1])
               /\ entry[<<y[1], table[y[1]]>>].engine = y[2]
    BY <2>1 DEF Account, Owned, InMemory, Loaded, Entry
  <2>3. Owned'
    BY <1>6, <1>7, <2>1, <2>2, ZenonT(40) DEF Owned, Entry, Loaded
  <2>4. Current'
    <3>1. ASSUME NEW m \in Model, Loaded(m) PROVE <<m, entry'[<<m, table'[m]>>].engine>> \in InMemory
      BY <1>6, <2>1, <3>1 DEF Account, Current, Entry
    <3>. QED
      BY <1>7, <2>1, <3>1 DEF Current, Entry
  <2>5. Stopping'
    <3>1. ASSUME NEW t \in Task, pc[t] = "stopping"
          PROVE  job[t].engine \in InMemory /\ job[t].entry = <<job[t].engine[1], table'[job[t].engine[1]]>>
      BY <1>6, <2>1, <2>2, <3>1 DEF Account, Stopping, Entry
    <3>2. \A s \in Task, t \in Task :
            pc[s] = "stopping" /\ pc[t] = "stopping" /\ job[s].entry = job[t].entry => s = t
      BY <2>1 DEF Account, Stopping
    <3>. QED
      BY <1>1, <2>1, <3>1, <3>2 DEF Stopping, Entry
  <2>6. Starting'
    <3>1. \A c \in Client : pc[c] = "loading" => job[c].entry \in Model \X Index
      BY DEF PoolInv, Tasks, Engines
    <3>2. \A c \in Client : pc[c] = "loading" =>
            engine[<<goal[c], use[c]>>] = "starting" /\ entry[job[c].entry].engine = None
      BY <2>1 DEF Account, Starting
    <3>. QED
      BY <1>1, <1>3, <3>1, <3>2 DEF Starting
  <2>. QED
    BY <1>1, <2>1, <2>3, <2>4, <2>5, <2>6 DEF Account, MemoryCounted
<1>. QED
  BY <1>1, <1>8, <1>9, <1>10, <1>11 DEF PoolInv, Ordered

\* The account starts again from 0: drift says so if an engine is in memory.
LEMMA ChangeDirsKeepsPool ==
  ASSUME PoolInv, LockInv, NEW a \in Admin, ChangeDirs(a) PROVE PoolInv'
<1>. USE TaskFacts, NoneFacts
<1>1. /\ pc[a] = "unload"
      /\ \A m \in Model : Unheld(m) # {}
      /\ table' = [m \in Model |-> CHOOSE i \in Unheld(m) : TRUE]
      /\ entry' = [e \in Model \X Index |-> IF e[2] = table'[e[1]] THEN NewEntry ELSE entry[e]]
      /\ recency' = <<>> /\ memory' = 0
      /\ drift' = drift \/ drift' = drift \cup {"reset"}
      /\ drift' = {} => ~ \E x \in Model \X Index : engine[x] \in {"running", "stopping"}
      /\ pc' = [pc EXCEPT ![a] = "done"]
      /\ UNCHANGED <<engine, lock, goal, use, job, settings>>
  BY DEF ChangeDirs
<1>2. NewEntry \in [engine : Index \cup {None}, loading : BOOLEAN] /\ NewEntry.engine = None
  BY DEF NewEntry
<1>3. \A m \in Model : table'[m] \in Index
  BY <1>1 DEF Unheld
<1>4. \A m \in Model : entry'[<<m, table'[m]>>] = NewEntry
  BY <1>1, <1>3
<1>5. entry' \in [Engines -> [engine : Index \cup {None}, loading : BOOLEAN]]
  BY <1>1, <1>2 DEF PoolInv, PoolTypeOK, Engines
<1>6. \A m \in Model : ~Loaded(m)'
  BY <1>2, <1>4 DEF Loaded, Entry
<1>7. /\ Ordered' /\ IsInjective(recency') /\ ToSet(recency') = {}
  BY <1>1 DEF Ordered, IsInjective, ToSet
<1>8. PoolTypeOK'
  <2>1. (ToSet(recency) = {n \in Model : Loaded(n)})'
    BY <1>6, <1>7
  <2>2. table' \in [Model -> Index \cup {None}]
    BY <1>1, <1>3
  <2>3. drift' \subseteq {"overlap", "replaced", "revived", "reset", "cancelled"}
    BY <1>1 DEF PoolInv, PoolTypeOK
  <2>4. memory' \in Int
    BY <1>1
  <2>5. UNCHANGED <<engine, lock, settings>>
    BY <1>1
  <2>. QED
    BY <1>5, <1>7, <2>1, <2>2, <2>3, <2>4, <2>5 DEF PoolInv, PoolTypeOK, Engines, settings
<1>9. \A s \in Task : pc'[s] = pc[s] \/ (s = a /\ pc'[s] = "done")
  BY <1>1 DEF LockInv, Queue
<1>10. Tasks'
  BY <1>1, <1>9 DEF PoolInv, Tasks, Getters
<1>11. Unloaded'
  <2>1. \A d \in Client : pc'[d] \in Evicting => pc[d] \in Evicting /\ goal[d] \in Model
    BY <1>9 DEF PoolInv, Tasks, Evicting, Getters
  <2>. QED
    BY <1>1, <1>6, <2>1, UnloadedKept
<1>12. ASSUME drift' = {} PROVE Account'
  <2>1. Account /\ InMemory = {} /\ InMemory' = {}
    BY <1>1, <1>12 DEF PoolInv, InMemory
  <2>2. Owned' /\ Current'
    BY <1>6, <2>1 DEF Owned, Current
  <2>3. Stopping'
    <3>1. \A t \in Task : pc'[t] # "stopping"
      BY <1>9, <2>1 DEF Account, Stopping
    <3>. QED
      BY <3>1 DEF Stopping
  <2>4. Starting'
    <3>1. \A c \in Client : pc[c] = "loading" => job[c].entry \in Model \X Index
      BY DEF PoolInv, Tasks, Engines
    <3>2. \A c \in Client : pc[c] = "loading" =>
            engine[<<goal[c], use[c]>>] = "starting" /\ entry[job[c].entry].engine = None
      BY <2>1 DEF Account, Starting
    <3>. QED
      BY <1>1, <1>2, <1>9, <3>1, <3>2 DEF Starting
  <2>5. MemoryCounted' /\ memory = 0
    BY <1>1, <2>1, WeightFacts DEF Account, MemoryCounted
  <2>. QED
    BY <2>2, <2>3, <2>4, <2>5 DEF Account
<1>. QED
  BY <1>7, <1>8, <1>10, <1>11, <1>12 DEF PoolInv

-----------------------------------------------------------------------------
(* The steps of the tasks                                                  *)

LEMMA VictimLoaded ==
  ASSUME PoolInv, NEW m \in Model, IsVictim(m) PROVE Loaded(m)
<1>1. m \in ToSet(recency)
  BY DEF IsVictim, Candidates
<1>. QED
  BY <1>1 DEF PoolInv, PoolTypeOK

LEMMA EvictingKeepsPool ==
  ASSUME PoolInv, LockInv, LockInv', NEW c \in Client, EvictForLoad(c) \/ EvictForProcess(c)
  PROVE  PoolInv'
<1>1. PICK m \in Model, back \in {"evict", "process"} : IsVictim(m) /\ BeginUnload(c, m, back)
  BY DEF EvictForLoad, EvictForProcess
<1>2. /\ pc[c] \in {"lookup", "evict", "process"} /\ (pc[c] = "lookup" => ~Loaded(goal[c]))
      /\ pc' = [pc EXCEPT ![c] = "stopping"]
      /\ UNCHANGED <<goal, use, settings>>
  BY DEF EvictForLoad, EvictForProcess, HasRoom, NeedsRoom
<1>3. ~Loaded(goal[c])
  BY <1>2 DEF PoolInv, Unloaded, Evicting
<1>4. pc'[c] = "stopping" /\ \A s \in Task \ {c} : pc'[s] = pc[s]
  BY <1>2, TaskFacts DEF LockInv, Queue
<1>5. Loaded(m) /\ c \in Task /\ pc[c] # "stopping" /\ DOMAIN goal' = Client /\ DOMAIN use' = Client
  BY <1>1, <1>2, VictimLoaded, TaskFacts DEF PoolInv, Tasks
<1>. QED
  BY <1>1, <1>2, <1>3, <1>4, <1>5, UnloadBegins

\* The client leaves the lookup, or enters or goes on with it.
LEMMA ClientKeepsPool ==
  ASSUME PoolInv, LockInv, LockInv', NEW c \in Client,
         UNCHANGED <<table, entry, memory, engine, drift, settings, job>>,
         Ordered', IsInjective(recency'), ToSet(recency') = ToSet(recency),
         NEW place, pc' = [pc EXCEPT ![c] = place],
         place \notin Getters \/ (place = "lookup" /\ goal'[c] \in Model),
         DOMAIN goal' = Client, DOMAIN use' = Client,
         \A d \in Client \ {c} : goal'[d] = goal[d] /\ use'[d] = use[d]
  PROVE  PoolInv'
<1>1. pc'[c] = place /\ \A s \in Task \ {c} : pc'[s] = pc[s]
  BY TaskFacts DEF LockInv, Queue
<1>2. \A d \in Client : pc'[d] \in Getters =>
         goal'[d] \in Model \/ (pc[d] \in Getters /\ goal'[d] = goal[d])
  BY <1>1, TaskFacts
<1>3. \A d \in Client : pc'[d] \in {"loading", "stopping"} \cup Evicting => d # c
  BY <1>1 DEF Getters, Evicting
<1>4. \A d \in Client : pc'[d] = "loading" =>
         pc[d] = "loading" /\ goal'[d] = goal[d] /\ use'[d] = use[d] /\ job'[d] = job[d]
  BY <1>1, <1>3, TaskFacts
<1>5. \A s \in Task : pc'[s] = "stopping" => pc[s] = "stopping" /\ job'[s] = job[s]
  BY <1>1 DEF Getters
<1>6. \A d \in Client : pc'[d] \in Evicting => pc[d] \in Evicting /\ goal'[d] = goal[d]
  BY <1>1, <1>3, TaskFacts
<1>7. Settled'
  BY DEF PoolInv, PoolTypeOK, Settled, settings
<1>. QED
  BY <1>2, <1>4, <1>5, <1>6, <1>7, PoolKept

LEMMA GettingKeepsPool ==
  ASSUME PoolInv, LockInv, LockInv', NEW c \in Client, Getting(c) PROVE PoolInv'
<1>1. CASE AlreadyLoaded(c)
  <2>1. /\ pc[c] = "lookup" /\ Loaded(goal[c])
        /\ recency' = Append(RemoveFirst(recency, goal[c]), goal[c])
        /\ pc' = [pc EXCEPT ![c] = "got"]
        /\ use' = [use EXCEPT ![c] = entry[Entry(goal[c])].engine]
        /\ UNCHANGED <<table, entry, memory, engine, goal, job, drift, settings>>
    BY <1>1 DEF AlreadyLoaded, Touched
  <2>2. goal[c] \in Model /\ goal[c] \in ToSet(recency)
    BY <2>1 DEF PoolInv, Tasks, Getters, PoolTypeOK
  <2>3. Ordered' /\ IsInjective(recency') /\ ToSet(recency') = ToSet(recency) \cup {goal[c]}
    BY <2>1, <2>2, MoveLast DEF PoolInv, PoolTypeOK, Ordered
  <2>4. ToSet(recency') = ToSet(recency)
    BY <2>2, <2>3
  <2>5. DOMAIN goal' = Client /\ DOMAIN use' = Client
        /\ \A d \in Client \ {c} : goal'[d] = goal[d] /\ use'[d] = use[d]
    BY <2>1 DEF PoolInv, Tasks
  <2>6. "got" \notin Getters
    BY DEF Getters
  <2>. QED
    BY <2>1, <2>3, <2>4, <2>5, <2>6, ClientKeepsPool
<1>2. CASE GetFails(c) \/ LoadRefused(c)
  <2>1. /\ pc' = [pc EXCEPT ![c] = "done"] /\ Leave({c})
        /\ UNCHANGED <<table, entry, recency, memory, engine, job, drift, settings>>
    BY <1>2 DEF GetFails, LoadRefused, GetRaises, poolVars
  <2>2. Ordered' /\ IsInjective(recency') /\ ToSet(recency') = ToSet(recency)
    BY <2>1 DEF PoolInv, PoolTypeOK, Ordered
  <2>3. DOMAIN goal' = Client /\ DOMAIN use' = Client
        /\ \A d \in Client \ {c} : goal'[d] = goal[d] /\ use'[d] = use[d]
    BY <2>1 DEF Leave
  <2>4. "done" \notin Getters
    BY DEF Getters
  <2>. QED
    BY <2>1, <2>2, <2>3, <2>4, ClientKeepsPool
<1>. QED
  BY <1>1, <1>2, EvictingKeepsPool, BeginLoadKeepsPool, LoadDoneKeepsPool, LoadFailsKeepsPool DEF Getting

LEMMA ClientsKeepPool ==
  ASSUME PoolInv, LockInv, LockInv', NEW c \in Client,
         Getting(c) \/ Generating(c) \/ Generated(c) \/ \E m \in Model : GetEngine(c, m)
  PROVE  PoolInv'
<1>1. CASE StartGenerate(c)
  <2>1. PICK place \in {"using", "reviving"} : pc' = [pc EXCEPT ![c] = place]
    BY <1>1 DEF StartGenerate
  <2>2. UNCHANGED <<table, entry, recency, memory, engine, goal, use, job, drift, settings>>
    BY <1>1 DEF StartGenerate, poolVars
  <2>3. Ordered' /\ IsInjective(recency') /\ ToSet(recency') = ToSet(recency)
    BY <2>2 DEF PoolInv, PoolTypeOK, Ordered
  <2>4. DOMAIN goal' = Client /\ DOMAIN use' = Client /\ place \notin Getters
    BY <2>2 DEF PoolInv, Tasks, Getters
  <2>. QED
    BY <2>1, <2>2, <2>3, <2>4, ClientKeepsPool
<1>2. CASE Generated(c)
  <2>1. /\ pc' = [pc EXCEPT ![c] = "done"] /\ Leave({c})
        /\ UNCHANGED <<table, entry, recency, memory, engine, job, drift, settings>>
    BY <1>2 DEF Generated, poolVars
  <2>2. Ordered' /\ IsInjective(recency') /\ ToSet(recency') = ToSet(recency)
    BY <2>1 DEF PoolInv, PoolTypeOK, Ordered
  <2>3. DOMAIN goal' = Client /\ DOMAIN use' = Client
        /\ \A d \in Client \ {c} : goal'[d] = goal[d] /\ use'[d] = use[d]
    BY <2>1 DEF Leave
  <2>4. "done" \notin Getters
    BY DEF Getters
  <2>. QED
    BY <2>1, <2>2, <2>3, <2>4, ClientKeepsPool
<1>3. CASE \E m \in Model : GetEngine(c, m)
  <2>1. PICK m \in Model : GetEngine(c, m)
    BY <1>3
  <2>2. /\ pc' = [pc EXCEPT ![c] = "lookup"] /\ goal' = [goal EXCEPT ![c] = m]
        /\ UNCHANGED <<table, entry, recency, memory, engine, use, job, drift, settings>>
    BY <2>1 DEF GetEngine, poolVars
  <2>3. Ordered' /\ IsInjective(recency') /\ ToSet(recency') = ToSet(recency)
    BY <2>2 DEF PoolInv, PoolTypeOK, Ordered
  <2>4. DOMAIN goal' = Client /\ DOMAIN use' = Client /\ goal'[c] \in Model
        /\ \A d \in Client \ {c} : goal'[d] = goal[d] /\ use'[d] = use[d]
    BY <2>2 DEF PoolInv, Tasks
  <2>. QED
    BY <2>2, <2>3, <2>4, ClientKeepsPool
<1>4. CASE StartEmbed(c)
  <2>1. PICK place \in {"using", "done"}, gone \in {{}, {c}} :
          pc' = [pc EXCEPT ![c] = place] /\ Leave(gone)
    BY <1>4 DEF StartEmbed
  <2>2. UNCHANGED <<table, entry, recency, memory, engine, job, drift, settings>>
    BY <1>4 DEF StartEmbed, poolVars
  <2>3. Ordered' /\ IsInjective(recency') /\ ToSet(recency') = ToSet(recency)
    BY <2>2 DEF PoolInv, PoolTypeOK, Ordered
  <2>4. DOMAIN goal' = Client /\ DOMAIN use' = Client /\ place \notin Getters
        /\ \A d \in Client \ {c} : goal'[d] = goal[d] /\ use'[d] = use[d]
    BY <2>1 DEF Leave, Getters
  <2>. QED
    BY <2>1, <2>2, <2>3, <2>4, ClientKeepsPool
<1>. QED
  BY <1>1, <1>2, <1>3, <1>4, GettingKeepsPool, RevivedKeepsPool DEF Generating

LEMMA ClearedKeepsPool ==
  ASSUME PoolInv, LockInv, LockInv', NEW t \in Task, Cleared(t) PROVE PoolInv'
<1>1. /\ pc[t] = "clearing" /\ pc' = [pc EXCEPT ![t] = job[t].back]
      /\ job' = [job EXCEPT ![t] = None]
      /\ UNCHANGED <<table, entry, recency, memory, engine, goal, use, drift, settings>>
  BY DEF Cleared, poolVars
<1>2. /\ \A s \in Task \ {t} : pc'[s] = pc[s] /\ job'[s] = job[s]
      /\ pc'[t] = job[t].back /\ job[t].back \in Backs(t)
  BY <1>1 DEF LockInv, Queue, Jobs
<1>3. /\ pc'[t] \in {"evict", "process", "unload", "limit", "enforce", "expire"}
      /\ t \in Client => pc'[t] \in {"evict", "process"}
  BY <1>2 DEF Backs
<1>4. pc[t] \in Getters /\ pc[t] \in Evicting
  BY <1>1 DEF Getters, Evicting
<1>5. \A c \in Client : pc'[c] \in Getters => pc[c] \in Getters
  BY <1>2, <1>4, TaskFacts
<1>6. \A c \in Client : pc'[c] \in Evicting => pc[c] \in Evicting
  BY <1>2, <1>4, TaskFacts
<1>7. \A c \in Client : pc'[c] = "loading" => pc[c] = "loading" /\ job'[c] = job[c]
  BY <1>2, <1>3, TaskFacts
<1>8. \A s \in Task : pc'[s] = "stopping" => pc[s] = "stopping" /\ job'[s] = job[s]
  BY <1>2, <1>3
<1>9. /\ Ordered' /\ IsInjective(recency') /\ ToSet(recency') = ToSet(recency)
      /\ DOMAIN goal' = Client /\ DOMAIN use' = Client /\ Settled'
  BY <1>1 DEF PoolInv, PoolTypeOK, Ordered, Tasks, Settled, settings
<1>. QED
  BY <1>1, <1>5, <1>6, <1>7, <1>8, <1>9, PoolKept

\* A task that is no client goes its way; requests may end.
LEMMA AsideKeepsPool ==
  ASSUME PoolInv, LockInv, LockInv', NEW t \in Task \ Client,
         UNCHANGED <<table, entry, recency, memory, engine, drift>>, Settled',
         DOMAIN goal' = Client, DOMAIN use' = Client, pc'[t] # "stopping",
         \A s \in Task \ {t} : job'[s] = job[s] /\ (pc'[s] = pc[s] \/ pc'[s] = "done"),
         \A c \in Client : pc'[c] # "done" => goal'[c] = goal[c] /\ use'[c] = use[c]
  PROVE  PoolInv'
<1>1. \A c \in Client : pc'[c] \in Getters \cup Evicting =>
         pc'[c] = pc[c] /\ goal'[c] = goal[c] /\ use'[c] = use[c]
  BY TaskFacts DEF Getters, Evicting
<1>2. \A c \in Client : pc'[c] = "loading" =>
         pc[c] = "loading" /\ goal'[c] = goal[c] /\ use'[c] = use[c] /\ job'[c] = job[c]
  BY <1>1, TaskFacts DEF Getters
<1>3. \A s \in Task : pc'[s] = "stopping" => pc[s] = "stopping" /\ job'[s] = job[s]
  OBVIOUS
<1>4. Ordered' /\ IsInjective(recency') /\ ToSet(recency') = ToSet(recency)
  BY DEF PoolInv, PoolTypeOK, Ordered
<1>. QED
  BY <1>1, <1>2, <1>3, <1>4, PoolKept

\* Such a task on its own.
LEMMA AloneKeepsPool ==
  ASSUME PoolInv, LockInv, LockInv', NEW t \in Task \ Client, NEW place, place # "stopping",
         pc' = [pc EXCEPT ![t] = place], job' \in {job, [job EXCEPT ![t] = None]},
         UNCHANGED <<table, entry, recency, memory, engine, drift, goal, use>>, Settled'
  PROVE  PoolInv'
<1>1. /\ pc'[t] # "stopping" /\ \A s \in Task \ {t} : pc'[s] = pc[s] /\ job'[s] = job[s]
      /\ DOMAIN goal' = Client /\ DOMAIN use' = Client
  BY DEF LockInv, Queue, Jobs, PoolInv, Tasks
<1>. QED
  BY <1>1, AsideKeepsPool

LEMMA SettledKept ==
  ASSUME PoolInv, UNCHANGED settings PROVE Settled'
  BY DEF PoolInv, PoolTypeOK, Settled, settings

LEMMA EnforceKeepsPool ==
  ASSUME PoolInv, LockInv, LockInv', NEW t \in Admin \cup {Enforcer}, Enforce(t) PROVE PoolInv'
<1>. USE TaskFacts
<1>. DEFINE Aborted(told, next) == [s \in Task |-> IF s = t THEN next
                                                   ELSE IF s \in told THEN "done" ELSE pc[s]]
<1>1. PICK m \in Model :
        LET told == Waiting(<<m, entry[Entry(m)].engine>>)
        IN  /\ IsVictim(m) /\ Leave(told)
            /\ \/ BeginUnload(t, m, "enforce") /\ pc' = Aborted(told, "stopping")
               \/ /\ pc' = Aborted(told, AfterEnforcing(t))
                  /\ UNCHANGED <<table, entry, recency, memory, engine, job, drift>>
  BY DEF Enforce, poolVars
<1>. DEFINE told == Waiting(<<m, entry[Entry(m)].engine>>)
<1>2. /\ IsVictim(m) /\ Leave(told)
      /\ \/ BeginUnload(t, m, "enforce") /\ pc' = Aborted(told, "stopping")
         \/ /\ pc' = Aborted(told, AfterEnforcing(t))
            /\ UNCHANGED <<table, entry, recency, memory, engine, job, drift>>
  BY <1>1
<1>3. told \subseteq Client /\ \A s \in told : pc[s] = "using"
  BY DEF Waiting, InFlight
<1>4. /\ Loaded(m) /\ UNCHANGED settings /\ pc[t] = "enforce" /\ t \in Task \ Client
      /\ AfterEnforcing(t) # "stopping"
  BY <1>2, VictimLoaded DEF Enforce, AfterEnforcing
<1>. HIDE DEF told
<1>5. /\ DOMAIN goal' = Client /\ DOMAIN use' = Client
      /\ \A c \in Client \ told : goal'[c] = goal[c] /\ use'[c] = use[c]
  BY <1>2 DEF Leave
<1>6. /\ \A s \in Task \ {t} : pc'[s] = pc[s] \/ (pc[s] = "using" /\ pc'[s] = "done")
      /\ \A c \in Client : pc'[c] # "done" => c \notin told
  BY <1>2, <1>3, <1>4
<1>7. CASE BeginUnload(t, m, "enforce") /\ pc' = Aborted(told, "stopping")
  <2>1. pc'[t] = "stopping"
    BY <1>4, <1>7
  <2>. QED
    BY <1>4, <1>5, <1>6, <1>7, <2>1, UnloadBegins
<1>8. CASE /\ pc' = Aborted(told, AfterEnforcing(t))
           /\ UNCHANGED <<table, entry, recency, memory, engine, job, drift>>
  <2>1. pc'[t] # "stopping" /\ Settled'
    BY <1>4, <1>8, SettledKept
  <2>. QED
    BY <1>4, <1>5, <1>6, <1>8, <2>1, AsideKeepsPool
<1>. QED
  BY <1>2, <1>7, <1>8

\* A task that is no client unloads an engine.
LEMMA OthersUnload ==
  ASSUME PoolInv, LockInv, LockInv', NEW t \in Task \ Client, NEW m \in Model, Loaded(m),
         NEW back, BeginUnload(t, m, back), pc[t] # "stopping", pc' = [pc EXCEPT ![t] = "stopping"],
         UNCHANGED <<goal, use, settings>>
  PROVE  PoolInv'
<1>1. pc'[t] = "stopping" /\ \A s \in Task \ {t} : pc'[s] = pc[s]
  BY DEF LockInv, Queue
<1>2. DOMAIN goal' = Client /\ DOMAIN use' = Client
  BY DEF PoolInv, Tasks
<1>. QED
  BY <1>1, <1>2, UnloadBegins

LEMMA EnforcerKeepsPool ==
  ASSUME PoolInv, LockInv, LockInv', Poll \/ Enforcing PROVE PoolInv'
<1>. USE TaskFacts
<1>1. ASSUME NEW t \in Task \ Client,
             NEW place \in {"enforce", "expire", "enforced", "sleep", "done"},
             pc' = [pc EXCEPT ![t] = place], UNCHANGED <<poolVars, drift, job, goal, use, settings>>
      PROVE  PoolInv'
  BY <1>1, SettledKept, AloneKeepsPool DEF poolVars
<1>2. CASE Poll \/ ExpireEnds
  BY <1>1, <1>2 DEF Poll, ExpireEnds
<1>3. ASSUME NEW t \in Admin \cup {Enforcer}, EnforceEnds(t) PROVE PoolInv'
  BY <1>1, <1>3 DEF EnforceEnds, AfterEnforcing
<1>4. ASSUME NEW m \in Model, Expire(m) PROVE PoolInv'
  BY <1>4, OthersUnload DEF Expire, Idle
<1>. QED
  BY <1>2, <1>3, <1>4, EnforceKeepsPool DEF Enforcing

\* A stopped engine keeps its weight: drift says so.
LEMMA StopCancelledKeepsPool ==
  ASSUME PoolInv, LockInv, LockInv', StopCancelled PROVE PoolInv'
<1>. USE TaskFacts
<1>1. /\ engine' = [engine EXCEPT ![job[Enforcer].engine] = "stopped"]
      /\ pc' = [pc EXCEPT ![Enforcer] = "off"] /\ job' = [job EXCEPT ![Enforcer] = None]
      /\ drift' = drift \cup {"cancelled"}
      /\ UNCHANGED <<table, entry, recency, memory, goal, use, settings>>
  BY DEF StopCancelled, EnforcerOff
<1>2. \A s \in Task \ {Enforcer} : pc'[s] = pc[s] /\ job'[s] = job[s]
  BY <1>1 DEF LockInv, Queue, Jobs
<1>3. pc'[Enforcer] = "off"
  BY <1>1 DEF LockInv, Queue
<1>4. PoolTypeOK'
  <2>1. \A n \in Model : Loaded(n)' <=> Loaded(n)
    BY <1>1 DEF Loaded, Known, Entry
  <2>2. (ToSet(recency) = {n \in Model : Loaded(n)})'
    BY <1>1, <2>1 DEF PoolInv, PoolTypeOK
  <2>3. engine' \in [Model \X Index -> {"free", "starting", "running", "stopping", "stopped"}]
    BY <1>1 DEF PoolInv, PoolTypeOK
  <2>4. ToSet(lock') \subseteq Task /\ IsInjective(lock')
    BY QueueTyped DEF LockInv, Queue, ToSet
  <2>. QED
    BY <1>1, <2>2, <2>3, <2>4 DEF PoolInv, PoolTypeOK, settings
<1>5. Tasks'
  BY <1>1, <1>2, <1>3 DEF PoolInv, Tasks, Getters
<1>6. Unloaded'
  <2>1. \A n \in Model : Loaded(n)' => Loaded(n)
    BY <1>1 DEF Loaded, Known, Entry
  <2>2. \A d \in Client : pc'[d] \in Evicting => pc[d] \in Evicting /\ goal[d] \in Model
    BY <1>2 DEF PoolInv, Tasks, Evicting, Getters
  <2>. QED
    BY <1>1, <2>1, <2>2, UnloadedKept
<1>. QED
  BY <1>1, <1>4, <1>5, <1>6 DEF PoolInv, Ordered

LEMMA SwitchingKeepsPool ==
  ASSUME PoolInv, LockInv, LockInv', Switching PROVE PoolInv'
<1>. USE TaskFacts
<1>1. ASSUME NEW t \in Task \ Client, NEW place \in {"off", "sleep", "enforce", "quit", "done"},
             pc' = [pc EXCEPT ![t] = place], job' \in {job, [job EXCEPT ![t] = None]},
             UNCHANGED <<poolVars, drift, goal, use, settings>>
      PROVE  PoolInv'
  BY <1>1, SettledKept, AloneKeepsPool DEF poolVars
<1>2. CASE Cancelled \/ StartEnforcer
  BY <1>1, <1>2 DEF Cancelled, EnforcerOff, StartEnforcer
<1>3. ASSUME NEW a \in Admin, CheckNow(a) \/ StopEnforcer(a) \/ EnforcerStopped(a) PROVE PoolInv'
  BY <1>1, <1>3 DEF CheckNow, StopEnforcer, EnforcerStopped
<1>. QED
  BY <1>2, <1>3, StopCancelledKeepsPool DEF Switching

LEMMA AdminKeepsPool ==
  ASSUME PoolInv, LockInv, LockInv', NEW a \in Admin,
         AdminStarts(a) \/ ChangeLimit(a) \/ ChangePin(a) \/ Administering(a) \/ ChangeDirs(a)
  PROVE  PoolInv'
<1>0. a \in Task \ Client
  BY TaskFacts
<1>1. ASSUME NEW place \in {"unload", "limit", "done"}, pc' = [pc EXCEPT ![a] = place],
             UNCHANGED <<poolVars, drift, job, goal, use>>, Settled'
      PROVE  PoolInv'
  BY <1>0, <1>1, AloneKeepsPool DEF poolVars
<1>2. CASE AdminStarts(a) \/ AdminEnds(a) \/ LimitEnds(a)
  BY <1>1, <1>2, SettledKept DEF AdminStarts, AdminEnds, LimitEnds
<1>3. CASE ChangeLimit(a)
  <2>1. Settled'
    BY <1>3 DEF ChangeLimit, PoolInv, PoolTypeOK, Settled
  <2>. QED
    BY <1>1, <1>3, <2>1 DEF ChangeLimit
<1>4. CASE ChangePin(a)
  <2>1. Settled'
    BY <1>4 DEF ChangePin, PoolInv, PoolTypeOK, Settled
  <2>. QED
    BY <1>1, <1>4, <2>1 DEF ChangePin
<1>5. CASE EvictForLimit(a)
  BY <1>0, <1>5, VictimLoaded, OthersUnload DEF EvictForLimit
<1>6. ASSUME NEW m \in Model, AdminUnloads(a, m) PROVE PoolInv'
  <2>1. CASE Loaded(m)
    BY <1>0, <1>6, <2>1, OthersUnload DEF AdminUnloads
  <2>2. CASE ~Loaded(m)
    <3>1. pc[a] = "unload" /\ pc' = pc /\ job' = job /\ UNCHANGED <<poolVars, drift, goal, use, settings>>
      BY <1>6, <2>2 DEF AdminUnloads
    <3>2. pc'[a] # "stopping" /\ Settled' /\ DOMAIN goal' = Client /\ DOMAIN use' = Client
      BY <3>1, SettledKept DEF PoolInv, Tasks
    <3>. QED
      BY <1>0, <3>1, <3>2, AsideKeepsPool DEF poolVars
  <2>. QED
    BY <2>1, <2>2
<1>. QED
  BY <1>2, <1>3, <1>4, <1>5, <1>6, ChangeDirsKeepsPool DEF Administering

-----------------------------------------------------------------------------
LEMMA PoolInvInit == Init => PoolInv
<1>. SUFFICES ASSUME Init PROVE PoolInv
  OBVIOUS
<1>. USE TaskFacts, NoneFacts
<1>1. /\ table = [m \in Model |-> 1] /\ entry = [e \in Model \X Index |-> NewEntry]
      /\ engine = [x \in Model \X Index |-> "free"]
      /\ pinned = Pinned /\ limit = MaxModelMemory /\ cap = [a \in Admin |-> None] /\ recency = <<>> /\ memory = 0 /\ lock = <<>> /\ drift = {}
      /\ \A t \in Task : pc[t] \in {"sleep", "idle"}
      /\ DOMAIN goal = Client /\ DOMAIN use = Client
  BY DEF Init
<1>2. 1 \in Index /\ NewEntry \in [engine : Index \cup {None}, loading : BOOLEAN] /\ NewEntry.engine = None
  BY EnginePoolAssumption DEF Index, NewEntry
<1>3. \A m \in Model : ~Loaded(m)
  BY <1>1, <1>2 DEF Loaded, Entry
<1>4. IsInjective(<<>>) /\ ToSet(<<>>) = {} /\ <<>> \in Seq(Model)
  BY DEF IsInjective, ToSet
<1>5. PoolTypeOK
  <2>1. ToSet(recency) = {m \in Model : Loaded(m)} /\ IsInjective(recency) /\ ToSet(lock) \subseteq Task
        /\ IsInjective(lock)
    BY <1>1, <1>3, <1>4
  <2>2. table \in [Model -> Index \cup {None}] /\ Settled /\ memory \in Int
    BY <1>1, <1>2, EnginePoolAssumption DEF Settled
  <2>3. entry \in [Model \X Index -> [engine: Index \cup {None}, loading: BOOLEAN]]
    BY <1>1, <1>2
  <2>4. engine \in [Model \X Index -> {"free", "starting", "running", "stopping", "stopped"}]
    BY <1>1
  <2>. QED
    BY <1>1, <2>1, <2>2, <2>3, <2>4 DEF PoolTypeOK, Settled
<1>6. Tasks /\ Unloaded
  BY <1>1 DEF Tasks, Getters, Unloaded, Evicting
<1>7. Account
  <2>1. InMemory = {}
    BY <1>1 DEF InMemory
  <2>2. Owned /\ Current
    BY <1>3, <2>1 DEF Owned, Current
  <2>3. Stopping /\ Starting
    <3>1. \A t \in Task : pc[t] \notin {"stopping", "loading"}
      BY <1>1
    <3>. QED
      BY <3>1 DEF Stopping, Starting
  <2>4. MemoryCounted
    BY <1>1, <2>1, WeightFacts DEF MemoryCounted
  <2>. QED
    BY <2>2, <2>3, <2>4 DEF Account
<1>. QED
  BY <1>1, <1>4, <1>5, <1>6, <1>7 DEF PoolInv, Ordered

LEMMA PoolInvStep == PoolInv /\ LockInv /\ LockInv' /\ [Next]_vars => PoolInv'
<1>. SUFFICES ASSUME PoolInv, LockInv, LockInv', [Next]_vars PROVE PoolInv'
  OBVIOUS
<1>1. CASE \E t \in Task : Unloading(t)
  BY <1>1, StoppedKeepsPool, ClearedKeepsPool DEF Unloading
<1>2. CASE \E c \in Client : Getting(c) \/ Generating(c) \/ Generated(c)
  BY <1>2, ClientsKeepPool
<1>3. CASE \E c \in Client, m \in Model : GetEngine(c, m)
  BY <1>3, ClientsKeepPool
<1>4. CASE Poll \/ Enforcing \/ Switching
  BY <1>4, EnforcerKeepsPool, SwitchingKeepsPool
<1>5. ASSUME NEW a \in Admin,
             AdminStarts(a) \/ ChangeLimit(a) \/ ChangePin(a) \/ Administering(a) \/ ChangeDirs(a)
      PROVE  PoolInv'
  BY <1>5, AdminKeepsPool
<1>6. CASE \E found \in {Model} \cup {Model \ {m} : m \in Model} : Rediscover(found)
  BY <1>6, RediscoverKeepsPool
<1>7. CASE UNCHANGED vars
  <2>1. UNCHANGED <<table, entry, recency, memory, engine, drift, pc, job, goal, use>>
    BY <1>7 DEF vars, poolVars, taskVars
  <2>2. Settled'
    BY <1>7 DEF vars, settings, PoolInv, PoolTypeOK, Settled
  <2>3. /\ Ordered' /\ IsInjective(recency') /\ ToSet(recency') = ToSet(recency)
        /\ DOMAIN goal' = Client /\ DOMAIN use' = Client
    BY <2>1 DEF PoolInv, PoolTypeOK, Ordered, Tasks
  <2>. QED
    BY <2>1, <2>2, <2>3, PoolKept
<1>. QED
  BY <1>1, <1>2, <1>3, <1>4, <1>5, <1>6, <1>7 DEF Next

-----------------------------------------------------------------------------
(* No step breaks the limit                                                *)

\* Nothing is added, and nobody gets past the check.
LEMMA NothingAdded ==
  ASSUME PoolInv, memory' \in Int, memory' <= memory,
         \A c \in Client : PastCheck(c)' => PastCheck(c) /\ goal'[c] = goal[c]
  PROVE  LimitRespected
<1>1. ASSUME NEW c \in Client PROVE memory' + Due(c)' <= memory + Due(c)
  <2>1. Due(c) \in Nat /\ memory \in Int
    BY EnginePoolAssumption DEF Due, PastCheck, PoolInv, PoolTypeOK, Tasks, Getters
  <2>2. CASE PastCheck(c)'
    <3>1. Due(c)' = Due(c)
      BY <1>1, <2>2 DEF Due
    <3>. QED
      BY <2>1, <3>1
  <2>3. CASE ~PastCheck(c)'
    <3>1. Due(c)' = 0
      BY <2>3 DEF Due
    <3>. QED
      BY <2>1, <3>1
  <2>. QED
    BY <2>2, <2>3
<1>. QED
  BY <1>1 DEF LimitRespected

\* What a task does on its own brings no other one past the check.
LEMMA OthersNotPast ==
  ASSUME PoolInv, LockInv, NEW t \in Task, NEW place, NEW work, pc' = [pc EXCEPT ![t] = place],
         job' \in {job, [job EXCEPT ![t] = work]}, \A c \in Client \ {t} : goal'[c] = goal[c],
         NEW c \in Client \ {t}
  PROVE  (PastCheck(c)' <=> PastCheck(c)) /\ goal'[c] = goal[c]
<1>1. pc'[c] = pc[c] /\ job'[c] = job[c]
  BY TaskFacts DEF LockInv, Queue, Jobs
<1>. QED
  BY <1>1 DEF PastCheck

LEMMA AloneRespectsLimit ==
  ASSUME PoolInv, LockInv, NEW t \in Task, NEW place, NEW work, pc' = [pc EXCEPT ![t] = place],
         job' \in {job, [job EXCEPT ![t] = work]}, \A c \in Client \ {t} : goal'[c] = goal[c],
         t \in Client => ~PastCheck(t)', memory' = memory
  PROVE  LimitRespected
<1>1. memory' \in Int /\ memory' <= memory
  BY DEF PoolInv, PoolTypeOK
<1>2. \A c \in Client : PastCheck(c)' => PastCheck(c) /\ goal'[c] = goal[c]
  BY OthersNotPast
<1>. QED
  BY <1>1, <1>2, NothingAdded

LEMMA UnloadingRespectsLimit ==
  ASSUME PoolInv, LockInv, NEW t \in Task, Unloading(t) PROVE LimitRespected
<1>. USE TaskFacts
<1>1. CASE Stopped(t)
  <2>1. /\ pc[t] = "stopping" /\ job' = job /\ memory' = memory - Size(job[t].entry[1])
        /\ pc' = [s \in Task |-> IF s = t THEN "clearing"
                                 ELSE IF s \in Waiting(job[t].engine) THEN "stranded" ELSE pc[s]]
        /\ Leave(Waiting(job[t].engine))
    BY <1>1 DEF Stopped
  <2>2. memory' \in Int /\ memory' <= memory
    BY <2>1, EnginePoolAssumption DEF PoolInv, PoolTypeOK, Tasks, Engines
  <2>3. ASSUME NEW c \in Client, PastCheck(c)' PROVE PastCheck(c) /\ goal'[c] = goal[c]
    <3>1. /\ pc'[c] = pc[c] \/ (c = t /\ pc'[c] = "clearing")
          /\ c \notin Waiting(job[t].engine)
      BY <2>1, <2>3 DEF PastCheck, Waiting, InFlight
    <3>2. goal'[c] = goal[c]
      BY <2>1, <3>1 DEF Leave
    <3>. QED
      BY <2>1, <2>3, <3>1, <3>2 DEF PastCheck
  <2>. QED
    BY <2>2, <2>3, NothingAdded
<1>2. CASE Cleared(t)
  <2>1. /\ pc[t] = "clearing" /\ pc' = [pc EXCEPT ![t] = job[t].back]
        /\ job' = [job EXCEPT ![t] = None] /\ memory' = memory /\ goal' = goal
    BY <1>2 DEF Cleared, poolVars
  <2>2. pc'[t] = job[t].back /\ job[t].back \in Backs(t)
    BY <2>1 DEF LockInv, Queue, Jobs
  <2>3. t \in Client /\ PastCheck(t)' => PastCheck(t)
    BY <2>1, <2>2 DEF PastCheck, Backs
  <2>4. \A c \in Client : PastCheck(c)' => PastCheck(c) /\ goal'[c] = goal[c]
    BY <2>1, <2>3, OthersNotPast
  <2>5. memory' \in Int /\ memory' <= memory
    BY <2>1 DEF PoolInv, PoolTypeOK
  <2>. QED
    BY <2>4, <2>5, NothingAdded
<1>. QED
  BY <1>1, <1>2 DEF Unloading

\* The check says that the model fits, or nothing is added to what was due.
LEMMA CheckedRespectsLimit ==
  ASSUME PoolInv, LockInv, NEW c \in Client, BeginLoad(c) \/ EvictForProcess(c) PROVE LimitRespected
<1>. USE TaskFacts
<1>. DEFINE m == goal[c]
<1>1. /\ HasRoom(c) /\ pc[c] \in {"lookup", "evict", "process"}
      /\ \E place \in {"loading", "stopping"} : pc' = [pc EXCEPT ![c] = place]
      /\ UNCHANGED <<memory, limit, goal>>
  BY DEF BeginLoad, EvictForProcess, BeginUnload, HasRoom, NeedsRoom, settings
<1>2. PICK work : job' = [job EXCEPT ![c] = work]
  BY DEF BeginLoad, EvictForProcess, BeginUnload
<1>3. m \in Model /\ Size(m) \in Nat /\ memory \in Int
  BY <1>1, EnginePoolAssumption DEF PoolInv, PoolTypeOK, Tasks, Getters
<1>4. CASE pc[c] = "process"
  <2>1. PastCheck(c)
    BY <1>4 DEF PastCheck
  <2>2. \A d \in Client : PastCheck(d)' => PastCheck(d) /\ goal'[d] = goal[d]
    BY <1>1, <1>2, <2>1, OthersNotPast
  <2>. QED
    BY <1>1, <1>3, <2>2, NothingAdded
<1>5. CASE pc[c] # "process"
  <2>1. limit # None => memory + Size(m) <= limit
    <3>1. ASSUME limit # None PROVE memory + Size(m) <= limit
      <4>1. Fits(Size(m) + Size(m) \div 4) \/ Fits(Size(m))
        BY <1>1, <1>5 DEF HasRoom, WithHeadroom
      <4>2. limit \in Nat /\ Size(m) \div 4 >= 0
        BY <1>3, <3>1, EnginePoolAssumption DEF PoolInv, PoolTypeOK
      <4>. QED
        BY <1>3, <3>1, <4>1, <4>2 DEF Fits
    <3>. QED
      BY <3>1
  <2>2. Within(c)'
    <3>1. Due(c)' \in {0, Size(m)}
      BY <1>1 DEF Due
    <3>2. limit # None => memory <= limit
      BY <1>3, <2>1, EnginePoolAssumption DEF PoolInv, PoolTypeOK
    <3>. QED
      BY <1>1, <1>3, <2>1, <3>1, <3>2 DEF Within
  <2>3. ASSUME NEW d \in Client, d # c PROVE memory' + Due(d)' <= memory + Due(d)
    <3>1. Due(d)' = Due(d) /\ Due(d) \in Nat
      <4>1. (PastCheck(d)' <=> PastCheck(d)) /\ goal'[d] = goal[d]
        BY <1>1, <1>2, <2>3, OthersNotPast
      <4>2. PastCheck(d) => Size(goal[d]) \in Nat
        BY EnginePoolAssumption DEF PastCheck, PoolInv, Tasks, Getters
      <4>. QED
        BY <4>1, <4>2 DEF Due
    <3>. QED
      BY <1>1, <1>3, <3>1
  <2>. QED
    BY <2>2, <2>3 DEF LimitRespected
<1>. QED
  BY <1>4, <1>5

\* What was due is in the account, and nobody else is past the check.
LEMMA LoadDoneRespectsLimit ==
  ASSUME PoolInv, LockInv, NEW c \in Client, LoadDone(c) PROVE LimitRespected
<1>. USE TaskFacts
<1>1. /\ pc[c] = "loading" /\ memory' = memory + Size(goal[c])
      /\ job' = [job EXCEPT ![c] = None]
      /\ \E place \in {"got", "done"} : pc' = [pc EXCEPT ![c] = place]
  BY DEF LoadDone, Counted
<1>2. Holds(c) /\ Due(c) = Size(goal[c]) /\ Size(goal[c]) \in Nat /\ memory \in Int
  BY <1>1, EnginePoolAssumption
  DEF LockInv, Queue, Inside, Beside, Due, PastCheck, PoolInv, PoolTypeOK, Tasks, Getters
<1>3. ASSUME NEW d \in Client PROVE ~PastCheck(d)'
  <2>1. CASE d = c
    BY <1>1, <2>1 DEF PastCheck, LockInv, Queue
  <2>2. CASE d # c
    <3>1. pc'[d] = pc[d] /\ job'[d] = job[d]
      BY <1>1, <2>2 DEF LockInv, Queue, Jobs
    <3>2. ~Inside(d)
      BY <1>2, <2>2 DEF LockInv, Queue, Holds
    <3>. QED
      BY <3>1, <3>2 DEF PastCheck, Inside, Beside
  <2>. QED
    BY <2>1, <2>2
<1>4. \A d \in Client : Due(d)' = 0
  BY <1>3 DEF Due
<1>. QED
  BY <1>1, <1>2, <1>4 DEF LimitRespected

LEMMA ClientsRespectLimit ==
  ASSUME PoolInv, LockInv, NEW c \in Client,
         Getting(c) \/ Generating(c) \/ Generated(c) \/ \E m \in Model : GetEngine(c, m)
  PROVE  LimitRespected
<1>. USE TaskFacts
<1>1. ASSUME NEW place \in {"lookup", "got", "using", "reviving", "done"}, pc' = [pc EXCEPT ![c] = place],
             job' \in {job, [job EXCEPT ![c] = None]}, memory' = memory,
             \A d \in Client \ {c} : goal'[d] = goal[d]
      PROVE  LimitRespected
  <2>1. ~PastCheck(c)'
    BY <1>1 DEF PastCheck, LockInv, Queue
  <2>. QED
    BY <1>1, <2>1, AloneRespectsLimit
<1>2. CASE AlreadyLoaded(c) \/ StartGenerate(c) \/ Revived(c)
  <2>1. \E place \in {"got", "using", "reviving"} : pc' = [pc EXCEPT ![c] = place]
    BY <1>2 DEF AlreadyLoaded, StartGenerate, Revived
  <2>2. UNCHANGED <<memory, goal, job>>
    BY <1>2 DEF AlreadyLoaded, StartGenerate, Revived, poolVars
  <2>. QED
    BY <1>1, <2>1, <2>2
<1>3. CASE GetFails(c) \/ LoadRefused(c) \/ LoadFails(c) \/ Generated(c)
  <2>1. /\ pc' = [pc EXCEPT ![c] = "done"] /\ Leave({c}) /\ memory' = memory
        /\ job' \in {job, [job EXCEPT ![c] = None]}
    BY <1>3 DEF GetFails, LoadRefused, GetRaises, LoadFails, Generated, poolVars
  <2>2. \A d \in Client \ {c} : goal'[d] = goal[d]
    BY <2>1 DEF Leave
  <2>. QED
    BY <1>1, <2>1, <2>2
<1>4. CASE StartEmbed(c)
  <2>1. PICK place \in {"using", "done"}, gone \in {{}, {c}} :
          pc' = [pc EXCEPT ![c] = place] /\ Leave(gone)
    BY <1>4 DEF StartEmbed
  <2>2. \A d \in Client \ {c} : goal'[d] = goal[d]
    BY <2>1 DEF Leave
  <2>3. UNCHANGED <<memory, job>>
    BY <1>4 DEF StartEmbed, poolVars
  <2>. QED
    BY <1>1, <2>1, <2>2, <2>3
<1>5. CASE EvictForLoad(c)
  <2>1. /\ pc' = [pc EXCEPT ![c] = "stopping"] /\ memory' = memory /\ goal' = goal
        /\ \E m \in Model : job' = [job EXCEPT ![c] = [entry |-> Entry(m),
                                     engine |-> <<m, entry[Entry(m)].engine>>, back |-> "evict"]]
    BY <1>5 DEF EvictForLoad, BeginUnload
  <2>2. pc'[c] = "stopping" /\ job'[c].back = "evict"
    BY <2>1 DEF LockInv, Queue, Jobs
  <2>3. ~PastCheck(c)'
    BY <2>2 DEF PastCheck
  <2>. QED
    BY <2>1, <2>3, AloneRespectsLimit
<1>6. CASE \E m \in Model : GetEngine(c, m)
  <2>1. /\ pc' = [pc EXCEPT ![c] = "lookup"] /\ UNCHANGED <<memory, job>>
        /\ \A d \in Client \ {c} : goal'[d] = goal[d]
    BY <1>6 DEF GetEngine, poolVars
  <2>. QED
    BY <1>1, <2>1
<1>. QED
  BY <1>2, <1>3, <1>4, <1>5, <1>6, CheckedRespectsLimit, LoadDoneRespectsLimit DEF Getting, Generating

\* Whoever asks for no model brings none past the check.
LEMMA OthersRespectLimit ==
  ASSUME PoolInv, LockInv, Poll \/ Enforcing \/ Switching \/ \E found : Rediscover(found)
  PROVE  LimitRespected
<1>. USE TaskFacts
<1>1. ASSUME NEW t \in Task \ Client, NEW place, NEW work, pc' = [pc EXCEPT ![t] = place],
             job' \in {job, [job EXCEPT ![t] = work]}, memory' = memory, goal' = goal
      PROVE  LimitRespected
  BY <1>1, AloneRespectsLimit
<1>2. CASE Poll \/ ExpireEnds \/ Cancelled \/ StopCancelled \/ StartEnforcer \/ \E m \in Model : Expire(m)
  <2>1. UNCHANGED <<memory, goal>> /\ \E place : pc' = [pc EXCEPT ![Enforcer] = place]
    BY <1>2 DEF Poll, ExpireEnds, Cancelled, StopCancelled, EnforcerOff, StartEnforcer, Expire, BeginUnload,
                poolVars
  <2>2. \E work : job' \in {job, [job EXCEPT ![Enforcer] = work]}
    BY <1>2 DEF Poll, ExpireEnds, Cancelled, StopCancelled, EnforcerOff, StartEnforcer, Expire, BeginUnload
  <2>. QED
    BY <1>1, <2>1, <2>2
<1>3. ASSUME NEW a \in Admin, CheckNow(a) \/ StopEnforcer(a) \/ EnforcerStopped(a) PROVE LimitRespected
  <2>1. UNCHANGED <<memory, goal, job>> /\ \E place : pc' = [pc EXCEPT ![a] = place]
    BY <1>3 DEF CheckNow, StopEnforcer, EnforcerStopped, poolVars
  <2>. QED
    BY <1>1, <2>1
<1>4. ASSUME NEW t \in Admin \cup {Enforcer}, EnforceEnds(t) PROVE LimitRespected
  BY <1>1, <1>4 DEF EnforceEnds, poolVars
<1>5. ASSUME NEW t \in Admin \cup {Enforcer}, Enforce(t) PROVE LimitRespected
  <2>1. PICK m \in Model, next \in {"stopping", AfterEnforcing(t)} :
          LET told == Waiting(<<m, entry[Entry(m)].engine>>)
          IN  /\ Leave(told)
              /\ pc' = [s \in Task |-> IF s = t THEN next ELSE IF s \in told THEN "done" ELSE pc[s]]
    BY <1>5 DEF Enforce
  <2>2. memory' = memory /\ \E work : job' \in {job, [job EXCEPT ![t] = work]}
    BY <1>5 DEF Enforce, BeginUnload, poolVars
  <2>. DEFINE told == Waiting(<<m, entry[Entry(m)].engine>>)
  <2>3. /\ Leave(told)
        /\ pc' = [s \in Task |-> IF s = t THEN next ELSE IF s \in told THEN "done" ELSE pc[s]]
    BY <2>1
  <2>. HIDE DEF told
  <2>4. ASSUME NEW c \in Client, PastCheck(c)' PROVE PastCheck(c) /\ goal'[c] = goal[c]
    <3>1. c # t /\ c \notin told /\ pc'[c] = pc[c]
      BY <2>3, <2>4 DEF PastCheck
    <3>2. job'[c] = job[c] /\ goal'[c] = goal[c]
      BY <2>2, <2>3, <3>1 DEF Leave, LockInv, Jobs
    <3>. QED
      BY <2>4, <3>1, <3>2 DEF PastCheck
  <2>5. memory' \in Int /\ memory' <= memory
    BY <2>2 DEF PoolInv, PoolTypeOK
  <2>. QED
    BY <2>4, <2>5, NothingAdded
<1>6. ASSUME NEW found, Rediscover(found) PROVE LimitRespected
  <2>1. UNCHANGED <<memory, pc, job, goal>>
    BY <1>6 DEF Rediscover, taskVars
  <2>2. memory' \in Int /\ memory' <= memory
    BY <2>1 DEF PoolInv, PoolTypeOK
  <2>. QED
    BY <2>1, <2>2, NothingAdded DEF PastCheck
<1>. QED
  BY <1>2, <1>3, <1>4, <1>5, <1>6 DEF Enforcing, Switching

LEMMA AdminRespectsLimit ==
  ASSUME PoolInv, LockInv, NEW a \in Admin,
         AdminStarts(a) \/ ChangeLimit(a) \/ ChangePin(a) \/ Administering(a) \/ ChangeDirs(a)
  PROVE  LimitRespected
<1>. USE TaskFacts
<1>1. ASSUME NEW place, NEW work, pc' = [pc EXCEPT ![a] = place],
             job' \in {job, [job EXCEPT ![a] = work]}, memory' = memory, goal' = goal
      PROVE  LimitRespected
  BY <1>1, AloneRespectsLimit
<1>2. CASE AdminStarts(a) \/ ChangeLimit(a) \/ ChangePin(a) \/ AdminEnds(a) \/ LimitEnds(a)
  <2>1. UNCHANGED <<memory, goal, job>> /\ \E place : pc' = [pc EXCEPT ![a] = place]
    BY <1>2 DEF AdminStarts, ChangeLimit, ChangePin, AdminEnds, LimitEnds, poolVars
  <2>. QED
    BY <1>1, <2>1
<1>3. CASE EvictForLimit(a) \/ \E m \in Model : AdminUnloads(a, m)
  <2>1. UNCHANGED <<memory, goal>> /\ \E work : job' \in {job, [job EXCEPT ![a] = work]}
    BY <1>3 DEF EvictForLimit, AdminUnloads, BeginUnload, poolVars
  <2>2. \E place : pc' = [pc EXCEPT ![a] = place]
    <3>1. pc = [pc EXCEPT ![a] = pc[a]]
      BY DEF LockInv, Queue
    <3>. QED
      BY <1>3, <3>1 DEF EvictForLimit, AdminUnloads
  <2>. QED
    BY <1>1, <2>1, <2>2
<1>4. CASE ChangeDirs(a)
  <2>1. /\ memory' = 0 /\ job' = job /\ goal' = goal /\ pc' = [pc EXCEPT ![a] = "done"]
        /\ drift' = {} => drift = {}
    BY <1>4 DEF ChangeDirs
  <2>2. CASE drift' # {}
    BY <2>2 DEF LimitRespected
  <2>3. CASE drift' = {}
    <3>1. memory = Weight(InMemory) /\ InMemory \in SUBSET Engines
      BY <2>1, <2>3 DEF PoolInv, Account, MemoryCounted, InMemory, Engines
    <3>2. memory' \in Int /\ memory' <= memory
      BY <2>1, <3>1, WeightFacts
    <3>3. \A c \in Client : PastCheck(c)' => PastCheck(c) /\ goal'[c] = goal[c]
      BY <2>1, OthersNotPast
    <3>. QED
      BY <3>2, <3>3, NothingAdded
  <2>. QED
    BY <2>2, <2>3
<1>. QED
  BY <1>2, <1>3, <1>4 DEF Administering

LEMMA LimitRespectedStep == PoolInv /\ LockInv /\ [Next]_vars => [LimitRespected]_vars
<1>. SUFFICES ASSUME PoolInv, LockInv, Next PROVE LimitRespected
  OBVIOUS
<1>1. CASE \E t \in Task : Unloading(t)
  BY <1>1, UnloadingRespectsLimit
<1>2. CASE \/ \E c \in Client : Getting(c) \/ Generating(c) \/ Generated(c)
           \/ \E c \in Client, m \in Model : GetEngine(c, m)
  BY <1>2, ClientsRespectLimit
<1>3. CASE \/ Poll \/ Enforcing \/ Switching
           \/ \E found \in {Model} \cup {Model \ {m} : m \in Model} : Rediscover(found)
  BY <1>3, OthersRespectLimit
<1>4. CASE \/ \E a \in Admin : Administering(a) \/ ChangeDirs(a)
           \/ \E a \in Admin : AdminStarts(a) \/ ChangeLimit(a) \/ ChangePin(a)
  BY <1>4, AdminRespectsLimit
<1>. QED
  BY <1>1, <1>2, <1>3, <1>4 DEF Next

\* For any number of models, clients and administrators, any limits and any
\* changes of them: the account of _current_model_memory is the memory of the
\* engines in it until two unloads overlap, an entry is replaced during its
\* load, an unloaded engine is started again, the directories change while a
\* model loads or the enforcer is cancelled while it stops an engine; and until
\* then no step but a change of the limit brings the account, with the load
\* that is past its check, above it, or further above.
THEOREM PoolMemoryExplained == Spec => MemoryExplained
<1>1. PoolInv => PoolTypeOK /\ AccountExplained
  BY DEF PoolInv, Account, AccountExplained
<1>2. Init => PoolInv /\ LockInv
  BY PoolInvInit, LockInvInit
<1>3. PoolInv /\ LockInv /\ [Next]_vars => (PoolInv /\ LockInv)'
  BY PoolInvStep, LockInvStep
<1>4. PoolInv /\ LockInv /\ [Next]_vars => [LimitRespected]_vars
  BY LimitRespectedStep
<1>. QED
  BY <1>1, <1>2, <1>3, <1>4, PTL DEF Spec, MemoryExplained

\* Until then every engine in memory is the one get_engine finds for its model:
\* none is left in memory that can no longer be used, evicted or unloaded.
THEOREM PoolOwnedExplained == Spec => []OwnedExplained
<1>1. PoolInv => OwnedExplained
  BY DEF PoolInv, Account, OwnedExplained, Owned
<1>2. Init => PoolInv /\ LockInv
  BY PoolInvInit, LockInvInit
<1>3. PoolInv /\ LockInv /\ [Next]_vars => (PoolInv /\ LockInv)'
  BY PoolInvStep, LockInvStep
<1>. QED
  BY <1>1, <1>2, <1>3, PTL DEF Spec

-----------------------------------------------------------------------------
(***************************************************************************)
(* WindowsCacheExact, for any blocks, sizes and limit.                     *)
(*                                                                         *)
(* That eviction makes room is a property of the longest run of blocks that*)
(* do not suffice: it ends at the last block or where they do.  What is    *)
(* evicted are the first places of the order of use, so that what is left  *)
(* stays a suffix of the history.  And no block comes back from its file:  *)
(* NothingToRead says that none ever has its name.                         *)
(***************************************************************************)
CacheTypeOK ==
    /\ Resident \subseteq Blocks /\ \A b \in Resident : blockTable[b].size \in Nat
    /\ usedBytes \in Nat
    /\ accessed \in Seq(Blocks) /\ IsInjective(accessed)
    /\ recent \in Seq(Blocks) /\ IsInjective(recent)
    /\ DOMAIN latest = Blocks

NothingToRead == \A b \in Blocks : <<b, <<".npy">>>> \notin DOMAIN cacheFiles

CacheInvariant == CacheTypeOK /\ NothingToRead /\ WindowsCacheExact

\* A suffix, item by item.
LEMMA SuffixItems ==
  ASSUME NEW S, NEW s \in Seq(S), NEW t \in Seq(S)
  PROVE  IsSuffix(s, t) <=> /\ Len(s) <= Len(t)
                            /\ \A i \in 1 .. Len(s) : s[i] = t[Len(t) - Len(s) + i]
<1>. DEFINE rs == Reverse(s)
            rt == Reverse(t)
<1>1. /\ rs \in Seq(S) /\ Len(rs) = Len(s) /\ Len(s) \in Nat
      /\ \A i \in 1 .. Len(s) : rs[i] = s[Len(s) - i + 1]
  BY DEF Reverse
<1>2. /\ rt \in Seq(S) /\ Len(rt) = Len(t) /\ Len(t) \in Nat
      /\ \A i \in 1 .. Len(t) : rt[i] = t[Len(t) - i + 1]
  BY DEF Reverse
<1>3. IsSuffix(s, t) <=> Len(rs) <= Len(rt) /\ SubSeq(rs, 1, Len(rs)) = SubSeq(rt, 1, Len(rs))
  BY DEF IsSuffix, IsPrefix
<1>. HIDE DEF rs, rt
<1>4. CASE Len(s) <= Len(t)
  <2>. DEFINE p == SubSeq(rs, 1, Len(s))
              q == SubSeq(rt, 1, Len(s))
  <2>1. p \in Seq(S) /\ Len(p) = Len(s) /\ \A i \in 1 .. Len(s) : p[i] = rs[i]
    BY <1>1
  <2>2. q \in Seq(S) /\ Len(q) = Len(s) /\ \A i \in 1 .. Len(s) : q[i] = rt[i]
    BY <1>1, <1>2, <1>4
  <2>3. IsSuffix(s, t) <=> p = q
    BY <1>1, <1>2, <1>3, <1>4
  <2>. HIDE DEF p, q
  <2>4. p = q <=> \A i \in 1 .. Len(s) : p[i] = q[i]
    BY <2>1, <2>2
  <2>5. p = q <=> \A i \in 1 .. Len(s) : s[Len(s) - i + 1] = t[Len(t) - i + 1]
    <3>1. \A i \in 1 .. Len(s) : p[i] = s[Len(s) - i + 1] /\ q[i] = t[Len(t) - i + 1]
      BY <1>1, <1>2, <1>4, <2>1, <2>2
    <3>. QED
      BY <2>4, <3>1
  <2>6. ASSUME NEW i \in 1 .. Len(s), \A j \in 1 .. Len(s) : s[Len(s) - j + 1] = t[Len(t) - j + 1]
        PROVE  s[i] = t[Len(t) - Len(s) + i]
    <3>. DEFINE j == Len(s) - i + 1
    <3>1. j \in 1 .. Len(s) /\ Len(s) - j + 1 = i /\ Len(t) - j + 1 = Len(t) - Len(s) + i
      BY <1>1, <1>2
    <3>. QED
      BY <2>6, <3>1
  <2>7. ASSUME NEW j \in 1 .. Len(s), \A i \in 1 .. Len(s) : s[i] = t[Len(t) - Len(s) + i]
        PROVE  s[Len(s) - j + 1] = t[Len(t) - j + 1]
    <3>. DEFINE i == Len(s) - j + 1
    <3>1. i \in 1 .. Len(s) /\ Len(t) - Len(s) + i = Len(t) - j + 1
      BY <1>1, <1>2
    <3>. QED
      BY <2>7, <3>1
  <2>. QED
    BY <1>4, <2>3, <2>5, <2>6, <2>7
<1>5. CASE ~(Len(s) <= Len(t))
  BY <1>1, <1>2, <1>3, <1>5
<1>. QED
  BY <1>4, <1>5

\* The end of a suffix is one.
LEMMA SuffixEnd ==
  ASSUME NEW S, NEW s \in Seq(S), NEW t \in Seq(S), IsSuffix(s, t), NEW n \in 0 .. Len(s)
  PROVE  IsSuffix(SubSeq(s, n + 1, Len(s)), t)
<1>. DEFINE r == SubSeq(s, n + 1, Len(s))
<1>1. /\ r \in Seq(S) /\ Len(r) = Len(s) - n /\ Len(s) \in Nat /\ Len(t) \in Nat
      /\ \A i \in 1 .. Len(s) - n : r[i] = s[n + i]
  OBVIOUS
<1>. HIDE DEF r
<1>2. Len(s) <= Len(t) /\ \A i \in 1 .. Len(s) : s[i] = t[Len(t) - Len(s) + i]
  BY SuffixItems
<1>3. ASSUME NEW i \in 1 .. Len(r) PROVE r[i] = t[Len(t) - Len(r) + i]
  <2>1. n + i \in 1 .. Len(s) /\ Len(t) - Len(s) + (n + i) = Len(t) - Len(r) + i
    BY <1>1
  <2>. QED
    BY <1>1, <1>2, <2>1
<1>4. IsSuffix(r, t)
  <2>1. Len(r) <= Len(t)
    BY <1>1, <1>2
  <2>. QED
    BY <1>1, <1>3, <2>1, SuffixItems
<1>. QED
  BY <1>4 DEF r

\* What is used moves to the end of an order and of a suffix of it.
LEMMA SuffixMoved ==
  ASSUME NEW S, NEW s \in Seq(S), NEW t \in Seq(S), IsInjective(s), IsInjective(t),
         IsSuffix(s, t), NEW b \in S
  PROVE  IsSuffix(MovedToEnd(s, b), MovedToEnd(t, b))
<1>. DEFINE rs == RemoveFirst(s, b)
            rt == RemoveFirst(t, b)
            d == Len(t) - Len(s)
<1>1. Len(s) <= Len(t) /\ (\A i \in 1 .. Len(s) : s[i] = t[d + i])
      /\ Len(s) \in Nat /\ Len(t) \in Nat /\ d \in Nat
  BY SuffixItems
<1>2. rs \in Seq(S) /\ rt \in Seq(S) /\ Len(rs) \in Nat /\ Len(rt) \in Nat
  BY RemoveOne
<1>3. \A k \in 1 .. Len(s) : s[k] = b =>
          /\ Len(rs) = Len(s) - 1
          /\ \A i \in 1 .. Len(s) - 1 : rs[i] = IF i < k THEN s[i] ELSE s[i + 1]
  <2>1. ASSUME NEW k \in 1 .. Len(s), s[k] = b
        PROVE  /\ Len(rs) = Len(s) - 1
               /\ \A i \in 1 .. Len(s) - 1 : rs[i] = IF i < k THEN s[i] ELSE s[i + 1]
    BY <2>1, RemoveItems
  <2>. HIDE DEF rs
  <2>. QED
    BY <2>1
<1>4. \A k \in 1 .. Len(t) : t[k] = b =>
          /\ Len(rt) = Len(t) - 1
          /\ \A i \in 1 .. Len(t) - 1 : rt[i] = IF i < k THEN t[i] ELSE t[i + 1]
  <2>1. ASSUME NEW k \in 1 .. Len(t), t[k] = b
        PROVE  /\ Len(rt) = Len(t) - 1
               /\ \A i \in 1 .. Len(t) - 1 : rt[i] = IF i < k THEN t[i] ELSE t[i + 1]
    BY <2>1, RemoveItems
  <2>. HIDE DEF rt
  <2>. QED
    BY <2>1
<1>5. (\A k \in 1 .. Len(s) : s[k] # b) => rs = s
  BY DEF RemoveFirst
<1>6. (\A k \in 1 .. Len(t) : t[k] # b) => rt = t
  BY DEF RemoveFirst
<1>. HIDE DEF rs, rt
<1>7. Len(rs) <= Len(rt) /\ \A i \in 1 .. Len(rs) : rs[i] = rt[Len(rt) - Len(rs) + i]
  <2>1. CASE \E k \in 1 .. Len(s) : s[k] = b
    <3>1. PICK k \in 1 .. Len(s) : s[k] = b
      BY <2>1
    <3>2. d + k \in 1 .. Len(t) /\ t[d + k] = b
      BY <1>1, <3>1
    <3>3. /\ Len(rs) = Len(s) - 1
          /\ \A i \in 1 .. Len(s) - 1 : rs[i] = IF i < k THEN s[i] ELSE s[i + 1]
      BY <1>3, <3>1
    <3>4. /\ Len(rt) = Len(t) - 1
          /\ \A i \in 1 .. Len(t) - 1 : rt[i] = IF i < d + k THEN t[i] ELSE t[i + 1]
      BY <1>4, <3>2
    <3>5. ASSUME NEW i \in 1 .. Len(s) - 1 PROVE rs[i] = rt[d + i]
      <4>1. d + i \in 1 .. Len(t) - 1 /\ (d + i) + 1 = d + (i + 1)
            /\ i \in 1 .. Len(s) /\ i + 1 \in 1 .. Len(s)
        BY <1>1
      <4>2. CASE i < k
        BY <1>1, <3>3, <3>4, <4>1, <4>2, SMTT(40)
      <4>3. CASE ~(i < k)
        <5>1. rs[i] = s[i + 1] /\ s[i + 1] = t[d + (i + 1)]
          BY <1>1, <3>3, <4>1, <4>3
        <5>3. ~(d + i < d + k)
          BY <1>1, <4>3
        <5>2. rt[d + i] = t[(d + i) + 1]
          <6>. HIDE DEF d
          <6>. QED
            BY <3>4, <4>1, <5>3
        <5>. QED
          BY <4>1, <5>1, <5>2
      <4>. QED
        BY <4>2, <4>3
    <3>6. Len(rt) - Len(rs) = d
      BY <1>1, <3>3, <3>4
    <3>. QED
      BY <1>1, <3>3, <3>4, <3>5, <3>6
  <2>2. CASE (\A k \in 1 .. Len(s) : s[k] # b) /\ \E k \in 1 .. Len(t) : t[k] = b
    <3>1. PICK k \in 1 .. Len(t) : t[k] = b
      BY <2>2
    <3>2. k <= d
      <4>1. SUFFICES ASSUME k > d PROVE FALSE
        BY <1>1
      <4>2. k - d \in 1 .. Len(s) /\ d + (k - d) = k
        BY <1>1, <4>1
      <4>3. s[k - d] = t[k]
        BY <1>1, <4>2
      <4>. QED
        BY <2>2, <3>1, <4>2, <4>3
    <3>3. /\ Len(rt) = Len(t) - 1
          /\ \A i \in 1 .. Len(t) - 1 : rt[i] = IF i < k THEN t[i] ELSE t[i + 1]
      BY <1>4, <3>1
    <3>4. rs = s
      BY <1>5, <2>2
    <3>5. ASSUME NEW i \in 1 .. Len(s) PROVE s[i] = rt[(d - 1) + i]
      <4>1. (d - 1) + i \in 1 .. Len(t) - 1 /\ ~((d - 1) + i < k) /\ ((d - 1) + i) + 1 = d + i
        BY <1>1, <3>2
      <4>. QED
        BY <1>1, <3>3, <4>1
    <3>6. Len(rt) - Len(rs) = d - 1 /\ d >= 1
      BY <1>1, <3>2, <3>3, <3>4
    <3>. QED
      BY <1>1, <3>3, <3>4, <3>5, <3>6
  <2>3. CASE (\A k \in 1 .. Len(s) : s[k] # b) /\ \A k \in 1 .. Len(t) : t[k] # b
    BY <1>1, <1>5, <1>6, <2>3
  <2>. QED
    BY <2>1, <2>2, <2>3
<1>. DEFINE ms == Append(rs, b)
            mt == Append(rt, b)
<1>8. /\ ms \in Seq(S) /\ Len(ms) = Len(rs) + 1 /\ ms[Len(rs) + 1] = b
      /\ \A i \in 1 .. Len(rs) : ms[i] = rs[i]
  BY <1>2
<1>9. /\ mt \in Seq(S) /\ Len(mt) = Len(rt) + 1 /\ mt[Len(rt) + 1] = b
      /\ \A i \in 1 .. Len(rt) : mt[i] = rt[i]
  BY <1>2
<1>. HIDE DEF ms, mt
<1>10. ASSUME NEW i \in 1 .. Len(ms) PROVE ms[i] = mt[Len(mt) - Len(ms) + i]
  <2>1. CASE i \in 1 .. Len(rs)
    <3>1. Len(mt) - Len(ms) + i \in 1 .. Len(rt) /\ Len(mt) - Len(ms) + i = Len(rt) - Len(rs) + i
      BY <1>2, <1>7, <1>8, <1>9, <2>1
    <3>. QED
      BY <1>7, <1>8, <1>9, <2>1, <3>1
  <2>2. CASE i = Len(rs) + 1
    <3>1. Len(mt) - Len(ms) + i = Len(rt) + 1
      BY <1>2, <1>8, <1>9, <2>2
    <3>. QED
      BY <1>8, <1>9, <2>2, <3>1
  <2>. QED
    BY <1>2, <1>8, <2>1, <2>2
<1>11. IsSuffix(ms, mt)
  <2>1. Len(ms) <= Len(mt)
    BY <1>2, <1>7, <1>8, <1>9
  <2>. QED
    BY <1>8, <1>9, <1>10, <2>1, SuffixItems
<1>. QED
  BY <1>11 DEF MovedToEnd, ms, mt, rs, rt

\* The longest run whose shorter ones all are in F.
LEMMA LongestRun ==
  ASSUME NEW L \in Nat, NEW F
  PROVE  LET n == Max({m \in 0 .. L : \A k \in 0 .. (m - 1) : k \in F})
         IN  n \in 0 .. L /\ (n = L \/ n \notin F) /\ \A k \in 0 .. (n - 1) : k \in F
<1>. DEFINE R == {m \in 0 .. L : \A k \in 0 .. (m - 1) : k \in F}
            n == Max(R)
<1>1. IsFiniteSet(R) /\ R \subseteq Int
  <2>1. IsFiniteSet(0 .. L)
    BY FS_Interval
  <2>. QED
    BY <2>1, FS_Subset
<1>2. 0 \in R
  OBVIOUS
<1>3. n \in R /\ \A m \in R : m <= n
  <2>. HIDE DEF R
  <2>. QED
    BY <1>1, <1>2, MaxFacts
<1>. HIDE DEF n
<1>4. n \in 0 .. L /\ \A k \in 0 .. (n - 1) : k \in F
  BY <1>3
<1>5. ASSUME n # L, n \in F PROVE FALSE
  <2>1. n + 1 \in R
    BY <1>4, <1>5
  <2>. QED
    BY <1>3, <1>4, <2>1
<1>. QED
  BY <1>4, <1>5 DEF n

\* Sizes add up.
LEMMA BytesAdd ==
  ASSUME NEW S, IsFiniteSet(S), NEW g, \A x \in S : g[x] \in Nat
  PROVE  /\ BytesOf(g, {}) = 0
         /\ \A T \in SUBSET S : BytesOf(g, T) \in Nat
         /\ \A T \in SUBSET S : \A x \in T : BytesOf(g, T) = g[x] + BytesOf(g, T \ {x})
         /\ \A T \in SUBSET S : BytesOf(g, S) = BytesOf(g, T) + BytesOf(g, S \ T)
<1>2. \A T : BytesOf(g, T) = SumOver(g, T)
  BY DEF BytesOf, SumOver
<1>3. /\ SumOver(g, {}) = 0
      /\ \A T \in SUBSET S : SumOver(g, T) \in Nat
      /\ \A T \in SUBSET S : \A b \in T : SumOver(g, T) = g[b] + SumOver(g, T \ {b})
  BY SumOverFacts
<1>4. ASSUME NEW T \in SUBSET S
      PROVE  SumOver(g, S) = SumOver(g, T) + SumOver(g, S \ T)
  <2>. DEFINE U == S \ T
  <2>1. U \in SUBSET S /\ T \cap U = {} /\ T \cup U = S
    OBVIOUS
  <2>. HIDE DEF U
  <2>2. SumOver(g, T \cup U) = SumOver(g, T) + SumOver(g, U)
    BY <2>1, SumOverSplit
  <2>. QED
    BY <2>1, <2>2 DEF U
<1>. QED
  BY <1>2, <1>3, <1>4

\* Those of blocks that are in memory.
LEMMA SizesAdd ==
  ASSUME CacheTypeOK, IsFiniteSet(Resident)
  PROVE  /\ SizeOf({}) = 0
         /\ \A T \in SUBSET Resident : SizeOf(T) \in Nat
         /\ \A T \in SUBSET Resident : \A b \in T : SizeOf(T) = blockTable[b].size + SizeOf(T \ {b})
         /\ \A T \in SUBSET Resident : SizeOf(Resident) = SizeOf(T) + SizeOf(Resident \ T)
<1>. DEFINE g == BlockSize
<1>1. \A b \in Resident : g[b] = blockTable[b].size /\ g[b] \in Nat
  BY DEF CacheTypeOK, BlockSize
<1>2. \A T : SizeOf(T) = BytesOf(g, T)
  BY DEF SizeOf
<1>. HIDE DEF g
<1>3. /\ BytesOf(g, {}) = 0
      /\ \A T \in SUBSET Resident : BytesOf(g, T) \in Nat
      /\ \A T \in SUBSET Resident : \A x \in T : BytesOf(g, T) = g[x] + BytesOf(g, T \ {x})
      /\ \A T \in SUBSET Resident : BytesOf(g, Resident) = BytesOf(g, T) + BytesOf(g, Resident \ T)
  BY <1>1, BytesAdd
<1>4. SizeOf({}) = 0 /\ \A T \in SUBSET Resident : SizeOf(T) \in Nat
  BY <1>2, <1>3
<1>5. ASSUME NEW T \in SUBSET Resident, NEW b \in T
      PROVE  SizeOf(T) = blockTable[b].size + SizeOf(T \ {b})
  BY <1>1, <1>2, <1>3
<1>6. ASSUME NEW T \in SUBSET Resident
      PROVE  SizeOf(Resident) = SizeOf(T) + SizeOf(Resident \ T)
  BY <1>2, <1>3
<1>. QED
  BY <1>4, <1>5, <1>6

\* What stays as it is keeps its size.
LEMMA SizesStay ==
  ASSUME CacheTypeOK, IsFiniteSet(Resident), NEW T \in SUBSET Resident,
         T \subseteq DOMAIN blockTable', \A b \in T : blockTable'[b] = blockTable[b]
  PROVE  BytesOf(BlockSize', T) = SizeOf(T)
<1>. DEFINE g == BlockSize
            h == BlockSize'
<1>1. \A b \in T : g[b] = h[b] /\ g[b] \in Int
  BY DEF CacheTypeOK, BlockSize, Resident
<1>0. \A f : BytesOf(f, T) = SumOver(f, T)
  BY DEF BytesOf, SumOver
<1>2. SizeOf(T) = SumOver(g, T)
  BY <1>0 DEF SizeOf
<1>3. BytesOf(h, T) = SumOver(h, T)
  BY <1>0
<1>. HIDE DEF g, h
<1>4. IsFiniteSet(T)
  BY FS_Subset
<1>5. SumOver(g, T) = SumOver(h, T)
  BY <1>1, <1>4, SumOverSame
<1>. QED
  BY <1>2, <1>3, <1>5 DEF h

\* The first places and the others.
LEMMA OldestAndRest ==
  ASSUME CacheTypeOK, ToSet(accessed) = Resident, NEW n \in 0 .. Len(accessed)
  PROVE  LET rest == SubSeq(accessed, n + 1, Len(accessed))
         IN  /\ rest \in Seq(Blocks) /\ IsInjective(rest) /\ ToSet(rest) = Resident \ Oldest(n)
             /\ Oldest(n) \subseteq Resident /\ (n = Len(accessed) => Oldest(n) = Resident)
<1>. DEFINE a == SubSeq(accessed, 1, n)
            rest == SubSeq(accessed, n + 1, Len(accessed))
<1>1. /\ rest \in Seq(Blocks) /\ IsInjective(rest) /\ Len(rest) = Len(accessed) - n
      /\ ToSet(a) \cap ToSet(rest) = {} /\ ToSet(a) \cup ToSet(rest) = ToSet(accessed)
  BY Split DEF CacheTypeOK
<1>2. n = Len(accessed) => rest = << >>
  BY DEF CacheTypeOK
<1>3. ToSet(<< >>) = {}
  BY DEF ToSet
<1>. HIDE DEF a, rest
<1>4. ToSet(rest) = Resident \ ToSet(a) /\ ToSet(a) \subseteq Resident
      /\ (n = Len(accessed) => ToSet(a) = Resident)
  BY <1>1, <1>2, <1>3
<1>. QED
  BY <1>1, <1>4 DEF a, rest, Oldest

\* Blocks are as many as places in their order.
LEMMA ResidentFinite ==
  ASSUME CacheTypeOK, ToSet(accessed) = Resident
  PROVE  IsFiniteSet(Resident)
  BY LenOfSet DEF CacheTypeOK

LEMMA EmptySuffix == IsSuffix(<< >>, << >>)
<1>. DEFINE e == << >>
<1>1. e \in Seq(Blocks) /\ Len(e) = 0
  OBVIOUS
<1>. HIDE DEF e
<1>2. Len(e) <= Len(e) /\ \A i \in 1 .. Len(e) : e[i] = e[Len(e) - Len(e) + i]
  BY <1>1
<1>3. IsSuffix(e, e)
  BY <1>1, <1>2, SuffixItems
<1>. QED
  BY <1>3 DEF e

LEMMA CacheInvInit == CacheInit => CacheInvariant
<1>. SUFFICES ASSUME CacheInit PROVE CacheInvariant
  OBVIOUS
<1>0. MaxCacheSize \in Nat
  BY WindowsCacheAssumption
<1>1. /\ Resident = {} /\ accessed = << >> /\ recent = << >> /\ usedBytes = 0 /\ dirtyFlag = {}
      /\ dirtyIds = {} /\ DOMAIN cacheFiles = {} /\ DOMAIN latest = Blocks
  BY DEF CacheInit, Resident
<1>2. IsInjective(<< >>) /\ ToSet(<< >>) = {} /\ << >> \in Seq(Blocks)
  BY DEF IsInjective, ToSet
<1>3. CacheTypeOK
  BY <1>1, <1>2 DEF CacheTypeOK
<1>4. IsFiniteSet(Resident)
  BY <1>1, FS_EmptySet
<1>5. BytesExact
  BY <1>0, <1>1, <1>3, <1>4, SizesAdd DEF BytesExact
<1>6. IsSuffix(<< >>, << >>)
  BY EmptySuffix
<1>7. KeptAreRecent
  BY <1>1, <1>2, <1>6 DEF KeptAreRecent
<1>. QED
  BY <1>1, <1>3, <1>5, <1>7 DEF CacheInvariant, NothingToRead, WindowsCacheExact, ReadsAreLatest

\* No file ever gets the name of a block.
LEMMA FilesMisnamed ==
  ASSUME NothingToRead, NEW ids, cacheFiles' \in {cacheFiles, WriteBlocks(ids)}
  PROVE  NothingToRead'
<1>. DEFINE temporary == <<".tmp">>
            saved == Append(temporary, ".npy")
<1>1. temporary # saved /\ saved # <<".npy">> /\ Last(temporary) # ".npy"
  <2>1. Len(temporary) = 1 /\ temporary[1] = ".tmp" /\ Len(saved) = 2 /\ Len(<<".npy">>) = 1
    OBVIOUS
  <2>. HIDE DEF temporary, saved
  <2>2. Last(temporary) = ".tmp"
    BY <2>1 DEF Last
  <2>3. temporary # saved /\ saved # <<".npy">>
    BY <2>1
  <2>. QED
    BY <2>2, <2>3
<1>2. \A b : WriteBlock(b) = <<b, saved>>
  <2>1. \A b : NumpySave(<<b, temporary>>) = <<b, saved>>
    BY <1>1 DEF NumpySave
  <2>2. \A b : WriteBlock(b) = IF NumpySave(<<b, temporary>>) = <<b, temporary>> THEN <<b, <<".npy">>>>
                                ELSE NumpySave(<<b, temporary>>)
    BY DEF WriteBlock
  <2>. HIDE DEF temporary, saved
  <2>3. \A b : <<b, saved>> # <<b, temporary>>
    BY <1>1
  <2>4. ASSUME NEW b PROVE WriteBlock(b) = <<b, saved>>
    <3>1. NumpySave(<<b, temporary>>) = <<b, saved>> /\ NumpySave(<<b, temporary>>) # <<b, temporary>>
      BY <2>1, <2>3
    <3>2. WriteBlock(b) = NumpySave(<<b, temporary>>)
      BY <2>2, <3>1, Zenon
    <3>. QED
      BY <3>1, <3>2
  <2>. QED
    BY <2>4
<1>. HIDE DEF temporary, saved
<1>3. DOMAIN WriteBlocks(ids) = DOMAIN cacheFiles \cup {WriteBlock(b) : b \in ids}
  BY DEF WriteBlocks
<1>. QED
  BY <1>1, <1>2, <1>3 DEF NothingToRead

\* The order of use and the history of it.
LEMMA MovedInOrder ==
  ASSUME NEW s \in Seq(Blocks), IsInjective(s), NEW b \in Blocks
  PROVE  /\ MovedToEnd(s, b) \in Seq(Blocks) /\ IsInjective(MovedToEnd(s, b))
         /\ ToSet(MovedToEnd(s, b)) = ToSet(s) \cup {b}
  BY MoveLast DEF MovedToEnd

\* The first n go, and another state of the memory has what is left.
LEMMA EvictStep ==
  ASSUME CacheInvariant, 2 * usedBytes > MaxCacheSize,
         NEW n \in 0 .. Len(accessed), Evict(n),
         n = Len(accessed) \/ 2 * (usedBytes - SizeOf(Oldest(n))) <= MaxCacheSize,
         UNCHANGED <<indexed, cacheFiles, puts, recent, latest>>
  PROVE  CacheInvariant'
<1>. DEFINE rest == SubSeq(accessed, n + 1, Len(accessed))
            V == Oldest(n)
<1>0. CacheTypeOK /\ ToSet(accessed) = Resident /\ MaxCacheSize \in Nat /\ IsSuffix(accessed, recent)
  BY WindowsCacheAssumption DEF CacheInvariant, WindowsCacheExact, KeptAreRecent
<1>1. IsFiniteSet(Resident)
  BY <1>0, ResidentFinite
<1>2. /\ rest \in Seq(Blocks) /\ IsInjective(rest) /\ ToSet(rest) = Resident \ V
      /\ V \subseteq Resident /\ (n = Len(accessed) => V = Resident)
  BY <1>0, OldestAndRest
<1>3. IsSuffix(rest, recent)
  BY <1>0, SuffixEnd DEF CacheTypeOK
<1>4. /\ accessed' = rest /\ usedBytes' = usedBytes - SizeOf(V)
      /\ blockTable' = DropKeys(blockTable, V) /\ dirtyFlag' = dirtyFlag \ V /\ dirtyIds' = dirtyIds \ V
  BY DEF Evict
<1>. HIDE DEF rest
<1>5. /\ Resident' = Resident \ V
      /\ \A b \in Resident \ V : blockTable'[b] = blockTable[b]
  BY <1>4 DEF DropKeys, Resident
<1>6. BytesOf(BlockSize', Resident') = SizeOf(Resident \ V)
  <2>. DEFINE T == Resident \ V
  <2>1. T \in SUBSET Resident /\ T \subseteq DOMAIN blockTable' /\ \A b \in T : blockTable'[b] = blockTable[b]
    BY <1>5 DEF Resident
  <2>. HIDE DEF T
  <2>2. BytesOf(BlockSize', T) = SizeOf(T)
    BY <1>0, <1>1, <2>1, SizesStay
  <2>. QED
    BY <1>5, <2>2 DEF T
<1>7. SizeOf(Resident)' = SizeOf(Resident \ V)
  BY <1>6 DEF SizeOf
<1>8. /\ SizeOf(V) \in Nat /\ SizeOf(Resident \ V) \in Nat
      /\ SizeOf(Resident) = SizeOf(V) + SizeOf(Resident \ V)
      /\ (V = Resident => SizeOf(Resident \ V) = 0)
  <2>1. Resident \ V \in SUBSET Resident /\ (V = Resident => Resident \ V = {})
    OBVIOUS
  <2>. QED
    BY <1>0, <1>1, <1>2, <2>1, SizesAdd
<1>9. usedBytes = SizeOf(Resident)
  BY DEF CacheInvariant, WindowsCacheExact, BytesExact
<1>10. usedBytes' = SizeOf(Resident)' /\ usedBytes' \in Nat /\ usedBytes' <= MaxCacheSize
  <2>1. usedBytes' = SizeOf(Resident \ V)
    BY <1>4, <1>8, <1>9
  <2>2. CASE n = Len(accessed)
    BY <1>0, <1>2, <1>7, <1>8, <2>1, <2>2
  <2>3. CASE 2 * (usedBytes - SizeOf(V)) <= MaxCacheSize
    BY <1>0, <1>4, <1>7, <1>8, <2>1, <2>3
  <2>. QED
    BY <2>2, <2>3
<1>11. BytesExact'
  BY <1>10 DEF BytesExact
<1>12. CacheTypeOK'
  BY <1>0, <1>2, <1>4, <1>5, <1>10 DEF CacheTypeOK
<1>13. KeptAreRecent'
  BY <1>2, <1>3, <1>4, <1>5 DEF KeptAreRecent
<1>14. ReadsAreLatest'
  BY <1>4, <1>5 DEF CacheInvariant, WindowsCacheExact, ReadsAreLatest
<1>15. NothingToRead'
  BY DEF CacheInvariant, NothingToRead
<1>. QED
  BY <1>11, <1>12, <1>13, <1>14, <1>15 DEF CacheInvariant, WindowsCacheExact

LEMMA PressureStep ==
  ASSUME CacheInvariant, HandlePressure
  PROVE  CacheInvariant'
<1>. DEFINE F == {k \in 0 .. Len(accessed) : 2 * (usedBytes - SizeOf(Oldest(k))) > MaxCacheSize}
            n == Max({m \in 0 .. Len(accessed) : \A k \in 0 .. (m - 1) : k \in F})
            R == {m \in 0 .. Len(accessed) :
                    \A k \in 0 .. (m - 1) : 2 * (usedBytes - SizeOf(Oldest(k))) > MaxCacheSize}
<1>0. Len(accessed) \in Nat
  BY DEF CacheInvariant, CacheTypeOK
<1>1. {m \in 0 .. Len(accessed) : \A k \in 0 .. (m - 1) : k \in F} = R
  <2>1. \A m \in 0 .. Len(accessed) : \A k \in 0 .. (m - 1) :
          k \in F <=> 2 * (usedBytes - SizeOf(Oldest(k))) > MaxCacheSize
    BY <1>0
  <2>. HIDE DEF F
  <2>. QED
    BY <2>1
<1>2. n \in 0 .. Len(accessed) /\ (n = Len(accessed) \/ n \notin F)
  <2>. HIDE DEF F
  <2>. QED
    BY <1>0, LongestRun
<1>3. Evict(n) /\ 2 * usedBytes > MaxCacheSize /\ UNCHANGED <<indexed, cacheFiles, puts, recent, latest>>
  BY <1>1 DEF HandlePressure
<1>. HIDE DEF n
<1>4. n = Len(accessed) \/ 2 * (usedBytes - SizeOf(Oldest(n))) <= MaxCacheSize
  <2>1. MaxCacheSize \in Nat /\ usedBytes \in Nat
    BY WindowsCacheAssumption DEF CacheInvariant, CacheTypeOK
  <2>2. IsFiniteSet(Resident) /\ Oldest(n) \in SUBSET Resident
    BY <1>2, ResidentFinite, OldestAndRest DEF CacheInvariant, WindowsCacheExact, KeptAreRecent
  <2>3. SizeOf(Oldest(n)) \in Nat
    BY <2>2, SizesAdd DEF CacheInvariant
  <2>. QED
    BY <1>2, <2>1, <2>3
<1>. QED
  BY <1>2, <1>3, <1>4, EvictStep

LEMMA PutStep ==
  ASSUME CacheInvariant, NEW b \in Blocks, NEW size \in Sizes, PutBlock(b, size)
  PROVE  CacheInvariant'
<1>. DEFINE toFree == size - (MaxCacheSize - usedBytes)
            n == ToEvict(size)
            V == Oldest(n)
            rest == SubSeq(accessed, n + 1, Len(accessed))
            data == [size |-> size, put |-> puts + 1]
            K == (Resident \ V) \ {b}
<1>0. /\ CacheTypeOK /\ ToSet(accessed) = Resident /\ MaxCacheSize \in Nat /\ size \in Nat
      /\ IsSuffix(accessed, recent) /\ usedBytes \in Nat /\ Len(accessed) \in Nat
  BY WindowsCacheAssumption DEF CacheInvariant, CacheTypeOK, WindowsCacheExact, KeptAreRecent
<1>1. IsFiniteSet(Resident)
  BY <1>0, ResidentFinite
<1>2. n \in 0 .. Len(accessed) /\ (n = Len(accessed) \/ ~(SizeOf(Oldest(n)) < toFree))
  <2>. DEFINE F == {k \in 0 .. Len(accessed) : SizeOf(Oldest(k)) < toFree}
              R == {m \in 0 .. Len(accessed) : \A k \in 0 .. (m - 1) : SizeOf(Oldest(k)) < toFree}
  <2>1. {m \in 0 .. Len(accessed) : \A k \in 0 .. (m - 1) : k \in F} = R
    <3>1. \A m \in 0 .. Len(accessed) : \A k \in 0 .. (m - 1) :
            k \in F <=> SizeOf(Oldest(k)) < toFree
      BY <1>0
    <3>. HIDE DEF F
    <3>. QED
      BY <3>1
  <2>2. n = Max(R)
    BY DEF ToEvict
  <2>3. Max(R) \in 0 .. Len(accessed) /\ (Max(R) = Len(accessed) \/ Max(R) \notin F)
    <3>. HIDE DEF F, R
    <3>. QED
      BY <1>0, <2>1, LongestRun, ZenonT(40)
  <2>. HIDE DEF n, R
  <2>. QED
    BY <2>2, <2>3
<1>3. /\ rest \in Seq(Blocks) /\ IsInjective(rest) /\ ToSet(rest) = Resident \ V
      /\ V \subseteq Resident /\ (n = Len(accessed) => V = Resident)
  <2>. HIDE DEF n
  <2>. QED
    BY <1>0, <1>2, OldestAndRest
<1>4. IsSuffix(rest, recent)
  <2>. HIDE DEF n
  <2>. QED
    BY <1>0, <1>2, SuffixEnd DEF CacheTypeOK
<1>5. /\ blockTable' = SetKey(DropKeys(blockTable, V), b, data) /\ usedBytes' = UsedAfter(V, b, data)
      /\ accessed' = MovedToEnd(rest, b) /\ dirtyFlag' = dirtyFlag \ (V \cup {b})
      /\ dirtyIds' = dirtyIds \ V /\ recent' = MovedToEnd(recent, b)
      /\ latest' = [latest EXCEPT ![b] = data] /\ cacheFiles' = WriteBlocks(V \cap dirtyFlag)
  BY DEF PutBlock
<1>a. data.size = size
  OBVIOUS
<1>. HIDE DEF n, V, rest, data, toFree
<1>6. /\ Resident' = (Resident \ V) \cup {b}
      /\ blockTable'[b] = data
      /\ \A c \in K : blockTable'[c] = blockTable[c]
  BY <1>5 DEF DropKeys, SetKey, Resident
<1>7. BytesOf(BlockSize', K) = SizeOf(K)
  <2>1. K \in SUBSET Resident /\ K \subseteq DOMAIN blockTable' /\ \A c \in K : blockTable'[c] = blockTable[c]
    BY <1>6 DEF Resident
  <2>. HIDE DEF K
  <2>. QED
    BY <1>0, <1>1, <2>1, SizesStay
<1>8. CacheTypeOK' /\ IsFiniteSet(Resident') => BytesOf(BlockSize', Resident') = size + SizeOf(K)
  <2>. SUFFICES ASSUME CacheTypeOK', IsFiniteSet(Resident')
                PROVE  BytesOf(BlockSize', Resident') = size + SizeOf(K)
    OBVIOUS
  <2>. DEFINE g == BlockSize'
              R == Resident'
  <2>1. \A c \in R : g[c] = blockTable'[c].size /\ g[c] \in Nat
    BY DEF CacheTypeOK, BlockSize
  <2>2. b \in R /\ R \ {b} = K /\ IsFiniteSet(R)
    BY <1>6
  <2>3. g[b] = size
    BY <1>6, <1>a, <2>1, <2>2
  <2>. HIDE DEF g, R, K
  <2>4. R \in SUBSET R
    OBVIOUS
  <2>5. BytesOf(g, R) = g[b] + BytesOf(g, R \ {b})
    BY <2>1, <2>2, <2>4, BytesAdd
  <2>. QED
    BY <1>7, <2>2, <2>3, <2>5 DEF g, R
<1>9. /\ SizeOf(V) \in Nat /\ SizeOf(K) \in Nat
      /\ SizeOf(Resident) = SizeOf(V) + SizeOf(Resident \ V)
      /\ SizeOf(Resident \ V) = SizeOf(K) + (IF b \in Resident \ V THEN blockTable[b].size ELSE 0)
      /\ (V = Resident => SizeOf(Resident \ V) = 0)
      /\ (b \in Resident \ V => blockTable[b].size \in Nat)
      /\ (V = Resident => K = {}) /\ SizeOf({}) = 0
  <2>1. /\ Resident \ V \in SUBSET Resident /\ (V = Resident => Resident \ V = {})
        /\ K \in SUBSET Resident /\ V \in SUBSET Resident
        /\ (b \notin Resident \ V => K = Resident \ V)
        /\ (V = Resident => K = {})
    BY <1>3
  <2>2. K = (Resident \ V) \ {b}
    OBVIOUS
  <2>3. b \in Resident \ V => blockTable[b].size \in Nat
    BY <1>0 DEF CacheTypeOK
  <2>. HIDE DEF K
  <2>4. /\ SizeOf(V) \in Nat /\ SizeOf(K) \in Nat /\ SizeOf({}) = 0
        /\ SizeOf(Resident) = SizeOf(V) + SizeOf(Resident \ V)
        /\ (b \in Resident \ V => SizeOf(Resident \ V) = blockTable[b].size + SizeOf(K))
    BY <1>0, <1>1, <2>1, <2>2, SizesAdd
  <2>. QED
    BY <2>1, <2>3, <2>4
<1>10. usedBytes = SizeOf(Resident)
  BY DEF CacheInvariant, WindowsCacheExact, BytesExact
<1>11. usedBytes' = size + SizeOf(K) /\ usedBytes' \in Nat
  <2>1. usedBytes' = usedBytes - SizeOf(V) + size - (IF b \in Resident \ V THEN blockTable[b].size ELSE 0)
    BY <1>5, <1>a DEF UsedAfter
  <2>. DEFINE old == IF b \in Resident \ V THEN blockTable[b].size ELSE 0
              v == SizeOf(V)
              k == SizeOf(K)
  <2>2. old \in Nat /\ v \in Nat /\ k \in Nat /\ usedBytes = v + (k + old) /\ usedBytes' = usedBytes - v + size - old
    <3>. HIDE DEF K
    <3>. QED
      BY <1>9, <1>10, <2>1
  <2>3. usedBytes' = size + k
    <3>1. size \in Nat
      BY <1>0
    <3>2. ASSUME NEW o \in Nat, NEW w \in Nat, NEW j \in Nat, NEW s \in Nat
          PROVE  w + (j + o) - w + s - o = s + j
      OBVIOUS
    <3>. HIDE DEF old, v, k
    <3>3. v + (k + old) - v + size - old = size + k
      BY ONLY <2>2, <3>1, <3>2
    <3>. QED
      BY ONLY <2>2, <3>3
  <2>. HIDE DEF old, v, k
  <2>4. size \in Nat /\ k \in Nat
    BY <1>0, <2>2
  <2>5. size + k \in Nat
    BY ONLY <2>4
  <2>. QED
    BY ONLY <2>3, <2>5 DEF k
<1>12. /\ accessed' \in Seq(Blocks) /\ IsInjective(accessed') /\ ToSet(accessed') = Resident'
       /\ recent' \in Seq(Blocks) /\ IsInjective(recent')
  BY <1>0, <1>3, <1>5, <1>6, MovedInOrder DEF CacheTypeOK
<1>13. CacheTypeOK'
  <2>1. \A c \in Resident' : blockTable'[c].size \in Nat
    <3>1. \A c \in K : blockTable'[c].size \in Nat
      BY <1>0, <1>6 DEF CacheTypeOK
    <3>. QED
      BY <1>0, <1>6, <1>a, <3>1
  <2>2. Resident' \subseteq Blocks /\ DOMAIN latest' = Blocks
    BY <1>0, <1>5, <1>6 DEF CacheTypeOK
  <2>. QED
    BY <1>11, <1>12, <2>1, <2>2 DEF CacheTypeOK
<1>14. IsFiniteSet(Resident')
  BY <1>12, LenOfSet
<1>15. BytesExact'
  <2>1. usedBytes' = SizeOf(Resident)'
    BY <1>8, <1>11, <1>13, <1>14 DEF SizeOf
  <2>2. CASE n = Len(accessed)
    <3>1. Resident' = {b}
      BY <1>3, <1>6, <2>2
    <3>. QED
      BY <2>1, <3>1, FS_Singleton DEF BytesExact
  <2>3. CASE ~(SizeOf(V) < toFree)
    <3>1. usedBytes' <= usedBytes - SizeOf(V) + size
      <4>. DEFINE old == IF b \in Resident \ V THEN blockTable[b].size ELSE 0
                  v == SizeOf(V)
                  k == SizeOf(K)
      <4>1. old \in Nat /\ v \in Nat /\ k \in Nat /\ usedBytes = v + (k + old) /\ usedBytes' = size + k
        <5>. HIDE DEF K
        <5>. QED
          BY <1>9, <1>10, <1>11
      <4>2. usedBytes' <= usedBytes - v + size
        <5>. HIDE DEF old, v, k
        <5>. QED
          BY <1>0, <4>1
      <4>. QED
        BY <4>2
    <3>2. SizeOf(V) >= size - (MaxCacheSize - usedBytes)
      BY <1>0, <1>9, <2>3 DEF toFree
    <3>3. usedBytes' <= MaxCacheSize
      BY <1>0, <1>9, <1>11, <3>1, <3>2
    <3>. QED
      BY <2>1, <3>3 DEF BytesExact
  <2>. QED
    BY <1>2, <2>2, <2>3 DEF V
<1>16. KeptAreRecent'
  <2>1. IsSuffix(accessed', recent')
    BY <1>0, <1>3, <1>4, <1>5, SuffixMoved DEF CacheTypeOK
  <2>. QED
    BY <1>12, <2>1 DEF KeptAreRecent
<1>17. ReadsAreLatest'
  <2>1. \A c \in Blocks : latest'[c] = IF c = b THEN data ELSE latest[c]
    BY <1>0, <1>5 DEF CacheTypeOK
  <2>2. \A c \in Resident' : blockTable'[c] = latest'[c]
    BY <1>0, <1>6, <2>1 DEF CacheInvariant, WindowsCacheExact, ReadsAreLatest, CacheTypeOK
  <2>3. dirtyFlag' \subseteq dirtyIds' /\ dirtyIds' \subseteq Resident'
    BY <1>5, <1>6 DEF CacheInvariant, WindowsCacheExact, ReadsAreLatest
  <2>. QED
    BY <2>2, <2>3 DEF ReadsAreLatest
<1>18. NothingToRead'
  BY <1>5, FilesMisnamed DEF CacheInvariant
<1>. QED
  BY <1>13, <1>15, <1>16, <1>17, <1>18 DEF CacheInvariant, WindowsCacheExact

\* Steps that leave the blocks in memory alone.
LEMMA SameMemory ==
  ASSUME CacheInvariant, blockTable' = blockTable, usedBytes' = usedBytes, latest' = latest,
         NothingToRead', KeptAreRecent', dirtyFlag' \subseteq dirtyIds', dirtyIds' \subseteq Resident,
         accessed' \in Seq(Blocks), IsInjective(accessed'), recent' \in Seq(Blocks), IsInjective(recent')
  PROVE  CacheInvariant'
<1>1. Resident' = Resident /\ SizeOf(Resident)' = SizeOf(Resident)
  BY DEF Resident, SizeOf, BlockSize
<1>2. BytesExact' /\ CacheTypeOK' /\ ReadsAreLatest'
  BY <1>1 DEF CacheInvariant, WindowsCacheExact, BytesExact, CacheTypeOK, ReadsAreLatest
<1>. QED
  BY <1>2 DEF CacheInvariant, WindowsCacheExact

LEMMA CacheInvStep == CacheInvariant /\ [CacheNext]_cacheVars => CacheInvariant'
<1>. SUFFICES ASSUME CacheInvariant, [CacheNext]_cacheVars PROVE CacheInvariant'
  OBVIOUS
<1>0. CacheTypeOK /\ NothingToRead /\ KeptAreRecent /\ ReadsAreLatest
  BY DEF CacheInvariant, WindowsCacheExact
<1>1. ASSUME NEW b \in Blocks, NEW size \in Sizes, PutBlock(b, size) PROVE CacheInvariant'
  BY <1>1, PutStep
<1>2. ASSUME NEW b \in Blocks, GetBlock(b) PROVE CacheInvariant'
  <2>1. /\ accessed' \in Seq(Blocks) /\ IsInjective(accessed') /\ ToSet(accessed') = ToSet(accessed) \cup {b}
        /\ recent' \in Seq(Blocks) /\ IsInjective(recent')
    BY <1>0, <1>2, MovedInOrder DEF GetBlock, CacheTypeOK
  <2>2. IsSuffix(accessed', recent')
    BY <1>0, <1>2, SuffixMoved DEF GetBlock, CacheTypeOK, KeptAreRecent
  <2>3. KeptAreRecent'
    BY <1>0, <1>2, <2>1, <2>2 DEF KeptAreRecent, GetBlock, Resident
  <2>4. NothingToRead'
    BY <1>0, <1>2 DEF GetBlock, NothingToRead
  <2>. QED
    BY <1>0, <1>2, <2>1, <2>3, <2>4, SameMemory DEF GetBlock, ReadsAreLatest
<1>3. ASSUME NEW b \in Blocks, GetFromDisk(b) PROVE CacheInvariant'
  <2>1. <<b, <<".npy">>>> \notin DOMAIN cacheFiles
    BY <1>0 DEF NothingToRead
  <2>2. UNCHANGED cacheVars
    BY <1>3, <2>1 DEF GetFromDisk, cacheVars
  <2>3. NothingToRead' /\ KeptAreRecent'
    BY <1>0, <2>2 DEF cacheVars, NothingToRead, KeptAreRecent, Resident
  <2>. QED
    BY <1>0, <2>2, <2>3, SameMemory DEF cacheVars, CacheTypeOK, ReadsAreLatest
<1>4. ASSUME NEW b \in Blocks, MarkDirty(b) PROVE CacheInvariant'
  <2>1. NothingToRead' /\ KeptAreRecent'
    BY <1>0, <1>4 DEF MarkDirty, NothingToRead, KeptAreRecent, Resident
  <2>. QED
    BY <1>0, <1>4, <2>1, SameMemory DEF MarkDirty, CacheTypeOK, ReadsAreLatest
<1>5. ASSUME FlushCache PROVE CacheInvariant'
  <2>1. KeptAreRecent'
    BY <1>0, <1>5 DEF FlushCache, KeptAreRecent, Resident
  <2>2. NothingToRead'
    BY <1>0, <1>5, FilesMisnamed DEF FlushCache
  <2>. QED
    BY <1>0, <1>5, <2>1, <2>2, SameMemory DEF FlushCache, CacheTypeOK, ReadsAreLatest
<1>6. ASSUME ClearCache PROVE CacheInvariant'
  <2>1. /\ Resident' = {} /\ accessed' = << >> /\ recent' = << >> /\ usedBytes' = 0 /\ dirtyFlag' = {}
        /\ dirtyIds' = {} /\ latest' = latest
    BY <1>6 DEF ClearCache, Resident
  <2>2. IsInjective(<< >>) /\ ToSet(<< >>) = {} /\ << >> \in Seq(Blocks) /\ IsSuffix(<< >>, << >>)
    BY EmptySuffix DEF IsInjective, ToSet
  <2>3. CacheTypeOK'
    BY <1>0, <2>1, <2>2 DEF CacheTypeOK
  <2>4. IsFiniteSet(Resident')
    BY <2>1, FS_EmptySet
  <2>5. BytesExact'
    <3>1. MaxCacheSize \in Nat
      BY WindowsCacheAssumption
    <3>2. BytesOf(BlockSize', {}) = 0
      BY FS_EmptySet, BytesAdd
    <3>3. SizeOf(Resident)' = 0
      BY <2>1, <3>2 DEF SizeOf
    <3>. QED
      BY <2>1, <3>1, <3>3 DEF BytesExact
  <2>6. KeptAreRecent' /\ ReadsAreLatest'
    BY <2>1, <2>2 DEF KeptAreRecent, ReadsAreLatest
  <2>7. NothingToRead'
    BY <1>0, <1>6, FilesMisnamed DEF ClearCache
  <2>. QED
    BY <2>3, <2>5, <2>6, <2>7 DEF CacheInvariant, WindowsCacheExact
<1>7. ASSUME HandlePressure PROVE CacheInvariant'
  BY <1>7, PressureStep
<1>8. ASSUME UNCHANGED cacheVars PROVE CacheInvariant'
  <2>1. NothingToRead' /\ KeptAreRecent'
    BY <1>0, <1>8 DEF cacheVars, NothingToRead, KeptAreRecent, Resident
  <2>. QED
    BY <1>0, <1>8, <2>1, SameMemory DEF cacheVars, CacheTypeOK, ReadsAreLatest
<1>. QED
  BY <1>1, <1>2, <1>3, <1>4, <1>5, <1>6, <1>7, <1>8 DEF CacheNext

LEMMA CacheIsExact == CacheSpec => []WindowsCacheExact
<1>1. CacheInvariant => WindowsCacheExact
  BY DEF CacheInvariant
<1>. QED
  BY <1>1, CacheInvInit, CacheInvStep, PTL DEF CacheSpec
-----------------------------------------------------------------------------
(***************************************************************************)
(* ModelsTracked, for any number of models and threads.                    *)
(*                                                                         *)
(* LimitKept is a promise of the threads that enforce the limit: as long as*)
(* one of them is about to look again, or what it raised broke that off,   *)
(* the table may be too long (LimitEnforced).  LeaksExplained needs that a model is explained before *)
(* it leaves the table, from the step that begins its eviction on          *)
(* (DropsExplained).                                                       *)
(***************************************************************************)
CallerPlaces ==
    {"absent", "idle", "register", "enforce", "callback", "join", "clear", "select", "evict",
     "freeing", "forget"}
WatcherPlaces ==
    {"absent", "off", "watch", "pressure", "ended", "select", "evict", "freeing", "forget"}
InEviction == {"select", "evict", "freeing", "forget"}

\* The values that the table and the threads have.
TableTypeOK ==
    /\ byAccess \in Seq(WinModels) /\ IsInjective(byAccess)
    /\ at \in [Threads -> CallerPlaces \cup WatcherPlaces]
    /\ target \in [Callers -> WinModels \cup {NoModel}]
    /\ victim \in [Threads -> WinModels \cup {NoModel}]
    /\ toEvict \in [Callers -> Seq(WinModels)]
    /\ brokeOff \in BOOLEAN
    /\ dropped \in [WinModels -> {"never", "unfreed", "freed", "registered"}]

\* Where a thread may be with what it holds.
ThreadsPlaced ==
    /\ \A w \in Callers :
         /\ at[w] \in CallerPlaces
         /\ at[w] = "register" => target[w] \in WinModels
         /\ toEvict[w] = << >> => at[w] # "clear"
         /\ toEvict[w] # << >> => at[w] \in InEviction \cup {"clear"} /\ at[w] # "select"
    /\ \A x \in Watchers : at[x] \in WatcherPlaces
    /\ \A x \in Threads : at[x] \in InEviction => victim[x] \in WinModels

LooksAgain(w) == at[w] = "enforce" \/ (at[w] \in InEviction /\ toEvict[w] = << >>)
LimitEnforced == (\A w \in Callers : ~LooksAgain(w)) => Len(byAccess) <= MaxModels \/ brokeOff

BeingDropped(m) == \E x \in Threads : at[x] \in {"freeing", "forget"} /\ victim[x] = m
Registering(m) == \E w \in Callers : at[w] = "register" /\ target[w] = m
LeakExplained(m) == Registering(m) \/ dropped[m] \in {"unfreed", "registered"}

DropsExplained ==
    /\ inMemory \subseteq WinModels
    /\ \A m \in WinModels :
         /\ BeingDropped(m) => dropped[m] # "never"
         /\ m \in inMemory /\ (m \notin Registered \/ BeingDropped(m)) => LeakExplained(m)

TableInv ==
    TableTypeOK /\ ThreadsPlaced /\ LimitEnforced /\ DropsExplained /\ isPinned \subseteq Registered

LEMMA TableInvImplies == TableInv => ModelsTracked
<1>. SUFFICES ASSUME TableInv PROVE ModelsTracked
  OBVIOUS
<1>1. LimitKept
  BY DEF TableInv, LimitEnforced, LimitKept, LooksAgain, InEviction, ThreadsPlaced
<1>2. LeaksExplained
  BY DEF TableInv, DropsExplained, LeaksExplained, LeakExplained, Registering
<1>. QED
  BY <1>1, <1>2 DEF TableInv, ModelsTracked

LEMMA TableInvInit == WindowsModelsInit => TableInv
<1>. SUFFICES ASSUME WindowsModelsInit PROVE TableInv
  OBVIOUS
<1>0. MaxModels \in Nat /\ Callers \cap Watchers = {}
  BY WindowsModelsAssumption
<1>1. /\ \A x \in Threads : at[x] \in {"absent", "idle", "off"}
      /\ \A w \in Callers : at[w] \in {"absent", "idle"}
      /\ \A x \in Watchers : at[x] \in {"absent", "off"}
      /\ at \in [Threads -> {"absent", "idle", "off"}]
  BY <1>0 DEF WindowsModelsInit, Threads
<1>2. byAccess = << >> /\ Registered = {} /\ Len(byAccess) = 0 /\ IsInjective(byAccess)
  BY DEF WindowsModelsInit, Registered, ToSet, IsInjective
<1>3. TableTypeOK
  <2>1. at \in [Threads -> CallerPlaces \cup WatcherPlaces]
    BY <1>1 DEF CallerPlaces, WatcherPlaces
  <2>2. /\ target = [w \in Callers |-> NoModel] /\ victim = [x \in Threads |-> NoModel]
        /\ toEvict = [w \in Callers |-> << >>]
        /\ brokeOff = FALSE /\ dropped = [m \in WinModels |-> "never"]
    BY DEF WindowsModelsInit
  <2>3. << >> \in Seq(WinModels)
    OBVIOUS
  <2>4. byAccess \in Seq(WinModels) /\ toEvict \in [Callers -> Seq(WinModels)]
    BY <1>2, <2>2, <2>3
  <2>5. /\ target \in [Callers -> WinModels \cup {NoModel}]
        /\ victim \in [Threads -> WinModels \cup {NoModel}]
        /\ dropped \in [WinModels -> {"never", "unfreed", "freed", "registered"}]
    BY <2>2
  <2>. QED
    BY <1>2, <2>1, <2>2, <2>4, <2>5 DEF TableTypeOK
<1>4. ThreadsPlaced
  BY <1>1 DEF WindowsModelsInit, ThreadsPlaced, CallerPlaces, WatcherPlaces, InEviction
<1>5. LimitEnforced
  BY <1>0, <1>2 DEF LimitEnforced
<1>6. DropsExplained
  BY <1>1 DEF WindowsModelsInit, DropsExplained, BeingDropped
<1>. QED
  BY <1>2, <1>3, <1>4, <1>5, <1>6 DEF TableInv, WindowsModelsInit

\* The model to evict is one of the table.
LEMMA CandidateRegistered ==
  ASSUME byAccess \in Seq(WinModels), Len(byAccess) > 0
  PROVE  Candidate \in WinModels
<1>. DEFINE free == {i \in DOMAIN byAccess : byAccess[i] \notin isPinned}
<1>1. Len(byAccess) \in Nat /\ DOMAIN byAccess = 1 .. Len(byAccess)
  OBVIOUS
<1>2. IsFiniteSet(free) /\ free \subseteq Int
  <2>1. IsFiniteSet(1 .. Len(byAccess))
    BY <1>1, FS_Interval
  <2>. QED
    BY <1>1, <2>1, FS_Subset
<1>3. free # {} => Min(free) \in free
  BY <1>2, MinFacts
<1>4. (IF free # {} THEN Min(free) ELSE 1) \in DOMAIN byAccess
  BY <1>1, <1>3
<1>. HIDE DEF free
<1>5. byAccess[IF free # {} THEN Min(free) ELSE 1] \in WinModels
  BY <1>4
<1>. QED
  BY <1>5 DEF Candidate, free

\* The steps that leave the table and what explains it alone, but for where the
\* threads are.
LEMMA StepPlaces ==
  ASSUME TableTypeOK, ThreadsPlaced, [WindowsModelsNext]_winVars
  PROVE  TableTypeOK' /\ ThreadsPlaced'
<1>. USE DEF TableTypeOK, ThreadsPlaced, Threads, InEviction
<1>0. MaxModels \in Nat /\ MinModels \in Nat /\ Callers \cap Watchers = {} /\ Len(byAccess) \in Nat
  BY WindowsModelsAssumption
<1>a. ASSUME NEW x \in Threads, at[x] \in InEviction, toEvict' = toEvict,
             NEW place \in {AfterEviction(x), "freeing", "forget"}
      PROVE  /\ x \in Callers => /\ place \in CallerPlaces
                                 /\ toEvict'[x] = << >> => place # "clear"
                                 /\ toEvict'[x] # << >> => place \in InEviction \cup {"clear"}
                                 /\ place # "register"
             /\ x \in Watchers => place \in WatcherPlaces
             /\ place \notin {"evict", "select"}
  BY <1>0, <1>a DEF AfterEviction, CallerPlaces, WatcherPlaces
<1>b. ASSUME NEW m \in WinModels
      PROVE  /\ RemoveFirst(byAccess, m) \in Seq(WinModels) /\ IsInjective(RemoveFirst(byAccess, m))
             /\ Append(RemoveFirst(byAccess, m), m) \in Seq(WinModels)
             /\ IsInjective(Append(RemoveFirst(byAccess, m), m))
  BY RemoveOne, MoveLast
<1>c. ASSUME NEW x \in Threads, RaiseOut(x), byAccess' \in Seq(WinModels), IsInjective(byAccess'),
             dropped' = dropped
      PROVE  TableTypeOK' /\ ThreadsPlaced'
  <2>1. /\ at' = [at EXCEPT ![x] = IF x \in Watchers THEN "watch" ELSE "idle"]
        /\ victim' = [victim EXCEPT ![x] = NoModel]
        /\ target' = [w \in Callers |-> IF w = x THEN NoModel ELSE target[w]]
        /\ toEvict' = [w \in Callers |-> IF w = x THEN << >> ELSE toEvict[w]]
        /\ brokeOff' \in BOOLEAN
    BY <1>c DEF RaiseOut, GoTo
  <2>2. TableTypeOK'
    BY <1>0, <1>c, <2>1 DEF CallerPlaces, WatcherPlaces
  <2>. QED
    BY <1>0, <2>1, <2>2 DEF CallerPlaces, WatcherPlaces
<1>1. ASSUME NEW x \in Threads, BeginEviction(x) PROVE TableTypeOK' /\ ThreadsPlaced'
  <2>. DEFINE place == IF victim[x] \notin Registered THEN AfterEviction(x)
                       ELSE IF victim[x] \in freeing THEN "freeing" ELSE "forget"
  <2>1. at[x] = "evict" /\ at' = [at EXCEPT ![x] = place] /\ toEvict' = toEvict /\ target' = target
        /\ victim' = [victim EXCEPT ![x] = IF victim[x] \in Registered THEN @ ELSE NoModel]
        /\ byAccess' = byAccess /\ inMemory' = inMemory /\ brokeOff' = brokeOff
        /\ dropped' = [dropped EXCEPT ![victim[x]] =
                     IF victim[x] \in Registered THEN "unfreed" ELSE @]
    BY <1>1 DEF BeginEviction, GoTo
  <2>2. place \in {AfterEviction(x), "freeing", "forget"}
    OBVIOUS
  <2>3. place \in {"freeing", "forget"} => victim[x] \in Registered
    BY <1>0 DEF AfterEviction
  <2>. HIDE DEF place
  <2>4. /\ x \in Callers => /\ place \in CallerPlaces
                            /\ toEvict'[x] = << >> => place # "clear"
                            /\ toEvict'[x] # << >> => place \in InEviction \cup {"clear"}
                            /\ place # "register"
        /\ x \in Watchers => place \in WatcherPlaces
        /\ place \notin {"evict", "select"}
    BY <1>a, <2>1, <2>2
  <2>5. TableTypeOK'
    BY <2>1, <2>4
  <2>. QED
    BY <1>0, <2>1, <2>3, <2>4, <2>5
<1>2. ASSUME NEW x \in Threads, NEW ok \in BOOLEAN, RunCallback(x, ok)
      PROVE  TableTypeOK' /\ ThreadsPlaced'
  BY <1>0, <1>2 DEF RunCallback, GoTo, CallerPlaces, WatcherPlaces
<1>3. ASSUME NEW x \in Threads, Forget(x, FALSE) PROVE TableTypeOK' /\ ThreadsPlaced'
  <2>. DEFINE place == AfterEviction(x)
  <2>1. at[x] = "forget" /\ at' = [at EXCEPT ![x] = place] /\ toEvict' = toEvict /\ target' = target
        /\ victim' = [victim EXCEPT ![x] = NoModel] /\ inMemory' = inMemory /\ dropped' = dropped
        /\ byAccess' = RemoveFirst(byAccess, victim[x]) /\ brokeOff' = brokeOff
    BY <1>3 DEF Forget, GoTo
  <2>2. place \notin InEviction
    BY DEF AfterEviction
  <2>. HIDE DEF place
  <2>4. /\ x \in Callers => /\ place \in CallerPlaces
                            /\ toEvict'[x] = << >> => place # "clear"
                            /\ toEvict'[x] # << >> => place \in InEviction \cup {"clear"}
                            /\ place # "register"
        /\ x \in Watchers => place \in WatcherPlaces
    BY <1>a, <2>1 DEF place
  <2>5. TableTypeOK'
    BY <1>b, <2>1, <2>4
  <2>. QED
    BY <1>0, <2>1, <2>2, <2>4, <2>5
<1>4. ASSUME NEW w \in Callers, NEW m \in WinModels, LoadModel(w, m)
      PROVE  TableTypeOK' /\ ThreadsPlaced'
  BY <1>0, <1>4 DEF LoadModel, GoTo, CallerPlaces, WatcherPlaces
<1>5. ASSUME NEW w \in Callers, NEW pin \in BOOLEAN, RegisterModel(w, pin)
      PROVE  TableTypeOK' /\ ThreadsPlaced'
  <2>1. target[w] \in WinModels
    BY <1>5 DEF RegisterModel
  <2>. QED
    BY <1>0, <1>5, <1>b, <2>1 DEF RegisterModel, GoTo, CallerPlaces, WatcherPlaces
<1>6. ASSUME NEW w \in Callers, EnforceLimit(w) PROVE TableTypeOK' /\ ThreadsPlaced'
  <2>1. Len(byAccess) > MaxModels => Candidate \in WinModels
    BY <1>0, CandidateRegistered
  <2>2. /\ at[w] = "enforce" /\ UNCHANGED Table /\ UNCHANGED <<target, toEvict>>
        /\ brokeOff' \in BOOLEAN
        /\ \/ /\ Candidate \in WinModels
              /\ victim' = [victim EXCEPT ![w] = Candidate] /\ at' = [at EXCEPT ![w] = "select"]
           \/ victim' = victim /\ at' = [at EXCEPT ![w] = "callback"]
    BY <1>6, <2>1 DEF EnforceLimit, StartSelection, GoTo
  <2>. QED
    BY <1>0, <2>2 DEF Table, CallerPlaces, WatcherPlaces
<1>7. ASSUME NEW w \in Callers, SetCallback(w) PROVE TableTypeOK' /\ ThreadsPlaced'
  BY <1>0, <1>7 DEF SetCallback, GoTo, CallerPlaces, WatcherPlaces
<1>8. ASSUME NEW m \in WinModels, RecordAccess(m) \/ PinOrUnpin(m)
      PROVE  TableTypeOK' /\ ThreadsPlaced'
  BY <1>8, <1>b DEF RecordAccess, PinOrUnpin
<1>9. ASSUME StartMonitoring PROVE TableTypeOK' /\ ThreadsPlaced'
  BY <1>0, <1>9 DEF StartMonitoring, GoTo, Table, CallerPlaces, WatcherPlaces
<1>10. ASSUME NEW w \in Callers, Shutdown(w) PROVE TableTypeOK' /\ ThreadsPlaced'
  BY <1>0, <1>10 DEF Shutdown, GoTo, Table, CallerPlaces, WatcherPlaces
<1>11. ASSUME NEW w \in Callers, ClearAll(w) PROVE TableTypeOK' /\ ThreadsPlaced'
  <2>1. byAccess # << >> => Head(byAccess) \in WinModels
    OBVIOUS
  <2>2. CASE byAccess = << >>
    BY <1>0, <1>11, <2>2 DEF ClearAll, StartEviction, GoTo, Table, CallerPlaces, WatcherPlaces
  <2>3. CASE byAccess # << >>
    BY <1>0, <1>11, <2>1, <2>3, ZenonT(40) DEF ClearAll, StartEviction, GoTo, Table, CallerPlaces, WatcherPlaces
  <2>. QED
    BY <2>2, <2>3
<1>12. ASSUME NEW w \in Callers, ClearNext(w) PROVE TableTypeOK' /\ ThreadsPlaced'
  <2>1. toEvict[w] # << >> /\ toEvict[w] \in Seq(WinModels)
    BY <1>12 DEF ClearNext
  <2>2. Tail(toEvict[w]) \in Seq(WinModels)
        /\ (Tail(toEvict[w]) # << >> => toEvict[w][2] \in WinModels)
    BY <2>1
  <2>. DEFINE rest == Tail(toEvict[w])
              next == toEvict[w][2]
  <2>3. at[w] = "clear" /\ toEvict' = [toEvict EXCEPT ![w] = rest] /\ UNCHANGED Table
        /\ UNCHANGED <<target, brokeOff>>
        /\ IF rest = << >> THEN GoTo(w, "idle") /\ UNCHANGED victim ELSE StartEviction(w, next)
    BY <1>12 DEF ClearNext
  <2>. HIDE DEF rest, next
  <2>4. rest \in Seq(WinModels) /\ (rest # << >> => next \in WinModels)
    BY <2>2 DEF rest, next
  <2>. QED
    <3>1. PICK place \in {"idle", "evict"} :
            /\ at' = [at EXCEPT ![w] = place]
            /\ place = "evict" <=> rest # << >>
            /\ victim' = victim \/ (next \in WinModels /\ victim' = [victim EXCEPT ![w] = next])
            /\ place = "evict" => next \in WinModels /\ victim' = [victim EXCEPT ![w] = next]
      BY <2>3, <2>4 DEF StartEviction, GoTo
    <3>2. TableTypeOK'
      BY <2>3, <2>4, <3>1 DEF Table, CallerPlaces
    <3>3. /\ \A x \in Threads : at'[x] = IF x = w THEN place ELSE at[x]
          /\ \A v \in Callers : toEvict'[v] = IF v = w THEN rest ELSE toEvict[v]
          /\ \A x \in Threads : victim'[x] = victim[x] \/ victim'[x] \in WinModels
          /\ place = "evict" => victim'[w] \in WinModels
      BY <2>3, <3>1
    <3>4. ASSUME NEW v \in Callers
          PROVE  /\ at'[v] \in CallerPlaces
                 /\ at'[v] = "register" => target'[v] \in WinModels
                 /\ toEvict'[v] = << >> => at'[v] # "clear"
                 /\ toEvict'[v] # << >> => at'[v] \in InEviction \cup {"clear"} /\ at'[v] # "select"
      <4>1. CASE v = w
        BY <3>1, <3>3, <4>1 DEF CallerPlaces
      <4>2. CASE v # w
        BY <2>3, <3>3, <4>2
      <4>. QED
        BY <4>1, <4>2
    <3>5. \A x \in Watchers : at'[x] \in WatcherPlaces
      BY <1>0, <3>3
    <3>6. \A x \in Threads : at'[x] \in InEviction => victim'[x] \in WinModels
      BY <3>1, <3>3
    <3>. QED
      BY <3>2, <3>4, <3>5, <3>6
<1>13. ASSUME NEW x \in Watchers, NEW allowed \in Evictions, Watch(x, allowed)
       PROVE  TableTypeOK' /\ ThreadsPlaced'
  BY <1>0, <1>13 DEF Watch, GoTo, Table, CallerPlaces, WatcherPlaces
<1>14. ASSUME NEW x \in Watchers, RelievePressure(x) PROVE TableTypeOK' /\ ThreadsPlaced'
  <2>1. Len(byAccess) > MinModels => Candidate \in WinModels
    BY <1>0, CandidateRegistered
  <2>. QED
    BY <1>0, <1>14, <2>1, ZenonT(40) DEF RelievePressure, StartSelection, GoTo, Table, CallerPlaces, WatcherPlaces
<1>15. ASSUME UNCHANGED winVars PROVE TableTypeOK' /\ ThreadsPlaced'
  BY <1>15 DEF winVars
<1>16. ASSUME NEW x \in Threads, Forget(x, TRUE) PROVE TableTypeOK' /\ ThreadsPlaced'
  <2>1. RaiseOut(x) /\ byAccess' = RemoveFirst(byAccess, victim[x]) /\ dropped' = dropped
        /\ victim[x] \in WinModels
    BY <1>16 DEF Forget
  <2>. QED
    BY <1>b, <1>c, <2>1
<1>17. ASSUME NEW x \in Threads, LookRaises(x) PROVE TableTypeOK' /\ ThreadsPlaced'
  BY <1>c, <1>17 DEF LookRaises, Table
<1>18. ASSUME NEW x \in Threads, Select(x) PROVE TableTypeOK' /\ ThreadsPlaced'
  <2>1. byAccess # << >> => Candidate \in WinModels
    BY <1>0, CandidateRegistered
  <2>2. PICK m \in WinModels :
          victim' = [victim EXCEPT ![x] = m] /\ at' = [at EXCEPT ![x] = "evict"]
    BY <1>18, <2>1 DEF Select, StartEviction, GoTo
  <2>3. at[x] = "select" /\ UNCHANGED Table /\ UNCHANGED <<target, toEvict, brokeOff>>
    BY <1>18 DEF Select
  <2>. QED
    BY <1>0, <2>2, <2>3 DEF Table, CallerPlaces, WatcherPlaces
<1>19. ASSUME NEW x \in Threads, SelectNone(x) PROVE TableTypeOK' /\ ThreadsPlaced'
  <2>1. /\ at[x] = "select" /\ UNCHANGED Table /\ UNCHANGED <<target, toEvict, brokeOff>>
        /\ victim' = [victim EXCEPT ![x] = NoModel]
        /\ at' = [at EXCEPT ![x] = IF x \in Watchers THEN "pressure" ELSE "callback"]
    BY <1>19 DEF SelectNone, GoTo
  <2>. QED
    BY <1>0, <2>1 DEF Table, CallerPlaces, WatcherPlaces
<1>. QED
  BY <1>1, <1>2, <1>3, <1>4, <1>5, <1>6, <1>7, <1>8, <1>9, <1>10, <1>11, <1>12, <1>13, <1>14, <1>15,
     <1>16, <1>17, <1>18, <1>19 DEF WindowsModelsNext

\* An order without one of its models, or with it last, is no longer than before.
LEMMA OrderLengths ==
  ASSUME NEW S, NEW s \in Seq(S), IsInjective(s), NEW t \in S
  PROVE  /\ Len(RemoveFirst(s, t)) \in Nat /\ Len(RemoveFirst(s, t)) <= Len(s)
         /\ t \in ToSet(s) => Len(Append(RemoveFirst(s, t), t)) <= Len(s)
<1>. DEFINE r == RemoveFirst(s, t)
            a == Append(r, t)
<1>1. r \in Seq(S) /\ IsInjective(r) /\ ToSet(r) = ToSet(s) \ {t}
  BY RemoveOne
<1>2. a \in Seq(S) /\ IsInjective(a) /\ ToSet(a) = ToSet(s) \cup {t}
  BY MoveLast
<1>. HIDE DEF r, a
<1>3. IsFiniteSet(ToSet(s)) /\ Cardinality(ToSet(s)) = Len(s)
  BY LenOfSet
<1>4. Cardinality(ToSet(r)) = Len(r)
  BY <1>1, LenOfSet
<1>5. Cardinality(ToSet(a)) = Len(a)
  BY <1>2, LenOfSet
<1>6. Cardinality(ToSet(r)) <= Cardinality(ToSet(s))
  BY <1>1, <1>3, FS_Subset
<1>7. t \in ToSet(s) => ToSet(a) = ToSet(s)
  BY <1>2
<1>8. Len(r) \in Nat /\ Len(s) \in Nat
  BY <1>1
<1>9. Len(r) <= Len(s)
  BY <1>3, <1>4, <1>6
<1>10. t \in ToSet(s) => Len(a) <= Len(s)
  BY <1>3, <1>5, <1>7, <1>8
<1>. QED
  BY <1>8, <1>9, <1>10 DEF r, a

\* Whoever makes the table too long enforces the limit until it is not.
LEMMA StepLimit ==
  ASSUME TableTypeOK, ThreadsPlaced, LimitEnforced, [WindowsModelsNext]_winVars
  PROVE  LimitEnforced'
<1>0. MaxModels \in Nat /\ MinModels \in Nat /\ Callers \cap Watchers = {} /\ Len(byAccess) \in Nat
  BY WindowsModelsAssumption DEF TableTypeOK
<1>1. ASSUME Len(byAccess') \in Nat, Len(byAccess') <= Len(byAccess),
             \A w \in Callers : LooksAgain(w) => LooksAgain(w)', brokeOff => brokeOff'
      PROVE  LimitEnforced'
  BY <1>0, <1>1 DEF LimitEnforced
<1>2. ASSUME NEW w \in Callers, LooksAgain(w)' PROVE LimitEnforced'
  BY <1>2 DEF LimitEnforced
<1>3. ASSUME NEW x \in Threads, NEW place, place = "enforce" \/ place = "clear" \/ place \in InEviction,
             at' = [at EXCEPT ![x] = place], toEvict' = toEvict, at[x] \in InEviction,
             x \in Callers /\ toEvict[x] = << >> => place # "clear"
      PROVE  \A w \in Callers : LooksAgain(w) => LooksAgain(w)'
  <2>1. ASSUME NEW w \in Callers, LooksAgain(w) PROVE LooksAgain(w)'
    <3>1. at'[w] = (IF w = x THEN place ELSE at[w]) /\ toEvict'[w] = toEvict[w]
      BY <1>3 DEF TableTypeOK, Threads
    <3>2. CASE w = x
      <4>1. toEvict[x] = << >>
        BY <1>3, <2>1, <3>2 DEF LooksAgain, InEviction
      <4>. QED
        BY <1>3, <3>1, <3>2, <4>1 DEF LooksAgain
    <3>3. CASE w # x
      BY <2>1, <3>1, <3>3 DEF LooksAgain
    <3>. QED
      BY <3>2, <3>3
  <2>. QED
    BY <2>1
<1>4. ASSUME NEW x \in Threads, NEW place, at' = [at EXCEPT ![x] = place], toEvict' = toEvict,
             x \notin Callers \/ at[x] \notin {"enforce", "select", "evict", "freeing", "forget"}
      PROVE  \A w \in Callers : LooksAgain(w) => LooksAgain(w)'
  BY <1>0, <1>4 DEF LooksAgain, TableTypeOK, Threads, InEviction
<1>a. ASSUME NEW x \in Threads, BeginEviction(x) PROVE LimitEnforced'
  <2>. DEFINE place == IF victim[x] \notin Registered THEN AfterEviction(x)
                       ELSE IF victim[x] \in freeing THEN "freeing" ELSE "forget"
  <2>1. at[x] = "evict" /\ at' = [at EXCEPT ![x] = place] /\ toEvict' = toEvict
        /\ byAccess' = byAccess /\ brokeOff' = brokeOff
    BY <1>a DEF BeginEviction, GoTo
  <2>2. x \in Callers =>
          /\ place = "enforce" \/ place = "clear" \/ place \in InEviction
          /\ toEvict[x] = << >> => place # "clear"
    BY <1>0 DEF AfterEviction, InEviction
  <2>. HIDE DEF place
  <2>3. \A w \in Callers : LooksAgain(w) => LooksAgain(w)'
    BY <1>3, <1>4, <2>1, <2>2 DEF InEviction
  <2>. QED
    BY <1>0, <1>1, <2>1, <2>3
<1>b. ASSUME NEW x \in Threads, NEW ok \in BOOLEAN, RunCallback(x, ok) PROVE LimitEnforced'
  <2>1. at[x] = "freeing" /\ at' = [at EXCEPT ![x] = "forget"] /\ toEvict' = toEvict
        /\ byAccess' = byAccess /\ brokeOff' = brokeOff
    BY <1>b DEF RunCallback, GoTo
  <2>2. \A w \in Callers : LooksAgain(w) => LooksAgain(w)'
    BY <1>3, <2>1 DEF InEviction
  <2>. QED
    BY <1>0, <1>1, <2>1, <2>2
<1>c. ASSUME NEW x \in Threads, Forget(x, FALSE) PROVE LimitEnforced'
  <2>. DEFINE place == AfterEviction(x)
  <2>1. at[x] = "forget" /\ at' = [at EXCEPT ![x] = place] /\ toEvict' = toEvict
        /\ byAccess' = RemoveFirst(byAccess, victim[x]) /\ brokeOff' = brokeOff
    BY <1>c DEF Forget, GoTo
  <2>2. x \in Callers =>
          /\ place = "enforce" \/ place = "clear" \/ place \in InEviction
          /\ toEvict[x] = << >> => place # "clear"
    BY <1>0 DEF AfterEviction, InEviction
  <2>. HIDE DEF place
  <2>3. \A w \in Callers : LooksAgain(w) => LooksAgain(w)'
    BY <1>3, <1>4, <2>1, <2>2 DEF InEviction
  <2>4. victim[x] \in WinModels
    BY <2>1 DEF ThreadsPlaced, InEviction
  <2>5. Len(byAccess') \in Nat /\ Len(byAccess') <= Len(byAccess)
    BY <2>1, <2>4, OrderLengths DEF TableTypeOK
  <2>. QED
    BY <1>1, <2>1, <2>3, <2>5
<1>d. ASSUME NEW w \in Callers, NEW m \in WinModels, LoadModel(w, m) PROVE LimitEnforced'
  <2>1. at[w] = "idle" /\ at' = [at EXCEPT ![w] = "register"] /\ toEvict' = toEvict
        /\ byAccess' = byAccess /\ brokeOff' = brokeOff
    BY <1>d DEF LoadModel, GoTo
  <2>2. \A v \in Callers : LooksAgain(v) => LooksAgain(v)'
    BY <1>4, <2>1 DEF Threads
  <2>. QED
    BY <1>0, <1>1, <2>1, <2>2
<1>e. ASSUME NEW w \in Callers, NEW pin \in BOOLEAN, RegisterModel(w, pin)
      PROVE  LimitEnforced'
  BY <1>2, <1>e DEF RegisterModel, GoTo, LooksAgain, TableTypeOK, Threads
<1>f. ASSUME NEW w \in Callers, EnforceLimit(w) PROVE LimitEnforced'
  <2>1. at[w] = "enforce" /\ toEvict[w] = << >>
    BY <1>f DEF EnforceLimit, ThreadsPlaced, InEviction
  <2>2. CASE Len(byAccess) > MaxModels
    BY <1>2, <1>f, <2>1, <2>2
       DEF EnforceLimit, StartSelection, GoTo, LooksAgain, InEviction, TableTypeOK, Threads
  <2>3. CASE ~(Len(byAccess) > MaxModels)
    BY <1>0, <1>f, <2>3 DEF EnforceLimit, LimitEnforced, Table
  <2>. QED
    BY <2>2, <2>3
<1>g. ASSUME NEW w \in Callers, SetCallback(w) PROVE LimitEnforced'
  <2>1. at[w] = "callback" /\ at' = [at EXCEPT ![w] = "idle"] /\ toEvict' = toEvict
        /\ byAccess' = byAccess /\ brokeOff' = brokeOff
    BY <1>g DEF SetCallback, GoTo
  <2>2. \A v \in Callers : LooksAgain(v) => LooksAgain(v)'
    BY <1>4, <2>1 DEF Threads
  <2>. QED
    BY <1>0, <1>1, <2>1, <2>2
<1>h. ASSUME NEW m \in WinModels, RecordAccess(m) \/ PinOrUnpin(m) PROVE LimitEnforced'
  <2>1. at' = at /\ toEvict' = toEvict /\ brokeOff' = brokeOff
    BY <1>h DEF RecordAccess, PinOrUnpin
  <2>2. \A w \in Callers : LooksAgain(w) => LooksAgain(w)'
    BY <2>1 DEF LooksAgain
  <2>3. CASE RecordAccess(m)
    <3>1. byAccess' = Append(RemoveFirst(byAccess, m), m) /\ m \in ToSet(byAccess)
      BY <2>3 DEF RecordAccess, Registered
    <3>2. RemoveFirst(byAccess, m) \in Seq(WinModels)
      BY RemoveOne DEF TableTypeOK
    <3>3. Len(byAccess') \in Nat /\ Len(byAccess') <= Len(byAccess)
      BY <3>1, <3>2, OrderLengths DEF TableTypeOK
    <3>. QED
      BY <1>1, <2>1, <2>2, <3>3
  <2>4. CASE PinOrUnpin(m)
    BY <1>0, <1>1, <2>1, <2>2, <2>4 DEF PinOrUnpin
  <2>. QED
    BY <1>h, <2>3, <2>4
<1>i. ASSUME StartMonitoring PROVE LimitEnforced'
  <2>1. PICK x \in Watchers : at[x] = "off" /\ GoTo(x, "watch")
    BY <1>i DEF StartMonitoring
  <2>2. at' = [at EXCEPT ![x] = "watch"] /\ toEvict' = toEvict /\ byAccess' = byAccess
        /\ brokeOff' = brokeOff
    BY <1>i, <2>1 DEF StartMonitoring, GoTo, Table
  <2>3. \A v \in Callers : LooksAgain(v) => LooksAgain(v)'
    BY <1>4, <2>1, <2>2 DEF Threads
  <2>. QED
    BY <1>0, <1>1, <2>2, <2>3
<1>j. ASSUME NEW w \in Callers, Shutdown(w) PROVE LimitEnforced'
  <2>1. at[w] = "idle" /\ at' = [at EXCEPT ![w] = "join"] /\ toEvict' = toEvict
        /\ byAccess' = byAccess /\ brokeOff' = brokeOff
    BY <1>j DEF Shutdown, GoTo, Table
  <2>2. \A v \in Callers : LooksAgain(v) => LooksAgain(v)'
    BY <1>4, <2>1 DEF Threads
  <2>. QED
    BY <1>0, <1>1, <2>1, <2>2
<1>k. ASSUME NEW w \in Callers, ClearAll(w) \/ ClearNext(w) PROVE LimitEnforced'
  <2>1. at[w] \in {"join", "clear"} /\ byAccess' = byAccess /\ brokeOff' = brokeOff
    BY <1>k DEF ClearAll, ClearNext, Table
  <2>2. ~LooksAgain(w)
    BY <2>1 DEF LooksAgain, InEviction
  <2>3. ASSUME NEW v \in Callers, LooksAgain(v) PROVE LooksAgain(v)'
    <3>1. v # w
      BY <2>2, <2>3
    <3>2. at'[v] = at[v] /\ toEvict'[v] = toEvict[v]
      BY <1>k, <3>1 DEF ClearAll, ClearNext, StartEviction, GoTo, TableTypeOK, Threads
    <3>. QED
      BY <2>3, <3>2 DEF LooksAgain
  <2>. QED
    BY <1>0, <1>1, <2>1, <2>3
<1>l. ASSUME NEW x \in Watchers, NEW allowed \in Evictions, Watch(x, allowed) PROVE LimitEnforced'
  <2>1. PICK place : at' = [at EXCEPT ![x] = place]
    BY <1>l DEF Watch, GoTo
  <2>2. toEvict' = toEvict /\ byAccess' = byAccess /\ brokeOff' = brokeOff
        /\ x \in Threads /\ x \notin Callers
    BY <1>0, <1>l DEF Watch, Table, Threads
  <2>3. \A v \in Callers : LooksAgain(v) => LooksAgain(v)'
    BY <1>4, <2>1, <2>2
  <2>. QED
    BY <1>0, <1>1, <2>2, <2>3
<1>m. ASSUME NEW x \in Watchers, RelievePressure(x) PROVE LimitEnforced'
  <2>1. PICK place : at' = [at EXCEPT ![x] = place]
    BY <1>m DEF RelievePressure, StartSelection, GoTo
  <2>2. toEvict' = toEvict /\ byAccess' = byAccess /\ brokeOff' = brokeOff
        /\ x \in Threads /\ x \notin Callers
    BY <1>0, <1>m DEF RelievePressure, Table, Threads
  <2>3. \A v \in Callers : LooksAgain(v) => LooksAgain(v)'
    BY <1>4, <2>1, <2>2
  <2>. QED
    BY <1>0, <1>1, <2>2, <2>3
<1>n. ASSUME UNCHANGED winVars PROVE LimitEnforced'
  BY <1>n DEF winVars, LimitEnforced, LooksAgain
\* A caller that raises while it enforces the limit breaks that off.
<1>r. ASSUME NEW x \in Threads, RaiseOut(x), Len(byAccess') \in Nat, Len(byAccess') <= Len(byAccess)
      PROVE  LimitEnforced'
  <2>1. /\ \A w \in Callers : w # x => at'[w] = at[w] /\ toEvict'[w] = toEvict[w]
        /\ brokeOff' = (brokeOff \/ (x \in Callers /\ toEvict[x] = << >>))
    BY <1>r DEF RaiseOut, GoTo, TableTypeOK, Threads
  <2>2. CASE x \in Callers /\ toEvict[x] = << >>
    BY <2>1, <2>2 DEF LimitEnforced
  <2>3. CASE x \in Callers /\ toEvict[x] # << >>
    <3>1. ~LooksAgain(x)
      BY <2>3 DEF ThreadsPlaced, LooksAgain, InEviction
    <3>2. \A w \in Callers : LooksAgain(w) => LooksAgain(w)'
      BY <2>1, <3>1 DEF LooksAgain
    <3>. QED
      BY <1>1, <1>r, <2>1, <3>2
  <2>4. CASE x \notin Callers
    <3>1. \A w \in Callers : LooksAgain(w) => LooksAgain(w)'
      BY <2>1, <2>4 DEF LooksAgain
    <3>. QED
      BY <1>1, <1>r, <2>1, <3>1
  <2>. QED
    BY <2>2, <2>3, <2>4
<1>o. ASSUME NEW x \in Threads, Forget(x, TRUE) PROVE LimitEnforced'
  <2>1. at[x] = "forget" /\ RaiseOut(x) /\ byAccess' = RemoveFirst(byAccess, victim[x])
    BY <1>o DEF Forget
  <2>2. victim[x] \in WinModels
    BY <2>1 DEF ThreadsPlaced, InEviction
  <2>3. Len(byAccess') \in Nat /\ Len(byAccess') <= Len(byAccess)
    BY <2>1, <2>2, OrderLengths DEF TableTypeOK
  <2>. QED
    BY <1>r, <2>1, <2>3
<1>p. ASSUME NEW x \in Threads, LookRaises(x) PROVE LimitEnforced'
  <2>1. RaiseOut(x) /\ byAccess' = byAccess
    BY <1>p DEF LookRaises, Table
  <2>. QED
    BY <1>0, <1>r, <2>1
<1>q. ASSUME NEW x \in Threads, Select(x) PROVE LimitEnforced'
  <2>1. at[x] = "select" /\ at' = [at EXCEPT ![x] = "evict"] /\ toEvict' = toEvict
        /\ byAccess' = byAccess /\ brokeOff' = brokeOff
    BY <1>q DEF Select, StartEviction, GoTo, Table
  <2>2. \A w \in Callers : LooksAgain(w) => LooksAgain(w)'
    BY <1>3, <2>1 DEF InEviction
  <2>. QED
    BY <1>0, <1>1, <2>1, <2>2
<1>s. ASSUME NEW x \in Threads, SelectNone(x) PROVE LimitEnforced'
  <2>1. byAccess' = << >>
    BY <1>s DEF SelectNone, Table
  <2>. QED
    BY <1>0, <2>1 DEF LimitEnforced
<1>. QED
  BY <1>a, <1>b, <1>c, <1>d, <1>e, <1>f, <1>g, <1>h, <1>i, <1>j, <1>k, <1>l, <1>m, <1>n, <1>o, <1>p,
     <1>q, <1>s DEF WindowsModelsNext

\* Before a model leaves the table it is explained what may keep it in memory.
LEMMA StepDrops ==
  ASSUME TableTypeOK, ThreadsPlaced, DropsExplained, isPinned \subseteq Registered,
         [WindowsModelsNext]_winVars
  PROVE  DropsExplained' /\ isPinned' \subseteq Registered'
<1>0. Callers \cap Watchers = {} /\ Callers \subseteq Threads
  BY WindowsModelsAssumption DEF Threads
<1>1. ASSUME Registered' = Registered, inMemory' = inMemory, dropped' = dropped, isPinned' = isPinned,
             \A m \in WinModels : BeingDropped(m)' => BeingDropped(m),
             \A m \in WinModels : Registering(m) => Registering(m)'
      PROVE  DropsExplained' /\ isPinned' \subseteq Registered'
  BY <1>1 DEF DropsExplained, LeakExplained
\* A thread that neither drops nor registers moves on.
<1>2. ASSUME NEW x \in Threads, NEW place, place \notin {"freeing", "forget"},
             at' = [at EXCEPT ![x] = place], target' = target,
             \A y \in Threads : y # x => victim'[y] = victim[y],
             at[x] # "register"
      PROVE  /\ \A m \in WinModels : BeingDropped(m)' => BeingDropped(m)
             /\ \A m \in WinModels : Registering(m) => Registering(m)'
  <2>1. \A y \in Threads : at'[y] = IF y = x THEN place ELSE at[y]
    BY <1>2 DEF TableTypeOK
  <2>2. ASSUME NEW m \in WinModels, BeingDropped(m)' PROVE BeingDropped(m)
    BY <1>2, <2>1, <2>2 DEF BeingDropped
  <2>3. ASSUME NEW m \in WinModels, Registering(m) PROVE Registering(m)'
    <3>1. PICK w \in Callers : at[w] = "register" /\ target[w] = m
      BY <2>3 DEF Registering
    <3>2. w # x /\ at'[w] = "register" /\ target'[w] = m
      BY <1>0, <1>2, <2>1, <3>1
    <3>. QED
      BY <3>2 DEF Registering
  <2>. QED
    BY <2>2, <2>3
<1>a. ASSUME NEW x \in Threads, BeginEviction(x)
      PROVE  DropsExplained' /\ isPinned' \subseteq Registered'
  <2>1. /\ at[x] = "evict" /\ target' = target /\ byAccess' = byAccess /\ inMemory' = inMemory
        /\ isPinned' = isPinned
        /\ dropped' = [dropped EXCEPT ![victim[x]] =
                         IF victim[x] \in Registered THEN "unfreed" ELSE @]
        /\ victim' = [victim EXCEPT ![x] = IF victim[x] \in Registered THEN @ ELSE NoModel]
        /\ victim[x] \in WinModels /\ Registered' = Registered
    BY <1>a DEF BeginEviction, ThreadsPlaced, InEviction, Registered
  <2>2. CASE victim[x] \notin Registered
    <3>. DEFINE place == AfterEviction(x)
    <3>1. at' = [at EXCEPT ![x] = place]
      BY <1>a, <2>2 DEF BeginEviction, GoTo
    <3>2. place \notin {"freeing", "forget"}
      BY DEF AfterEviction
    <3>3. dropped' = dropped /\ \A y \in Threads : y # x => victim'[y] = victim[y]
      BY <2>1, <2>2 DEF TableTypeOK
    <3>. HIDE DEF place
    <3>4. /\ \A m \in WinModels : BeingDropped(m)' => BeingDropped(m)
          /\ \A m \in WinModels : Registering(m) => Registering(m)'
      BY <1>2, <2>1, <3>1, <3>2, <3>3
    <3>. QED
      BY <1>1, <2>1, <3>3, <3>4
  <2>3. CASE victim[x] \in Registered
    <3>. DEFINE place == IF victim[x] \in freeing THEN "freeing" ELSE "forget"
    <3>1. at' = [at EXCEPT ![x] = place] /\ place \in {"freeing", "forget"}
      BY <1>a, <2>3 DEF BeginEviction, GoTo
    <3>. HIDE DEF place
    <3>2. \A y \in Threads : at'[y] = (IF y = x THEN place ELSE at[y]) /\ victim'[y] = victim[y]
      BY <2>1, <2>3, <3>1 DEF TableTypeOK
    <3>3. \A m \in WinModels : dropped'[m] = IF m = victim[x] THEN "unfreed" ELSE dropped[m]
      BY <2>1, <2>3 DEF TableTypeOK
    <3>4. ASSUME NEW m \in WinModels, m # victim[x]
          PROVE  (BeingDropped(m)' => BeingDropped(m)) /\ (Registering(m) => Registering(m)')
      <4>1. BeingDropped(m)' => BeingDropped(m)
        BY <3>2, <3>4 DEF BeingDropped
      <4>2. ASSUME NEW w \in Callers, at[w] = "register", target[w] = m PROVE Registering(m)'
        <5>1. at'[w] = "register" /\ target'[w] = m
          BY <1>0, <2>1, <3>2, <4>2
        <5>. QED
          BY <5>1 DEF Registering
      <4>. QED
        BY <4>1, <4>2 DEF Registering
    <3>5. ASSUME NEW m \in WinModels
          PROVE  /\ BeingDropped(m)' => dropped'[m] # "never"
                 /\ m \in inMemory' /\ (m \notin Registered' \/ BeingDropped(m)') => LeakExplained(m)'
      <4>1. CASE m = victim[x]
        BY <3>3, <4>1 DEF LeakExplained
      <4>2. CASE m # victim[x]
        BY <2>1, <3>3, <3>4, <4>2 DEF DropsExplained, LeakExplained
      <4>. QED
        BY <4>1, <4>2
    <3>. QED
      BY <2>1, <3>5 DEF DropsExplained
  <2>. QED
    BY <2>2, <2>3
<1>b. ASSUME NEW x \in Threads, NEW ok \in BOOLEAN, RunCallback(x, ok)
      PROVE  DropsExplained' /\ isPinned' \subseteq Registered'
  <2>1. /\ at[x] = "freeing" /\ at' = [at EXCEPT ![x] = "forget"] /\ target' = target
        /\ victim' = victim /\ byAccess' = byAccess /\ isPinned' = isPinned
        /\ inMemory' = (IF ok THEN inMemory \ {victim[x]} ELSE inMemory)
        /\ dropped' = [dropped EXCEPT ![victim[x]] = IF ok /\ @ = "unfreed" THEN "freed" ELSE @]
        /\ victim[x] \in WinModels /\ Registered' = Registered
    BY <1>b DEF RunCallback, GoTo, ThreadsPlaced, InEviction, Registered
  <2>2. \A y \in Threads : at'[y] = (IF y = x THEN "forget" ELSE at[y])
    BY <2>1 DEF TableTypeOK
  <2>3. ASSUME NEW m \in WinModels
        PROVE  (BeingDropped(m)' => BeingDropped(m)) /\ (Registering(m) => Registering(m)')
    <3>1. BeingDropped(m)' => BeingDropped(m)
      BY <2>1, <2>2 DEF BeingDropped
    <3>2. ASSUME NEW w \in Callers, at[w] = "register", target[w] = m PROVE Registering(m)'
      <4>1. at'[w] = "register" /\ target'[w] = m
        BY <1>0, <2>1, <2>2, <3>2
      <4>. QED
        BY <4>1 DEF Registering
    <3>. QED
      BY <3>1, <3>2 DEF Registering
  <2>4. \A m \in WinModels :
          dropped'[m] = IF m = victim[x] /\ ok /\ dropped[m] = "unfreed" THEN "freed" ELSE dropped[m]
    BY <2>1 DEF TableTypeOK
  <2>5. ASSUME NEW m \in WinModels
        PROVE  /\ BeingDropped(m)' => dropped'[m] # "never"
               /\ m \in inMemory' /\ (m \notin Registered' \/ BeingDropped(m)') => LeakExplained(m)'
    <3>1. CASE m = victim[x] /\ ok
      <4>1. m \notin inMemory'
        BY <2>1, <3>1
      <4>. QED
        BY <2>3, <2>4, <4>1 DEF DropsExplained
    <3>2. CASE ~(m = victim[x] /\ ok)
      <4>1. dropped'[m] = dropped[m] /\ (m \in inMemory' => m \in inMemory)
        BY <2>1, <2>4, <3>2
      <4>. QED
        BY <2>1, <2>3, <4>1 DEF DropsExplained, LeakExplained
    <3>. QED
      BY <3>1, <3>2
  <2>6. inMemory' \subseteq WinModels
    BY <2>1 DEF DropsExplained
  <2>. QED
    BY <2>1, <2>5, <2>6 DEF DropsExplained
\* A thread that raises out of an eviction drops nothing any more.
<1>r. ASSUME NEW x \in Threads, RaiseOut(x), at[x] \in InEviction
      PROVE  /\ \A m \in WinModels : BeingDropped(m)' => BeingDropped(m)
             /\ \A m \in WinModels : Registering(m) => Registering(m)'
  <2>1. /\ \A y \in Threads : at'[y] = IF y = x THEN IF x \in Watchers THEN "watch" ELSE "idle"
                                              ELSE at[y]
        /\ \A y \in Threads : y # x => victim'[y] = victim[y]
        /\ \A w \in Callers : w # x => target'[w] = target[w]
    BY <1>r DEF RaiseOut, GoTo, TableTypeOK
  <2>2. ASSUME NEW m \in WinModels, BeingDropped(m)' PROVE BeingDropped(m)
    BY <2>1, <2>2 DEF BeingDropped
  <2>3. ASSUME NEW m \in WinModels, Registering(m) PROVE Registering(m)'
    <3>1. PICK w \in Callers : at[w] = "register" /\ target[w] = m
      BY <2>3 DEF Registering
    <3>2. w # x
      BY <1>r, <3>1 DEF InEviction
    <3>3. at'[w] = "register" /\ target'[w] = m
      BY <1>0, <2>1, <3>1, <3>2
    <3>. QED
      BY <3>3 DEF Registering
  <2>. QED
    BY <2>2, <2>3
<1>c. ASSUME NEW x \in Threads, NEW raises \in BOOLEAN, Forget(x, raises)
      PROVE  DropsExplained' /\ isPinned' \subseteq Registered'
  <2>. DEFINE place == AfterEviction(x)
  <2>1. /\ at[x] = "forget" /\ inMemory' = inMemory /\ dropped' = dropped
        /\ byAccess' = RemoveFirst(byAccess, victim[x]) /\ isPinned' = isPinned \ {victim[x]}
        /\ victim[x] \in WinModels
        /\ \/ RaiseOut(x)
           \/ /\ at' = [at EXCEPT ![x] = place] /\ target' = target
              /\ victim' = [victim EXCEPT ![x] = NoModel]
    BY <1>c DEF Forget, GoTo, ThreadsPlaced, InEviction
  <2>2. place \notin {"freeing", "forget"}
    BY DEF AfterEviction
  <2>. HIDE DEF place
  <2>3. Registered' = Registered \ {victim[x]}
    BY <2>1, RemoveOne DEF Registered, TableTypeOK
  <2>5. /\ \A m \in WinModels : BeingDropped(m)' => BeingDropped(m)
        /\ \A m \in WinModels : Registering(m) => Registering(m)'
    <3>1. CASE RaiseOut(x)
      BY <1>r, <2>1, <3>1 DEF InEviction
    <3>2. CASE ~RaiseOut(x)
      <4>1. \A y \in Threads : y # x => victim'[y] = victim[y]
        BY <2>1, <3>2 DEF TableTypeOK
      <4>. QED
        BY <1>2, <2>1, <2>2, <3>2, <4>1
    <3>. QED
      BY <3>1, <3>2
  <2>6. BeingDropped(victim[x])
    BY <2>1 DEF BeingDropped
  <2>. QED
    BY <2>1, <2>3, <2>5, <2>6 DEF DropsExplained, LeakExplained
<1>d. ASSUME NEW w \in Callers, NEW n \in WinModels, LoadModel(w, n)
      PROVE  DropsExplained' /\ isPinned' \subseteq Registered'
  <2>1. /\ at[w] = "idle" /\ at' = [at EXCEPT ![w] = "register"] /\ target' = [target EXCEPT ![w] = n]
        /\ victim' = victim /\ byAccess' = byAccess /\ isPinned' = isPinned
        /\ inMemory' = inMemory \cup {n} /\ dropped' = dropped /\ Registered' = Registered
    BY <1>d DEF LoadModel, GoTo, Registered
  <2>2. \A y \in Threads : at'[y] = (IF y = w THEN "register" ELSE at[y])
    BY <2>1 DEF TableTypeOK
  <2>3. \A v \in Callers : target'[v] = (IF v = w THEN n ELSE target[v])
    BY <2>1 DEF TableTypeOK
  <2>4. Registering(n)'
    BY <1>0, <2>2, <2>3 DEF Registering
  <2>5. ASSUME NEW m \in WinModels
        PROVE  (BeingDropped(m)' => BeingDropped(m)) /\ (Registering(m) => Registering(m)')
    <3>1. BeingDropped(m)' => BeingDropped(m)
      BY <2>1, <2>2 DEF BeingDropped
    <3>2. ASSUME NEW v \in Callers, at[v] = "register", target[v] = m PROVE Registering(m)'
      <4>1. at'[v] = "register" /\ target'[v] = m
        BY <1>0, <2>1, <2>2, <2>3, <3>2
      <4>. QED
        BY <4>1 DEF Registering
    <3>. QED
      BY <3>1, <3>2 DEF Registering
  <2>. QED
    BY <2>1, <2>4, <2>5 DEF DropsExplained, LeakExplained
<1>e. ASSUME NEW w \in Callers, NEW pin \in BOOLEAN, RegisterModel(w, pin)
      PROVE  DropsExplained' /\ isPinned' \subseteq Registered'
  <2>. DEFINE t == target[w]
  <2>1. /\ at[w] = "register" /\ at' = [at EXCEPT ![w] = "enforce"] /\ target' = target
        /\ victim' = victim /\ byAccess' = Append(RemoveFirst(byAccess, t), t)
        /\ isPinned' = (IF pin THEN isPinned \cup {t} ELSE isPinned \ {t})
        /\ inMemory' = inMemory
        /\ dropped' = [dropped EXCEPT ![t] = IF @ = "freed" THEN "registered" ELSE @]
        /\ t \in WinModels
    BY <1>e DEF RegisterModel, GoTo, ThreadsPlaced
  <2>. HIDE DEF t
  <2>2. Registered' = Registered \cup {t}
    BY <2>1, MoveLast DEF Registered, TableTypeOK
  <2>3. \A y \in Threads : at'[y] = (IF y = w THEN "enforce" ELSE at[y])
    BY <2>1 DEF TableTypeOK
  <2>4. \A m \in WinModels : dropped'[m] = IF m = t /\ dropped[m] = "freed" THEN "registered" ELSE dropped[m]
    BY <2>1 DEF TableTypeOK
  <2>5. \A m \in WinModels : dropped[m] \in {"never", "unfreed", "freed", "registered"}
    BY DEF TableTypeOK
  <2>6. \A m \in WinModels : BeingDropped(m)' => BeingDropped(m)
    BY <2>1, <2>3 DEF BeingDropped
  <2>7. ASSUME NEW m \in WinModels, m # t, Registering(m) PROVE Registering(m)'
    <3>1. PICK v \in Callers : at[v] = "register" /\ target[v] = m
      BY <2>7 DEF Registering
    <3>2. at'[v] = "register" /\ target'[v] = m
      BY <1>0, <2>1, <2>3, <2>7, <3>1 DEF t
    <3>. QED
      BY <3>2 DEF Registering
  <2>8. ASSUME NEW m \in WinModels
        PROVE  /\ BeingDropped(m)' => dropped'[m] # "never"
               /\ m \in inMemory' /\ (m \notin Registered' \/ BeingDropped(m)') => LeakExplained(m)'
    <3>1. CASE m = t
      BY <2>2, <2>4, <2>5, <2>6, <3>1 DEF DropsExplained, LeakExplained
    <3>2. CASE m # t
      BY <2>1, <2>2, <2>4, <2>6, <2>7, <3>2 DEF DropsExplained, LeakExplained
    <3>. QED
      BY <3>1, <3>2
  <2>. QED
    BY <2>1, <2>2, <2>8 DEF DropsExplained
<1>f. ASSUME NEW w \in Callers, EnforceLimit(w) \/ SetCallback(w) \/ Shutdown(w) \/ ClearAll(w) \/ ClearNext(w)
      PROVE  DropsExplained' /\ isPinned' \subseteq Registered'
  <2>1. /\ at[w] # "register" /\ byAccess' = byAccess /\ inMemory' = inMemory /\ dropped' = dropped
        /\ isPinned' = isPinned /\ Registered' = Registered
    BY <1>f DEF EnforceLimit, SetCallback, Shutdown, ClearAll, ClearNext, Table, Registered
  <2>2. \E place \in {"callback", "idle", "join", "select", "evict"} : at' = [at EXCEPT ![w] = place]
    BY <1>f DEF EnforceLimit, SetCallback, Shutdown, ClearAll, ClearNext, StartEviction, StartSelection, GoTo
  <2>3. \A y \in Threads : y # w => victim'[y] = victim[y]
    BY <1>f DEF EnforceLimit, SetCallback, Shutdown, ClearAll, ClearNext, StartEviction, StartSelection, TableTypeOK
  <2>4. CASE SetCallback(w)
    <3>1. at[w] = "callback" /\ at' = [at EXCEPT ![w] = "idle"]
          /\ target' = [target EXCEPT ![w] = NoModel] /\ victim' = victim
      BY <2>4 DEF SetCallback, GoTo
    <3>2. \A y \in Threads : at'[y] = (IF y = w THEN "idle" ELSE at[y])
      BY <1>0, <3>1 DEF TableTypeOK
    <3>3. \A v \in Callers : v # w => target'[v] = target[v]
      BY <3>1 DEF TableTypeOK
    <3>4. \A m \in WinModels : BeingDropped(m)' => BeingDropped(m)
      BY <3>1, <3>2 DEF BeingDropped
    <3>5. ASSUME NEW m \in WinModels, Registering(m) PROVE Registering(m)'
      <4>1. PICK v \in Callers : at[v] = "register" /\ target[v] = m
        BY <3>5 DEF Registering
      <4>2. at'[v] = "register" /\ target'[v] = m
        BY <1>0, <3>1, <3>2, <3>3, <4>1
      <4>. QED
        BY <4>2 DEF Registering
    <3>. QED
      BY <1>1, <2>1, <3>4, <3>5
  <2>5. CASE ~SetCallback(w)
    <3>1. target' = target
      BY <1>f, <2>5 DEF EnforceLimit, Shutdown, ClearAll, ClearNext
    <3>2. PICK place \in {"callback", "idle", "join", "select", "evict"} : at' = [at EXCEPT ![w] = place]
      BY <2>2
    <3>3. w \in Threads /\ place \notin {"freeing", "forget"}
      BY <1>0, <3>2
    <3>4. /\ \A m \in WinModels : BeingDropped(m)' => BeingDropped(m)
          /\ \A m \in WinModels : Registering(m) => Registering(m)'
      BY <1>2, <2>1, <2>3, <3>1, <3>2, <3>3
    <3>. QED
      BY <1>1, <2>1, <3>4
  <2>. QED
    BY <2>4, <2>5
<1>g. ASSUME NEW m \in WinModels, RecordAccess(m) \/ PinOrUnpin(m)
      PROVE  DropsExplained' /\ isPinned' \subseteq Registered'
  <2>1. /\ at' = at /\ target' = target /\ victim' = victim /\ inMemory' = inMemory
        /\ dropped' = dropped
    BY <1>g DEF RecordAccess, PinOrUnpin
  <2>2. Registered' = Registered
    <3>1. CASE RecordAccess(m)
      <4>1. byAccess' = Append(RemoveFirst(byAccess, m), m) /\ m \in ToSet(byAccess)
        BY <3>1 DEF RecordAccess, Registered
      <4>2. ToSet(Append(RemoveFirst(byAccess, m), m)) = ToSet(byAccess) \cup {m}
        BY MoveLast DEF TableTypeOK
      <4>. QED
        BY <4>1, <4>2 DEF Registered
    <3>2. CASE PinOrUnpin(m)
      BY <3>2 DEF PinOrUnpin, Registered
    <3>. QED
      BY <1>g, <3>1, <3>2
  <2>3. isPinned' \subseteq Registered
    BY <1>g DEF RecordAccess, PinOrUnpin
  <2>4. \A n \in WinModels : (BeingDropped(n)' <=> BeingDropped(n)) /\ (Registering(n)' <=> Registering(n))
    BY <2>1 DEF BeingDropped, Registering
  <2>. QED
    BY <2>1, <2>2, <2>3, <2>4 DEF DropsExplained, LeakExplained
<1>h. ASSUME NEW x \in Watchers, NEW place, place \notin {"freeing", "forget"}, at[x] # "register",
             at' = [at EXCEPT ![x] = place], UNCHANGED Table, UNCHANGED target,
             \A y \in Threads : y # x => victim'[y] = victim[y]
      PROVE  DropsExplained' /\ isPinned' \subseteq Registered'
  <2>1. x \in Threads
    BY DEF Threads
  <2>2. /\ \A m \in WinModels : BeingDropped(m)' => BeingDropped(m)
        /\ \A m \in WinModels : Registering(m) => Registering(m)'
    BY <1>2, <1>h, <2>1
  <2>. QED
    BY <1>1, <1>h, <2>2 DEF Table, Registered
<1>i. ASSUME StartMonitoring PROVE DropsExplained' /\ isPinned' \subseteq Registered'
  <2>1. PICK x \in Watchers : at[x] = "off" /\ GoTo(x, "watch")
    BY <1>i DEF StartMonitoring
  <2>. QED
    BY <1>h, <1>i, <2>1 DEF StartMonitoring, GoTo
<1>j. ASSUME NEW x \in Watchers, NEW allowed \in Evictions, Watch(x, allowed)
      PROVE  DropsExplained' /\ isPinned' \subseteq Registered'
  <2>1. at[x] = "watch" /\ UNCHANGED Table /\ UNCHANGED target /\ victim' = victim
        /\ \E place \in {"pressure", "ended"} : at' = [at EXCEPT ![x] = place]
    BY <1>j DEF Watch, GoTo
  <2>. QED
    BY <1>h, <2>1
<1>k. ASSUME NEW x \in Watchers, RelievePressure(x)
      PROVE  DropsExplained' /\ isPinned' \subseteq Registered'
  <2>1. at[x] = "pressure" /\ UNCHANGED Table /\ UNCHANGED target
        /\ \E place \in {"select", "watch"} : at' = [at EXCEPT ![x] = place]
    BY <1>k DEF RelievePressure, StartSelection, GoTo
  <2>2. \A y \in Threads : y # x => victim'[y] = victim[y]
    BY <1>k DEF RelievePressure, StartSelection, TableTypeOK
  <2>. QED
    BY <1>h, <2>1, <2>2
<1>l. ASSUME UNCHANGED winVars PROVE DropsExplained' /\ isPinned' \subseteq Registered'
  BY <1>l DEF winVars, DropsExplained, BeingDropped, Registering, LeakExplained, Registered
<1>m. ASSUME NEW x \in Threads, LookRaises(x)
      PROVE  DropsExplained' /\ isPinned' \subseteq Registered'
  <2>1. at[x] \in InEviction /\ RaiseOut(x) /\ UNCHANGED Table
    BY <1>m DEF LookRaises, InEviction
  <2>. QED
    BY <1>1, <1>r, <2>1 DEF Table, Registered
<1>n. ASSUME NEW x \in Threads, Select(x) \/ SelectNone(x)
      PROVE  DropsExplained' /\ isPinned' \subseteq Registered'
  <2>1. at[x] = "select" /\ UNCHANGED Table /\ target' = target
        /\ \E place \in {"evict", "pressure", "callback"} : at' = [at EXCEPT ![x] = place]
    BY <1>n DEF Select, SelectNone, StartEviction, GoTo
  <2>2. \A y \in Threads : y # x => victim'[y] = victim[y]
    BY <1>n DEF Select, SelectNone, StartEviction, TableTypeOK
  <2>3. /\ \A m \in WinModels : BeingDropped(m)' => BeingDropped(m)
        /\ \A m \in WinModels : Registering(m) => Registering(m)'
    BY <1>2, <2>1, <2>2
  <2>. QED
    BY <1>1, <2>1, <2>3 DEF Table, Registered
<1>. QED
  BY <1>m, <1>n, <1>a, <1>b, <1>c, <1>d, <1>e, <1>f, <1>g, <1>i, <1>j, <1>k, <1>l DEF WindowsModelsNext

LEMMA ModelsAreTracked == WindowsModelsSpec => []ModelsTracked
<1>1. TableInv /\ [WindowsModelsNext]_winVars => TableInv'
  BY StepPlaces, StepLimit, StepDrops DEF TableInv
<1>. QED
  BY <1>1, TableInvInit, TableInvImplies, PTL DEF WindowsModelsSpec

\* WindowsMemorySound for any blocks, sizes, limits, models and threads: through
\* every put, read, flush and eviction the block cache counts the bytes it holds,
\* keeps what was used last and reads what was put last; and every model that the
\* table lost was dropped by an eviction which the limit, a pin or pressure explains.
THEOREM WindowsMemoryIsSound == WindowsSpec => []WindowsMemorySound
  BY CacheIsExact, ModelsAreTracked, PTL DEF WindowsSpec, WindowsMemorySound
=============================================================================
