--------------------------- MODULE ServerManager ---------------------------
(***************************************************************************)
(* The macOS menu bar application and the server process it manages        *)
(* (src/packaging/omlx_app/server_manager.py, app.py, welcome.py).         *)
(*                                                                         *)
(* The main thread runs the menu actions.  Every start() leaves a health   *)
(* check thread behind that polls the server, restarts it after a crash    *)
(* and ends when the stop event is set.  The threads share the fields of   *)
(* the manager without a lock.  The port of the configuration is one.      *)
(***************************************************************************)
EXTENDS Integers, FiniteSets

CONSTANTS
    MaxHealthFailures,  \* _max_health_failures
    MaxAutoRestarts,    \* _max_auto_restarts
    StableThreshold,    \* _stable_threshold, in checks
    MaxSpawns,          \* bound: server processes started
    MaxLoops            \* bound: health check threads started

ASSUME ServerManagerAssumption ==
    /\ MaxHealthFailures \in Nat \ {0} /\ MaxAutoRestarts \in Nat
    /\ StableThreshold \in Nat \ {0}
    /\ MaxSpawns \in Nat /\ MaxLoops \in Nat

Pids == 1 .. MaxSpawns
Loops == 1 .. MaxLoops

VARIABLES
    serverStatus,     \* _status
    child,            \* _process, 0 is None
    proc,             \* proc[p]: unborn, booting (port not bound), serving or dead
    external,         \* who else is on the port: nobody, a server of ours, another program
    adopted,          \* _adopted
    healthFailures,   \* _consecutive_health_failures
    autoRestarts,     \* _auto_restart_count
    sinceHealthy,     \* checks since _last_healthy_time, -1 if never healthy
    stableRun,        \* consecutive healthy checks of the child, for a property
    stopEvent,        \* _stop_health_check is set
    loop,             \* loop[l]: where a health check thread is
    watcher,          \* _health_check_thread, 0 is None
    ui,               \* what the main thread is doing
    wanted,           \* the last thing the user asked for was a server
    gaveUp,           \* stableRun when the last automatic restart was refused, or -1
    raced             \* the main thread went on while a check thread could still act

serverVars == <<serverStatus, child, proc, external, adopted, healthFailures, autoRestarts,
                sinceHealthy, stableRun, stopEvent, loop, watcher, ui, wanted, gaveUp, raced>>

Watched == {"running", "unresponsive"}
Alive(p) == proc[p] \in {"booting", "serving"}
ChildExited == child \in {p \in Pids : proc[p] = "dead"}
LiveProcesses == {p \in Pids : Alive(p)}
CanWatch == \E l \in Loops : loop[l] = "none"
LiveLoops == {l \in Loops : loop[l] \notin {"none", "ended"}}

ServerInit ==
    /\ serverStatus = "stopped"
    /\ child = 0
    /\ proc = [p \in Pids |-> "unborn"]
    /\ external \in {"nobody", "omlx", "other"}
    /\ adopted = FALSE
    /\ healthFailures = 0
    /\ autoRestarts = 0
    /\ sinceHealthy = -1
    /\ stableRun = 0
    /\ stopEvent = FALSE
    /\ loop = [l \in Loops |-> "none"]
    /\ watcher = 0
    /\ ui = "idle"
    /\ wanted = FALSE
    /\ gaveUp = -1
    /\ raced = FALSE

-----------------------------------------------------------------------------
(* The port and the processes                                              *)

PortInUse == external # "nobody" \/ \E p \in Pids : proc[p] = "serving"
Healthy == external = "omlx" \/ \E p \in Pids : proc[p] = "serving"

processRest == <<serverStatus, child, adopted, healthFailures, autoRestarts, sinceHealthy,
                 stableRun, stopEvent, loop, watcher, ui, wanted, gaveUp, raced>>

\* A server that finds its port taken exits.
Bind(p) ==
    /\ proc[p] = "booting"
    /\ proc' = [proc EXCEPT ![p] = IF PortInUse THEN "dead" ELSE "serving"]
    /\ UNCHANGED <<external, processRest>>

Crash(p) ==
    /\ Alive(p)
    /\ proc' = [proc EXCEPT ![p] = "dead"]
    /\ UNCHANGED <<external, processRest>>

ExternalStops ==
    /\ external # "nobody"
    /\ external' = "nobody"
    /\ UNCHANGED <<proc, processRest>>

\* _do_start finds the port taken, cannot launch, or launches a process.
PortConflict == PortInUse
LaunchFails == ~PortInUse
Launch(p) ==
    /\ ~PortInUse
    /\ proc[p] = "unborn"
    /\ \A q \in Pids : q < p => proc[q] # "unborn"
    /\ proc' = [proc EXCEPT ![p] = "booting"]
    /\ child' = p
    /\ adopted' = FALSE
    /\ healthFailures' = 0
    /\ stableRun' = 0

\* Mutant: the process is forgotten and not killed.
CleanupDeadProcess_NoKill == child' = 0 /\ UNCHANGED proc

\* _cleanup_dead_process: SIGKILL to the process group, and forget it.
CleanupDeadProcess ==
    /\ child' = 0
    /\ proc' = IF child # 0 THEN [proc EXCEPT ![child] = "dead"] ELSE proc

-----------------------------------------------------------------------------
(* The main thread                                                         *)

\* start(): also the start button of the welcome window.
BeginStart ==
    IF serverStatus \in {"running", "starting"}
    THEN ui' = "idle" /\ UNCHANGED serverStatus
    ELSE ui' = "launching" /\ serverStatus' = "starting"

\* Some thread survives from before, in the middle of something or idle.
StartServer ==
    /\ ui = "idle"
    /\ CanWatch
    /\ serverStatus \notin {"running", "starting"}
    /\ BeginStart
    /\ wanted' = TRUE
    /\ raced' = (raced \/ LiveLoops # {})
    /\ UNCHANGED <<child, proc, external, adopted, healthFailures, autoRestarts, sinceHealthy,
                   stableRun, stopEvent, loop, watcher, gaveUp>>

UIConflict ==
    /\ ui = "launching"
    /\ PortConflict
    /\ serverStatus' = "stopped"
    /\ ui' = "dialog"
    /\ UNCHANGED <<child, proc, external, adopted, healthFailures, autoRestarts, sinceHealthy,
                   stableRun, stopEvent, loop, watcher, wanted, gaveUp, raced>>

UILaunchFails ==
    /\ ui = "launching"
    /\ LaunchFails
    /\ serverStatus' = "error"
    /\ adopted' = FALSE
    /\ healthFailures' = 0
    /\ ui' = "idle"
    /\ UNCHANGED <<child, proc, external, autoRestarts, sinceHealthy, stableRun, stopEvent,
                   loop, watcher, wanted, gaveUp, raced>>

UILaunch ==
    /\ ui = "launching"
    /\ \E p \in Pids : Launch(p)
    /\ ui' = "watching"
    /\ UNCHANGED <<serverStatus, external, autoRestarts, sinceHealthy, stopEvent, loop, watcher,
                   wanted, gaveUp, raced>>

\* A new health check thread; an earlier one that has not ended goes on too.
StartLoop(l) ==
    /\ loop[l] = "none"
    /\ \A m \in Loops : m < l => loop[m] # "none"
    /\ stopEvent' = FALSE
    /\ loop' = [loop EXCEPT ![l] = "idle"]
    /\ watcher' = l

WatchChild ==
    /\ ui = "watching"
    /\ \E l \in Loops : StartLoop(l)
    /\ ui' = "idle"
    /\ UNCHANGED <<serverStatus, child, proc, external, adopted, healthFailures, autoRestarts,
                   sinceHealthy, stableRun, wanted, gaveUp, raced>>

\* The dialog about the taken port: adopt, kill and start again, or cancel.
Adopt ==
    /\ ui = "dialog"
    /\ external # "other"
    /\ ui' = "idle"
    /\ IF Healthy
       THEN /\ adopted' = TRUE
            /\ child' = 0
            /\ serverStatus' = "running"
            /\ \E l \in Loops : StartLoop(l)
       ELSE serverStatus' = "error" /\ UNCHANGED <<adopted, child, stopEvent, loop, watcher>>
    /\ UNCHANGED <<proc, external, healthFailures, autoRestarts, sinceHealthy, stableRun, wanted,
                   gaveUp, raced>>

KillAndRestart ==
    /\ ui = "dialog"
    /\ external # "other"
    /\ external' = "nobody"
    /\ proc' = [p \in Pids |-> IF proc[p] = "serving" THEN "dead" ELSE proc[p]]
    /\ BeginStart
    /\ UNCHANGED <<child, adopted, healthFailures, autoRestarts, sinceHealthy, stableRun,
                   stopEvent, loop, watcher, wanted, gaveUp, raced>>

CancelDialog ==
    /\ ui = "dialog"
    /\ ui' = "idle"
    /\ wanted' = FALSE
    /\ UNCHANGED <<serverStatus, child, proc, external, adopted, healthFailures, autoRestarts,
                   sinceHealthy, stableRun, stopEvent, loop, watcher, gaveUp, raced>>

\* stop().  With _process None there is nothing to kill and nothing to join.
BeginStop(then) ==
    \/ /\ adopted
       /\ stopEvent' = TRUE
       /\ ui' = "joining to release"
       /\ UNCHANGED serverStatus
    \/ /\ ~adopted /\ child = 0
       /\ serverStatus' = "stopped"
       /\ ui' = then
       /\ UNCHANGED stopEvent
    \/ /\ ~adopted /\ child # 0
       /\ serverStatus' = "stopping"
       /\ stopEvent' = TRUE
       /\ ui' = "joining to kill"

StopServer ==
    /\ ui = "idle"
    /\ serverStatus \in Watched \cup {"starting"}
    /\ BeginStop("idle")
    /\ wanted' = FALSE
    /\ raced' = (raced \/ \E l \in Loops : loop[l] \in {"backoff", "respawning"})
    /\ UNCHANGED <<child, proc, external, adopted, healthFailures, autoRestarts, sinceHealthy,
                   stableRun, loop, watcher, gaveUp>>

\* join(timeout=2): the thread ended, or is blocked in a request or a launch.
\* Threads of earlier starts are not joined.
Joined == watcher # 0 => loop[watcher] \in {"ended", "checking", "checking start", "respawning"}
JoinRaces == \E l \in LiveLoops : loop[l] # "idle" \/ l # watcher

ReleaseAdopted ==
    /\ ui = "joining to release"
    /\ Joined
    /\ adopted' = FALSE
    /\ serverStatus' = "stopped"
    /\ ui' = "idle"
    /\ raced' = (raced \/ JoinRaces)
    /\ UNCHANGED <<child, proc, external, healthFailures, autoRestarts, sinceHealthy, stableRun,
                   stopEvent, loop, watcher, wanted, gaveUp>>

\* SIGTERM, SIGKILL after a while; a process that was already gone is fine,
\* one that a check thread has cleaned up meanwhile is an AttributeError.
KillChild ==
    /\ ui = "joining to kill"
    /\ Joined
    /\ ui' = "idle"
    /\ serverStatus' = IF child = 0 THEN "error" ELSE "stopped"
    /\ CleanupDeadProcess
    /\ raced' = (raced \/ JoinRaces)
    /\ UNCHANGED <<external, adopted, healthFailures, autoRestarts, sinceHealthy, stableRun,
                   stopEvent, loop, watcher, wanted, gaveUp>>

\* force_restart(), offered when the server is unresponsive or in error.
ForceRestart ==
    /\ ui = "idle"
    /\ CanWatch
    /\ serverStatus \in {"unresponsive", "error"}
    /\ CleanupDeadProcess
    /\ autoRestarts' = 0
    /\ healthFailures' = 0
    /\ stopEvent' = TRUE
    /\ ui' = "joining to restart"
    /\ wanted' = TRUE
    /\ UNCHANGED <<serverStatus, external, adopted, sinceHealthy, stableRun, loop, watcher,
                   gaveUp, raced>>

RestartJoined ==
    /\ ui = "joining to restart"
    /\ Joined
    /\ BeginStart
    /\ raced' = (raced \/ JoinRaces)
    /\ UNCHANGED <<child, proc, external, adopted, healthFailures, autoRestarts, sinceHealthy,
                   stableRun, stopEvent, loop, watcher, wanted, gaveUp>>

-----------------------------------------------------------------------------
(* _health_check_loop                                                      *)

Goto(l, at) == loop' = [loop EXCEPT ![l] = at]

LoopTop(l) ==
    /\ loop[l] = "idle"
    /\ \/ stopEvent /\ Goto(l, "ended")
       \/ ~stopEvent /\ serverStatus \in Watched /\ Goto(l, "checking")
       \/ ~stopEvent /\ serverStatus = "starting" /\ Goto(l, "checking start")
    /\ UNCHANGED <<serverStatus, child, proc, external, adopted, healthFailures, autoRestarts,
                   sinceHealthy, stableRun, stopEvent, watcher, ui, wanted, gaveUp, raced>>

CheckSucceeds(l) ==
    /\ loop[l] \in {"checking", "checking start"}
    /\ Healthy
    /\ healthFailures' = 0
    /\ sinceHealthy' = 0
    /\ stableRun' = IF stableRun < StableThreshold THEN stableRun + 1 ELSE stableRun
    /\ serverStatus' = IF loop[l] = "checking start" \/ serverStatus = "unresponsive"
                       THEN "running" ELSE serverStatus
    /\ Goto(l, "idle")
    /\ UNCHANGED <<child, proc, external, adopted, autoRestarts, stopEvent, watcher, ui, wanted,
                   gaveUp, raced>>

\* A failed check of a server that is alive, or not ours.
CheckFails(l) ==
    /\ loop[l] \in {"checking", "checking start"}
    /\ ~ChildExited \/ (loop[l] = "checking" /\ adopted)
    /\ sinceHealthy' = IF sinceHealthy \in 0 .. StableThreshold - 1
                       THEN sinceHealthy + 1 ELSE sinceHealthy
    /\ Goto(l, "idle")
    /\ IF loop[l] = "checking start"
       THEN UNCHANGED <<serverStatus, healthFailures, adopted>>
       ELSE LET failures == IF healthFailures < MaxHealthFailures THEN healthFailures + 1
                            ELSE healthFailures
            IN /\ healthFailures' = failures
               /\ adopted' = FALSE
               /\ serverStatus' = IF adopted THEN "error"
                                  ELSE IF failures >= MaxHealthFailures THEN "unresponsive"
                                  ELSE serverStatus
    /\ UNCHANGED <<child, proc, external, autoRestarts, stableRun, stopEvent, watcher, ui,
                   wanted, gaveUp, raced>>

\* The process exited: _try_auto_restart, up to its back-off.
CheckFindsExit(l) ==
    /\ \/ loop[l] = "checking" /\ ~adopted
       \/ loop[l] = "checking start"
    /\ ChildExited
    /\ LET count == IF sinceHealthy >= StableThreshold THEN 0 ELSE autoRestarts
       IN IF count >= MaxAutoRestarts
          THEN /\ autoRestarts' = count
               /\ serverStatus' = "error"
               /\ gaveUp' = stableRun
               /\ Goto(l, "idle")
               /\ UNCHANGED healthFailures
          ELSE /\ autoRestarts' = count + 1
               /\ healthFailures' = 0
               /\ Goto(l, "backoff")
               /\ UNCHANGED <<serverStatus, gaveUp>>
    /\ CleanupDeadProcess
    /\ UNCHANGED <<external, adopted, sinceHealthy, stableRun, stopEvent, watcher, ui, wanted,
                   raced>>

BackoffEnds(l) ==
    /\ loop[l] = "backoff"
    /\ IF stopEvent
       THEN Goto(l, "idle") /\ UNCHANGED serverStatus
       ELSE Goto(l, "respawning") /\ serverStatus' = "starting"
    /\ UNCHANGED <<child, proc, external, adopted, healthFailures, autoRestarts, sinceHealthy,
                   stableRun, stopEvent, watcher, ui, wanted, gaveUp, raced>>

Respawn(l) ==
    /\ loop[l] = "respawning"
    /\ \E p \in Pids : Launch(p)
    /\ Goto(l, "idle")
    /\ UNCHANGED <<serverStatus, external, autoRestarts, sinceHealthy, stopEvent, watcher, ui,
                   wanted, gaveUp, raced>>

RespawnFails(l) ==
    /\ loop[l] = "respawning"
    /\ serverStatus' = "error"
    /\ Goto(l, "idle")
    /\ \/ PortConflict /\ UNCHANGED <<adopted, healthFailures>>
       \/ LaunchFails /\ adopted' = FALSE /\ healthFailures' = 0
    /\ UNCHANGED <<child, proc, external, autoRestarts, sinceHealthy, stableRun, stopEvent,
                   watcher, ui, wanted, gaveUp, raced>>

-----------------------------------------------------------------------------
UIStep ==
    \/ UIConflict \/ UILaunchFails \/ UILaunch \/ WatchChild
    \/ Adopt \/ KillAndRestart \/ CancelDialog
    \/ ReleaseAdopted \/ KillChild \/ RestartJoined

LoopStep(l) ==
    \/ LoopTop(l) \/ CheckSucceeds(l) \/ CheckFails(l) \/ CheckFindsExit(l)
    \/ BackoffEnds(l) \/ Respawn(l) \/ RespawnFails(l)

ServerNext ==
    \/ StartServer \/ StopServer \/ ForceRestart \/ UIStep
    \/ \E l \in Loops : LoopStep(l)
    \/ \E p \in Pids : Bind(p) \/ Crash(p)
    \/ ExternalStops

\* Threads run, and the user answers a dialog; the processes owe nothing.
ServerFairness ==
    /\ \A l \in Loops : WF_serverVars(LoopStep(l))
    /\ WF_serverVars(UIStep)

ServerSpec == ServerInit /\ [][ServerNext]_serverVars /\ ServerFairness

-----------------------------------------------------------------------------
(* Properties                                                              *)

\* No server process is lost: what runs is what the manager would stop, a
\* stopped manager runs nothing and a started one is watched by its thread.
\* It takes two threads at work on the fields to break this: a stop during the
\* back-off of a restart, a join that timed out, or a start while the thread
\* of an earlier one is still there.
ProcessesExplained ==
    ~raced =>
        /\ LiveProcesses \subseteq {child}
        /\ Cardinality(LiveLoops) <= 1
        /\ ui = "idle" /\ serverStatus = "stopped" => LiveProcesses = {}
        /\ ui = "idle" /\ serverStatus \in Watched \cup {"starting"} =>
             watcher \in LiveLoops /\ ~stopEvent

\* A crash is noticed: the server is restarted, given up on or stopped by the
\* user; unless another server answers in its place, or threads raced.
CrashNoticed ==
    ChildExited /\ serverStatus \in {"starting", "running", "unresponsive"} ~>
        ~ChildExited \/ serverStatus \in {"stopped", "error"} \/ Healthy \/ raced

\* The comment in _try_auto_restart, "stop() was called during backoff": a
\* restart does not bring back a server the user has stopped.
\* TLC refutes it: see "Other disagreements" in the README.
StopIsFinal == ui = "idle" /\ ~wanted => LiveProcesses = {}

\* The comments on _stable_threshold: after a stable run the next crash counts
\* as a new one, so that giving up takes crashes in a row.
\* TLC refutes it: see "Other disagreements" in the README.
StableRunForgiven == gaveUp < StableThreshold
=============================================================================
