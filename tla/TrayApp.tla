------------------------------- MODULE TrayApp -------------------------------
(***************************************************************************)
(* The tray application of the Windows port, src/omlx/tray_app.py: a menu  *)
(* that starts and stops the server, threads that wait for the server to   *)
(* answer, and the end of the application.                                 *)
(*                                                                         *)
(* The server process is external: only one process can have the port, and *)
(* it stops answering when the pipe of its output, which nobody reads, is  *)
(* full.  The statistics only go into a message.                           *)
(***************************************************************************)
EXTENDS Naturals

CONSTANTS
    Processes,  \* server processes, as many as are started
    NoProcess,
    Waiters,    \* threads that wait for the server
    MaxExits    \* bound: processes that exit by themselves

ASSUME TrayAssumption == NoProcess \notin Processes /\ MaxExits \in Nat

VARIABLES
    process,    \* what each process does
    handle,     \* server_process
    serverOn,   \* server_running
    waiter,     \* each waiter: polling, with an answer ("answered"), with an answer
                \* that a stop has overtaken ("overtaken"), ended
    menu,       \* the thread of the menu: idle, in a stop ("stopping", "exiting"),
                \* about to take the icon away ("leaving"), gone
    reason,     \* why serverOn may be untrue: a failed stop, a late answer
    replaced,   \* processes whose handle was replaced by a later start
    exits

trayVars == <<process, handle, serverOn, waiter, menu, reason, replaced, exits>>

ProcessAlive(p) == process[p] \in {"loading", "serving", "blocked"}
PortTaken == \E p \in Processes : process[p] \in {"serving", "blocked"}
InStop == menu \in {"stopping", "exiting"}

TrayInit ==
    /\ process = [p \in Processes |-> "unborn"]
    /\ handle = NoProcess /\ serverOn = FALSE
    /\ waiter = [w \in Waiters |-> "unborn"]
    /\ menu = "idle" /\ reason = "none"
    /\ replaced = {} /\ exits = 0

-----------------------------------------------------------------------------
(* Server processes                                                        *)

\* A process that has loaded its models takes the port, or ends.
Listen(p) ==
    /\ process[p] = "loading"
    /\ process' = [process EXCEPT ![p] = IF PortTaken THEN "ended" ELSE "serving"]
    /\ UNCHANGED <<handle, serverOn, waiter, menu, reason, replaced, exits>>

\* It crashes or is ended by someone else, or its output fills the pipe.
Fail(p, state) ==
    /\ ProcessAlive(p) /\ (state = "blocked" => process[p] = "serving")
    /\ exits < MaxExits /\ exits' = exits + 1
    /\ process' = [process EXCEPT ![p] = state]
    /\ UNCHANGED <<handle, serverOn, waiter, menu, reason, replaced>>

-----------------------------------------------------------------------------
(* Waiters: _wait_for_server                                               *)

\* Some process answers the health check.
ServerAnswers(w) ==
    /\ waiter[w] = "polling" /\ menu # "gone"
    /\ \E p \in Processes : process[p] = "serving"
    /\ waiter' = [waiter EXCEPT ![w] = "answered"]
    /\ UNCHANGED <<process, handle, serverOn, menu, reason, replaced, exits>>

\* server_running = True; a stop, or the exit's look at it, can have come first.
MarkRunning(w) ==
    /\ waiter[w] \in {"answered", "overtaken"} /\ menu # "gone"
    /\ serverOn' = TRUE
    /\ reason' = IF waiter[w] = "overtaken" \/ menu = "leaving" THEN "lateAnswer" ELSE "none"
    /\ waiter' = [waiter EXCEPT ![w] = "ended"]
    /\ UNCHANGED <<process, handle, menu, replaced, exits>>

\* 30 attempts have failed.
GiveUp(w) ==
    /\ waiter[w] = "polling" /\ menu # "gone"
    /\ waiter' = [waiter EXCEPT ![w] = "ended"]
    /\ UNCHANGED <<process, handle, serverOn, menu, reason, replaced, exits>>

-----------------------------------------------------------------------------
(* The menu                                                                *)

\* _start_server; the processes are used in some order, without loss.
TrayStart ==
    /\ menu = "idle" /\ ~serverOn
    /\ \E p \in Processes, w \in Waiters :
         /\ process[p] = "unborn" /\ waiter[w] = "unborn"
         /\ process' = [process EXCEPT ![p] = "loading"]
         /\ replaced' = replaced \cup ({handle} \ {NoProcess})
         /\ handle' = p
         /\ waiter' = [waiter EXCEPT ![w] = "polling"]
    /\ UNCHANGED <<serverOn, menu, reason, exits>>

\* The waiters after a step of a stop.
AfterOvertaking ==
    [w \in Waiters |-> IF waiter[w] = "answered" THEN "overtaken" ELSE waiter[w]]

\* _stop_server, from the menu or from _exit_app: the process is told to end.
StopBegins(next, ended) ==
    /\ menu = "idle" /\ serverOn
    /\ menu' = next
    /\ process' = IF ended /\ handle # NoProcess
                  THEN [process EXCEPT ![handle] = "ended"] ELSE process
    /\ waiter' = AfterOvertaking
    /\ UNCHANGED <<handle, serverOn, reason, replaced, exits>>

\* What it leaves of the process it has a handle of: when it does not end within
\* 10 s it is killed.
AfterStop_Left(ended) == process
AfterStop(ended) == IF ended THEN process ELSE [process EXCEPT ![handle] = "ended"]

\* The tray stays in the state "running" when it had to kill.
StopEnds ==
    /\ InStop
    /\ LET ended == handle # NoProcess => ~ProcessAlive(handle) IN
         /\ process' = AfterStop(ended)
         /\ serverOn' = (serverOn /\ ~ended)
         /\ reason' = IF ended THEN "none" ELSE "failedStop"
    /\ handle' = NoProcess
    /\ menu' = IF menu = "exiting" THEN "leaving" ELSE "idle"
    /\ waiter' = AfterOvertaking
    /\ UNCHANGED <<replaced, exits>>

\* _exit_app finds no server that runs.
SkipStop ==
    /\ menu = "idle" /\ ~serverOn
    /\ menu' = "leaving"
    /\ UNCHANGED <<process, handle, serverOn, waiter, reason, replaced, exits>>

\* It takes the icon away; the threads end with it.
TrayLeave ==
    /\ menu = "leaving"
    /\ menu' = "gone"
    /\ UNCHANGED <<process, handle, serverOn, waiter, reason, replaced, exits>>

TrayNext ==
    \/ \E p \in Processes :
         Listen(p) \/ \E state \in {"ended", "blocked"} : Fail(p, state)
    \/ \E w \in Waiters : ServerAnswers(w) \/ MarkRunning(w) \/ GiveUp(w)
    \/ TrayStart \/ StopEnds \/ SkipStop \/ TrayLeave
    \/ \E next \in {"stopping", "exiting"}, ended \in BOOLEAN : StopBegins(next, ended)

TraySpec == TrayInit /\ [][TrayNext]_trayVars

-----------------------------------------------------------------------------
(* Properties                                                              *)

\* The tray loses no process but one that it replaced by a later start.  It
\* exits while it holds one and says "running" only when the answer came after
\* the exit had looked; and it says "running" with nothing alive only in the
\* middle of a stop, after one that failed, after a process that ended by
\* itself, or when an answer was recorded after a stop that followed it.
TrayExplained ==
    /\ \A p \in Processes :
         ProcessAlive(p) => p = handle \/ p \in replaced
    /\ menu = "gone" /\ serverOn => handle = NoProcess \/ reason = "lateAnswer"
    /\ serverOn /\ (\A p \in Processes : ~ProcessAlive(p)) =>
         InStop \/ reason # "none" \/ exits > 0

\* The comment "Stop server if running" of _exit_app (tray_app.py:326): after the
\* application has ended, no server that it started is alive.
\* TLC refutes it: see "Other disagreements" in the README.
ExitStopsServer == menu = "gone" => \A p \in Processes : ~ProcessAlive(p)
=============================================================================
