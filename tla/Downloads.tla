----------------------------- MODULE Downloads -----------------------------
(***************************************************************************)
(* The model downloader of one hub (src/omlx/admin/hf_downloader.py; the   *)
(* one in ms_downloader.py has the same states).                           *)
(*                                                                         *)
(* A task of the admin panel is an attempt: a coroutine that waits for a   *)
(* semaphore, asks the hub for the size of the repository, then has a      *)
(* thread fetch it while a second coroutine polls the directory.  Handlers *)
(* cancel, remove and retry tasks in between.  Cancelling a coroutine      *)
(* throws CancelledError into it at its next turn and does not stop the    *)
(* thread.                                                                 *)
(***************************************************************************)
EXTENDS Integers, Sequences, FiniteSets, SequencesExt

CONSTANTS
    Tasks,   \* task ids (uuid4, never used twice)
    Repos,   \* repositories of the hub
    None

ASSUME DownloadAssumption == None \notin Tasks /\ None \notin Repos

VARIABLES
    listed,     \* _tasks: the tasks the panel shows
    repo,       \* repo[t]: the repository of a task, or None if never started
    status,     \* status[t] of the task object, which outlives its listing
    attempt,    \* attempt[t]: where the coroutine _run_download is
    unwinding,  \* coroutines that CancelledError will be thrown into
    cancelled,  \* _cancelled
    active,     \* _active_tasks
    polling,    \* tasks with a live _poll_progress coroutine
    holder,     \* the attempt that holds _download_sem, or None
    waiters,    \* the attempts waiting for it, in order
    thread,     \* thread[t]: none, empty (nothing written yet), running, ok or failed
    closed      \* shutdown() was called

downloadVars == <<listed, repo, status, attempt, unwinding, cancelled, active, polling,
                  holder, waiters, thread, closed>>

ActiveStatus == {"pending", "downloading"}
Fetching(t) == thread[t] \in {"empty", "running"}

DownloadInit ==
    /\ listed = {}
    /\ repo = [t \in Tasks |-> None]
    /\ status = [t \in Tasks |-> "none"]
    /\ attempt = [t \in Tasks |-> "none"]
    /\ unwinding = {}
    /\ cancelled = {}
    /\ active = {}
    /\ polling = {}
    /\ holder = None
    /\ waiters = << >>
    /\ thread = [t \in Tasks |-> "none"]
    /\ closed = FALSE

-----------------------------------------------------------------------------
(* Handlers                                                                *)

Duplicate(r) == \E t \in listed : repo[t] = r /\ status[t] \in ActiveStatus

\* start_download, unless the repository is already being downloaded.
StartDownload(t, r) ==
    /\ ~closed
    /\ repo[t] = None
    /\ ~Duplicate(r)
    /\ listed' = listed \cup {t}
    /\ repo' = [repo EXCEPT ![t] = r]
    /\ status' = [status EXCEPT ![t] = "pending"]
    /\ attempt' = [attempt EXCEPT ![t] = "created"]
    /\ active' = active \cup {t}
    /\ UNCHANGED <<unwinding, cancelled, polling, holder, waiters, thread, closed>>

\* cancel_download: the coroutine learns of it later.
CancelDownload(t) ==
    /\ ~closed
    /\ t \in listed
    /\ status[t] \in ActiveStatus
    /\ cancelled' = cancelled \cup {t}
    /\ status' = [status EXCEPT ![t] = "cancelled"]
    /\ polling' = polling \ {t}
    /\ active' = active \ {t}
    /\ unwinding' = IF t \in active /\ attempt[t] # "done" THEN unwinding \cup {t} ELSE unwinding
    /\ UNCHANGED <<listed, repo, attempt, holder, waiters, thread, closed>>

RemoveTask(t) ==
    /\ ~closed
    /\ t \in listed
    /\ status[t] \notin ActiveStatus
    /\ listed' = listed \ {t}
    /\ cancelled' = cancelled \ {t}
    /\ UNCHANGED <<repo, status, attempt, unwinding, active, polling, holder, waiters, thread,
                   closed>>

\* retry_download forgets the old task, also that it was cancelled, and then
\* starts a new one; if start_download refuses, the old one is gone as well.
RetryDownload(t, new) ==
    /\ ~closed
    /\ t \in listed
    /\ status[t] \in {"failed", "cancelled"}
    /\ repo[new] = None
    /\ cancelled' = cancelled \ {t}
    /\ IF Duplicate(repo[t])
       THEN /\ listed' = listed \ {t}
            /\ UNCHANGED <<repo, status, attempt, active>>
       ELSE /\ listed' = (listed \ {t}) \cup {new}
            /\ repo' = [repo EXCEPT ![new] = repo[t]]
            /\ status' = [status EXCEPT ![new] = "pending"]
            /\ attempt' = [attempt EXCEPT ![new] = "created"]
            /\ active' = active \cup {new}
    /\ UNCHANGED <<unwinding, polling, holder, waiters, thread, closed>>

\* shutdown() when the server stops.
ShutdownDownloads ==
    /\ ~closed
    /\ closed' = TRUE
    /\ polling' = {}
    /\ active' = {}
    /\ unwinding' = unwinding \cup {t \in active : attempt[t] # "done"}
    /\ status' = [t \in Tasks |->
                    IF t \in active \cap listed /\ attempt[t] # "done" /\ status[t] = "downloading"
                    THEN "cancelled" ELSE status[t]]
    /\ UNCHANGED <<listed, repo, attempt, cancelled, holder, waiters, thread>>

-----------------------------------------------------------------------------
(* The coroutine _run_download                                             *)

\* Mutant: an attempt that was only waiting releases the semaphore too.
Leave_ReleasesAlways(t) ==
    /\ attempt' = [attempt EXCEPT ![t] = "done"]
    /\ holder' = None
    /\ waiters' = RemoveFirst(waiters, t)
    /\ polling' = polling \ {t}
    /\ active' = active \ {t}
    /\ unwinding' = unwinding \ {t}

\* Mutant: a cancelled attempt does not release the semaphore.
Leave_Keeps(t) ==
    /\ attempt' = [attempt EXCEPT ![t] = "done"]
    /\ UNCHANGED holder
    /\ waiters' = RemoveFirst(waiters, t)
    /\ polling' = polling \ {t}
    /\ active' = active \ {t}
    /\ unwinding' = unwinding \ {t}

\* Leaving `async with`, then the finally block.
Leave(t) ==
    /\ attempt' = [attempt EXCEPT ![t] = "done"]
    /\ holder' = IF holder = t THEN None ELSE holder
    /\ waiters' = RemoveFirst(waiters, t)
    /\ polling' = polling \ {t}
    /\ active' = active \ {t}
    /\ unwinding' = unwinding \ {t}

\* With the semaphore: the check for a cancellation, then the size request.
Entered(t) ==
    /\ status' = [status EXCEPT ![t] = "downloading"]
    /\ attempt' = [attempt EXCEPT ![t] = "sizing"]
    /\ holder' = t
    /\ UNCHANGED <<polling, active, unwinding>>

BeginAttempt(t) ==
    /\ attempt[t] = "created"
    /\ t \notin unwinding
    /\ IF holder = None /\ waiters = << >>
       THEN Entered(t) /\ UNCHANGED waiters
       ELSE /\ attempt' = [attempt EXCEPT ![t] = "queued"]
            /\ waiters' = Append(waiters, t)
            /\ UNCHANGED <<status, holder, polling, active, unwinding>>
    /\ UNCHANGED <<listed, repo, cancelled, thread, closed>>

AcquireSemaphore(t) ==
    /\ attempt[t] = "queued"
    /\ t \notin unwinding
    /\ holder = None
    /\ Head(waiters) = t
    /\ IF t \in cancelled
       THEN Leave(t) /\ UNCHANGED status
       ELSE Entered(t) /\ waiters' = Tail(waiters)
    /\ UNCHANGED <<listed, repo, cancelled, thread, closed>>

\* The size is known, or not (an error or a timeout only costs the progress
\* bar); polling starts, then the thread.
StartThread(t) ==
    /\ attempt[t] = "sizing"
    /\ t \notin unwinding
    /\ attempt' = [attempt EXCEPT ![t] = "fetching"]
    /\ thread' = [thread EXCEPT ![t] = "empty"]
    /\ polling' = polling \cup {t}
    /\ UNCHANGED <<listed, repo, status, unwinding, cancelled, active, holder, waiters, closed>>

\* The thread returned: completed, and the pool looks for new models.
FetchCompleted(t) ==
    /\ attempt[t] = "fetching"
    /\ t \notin unwinding
    /\ thread[t] = "ok"
    /\ IF t \in cancelled
       THEN Leave(t) /\ UNCHANGED status
       ELSE /\ status' = [status EXCEPT ![t] = "completed"]
            /\ attempt' = [attempt EXCEPT ![t] = "refreshing"]
            /\ UNCHANGED <<holder, waiters, polling, active, unwinding>>
    /\ UNCHANGED <<listed, repo, cancelled, thread, closed>>

\* _on_complete returned or raised; the semaphore was held until now.
PoolRefreshed(t) ==
    /\ attempt[t] = "refreshing"
    /\ t \notin unwinding
    /\ Leave(t)
    /\ UNCHANGED <<listed, repo, status, cancelled, thread, closed>>

\* The thread raised: repository not found, gated, or any other error.
FetchRaised(t) ==
    /\ attempt[t] = "fetching"
    /\ t \notin unwinding
    /\ thread[t] = "failed"
    /\ Leave(t)
    /\ status' = [status EXCEPT ![t] = IF t \in cancelled THEN @ ELSE "failed"]
    /\ UNCHANGED <<listed, repo, cancelled, thread, closed>>

\* CancelledError arrives.  A coroutine that has not begun runs no code.
Unwind(t) ==
    /\ t \in unwinding
    /\ attempt[t] # "done"
    /\ IF attempt[t] = "created"
       THEN /\ attempt' = [attempt EXCEPT ![t] = "done"]
            /\ unwinding' = unwinding \ {t}
            /\ UNCHANGED <<status, polling, active, holder, waiters>>
       ELSE /\ Leave(t)
            /\ status' = [status EXCEPT ![t] = IF @ \in {"cancelled", "failed"} THEN @ ELSE "cancelled"]
    /\ UNCHANGED <<listed, repo, cancelled, thread, closed>>

-----------------------------------------------------------------------------
(* The thread in snapshot_download, and the polling coroutine              *)

FirstBytes(t) ==
    /\ thread[t] = "empty"
    /\ thread' = [thread EXCEPT ![t] = "running"]
    /\ UNCHANGED <<listed, repo, status, attempt, unwinding, cancelled, active, polling, holder,
                   waiters, closed>>

ThreadEnds(t) ==
    /\ Fetching(t)
    /\ \E result \in {"ok", "failed"} : thread' = [thread EXCEPT ![t] = result]
    /\ UNCHANGED <<listed, repo, status, attempt, unwinding, cancelled, active, polling, holder,
                   waiters, closed>>

\* No change in the directory for _STALL_TIMEOUT: failed, and cancelled.  A
\* directory that is still empty never counts as stalled.
PollStall(t) ==
    /\ t \in polling
    /\ status[t] = "downloading"
    /\ thread[t] # "empty"
    /\ status' = [status EXCEPT ![t] = "failed"]
    /\ unwinding' = IF t \in active /\ attempt[t] # "done" THEN unwinding \cup {t} ELSE unwinding
    /\ polling' = polling \ {t}
    /\ UNCHANGED <<listed, repo, attempt, cancelled, active, holder, waiters, thread, closed>>

PollEnds(t) ==
    /\ t \in polling
    /\ status[t] # "downloading"
    /\ polling' = polling \ {t}
    /\ UNCHANGED <<listed, repo, status, attempt, unwinding, cancelled, active, holder, waiters,
                   thread, closed>>

-----------------------------------------------------------------------------
CoroutineStep(t) ==
    \/ BeginAttempt(t) \/ AcquireSemaphore(t) \/ StartThread(t)
    \/ FetchCompleted(t) \/ PoolRefreshed(t) \/ FetchRaised(t) \/ Unwind(t)

DownloadNext ==
    \/ \E t \in Tasks :
         \/ \E r \in Repos : StartDownload(t, r)
         \/ CancelDownload(t) \/ RemoveTask(t)
         \/ \E new \in Tasks : RetryDownload(t, new)
         \/ CoroutineStep(t)
         \/ FirstBytes(t) \/ ThreadEnds(t) \/ PollStall(t) \/ PollEnds(t)
    \/ ShutdownDownloads

\* The event loop runs ready coroutines.  A thread that has written something
\* ends or is declared stalled; one that has not may hang for ever.
DownloadFairness ==
    \A t \in Tasks :
        /\ WF_downloadVars(CoroutineStep(t))
        /\ WF_downloadVars(thread[t] = "running" /\ (ThreadEnds(t) \/ PollStall(t)))

DownloadSpec == DownloadInit /\ [][DownloadNext]_downloadVars /\ DownloadFairness

-----------------------------------------------------------------------------
(* Properties                                                              *)

\* A task the panel shows as active has a coroutine that will change that,
\* and can be cancelled: otherwise its repository could never be downloaded
\* again (start_download refuses a duplicate) nor the entry removed.
ActiveIsServed ==
    ~closed =>
        \A t \in listed :
            status[t] \in ActiveStatus =>
                t \in active /\ attempt[t] \in {"created", "queued", "sizing", "fetching"}

\* The semaphore has one holder, an attempt past it and not finished, however
\* attempts were cancelled, stalled, removed or retried meanwhile; only the
\* holder is shown as downloading.
SemaphoreExact ==
    /\ \A t \in Tasks : attempt[t] \in {"sizing", "fetching", "refreshing"} <=> holder = t
    /\ \A t \in listed : status[t] = "downloading" /\ ~closed => holder = t
    /\ \A t \in Tasks : attempt[t] = "queued" <=> t \in ToSet(waiters)

\* "only one download runs at a time" holds up to cancellation: a fetch of
\* another attempt than the semaphore's holder belongs to a cancelled or
\* stalled one, whose thread nobody stops.
ThreadsExplained ==
    \A t \in Tasks :
        Fetching(t) /\ holder # t => attempt[t] = "done" /\ status[t] \in {"cancelled", "failed"}

\* The panel, the semaphore and the threads agree.
DownloadsConsistent == ActiveIsServed /\ SemaphoreExact /\ ThreadsExplained

\* The docstring of _run_download: "only one download runs at a time".
\* TLC refutes it: see "Other disagreements" in the README.
OneAtATime == Cardinality({t \in Tasks : Fetching(t)}) <= 1

\* A queued download gets its turn unless the one in front never receives a
\* byte, which stall detection does not see.
QueueMoves ==
    \A t \in Tasks :
        status[t] = "pending" ~> (status[t] # "pending" \/ closed \/ \E u \in Tasks : thread[u] = "empty")
=============================================================================
