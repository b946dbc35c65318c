----------------------------- MODULE AppUpdate -----------------------------
(***************************************************************************)
(* The update of the macOS application (src/packaging/omlx_app/updater.py  *)
(* and app.py): a background thread downloads a disk image, mounts it and  *)
(* copies the new bundle next to the running one; the main thread then     *)
(* hands over to a detached script that waits for the process to exit,     *)
(* swaps the bundles and opens the new one.  Every launch removes what an  *)
(* earlier attempt left behind.                                            *)
(***************************************************************************)
EXTENDS Integers

CONSTANTS
    MaxLaunches,   \* bound: times the application is launched
    MaxUpdates     \* bound: updates begun

ASSUME AppUpdateAssumption == MaxLaunches \in Nat /\ MaxUpdates \in Nat

VARIABLES
    app,         \* the process: off or running
    launches, updates,
    offered,     \* _update_info: a newer release is known
    updater,     \* _updater is set: the menu shows progress instead of the offer
    worker,      \* where the background thread is
    image,       \* what of the download exists: nothing, a temporary directory, mounted
    staged,      \* the bundle .oMLX-update.app: none, partial or complete
    message,     \* delivered to the main thread later: none, error or ready
    bundle,      \* oMLX.app: old, new or missing
    script,      \* the swap script: none, waiting for the exit, removed the old bundle
    hasty        \* the application was opened while the script was at work

updateVars == <<app, launches, updates, offered, updater, worker, image, staged, message, bundle,
                script, hasty>>

UpdateInit ==
    /\ app = "off"
    /\ launches = 0
    /\ updates = 0
    /\ offered = FALSE
    /\ updater = FALSE
    /\ worker = "none"
    /\ image = "none"
    /\ staged = "none"
    /\ message = "none"
    /\ bundle = "old"
    /\ script = "none"
    /\ hasty = FALSE

\* _doFinishLaunching: leftovers go, and a release newer than the bundle is
\* offered if the server of releases answers.
LaunchApp ==
    /\ app = "off"
    /\ bundle # "missing"
    /\ launches < MaxLaunches
    /\ launches' = launches + 1
    /\ app' = "running"
    /\ staged' = "none"
    /\ \E found \in BOOLEAN : offered' = (found /\ bundle = "old")
    /\ hasty' = (hasty \/ script # "none")
    /\ UNCHANGED <<updates, updater, worker, image, message, bundle, script>>

\* The process ends, by quitting or a crash: threads and fields are gone, the
\* temporary directory and a mounted image stay.
ExitApp ==
    /\ app = "running"
    /\ app' = "off"
    /\ offered' = FALSE
    /\ updater' = FALSE
    /\ worker' = "none"
    /\ message' = "none"
    /\ UNCHANGED <<launches, updates, image, staged, bundle, script, hasty>>

\* openUpdate_ confirmed and _start_auto_update with a writable directory.
StartUpdate ==
    /\ app = "running" /\ offered /\ ~updater
    /\ updates < MaxUpdates
    /\ updates' = updates + 1
    /\ updater' = TRUE
    /\ worker' = "downloading"
    /\ image' = "directory"
    /\ UNCHANGED <<app, launches, offered, staged, message, bundle, script, hasty>>

\* _run: the image is complete and mounted, and a staged bundle is removed.
MountImage ==
    /\ worker = "downloading"
    /\ worker' = "staging"
    /\ image' = "mounted"
    /\ staged' = "none"
    /\ UNCHANGED <<app, launches, updates, offered, updater, message, bundle, script, hasty>>

CopyBundle ==
    /\ worker = "staging"
    /\ staged' = IF staged = "none" THEN "partial" ELSE "complete"
    /\ worker' = IF staged = "none" THEN "staging" ELSE "staged"
    /\ UNCHANGED <<app, launches, updates, offered, updater, image, message, bundle, script, hasty>>

UpdateReady ==
    /\ worker = "staged"
    /\ image' = "none"
    /\ message' = "ready"
    /\ worker' = "none"
    /\ UNCHANGED <<app, launches, updates, offered, updater, staged, bundle, script, hasty>>

\* Mutant: the ready callback is called in the finally block.
UpdateRaises_SignalsReady ==
    /\ worker # "none"
    /\ image' = "none"
    /\ message' = "ready"
    /\ worker' = "none"
    /\ UNCHANGED <<app, launches, updates, offered, updater, staged, bundle, script, hasty>>

\* Any exception on the way; the finally block unmounts and removes.
UpdateRaises ==
    /\ worker # "none"
    /\ image' = "none"
    /\ message' = "error"
    /\ worker' = "none"
    /\ UNCHANGED <<app, launches, updates, offered, updater, staged, bundle, script, hasty>>

\* updateErrorOnMain_
ShowError ==
    /\ app = "running" /\ message = "error"
    /\ message' = "none"
    /\ updater' = FALSE
    /\ UNCHANGED <<app, launches, updates, offered, worker, image, staged, bundle, script, hasty>>

\* updateReadyOnMain_: the server is stopped, the script started, and the
\* application terminates; without a staged bundle it says so and goes on.
SwapAndTerminate ==
    /\ app = "running" /\ message = "ready"
    /\ message' = "none"
    /\ updater' = FALSE
    /\ IF staged = "none"
       THEN UNCHANGED <<app, offered, script>>
       ELSE script' = "waiting" /\ app' = "off" /\ offered' = FALSE
    /\ UNCHANGED <<launches, updates, worker, image, staged, bundle, hasty>>

\* The script: rm -rf, then mv, then open.
ScriptRemoves ==
    /\ script = "waiting"
    /\ script' = "removed"
    /\ bundle' = "missing"
    /\ UNCHANGED <<app, launches, updates, offered, updater, worker, image, staged, message, hasty>>

ScriptMoves ==
    /\ script = "removed"
    /\ script' = "none"
    /\ staged' = "none"
    /\ bundle' = CASE staged = "none" -> "missing" [] staged = "partial" -> "partial"
                   [] staged = "complete" -> "new"
    /\ UNCHANGED <<app, launches, updates, offered, updater, worker, image, message, hasty>>

UpdateNext ==
    \/ LaunchApp \/ ExitApp \/ StartUpdate \/ MountImage \/ CopyBundle
    \/ UpdateReady \/ UpdateRaises \/ ShowError \/ SwapAndTerminate
    \/ ScriptRemoves \/ ScriptMoves

UpdateSpec == UpdateInit /\ [][UpdateNext]_updateVars

\* After any number of failed, interrupted or repeated updates the bundle is
\* the old one or the whole new one, and only a complete copy is ever handed
\* to the script; unless the application is opened while the script runs: its
\* launch then removes the bundle the script is about to move.
BundleWhole ==
    ~hasty =>
        /\ script = "none" => bundle \in {"old", "new"}
        /\ script # "none" \/ message = "ready" => staged = "complete"
=============================================================================
