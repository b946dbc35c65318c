--------------------------- MODULE AdminSettings ---------------------------
(***************************************************************************)
(* The global settings (src/omlx/settings.py), their use at start          *)
(* (src/omlx/cli.py, src/omlx/server.py) and the admin requests that       *)
(* change them (src/omlx/admin/routes.py, src/omlx/admin/auth.py).         *)
(*                                                                         *)
(* An update changes the settings in memory and the running server section *)
(* by section, awaits while models are unloaded, and is validated and      *)
(* saved last; other admin requests run while it waits.  A file is written *)
(* in place.                                                               *)
(***************************************************************************)
EXTENDS Integers, FiniteSets

CONSTANTS
    Keys,           \* API keys that validate_api_key accepts
    NoKey,
    Home,           \* base_path/models, which can always be created
    Drives,         \* model directories that may be disconnected
    EditRequests,   \* bodies of POST /api/global-settings: field -> value
    Overrides,      \* values from the command line or the environment
    Absent, Torn,   \* contents of settings.json that are no settings
    Edits,          \* bound: updates of the global settings
    MaxStarts,      \* bound: starts of the server
    MaxMishaps      \* bound: saves that fail, and changes of the connected drives

ASSUME AdminSettingsAssumption ==
    /\ NoKey \notin Keys /\ Home \notin Drives
    /\ \A o \in Overrides : DOMAIN o \cap {"subs", "secret", "skip"} = {}
    /\ MaxStarts \in Nat /\ MaxMishaps \in Nat

VARIABLES
    settings,     \* GlobalSettings in memory
    settingsFile, \* settings.json: Absent, Torn (not JSON) or its settings
    apiKey,       \* _server_state.api_key
    sampling,     \* _server_state.sampling
    scanned,      \* directories whose models the engine pool has
    startDirs,    \* dir_list of init_server
    enforcer,     \* the memory enforcer: its limit, "off" if there is none, and whether it
                  \* has the settings of models, so that it checks their TTL
    ttlTask,      \* the loop that only checks TTLs runs
    detached,     \* drives that are disconnected
    edit,         \* edit[u]: where update u is, and its request
    sessions,     \* secrets that the session cookies of the admins are signed with
    up,           \* the server runs
    starts, writeFaults, detaches,
    granted,      \* sub keys whose creation was confirmed, without those deleted
    unsaved,      \* memory was changed and not saved, for a property
    overridden,   \* the host came from an override once
    drift         \* why the pool may have other models than the settings say

settingsVars == <<settings, settingsFile, apiKey, sampling, scanned, startDirs, enforcer, ttlTask,
                  detached, edit, sessions, up, starts, writeFaults, detaches, granted, unsaved, overridden, drift>>

Readable == settingsFile \notin {Absent, Torn}

\* GlobalSettings without a file.  "tuning" stands for the numbers that only
\* validate() checks; secret 0 is none.
Defaults == [host |-> "local", key |-> NoKey, skip |-> FALSE, subs |-> {}, dirs |-> {},
             tuning |-> "default", limit |-> "auto", secret |-> 0]

Sent(req, f) == f \in DOMAIN req
Overlay(s, o) == [f \in DOMAIN s |-> IF Sent(o, f) THEN o[f] ELSE s[f]]

\* get_model_dirs: no directory stands for the one under the base path.
Effective(dirs) == IF dirs = {} THEN {Home} ELSE dirs

\* ensure_directories: directories that cannot be created leave the settings.
Ensured(s) == [s EXCEPT !.dirs = Effective(@) \ detached]

Valid(s) == s.tuning # "invalid"

\* save(): the file is opened for writing and then filled; it may fail before
\* (the file stays) or in between (it is torn).
SaveOutcomes(s, old) ==
    {[file |-> s, ok |-> TRUE]} \cup
    IF writeFaults + detaches < MaxMishaps
    THEN {[file |-> Torn, ok |-> FALSE], [file |-> old, ok |-> FALSE]}
    ELSE {}

CountFaults(outcome) == writeFaults' = writeFaults + IF outcome.ok THEN 0 ELSE 1

SettingsInit ==
    /\ settings = Defaults
    /\ settingsFile = Absent
    /\ apiKey = NoKey
    /\ sampling = "default"
    /\ scanned = {} /\ startDirs = {}
    /\ enforcer = [limit |-> "off", ttl |-> FALSE] /\ ttlTask = FALSE
    /\ detached = {}
    /\ edit = [u \in Edits |-> [at |-> "unused", req |-> << >>]]
    /\ sessions = {}
    /\ up = FALSE
    /\ starts = 0 /\ writeFaults = 0 /\ detaches = 0
    /\ granted = {} /\ unsaved = FALSE /\ overridden = FALSE /\ drift = {}

-----------------------------------------------------------------------------
(* Start and crash                                                         *)

\* GlobalSettings.load: a file that cannot be parsed counts as none.
Loaded(env, cli) == Overlay(Overlay(IF Readable THEN settingsFile ELSE Defaults, env), cli)

\* serve_command and init_server: directories, the save of the command line's
\* values (a failure is only a warning), validation, and the secret of the
\* session cookies, which is made and saved once; lifespan: the enforcer, or
\* else the loop that checks TTLs.
ServeCommand(env, cli) ==
    LET first    == Ensured(Loaded(env, cli))
        needs    == first.secret = 0
        running  == IF needs THEN [first EXCEPT !.secret = starts + 1] ELSE first
        asItWas  == [file |-> settingsFile, ok |-> TRUE]
        cliSaves == IF DOMAIN cli = {} THEN {asItWas} ELSE SaveOutcomes(first, settingsFile)
    IN  /\ ~up
        /\ starts < MaxStarts
        /\ starts' = starts + 1
        /\ overridden' = (overridden \/ Sent(env, "host") \/ Sent(cli, "host"))
        /\ \E saved \in cliSaves :
             \E last \in IF needs /\ Valid(first) THEN SaveOutcomes(running, saved.file) ELSE {saved} :
               /\ saved.ok \/ ~needs \/ last.ok
               /\ settingsFile' = last.file
               /\ writeFaults' = writeFaults + IF saved.ok /\ last.ok THEN 0 ELSE 1
               /\ up' = (Valid(first) /\ (needs => last.ok))
               /\ unsaved' = (last.file # running)
        /\ settings' = running
        /\ apiKey' = running.key
        /\ sampling' = running.tuning
        /\ startDirs' = Effective(running.dirs)
        /\ scanned' = Effective(running.dirs)
        /\ enforcer' = [limit |-> running.limit, ttl |-> running.limit # "off"]
        /\ ttlTask' = (running.limit = "off")
        /\ drift' = {}
        /\ granted' = IF Readable THEN granted ELSE {}
        /\ sessions' = IF Readable THEN sessions ELSE {}
        /\ UNCHANGED <<detached, edit, detaches>>

\* The server ends, at once; updates under way end with it.
EndServer ==
    /\ up
    /\ up' = FALSE
    /\ edit' = [u \in Edits |-> IF edit[u].at = "unused" THEN edit[u]
                                ELSE [at |-> "over", req |-> << >>]]
    /\ UNCHANGED <<settings, settingsFile, apiKey, sampling, scanned, startDirs, enforcer, ttlTask,
                   detached, sessions, starts, writeFaults, detaches, granted, unsaved, overridden, drift>>

\* A drive with models is disconnected, or connected again.
MoveDrive(d) ==
    /\ writeFaults + detaches < MaxMishaps
    /\ detaches' = detaches + 1
    /\ detached' = IF d \in detached THEN detached \ {d} ELSE detached \cup {d}
    /\ UNCHANGED <<settings, settingsFile, apiKey, sampling, scanned, startDirs, enforcer, ttlTask,
                   edit, sessions, up, starts, writeFaults, granted, unsaved, overridden, drift>>

-----------------------------------------------------------------------------
(* Keys and sessions                                                       *)

\* The settings s are saved; memory has what ensure_directories leaves.
SaveOf(s, outcome) ==
    /\ outcome \in SaveOutcomes(Ensured(s), settingsFile)
    /\ settingsFile' = outcome.file
    /\ CountFaults(outcome)
    /\ drift' = IF Ensured(s).dirs = Effective(s.dirs) THEN drift ELSE drift \cup {"dropped"}

Admin == up /\ settings.secret \in sessions

\* login and auto_login, with the main key.
Login ==
    /\ up /\ settings.key # NoKey
    /\ sessions' = sessions \cup {settings.secret}
    /\ UNCHANGED <<settings, settingsFile, apiKey, sampling, scanned, startDirs, enforcer, ttlTask,
                   detached, edit, up, starts, writeFaults, detaches, granted, unsaved, overridden, drift>>

\* setup_api_key, while there is no key; if the save fails the key stays in
\* memory and no session is made.
SetupApiKey(k) ==
    /\ up /\ settings.key = NoKey
    /\ \E outcome \in SaveOutcomes(Ensured([settings EXCEPT !.key = k]), settingsFile) :
         /\ SaveOf([settings EXCEPT !.key = k], outcome)
         /\ sessions' = IF outcome.ok THEN sessions \cup {settings.secret} ELSE sessions
         /\ unsaved' = ~outcome.ok
    /\ settings' = Ensured([settings EXCEPT !.key = k])
    /\ apiKey' = k
    /\ UNCHANGED <<sampling, scanned, startDirs, enforcer, ttlTask, detached, edit, up, starts,
                   detaches, granted, overridden>>

\* Mutant: the key stays in the list when it could not be saved.
CreateSubKey_Kept(k) ==
    /\ Admin
    /\ k # settings.key /\ k \notin settings.subs
    /\ \E outcome \in SaveOutcomes(Ensured([settings EXCEPT !.subs = @ \cup {k}]), settingsFile) :
         /\ SaveOf([settings EXCEPT !.subs = @ \cup {k}], outcome)
         /\ granted' = IF outcome.ok THEN granted \cup {k} ELSE granted
         /\ unsaved' = (~outcome.ok /\ (unsaved \/ Ensured(settings) # settings))
    /\ settings' = Ensured([settings EXCEPT !.subs = @ \cup {k}])
    /\ UNCHANGED <<apiKey, sampling, scanned, startDirs, enforcer, ttlTask, detached, edit,
                   sessions, up, starts, detaches, overridden>>

\* create_sub_key: taken back if it cannot be saved.
CreateSubKey(k) ==
    /\ Admin
    /\ k # settings.key /\ k \notin settings.subs
    /\ \E outcome \in SaveOutcomes(Ensured([settings EXCEPT !.subs = @ \cup {k}]), settingsFile) :
         /\ SaveOf([settings EXCEPT !.subs = @ \cup {k}], outcome)
         /\ granted' = IF outcome.ok THEN granted \cup {k} ELSE granted
         /\ unsaved' = (~outcome.ok /\ (unsaved \/ Ensured(settings) # settings))
         /\ settings' = Ensured(IF outcome.ok THEN [settings EXCEPT !.subs = @ \cup {k}]
                                              ELSE settings)
    /\ UNCHANGED <<apiKey, sampling, scanned, startDirs, enforcer, ttlTask, detached, edit,
                   sessions, up, starts, detaches, overridden>>

\* delete_sub_key: put back if the save fails.
DeleteSubKey(k) ==
    /\ Admin
    /\ k \in settings.subs
    /\ \E outcome \in SaveOutcomes(Ensured([settings EXCEPT !.subs = @ \ {k}]), settingsFile) :
         /\ SaveOf([settings EXCEPT !.subs = @ \ {k}], outcome)
         /\ granted' = IF outcome.ok THEN granted \ {k} ELSE granted
         /\ unsaved' = (~outcome.ok /\ (unsaved \/ Ensured(settings) # settings))
         /\ settings' = Ensured(IF outcome.ok THEN [settings EXCEPT !.subs = @ \ {k}]
                                              ELSE settings)
    /\ UNCHANGED <<apiKey, sampling, scanned, startDirs, enforcer, ttlTask, detached, edit,
                   sessions, up, starts, detaches, overridden>>

-----------------------------------------------------------------------------
(* update_global_settings                                                  *)

Stage(u, at) == edit' = [edit EXCEPT ![u].at = at]

AfterDirs(req) == IF Sent(req, "limit") THEN "limiting" ELSE "applying"

\* The host first, which takes the localhost exception away; then directories
\* that are new are checked, and their models are unloaded before they change.
BeginUpdate(u, req) ==
    LET newDirs == Sent(req, "dirs") /\ req.dirs # settings.dirs
        missing == newDirs /\ req.dirs \cap detached # {}
    IN  /\ Admin
        /\ edit[u].at = "unused"
        /\ edit' = [edit EXCEPT ![u] =
                      [at |-> CASE missing -> "over" [] newDirs -> "unloading" [] OTHER -> AfterDirs(req),
                       req |-> req]]
        /\ settings' = IF Sent(req, "host")
                       THEN [settings EXCEPT !.host = req.host,
                                             !.skip = @ /\ req.host = "local"]
                       ELSE settings
        /\ unsaved' = (unsaved \/ settings' # settings)
        /\ UNCHANGED <<settingsFile, apiKey, sampling, scanned, startDirs, enforcer, ttlTask,
                       detached, sessions, up, starts, writeFaults, detaches, granted, overridden, drift>>

\* _apply_model_dirs_runtime after its unloads: the entries are cleared and the
\* directories read; a single directory that is gone makes the update fail, and
\* without any directory the pool has no models.
ApplyModelDirs(u) ==
    LET dirs   == edit[u].req.dirs
        failed == Cardinality(dirs) = 1 /\ dirs \subseteq detached
    IN  /\ up /\ edit[u].at = "unloading"
        /\ IF failed
           THEN /\ Stage(u, "over")
                /\ scanned' = {}
                /\ drift' = drift \cup {"failed"}
                /\ UNCHANGED <<settings, unsaved>>
           ELSE /\ Stage(u, AfterDirs(edit[u].req))
                /\ scanned' = dirs
                /\ drift' = (drift \cap {"stopped"}) \cup IF dirs = {} THEN {"emptied"} ELSE {}
                /\ settings' = [settings EXCEPT !.dirs = dirs]
                /\ unsaved' = TRUE
        /\ UNCHANGED <<settingsFile, apiKey, sampling, startDirs, enforcer, ttlTask, detached,
                       sessions, up, starts, writeFaults, detaches, granted, overridden>>

\* _apply_max_process_memory_runtime: the enforcer gets the new limit, or there
\* is a new one; to disable it, the enforcer is stopped first, which is awaited.
ApplyLimit(u) ==
    LET limit == edit[u].req.limit
    IN  /\ up /\ edit[u].at = "limiting"
        /\ settings' = [settings EXCEPT !.limit = limit]
        /\ unsaved' = TRUE
        /\ Stage(u, IF limit = "off" /\ enforcer.limit # "off" THEN "stopping" ELSE "applying")
        /\ enforcer' = IF limit = "off" THEN enforcer
                       ELSE [limit |-> limit, ttl |-> enforcer.ttl]
        /\ drift' = IF \A v \in Edits : edit[v].at # "stopping" THEN drift \ {"stopped"}
                    ELSE IF limit # "off" THEN drift \cup {"stopped"} ELSE drift
        /\ UNCHANGED <<settingsFile, apiKey, sampling, scanned, startDirs, ttlTask, detached,
                       sessions, up, starts, writeFaults, detaches, granted, overridden>>

EnforcerStopped(u) ==
    /\ up /\ edit[u].at = "stopping"
    /\ Stage(u, "applying")
    /\ enforcer' = [limit |-> "off", ttl |-> FALSE]
    /\ UNCHANGED <<settings, settingsFile, apiKey, sampling, scanned, startDirs, ttlTask, detached,
                   sessions, up, starts, writeFaults, detaches, granted, unsaved, overridden, drift>>

\* The numbers, then the keys: skipping the verification is only for localhost.
Tuned(s, req) == [s EXCEPT !.tuning = IF Sent(req, "tuning") THEN req.tuning ELSE @]
Keyed(s, req) ==
    [s EXCEPT !.key  = IF Sent(req, "key") THEN req.key ELSE @,
              !.skip = IF Sent(req, "skip") THEN req.skip /\ s.host = "local" ELSE @]

\* The rest, after the last await: sampling, the key, the exception for
\* localhost; validation, which refuses and takes nothing back; and the save.
FinishUpdate(u) ==
    LET req   == edit[u].req
        tuned == Tuned(settings, req)
        keyed == Keyed(tuned, req)
        short == Sent(req, "key") /\ req.key \notin Keys
    IN  /\ up /\ edit[u].at = "applying"
        /\ Stage(u, "over")
        /\ sampling' = IF Sent(req, "tuning") THEN req.tuning ELSE sampling
        /\ IF short
           THEN /\ settings' = tuned
                /\ unsaved' = (unsaved \/ tuned # settings)
                /\ UNCHANGED <<settingsFile, apiKey, writeFaults, drift>>
           ELSE /\ apiKey' = IF Sent(req, "key") THEN req.key ELSE apiKey
                /\ IF Valid(keyed)
                   THEN /\ settings' = Ensured(keyed)
                        /\ \E outcome \in SaveOutcomes(Ensured(keyed), settingsFile) :
                             /\ SaveOf(keyed, outcome)
                             /\ unsaved' = ~outcome.ok
                   ELSE /\ settings' = keyed
                        /\ unsaved' = (unsaved \/ keyed # settings)
                        /\ UNCHANGED <<settingsFile, writeFaults, drift>>
        /\ UNCHANGED <<scanned, startDirs, enforcer, ttlTask, detached, sessions, up, starts,
                       detaches, granted, overridden>>

\* _refresh_models_after_download: the directories the server was started with.
RefreshAfterDownload ==
    /\ up
    /\ Cardinality(startDirs) > 1 \/ startDirs \cap detached = {}
    /\ scanned' = startDirs
    /\ drift' = IF startDirs = Effective(settings.dirs) THEN drift ELSE drift \cup {"refreshed"}
    /\ UNCHANGED <<settings, settingsFile, apiKey, sampling, startDirs, enforcer, ttlTask, detached,
                   edit, sessions, up, starts, writeFaults, detaches, granted, unsaved, overridden>>

SettingsNext ==
    \/ \E env, cli \in Overrides : ServeCommand(env, cli)
    \/ EndServer
    \/ \E d \in Drives : MoveDrive(d)
    \/ Login
    \/ \E k \in Keys : SetupApiKey(k) \/ CreateSubKey(k) \/ DeleteSubKey(k)
    \/ \E u \in Edits :
         \/ \E req \in EditRequests : BeginUpdate(u, req)
         \/ ApplyModelDirs(u) \/ ApplyLimit(u) \/ EnforcerStopped(u) \/ FinishUpdate(u)
    \/ RefreshAfterDownload

SettingsSpec == SettingsInit /\ [][SettingsNext]_settingsVars

-----------------------------------------------------------------------------
(* Properties                                                              *)

\* The running server uses the key and the sampling of the settings, whatever
\* updates overlap, are refused or cannot be saved.
ServerFollowsSettings == up => apiKey = settings.key /\ sampling = settings.tuning

\* The sub keys in force are those whose creation was confirmed and whose
\* deletion was not, through saves that fail and restarts, as long as the
\* settings file could be read when the server started.
SubKeysExact == up => settings.subs = granted

\* What is in the file is what is in memory, except after a change that was
\* refused or could not be saved.
SavedIsCurrent == up /\ Readable /\ ~unsaved => settingsFile = settings

\* Sessions outlive restarts: cookies stay valid as long as the file is read.
SessionsSurvive == up => sessions \subseteq {settings.secret}

\* Verification is only skipped on localhost, except with a host that was
\* given at start.
SkipOnlyLocal == settings.skip => settings.host = "local" \/ overridden

\* The engine pool serves the directories of the settings, unless a discovery
\* failed, a drive was missing at a save, a download ended after the
\* directories were changed, or an update left no directory, which the settings
\* read as the one under the base path and the pool as none.
PoolFollowsSettings ==
    up => \/ scanned = Effective(settings.dirs)
          \/ drift \cap {"failed", "dropped", "refreshed", "emptied"} # {}

\* The memory enforcer has the limit of the settings, except while it stops, or
\* after it got a limit while it stopped.
EnforcerFollowsSettings ==
    up => \/ enforcer.limit = settings.limit
          \/ \E u \in Edits : edit[u].at = "stopping"
          \/ "stopped" \in drift

\* The settings agree with the file, the running server and what the admins
\* were told.
SettingsAgree ==
    /\ ServerFollowsSettings /\ SubKeysExact /\ SavedIsCurrent
    /\ SessionsSurvive /\ SkipOnlyLocal /\ PoolFollowsSettings /\ EnforcerFollowsSettings

\* "Validate settings", then "Persist to file" in update_global_settings: what
\* is saved is valid, and the server starts again from it.
\* TLC refutes it: see "Other disagreements" in the README.
FileStartsAgain == Readable => Valid(settingsFile)

\* "Re-discover models when a HuggingFace download completes": the model just
\* downloaded into the first directory of the settings is found.
\* TLC refutes it: see "Other disagreements" in the README.
DownloadsAreFound == "refreshed" \notin drift

\* "enforcer already includes TTL checks in its polling loop" (lifespan): there
\* is always something that unloads models after their TTL.
\* TLC refutes it: see "Other disagreements" in the README.
TTLChecked == up => ttlTask \/ enforcer.ttl
=============================================================================
