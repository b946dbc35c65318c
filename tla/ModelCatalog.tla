---------------------------- MODULE ModelCatalog ----------------------------
(***************************************************************************)
(* Which models there are, their settings, and the model a request gets:   *)
(* src/omlx/model_discovery.py, src/omlx/model_settings.py, discovery and  *)
(* names in src/omlx/engine_pool.py, get_engine and get_sampling_params in *)
(* src/omlx/server.py, and the admin requests of src/omlx/admin/routes.py. *)
(*                                                                         *)
(* Everything runs on the event loop; what awaits is a request while its   *)
(* model loads and a reload while models are unloaded.  Memory, locks and  *)
(* the loads themselves are in EnginePool.                                 *)
(***************************************************************************)
EXTENDS Integers, FiniteSets

CONSTANTS
    Names,           \* model directories there can be
    Aliases,         \* aliases an admin gives; some are directory names
    ClientNames,     \* names requests use for a model
    Lower,           \* Lower[x]: the name in lower case
    Stripped,        \* Stripped[x]: a name with a provider prefix, without it
    ConfigOf,        \* ConfigOf[n]: what config.json of the model says
    OcrModels,       \* models with a config_model_type of OCR_MODEL_TYPES
    PrefRequests,    \* bodies of PUT /api/models/{id}/settings: field -> value
    FirstOnDisk,     \* model directories there may be at the first start: sets of names
    Queries,         \* bound: requests of clients
    Unset,           \* a field without a value (Python's None)
    MaxPrefChanges,  \* bound: settings requests
    MaxIncidents,    \* bound: saves of model_settings.json that fail, downloads and deletions
    MaxReloads       \* bound: reloads, and starts of the server

ASSUME CatalogAssumption ==
    /\ FirstOnDisk \subseteq SUBSET Names /\ Unset \notin Names \cup Aliases
    /\ \A req \in PrefRequests : "pinned" \in DOMAIN req => req.pinned \in BOOLEAN
    /\ MaxPrefChanges \in Nat
    /\ MaxIncidents \in Nat /\ MaxReloads \in Nat

VARIABLES
    onDisk,        \* directories with a model, under the model directories
    prefs,         \* ModelSettingsManager._settings
    prefsFile,     \* model_settings.json; written to a file that then replaces it
    entries,        \* keys of EnginePool._entries
    entryOf,       \* entryOf[n]: pinned, kind (model_type) and loaded
    defaultModel,  \* _server_state.default_model
    modelFallback, \* the setting model_fallback
    rescan,        \* the reload under way: its pinned models, and changes since
    query,         \* query[c]: a request
    prefChanges, prefFaults, diskChanges, reloads,
    prefsUnsaved,  \* memory was changed and could not be saved
    pinDrift,      \* models whose pin in the pool may differ from the settings
    kindDrift,     \* models loaded as text models because vision failed
    defaultDrift   \* why the default may differ from the settings

catalogVars == <<onDisk, prefs, prefsFile, entries, entryOf, defaultModel, modelFallback, rescan,
                 query, prefChanges, prefFaults, diskChanges, reloads, prefsUnsaved, pinDrift,
                 kindDrift, defaultDrift>>

\* ModelSettings(); "temp" says that a temperature is set, "kind" is
\* model_type_override.
NoPrefs == [alias |-> Unset, pinned |-> FALSE, default |-> FALSE, kind |-> Unset, temp |-> FALSE,
            forced |-> FALSE]
NoEntry == [pinned |-> FALSE, kind |-> Unset, loaded |-> FALSE]
NoQuery == [at |-> "unused", name |-> Unset, model |-> Unset, source |-> Unset, fell |-> FALSE,
            shaken |-> FALSE]
NoRescan == [at |-> "idle", pins |-> {}, changed |-> {}]

-----------------------------------------------------------------------------
(* Discovery                                                               *)

\* _is_unsupported_model: speech models.
Unsupported(n) == ConfigOf[n].arch = "speech"

\* detect_model_type.
Detect(n) ==
    LET c == ConfigOf[n]
    IN  CASE c.arch = "classifier"               -> "reranker"
          [] c.arch = "causal" /\ c.rerankName   -> "reranker"
          [] c.arch = "embedding"                -> "embedding"
          [] c.type = "embedding"                -> "embedding"
          [] c.arch = "vision"                   -> "vlm"
          [] c.vision                            -> "vlm"
          [] OTHER                               -> "llm"

Found == {n \in onDisk : ~Unsupported(n)}
Pinned(p) == {n \in Names : p[n].pinned}
Fresh(n, pins) == [pinned |-> n \in pins, kind |-> Detect(n), loaded |-> FALSE]

\* discover_models: loaded models keep their entry, others get a new one or go;
\* and apply_settings_overrides with the settings p.
Discover(found, before, pins, p) ==
    LET inMemory == {n \in before : entryOf[n].loaded}
        entry(n) == CASE n \in found \cap inMemory -> [entryOf[n] EXCEPT !.pinned = n \in pins]
                      [] n \in found \ inMemory    -> Fresh(n, pins)
                      [] n \in inMemory \ found    -> entryOf[n]
                      [] OTHER                   -> NoEntry
    IN  /\ entries' = found \cup inMemory
        /\ entryOf' = [n \in Names |->
             IF n \in found \cup inMemory /\ p[n].kind # Unset
             THEN [entry(n) EXCEPT !.kind = p[n].kind] ELSE entry(n)]
        /\ kindDrift' = {n \in kindDrift : n \in inMemory /\ p[n].kind = Unset}

\* The names of models a client may mean have changed.
Shake(q) == [c \in Queries |-> [q[c] EXCEPT !.shaken = @ \/ q[c].at = "loading"]]

-----------------------------------------------------------------------------
(* Names                                                                   *)

ByEntry(x) == IF x \in entries THEN {x} ELSE {n \in entries : Lower[n] = Lower[x]}
ByAlias(x) == {n \in Names : prefs[n].alias = x}
Named(x) == IF ByEntry(x) # {} THEN ByEntry(x) ELSE ByAlias(x)

\* resolve_model_id: a directory, also in another case, then an alias; then the
\* same without the provider prefix; else the name as it is.
Resolve(x) ==
    LET named == IF Named(x) = {} /\ x \in DOMAIN Stripped THEN Stripped[x] ELSE x
    IN  IF Named(named) # {} THEN CHOOSE n \in Named(named) : TRUE ELSE x

\* init_server and get_default_model_id: the marked model, else the first.
DefaultAtStart(p, found) ==
    LET marked == {n \in Names : p[n].default}
    IN  IF found = {} THEN Unset
        ELSE IF marked # {} /\ marked \subseteq found THEN CHOOSE n \in marked : TRUE
        ELSE CHOOSE n \in found : TRUE

CatalogInit ==
    /\ onDisk \in FirstOnDisk
    /\ prefs = [n \in Names |-> NoPrefs]
    /\ prefsFile = prefs
    /\ entries = Found
    /\ entryOf = [n \in Names |-> IF n \in Found THEN Fresh(n, {}) ELSE NoEntry]
    /\ defaultModel = DefaultAtStart(prefs, Found)
    /\ modelFallback \in BOOLEAN
    /\ rescan = NoRescan
    /\ query = [c \in Queries |-> NoQuery]
    /\ prefChanges = 0 /\ prefFaults = 0 /\ diskChanges = 0 /\ reloads = 0
    /\ prefsUnsaved = FALSE /\ pinDrift = {} /\ kindDrift = {} /\ defaultDrift = FALSE

-----------------------------------------------------------------------------
(* Settings of a model                                                     *)

Asks(req, f) == f \in DOMAIN req

AliasFree(n, req) ==
    Asks(req, "alias") /\ req.alias # Unset =>
        /\ \A m \in Names \ {n} : prefs[m].alias # req.alias
        /\ req.alias \notin entries \ {n}

\* set_settings: a new default takes the mark from the others.
WithPrefs(n, req) ==
    [m \in Names |->
       IF m = n THEN [f \in DOMAIN NoPrefs |-> IF Asks(req, f) THEN req[f] ELSE prefs[n][f]]
       ELSE IF Asks(req, "default") /\ req.default THEN [prefs[m] EXCEPT !.default = FALSE]
       ELSE prefs[m]]

\* update_model_settings: the pool and the server change first, then memory,
\* then the file; a request whose save fails is not taken back.
UpdateModelSettings(n, req) ==
    /\ prefChanges < MaxPrefChanges
    /\ n \in entries
    /\ AliasFree(n, req)
    /\ prefChanges' = prefChanges + 1
    /\ prefs' = WithPrefs(n, req)
    /\ entryOf' = [entryOf EXCEPT
         ![n].kind   = IF ~Asks(req, "kind") THEN @
                       ELSE IF req.kind = Unset THEN Detect(n) ELSE req.kind,
         ![n].pinned = IF Asks(req, "pinned") THEN req.pinned ELSE @]
    /\ kindDrift' = IF Asks(req, "kind") THEN kindDrift \ {n} ELSE kindDrift
    /\ pinDrift' = IF Asks(req, "pinned") THEN pinDrift \ {n} ELSE pinDrift
    /\ rescan' = IF Asks(req, "pinned") /\ rescan.at # "idle"
                 THEN [rescan EXCEPT !.changed = @ \cup {n}] ELSE rescan
    /\ IF Asks(req, "default") /\ req.default
       THEN defaultModel' = n /\ defaultDrift' = FALSE
       ELSE UNCHANGED <<defaultModel, defaultDrift>>
    /\ query' = IF Asks(req, "alias") THEN Shake(query) ELSE query
    /\ \/ prefsFile' = prefs' /\ prefsUnsaved' = FALSE /\ UNCHANGED prefFaults
       \/ /\ prefFaults + diskChanges < MaxIncidents
          /\ prefFaults' = prefFaults + 1
          /\ prefsUnsaved' = TRUE
          /\ UNCHANGED prefsFile
    /\ UNCHANGED <<onDisk, entries, modelFallback, diskChanges, reloads>>

-----------------------------------------------------------------------------
(* Downloads, deletions, reloads and restarts                              *)

\* A download ends and _refresh_models_after_download runs.
DownloadEnds(n) ==
    /\ prefFaults + diskChanges < MaxIncidents
    /\ n \notin onDisk
    /\ diskChanges' = diskChanges + 1
    /\ onDisk' = onDisk \cup {n}
    /\ Discover(Found \cup {m \in {n} : ~Unsupported(m)}, entries, Pinned(prefs), prefs)
    /\ pinDrift' = {}
    /\ query' = Shake(query)
    /\ UNCHANGED <<prefs, prefsFile, defaultModel, modelFallback, rescan, prefChanges, prefFaults,
                   reloads, prefsUnsaved, defaultDrift>>

\* delete_hf_model after the unload: the directory, its entry, a discovery.
DeleteModel(n) ==
    /\ prefFaults + diskChanges < MaxIncidents
    /\ n \in onDisk
    /\ diskChanges' = diskChanges + 1
    /\ onDisk' = onDisk \ {n}
    /\ Discover(Found \ {n}, entries \ {n}, Pinned(prefs), prefs)
    /\ pinDrift' = {}
    /\ query' = Shake(query)
    /\ UNCHANGED <<prefs, prefsFile, defaultModel, modelFallback, rescan, prefChanges, prefFaults,
                   reloads, prefsUnsaved, defaultDrift>>

\* _reload_models: the file is read, and _apply_model_dirs_runtime takes down
\* which models are pinned before it awaits the unloads.
BeginReload ==
    /\ rescan.at = "idle"
    /\ reloads < MaxReloads
    /\ reloads' = reloads + 1
    /\ prefs' = prefsFile
    /\ rescan' = [at |-> "unloading", pins |-> Pinned(prefsFile), changed |-> {}]
    /\ pinDrift' = pinDrift \cup {n \in Names : prefs[n].pinned # prefsFile[n].pinned}
    /\ defaultDrift' = (defaultDrift \/ prefs # prefsFile)
    /\ prefsUnsaved' = FALSE
    /\ query' = Shake(query)
    /\ UNCHANGED <<onDisk, prefsFile, entries, entryOf, defaultModel, modelFallback, prefChanges,
                   prefFaults, diskChanges, kindDrift>>

\* The entries are cleared and made anew, with the pins of before.
EndReload ==
    /\ rescan.at = "unloading"
    /\ Discover(Found, {}, rescan.pins, prefs)
    /\ rescan' = NoRescan
    /\ pinDrift' = rescan.changed
    /\ query' = Shake(query)
    /\ UNCHANGED <<onDisk, prefs, prefsFile, defaultModel, modelFallback, prefChanges, prefFaults,
                   diskChanges, reloads, prefsUnsaved, defaultDrift>>

\* The server ends and starts again: init_server.
RestartCatalog ==
    /\ reloads < MaxReloads
    /\ reloads' = reloads + 1
    /\ prefs' = prefsFile
    /\ Discover(Found, {}, Pinned(prefsFile), prefsFile)
    /\ defaultModel' = DefaultAtStart(prefsFile, Found)
    /\ rescan' = NoRescan
    /\ query' = [c \in Queries |-> IF query[c].at = "unused" THEN NoQuery
                                   ELSE [NoQuery EXCEPT !.at = "over"]]
    /\ prefsUnsaved' = FALSE /\ pinDrift' = {}
    /\ defaultDrift' = ~({n \in Names : prefsFile[n].default} \subseteq Found)
    /\ UNCHANGED <<onDisk, prefsFile, modelFallback, prefChanges, prefFaults, diskChanges>>

-----------------------------------------------------------------------------
(* Requests                                                                *)

\* get_engine: the model that is named, or the default if the setting allows;
\* else 404.
BeginQuery(c, x) ==
    LET target == Resolve(x)
        falls  == target \notin entries /\ modelFallback /\ defaultModel \in entries
    IN  /\ query[c].at = "unused"
        /\ query' = [query EXCEPT ![c] =
             [at     |-> IF target \in entries \/ falls THEN "loading" ELSE "over",
              name   |-> x,
              model  |-> IF falls THEN defaultModel ELSE target,
              source |-> Unset,
              fell   |-> falls,
              shaken |-> FALSE]]
        /\ UNCHANGED <<onDisk, prefs, prefsFile, entries, entryOf, defaultModel, modelFallback,
                       rescan, prefChanges, prefFaults, diskChanges, reloads, prefsUnsaved,
                       pinDrift, kindDrift, defaultDrift>>

\* Mutant: the settings are looked up under the name of the request.
SettingsName_Asked(x) == x
\* resolve_model_id again, after the load.
SettingsName(x) == Resolve(x)

\* get_sampling_params: where the temperature comes from, with the settings of m.
Temperature(m, asked) ==
    LET p == IF m \in Names THEN prefs[m] ELSE NoPrefs
    IN  [of |-> m, from |-> CASE asked /\ ~p.forced           -> "request"
                              [] p.temp                       -> "model"
                              [] m \in OcrModels \cap entries -> "ocr"
                              [] OTHER                        -> "global"]

\* The engine is loaded: the request runs on it with the settings found now.  A
\* vision model that does not load is loaded as a text model.
ServeQuery(c, asked, failed) ==
    /\ query[c].at = "loading"
    /\ LET n == query[c].model
       IN  /\ n \in entries
           /\ failed => entryOf[n].kind = "vlm" /\ ~entryOf[n].loaded
           /\ entryOf' = [entryOf EXCEPT ![n] = [pinned |-> @.pinned, loaded |-> TRUE,
                                                 kind |-> IF failed THEN "llm" ELSE @.kind]]
           /\ kindDrift' = IF failed THEN kindDrift \cup {n} ELSE kindDrift
    /\ query' = [query EXCEPT ![c].at = "served",
                              ![c].source = Temperature(SettingsName(query[c].name), asked)]
    /\ UNCHANGED <<onDisk, prefs, prefsFile, entries, defaultModel, modelFallback, rescan,
                   prefChanges, prefFaults, diskChanges, reloads, prefsUnsaved, pinDrift,
                   defaultDrift>>

\* The load fails, or the model is unloaded again (TTL, eviction, by hand).
LoseQuery(c) ==
    /\ query[c].at = "loading"
    /\ query' = [query EXCEPT ![c].at = "over"]
    /\ UNCHANGED <<onDisk, prefs, prefsFile, entries, entryOf, defaultModel, modelFallback, rescan,
                   prefChanges, prefFaults, diskChanges, reloads, prefsUnsaved, pinDrift,
                   kindDrift, defaultDrift>>

UnloadModel(n) ==
    /\ entryOf[n].loaded
    /\ entryOf' = [entryOf EXCEPT ![n].loaded = FALSE]
    /\ UNCHANGED <<onDisk, prefs, prefsFile, entries, defaultModel, modelFallback, rescan, query,
                   prefChanges, prefFaults, diskChanges, reloads, prefsUnsaved, pinDrift,
                   kindDrift, defaultDrift>>

CatalogNext ==
    \/ \E n \in Names :
         \/ \E req \in PrefRequests : UpdateModelSettings(n, req)
         \/ DownloadEnds(n) \/ DeleteModel(n) \/ UnloadModel(n)
    \/ BeginReload \/ EndReload \/ RestartCatalog
    \/ \E c \in Queries :
         \/ \E x \in ClientNames : BeginQuery(c, x)
         \/ \E asked, failed \in BOOLEAN : ServeQuery(c, asked, failed)
         \/ LoseQuery(c)

CatalogSpec == CatalogInit /\ [][CatalogNext]_catalogVars

-----------------------------------------------------------------------------
(* Properties                                                              *)

\* A name means one model: no two have the same alias, and one is the default.
NamesAreUnique ==
    \A m, n \in Names : m # n =>
        /\ prefs[m].alias = prefs[n].alias => prefs[m].alias = Unset
        /\ ~(prefs[m].default /\ prefs[n].default)

\* The pool pins the models that the settings pin, except those whose pin was
\* changed while a reload was unloading models.
PinsFollowSettings ==
    \A n \in entries : entryOf[n].pinned = prefs[n].pinned \/ n \in pinDrift

\* The pool runs a model as the settings say, or else as its files say, except
\* while settings are read again, and vision models that loaded as text models.
KindsFollowSettings ==
    rescan.at = "idle" =>
        \A n \in entries \ kindDrift :
            entryOf[n].kind = IF prefs[n].kind = Unset THEN Detect(n) ELSE prefs[n].kind

\* The default of the server is the one marked in the settings, except after
\* settings that were not saved were read again, or a start without that model.
DefaultFollowsSettings ==
    \A n \in Names : prefs[n].default => defaultModel = n \/ defaultDrift

\* A request is generated with the settings of the model that generates it,
\* except if names changed while it waited, or it fell back to the default.
SettingsOfServedModel ==
    \A c \in Queries :
        query[c].at = "served" =>
            query[c].source.of = query[c].model \/ query[c].shaken \/ query[c].fell

\* The file has what is in memory, except after a save that failed.
PrefsOnFile == prefsFile = prefs \/ prefsUnsaved

\* The catalog: names, pins, kinds, the default and the files agree.
CatalogAgrees ==
    /\ NamesAreUnique /\ PinsFollowSettings /\ KindsFollowSettings
    /\ DefaultFollowsSettings /\ SettingsOfServedModel /\ PrefsOnFile

\* "Never evict if True" (is_pinned): a pin that was confirmed is known to the
\* pool.
\* TLC refutes it: see "Other disagreements" in the README.
PinsKnown == \A n \in entries : prefs[n].pinned => entryOf[n].pinned
=============================================================================
