------------------------------- MODULE Metrics -------------------------------
(***************************************************************************)
(* The server's counters, src/omlx/server_metrics.py: those of a session   *)
(* and those of all time, which are saved to stats.json from time to time, *)
(* at shutdown and when the counters are set up anew, and cleared by the   *)
(* admin panel.                                                            *)
(*                                                                         *)
(* All calls come from the server's event loop, so nothing interleaves with*)
(* a save but the end of the process.  Of the six counters that go together*)
(* the model keeps the count of requests.                                  *)
(***************************************************************************)
EXTENDS Naturals, FiniteSetsExt

CONSTANTS
    CountedModels,  \* models that are counted
    Missing,        \* no file
    Broken,         \* a file that is not complete
    MaxRequests,    \* bound: completed requests
    MaxCrashes,     \* bound: ends of the process without shutdown, and starts
    MaxIOFaults     \* bound: failing file operations

Counts == [total : Nat, nameless : Nat, per : [CountedModels -> Nat]]

ASSUME MetricsAssumption ==
    /\ IsFiniteSet(CountedModels)
    /\ {MaxRequests, MaxCrashes, MaxIOFaults} \subseteq Nat
    /\ Missing \notin Counts /\ Broken \notin Counts /\ Missing # Broken

VARIABLES
    sessionCounts,  \* total_requests and _per_model
    allTime,        \* _alltime_requests and _alltime_per_model
    statsFile,      \* stats.json
    tmpFile,        \* stats.json.tmp
    metricsAt,      \* "up", "down", or a step of a save
    thenDown,       \* the save is that of the shutdown
    requests, crashes, ioFaults,
    unsavedCounts,  \* requests since the counters of all time were last saved
    cleared         \* the file of cleared counters could not be deleted

metricsVars ==
    <<sessionCounts, allTime, statsFile, tmpFile, metricsAt, thenDown, requests, crashes, ioFaults,
      unsavedCounts, cleared>>
MetricsFiles == <<statsFile, tmpFile, ioFaults>>

NoRequests == [total |-> 0, nameless |-> 0, per |-> [m \in CountedModels |-> 0]]
TotalOf(c) == MapThenSumSet(LAMBDA m : c.per[m], CountedModels) + c.nameless

MetricsInit ==
    /\ sessionCounts = NoRequests /\ allTime = NoRequests
    /\ statsFile = Missing /\ tmpFile = Missing
    /\ metricsAt = "up" /\ thenDown = FALSE
    /\ requests = 0 /\ crashes = 0 /\ ioFaults = 0
    /\ unsavedCounts = 0 /\ cleared = FALSE

\* record_request_complete; a request without a model is in the totals only.
Plus(c, names) ==
    [total |-> c.total + 1, nameless |-> c.nameless + (IF names = {} THEN 1 ELSE 0),
     per |-> [m \in CountedModels |-> c.per[m] + (IF m \in names THEN 1 ELSE 0)]]

\* The save is due 300 s after the last one.
RecordRequest(names, due) ==
    /\ metricsAt = "up" /\ requests < MaxRequests
    /\ requests' = requests + 1
    /\ sessionCounts' = Plus(sessionCounts, names)
    /\ allTime' = Plus(allTime, names)
    /\ unsavedCounts' = unsavedCounts + 1
    /\ metricsAt' = IF due THEN "save" ELSE "up"
    /\ UNCHANGED <<MetricsFiles, thenDown, crashes, cleared>>

-----------------------------------------------------------------------------
(* Saving                                                                  *)

FileFault == ioFaults < MaxIOFaults /\ ioFaults' = ioFaults + 1
AfterSave == metricsAt' = (IF thenDown THEN "down" ELSE "up") /\ thenDown' = FALSE

\* save_alltime writes a temporary file and then renames it.
OpenFile ==
    /\ metricsAt = "save"
    /\ tmpFile' = Broken
    /\ metricsAt' = "dump"
    /\ UNCHANGED <<sessionCounts, allTime, statsFile, thenDown, requests, crashes, ioFaults,
                   unsavedCounts, cleared>>

DumpFile ==
    /\ metricsAt = "dump"
    /\ tmpFile' = allTime
    /\ metricsAt' = "replace"
    /\ UNCHANGED <<sessionCounts, allTime, statsFile, thenDown, requests, crashes, ioFaults,
                   unsavedCounts, cleared>>

ReplaceFile ==
    /\ metricsAt = "replace"
    /\ statsFile' = tmpFile /\ tmpFile' = Missing
    /\ unsavedCounts' = 0 /\ cleared' = FALSE
    /\ AfterSave
    /\ UNCHANGED <<sessionCounts, allTime, requests, crashes, ioFaults>>

\* What fails is only logged.
SaveFails ==
    /\ metricsAt \in {"save", "dump", "replace"} /\ FileFault
    /\ AfterSave
    /\ UNCHANGED <<sessionCounts, allTime, statsFile, tmpFile, requests, crashes, unsavedCounts,
                   cleared>>

-----------------------------------------------------------------------------
(* Clearing, start and end                                                 *)

ClearSession ==
    /\ metricsAt = "up" /\ sessionCounts # NoRequests
    /\ sessionCounts' = NoRequests
    /\ UNCHANGED <<allTime, MetricsFiles, metricsAt, thenDown, requests, crashes, unsavedCounts, cleared>>

ClearAllTime(deleted) ==
    /\ metricsAt = "up" /\ allTime # NoRequests
    /\ allTime' = NoRequests
    /\ unsavedCounts' = 0
    /\ IF deleted THEN statsFile' = Missing /\ UNCHANGED ioFaults
                  ELSE statsFile # Missing /\ FileFault /\ UNCHANGED statsFile
    /\ cleared' = ~deleted
    /\ UNCHANGED <<sessionCounts, tmpFile, metricsAt, thenDown, requests, crashes>>

BeginShutdown ==
    /\ metricsAt = "up"
    /\ metricsAt' = "save" /\ thenDown' = TRUE
    /\ UNCHANGED <<sessionCounts, allTime, MetricsFiles, requests, crashes, unsavedCounts, cleared>>

ServerCrash ==
    /\ metricsAt # "down" /\ crashes < MaxCrashes
    /\ crashes' = crashes + 1
    /\ metricsAt' = "down" /\ thenDown' = FALSE
    /\ UNCHANGED <<sessionCounts, allTime, MetricsFiles, requests, unsavedCounts, cleared>>

\* reset_server_metrics and _load_alltime: a file that cannot be read counts as
\* none.
StartMetrics ==
    /\ metricsAt = "down" /\ crashes < MaxCrashes
    /\ crashes' = crashes + 1
    /\ metricsAt' = "up"
    /\ sessionCounts' = NoRequests
    /\ allTime' = IF statsFile \in {Missing, Broken} THEN NoRequests ELSE statsFile
    /\ unsavedCounts' = 0 /\ cleared' = FALSE
    /\ UNCHANGED <<MetricsFiles, thenDown, requests>>

MetricsNext ==
    \/ \E names \in {{}} \cup {{m} : m \in CountedModels}, due \in BOOLEAN : RecordRequest(names, due)
    \/ OpenFile \/ DumpFile \/ ReplaceFile \/ SaveFails
    \/ ClearSession \/ \E deleted \in BOOLEAN : ClearAllTime(deleted)
    \/ BeginShutdown \/ ServerCrash \/ StartMetrics

MetricsSpec == MetricsInit /\ [][MetricsNext]_metricsVars

-----------------------------------------------------------------------------
(* Properties                                                              *)

SavedTotal == IF statsFile \in {Missing, Broken} THEN 0 ELSE statsFile.total

\* Whatever ends the process or fails, the file that a start reads is complete:
\* it lacks just the requests since the last save that was carried out, and
\* only counters whose file could not be deleted come back.
SavedExactly ==
    /\ statsFile # Broken
    /\ ~cleared => allTime.total = SavedTotal + unsavedCounts

\* And totals and counters of models agree, in memory and after every start.
MetricsKept ==
    /\ SavedExactly
    /\ allTime.total = TotalOf(allTime) /\ sessionCounts.total = TotalOf(sessionCounts)
=============================================================================
