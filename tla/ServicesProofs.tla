---------------------------- MODULE ServicesProofs ----------------------------
(***************************************************************************)
(* The invariants of the services around the engines, for every value of   *)
(* their constants.                                                        *)
(***************************************************************************)
EXTENDS AppUpdate, TrayApp, StateFiles, Downloads, MCPManager, ServerManager, Benchmark,
        AdminSettings, ModelCatalog, DataTheorems

-----------------------------------------------------------------------------
(***************************************************************************)
(* BundleWhole holds for any number of launches and updates.               *)
(*                                                                         *)
(* By itself it is not inductive: it does not say that no background thread*)
(* works on the staged bundle while the script is at work.  WorkerAndScript*)
(* adds that a thread, or a message from one, needs an application, and    *)
(* that the script was started when there was none.                        *)
(***************************************************************************)
\* The states of the parts that the proof tells apart.
UpdateTypeOK ==
    /\ app \in {"off", "running"}
    /\ worker \in {"none", "downloading", "staging", "staged"}
    /\ staged \in {"none", "partial", "complete"}
    /\ message \in {"none", "error", "ready"}
    /\ bundle \in {"old", "new", "missing", "partial"}
    /\ script \in {"none", "waiting", "removed"}
    /\ hasty \in BOOLEAN

\* Threads and messages end with the application, and one thread works at a time.
WorkerAndScript ==
    /\ app = "off" => worker = "none" /\ message = "none"
    /\ message # "none" => worker = "none"
    /\ updater = FALSE => worker = "none" /\ message = "none"

\* Unless the application was opened too early: while the script is at work no
\* application runs, and a thread says "staged" or "ready" only of a complete copy.
UpdateInv ==
    /\ UpdateTypeOK
    /\ updater \in BOOLEAN
    /\ WorkerAndScript
    /\ ~hasty => /\ script # "none" => app = "off" /\ staged = "complete"
                 /\ script = "none" => bundle \in {"old", "new"}
                 /\ worker = "staged" \/ message = "ready" => staged = "complete"

LEMMA UpdateInvInit == UpdateInit => UpdateInv
  BY DEF UpdateInit, UpdateInv, UpdateTypeOK, WorkerAndScript

LEMMA UpdateInvStep == UpdateInv /\ [UpdateNext]_updateVars => UpdateInv'
<1>. SUFFICES ASSUME UpdateInv, [UpdateNext]_updateVars PROVE UpdateInv'
  OBVIOUS
<1>. USE DEF UpdateInv, UpdateTypeOK, WorkerAndScript
<1>1. CASE LaunchApp
  BY <1>1 DEF LaunchApp
<1>2. CASE ExitApp
  BY <1>2 DEF ExitApp
<1>3. CASE StartUpdate
  BY <1>3 DEF StartUpdate
<1>4. CASE MountImage \/ CopyBundle
  BY <1>4 DEF MountImage, CopyBundle
<1>5. CASE UpdateReady \/ UpdateRaises
  BY <1>5 DEF UpdateReady, UpdateRaises
<1>6. CASE ShowError
  BY <1>6 DEF ShowError
<1>7. CASE SwapAndTerminate
  BY <1>7 DEF SwapAndTerminate
<1>8. CASE ScriptRemoves
  BY <1>8 DEF ScriptRemoves
<1>9. CASE ScriptMoves
  BY <1>9 DEF ScriptMoves
<1>10. CASE UNCHANGED updateVars
  BY <1>10 DEF updateVars
<1>. QED
  BY <1>1, <1>2, <1>3, <1>4, <1>5, <1>6, <1>7, <1>8, <1>9, <1>10 DEF UpdateNext

LEMMA UpdateInvImplies == UpdateInv => BundleWhole
  BY DEF UpdateInv, UpdateTypeOK, BundleWhole

\* However often the application is launched, quit, crashed and updated, the
\* installed bundle is the old one or the whole new one when no script is at
\* work, and the script gets only complete copies, as long as the application
\* is not opened while the script is at work.
THEOREM AppBundleWhole == UpdateSpec => []BundleWhole
<1>1. UpdateInit => UpdateInv
  BY UpdateInvInit
<1>2. UpdateInv /\ [UpdateNext]_updateVars => UpdateInv'
  BY UpdateInvStep
<1>3. UpdateInv => BundleWhole
  BY UpdateInvImplies
<1>. QED
  BY <1>1, <1>2, <1>3, PTL DEF UpdateSpec

-----------------------------------------------------------------------------
(***************************************************************************)
(* TrayExplained holds for any number of processes, waiters and failures.  *)
(* The invariant adds what an answer stands for until it is recorded or    *)
(* overtaken by a stop, and the exit's promise from its look at the state. *)
(***************************************************************************)
ProcessState == {"unborn", "loading", "serving", "blocked", "ended"}
WaiterState == {"unborn", "polling", "answered", "overtaken", "ended"}

TrayTypeOK ==
    /\ process \in [Processes -> ProcessState]
    /\ handle \in Processes \cup {NoProcess}
    /\ serverOn \in BOOLEAN
    /\ waiter \in [Waiters -> WaiterState]
    /\ menu \in {"idle", "stopping", "exiting", "leaving", "gone"}
    /\ reason \in {"none", "failedStop", "lateAnswer"}
    /\ replaced \subseteq Processes
    /\ exits \in Nat

\* A process is alive, or one has ended by itself.
AliveOrExited == exits > 0 \/ \E p \in Processes : ProcessAlive(p)

AnswersStand == \A w \in Waiters : waiter[w] = "answered" => AliveOrExited
LeavesSafely ==
    menu \in {"leaving", "gone"} /\ serverOn => handle = NoProcess \/ reason = "lateAnswer"
HandleKept == \A p \in Processes : ProcessAlive(p) => p = handle \/ p \in replaced
RunningExplained == serverOn => AliveOrExited \/ InStop \/ reason # "none"

TrayInv == TrayTypeOK /\ AnswersStand /\ LeavesSafely /\ HandleKept /\ RunningExplained

LEMMA TrayInvInit == TrayInit => TrayInv
<1>. SUFFICES ASSUME TrayInit PROVE TrayInv
  OBVIOUS
<1>1. TrayTypeOK
  BY DEF TrayInit, TrayTypeOK, ProcessState, WaiterState
<1>2. (\A p \in Processes : ~ProcessAlive(p)) /\ \A w \in Waiters : waiter[w] # "answered"
  BY DEF TrayInit, ProcessAlive
<1>. QED
  BY <1>1, <1>2
  DEF TrayInit, TrayInv, AnswersStand, LeavesSafely, HandleKept, RunningExplained

\* What the server processes do by themselves.
LEMMA ProcessStep ==
  ASSUME TrayInv, NEW p \in Processes, NEW next \in {"ended", "blocked"},
         Listen(p) \/ Fail(p, next)
  PROVE  TrayInv'
<1>1. TrayTypeOK' /\ UNCHANGED <<handle, serverOn, waiter, menu, reason, replaced>>
  BY DEF TrayInv, TrayTypeOK, ProcessState, Listen, Fail
<1>2. \A q \in Processes : ProcessAlive(q)' => ProcessAlive(q)
  BY DEF TrayInv, TrayTypeOK, ProcessAlive, Listen, Fail
<1>3. AliveOrExited'
  <2>1. CASE Listen(p)
    <3>1. CASE PortTaken
      <4>1. PICK q \in Processes : process[q] \in {"serving", "blocked"}
        BY <3>1 DEF PortTaken
      <4>2. process[q]' = process[q]
        BY <2>1, <4>1 DEF Listen, TrayInv, TrayTypeOK
      <4>. QED
        BY <4>1, <4>2 DEF AliveOrExited, ProcessAlive
    <3>2. CASE ~PortTaken
      <4>1. process[p]' = "serving"
        BY <2>1, <3>2 DEF Listen, TrayInv, TrayTypeOK
      <4>. QED
        BY <4>1 DEF AliveOrExited, ProcessAlive
    <3>. QED
      BY <3>1, <3>2
  <2>2. CASE Fail(p, next)
    BY <2>2 DEF Fail, AliveOrExited, TrayInv, TrayTypeOK
  <2>. QED
    BY <2>1, <2>2
<1>. QED
  BY <1>1, <1>2, <1>3
  DEF TrayInv, AnswersStand, LeavesSafely, HandleKept, RunningExplained, InStop

\* _stop_server: the waiters that have an answer are overtaken by its steps.
LEMMA StopStep ==
  ASSUME TrayInv, StopEnds \/ \E next \in {"stopping", "exiting"}, ended \in BOOLEAN :
                                StopBegins(next, ended)
  PROVE  TrayInv'
<1>1. TrayTypeOK'
  BY DEF TrayInv, TrayTypeOK, ProcessState, WaiterState, StopEnds, StopBegins, AfterStop,
         AfterOvertaking, InStop
<1>2. AnswersStand'
  BY DEF TrayInv, TrayTypeOK, AnswersStand, StopEnds, StopBegins, AfterOvertaking
<1>3. CASE StopEnds
  <2>1. \A q \in Processes : ProcessAlive(q)' => ProcessAlive(q) /\ q # handle
    BY <1>3, TrayAssumption DEF StopEnds, AfterStop, TrayInv, TrayTypeOK, ProcessAlive
  <2>2. handle' = NoProcess /\ replaced' = replaced /\ (serverOn' => reason' = "failedStop")
    BY <1>3 DEF StopEnds
  <2>. QED
    BY <1>1, <1>2, <2>1, <2>2
    DEF TrayInv, LeavesSafely, HandleKept, RunningExplained
<1>4. ASSUME NEW next \in {"stopping", "exiting"}, NEW ended \in BOOLEAN,
             StopBegins(next, ended)
      PROVE  TrayInv'
  <2>1. \A q \in Processes : ProcessAlive(q)' => ProcessAlive(q)
    BY <1>4 DEF StopBegins, TrayInv, TrayTypeOK, ProcessAlive
  <2>2. menu' = next /\ UNCHANGED <<handle, replaced>>
    BY <1>4 DEF StopBegins
  <2>. QED
    BY <1>1, <1>2, <2>1, <2>2
    DEF TrayInv, LeavesSafely, HandleKept, RunningExplained, InStop
<1>. QED
  BY <1>3, <1>4

LEMMA MenuStep ==
  ASSUME TrayInv, TrayStart \/ SkipStop \/ TrayLeave
  PROVE  TrayInv'
<1>1. CASE TrayStart
  <2>1. PICK p \in Processes, w \in Waiters :
          /\ process' = [process EXCEPT ![p] = "loading"]
          /\ replaced' = replaced \cup ({handle} \ {NoProcess})
          /\ handle' = p
          /\ waiter' = [waiter EXCEPT ![w] = "polling"]
    BY <1>1 DEF TrayStart
  <2>2. TrayTypeOK'
    BY <1>1, <2>1 DEF TrayStart, TrayInv, TrayTypeOK, ProcessState, WaiterState
  <2>3. HandleKept'
    BY <2>1, TrayAssumption DEF TrayInv, TrayTypeOK, HandleKept, ProcessAlive
  <2>4. AliveOrExited'
    BY <2>1 DEF AliveOrExited, ProcessAlive, TrayInv, TrayTypeOK
  <2>. QED
    BY <1>1, <2>2, <2>3, <2>4
    DEF TrayStart, TrayInv, AnswersStand, LeavesSafely, RunningExplained
<1>2. CASE SkipStop \/ TrayLeave
  <2>1. UNCHANGED <<process, handle, serverOn, waiter, reason, replaced, exits>>
        /\ ((menu = "idle" /\ ~serverOn /\ menu' = "leaving")
            \/ (menu = "leaving" /\ menu' = "gone"))
    BY <1>2 DEF SkipStop, TrayLeave
  <2>2. TrayTypeOK' /\ LeavesSafely'
    BY <2>1 DEF TrayInv, TrayTypeOK, LeavesSafely
  <2>3. AnswersStand' /\ HandleKept' /\ RunningExplained'
    BY <2>1 DEF TrayInv, AnswersStand, HandleKept, RunningExplained, AliveOrExited,
                ProcessAlive, InStop
  <2>. QED
    BY <2>2, <2>3 DEF TrayInv
<1>. QED
  BY <1>1, <1>2

LEMMA WaiterStep ==
  ASSUME TrayInv, NEW w \in Waiters, ServerAnswers(w) \/ MarkRunning(w) \/ GiveUp(w)
  PROVE  TrayInv'
<1>1. TrayTypeOK' /\ UNCHANGED <<process, handle, menu, replaced, exits>>
  BY DEF TrayInv, TrayTypeOK, WaiterState, ServerAnswers, MarkRunning, GiveUp
<1>2. AliveOrExited' = AliveOrExited /\ HandleKept' = HandleKept /\ InStop' = InStop
  BY <1>1 DEF AliveOrExited, HandleKept, ProcessAlive, InStop
<1>3. CASE ServerAnswers(w)
  <2>1. AliveOrExited
    BY <1>3 DEF ServerAnswers, AliveOrExited, ProcessAlive
  <2>. QED
    BY <1>1, <1>2, <1>3, <2>1
    DEF ServerAnswers, TrayInv, AnswersStand, LeavesSafely, RunningExplained
<1>4. CASE MarkRunning(w)
  <2>1. AnswersStand'
    BY <1>1, <1>2, <1>4 DEF MarkRunning, TrayInv, TrayTypeOK, AnswersStand
  <2>2. LeavesSafely'
    BY <1>1, <1>4 DEF MarkRunning, TrayInv, LeavesSafely
  <2>3. RunningExplained'
    BY <1>1, <1>2, <1>4 DEF MarkRunning, TrayInv, AnswersStand, RunningExplained
  <2>. QED
    BY <1>1, <1>2, <2>1, <2>2, <2>3 DEF TrayInv
<1>5. CASE GiveUp(w)
  BY <1>1, <1>2, <1>5
  DEF GiveUp, TrayInv, TrayTypeOK, AnswersStand, LeavesSafely, RunningExplained
<1>. QED
  BY <1>3, <1>4, <1>5

\* Whatever the user clicks while processes start, answer, block or end, and
\* wherever a stop falls between an answer and its record, the tray keeps the
\* handle of every live process but those replaced by a later start, and says
\* "running" without one only for a named reason.
THEOREM TrayIsExplained == TraySpec => []TrayExplained
<1>1. TrayInit => TrayInv
  BY TrayInvInit
<1>2. TrayInv /\ [TrayNext]_trayVars => TrayInv'
  <2>. SUFFICES ASSUME TrayInv, [TrayNext]_trayVars PROVE TrayInv'
    OBVIOUS
  <2>1. CASE UNCHANGED trayVars
    BY <2>1 DEF trayVars, TrayInv, TrayTypeOK, AnswersStand, LeavesSafely, HandleKept,
                RunningExplained, AliveOrExited, ProcessAlive, InStop
  <2>2. CASE TrayNext
    <3>1. CASE StopEnds \/ \E next \in {"stopping", "exiting"}, ended \in BOOLEAN :
                             StopBegins(next, ended)
      BY <3>1, StopStep
    <3>2. CASE TrayStart \/ SkipStop \/ TrayLeave
      BY <3>2, MenuStep
    <3>3. ASSUME NEW w \in Waiters, ServerAnswers(w) \/ MarkRunning(w) \/ GiveUp(w)
          PROVE  TrayInv'
      BY <3>3, WaiterStep
    <3>4. ASSUME NEW p \in Processes, NEW next \in {"ended", "blocked"},
                 Listen(p) \/ Fail(p, next)
          PROVE  TrayInv'
      BY <3>4, ProcessStep
    <3>. QED
      BY <2>2, <3>1, <3>2, <3>3, <3>4 DEF TrayNext
  <2>. QED
    BY <2>1, <2>2
<1>3. TrayInv => TrayExplained
  BY DEF TrayInv, TrayExplained, HandleKept, LeavesSafely, RunningExplained, AliveOrExited
<1>. QED
  BY <1>1, <1>2, <1>3, PTL DEF TraySpec

-----------------------------------------------------------------------------
(***************************************************************************)
(* MetricsKept, for any number of models, requests, crashes and faults.    *)
(*                                                                         *)
(* What makes it inductive is that the temporary file holds the counters of*)
(* memory when it is about to be renamed (Renamed): nothing counts while a *)
(* save is under way.                                                      *)
(***************************************************************************)
MetricsTypeOK ==
    /\ allTime \in Counts
    /\ statsFile \in Counts \cup {Missing}
    /\ unsavedCounts \in Nat
    /\ cleared \in BOOLEAN

Renamed == metricsAt = "replace" => tmpFile = allTime

MetricsInv == MetricsTypeOK /\ Renamed /\ SavedExactly

LEMMA NoRequestsType == NoRequests \in Counts /\ NoRequests.total = 0
  BY DEF NoRequests, Counts

LEMMA PlusType ==
  ASSUME NEW c \in Counts, NEW names
  PROVE  Plus(c, names) \in Counts /\ Plus(c, names).total = c.total + 1
<1>1. /\ c.total \in Nat /\ c.nameless \in Nat
      /\ \A m \in CountedModels : c.per[m] \in Nat
  BY DEF Counts
<1>2. [m \in CountedModels |-> c.per[m] + (IF m \in names THEN 1 ELSE 0)] \in [CountedModels -> Nat]
  BY <1>1
<1>. QED
  BY <1>1, <1>2 DEF Plus, Counts

LEMMA SavedTotalOf ==
  ASSUME NEW f, f \in Counts \/ f = Missing
  PROVE  /\ f \in Counts => f \notin {Missing, Broken}
         /\ f = Missing => f # Broken
  BY MetricsAssumption

\* The counters just after a start or after clearing.
LEMMA NothingUnsaved ==
  ASSUME statsFile \in Counts \cup {Missing}, allTime \in Counts, unsavedCounts = 0,
         statsFile = Missing => allTime.total = 0,
         statsFile \in Counts => allTime.total = statsFile.total
  PROVE  SavedExactly
<1>1. statsFile # Broken
  BY MetricsAssumption
<1>2. allTime.total \in Nat
  BY DEF Counts
<1>3. SavedTotal = allTime.total
  BY <1>1, SavedTotalOf DEF SavedTotal
<1>. QED
  BY <1>1, <1>2, <1>3 DEF SavedExactly

LEMMA MetricsInvInit == MetricsInit => MetricsInv
<1>. SUFFICES ASSUME MetricsInit PROVE MetricsInv
  OBVIOUS
<1>1. MetricsTypeOK /\ Renamed
  BY NoRequestsType DEF MetricsInit, MetricsTypeOK, Renamed
<1>2. statsFile \notin Counts /\ allTime.total = 0 /\ unsavedCounts = 0
  BY NoRequestsType, MetricsAssumption DEF MetricsInit
<1>. QED
  BY <1>1, <1>2, NothingUnsaved DEF MetricsInv, MetricsTypeOK

LEMMA MetricsInvStep == MetricsInv /\ [MetricsNext]_metricsVars => MetricsInv'
<1>. SUFFICES ASSUME MetricsInv, [MetricsNext]_metricsVars PROVE MetricsInv'
  OBVIOUS
<1>. USE DEF MetricsInv, MetricsTypeOK, Renamed
<1>1. ASSUME NEW names, NEW due, RecordRequest(names, due) PROVE MetricsInv'
  <2>1. /\ allTime' = Plus(allTime, names) /\ unsavedCounts' = unsavedCounts + 1
        /\ UNCHANGED <<statsFile, cleared>> /\ metricsAt' # "replace"
    BY <1>1 DEF RecordRequest, MetricsFiles
  <2>2. allTime' \in Counts /\ allTime'.total = allTime.total + 1
    BY <2>1, PlusType
  <2>3. SavedTotal' = SavedTotal /\ SavedTotal \in Nat
    BY <2>1 DEF SavedTotal, Counts
  <2>. QED
    BY <2>1, <2>2, <2>3 DEF SavedExactly
<1>2. CASE OpenFile \/ DumpFile
  BY <1>2 DEF OpenFile, DumpFile, SavedExactly, SavedTotal
<1>3. CASE ReplaceFile
  <2>1. /\ statsFile' = allTime /\ unsavedCounts' = 0 /\ cleared' = FALSE
        /\ UNCHANGED allTime /\ metricsAt' # "replace"
    BY <1>3 DEF ReplaceFile, AfterSave
  <2>2. allTime # Missing /\ allTime # Broken /\ allTime.total \in Nat
    BY SavedTotalOf DEF Counts
  <2>3. SavedTotal' = allTime.total
    BY <2>1, <2>2 DEF SavedTotal
  <2>4. SavedExactly'
    BY <2>1, <2>2, <2>3 DEF SavedExactly
  <2>. QED
    BY <2>1, <2>4
<1>4. CASE SaveFails
  BY <1>4 DEF SaveFails, AfterSave, SavedExactly, SavedTotal
<1>5. CASE ClearSession
  BY <1>5 DEF ClearSession, MetricsFiles, SavedExactly, SavedTotal
<1>6. ASSUME NEW gone \in BOOLEAN, ClearAllTime(gone) PROVE MetricsInv'
  <2>1. /\ allTime' = NoRequests /\ unsavedCounts' = 0 /\ cleared' = ~gone
        /\ statsFile' = IF gone THEN Missing ELSE statsFile
        /\ metricsAt' # "replace"
    BY <1>6 DEF ClearAllTime
  <2>2. statsFile' # Broken
    BY <2>1, MetricsAssumption DEF SavedExactly
  <2>3. gone => SavedTotal' = 0
    BY <2>1 DEF SavedTotal
  <2>4. ~cleared' => gone
    BY <2>1, Zenon
  <2>5. allTime'.total = 0 /\ unsavedCounts' = 0
    BY <2>1, NoRequestsType
  <2>6. SavedExactly'
    BY <2>2, <2>3, <2>4, <2>5 DEF SavedExactly
  <2>. QED
    BY <2>1, <2>6, NoRequestsType
<1>7. CASE BeginShutdown \/ ServerCrash
  BY <1>7 DEF BeginShutdown, ServerCrash, MetricsFiles, SavedExactly, SavedTotal
<1>8. CASE StartMetrics
  <2>1. /\ allTime' = IF statsFile \in {Missing, Broken} THEN NoRequests ELSE statsFile
        /\ unsavedCounts' = 0 /\ UNCHANGED statsFile /\ metricsAt' # "replace"
        /\ cleared' = FALSE
    BY <1>8 DEF StartMetrics, MetricsFiles
  <2>2. statsFile # Broken /\ (statsFile \in Counts => statsFile.total \in Nat)
    BY DEF SavedExactly, Counts
  <2>3. CASE statsFile = Missing
    <3>1. allTime' = NoRequests /\ SavedTotal' = 0
      BY <2>1, <2>3 DEF SavedTotal
    <3>2. SavedExactly'
      BY <2>1, <2>2, <3>1, NoRequestsType DEF SavedExactly
    <3>. QED
      BY <2>1, <3>1, <3>2, NoRequestsType
  <2>4. CASE statsFile # Missing
    <3>1. allTime' = statsFile /\ SavedTotal' = statsFile.total
      BY <2>1, <2>2, <2>4 DEF SavedTotal
    <3>2. SavedExactly'
      BY <2>1, <2>2, <2>4, <3>1 DEF SavedExactly
    <3>. QED
      BY <2>1, <2>4, <3>1, <3>2
  <2>. QED
    BY <2>3, <2>4
<1>9. CASE UNCHANGED metricsVars
  BY <1>9 DEF metricsVars, SavedExactly, SavedTotal
<1>. QED
  BY <1>1, <1>2, <1>3, <1>4, <1>5, <1>6, <1>7, <1>8, <1>9 DEF MetricsNext

\* And totals and counters of models agree wherever they are kept.
WholeCounts == {c \in Counts : c.total = TotalOf(c)}
TotalsAgree == {allTime, sessionCounts} \subseteq WholeCounts /\ statsFile \in WholeCounts \cup {Missing}

\* The total as a sum that the lemmas are about.
LEMMA TotalIsSum ==
  ASSUME NEW c \in Counts
  PROVE  /\ TotalOf(c) = SumOver(c.per, CountedModels) + c.nameless
         /\ \A m \in CountedModels : c.per[m] \in Nat
         /\ c.nameless \in Nat /\ c.total \in Nat
  BY DEF TotalOf, SumOver, Counts

LEMMA NoRequestsWhole == NoRequests \in WholeCounts
<1>. DEFINE g == NoRequests.per
<1>1. TotalOf(NoRequests) = SumOver(g, CountedModels) + 0 /\ NoRequests.total = 0
  BY NoRequestsType, TotalIsSum DEF NoRequests
<1>2. \A m \in CountedModels : g[m] = 0
  BY DEF NoRequests
<1>. HIDE DEF g
<1>3. SumOver(g, CountedModels) = 0
  BY <1>2, MetricsAssumption, SumOverZero
<1>. QED
  BY <1>1, <1>3, NoRequestsType DEF WholeCounts

LEMMA PlusWhole ==
  ASSUME NEW c \in WholeCounts, NEW names \in {{}} \cup {{m} : m \in CountedModels}
  PROVE  Plus(c, names) \in WholeCounts
<1>. DEFINE d == Plus(c, names)
            f == c.per
            g == d.per
            M == CountedModels
<1>0. IsFiniteSet(M) /\ c \in Counts /\ c.total = TotalOf(c)
  BY MetricsAssumption DEF WholeCounts
<1>1. /\ d \in Counts /\ d.total = c.total + 1
      /\ d.nameless = c.nameless + (IF names = {} THEN 1 ELSE 0)
  BY <1>0, PlusType DEF Plus
<1>2. \A m \in M : g[m] = f[m] + (IF m \in names THEN 1 ELSE 0)
  BY DEF Plus
<1>. HIDE DEF d
<1>3. /\ TotalOf(c) = SumOver(f, M) + c.nameless /\ \A m \in M : f[m] \in Nat
      /\ TotalOf(d) = SumOver(g, M) + d.nameless /\ \A m \in M : g[m] \in Nat
      /\ c.nameless \in Nat /\ c.total \in Nat
  BY <1>0, <1>1, TotalIsSum
<1>a. SUFFICES d.total = TotalOf(d)
  BY <1>1 DEF WholeCounts, d
<1>. HIDE DEF f, g, M
<1>4. /\ SumOver(f, M) \in Nat /\ SumOver(g, M) \in Nat
      /\ \A x \in M : /\ SumOver(f, M) = f[x] + SumOver(f, M \ {x})
                      /\ SumOver(g, M) = g[x] + SumOver(g, M \ {x})
                      /\ SumOver(f, M \ {x}) \in Nat /\ SumOver(g, M \ {x}) \in Nat
  BY <1>0, <1>3, SumOverFacts
<1>5. CASE names = {}
  <2>1. \A m \in M : g[m] = f[m] /\ g[m] \in Int
    BY <1>2, <1>3, <1>5
  <2>2. SumOver(g, M) = SumOver(f, M)
    BY <1>0, <2>1, SumOverSame
  <2>. QED
    BY <1>0, <1>1, <1>3, <1>4, <1>5, <2>2
<1>6. CASE names # {}
  <2>1. PICK x \in M : names = {x}
    BY <1>6 DEF M
  <2>2. \A m \in M \ {x} : g[m] = f[m] /\ g[m] \in Int
    BY <1>2, <1>3, <2>1
  <2>3. IsFiniteSet(M \ {x})
    BY <1>0, FS_Subset
  <2>4. SumOver(g, M \ {x}) = SumOver(f, M \ {x})
    BY <2>2, <2>3, SumOverSame
  <2>5. g[x] = f[x] + 1 /\ f[x] \in Nat
    BY <1>2, <1>3, <2>1
  <2>6. SumOver(g, M) = SumOver(f, M) + 1
    BY <1>4, <2>1, <2>4, <2>5
  <2>7. d.nameless = c.nameless
    BY <1>1, <1>3, <1>6
  <2>. QED
    BY <1>0, <1>1, <1>3, <1>4, <2>6, <2>7
<1>. QED
  BY <1>5, <1>6

LEMMA TotalsAgreeStep ==
  ASSUME MetricsInv, TotalsAgree, [MetricsNext]_metricsVars
  PROVE  TotalsAgree'
<1>. USE DEF MetricsInv, MetricsTypeOK, TotalsAgree
<1>1. ASSUME NEW names \in {{}} \cup {{m} : m \in CountedModels}, NEW due,
             RecordRequest(names, due)
      PROVE  TotalsAgree'
  <2>1. /\ allTime' = Plus(allTime, names) /\ sessionCounts' = Plus(sessionCounts, names)
        /\ statsFile' = statsFile
    BY <1>1 DEF RecordRequest, MetricsFiles
  <2>2. Plus(allTime, names) \in WholeCounts /\ Plus(sessionCounts, names) \in WholeCounts
    BY PlusWhole
  <2>. QED
    BY <2>1, <2>2
<1>2. CASE ReplaceFile
  BY <1>2 DEF ReplaceFile, Renamed
<1>3. CASE OpenFile \/ DumpFile \/ SaveFails \/ BeginShutdown \/ ServerCrash \/ UNCHANGED metricsVars
  <2>1. UNCHANGED <<allTime, sessionCounts, statsFile>>
    BY <1>3 DEF OpenFile, DumpFile, SaveFails, BeginShutdown, ServerCrash, metricsVars, MetricsFiles
  <2>. QED
    BY <2>1
<1>4. CASE ClearSession
  <2>1. sessionCounts' = NoRequests /\ UNCHANGED <<allTime, statsFile>>
    BY <1>4 DEF ClearSession, MetricsFiles
  <2>. QED
    BY <2>1, NoRequestsWhole
<1>5. ASSUME NEW gone \in BOOLEAN, ClearAllTime(gone) PROVE TotalsAgree'
  <2>1. /\ allTime' = NoRequests /\ sessionCounts' = sessionCounts
        /\ statsFile' = Missing \/ statsFile' = statsFile
    BY <1>5 DEF ClearAllTime
  <2>. QED
    BY <2>1, NoRequestsWhole
<1>6. CASE StartMetrics
  <2>1. /\ sessionCounts' = NoRequests /\ statsFile' = statsFile
        /\ allTime' = IF statsFile \in {Missing, Broken} THEN NoRequests ELSE statsFile
    BY <1>6 DEF StartMetrics, MetricsFiles
  <2>2. allTime' = NoRequests \/ (statsFile \in WholeCounts /\ allTime' = statsFile)
    BY <2>1
  <2>. QED
    BY <2>1, <2>2, NoRequestsWhole
<1>. QED
  BY <1>1, <1>2, <1>3, <1>4, <1>5, <1>6 DEF MetricsNext

LEMMA MetricsAreKept == MetricsSpec => []MetricsKept
<1>1. MetricsInit => MetricsInv /\ TotalsAgree
  <2>1. ASSUME MetricsInit PROVE TotalsAgree
    BY <2>1, NoRequestsWhole DEF MetricsInit, TotalsAgree
  <2>. QED
    BY <2>1, MetricsInvInit
<1>2. MetricsInv /\ TotalsAgree /\ [MetricsNext]_metricsVars => (MetricsInv /\ TotalsAgree)'
  BY MetricsInvStep, TotalsAgreeStep
<1>3. MetricsInv /\ TotalsAgree => MetricsKept
  BY DEF MetricsInv, TotalsAgree, WholeCounts, MetricsKept
<1>. QED
  BY <1>1, <1>2, <1>3, PTL DEF MetricsSpec

-----------------------------------------------------------------------------
(***************************************************************************)
(* StoreConsistent, for any number of responses and any size of the store. *)
(*                                                                         *)
(* HistoryWhole by itself is not inductive: a response that was refused for*)
(* a crash is in its file and may be continued (HistoryKnown).  What makes *)
(* the history of a follow-up whole is that a chain that reaches a first   *)
(* response is the history of its last one with that one appended          *)
(* (ChainIsHistory), since a response never changes the one it follows.    *)
(***************************************************************************)
StoreTypeOK ==
    /\ kept \in Seq(Responses) /\ IsInjective(kept)
    /\ disk \subseteq Responses /\ deleted \subseteq Responses
    /\ previous \in [Responses -> 0 .. MaxResponses]
    /\ turn \in [Responses -> {"unused", "generating", "told", "over", "refused"}]
    /\ history \in [Responses -> Seq(Responses)]
    /\ faults \in Nat /\ serving \in BOOLEAN

\* A response follows an earlier one, and is stored or deleted only when its
\* request has ended.
TurnsInOrder ==
    /\ \A r \in Responses :
         /\ previous[r] < r
         /\ turn[r] # "unused" /\ previous[r] # 0 => turn[previous[r]] # "unused"
    /\ \A r \in ToSet(kept) \cup disk \cup deleted : turn[r] \in {"over", "refused"}

FollowsWhole(r) ==
    history[r] = IF previous[r] = 0 THEN << >> ELSE Append(history[previous[r]], previous[r])
HistoryKnown ==
    \A r \in Responses :
        r \in ToSet(kept) \cup disk \/ turn[r] \in {"generating", "told", "over"} => FollowsWhole(r)

StoreInv ==
    /\ StoreTypeOK /\ TurnsInOrder /\ HistoryKnown /\ FilesFollowMemory /\ DeletedStaysDeleted
    /\ ~serving => kept = << >>

-----------------------------------------------------------------------------
(* Chains and the order of use                                             *)

\* The recursive definition of a chain has a value: a response follows an earlier
\* one.
LEMMA ChainSteps ==
  ASSUME StoreTypeOK, TurnsInOrder
  PROVE  \A q \in 0 .. MaxResponses :
           Chain(q) = IF q = 0 \/ q \notin ToSet(kept) THEN << >>
                      ELSE Append(Chain(previous[q]), q)
<1>. DEFINE IsChain(c) == c = [q \in 0 .. MaxResponses |->
                                 IF q = 0 \/ q \notin ToSet(kept) THEN << >>
                                 ELSE Append(c[previous[q]], q)]
            all == CHOOSE c : IsChain(c)
            S == Seq(Responses)
            step == [x \in (1 .. MaxResponses) \X S |->
                       IF x[1] \notin ToSet(kept) THEN << >> ELSE Append(x[2], x[1])]
<1>1. \A q \in 0 .. MaxResponses : Chain(q) = all[q]
  BY DEF Chain
<1>2. MaxResponses \in Nat /\ Responses = 1 .. MaxResponses
  BY StoreAssumption DEF Responses
<1>3. step \in [(1 .. MaxResponses) \X S -> S] /\ << >> \in S
  <2>1. ASSUME NEW i \in 1 .. MaxResponses, NEW s \in S PROVE Append(s, i) \in S
    BY <1>2
  <2>2. << >> \in S
    OBVIOUS
  <2>. HIDE DEF S
  <2>. QED
    BY <2>1, <2>2
<1>4. \A i \in 1 .. MaxResponses : previous[i] \in 0 .. i - 1
  BY <1>2 DEF StoreTypeOK, TurnsInOrder
<1>5. \A i \in 1 .. MaxResponses, s \in S :
        step[i, s] = IF i \notin ToSet(kept) THEN << >> ELSE Append(s, i)
  OBVIOUS
<1>. HIDE DEF step, S
<1>6. PICK f \in [0 .. MaxResponses -> S] : Recursion(f, << >>, step, previous, MaxResponses)
  BY <1>2, <1>3, <1>4, RecursionExists
<1>7. ASSUME NEW q \in 0 .. MaxResponses
      PROVE  f[q] = IF q = 0 \/ q \notin ToSet(kept) THEN << >> ELSE Append(f[previous[q]], q)
  <2>1. f[q] = IF q = 0 THEN << >> ELSE step[q, f[previous[q]]]
    BY <1>6 DEF Recursion
  <2>2. CASE q = 0
    BY <2>1, <2>2
  <2>3. CASE q # 0
    <3>1. q \in 1 .. MaxResponses /\ previous[q] \in 0 .. MaxResponses
      BY <1>2, <1>4, <2>3
    <3>2. f[previous[q]] \in S
      BY <1>6, <3>1
    <3>. QED
      BY <1>5, <2>1, <2>3, <3>1, <3>2
  <2>. QED
    BY <2>2, <2>3
<1>8. IsChain(f)
  <2>1. f = [q \in 0 .. MaxResponses |-> f[q]]
    BY <1>6
  <2>. QED
    BY <1>7, <2>1
<1>9. IsChain(all)
  <2>. HIDE DEF IsChain
  <2>. QED
    BY <1>8
<1>. HIDE DEF all
<1>10. \A q \in 0 .. MaxResponses :
         all[q] = IF q = 0 \/ q \notin ToSet(kept) THEN << >> ELSE Append(all[previous[q]], q)
  BY <1>9
<1>11. ASSUME NEW q \in 0 .. MaxResponses
       PROVE  q # 0 => all[previous[q]] = Chain(previous[q])
  BY <1>1, <1>2, <1>4
<1>. QED
  BY <1>1, <1>10, <1>11

\* The items of a chain are in the store.
LEMMA ChainKept ==
  ASSUME StoreTypeOK, TurnsInOrder
  PROVE  \A q \in 0 .. MaxResponses : Chain(q) \in Seq(ToSet(kept))
<1>. DEFINE K == ToSet(kept)
            Bad == {q \in 0 .. MaxResponses : Chain(q) \notin Seq(K)}
<1>1. MaxResponses \in Nat /\ Responses = 1 .. MaxResponses
  BY StoreAssumption DEF Responses
<1>2. Bad \subseteq 0 .. MaxResponses
  OBVIOUS
<1>3. SUFFICES ASSUME Bad # {} PROVE FALSE
  OBVIOUS
<1>4. PICK q \in Bad : \A p \in 0 .. q - 1 : p \notin Bad
  <2>. HIDE DEF Bad
  <2>. QED
    BY <1>1, <1>2, <1>3, LeastBad
<1>5. Chain(q) = IF q = 0 \/ q \notin K THEN << >> ELSE Append(Chain(previous[q]), q)
  BY ChainSteps
<1>. HIDE DEF K
<1>6. CASE q = 0 \/ q \notin K
  <2>1. Chain(q) = << >>
    BY <1>5, <1>6
  <2>2. << >> \in Seq(K)
    OBVIOUS
  <2>. QED
    BY <1>4, <2>1, <2>2
<1>7. CASE q # 0 /\ q \in K
  <2>1. previous[q] \in 0 .. q - 1 /\ previous[q] \in 0 .. MaxResponses
    BY <1>1, <1>7 DEF StoreTypeOK, TurnsInOrder
  <2>2. Chain(previous[q]) \in Seq(K)
    BY <1>4, <2>1
  <2>. QED
    BY <1>5, <1>7, <2>2
<1>. QED
  BY <1>6, <1>7

\* A chain that reaches a first response is the history of its last one with that
\* one appended.
LEMMA ChainIsHistory ==
  ASSUME StoreTypeOK, TurnsInOrder, HistoryKnown
  PROVE  \A q \in Responses : ChainWhole(q) => Chain(q) = Append(history[q], q)
<1>. DEFINE Bad == {q \in 0 .. MaxResponses :
                      q # 0 /\ ChainWhole(q) /\ Chain(q) # Append(history[q], q)}
<1>1. MaxResponses \in Nat /\ Responses = 1 .. MaxResponses
  BY StoreAssumption DEF Responses
<1>2. Bad \subseteq 0 .. MaxResponses
  OBVIOUS
<1>0. \A q \in Responses : q \in 0 .. MaxResponses /\ q # 0
  BY <1>1
<1>3. SUFFICES ASSUME Bad # {} PROVE FALSE
  BY <1>0
<1>4. PICK q \in Bad : \A p \in 0 .. q - 1 : p \notin Bad
  <2>. HIDE DEF Bad
  <2>. QED
    BY <1>1, <1>2, <1>3, LeastBad
<1>5. q \in Responses /\ ChainWhole(q) /\ Chain(q) # Append(history[q], q)
  BY <1>1, <1>4
<1>6. q \in ToSet(kept) /\ Chain(q) = Append(Chain(previous[q]), q)
  BY <1>1, <1>5, ChainSteps DEF ChainWhole
<1>7. FollowsWhole(q) /\ history[q] \in Seq(Responses)
  BY <1>5, <1>6 DEF HistoryKnown, StoreTypeOK
<1>8. previous[q] \in 0 .. q - 1 /\ previous[q] \in 0 .. MaxResponses
  BY <1>1, <1>5 DEF StoreTypeOK, TurnsInOrder
<1>9. CASE previous[q] = 0
  <2>1. Chain(previous[q]) = << >>
    BY <1>8, <1>9, ChainSteps
  <2>. QED
    BY <1>5, <1>6, <1>7, <1>9, <2>1 DEF FollowsWhole
<1>10. CASE previous[q] # 0
  <2>. DEFINE p == previous[q]
              c == Chain(p)
  <2>1. p \in Responses /\ p \in 0 .. q - 1
    BY <1>1, <1>8, <1>10
  <2>2. c \in Seq(ToSet(kept))
    BY <1>8, ChainKept
  <2>3. previous[Head(Append(c, q))] = 0
    BY <1>5, <1>6 DEF ChainWhole
  <2>. HIDE DEF c
  <2>4. c # << >>
    <3>1. SUFFICES ASSUME c = << >> PROVE FALSE
      OBVIOUS
    <3>2. Head(Append(c, q)) = q
      BY <3>1
    <3>. QED
      BY <1>10, <2>3, <3>2
  <2>5. Head(Append(c, q)) = Head(c)
    BY <2>2, <2>4
  <2>6. ChainWhole(p)
    BY <2>3, <2>4, <2>5 DEF ChainWhole, c
  <2>7. c = Append(history[p], p)
    BY <1>1, <1>4, <2>1, <2>6 DEF c
  <2>. QED
    BY <1>5, <1>6, <1>7, <1>10, <2>7 DEF FollowsWhole, c
<1>. QED
  BY <1>9, <1>10

\* Touching moves a response to the end of the order.
LEMMA TouchFacts ==
  ASSUME NEW s \in Seq(Responses), IsInjective(s), NEW r \in Responses
  PROVE  /\ Touch(s, r) \in Seq(Responses) /\ IsInjective(Touch(s, r))
         /\ ToSet(Touch(s, r)) = ToSet(s) \cup {r}
  BY MoveLast DEF Touch

\* Whatever is touched, the same responses are stored.
LEMMA TouchChainFacts ==
  ASSUME StoreTypeOK, TurnsInOrder, NEW p \in Responses
  PROVE  /\ TouchChain(p) \in Seq(Responses) /\ IsInjective(TouchChain(p))
         /\ ToSet(TouchChain(p)) = ToSet(kept)
<1>. DEFINE K == ToSet(kept)
            order == Reverse(Chain(p))
            N == Len(order)
            Good == {s \in Seq(Responses) : IsInjective(s) /\ ToSet(s) = K}
            IsTouched(t) == t = [n \in 0 .. N |-> IF n = 0 THEN kept ELSE Touch(t[n - 1], order[n])]
            all == CHOOSE t : IsTouched(t)
            step == [x \in (1 .. N) \X Good |-> Touch(x[2], order[x[1]])]
            back == [i \in 1 .. N |-> i - 1]
<1>1. TouchChain(p) = all[N]
  BY DEF TouchChain
<1>2. MaxResponses \in Nat /\ p \in 0 .. MaxResponses /\ K \subseteq Responses /\ kept \in Good
  BY StoreAssumption DEF Responses, StoreTypeOK, ToSet
<1>3. Chain(p) \in Seq(K)
  BY <1>2, ChainKept
<1>4. N \in Nat /\ \A n \in 1 .. N : order[n] \in K
  BY <1>3 DEF Reverse
<1>. HIDE DEF order, N
<1>5. ASSUME NEW s \in Good, NEW n \in 1 .. N PROVE Touch(s, order[n]) \in Good
  <2>1. s \in Seq(Responses) /\ IsInjective(s) /\ ToSet(s) = K
    OBVIOUS
  <2>2. order[n] \in Responses /\ order[n] \in K
    BY <1>2, <1>4
  <2>. HIDE DEF K, Good
  <2>3. /\ Touch(s, order[n]) \in Seq(Responses) /\ IsInjective(Touch(s, order[n]))
        /\ ToSet(Touch(s, order[n])) = ToSet(s) \cup {order[n]}
    BY <2>1, <2>2, TouchFacts
  <2>. QED
    BY <2>1, <2>2, <2>3 DEF Good
<1>6. ASSUME NEW n \in 1 .. N, NEW s \in Good PROVE step[n, s] = Touch(s, order[n])
  OBVIOUS
<1>7. step \in [(1 .. N) \X Good -> Good]
  BY <1>5
<1>8. \A i \in 1 .. N : back[i] \in 0 .. i - 1 /\ back[i] = i - 1
  BY <1>4
<1>. HIDE DEF step, back, Good
<1>9. PICK f \in [0 .. N -> Good] : Recursion(f, kept, step, back, N)
  BY <1>2, <1>4, <1>7, <1>8, RecursionExists
<1>10. ASSUME NEW n \in 0 .. N
       PROVE  f[n] = IF n = 0 THEN kept ELSE Touch(f[n - 1], order[n])
  <2>1. f[n] = IF n = 0 THEN kept ELSE step[n, f[back[n]]]
    BY <1>9 DEF Recursion
  <2>2. CASE n = 0
    BY <2>1, <2>2
  <2>3. CASE n # 0
    <3>1. n \in 1 .. N /\ back[n] = n - 1 /\ n - 1 \in 0 .. N
      BY <1>4, <1>8, <2>3
    <3>. QED
      BY <1>6, <1>9, <2>1, <2>3, <3>1
  <2>. QED
    BY <2>2, <2>3
<1>11. IsTouched(f)
  <2>1. f = [n \in 0 .. N |-> f[n]]
    BY <1>9
  <2>. QED
    BY <1>10, <2>1
<1>12. IsTouched(all)
  <2>. HIDE DEF IsTouched
  <2>. QED
    BY <1>11
<1>. HIDE DEF all
<1>13. \A n \in 0 .. N : all[n] = IF n = 0 THEN kept ELSE Touch(all[n - 1], order[n])
  BY <1>12
<1>. DEFINE Bad == {n \in 0 .. N : all[n] \notin Good}
<1>14. Bad = {}
  <2>1. SUFFICES ASSUME Bad # {} PROVE FALSE
    OBVIOUS
  <2>2. Bad \subseteq 0 .. N
    OBVIOUS
  <2>3. PICK n \in Bad : \A m \in 0 .. n - 1 : m \notin Bad
    <3>. HIDE DEF Bad
    <3>. QED
      BY <1>4, <2>1, <2>2, LeastBad
  <2>4. n # 0
    BY <1>2, <1>13, <2>3
  <2>5. n \in 1 .. N /\ n - 1 \in 0 .. N /\ all[n - 1] \in Good
    BY <1>4, <2>3, <2>4
  <2>. QED
    BY <1>5, <1>13, <2>3, <2>4, <2>5
<1>15. all[N] \in Good
  BY <1>4, <1>14
<1>. QED
  BY <1>1, <1>15 DEF Good

-----------------------------------------------------------------------------
(* What is stored                                                          *)

\* How the differences of memory and files grow.
LEMMA Differences ==
  ASSUME NEW A \in SUBSET Responses, NEW B \in SUBSET Responses,
         NEW C \in SUBSET Responses, NEW D \in SUBSET Responses, NEW r
  PROVE  /\ {Cardinality(A), Cardinality(B), Cardinality(C), Cardinality(D)} \subseteq Nat
         /\ A \subseteq C /\ B \subseteq D =>
              Cardinality(A) + Cardinality(B) <= Cardinality(C) + Cardinality(D)
         /\ A \subseteq C \cup {r} /\ B \subseteq D =>
              Cardinality(A) + Cardinality(B) <= Cardinality(C) + Cardinality(D) + 1
         /\ A \subseteq C /\ B \subseteq D \cup {r} =>
              Cardinality(A) + Cardinality(B) <= Cardinality(C) + Cardinality(D) + 1
<1>1. IsFiniteSet(Responses)
  BY StoreAssumption, FS_Interval DEF Responses
<1>2. IsFiniteSet(A) /\ IsFiniteSet(B) /\ IsFiniteSet(C) /\ IsFiniteSet(D)
  BY <1>1, FS_Subset
<1>3. Cardinality(A) \in Nat /\ Cardinality(B) \in Nat /\ Cardinality(C) \in Nat /\ Cardinality(D) \in Nat
  BY <1>2, FS_CardinalityType
<1>4. ASSUME NEW X, IsFiniteSet(X)
      PROVE  /\ IsFiniteSet(X \cup {r}) /\ Cardinality(X) \in Nat /\ Cardinality(X \cup {r}) \in Nat
             /\ Cardinality(X \cup {r}) <= Cardinality(X) + 1
  <2>1. Cardinality(X) \in Nat
    BY <1>4, FS_CardinalityType
  <2>2. /\ IsFiniteSet(X \cup {r})
        /\ Cardinality(X \cup {r}) = IF r \in X THEN Cardinality(X) ELSE Cardinality(X) + 1
    BY <1>4, FS_AddElement
  <2>. QED
    BY <2>1, <2>2
<1>5. ASSUME NEW X, NEW Y, IsFiniteSet(Y), X \subseteq Y PROVE Cardinality(X) <= Cardinality(Y)
  BY <1>5, FS_Subset
<1>6. /\ A \subseteq C => Cardinality(A) <= Cardinality(C)
      /\ B \subseteq D => Cardinality(B) <= Cardinality(D)
      /\ A \subseteq C \cup {r} => Cardinality(A) <= Cardinality(C \cup {r})
      /\ B \subseteq D \cup {r} => Cardinality(B) <= Cardinality(D \cup {r})
  BY <1>2, <1>4, <1>5
<1>. QED
  BY <1>2, <1>3, <1>4, <1>6

\* What an eviction leaves, and what it takes.
LEMMA RemainingFacts ==
  ASSUME NEW s \in Seq(Responses), IsInjective(s)
  PROVE  /\ Remaining(s) \in Seq(Responses) /\ IsInjective(Remaining(s))
         /\ Len(Remaining(s)) <= StoreSize
         /\ ToSet(Remaining(s)) = ToSet(s) \ Evicted(s) /\ Evicted(s) \subseteq ToSet(s)
<1>. DEFINE n == Excess(s)
            a == SubSeq(s, 1, n)
            b == SubSeq(s, n + 1, Len(s))
<1>1. n \in 0 .. Len(s) /\ Len(s) - n <= StoreSize /\ Len(s) \in Nat
  BY StoreAssumption DEF Excess
<1>2. Remaining(s) = b /\ Evicted(s) = ToSet(a)
  BY DEF Remaining, Evicted
<1>. HIDE DEF n
<1>3. /\ a \in Seq(Responses) /\ IsInjective(a) /\ Len(a) = n
      /\ b \in Seq(Responses) /\ IsInjective(b) /\ Len(b) = Len(s) - n
      /\ ToSet(a) \cap ToSet(b) = {} /\ ToSet(a) \cup ToSet(b) = ToSet(s)
  BY <1>1, Split
<1>. HIDE DEF a, b
<1>. QED
  BY <1>1, <1>2, <1>3

\* FilesFollowMemory, while the server is up.
Synchronised ==
    /\ Cardinality(disk \ ToSet(kept)) + Cardinality(ToSet(kept) \ disk) <= faults
    /\ Len(kept) <= StoreSize + faults

\* What putting a response leaves.
LEMMA PutFacts ==
  ASSUME StoreTypeOK, Synchronised, NEW r \in Responses, r \notin ToSet(kept) \cup disk, Put(r)
  PROVE  /\ kept' \in Seq(Responses) /\ IsInjective(kept') /\ faults' \in Nat
         /\ ToSet(kept') \cup disk' \subseteq ToSet(kept) \cup disk \cup {r}
         /\ Synchronised'
<1>. DEFINE seq == Touch(kept, r)
            K == ToSet(kept)
            K2 == ToSet(kept')
<1>1. /\ kept \in Seq(Responses) /\ IsInjective(kept) /\ K \subseteq Responses
      /\ disk \subseteq Responses /\ faults \in Nat
      /\ r \notin K /\ r \notin disk
  BY DEF StoreTypeOK, ToSet
<1>2. seq \in Seq(Responses) /\ IsInjective(seq) /\ ToSet(seq) = K \cup {r}
  BY <1>1, TouchFacts
<1>3. Len(seq) = Len(kept) + 1 /\ Len(kept) \in Nat
  <2>1. /\ IsFiniteSet(K) /\ Cardinality(K) = Len(kept)
        /\ IsFiniteSet(ToSet(seq)) /\ Cardinality(ToSet(seq)) = Len(seq)
    BY <1>1, <1>2, LenOfSet
  <2>2. Cardinality(K \cup {r}) = Cardinality(K) + 1
    BY <1>1, <2>1, FS_AddElement
  <2>. QED
    BY <1>1, <1>2, <2>1, <2>2
<1>4. StoreSize \in Nat \ {0}
  BY StoreAssumption
<1>5. /\ Remaining(seq) \in Seq(Responses) /\ IsInjective(Remaining(seq))
      /\ Len(Remaining(seq)) <= StoreSize /\ Len(Remaining(seq)) \in Nat
      /\ ToSet(Remaining(seq)) = ToSet(seq) \ Evicted(seq)
  <2>. HIDE DEF seq
  <2>. QED
    BY <1>2, RemainingFacts
<1>6. /\ kept' = Remaining(seq) /\ disk' = (disk \cup {r}) \ Evicted(seq) /\ faults' = faults
      \/ /\ faults' = faults + 1
         /\ \/ kept' = seq /\ disk' = disk
            \/ kept' = Tail(seq) /\ disk' = disk \cup {r}
  BY DEF Put
<1>. HIDE DEF seq
<1>. DEFINE out == disk \ K
            new == K \ disk
            out2 == disk' \ K2
            new2 == K2 \ disk'
<1>7. Cardinality(out) + Cardinality(new) <= faults /\ Len(kept) <= StoreSize + faults
  BY DEF Synchronised
<1>8. SUFFICES
         /\ kept' \in Seq(Responses) /\ IsInjective(kept') /\ faults' \in Nat
         /\ K2 \cup disk' \subseteq K \cup disk \cup {r}
         /\ Cardinality(out2) + Cardinality(new2) <= faults'
         /\ Len(kept') <= StoreSize + faults'
  BY DEF Synchronised
<1>9. CASE kept' = Remaining(seq) /\ disk' = (disk \cup {r}) \ Evicted(seq) /\ faults' = faults
  <2>1. K2 = (K \cup {r}) \ Evicted(seq)
    BY <1>2, <1>5, <1>9
  <2>. HIDE DEF K, K2
  <2>2. /\ out2 \subseteq out /\ new2 \subseteq new
        /\ out2 \in SUBSET Responses /\ new2 \in SUBSET Responses
        /\ out \in SUBSET Responses /\ new \in SUBSET Responses
    BY <1>1, <1>9, <2>1
  <2>. HIDE DEF out, new, out2, new2
  <2>3. /\ {Cardinality(out), Cardinality(new), Cardinality(out2), Cardinality(new2)} \subseteq Nat
        /\ Cardinality(out2) + Cardinality(new2) <= Cardinality(out) + Cardinality(new)
    BY <2>2, Differences
  <2>4. Cardinality(out2) + Cardinality(new2) <= faults'
    BY <1>1, <1>7, <1>9, <2>3
  <2>5. K2 \cup disk' \subseteq K \cup disk \cup {r}
    BY <1>9, <2>1
  <2>6. Len(kept') <= StoreSize + faults'
    BY <1>1, <1>4, <1>5, <1>9
  <2>. QED
    BY <1>1, <1>5, <1>9, <2>4, <2>5, <2>6
<1>10. CASE faults' = faults + 1 /\ kept' = seq /\ disk' = disk
  <2>1. K2 = K \cup {r}
    BY <1>2, <1>10
  <2>. HIDE DEF K, K2
  <2>2. /\ out2 \subseteq out /\ new2 \subseteq new \cup {r}
        /\ out2 \in SUBSET Responses /\ new2 \in SUBSET Responses
        /\ out \in SUBSET Responses /\ new \in SUBSET Responses
    BY <1>1, <1>10, <2>1
  <2>. HIDE DEF out, new, out2, new2
  <2>3. /\ {Cardinality(out), Cardinality(new), Cardinality(out2), Cardinality(new2)} \subseteq Nat
        /\ Cardinality(out2) + Cardinality(new2) <= Cardinality(out) + Cardinality(new) + 1
    BY <2>2, Differences
  <2>4. Cardinality(out2) + Cardinality(new2) <= faults'
    BY <1>1, <1>7, <1>10, <2>3
  <2>5. K2 \cup disk' \subseteq K \cup disk \cup {r}
    BY <1>10, <2>1
  <2>6. Len(kept') <= StoreSize + faults'
    BY <1>1, <1>3, <1>4, <1>7, <1>10
  <2>. QED
    BY <1>1, <1>2, <1>10, <2>4, <2>5, <2>6
<1>11. CASE faults' = faults + 1 /\ kept' = Tail(seq) /\ disk' = disk \cup {r}
  <2>0. seq # << >>
    BY <1>2, <1>3
  <2>1. /\ kept' \in Seq(Responses) /\ IsInjective(kept') /\ Len(kept') = Len(seq) - 1
        /\ K2 = (K \cup {r}) \ {Head(seq)}
    BY <1>2, <1>11, <2>0, TailRest, TailItems
  <2>. HIDE DEF K, K2
  <2>2. /\ out2 \subseteq out \cup {Head(seq)} /\ new2 \subseteq new
        /\ out2 \in SUBSET Responses /\ new2 \in SUBSET Responses
        /\ out \in SUBSET Responses /\ new \in SUBSET Responses
    BY <1>1, <1>11, <2>1
  <2>. HIDE DEF out, new, out2, new2
  <2>3. /\ {Cardinality(out), Cardinality(new), Cardinality(out2), Cardinality(new2)} \subseteq Nat
        /\ Cardinality(out2) + Cardinality(new2) <= Cardinality(out) + Cardinality(new) + 1
    BY <2>2, Differences
  <2>4. Cardinality(out2) + Cardinality(new2) <= faults'
    BY <1>1, <1>7, <1>11, <2>3
  <2>5. K2 \cup disk' \subseteq K \cup disk \cup {r}
    BY <1>11, <2>1
  <2>6. Len(kept') <= StoreSize + faults'
    BY <1>1, <1>3, <1>4, <1>7, <1>11, <2>1
  <2>. QED
    BY <1>1, <1>11, <2>1, <2>4, <2>5, <2>6
<1>. QED
  BY <1>6, <1>9, <1>10, <1>11

-----------------------------------------------------------------------------
(* Every step of the store                                                 *)

\* Requests that go on or end, with what is stored of them.
LEMMA TurnsAndHistories ==
  ASSUME StoreInv, UNCHANGED <<previous, history>>,
         turn' \in [Responses -> {"unused", "generating", "told", "over", "refused"}],
         \A r \in Responses :
           /\ turn'[r] \in {"generating", "told", "over"} => turn[r] \in {"generating", "told", "over"}
           /\ turn'[r] = "unused" <=> turn[r] = "unused",
         ToSet(kept') \subseteq Responses, disk' \subseteq Responses, deleted' \subseteq Responses,
         \A r \in ToSet(kept') \cup disk' :
           r \in ToSet(kept) \cup disk \/ turn[r] \in {"generating", "told"},
         \A r \in ToSet(kept') \cup disk' \cup deleted' : turn'[r] \in {"over", "refused"}
  PROVE  TurnsInOrder' /\ HistoryKnown'
<1>. USE DEF StoreInv, StoreTypeOK
<1>0. Responses = 1 .. MaxResponses /\ MaxResponses \in Nat
  BY StoreAssumption DEF Responses
<1>1. TurnsInOrder'
  <2>1. ASSUME NEW r \in Responses
        PROVE  /\ previous'[r] < r
               /\ turn'[r] # "unused" /\ previous'[r] # 0 => turn'[previous'[r]] # "unused"
    <3>1. previous[r] < r /\ (turn[r] # "unused" /\ previous[r] # 0 => turn[previous[r]] # "unused")
      BY DEF TurnsInOrder
    <3>2. previous[r] # 0 => previous[r] \in Responses
      BY <1>0
    <3>. QED
      BY <3>1, <3>2
  <2>. QED
    BY <2>1 DEF TurnsInOrder
<1>2. HistoryKnown'
  <2>1. SUFFICES ASSUME NEW r \in Responses,
                        r \in ToSet(kept') \cup disk' \/ turn'[r] \in {"generating", "told", "over"}
                 PROVE  FollowsWhole(r)'
    BY DEF HistoryKnown
  <2>2. r \in ToSet(kept) \cup disk \/ turn[r] \in {"generating", "told", "over"}
    BY <2>1
  <2>3. FollowsWhole(r)
    BY <2>2 DEF HistoryKnown
  <2>. QED
    BY <2>3 DEF FollowsWhole
<1>. QED
  BY <1>1, <1>2

\* What the invariant needs of a step that leaves the files and what is stored.
LEMMA SameStored ==
  ASSUME StoreInv, UNCHANGED <<disk, deleted, faults, serving>>, serving,
         kept' \in Seq(Responses), IsInjective(kept'), ToSet(kept') = ToSet(kept)
  PROVE  FilesFollowMemory' /\ DeletedStaysDeleted'
<1>1. Len(kept') = Len(kept)
  BY LenOfSet DEF StoreInv, StoreTypeOK
<1>. QED
  BY <1>1 DEF StoreInv, FilesFollowMemory, DeletedStaysDeleted

LEMMA StoreInvInit == StoreInit => StoreInv
<1>. SUFFICES ASSUME StoreInit PROVE StoreInv
  OBVIOUS
<1>0. Responses = 1 .. MaxResponses /\ MaxResponses \in Nat /\ StoreSize \in Nat
  BY StoreAssumption DEF Responses
<1>1. kept \in Seq(Responses) /\ IsInjective(kept) /\ ToSet(kept) = {} /\ Len(kept) = 0
  BY DEF StoreInit, IsInjective, ToSet
<1>2. StoreTypeOK
  BY <1>0, <1>1 DEF StoreInit, StoreTypeOK
<1>3. TurnsInOrder
  BY <1>0, <1>1 DEF StoreInit, TurnsInOrder
<1>4. HistoryKnown
  BY <1>1 DEF StoreInit, HistoryKnown
<1>5. FilesFollowMemory
  <2>1. disk \ ToSet(kept) = {} /\ ToSet(kept) \ disk = {}
    BY <1>1 DEF StoreInit
  <2>. QED
    BY <1>0, <1>1, <2>1, FS_EmptySet DEF StoreInit, FilesFollowMemory
<1>6. DeletedStaysDeleted
  BY DEF StoreInit, DeletedStaysDeleted
<1>. QED
  BY <1>2, <1>3, <1>4, <1>5, <1>6 DEF StoreInit, StoreInv

LEMMA CreateStep ==
  ASSUME StoreInv, NEW r \in Responses, NEW p \in 0 .. MaxResponses, CreateResponse(r, p)
  PROVE  StoreInv'
<1>. USE DEF StoreInv, StoreTypeOK
<1>0. Responses = 1 .. MaxResponses /\ MaxResponses \in Nat
  BY StoreAssumption DEF Responses
<1>1. /\ serving /\ turn[r] = "unused" /\ (p # 0 => p < r /\ turn[p] \in {"told", "over"})
      /\ previous' = [previous EXCEPT ![r] = p]
      /\ UNCHANGED <<disk, deleted, faults, serving>>
  BY DEF CreateResponse
<1>2. \/ /\ p = 0 \/ ChainWhole(p)
         /\ turn' = [turn EXCEPT ![r] = "generating"]
         /\ history' = [history EXCEPT ![r] = Chain(p)]
      \/ turn' = [turn EXCEPT ![r] = "refused"] /\ history' = history
  BY DEF CreateResponse
<1>3. kept' = IF p = 0 THEN kept ELSE TouchChain(p)
  BY DEF CreateResponse
<1>4. kept' \in Seq(Responses) /\ IsInjective(kept') /\ ToSet(kept') = ToSet(kept)
  <2>1. CASE p = 0
    BY <1>3, <2>1
  <2>2. CASE p # 0
    <3>1. p \in Responses /\ kept' = TouchChain(p)
      BY <1>0, <1>3, <2>2
    <3>. QED
      BY <3>1, TouchChainFacts
  <2>. QED
    BY <2>1, <2>2
<1>5. FilesFollowMemory' /\ DeletedStaysDeleted'
  BY <1>1, <1>4, SameStored
<1>6. p = 0 \/ ChainWhole(p) => Chain(p) = IF p = 0 THEN << >> ELSE Append(history[p], p)
  <2>1. p = 0 => Chain(p) = << >>
    BY ChainSteps
  <2>2. p # 0 => p \in Responses
    BY <1>0
  <2>. QED
    BY <2>1, <2>2, ChainIsHistory
<1>7. p = 0 \/ ChainWhole(p) => Chain(p) \in Seq(Responses)
  <2>1. CASE p = 0
    <3>1. << >> \in Seq(Responses)
      OBVIOUS
    <3>. QED
      BY <1>6, <2>1, <3>1
  <2>2. CASE p # 0
    <3>1. p \in Responses /\ history[p] \in Seq(Responses)
      BY <1>0, <2>2
    <3>2. Append(history[p], p) \in Seq(Responses)
      BY <3>1
    <3>. QED
      BY <1>6, <2>2, <3>2
  <2>. QED
    BY <2>1, <2>2
<1>8. ASSUME NEW q \in Responses
      PROVE  /\ previous'[q] = (IF q = r THEN p ELSE previous[q])
             /\ q # r => turn'[q] = turn[q] /\ history'[q] = history[q]
  BY <1>1, <1>2
<1>a. turn'[r] \in {"generating", "refused"}
  BY <1>2
<1>9. StoreTypeOK'
  <2>1. history' \in [Responses -> Seq(Responses)]
    BY <1>2, <1>7
  <2>2. turn' \in [Responses -> {"unused", "generating", "told", "over", "refused"}]
    BY <1>2
  <2>. QED
    BY <1>1, <1>4, <2>1, <2>2
<1>10. TurnsInOrder'
  <2>1. ASSUME NEW q \in Responses
        PROVE  /\ previous'[q] < q
               /\ turn'[q] # "unused" /\ previous'[q] # 0 => turn'[previous'[q]] # "unused"
    <3>1. previous[q] < q /\ (turn[q] # "unused" /\ previous[q] # 0 => turn[previous[q]] # "unused")
      BY DEF TurnsInOrder
    <3>2. previous'[q] < q
      BY <1>0, <1>1, <1>8, <3>1
    <3>3. ASSUME turn'[q] # "unused", previous'[q] # 0 PROVE turn'[previous'[q]] # "unused"
      <4>. DEFINE b == previous'[q]
      <4>1. b \in Responses /\ turn[b] # "unused"
        <5>1. CASE q = r
          BY <1>0, <1>1, <1>8, <3>3, <5>1
        <5>2. CASE q # r
          <6>1. b = previous[q] /\ turn'[q] = turn[q] /\ previous[q] \in 0 .. MaxResponses
            BY <1>8, <5>2
          <6>. QED
            BY <1>0, <3>1, <3>3, <6>1
        <5>. QED
          BY <5>1, <5>2
      <4>. HIDE DEF b
      <4>2. b # r
        BY <1>1, <4>1
      <4>3. turn'[b] = turn[b]
        BY <1>8, <4>1, <4>2
      <4>. QED
        BY <4>1, <4>3 DEF b
    <3>. QED
      BY <3>2, <3>3
  <2>2. ASSUME NEW q \in ToSet(kept') \cup disk' \cup deleted'
        PROVE  turn'[q] \in {"over", "refused"}
    <3>1. q \in ToSet(kept) \cup disk \cup deleted
      BY <1>1, <1>4
    <3>2. turn[q] \in {"over", "refused"}
      BY <3>1 DEF TurnsInOrder
    <3>3. q \in Responses
      BY <3>1 DEF ToSet
    <3>. QED
      BY <1>1, <1>8, <3>2, <3>3
  <2>. QED
    BY <2>1, <2>2 DEF TurnsInOrder
<1>11. HistoryKnown'
  <2>1. SUFFICES ASSUME NEW q \in Responses,
                        q \in ToSet(kept') \cup disk' \/ turn'[q] \in {"generating", "told", "over"}
                 PROVE  FollowsWhole(q)'
    BY DEF HistoryKnown
  <2>2. r \notin ToSet(kept) \cup disk
    BY <1>1 DEF TurnsInOrder
  <2>3. CASE q = r
    <3>1. turn'[r] = "generating"
      BY <1>1, <1>4, <1>a, <2>1, <2>2, <2>3
    <3>2. (p = 0 \/ ChainWhole(p)) /\ history'[r] = Chain(p)
      BY <1>2, <3>1
    <3>3. previous'[r] = p /\ (p # 0 => p \in Responses /\ p # r)
      BY <1>0, <1>1, <1>8
    <3>4. p # 0 => history'[p] = history[p]
      BY <1>8, <3>3
    <3>. QED
      BY <1>6, <2>3, <3>2, <3>3, <3>4 DEF FollowsWhole
  <2>4. CASE q # r
    <3>1. turn'[q] = turn[q] /\ history'[q] = history[q] /\ previous'[q] = previous[q]
      BY <1>8, <2>4
    <3>2. q \in ToSet(kept) \cup disk \/ turn[q] \in {"generating", "told", "over"}
      BY <1>1, <1>4, <2>1, <3>1
    <3>3. FollowsWhole(q) /\ turn[q] # "unused"
      BY <3>2 DEF HistoryKnown, TurnsInOrder
    <3>a. previous[q] \in 0 .. MaxResponses
      OBVIOUS
    <3>b. turn[q] # "unused" /\ previous[q] # 0 => turn[previous[q]] # "unused"
      BY DEF TurnsInOrder
    <3>4. previous[q] # 0 => previous[q] \in Responses /\ turn[previous[q]] # "unused"
      BY <1>0, <3>3, <3>a, <3>b
    <3>5. previous[q] # 0 => history'[previous[q]] = history[previous[q]]
      BY <1>1, <1>8, <3>4
    <3>. QED
      BY <3>1, <3>3, <3>5 DEF FollowsWhole
  <2>. QED
    BY <2>3, <2>4
<1>. QED
  BY <1>1, <1>5, <1>9, <1>10, <1>11

\* A response is put when its request ends.
LEMMA ResponsePut ==
  ASSUME StoreInv, NEW r \in Responses, turn[r] \in {"generating", "told"}, Put(r), serving,
         UNCHANGED <<previous, history, deleted, serving>>,
         NEW end \in {"over", "refused"}, turn' = [turn EXCEPT ![r] = end]
  PROVE  StoreInv'
<1>. USE DEF StoreInv, StoreTypeOK
<1>1. r \notin ToSet(kept) \cup disk \cup deleted
  BY DEF TurnsInOrder
<1>2. Synchronised
  BY DEF FilesFollowMemory, Synchronised
<1>3. /\ kept' \in Seq(Responses) /\ IsInjective(kept') /\ faults' \in Nat
      /\ ToSet(kept') \cup disk' \subseteq ToSet(kept) \cup disk \cup {r}
      /\ Synchronised'
  BY <1>1, <1>2, PutFacts
<1>4. FilesFollowMemory'
  BY <1>3 DEF FilesFollowMemory, Synchronised
<1>5. DeletedStaysDeleted'
  BY <1>1, <1>3 DEF DeletedStaysDeleted
<1>6. ToSet(kept) \subseteq Responses
  BY DEF ToSet
<1>7. StoreTypeOK'
  BY <1>3, <1>6
<1>8. /\ ToSet(kept') \subseteq Responses /\ disk' \subseteq Responses /\ deleted' \subseteq Responses
      /\ \A q \in ToSet(kept') \cup disk' :
           q \in ToSet(kept) \cup disk \/ turn[q] \in {"generating", "told"}
  BY <1>3, <1>6
<1>9. \A q \in Responses :
        /\ turn'[q] = IF q = r THEN end ELSE turn[q]
        /\ turn'[q] \in {"generating", "told", "over"} => turn[q] \in {"generating", "told", "over"}
        /\ turn'[q] = "unused" <=> turn[q] = "unused"
  OBVIOUS
<1>10. \A q \in ToSet(kept') \cup disk' \cup deleted' : turn'[q] \in {"over", "refused"}
  <2>1. ASSUME NEW q \in ToSet(kept') \cup disk' \cup deleted' PROVE turn'[q] \in {"over", "refused"}
    <3>1. q \in Responses /\ (q = r \/ q \in ToSet(kept) \cup disk \cup deleted)
      BY <1>3, <1>8
    <3>2. q # r => turn[q] \in {"over", "refused"}
      BY <3>1 DEF TurnsInOrder
    <3>. QED
      BY <1>9, <3>1, <3>2
  <2>. QED
    BY <2>1
<1>11. TurnsInOrder' /\ HistoryKnown'
  BY <1>7, <1>8, <1>9, <1>10, TurnsAndHistories
<1>. QED
  BY <1>4, <1>5, <1>7, <1>11

\* What the clients do without putting a response.
LEMMA StoreClientStep ==
  ASSUME StoreInv, NEW r \in Responses,
         AnnounceCompleted(r) \/ AbandonResponse(r) \/ GetResponse(r)
  PROVE  StoreInv'
<1>. USE DEF StoreInv, StoreTypeOK
<1>0. ToSet(kept) \subseteq Responses
  BY DEF ToSet
<1>1. /\ UNCHANGED <<disk, previous, history, deleted, faults, serving>>
      /\ serving /\ (kept' = kept \/ (r \in ToSet(kept) /\ kept' = Touch(kept, r)))
  BY DEF AnnounceCompleted, AbandonResponse, GetResponse
<1>2. \/ turn' = turn
      \/ turn[r] = "generating" /\ turn' = [turn EXCEPT ![r] = "told"]
      \/ /\ turn[r] \in {"generating", "told"}
         /\ turn' = [turn EXCEPT ![r] = IF @ = "told" THEN "over" ELSE "refused"]
  BY DEF AnnounceCompleted, AbandonResponse, GetResponse
<1>3. kept' \in Seq(Responses) /\ IsInjective(kept') /\ ToSet(kept') = ToSet(kept)
  <2>1. CASE kept' = kept
    BY <2>1
  <2>2. CASE r \in ToSet(kept) /\ kept' = Touch(kept, r)
    <3>1. kept \in Seq(Responses) /\ IsInjective(kept) /\ ToSet(kept) \cup {r} = ToSet(kept)
      BY <2>2
    <3>. QED
      BY <2>2, <3>1, TouchFacts
  <2>. QED
    BY <1>1, <2>1, <2>2
<1>4. FilesFollowMemory' /\ DeletedStaysDeleted'
  BY <1>1, <1>3, SameStored
<1>5. ~serving' => kept' = << >>
  BY <1>1
<1>6. /\ turn' \in [Responses -> {"unused", "generating", "told", "over", "refused"}]
      /\ \A q \in Responses :
           /\ turn'[q] \in {"generating", "told", "over"} => turn[q] \in {"generating", "told", "over"}
           /\ turn'[q] = "unused" <=> turn[q] = "unused"
           /\ turn[q] \in {"over", "refused"} => turn'[q] = turn[q]
  <2>1. CASE turn' = turn
    BY <2>1
  <2>2. CASE turn[r] = "generating" /\ turn' = [turn EXCEPT ![r] = "told"]
    BY <2>2
  <2>3. CASE /\ turn[r] \in {"generating", "told"}
             /\ turn' = [turn EXCEPT ![r] = IF @ = "told" THEN "over" ELSE "refused"]
    BY <2>3
  <2>. QED
    BY <1>2, <2>1, <2>2, <2>3
<1>7. /\ ToSet(kept') \subseteq Responses /\ disk' \subseteq Responses /\ deleted' \subseteq Responses
      /\ \A q \in ToSet(kept') \cup disk' :
           q \in ToSet(kept) \cup disk \/ turn[q] \in {"generating", "told"}
  BY <1>0, <1>1, <1>3
<1>8. \A q \in ToSet(kept') \cup disk' \cup deleted' : turn'[q] \in {"over", "refused"}
  BY <1>0, <1>1, <1>3, <1>6 DEF TurnsInOrder
<1>9. StoreTypeOK'
  BY <1>1, <1>3, <1>6
<1>10. TurnsInOrder' /\ HistoryKnown'
  <2>1. UNCHANGED <<previous, history>>
    BY <1>1
  <2>. QED
    BY <1>6, <1>7, <1>8, <2>1, TurnsAndHistories
<1>. QED
  BY <1>4, <1>5, <1>9, <1>10

LEMMA DeleteStep ==
  ASSUME StoreInv, NEW r \in Responses, DeleteResponse(r)
  PROVE  StoreInv'
<1>. USE DEF StoreInv, StoreTypeOK
<1>. DEFINE K == ToSet(kept)
            K2 == ToSet(kept')
            out == disk \ K
            new == K \ disk
            out2 == disk' \ K2
            new2 == K2 \ disk'
<1>0. K \subseteq Responses
  BY DEF ToSet
<1>1. /\ serving /\ r \in K /\ kept' = RemoveFirst(kept, r)
      /\ \/ disk' = disk \ {r} /\ deleted' = deleted \cup {r} /\ faults' = faults
         \/ faults' = faults + 1 /\ UNCHANGED <<disk, deleted>>
      /\ UNCHANGED <<previous, turn, history, serving>>
  BY DEF DeleteResponse
<1>2. kept' \in Seq(Responses) /\ IsInjective(kept') /\ K2 = K \ {r}
  BY <1>1, RemoveOne
<1>3. Len(kept') <= Len(kept)
  <2>1. /\ IsFiniteSet(K) /\ Cardinality(K) = Len(kept)
        /\ Cardinality(K2) = Len(kept')
    BY <1>2, LenOfSet
  <2>2. K2 \subseteq K
    BY <1>2
  <2>. QED
    BY <2>1, <2>2, FS_Subset
<1>4. faults' \in Nat /\ disk' \subseteq disk /\ deleted' \subseteq deleted \cup {r}
  BY <1>1
<1>5. FilesFollowMemory'
  <2>1. /\ Cardinality(out) + Cardinality(new) <= faults /\ Len(kept) <= StoreSize + faults
    BY <1>1 DEF FilesFollowMemory
  <2>2. Len(kept) \in Nat /\ Len(kept') \in Nat /\ StoreSize \in Nat /\ faults <= faults'
    BY <1>1, <1>2, StoreAssumption
  <2>. HIDE DEF K, K2
  <2>3. /\ out2 \in SUBSET Responses /\ new2 \in SUBSET Responses
        /\ out \in SUBSET Responses /\ new \in SUBSET Responses
        /\ disk' = disk \ {r} => out2 \subseteq out /\ new2 \subseteq new
        /\ disk' = disk => out2 \subseteq out \cup {r} /\ new2 \subseteq new
    BY <1>0, <1>2, <1>4
  <2>4. Cardinality(out2) + Cardinality(new2) <= faults'
    <3>. HIDE DEF out, new, out2, new2
    <3>1. /\ {Cardinality(out), Cardinality(new), Cardinality(out2), Cardinality(new2)} \subseteq Nat
          /\ disk' = disk \ {r} => Cardinality(out2) + Cardinality(new2) <= Cardinality(out) + Cardinality(new)
          /\ disk' = disk => Cardinality(out2) + Cardinality(new2) <= Cardinality(out) + Cardinality(new) + 1
      BY <2>3, Differences
    <3>. QED
      BY <1>1, <2>1, <3>1
  <2>5. Len(kept') <= StoreSize + faults'
    BY <1>3, <1>4, <2>1, <2>2
  <2>. QED
    BY <2>4, <2>5 DEF FilesFollowMemory, out2, new2, K2
<1>6. DeletedStaysDeleted'
  BY <1>1, <1>2 DEF DeletedStaysDeleted
<1>7. StoreTypeOK'
  BY <1>1, <1>2, <1>4
<1>8. TurnsInOrder' /\ HistoryKnown'
  <2>1. K2 \cup disk' \cup deleted' \subseteq K \cup disk \cup deleted /\ K2 \cup disk' \subseteq K \cup disk
    BY <1>1, <1>2
  <2>2. /\ UNCHANGED <<previous, history>>
        /\ turn' \in [Responses -> {"unused", "generating", "told", "over", "refused"}]
        /\ \A q \in Responses :
             /\ turn'[q] \in {"generating", "told", "over"} => turn[q] \in {"generating", "told", "over"}
             /\ turn'[q] = "unused" <=> turn[q] = "unused"
        /\ K2 \subseteq Responses /\ disk' \subseteq Responses /\ deleted' \subseteq Responses
        /\ \A q \in K2 \cup disk' : q \in K \cup disk \/ turn[q] \in {"generating", "told"}
    BY <1>0, <1>1, <2>1
  <2>3. \A q \in K2 \cup disk' \cup deleted' : turn'[q] \in {"over", "refused"}
    BY <1>1, <2>1 DEF TurnsInOrder
  <2>. QED
    BY <2>2, <2>3, TurnsAndHistories
<1>. QED
  BY <1>1, <1>5, <1>6, <1>7, <1>8

LEMMA CrashStep ==
  ASSUME StoreInv, CrashStore
  PROVE  StoreInv'
<1>. USE DEF StoreInv, StoreTypeOK
<1>1. /\ kept' = << >> /\ serving' = FALSE /\ UNCHANGED <<previous, history, deleted, faults>>
      /\ \/ disk' = disk
         \/ \E r \in Responses : turn[r] \in {"generating", "told"} /\ disk' = disk \cup {r}
      /\ turn' = [r \in Responses |-> CASE turn[r] = "generating" -> "refused"
                                        [] turn[r] = "told" -> "over" [] OTHER -> turn[r]]
  BY DEF CrashStore
<1>2. kept' \in Seq(Responses) /\ IsInjective(kept') /\ ToSet(kept') = {}
  BY <1>1 DEF IsInjective, ToSet
<1>3. \A q \in Responses :
        /\ turn'[q] \in {"unused", "over", "refused"}
        /\ turn'[q] = "over" => turn[q] \in {"told", "over"}
        /\ turn'[q] = "unused" <=> turn[q] = "unused"
  BY <1>1
<1>4. turn' \in [Responses -> {"unused", "generating", "told", "over", "refused"}]
  BY <1>1, <1>3
<1>5. /\ disk' \subseteq Responses
      /\ \A q \in disk' : q \in disk \/ turn[q] \in {"generating", "told"}
  BY <1>1
<1>6. \A q \in disk \cup deleted : turn[q] \in {"over", "refused"}
  BY DEF TurnsInOrder
<1>7. \A q \in disk' \cup deleted' : turn'[q] \in {"over", "refused"}
  BY <1>1, <1>3, <1>5, <1>6
<1>8. DeletedStaysDeleted'
  BY <1>1, <1>2, <1>5, <1>6 DEF DeletedStaysDeleted
<1>9. FilesFollowMemory'
  BY <1>1 DEF FilesFollowMemory
<1>10. TurnsInOrder' /\ HistoryKnown'
  BY <1>1, <1>2, <1>3, <1>4, <1>5, <1>7, TurnsAndHistories
<1>. QED
  BY <1>1, <1>2, <1>4, <1>5, <1>8, <1>9, <1>10

LEMMA RestartStep ==
  ASSUME StoreInv, RestartStore
  PROVE  StoreInv'
<1>. USE DEF StoreInv, StoreTypeOK
<1>1. /\ ~serving /\ serving' = TRUE /\ UNCHANGED <<previous, turn, history, deleted, faults>>
  BY DEF RestartStore
<1>2. PICK seq \in [1 .. Cardinality(disk) -> disk] :
        IsInjective(seq) /\ kept' = Remaining(seq) /\ disk' = disk \ Evicted(seq)
  BY DEF RestartStore
<1>3. IsFiniteSet(disk) /\ Cardinality(disk) \in Nat
  <2>1. IsFiniteSet(Responses)
    BY StoreAssumption, FS_Interval DEF Responses
  <2>2. IsFiniteSet(disk)
    BY <2>1, FS_Subset
  <2>. QED
    BY <2>2, FS_CardinalityType
<1>4. seq \in Seq(disk) /\ seq \in Seq(Responses) /\ Len(seq) = Cardinality(disk)
  <2>. DEFINE n == Cardinality(disk)
  <2>1. n \in Nat /\ seq \in [1 .. n -> disk] /\ seq \in [1 .. n -> Responses]
    BY <1>3
  <2>. HIDE DEF n
  <2>2. seq \in Seq(disk) /\ seq \in Seq(Responses)
    BY <2>1, IsSequence
  <2>3. Len(seq) = n
    BY <2>1, <2>2
  <2>. QED
    BY <2>2, <2>3 DEF n
<1>5. ToSet(seq) = disk
  <2>1. ToSet(seq) \subseteq disk
    BY <1>4 DEF ToSet
  <2>2. Cardinality(ToSet(seq)) = Len(seq)
    BY <1>2, <1>4, LenOfSet
  <2>. QED
    BY <1>3, <1>4, <2>1, <2>2, FS_Subset
<1>6. /\ kept' \in Seq(Responses) /\ IsInjective(kept') /\ Len(kept') <= StoreSize
      /\ ToSet(kept') = disk'
  <2>1. /\ Remaining(seq) \in Seq(Responses) /\ IsInjective(Remaining(seq))
        /\ Len(Remaining(seq)) <= StoreSize /\ ToSet(Remaining(seq)) = ToSet(seq) \ Evicted(seq)
    BY <1>2, <1>4, RemainingFacts
  <2>. QED
    BY <1>2, <1>5, <2>1
<1>7. disk' \subseteq disk
  BY <1>2
<1>8. FilesFollowMemory'
  <2>1. disk' \ ToSet(kept') = {} /\ ToSet(kept') \ disk' = {}
    BY <1>6
  <2>2. Len(kept') \in Nat /\ StoreSize \in Nat
    BY <1>6, StoreAssumption
  <2>3. Cardinality(disk' \ ToSet(kept')) = 0 /\ Cardinality(ToSet(kept') \ disk') = 0
    BY <2>1, FS_EmptySet
  <2>4. faults' \in Nat /\ Len(kept') <= StoreSize
    BY <1>1, <1>6
  <2>. QED
    BY <2>2, <2>3, <2>4 DEF FilesFollowMemory
<1>9. DeletedStaysDeleted'
  BY <1>1, <1>6, <1>7 DEF DeletedStaysDeleted
<1>10. StoreTypeOK'
  BY <1>1, <1>6, <1>7
<1>11. TurnsInOrder' /\ HistoryKnown'
  <2>1. \A q \in ToSet(kept') \cup disk' \cup deleted' : turn'[q] \in {"over", "refused"}
    BY <1>1, <1>6, <1>7 DEF TurnsInOrder
  <2>2. /\ ToSet(kept') \subseteq Responses /\ disk' \subseteq Responses /\ deleted' \subseteq Responses
        /\ \A q \in ToSet(kept') \cup disk' :
             q \in ToSet(kept) \cup disk \/ turn[q] \in {"generating", "told"}
    BY <1>1, <1>6, <1>7
  <2>3. /\ UNCHANGED <<previous, history>>
        /\ turn' \in [Responses -> {"unused", "generating", "told", "over", "refused"}]
        /\ \A q \in Responses :
             /\ turn'[q] \in {"generating", "told", "over"} => turn[q] \in {"generating", "told", "over"}
             /\ turn'[q] = "unused" <=> turn[q] = "unused"
    BY <1>1
  <2>. QED
    BY <2>1, <2>2, <2>3, TurnsAndHistories
<1>. QED
  BY <1>1, <1>8, <1>9, <1>10, <1>11

LEMMA StoreInvStep == StoreInv /\ [StoreNext]_storeVars => StoreInv'
<1>. SUFFICES ASSUME StoreInv, [StoreNext]_storeVars PROVE StoreInv'
  OBVIOUS
<1>1. ASSUME NEW r \in Responses, NEW p \in 0 .. MaxResponses, CreateResponse(r, p) PROVE StoreInv'
  BY <1>1, CreateStep
<1>2. ASSUME NEW r \in Responses, AnnounceCompleted(r) \/ AbandonResponse(r) \/ GetResponse(r)
      PROVE  StoreInv'
  BY <1>2, StoreClientStep
<1>3. ASSUME NEW r \in Responses, StoreAnnounced(r) \/ AnswerStored(r) PROVE StoreInv'
  <2>1. /\ serving /\ turn[r] \in {"generating", "told"} /\ Put(r)
        /\ UNCHANGED <<previous, history, deleted, serving>>
    BY <1>3 DEF StoreAnnounced, AnswerStored
  <2>2. \E end \in {"over", "refused"} : turn' = [turn EXCEPT ![r] = end]
    BY <1>3 DEF StoreAnnounced, AnswerStored
  <2>. QED
    BY <2>1, <2>2, ResponsePut
<1>4. ASSUME NEW r \in Responses, DeleteResponse(r) PROVE StoreInv'
  BY <1>4, DeleteStep
<1>5. CASE SecondPasses
  <2>1. UNCHANGED <<kept, disk, previous, turn, history, deleted, faults, serving>>
    BY <1>5 DEF SecondPasses
  <2>. QED
    BY <2>1 DEF StoreInv, StoreTypeOK, TurnsInOrder, HistoryKnown, FollowsWhole, FilesFollowMemory,
                DeletedStaysDeleted
<1>6. CASE CrashStore \/ RestartStore
  BY <1>6, CrashStep, RestartStep
<1>7. CASE UNCHANGED storeVars
  BY <1>7 DEF storeVars, StoreInv, StoreTypeOK, TurnsInOrder, HistoryKnown, FollowsWhole,
              FilesFollowMemory, DeletedStaysDeleted
<1>. QED
  BY <1>1, <1>2, <1>3, <1>4, <1>5, <1>6, <1>7 DEF StoreNext

LEMMA StoreIsConsistent == StoreSpec => []StoreConsistent
<1>1. StoreInit => StoreInv
  BY StoreInvInit
<1>2. StoreInv /\ [StoreNext]_storeVars => StoreInv'
  BY StoreInvStep
<1>3. StoreInv => StoreConsistent
  BY DEF StoreInv, HistoryKnown, FollowsWhole, HistoryWhole, StoreConsistent
<1>. QED
  BY <1>1, <1>2, <1>3, PTL DEF StoreSpec

\* FilesSurvive for any number of responses, requests, crashes and failing files: a
\* response that is continued has its whole history, memory and directory differ by
\* as many responses as file operations failed, a deleted response stays deleted,
\* and stats.json is complete, lacks just what was counted since it was saved, and
\* has totals that are the sums of its models.
THEOREM StateFilesSurvive == FilesSpec => []FilesSurvive
  BY StoreIsConsistent, MetricsAreKept, PTL DEF FilesSpec, FilesSurvive

-----------------------------------------------------------------------------
(***************************************************************************)
(* DownloadsConsistent for any number of tasks and repositories.           *)
(*                                                                         *)
(* What makes it inductive is what a cancellation leaves: a task that was  *)
(* cancelled or stalled has an attempt that is unwinding or done (Ended),  *)
(* so that no code of the attempt runs before CancelledError reaches it.   *)
(***************************************************************************)
Attempts == {"none", "created", "queued", "sizing", "fetching", "refreshing", "done"}
Statuses == {"none", "pending", "downloading", "completed", "failed", "cancelled"}

DownloadTypeOK ==
    /\ listed \subseteq Tasks
    /\ repo \in [Tasks -> Repos \cup {None}]
    /\ status \in [Tasks -> Statuses]
    /\ attempt \in [Tasks -> Attempts]
    /\ thread \in [Tasks -> {"none", "empty", "running", "ok", "failed"}]
    /\ waiters \in Seq(Tasks) /\ IsInjective(waiters)

\* Who was cancelled, stalled or shut down ends; who ends so is not shown as active.
Ended ==
    /\ \A t \in Tasks :
         t \in cancelled \/ status[t] \in {"cancelled", "failed"} => t \in unwinding \/ attempt[t] = "done"
    /\ ~closed => \A t \in unwinding \cap Tasks : status[t] \in {"cancelled", "failed"}

\* Where an attempt is, its task and its thread.
Stages ==
    \A t \in Tasks :
        /\ repo[t] = None <=> attempt[t] = "none"
        /\ attempt[t] = "none" => t \notin unwinding
        /\ attempt[t] \in {"none", "created", "queued", "sizing"} => thread[t] = "none"
        /\ attempt[t] \in {"created", "queued"} => status[t] \in {"pending", "cancelled", "failed"}
        /\ attempt[t] = "refreshing" =>
             thread[t] = "ok" /\ status[t] \in {"completed", "cancelled", "failed"}

\* Who can reach an attempt: a live one is cancellable or already unwinding,
\* and only a task that has ended leaves the list.
Known ==
    /\ \A t \in Tasks :
         /\ attempt[t] \notin {"none", "done"} => t \in active \cup unwinding
         /\ attempt[t] = "none" => status[t] = "none" /\ t \notin active
    /\ ~closed => \A t \in Tasks : status[t] \in ActiveStatus => t \in listed

DownloadInv == DownloadTypeOK /\ Ended /\ Stages /\ Known /\ DownloadsConsistent

-----------------------------------------------------------------------------
(* Attempts                                                                *)

\* An attempt past its first step ends, with a status that is not active.
LEMMA LeaveStep ==
  ASSUME DownloadInv, NEW t \in Tasks, Leave(t),
         attempt[t] \in {"queued", "sizing", "fetching", "refreshing"},
         NEW s \in {"completed", "failed", "cancelled"}, status' = [status EXCEPT ![t] = s],
         Fetching(t) => s \in {"failed", "cancelled"},
         UNCHANGED <<listed, repo, cancelled, thread, closed>>
  PROVE  DownloadInv'
<1>1. /\ attempt' = [attempt EXCEPT ![t] = "done"] /\ waiters' = RemoveFirst(waiters, t)
      /\ holder' = (IF holder = t THEN None ELSE holder)
      /\ active' = active \ {t} /\ unwinding' = unwinding \ {t}
  BY DEF Leave
<1>2. /\ waiters' \in Seq(Tasks) /\ IsInjective(waiters')
      /\ ToSet(waiters') = ToSet(waiters) \ {t}
  BY <1>1, RemoveOne DEF DownloadInv, DownloadTypeOK
<1>3. DownloadTypeOK'
  BY <1>1, <1>2 DEF DownloadInv, DownloadTypeOK, Attempts, Statuses
<1>4. /\ attempt'[t] = "done" /\ status'[t] = s
      /\ \A u \in Tasks \ {t} : attempt'[u] = attempt[u] /\ status'[u] = status[u]
  BY <1>1 DEF DownloadInv, DownloadTypeOK
<1>5. Ended'
  BY <1>1, <1>4 DEF DownloadInv, Ended
<1>6. Stages'
  BY <1>1, <1>4 DEF DownloadInv, Stages
<1>7. ActiveIsServed'
  BY <1>1, <1>4 DEF DownloadInv, DownloadsConsistent, ActiveIsServed, ActiveStatus, DownloadTypeOK
<1>8. SemaphoreExact'
  BY <1>1, <1>2, <1>4, DownloadAssumption
     DEF DownloadInv, DownloadsConsistent, SemaphoreExact, DownloadTypeOK
<1>9. ThreadsExplained'
  BY <1>1, <1>4 DEF DownloadInv, DownloadsConsistent, ThreadsExplained, SemaphoreExact, Fetching
<1>k. Known'
  BY <1>1, <1>4 DEF DownloadInv, Known, ActiveStatus, DownloadTypeOK
<1>. QED
  BY <1>k, <1>3, <1>5, <1>6, <1>7, <1>8, <1>9 DEF DownloadInv, DownloadsConsistent

\* An attempt gets the semaphore.
LEMMA EnteredStep ==
  ASSUME DownloadInv, NEW t \in Tasks, Entered(t), holder = None, t \notin unwinding,
         attempt[t] \in {"created", "queued"},
         waiters' \in Seq(Tasks), IsInjective(waiters'), ToSet(waiters') = ToSet(waiters) \ {t},
         UNCHANGED <<listed, repo, cancelled, thread, closed>>
  PROVE  DownloadInv'
<1>1. /\ status' = [status EXCEPT ![t] = "downloading"]
      /\ attempt' = [attempt EXCEPT ![t] = "sizing"]
      /\ holder' = t /\ active' = active /\ unwinding' = unwinding
  BY DEF Entered
<1>2. DownloadTypeOK'
  BY <1>1 DEF DownloadInv, DownloadTypeOK, Attempts, Statuses
<1>3. /\ attempt'[t] = "sizing" /\ status'[t] = "downloading"
      /\ \A u \in Tasks \ {t} : attempt'[u] = attempt[u] /\ status'[u] = status[u]
  BY <1>1 DEF DownloadInv, DownloadTypeOK
<1>4. t \notin cancelled /\ status[t] = "pending" /\ thread[t] = "none"
  BY DEF DownloadInv, Ended, Stages
<1>5. Ended'
  BY <1>1, <1>3, <1>4 DEF DownloadInv, Ended
<1>6. Stages'
  BY <1>1, <1>3, <1>4 DEF DownloadInv, Stages
<1>7. ActiveIsServed'
  BY <1>1, <1>3, <1>4
     DEF DownloadInv, DownloadsConsistent, ActiveIsServed, ActiveStatus, DownloadTypeOK
<1>8. SemaphoreExact'
  BY <1>1, <1>3, DownloadAssumption
     DEF DownloadInv, DownloadsConsistent, SemaphoreExact, DownloadTypeOK
<1>9. ThreadsExplained'
  BY <1>1, <1>3, <1>4, DownloadAssumption
     DEF DownloadInv, DownloadsConsistent, ThreadsExplained, Fetching
<1>k. Known'
  BY <1>1, <1>3, <1>4 DEF DownloadInv, Known, ActiveStatus, DownloadTypeOK
<1>. QED
  BY <1>k, <1>2, <1>5, <1>6, <1>7, <1>8, <1>9 DEF DownloadInv, DownloadsConsistent

LEMMA CoroutineKeeps ==
  ASSUME DownloadInv, NEW t \in Tasks, CoroutineStep(t)
  PROVE  DownloadInv'
<1>0. t \notin unwinding /\ attempt[t] # "done" => t \notin cancelled /\ status[t] \notin {"cancelled", "failed"}
  BY DEF DownloadInv, Ended
<1>1. CASE BeginAttempt(t)
  <2>1. t \notin ToSet(waiters)
    BY <1>1 DEF BeginAttempt, DownloadInv, DownloadsConsistent, SemaphoreExact
  <2>2. CASE holder = None /\ waiters = << >>
    <3>1. Entered(t) /\ waiters' = waiters /\ ToSet(waiters) = ToSet(waiters) \ {t}
      BY <1>1, <2>1, <2>2 DEF BeginAttempt
    <3>. QED
      BY <1>1, <2>2, <3>1, EnteredStep DEF BeginAttempt, DownloadInv, DownloadTypeOK
  <2>3. CASE ~(holder = None /\ waiters = << >>)
    <3>1. /\ attempt[t] = "created" /\ attempt' = [attempt EXCEPT ![t] = "queued"]
          /\ waiters' = Append(waiters, t)
          /\ UNCHANGED <<status, holder, polling, active, unwinding, listed, repo, cancelled, thread, closed>>
      BY <1>1, <2>3 DEF BeginAttempt
    <3>2. /\ waiters' \in Seq(Tasks) /\ IsInjective(waiters')
          /\ ToSet(waiters') = ToSet(waiters) \cup {t}
      BY <2>1, <3>1, AppendNew DEF DownloadInv, DownloadTypeOK
    <3>3. attempt'[t] = "queued" /\ \A u \in Tasks \ {t} : attempt'[u] = attempt[u]
      BY <3>1 DEF DownloadInv, DownloadTypeOK
    <3>4. DownloadTypeOK'
      BY <3>1, <3>2 DEF DownloadInv, DownloadTypeOK, Attempts
    <3>5. Ended' /\ Stages' /\ Known'
      BY <3>1, <3>3 DEF DownloadInv, Ended, Stages, Known
    <3>6. ActiveIsServed' /\ ThreadsExplained'
      BY <3>1, <3>3 DEF DownloadInv, DownloadsConsistent, ActiveIsServed, ThreadsExplained,
                        Fetching, DownloadTypeOK
    <3>7. SemaphoreExact'
      BY <3>1, <3>2, <3>3 DEF DownloadInv, DownloadsConsistent, SemaphoreExact
    <3>. QED
      BY <3>4, <3>5, <3>6, <3>7 DEF DownloadInv, DownloadsConsistent
  <2>. QED
    BY <2>2, <2>3
<1>2. CASE AcquireSemaphore(t)
  <2>1. t \in ToSet(waiters) /\ t \notin cancelled
    BY <1>0, <1>2 DEF AcquireSemaphore, DownloadInv, DownloadsConsistent, SemaphoreExact
  <2>2. waiters # << >>
    BY <2>1 DEF ToSet
  <2>3. Entered(t) /\ waiters' = Tail(waiters) /\ Head(waiters) = t
    BY <1>2, <2>1 DEF AcquireSemaphore
  <2>4. /\ waiters' \in Seq(Tasks) /\ IsInjective(waiters')
        /\ ToSet(waiters') = ToSet(waiters) \ {t}
    BY <2>2, <2>3, TailRest DEF DownloadInv, DownloadTypeOK
  <2>. QED
    BY <1>2, <2>3, <2>4, EnteredStep DEF AcquireSemaphore
<1>3. CASE StartThread(t)
  <2>. USE <1>3 DEF StartThread
  <2>1. /\ attempt'[t] = "fetching" /\ thread'[t] = "empty"
        /\ \A u \in Tasks \ {t} : attempt'[u] = attempt[u] /\ thread'[u] = thread[u]
    BY DEF DownloadInv, DownloadTypeOK
  <2>2. DownloadTypeOK'
    BY DEF DownloadInv, DownloadTypeOK, Attempts
  <2>3. Ended' /\ Stages' /\ Known'
    BY <2>1 DEF DownloadInv, Ended, Stages, Known
  <2>4. ActiveIsServed'
    BY <2>1 DEF DownloadInv, DownloadsConsistent, ActiveIsServed, DownloadTypeOK
  <2>5. SemaphoreExact' /\ ThreadsExplained'
    BY <2>1 DEF DownloadInv, DownloadsConsistent, SemaphoreExact, ThreadsExplained, Fetching
  <2>. QED
    BY <2>2, <2>3, <2>4, <2>5 DEF DownloadInv, DownloadsConsistent
<1>4. CASE FetchCompleted(t)
  <2>. USE <1>4 DEF FetchCompleted
  <2>0. /\ status' = [status EXCEPT ![t] = "completed"] /\ attempt' = [attempt EXCEPT ![t] = "refreshing"]
        /\ thread[t] = "ok" /\ attempt[t] = "fetching"
        /\ UNCHANGED <<holder, waiters, polling, active, unwinding, listed, repo, cancelled, thread, closed>>
    BY <1>0
  <2>1. /\ attempt'[t] = "refreshing" /\ status'[t] = "completed"
        /\ \A u \in Tasks \ {t} : attempt'[u] = attempt[u] /\ status'[u] = status[u]
    BY <2>0 DEF DownloadInv, DownloadTypeOK
  <2>2. DownloadTypeOK'
    BY <2>0 DEF DownloadInv, DownloadTypeOK, Attempts, Statuses
  <2>3. Ended' /\ Stages' /\ Known'
    BY <1>0, <2>0, <2>1 DEF DownloadInv, Ended, Stages, Known, ActiveStatus
  <2>4. ActiveIsServed'
    BY <2>0, <2>1 DEF DownloadInv, DownloadsConsistent, ActiveIsServed, ActiveStatus, DownloadTypeOK
  <2>5. SemaphoreExact' /\ ThreadsExplained'
    BY <2>0, <2>1 DEF DownloadInv, DownloadsConsistent, SemaphoreExact, ThreadsExplained, Fetching,
                      DownloadTypeOK
  <2>. QED
    BY <2>2, <2>3, <2>4, <2>5 DEF DownloadInv, DownloadsConsistent
<1>5. CASE PoolRefreshed(t)
  <2>1. /\ status' = [status EXCEPT ![t] = status[t]]
        /\ status[t] \in {"completed", "failed", "cancelled"} /\ ~Fetching(t)
    BY <1>5 DEF PoolRefreshed, DownloadInv, DownloadTypeOK, Stages, Fetching
  <2>. QED
    BY <1>5, <2>1, LeaveStep DEF PoolRefreshed
<1>6. CASE FetchRaised(t)
  <2>1. status' = [status EXCEPT ![t] = "failed"]
    BY <1>0, <1>6 DEF FetchRaised
  <2>. QED
    BY <1>6, <2>1, LeaveStep DEF FetchRaised
<1>7. CASE Unwind(t)
  <2>1. CASE attempt[t] = "created"
    <3>1. /\ attempt' = [attempt EXCEPT ![t] = "done"] /\ unwinding' = unwinding \ {t}
          /\ UNCHANGED <<status, polling, active, holder, waiters, listed, repo, cancelled, thread, closed>>
      BY <1>7, <2>1 DEF Unwind
    <3>2. attempt'[t] = "done" /\ \A u \in Tasks \ {t} : attempt'[u] = attempt[u]
      BY <3>1 DEF DownloadInv, DownloadTypeOK
    <3>3. closed \/ status[t] \in {"cancelled", "failed"}
      BY <1>7 DEF Unwind, DownloadInv, Ended
    <3>4. DownloadTypeOK'
      BY <3>1 DEF DownloadInv, DownloadTypeOK, Attempts
    <3>5. Ended' /\ Stages' /\ Known'
      BY <2>1, <3>1, <3>2 DEF DownloadInv, Ended, Stages, Known
    <3>6. ActiveIsServed' /\ ThreadsExplained'
      BY <2>1, <3>1, <3>2, <3>3
         DEF DownloadInv, DownloadsConsistent, ActiveIsServed, ActiveStatus, ThreadsExplained,
             Stages, Fetching, DownloadTypeOK
    <3>7. SemaphoreExact'
      BY <2>1, <3>1, <3>2 DEF DownloadInv, DownloadsConsistent, SemaphoreExact
    <3>. QED
      BY <3>4, <3>5, <3>6, <3>7 DEF DownloadInv, DownloadsConsistent
  <2>2. CASE attempt[t] # "created"
    <3>1. /\ Leave(t) /\ attempt[t] # "done" /\ t \in unwinding
          /\ UNCHANGED <<listed, repo, cancelled, thread, closed>>
          /\ \E s \in {"failed", "cancelled"} : status' = [status EXCEPT ![t] = s]
      BY <1>7, <2>2 DEF Unwind
    <3>2. attempt[t] # "none"
      BY <3>1 DEF DownloadInv, Stages
    <3>. QED
      BY <2>2, <3>1, <3>2, LeaveStep DEF DownloadInv, DownloadTypeOK, Attempts
  <2>. QED
    BY <2>1, <2>2
<1>. QED
  BY <1>1, <1>2, <1>3, <1>4, <1>5, <1>6, <1>7 DEF CoroutineStep

-----------------------------------------------------------------------------
(* Handlers                                                                *)

\* A task that was never used gets an attempt; others may leave the list.
LEMMA CreatedStep ==
  ASSUME DownloadInv, NEW t \in Tasks, NEW r \in Repos, repo[t] = None, ~closed,
         listed' \subseteq listed \cup {t}, t \in listed', cancelled' \subseteq cancelled,
         \A u \in listed \ listed' : status[u] \notin ActiveStatus,
         repo' = [repo EXCEPT ![t] = r], status' = [status EXCEPT ![t] = "pending"],
         attempt' = [attempt EXCEPT ![t] = "created"], active' = active \cup {t},
         UNCHANGED <<unwinding, polling, holder, waiters, thread, closed>>
  PROVE  DownloadInv'
<1>1. /\ attempt'[t] = "created" /\ status'[t] = "pending" /\ repo'[t] = r /\ r # None
      /\ \A u \in Tasks \ {t} :
           attempt'[u] = attempt[u] /\ status'[u] = status[u] /\ repo'[u] = repo[u]
  BY DownloadAssumption DEF DownloadInv, DownloadTypeOK
<1>2. attempt[t] = "none" /\ t \notin unwinding /\ t \notin cancelled /\ thread[t] = "none"
  BY DEF DownloadInv, Stages, Ended
<1>3. DownloadTypeOK'
  BY DEF DownloadInv, DownloadTypeOK, Attempts, Statuses
<1>4. Ended'
  BY <1>1, <1>2 DEF DownloadInv, Ended
<1>5. Stages'
  BY <1>1, <1>2 DEF DownloadInv, Stages
<1>6. ActiveIsServed'
  BY <1>1 DEF DownloadInv, DownloadsConsistent, ActiveIsServed, DownloadTypeOK
<1>7. SemaphoreExact' /\ ThreadsExplained'
  BY <1>1, <1>2 DEF DownloadInv, DownloadsConsistent, SemaphoreExact, ThreadsExplained, Fetching,
                    DownloadTypeOK
<1>k. Known'
  BY <1>1, <1>2 DEF DownloadInv, Known, ActiveStatus, DownloadTypeOK
<1>. QED
  BY <1>k, <1>3, <1>4, <1>5, <1>6, <1>7 DEF DownloadInv, DownloadsConsistent

\* Tasks leave the list, and what is known of their cancellation with them.
LEMMA UnlistedStep ==
  ASSUME DownloadInv, listed' \subseteq listed, cancelled' \subseteq cancelled,
         \A u \in listed \ listed' : status[u] \notin ActiveStatus,
         UNCHANGED <<repo, status, attempt, unwinding, active, holder, waiters, thread, closed>>
  PROVE  DownloadInv'
<1>1. DownloadTypeOK' /\ Ended' /\ Stages'
  BY DEF DownloadInv, DownloadTypeOK, Ended, Stages
<1>2. ActiveIsServed' /\ SemaphoreExact' /\ ThreadsExplained'
  BY DEF DownloadInv, DownloadsConsistent, ActiveIsServed, SemaphoreExact, ThreadsExplained, Fetching
<1>k. Known'
  BY <1>1 DEF DownloadInv, Known, ActiveStatus, DownloadTypeOK
<1>. QED
  BY <1>k, <1>1, <1>2 DEF DownloadInv, DownloadsConsistent

\* An active task is given up: its coroutine learns of it later.
LEMMA GivenUpStep ==
  ASSUME DownloadInv, ~closed, NEW t \in listed, status[t] \in ActiveStatus,
         NEW s \in {"cancelled", "failed"}, status' = [status EXCEPT ![t] = s],
         unwinding' = (IF t \in active /\ attempt[t] # "done" THEN unwinding \cup {t} ELSE unwinding),
         cancelled' \subseteq cancelled \cup {t}, active \ {t} \subseteq active', active' \subseteq active,
         UNCHANGED <<listed, repo, attempt, holder, waiters, thread, closed>>
  PROVE  DownloadInv'
<1>1. /\ t \in Tasks /\ t \in active /\ attempt[t] \in {"created", "queued", "sizing", "fetching"}
      /\ unwinding' = unwinding \cup {t}
  BY DEF DownloadInv, DownloadsConsistent, ActiveIsServed, DownloadTypeOK
<1>2. status'[t] = s /\ \A u \in Tasks \ {t} : status'[u] = status[u]
  BY <1>1 DEF DownloadInv, DownloadTypeOK
<1>3. DownloadTypeOK'
  BY <1>1 DEF DownloadInv, DownloadTypeOK, Statuses
<1>4. Ended' /\ Stages'
  BY <1>1, <1>2 DEF DownloadInv, Ended, Stages
<1>5. ActiveIsServed'
  BY <1>1, <1>2 DEF DownloadInv, DownloadsConsistent, ActiveIsServed, ActiveStatus, DownloadTypeOK
<1>6. SemaphoreExact' /\ ThreadsExplained'
  BY <1>1, <1>2 DEF DownloadInv, DownloadsConsistent, SemaphoreExact, ThreadsExplained, Fetching,
                    DownloadTypeOK
<1>k. Known'
  BY <1>1, <1>2 DEF DownloadInv, Known, ActiveStatus, DownloadTypeOK
<1>. QED
  BY <1>k, <1>3, <1>4, <1>5, <1>6 DEF DownloadInv, DownloadsConsistent

LEMMA ShutdownStep == DownloadInv /\ ShutdownDownloads => DownloadInv'
<1>. SUFFICES ASSUME DownloadInv, ShutdownDownloads PROVE DownloadInv'
  OBVIOUS
<1>. USE DEF ShutdownDownloads
<1>1. \A u \in Tasks : status'[u] = status[u] \/
        (status[u] = "downloading" /\ status'[u] = "cancelled" /\ u \in active /\ attempt[u] # "done")
  OBVIOUS
<1>2. /\ unwinding \subseteq unwinding' /\ closed' = TRUE
      /\ \A u \in active : attempt[u] # "done" => u \in unwinding'
      /\ \A u \in unwinding' : u \in unwinding \/ u \in active
  OBVIOUS
<1>3. DownloadTypeOK'
  BY DEF DownloadInv, DownloadTypeOK, Statuses
<1>4. Ended'
  BY <1>1, <1>2 DEF DownloadInv, Ended
<1>5. Stages'
  BY <1>1, <1>2 DEF DownloadInv, Stages, Known
<1>6. ActiveIsServed'
  BY DEF ActiveIsServed
<1>7. SemaphoreExact' /\ ThreadsExplained'
  BY <1>1 DEF DownloadInv, DownloadsConsistent, SemaphoreExact, ThreadsExplained, Fetching
<1>k. Known'
  BY <1>1, <1>2 DEF DownloadInv, Known, ActiveStatus, DownloadTypeOK
<1>. QED
  BY <1>k, <1>3, <1>4, <1>5, <1>6, <1>7 DEF DownloadInv, DownloadsConsistent

LEMMA RetryStep ==
  ASSUME DownloadInv, NEW t \in Tasks, NEW new \in Tasks, RetryDownload(t, new)
  PROVE  DownloadInv'
<1>1. repo[t] \in Repos
  BY DEF RetryDownload, DownloadInv, DownloadTypeOK, Ended, Stages
<1>2. CASE Duplicate(repo[t])
  <2>1. /\ listed' \subseteq listed /\ cancelled' \subseteq cancelled
        /\ \A u \in listed \ listed' : status[u] \notin ActiveStatus
        /\ UNCHANGED <<repo, status, attempt, unwinding, active, holder, waiters, thread, closed>>
    BY <1>2 DEF RetryDownload, ActiveStatus
  <2>. QED
    BY <2>1, UnlistedStep
<1>3. CASE ~Duplicate(repo[t])
  <2>1. /\ ~closed /\ repo[new] = None /\ cancelled' \subseteq cancelled
        /\ listed' \subseteq listed \cup {new} /\ new \in listed'
        /\ \A u \in listed \ listed' : status[u] \notin ActiveStatus
        /\ repo' = [repo EXCEPT ![new] = repo[t]] /\ status' = [status EXCEPT ![new] = "pending"]
        /\ attempt' = [attempt EXCEPT ![new] = "created"] /\ active' = active \cup {new}
        /\ UNCHANGED <<unwinding, polling, holder, waiters, thread, closed>>
    BY <1>3 DEF RetryDownload, ActiveStatus
  <2>. QED
    BY <1>1, <2>1, CreatedStep
<1>. QED
  BY <1>2, <1>3

-----------------------------------------------------------------------------
(* Threads and polls                                                       *)

LEMMA ThreadStep ==
  ASSUME DownloadInv, NEW t \in Tasks, Fetching(t),
         NEW s \in {"running", "ok", "failed"}, thread' = [thread EXCEPT ![t] = s],
         UNCHANGED <<listed, repo, status, attempt, unwinding, cancelled, active, holder, waiters, closed>>
  PROVE  DownloadInv'
<1>1. /\ thread'[t] = s /\ \A u \in Tasks \ {t} : thread'[u] = thread[u]
  BY DEF DownloadInv, DownloadTypeOK
<1>2. DownloadTypeOK' /\ Ended'
  BY DEF DownloadInv, DownloadTypeOK, Ended
<1>3. Stages'
  BY <1>1 DEF DownloadInv, Stages, Fetching
<1>4. ActiveIsServed' /\ SemaphoreExact' /\ ThreadsExplained'
  BY <1>1 DEF DownloadInv, DownloadsConsistent, ActiveIsServed, SemaphoreExact, ThreadsExplained, Fetching
<1>k. Known'
  BY <1>1 DEF DownloadInv, Known, ActiveStatus, DownloadTypeOK
<1>. QED
  BY <1>k, <1>2, <1>3, <1>4 DEF DownloadInv, DownloadsConsistent

\* A task is declared stalled; after shutdown() it is unwinding already.
LEMMA PollStallStep ==
  ASSUME DownloadInv, NEW t \in Tasks, PollStall(t) PROVE DownloadInv'
<1>. USE DEF PollStall
<1>1. CASE ~closed
  <2>1. t \in listed /\ status[t] \in ActiveStatus
    BY <1>1 DEF DownloadInv, Known, ActiveStatus
  <2>2. /\ status' = [status EXCEPT ![t] = "failed"] /\ cancelled' \subseteq cancelled \cup {t}
        /\ active \ {t} \subseteq active' /\ active' \subseteq active
    OBVIOUS
  <2>. QED
    BY <1>1, <2>1, <2>2, GivenUpStep
<1>2. CASE closed
  <2>1. /\ status'[t] = "failed" /\ status[t] = "downloading"
        /\ \A u \in Tasks \ {t} : status'[u] = status[u]
    BY DEF DownloadInv, DownloadTypeOK
  <2>2. attempt[t] # "none" /\ (attempt[t] # "done" => t \in unwinding')
    BY DEF DownloadInv, Known
  <2>3. unwinding \subseteq unwinding' /\ unwinding' \subseteq unwinding \cup {t}
    OBVIOUS
  <2>4. DownloadTypeOK'
    BY DEF DownloadInv, DownloadTypeOK, Statuses
  <2>5. Ended' /\ Stages' /\ Known'
    BY <1>2, <2>1, <2>2, <2>3 DEF DownloadInv, Ended, Stages, Known
  <2>6. ActiveIsServed' /\ SemaphoreExact' /\ ThreadsExplained'
    BY <1>2, <2>1 DEF DownloadInv, DownloadsConsistent, ActiveIsServed, SemaphoreExact,
                      ThreadsExplained, Fetching, DownloadTypeOK
  <2>. QED
    BY <2>4, <2>5, <2>6 DEF DownloadInv, DownloadsConsistent
<1>. QED
  BY <1>1, <1>2

-----------------------------------------------------------------------------
LEMMA DownloadInvInit == DownloadInit => DownloadInv
<1>. SUFFICES ASSUME DownloadInit PROVE DownloadInv
  OBVIOUS
<1>1. << >> \in Seq(Tasks) /\ IsInjective(<< >>) /\ ToSet(<< >>) = {}
  BY DEF IsInjective, ToSet
<1>2. DownloadTypeOK /\ Ended /\ Stages /\ Known
  BY <1>1 DEF DownloadInit, DownloadTypeOK, Ended, Stages, Known, ActiveStatus, Attempts, Statuses
<1>3. DownloadsConsistent
  BY <1>1, DownloadAssumption
     DEF DownloadInit, DownloadsConsistent, ActiveIsServed, SemaphoreExact, ThreadsExplained, Fetching
<1>. QED
  BY <1>2, <1>3 DEF DownloadInv

LEMMA DownloadInvStep == DownloadInv /\ [DownloadNext]_downloadVars => DownloadInv'
<1>. SUFFICES ASSUME DownloadInv, [DownloadNext]_downloadVars PROVE DownloadInv'
  OBVIOUS
<1>1. ASSUME NEW t \in Tasks, NEW r \in Repos, StartDownload(t, r) PROVE DownloadInv'
  <2>1. /\ listed' \subseteq listed \cup {t} /\ t \in listed' /\ cancelled' \subseteq cancelled
        /\ \A u \in listed \ listed' : status[u] \notin ActiveStatus
    BY <1>1 DEF StartDownload
  <2>. QED
    BY <1>1, <2>1, CreatedStep DEF StartDownload
<1>2. ASSUME NEW t \in Tasks, CancelDownload(t) PROVE DownloadInv'
  <2>1. /\ status' = [status EXCEPT ![t] = "cancelled"] /\ cancelled' \subseteq cancelled \cup {t}
        /\ active \ {t} \subseteq active' /\ active' \subseteq active
    BY <1>2 DEF CancelDownload
  <2>. QED
    BY <1>2, <2>1, GivenUpStep DEF CancelDownload
<1>3. ASSUME NEW t \in Tasks, RemoveTask(t) PROVE DownloadInv'
  <2>1. /\ listed' \subseteq listed /\ cancelled' \subseteq cancelled
        /\ \A u \in listed \ listed' : status[u] \notin ActiveStatus
    BY <1>3 DEF RemoveTask
  <2>. QED
    BY <1>3, <2>1, UnlistedStep DEF RemoveTask
<1>4. ASSUME NEW t \in Tasks, FirstBytes(t) \/ ThreadEnds(t) PROVE DownloadInv'
  <2>1. /\ Fetching(t)
        /\ \E s \in {"running", "ok", "failed"} : thread' = [thread EXCEPT ![t] = s]
        /\ UNCHANGED <<listed, repo, status, attempt, unwinding, cancelled, active, holder, waiters, closed>>
    BY <1>4 DEF FirstBytes, ThreadEnds, Fetching
  <2>. QED
    BY <2>1, ThreadStep
<1>5. ASSUME UNCHANGED downloadVars \/ \E t \in Tasks : PollEnds(t) PROVE DownloadInv'
  <2>1. /\ listed' \subseteq listed /\ cancelled' \subseteq cancelled
        /\ \A u \in listed \ listed' : status[u] \notin ActiveStatus
        /\ UNCHANGED <<repo, status, attempt, unwinding, active, holder, waiters, thread, closed>>
    BY <1>5 DEF PollEnds, downloadVars
  <2>. QED
    BY <2>1, UnlistedStep
<1>. QED
  BY <1>1, <1>2, <1>3, <1>4, <1>5, RetryStep, CoroutineKeeps, PollStallStep, ShutdownStep
     DEF DownloadNext

\* With any tasks and repositories, however attempts are cancelled, stalled,
\* retried, removed or shut down: a task shown as active has a coroutine that
\* can be cancelled, the semaphore has the one holder and the waiters the
\* attempts say, and a fetch without the semaphore is of a cancelled or
\* stalled task (hf_downloader.py).
THEOREM DownloadsAreConsistent == DownloadSpec => []DownloadsConsistent
<1>1. DownloadInv => DownloadsConsistent
  BY DEF DownloadInv
<1>. QED
  BY <1>1, DownloadInvInit, DownloadInvStep, PTL DEF DownloadSpec

-----------------------------------------------------------------------------
(***************************************************************************)
(* ConnectionsConsistent, for any servers and numbers of connections.      *)
(*                                                                         *)
(* What makes it inductive: a job at a client still has that to do         *)
(* (LockSound), start() and stop() hold the manager's lock (Jobbing), and  *)
(* a client that is about to open a connection has none (Unconnected), so  *)
(* that the one it is given does not hide another.                         *)
(***************************************************************************)
MCPTypeOK ==
    /\ started \in BOOLEAN /\ overlapped \in BOOLEAN
    /\ managerLock \in {"start", "stop", NoJob}
    /\ todo \in [Jobs -> [Servers -> {"none", "connect", "disconnect"}]]
    /\ state \in [Servers -> {"disconnected", "connecting", "connected", "error"}]
    /\ lock \in [Servers -> [job : Jobs \cup {NoJob},
                             at : {"none", "opening", "initializing", "discovering", "closing"}]]
    /\ session \in [Servers -> Nat] /\ tools \in [Servers -> Nat] /\ refreshing \in [Servers -> Nat]
    /\ made \in [Servers -> Nat] /\ unclosed \in [Servers -> Nat]
    /\ open \in [Servers -> SUBSET Nat]
    /\ \A s \in Servers : IsFiniteSet(open[s])

LockSound(s) ==
    /\ lock[s] = Free \/ (lock[s].job \in Jobs /\ lock[s].at # "none")
    /\ lock[s].job \in Jobs =>
         todo[lock[s].job][s] = IF lock[s].at = "closing" THEN "disconnect" ELSE "connect"
    /\ lock[s].at \in {"opening", "initializing", "discovering"} => state[s] = "connecting"

Jobbing ==
    /\ \A s \in Servers : todo["start"][s] # "disconnect" /\ todo["stop"][s] # "connect"
    /\ Busy("start") => managerLock = "start"
    /\ Busy("stop") => managerLock = "stop"
    /\ managerLock = "start" => ~started
    /\ managerLock = "stop" => started
    /\ ~overlapped /\ Busy("reconnect") => started /\ managerLock # "stop"

AtRest(s) == state[s] = "disconnected" /\ lock[s] = Free

Unconnected(s) ==
    /\ managerLock = "start" /\ todo["start"][s] = "connect" /\ lock[s] = Free => state[s] = "disconnected"
    /\ todo["reconnect"][s] = "connect" /\ lock[s] = Free => state[s] = "disconnected"
    /\ managerLock = "stop" /\ todo["stop"][s] = "none" => AtRest(s)
    /\ managerLock = NoJob /\ ~started => AtRest(s)

\* What is open beside the session, or at all before there is one.
Unopened(s) == state[s] = "disconnected" \/ lock[s].at = "opening"
Accounted(s) ==
    /\ Cardinality(open[s] \ {session[s]}) <= unclosed[s]
    /\ Unopened(s) => Cardinality(open[s]) <= unclosed[s]
    /\ tools[s] # 0 => unclosed[s] > 0 \/ (tools[s] = session[s] /\ ~Unopened(s))

MCPInv ==
    /\ MCPTypeOK /\ Jobbing
    /\ \A s \in Servers : LockSound(s)
    /\ ~overlapped => \A s \in Servers : Unconnected(s) /\ Accounted(s)

LEMMA NoJobFacts == NoJob \notin {"start", "stop", "reconnect"} /\ Jobs = {"start", "stop", "reconnect"}
  BY NoJobAssumption DEF Jobs

\* The job at a client is the only one that can be.
LEMMA OnlyJob ==
  ASSUME MCPInv, ~overlapped, NEW s \in Servers, NEW j \in Jobs, todo[j][s] # "none"
  PROVE  /\ managerLock = "start" => j = "start"
         /\ managerLock = "stop" => j = "stop"
         /\ todo["reconnect"][s] # "none" => j = "reconnect"
         /\ managerLock = NoJob => started
  BY NoJobFacts DEF MCPInv, MCPTypeOK, Jobbing, Busy

\* A job takes a client's lock, keeps it, or has done its part.
LEMMA JobStep ==
  ASSUME MCPInv, NEW s \in Servers, NEW j \in Jobs, todo[j][s] # "none",
         MCPTypeOK', LockSound(s)', ~overlapped => Accounted(s)',
         UNCHANGED <<started, managerLock, overlapped>>,
         \A u \in Servers \ {s} :
            /\ state'[u] = state[u] /\ lock'[u] = lock[u] /\ session'[u] = session[u]
            /\ tools'[u] = tools[u] /\ unclosed'[u] = unclosed[u] /\ open'[u] = open[u],
         \/ lock'[s] # Free /\ todo' = todo
         \/ lock'[s] = Free /\ Advance(j, s) /\ (todo[j][s] = "disconnect" => state'[s] = "disconnected")
  PROVE  MCPInv'
<1>. USE NoJobFacts
<1>1. /\ \A u \in Servers \ {s}, i \in Jobs : todo'[i][u] = todo[i][u]
      /\ \A i \in Jobs \ {j} : todo'[i][s] = todo[i][s]
      /\ todo'[j][s] \in {todo[j][s], "none", "connect"}
      /\ todo'[j][s] # todo[j][s] /\ todo'[j][s] = "connect" => j = "reconnect"
      /\ lock'[s] = Free =>
           todo'[j][s] = IF j = "reconnect" /\ todo[j][s] = "disconnect" THEN "connect" ELSE "none"
  BY DEF Advance, MCPInv, MCPTypeOK
<1>2. \A i \in Jobs : Busy(i)' => Busy(i)
  BY <1>1 DEF Busy
<1>3. Jobbing'
  BY <1>1, <1>2 DEF MCPInv, Jobbing
<1>4. \A u \in Servers : LockSound(u)'
  <2>1. ASSUME NEW u \in Servers \ {s} PROVE LockSound(u)'
    <3>1. LockSound(u) /\ lock'[u] = lock[u] /\ state'[u] = state[u] /\ \A i \in Jobs : todo'[i][u] = todo[i][u]
      BY <1>1 DEF MCPInv
    <3>. QED
      BY <3>1 DEF LockSound
  <2>. QED
    BY <2>1
<1>5. ASSUME ~overlapped PROVE \A u \in Servers : Unconnected(u)'
  <2>1. \A u \in Servers \ {s} : Unconnected(u)'
    BY <1>1, <1>5 DEF MCPInv, Unconnected, AtRest
  <2>2. Unconnected(s)'
    <3>1. CASE lock'[s] # Free
      BY <1>5, <3>1, OnlyJob DEF Unconnected
    <3>2. CASE lock'[s] = Free
      BY <1>1, <1>5, <3>2, OnlyJob DEF Unconnected, AtRest, MCPInv, MCPTypeOK, Jobbing
    <3>. QED
      BY <3>1, <3>2
  <2>. QED
    BY <2>1, <2>2
<1>6. ASSUME ~overlapped PROVE \A u \in Servers : Accounted(u)'
  BY <1>6 DEF MCPInv, Accounted, Unopened
<1>. QED
  BY <1>3, <1>4, <1>5, <1>6 DEF MCPInv

LEMMA HeldJob ==
  ASSUME MCPInv, NEW s \in Servers, lock[s].at # "none"
  PROVE  /\ lock[s].job \in Jobs
         /\ todo[lock[s].job][s] = IF lock[s].at = "closing" THEN "disconnect" ELSE "connect"
  BY DEF MCPInv, LockSound, Free

LEMMA ConnectBeginsStep ==
  ASSUME MCPInv, NEW s \in Servers, NEW j \in Jobs, ConnectBegins(j, s) PROVE MCPInv'
<1>1. /\ todo[j][s] = "connect" /\ lock[s] = Free
      /\ UNCHANGED <<started, managerLock, overlapped, refreshing, session, tools, open, made, unclosed>>
  BY DEF ConnectBegins, clientRest
<1>2. CASE Advance(j, s) /\ UNCHANGED <<state, lock>>
  <2>1. MCPTypeOK'
    BY <1>1, <1>2 DEF MCPInv, MCPTypeOK, Advance
  <2>2. LockSound(s)'
    BY <1>1, <1>2, NoJobFacts DEF MCPInv, MCPTypeOK, LockSound, Free
  <2>3. ~overlapped => Accounted(s)'
    BY <1>1, <1>2 DEF MCPInv, Accounted, Unopened
  <2>. QED
    BY <1>1, <1>2, <2>1, <2>2, <2>3, JobStep
<1>3. CASE /\ state' = [state EXCEPT ![s] = "connecting"]
           /\ lock' = [lock EXCEPT ![s] = [job |-> j, at |-> "opening"]] /\ todo' = todo
  <2>1. MCPTypeOK'
    BY <1>1, <1>3 DEF MCPInv, MCPTypeOK
  <2>2. lock'[s] = [job |-> j, at |-> "opening"] /\ state'[s] = "connecting"
    BY <1>3 DEF MCPInv, MCPTypeOK
  <2>3. LockSound(s)' /\ lock'[s] # Free
    BY <1>1, <1>3, <2>2 DEF LockSound, Free
  <2>4. ASSUME ~overlapped PROVE Accounted(s)'
    <3>1. state[s] = "disconnected"
      <4>1. j # "stop" /\ (j = "start" => managerLock = "start")
        BY <1>1 DEF MCPInv, Jobbing, Busy
      <4>2. Unconnected(s)
        BY <2>4 DEF MCPInv
      <4>. QED
        BY <1>1, <4>1, <4>2, NoJobFacts DEF Unconnected
    <3>. QED
      BY <1>1, <2>2, <2>4, <3>1 DEF MCPInv, Accounted, Unopened
  <2>5. \A u \in Servers \ {s} : state'[u] = state[u] /\ lock'[u] = lock[u]
    BY <1>3 DEF MCPInv, MCPTypeOK
  <2>. QED
    BY <1>1, <1>3, <2>1, <2>3, <2>4, <2>5, JobStep
<1>. QED
  BY <1>2, <1>3 DEF ConnectBegins

LEMMA OpenedStep ==
  ASSUME MCPInv, NEW s \in Servers, Opened(s) PROVE MCPInv'
<1>. DEFINE n == made[s] + 1
<1>1. /\ lock[s].at = "opening" /\ made' = [made EXCEPT ![s] = n]
      /\ session' = [session EXCEPT ![s] = n] /\ open' = [open EXCEPT ![s] = open[s] \cup {n}]
      /\ lock' = [lock EXCEPT ![s].at = "initializing"]
      /\ UNCHANGED <<started, managerLock, overlapped, refreshing, todo, state, tools, unclosed>>
  BY DEF Opened, clientRest, MCPInv, MCPTypeOK
<1>2. lock[s].job \in Jobs /\ todo[lock[s].job][s] = "connect" /\ state[s] = "connecting"
  BY <1>1, HeldJob DEF MCPInv, LockSound
<1>3. n \in Nat /\ IsFiniteSet(open[s] \cup {n})
  <2>1. made[s] \in Nat /\ IsFiniteSet(open[s])
    BY DEF MCPInv, MCPTypeOK
  <2>2. IsFiniteSet(open[s] \cup {n})
    BY <2>1, FS_AddElement
  <2>. QED
    BY <2>1, <2>2
<1>. HIDE DEF n
<1>4. MCPTypeOK'
  BY <1>1, <1>3 DEF MCPInv, MCPTypeOK
<1>5. /\ lock'[s].job = lock[s].job /\ lock'[s].at = "initializing"
      /\ session'[s] = n /\ open'[s] = open[s] \cup {n}
  BY <1>1 DEF MCPInv, MCPTypeOK
<1>6. LockSound(s)' /\ lock'[s] # Free
  BY <1>1, <1>2, <1>5 DEF LockSound, Free
<1>7. ASSUME ~overlapped PROVE Accounted(s)'
  <2>1. Cardinality(open[s]) <= unclosed[s] /\ (tools[s] # 0 => unclosed[s] > 0)
    BY <1>1, <1>7 DEF MCPInv, Accounted, Unopened
  <2>2. Cardinality(open'[s] \ {session'[s]}) <= Cardinality(open[s])
    <3>1. open'[s] \ {session'[s]} \subseteq open[s] /\ IsFiniteSet(open[s])
      BY <1>5 DEF MCPInv, MCPTypeOK
    <3>. QED
      BY <3>1, FS_Subset
  <2>3. Cardinality(open'[s] \ {session'[s]}) \in Nat /\ Cardinality(open[s]) \in Nat
    <3>1. IsFiniteSet(open[s]) /\ IsFiniteSet(open'[s] \ {session'[s]})
      BY <1>4, FS_Difference DEF MCPInv, MCPTypeOK
    <3>. QED
      BY <3>1, FS_CardinalityType
  <2>. QED
    BY <1>1, <1>2, <1>5, <2>1, <2>2, <2>3 DEF Accounted, Unopened, MCPInv, MCPTypeOK
<1>8. \A u \in Servers \ {s} :
        session'[u] = session[u] /\ open'[u] = open[u] /\ lock'[u] = lock[u]
  BY <1>1 DEF MCPInv, MCPTypeOK
<1>. QED
  BY <1>1, <1>2, <1>4, <1>6, <1>7, <1>8, JobStep

LEMMA ConnectEndsStep ==
  ASSUME MCPInv, NEW s \in Servers, Initialized(s) \/ Discovered(s) \/ ConnectFails(s) PROVE MCPInv'
<1>. DEFINE j == lock[s].job
<1>1. /\ lock[s].at \in {"opening", "initializing", "discovering"}
      /\ UNCHANGED <<started, managerLock, overlapped, refreshing, session, open, made, unclosed>>
  BY DEF Initialized, Discovered, ConnectFails, clientRest
<1>2. j \in Jobs /\ todo[j][s] = "connect"
  BY <1>1, HeldJob
<1>3. CASE Initialized(s)
  <2>1. lock' = [lock EXCEPT ![s].at = "discovering"] /\ UNCHANGED <<todo, state, tools>>
        /\ lock[s].at = "initializing"
    BY <1>3 DEF Initialized
  <2>2. lock'[s].job = j /\ lock'[s].at = "discovering" /\ \A u \in Servers \ {s} : lock'[u] = lock[u]
    BY <2>1 DEF MCPInv, MCPTypeOK
  <2>3. MCPTypeOK'
    BY <1>1, <2>1 DEF MCPInv, MCPTypeOK
  <2>4. LockSound(s)' /\ lock'[s] # Free
    BY <1>2, <2>1, <2>2 DEF MCPInv, LockSound, Free
  <2>5. ~overlapped => Accounted(s)'
    BY <1>1, <2>1, <2>2 DEF MCPInv, Accounted, Unopened
  <2>. QED
    BY <1>1, <1>2, <2>1, <2>2, <2>3, <2>4, <2>5, JobStep
<1>4. CASE Discovered(s) \/ ConnectFails(s)
  <2>1. /\ lock' = [lock EXCEPT ![s] = Free] /\ Advance(j, s)
        /\ \E place \in {"connected", "error"} : state' = [state EXCEPT ![s] = place]
        /\ \E found \in {0, session[s], tools[s]} : tools' = [tools EXCEPT ![s] = found]
    <3>1. ConnectFails(s) => tools' = [tools EXCEPT ![s] = tools[s]]
      BY DEF ConnectFails, MCPInv, MCPTypeOK
    <3>. QED
      BY <1>4, <3>1 DEF Discovered, ConnectFails
  <2>2. Free \in [job : Jobs \cup {NoJob}, at : {"none", "opening", "initializing", "discovering", "closing"}]
    BY DEF Free
  <2>a. todo' \in [Jobs -> [Servers -> {"none", "connect", "disconnect"}]]
    BY <1>2, <2>1 DEF MCPInv, MCPTypeOK, Advance
  <2>b. /\ state' \in [Servers -> {"disconnected", "connecting", "connected", "error"}]
        /\ lock' \in [Servers -> [job : Jobs \cup {NoJob},
                             at : {"none", "opening", "initializing", "discovering", "closing"}]]
    BY <2>1, <2>2 DEF MCPInv, MCPTypeOK
  <2>c. tools' \in [Servers -> Nat]
    BY <2>1 DEF MCPInv, MCPTypeOK
  <2>3. MCPTypeOK'
    BY <1>1, <2>a, <2>b, <2>c DEF MCPInv, MCPTypeOK
  <2>4. /\ lock'[s] = Free /\ state'[s] \in {"connected", "error"}
        /\ tools'[s] \in {0, session[s], tools[s]}
        /\ \A u \in Servers \ {s} : lock'[u] = lock[u] /\ state'[u] = state[u] /\ tools'[u] = tools[u]
    BY <2>1 DEF MCPInv, MCPTypeOK
  <2>5. LockSound(s)'
    BY <2>4, NoJobFacts DEF LockSound, Free
  <2>6. ~overlapped => Accounted(s)'
    BY <1>1, <2>4 DEF MCPInv, Accounted, Unopened, Free
  <2>. QED
    BY <1>1, <1>2, <2>1, <2>3, <2>4, <2>5, <2>6, JobStep
<1>. QED
  BY <1>3, <1>4

LEMMA DisconnectBeginsStep ==
  ASSUME MCPInv, NEW s \in Servers, NEW j \in Jobs, DisconnectBegins(j, s) PROVE MCPInv'
<1>1. /\ todo[j][s] = "disconnect" /\ lock[s] = Free
      /\ UNCHANGED <<started, managerLock, overlapped, refreshing, state, session, tools, open, made, unclosed>>
  BY DEF DisconnectBegins, clientRest
<1>2. CASE state[s] = "disconnected" /\ Advance(j, s) /\ UNCHANGED lock
  <2>1. MCPTypeOK'
    BY <1>1, <1>2 DEF MCPInv, MCPTypeOK, Advance
  <2>2. LockSound(s)'
    BY <1>1, <1>2, NoJobFacts DEF MCPInv, LockSound, Free
  <2>3. ~overlapped => Accounted(s)'
    BY <1>1, <1>2 DEF MCPInv, Accounted, Unopened
  <2>. QED
    BY <1>1, <1>2, <2>1, <2>2, <2>3, JobStep
<1>3. CASE /\ state[s] # "disconnected"
           /\ lock' = [lock EXCEPT ![s] = [job |-> j, at |-> "closing"]] /\ todo' = todo
  <2>1. MCPTypeOK'
    BY <1>1, <1>3 DEF MCPInv, MCPTypeOK
  <2>2. /\ lock'[s] = [job |-> j, at |-> "closing"]
        /\ \A u \in Servers \ {s} : lock'[u] = lock[u]
    BY <1>3 DEF MCPInv, MCPTypeOK
  <2>3. LockSound(s)' /\ lock'[s] # Free
    BY <1>1, <1>3, <2>2 DEF LockSound, Free
  <2>4. ~overlapped => Accounted(s)'
    BY <1>1, <1>3, <2>2 DEF MCPInv, Accounted, Unopened
  <2>. QED
    BY <1>1, <1>3, <2>1, <2>2, <2>3, <2>4, JobStep
<1>. QED
  BY <1>2, <1>3 DEF DisconnectBegins

LEMMA DisconnectEndsStep ==
  ASSUME MCPInv, NEW s \in Servers, DisconnectDone(s) \/ DisconnectRaises(s) PROVE MCPInv'
<1>. DEFINE j == lock[s].job
<1>1. /\ lock[s].at = "closing" /\ lock' = [lock EXCEPT ![s] = Free] /\ Advance(j, s)
      /\ state' = [state EXCEPT ![s] = "disconnected"] /\ tools' = [tools EXCEPT ![s] = 0]
      /\ UNCHANGED <<started, managerLock, overlapped, refreshing, made>>
  BY DEF DisconnectDone, DisconnectRaises, Closed, clientRest
<1>2. j \in Jobs /\ todo[j][s] = "disconnect"
  BY <1>1, HeldJob
<1>3. \/ /\ open' = [open EXCEPT ![s] = open[s] \ {session[s]}] /\ session' = [session EXCEPT ![s] = 0]
         /\ UNCHANGED unclosed
      \/ /\ unclosed' = [unclosed EXCEPT ![s] = unclosed[s] + 1] /\ UNCHANGED open
         /\ \E now \in {0, session[s]} : session' = [session EXCEPT ![s] = now]
  BY DEF DisconnectDone, DisconnectRaises
<1>4. Free \in [job : Jobs \cup {NoJob}, at : {"none", "opening", "initializing", "discovering", "closing"}]
  BY DEF Free
<1>5. IsFiniteSet(open[s]) /\ IsFiniteSet(open[s] \ {session[s]})
  BY FS_Difference DEF MCPInv, MCPTypeOK
<1>6. MCPTypeOK'
  <2>a. open' \in [Servers -> SUBSET Nat] /\ unclosed' \in [Servers -> Nat]
    <3>1. /\ open \in [Servers -> SUBSET Nat] /\ unclosed \in [Servers -> Nat]
          /\ open[s] \ {session[s]} \in SUBSET Nat /\ unclosed[s] + 1 \in Nat
      BY DEF MCPInv, MCPTypeOK
    <3>2. /\ open' = open \/ open' = [open EXCEPT ![s] = open[s] \ {session[s]}]
          /\ unclosed' = unclosed \/ unclosed' = [unclosed EXCEPT ![s] = unclosed[s] + 1]
      BY <1>3
    <3>3. open' \in [Servers -> SUBSET Nat]
      BY <3>1, <3>2
    <3>4. unclosed' \in [Servers -> Nat]
      BY <3>1, <3>2
    <3>. QED
      BY <3>3, <3>4
  <2>b. session' \in [Servers -> Nat]
    BY <1>3 DEF MCPInv, MCPTypeOK
  <2>c. \A u \in Servers : IsFiniteSet(open'[u])
    <3>1. \A u \in Servers : open'[u] = open[u] \/ (u = s /\ open'[u] = open[s] \ {session[s]})
      BY <1>3 DEF MCPInv, MCPTypeOK
    <3>. QED
      BY <1>5, <3>1 DEF MCPInv, MCPTypeOK
  <2>1. /\ open' \in [Servers -> SUBSET Nat] /\ session' \in [Servers -> Nat] /\ unclosed' \in [Servers -> Nat]
        /\ \A u \in Servers : IsFiniteSet(open'[u])
    BY <2>a, <2>b, <2>c
  <2>2. /\ todo' \in [Jobs -> [Servers -> {"none", "connect", "disconnect"}]]
        /\ state' \in [Servers -> {"disconnected", "connecting", "connected", "error"}]
        /\ lock' \in [Servers -> [job : Jobs \cup {NoJob},
                             at : {"none", "opening", "initializing", "discovering", "closing"}]]
        /\ tools' \in [Servers -> Nat]
    BY <1>1, <1>4 DEF MCPInv, MCPTypeOK, Advance
  <2>. QED
    BY <1>1, <2>1, <2>2 DEF MCPInv, MCPTypeOK
<1>7. /\ lock'[s] = Free /\ state'[s] = "disconnected" /\ tools'[s] = 0
      /\ \A u \in Servers \ {s} : lock'[u] = lock[u] /\ state'[u] = state[u] /\ tools'[u] = tools[u]
  BY <1>1 DEF MCPInv, MCPTypeOK
<1>8. \A u \in Servers \ {s} : open'[u] = open[u] /\ session'[u] = session[u] /\ unclosed'[u] = unclosed[u]
  BY <1>3 DEF MCPInv, MCPTypeOK
<1>9. LockSound(s)'
  BY <1>7, NoJobFacts DEF LockSound, Free
<1>10. ASSUME ~overlapped PROVE Accounted(s)'
  <2>1. Cardinality(open[s] \ {session[s]}) <= unclosed[s]
    BY <1>10 DEF MCPInv, Accounted
  <2>2. /\ Cardinality(open[s]) \in Nat /\ Cardinality(open[s] \ {session[s]}) \in Nat
        /\ Cardinality(open[s]) <= Cardinality(open[s] \ {session[s]}) + 1
    <3>1. Cardinality(open[s]) \in Nat /\ Cardinality(open[s] \ {session[s]}) \in Nat
      BY <1>5, FS_CardinalityType
    <3>2. Cardinality(open[s] \ {session[s]})
            = IF session[s] \in open[s] THEN Cardinality(open[s]) - 1 ELSE Cardinality(open[s])
      BY <1>5, FS_RemoveElement
    <3>. QED
      BY <3>1, <3>2
  <2>3. Cardinality(open'[s]) <= unclosed'[s]
    <3>1. unclosed[s] \in Nat
      BY DEF MCPInv, MCPTypeOK
    <3>2. \/ open'[s] = open[s] \ {session[s]} /\ unclosed'[s] = unclosed[s]
          \/ open'[s] = open[s] /\ unclosed'[s] = unclosed[s] + 1
      BY <1>3 DEF MCPInv, MCPTypeOK
    <3>3. CASE open'[s] = open[s] \ {session[s]} /\ unclosed'[s] = unclosed[s]
      BY <2>1, <3>3
    <3>4. CASE open'[s] = open[s] /\ unclosed'[s] = unclosed[s] + 1
      BY <2>1, <2>2, <3>1, <3>4
    <3>. QED
      BY <3>2, <3>3, <3>4
  <2>4. Cardinality(open'[s] \ {session'[s]}) <= Cardinality(open'[s])
        /\ Cardinality(open'[s] \ {session'[s]}) \in Nat /\ Cardinality(open'[s]) \in Nat
    <3>1. IsFiniteSet(open'[s])
      BY <1>6 DEF MCPTypeOK
    <3>. QED
      BY <3>1, FS_Subset, FS_CardinalityType
  <2>5. unclosed'[s] \in Nat
    BY <1>6 DEF MCPTypeOK
  <2>6. Cardinality(open'[s] \ {session'[s]}) <= unclosed'[s]
    BY <2>3, <2>4, <2>5
  <2>. QED
    BY <1>7, <2>3, <2>6 DEF Accounted
<1>. QED
  BY <1>1, <1>2, <1>6, <1>7, <1>8, <1>9, <1>10, JobStep

\* The manager begins and ends its jobs.
LEMMA ManagerStep ==
  ASSUME MCPInv,
         \/ StartManager \/ StartManagerDone \/ StopManager \/ StopManagerDone
         \/ \E s \in Servers : Reconnect(s)
  PROVE  MCPInv'
<1>. USE NoJobFacts
<1>1. UNCHANGED <<state, session, tools, lock, refreshing, open, made, unclosed>>
  BY DEF StartManager, StartManagerDone, StopManager, StopManagerDone, Reconnect, managerRest
<1>2. \A s \in Servers : Accounted(s)' <=> Accounted(s)
  BY <1>1 DEF Accounted, Unopened
<1>3. CASE StartManager
  <2>1. /\ managerLock = NoJob /\ ~started /\ managerLock' = "start"
        /\ todo' = [todo EXCEPT !["start"] = [s \in Servers |-> IF s \in Enabled THEN "connect" ELSE "none"]]
        /\ UNCHANGED <<started, overlapped>>
    BY <1>3 DEF StartManager
  <2>2. MCPTypeOK'
    BY <1>1, <2>1 DEF MCPInv, MCPTypeOK
  <2>3. /\ \A s \in Servers : todo'["start"][s] \in {"connect", "none"}
        /\ \A i \in {"stop", "reconnect"} : todo'[i] = todo[i]
    BY <2>1 DEF MCPInv, MCPTypeOK
  <2>4. ~Busy("start") /\ ~Busy("stop")
    BY <2>1 DEF MCPInv, Jobbing
  <2>5. Jobbing'
    BY <2>1, <2>3, <2>4 DEF MCPInv, Jobbing, Busy
  <2>6. \A s \in Servers : LockSound(s)'
    BY <1>1, <2>3, <2>4 DEF MCPInv, LockSound, Busy
  <2>7. ASSUME ~overlapped PROVE \A s \in Servers : Unconnected(s)'
    BY <1>1, <2>1, <2>3, <2>7 DEF MCPInv, Unconnected, AtRest
  <2>. QED
    BY <1>2, <2>1, <2>2, <2>5, <2>6, <2>7 DEF MCPInv
<1>4. CASE StartManagerDone
  <2>1. /\ managerLock = "start" /\ ~Busy("start") /\ managerLock' = NoJob /\ started' = TRUE
        /\ UNCHANGED <<todo, overlapped>>
    BY <1>4 DEF StartManagerDone
  <2>2. MCPTypeOK' /\ \A s \in Servers : LockSound(s)'
    BY <1>1, <2>1 DEF MCPInv, MCPTypeOK, LockSound
  <2>3. Jobbing'
    BY <2>1 DEF MCPInv, Jobbing, Busy
  <2>4. ASSUME ~overlapped PROVE \A s \in Servers : Unconnected(s)'
    BY <1>1, <2>1, <2>4 DEF MCPInv, Unconnected, AtRest
  <2>. QED
    BY <1>2, <2>1, <2>2, <2>3, <2>4 DEF MCPInv
<1>5. CASE StopManager
  <2>1. /\ managerLock = NoJob /\ started /\ managerLock' = "stop"
        /\ todo' = [todo EXCEPT !["stop"] = [s \in Servers |-> "disconnect"]]
        /\ overlapped' = (overlapped \/ Busy("reconnect")) /\ UNCHANGED started
    BY <1>5 DEF StopManager
  <2>2. MCPTypeOK'
    BY <1>1, <2>1 DEF MCPInv, MCPTypeOK
  <2>3. /\ \A s \in Servers : todo'["stop"][s] = "disconnect"
        /\ \A i \in {"start", "reconnect"} : todo'[i] = todo[i]
    BY <2>1 DEF MCPInv, MCPTypeOK
  <2>4. ~Busy("start") /\ ~Busy("stop")
    BY <2>1 DEF MCPInv, Jobbing
  <2>5. Jobbing'
    BY <2>1, <2>3, <2>4 DEF MCPInv, Jobbing, Busy
  <2>6. \A s \in Servers : LockSound(s)'
    BY <1>1, <2>3, <2>4 DEF MCPInv, LockSound, Busy
  <2>7. ASSUME ~overlapped' PROVE \A s \in Servers : Unconnected(s)'
    BY <1>1, <2>1, <2>3, <2>7 DEF MCPInv, Unconnected, AtRest
  <2>. QED
    BY <1>2, <2>1, <2>2, <2>5, <2>6, <2>7 DEF MCPInv
<1>6. CASE StopManagerDone
  <2>1. /\ managerLock = "stop" /\ ~Busy("stop") /\ managerLock' = NoJob /\ started' = FALSE
        /\ UNCHANGED <<todo, overlapped>>
    BY <1>6 DEF StopManagerDone
  <2>2. MCPTypeOK' /\ \A s \in Servers : LockSound(s)'
    BY <1>1, <2>1 DEF MCPInv, MCPTypeOK, LockSound
  <2>3. Jobbing'
    BY <2>1 DEF MCPInv, Jobbing, Busy
  <2>4. ASSUME ~overlapped PROVE \A s \in Servers : Unconnected(s)'
    BY <1>1, <2>1, <2>4 DEF MCPInv, Unconnected, AtRest, Busy
  <2>. QED
    BY <1>2, <2>1, <2>2, <2>3, <2>4 DEF MCPInv
<1>7. ASSUME NEW s \in Servers, Reconnect(s) PROVE MCPInv'
  <2>1. /\ started /\ ~Busy("reconnect")
        /\ todo' = [todo EXCEPT !["reconnect"][s] = "disconnect"]
        /\ overlapped' = (overlapped \/ managerLock = "stop") /\ UNCHANGED <<started, managerLock>>
    BY <1>7 DEF Reconnect
  <2>2. MCPTypeOK'
    BY <1>1, <2>1 DEF MCPInv, MCPTypeOK
  <2>3. /\ \A u \in Servers : todo'["reconnect"][u] # "connect"
        /\ \A i \in {"start", "stop"} : todo'[i] = todo[i]
    BY <2>1 DEF MCPInv, MCPTypeOK, Busy
  <2>4. Jobbing'
    BY <2>1, <2>3 DEF MCPInv, Jobbing, Busy
  <2>5. \A u \in Servers : LockSound(u)'
    BY <1>1, <2>1, <2>3 DEF MCPInv, LockSound, Busy
  <2>6. ASSUME ~overlapped' PROVE \A u \in Servers : Unconnected(u)'
    BY <1>1, <2>1, <2>3, <2>6 DEF MCPInv, Unconnected, AtRest
  <2>. QED
    BY <1>2, <2>1, <2>2, <2>4, <2>5, <2>6 DEF MCPInv
<1>. QED
  BY <1>3, <1>4, <1>5, <1>6, <1>7

\* A refresh that comes late finds a session that was left open, or none.
LEMMA RefreshedStep ==
  ASSUME MCPInv, NEW s \in Servers, Refreshed(s) PROVE MCPInv'
<1>1. PICK found \in {0} \cup ({refreshing[s]} \cap open[s]) : tools' = [tools EXCEPT ![s] = found]
  BY DEF Refreshed
<1>2. /\ refreshing' = [refreshing EXCEPT ![s] = 0]
      /\ UNCHANGED <<started, managerLock, todo, state, session, lock, open, made, unclosed, overlapped>>
  BY DEF Refreshed
<1>3. tools'[s] = found /\ \A u \in Servers \ {s} : tools'[u] = tools[u]
  BY <1>1 DEF MCPInv, MCPTypeOK
<1>4. MCPTypeOK'
  BY <1>1, <1>2 DEF MCPInv, MCPTypeOK
<1>5. Jobbing' /\ \A u \in Servers : LockSound(u)' /\ (Unconnected(u)' <=> Unconnected(u))
  BY <1>2 DEF MCPInv, Jobbing, Busy, LockSound, Unconnected, AtRest
<1>6. ASSUME ~overlapped PROVE \A u \in Servers : Accounted(u)'
  <2>1. \A u \in Servers \ {s} : Accounted(u)'
    BY <1>2, <1>3, <1>6 DEF MCPInv, Accounted, Unopened
  <2>2. ASSUME found # 0, found # session[s] \/ Unopened(s) PROVE unclosed[s] > 0
    <3>1. CASE Unopened(s)
      <4>1. Cardinality(open[s]) <= unclosed[s] /\ found \in open[s] /\ IsFiniteSet(open[s])
        BY <1>6, <2>2, <3>1 DEF MCPInv, MCPTypeOK, Accounted
      <4>2. Cardinality(open[s]) \in Nat /\ Cardinality(open[s]) # 0
        BY <4>1, FS_CardinalityType, FS_EmptySet
      <4>. QED
        BY <4>1, <4>2 DEF MCPInv, MCPTypeOK
    <3>2. CASE found # session[s]
      <4>1. /\ Cardinality(open[s] \ {session[s]}) <= unclosed[s] /\ found \in open[s] \ {session[s]}
            /\ IsFiniteSet(open[s] \ {session[s]})
        BY <1>6, <2>2, <3>2, FS_Difference DEF MCPInv, MCPTypeOK, Accounted
      <4>2. Cardinality(open[s] \ {session[s]}) \in Nat /\ Cardinality(open[s] \ {session[s]}) # 0
        BY <4>1, FS_CardinalityType, FS_EmptySet
      <4>. QED
        BY <4>1, <4>2 DEF MCPInv, MCPTypeOK
    <3>. QED
      BY <2>2, <3>1, <3>2
  <2>3. Accounted(s)'
    BY <1>2, <1>3, <1>6, <2>2 DEF MCPInv, Accounted, Unopened
  <2>. QED
    BY <2>1, <2>3
<1>. QED
  BY <1>2, <1>4, <1>5, <1>6 DEF MCPInv

LEMMA MCPInvInit == MCPInit => MCPInv
<1>. SUFFICES ASSUME MCPInit PROVE MCPInv
  OBVIOUS
<1>. USE NoJobFacts
<1>1. MCPTypeOK
  <2>1. IsFiniteSet({})
    BY FS_EmptySet
  <2>2. Nothing \in [Servers -> {"none", "connect", "disconnect"}]
    BY DEF Nothing
  <2>3. Free \in [job : Jobs \cup {NoJob}, at : {"none", "opening", "initializing", "discovering", "closing"}]
    BY DEF Free
  <2>. QED
    BY <2>1, <2>2, <2>3 DEF MCPInit, MCPTypeOK
<1>2. \A s \in Servers, j \in Jobs : todo[j][s] = "none" /\ lock[s] = Free
  BY DEF MCPInit, Nothing
<1>3. Jobbing
  BY <1>2 DEF MCPInit, Jobbing, Busy
<1>4. \A s \in Servers : LockSound(s) /\ Unconnected(s)
  BY <1>2 DEF MCPInit, LockSound, Unconnected, AtRest, Free
<1>5. \A s \in Servers : Accounted(s)
  <2>1. Cardinality({}) = 0
    BY FS_EmptySet
  <2>2. \A s \in Servers : open[s] = {} /\ open[s] \ {session[s]} = {} /\ unclosed[s] = 0 /\ tools[s] = 0
    BY DEF MCPInit
  <2>. QED
    BY <2>1, <2>2 DEF Accounted
<1>. QED
  BY <1>1, <1>3, <1>4, <1>5 DEF MCPInv

LEMMA MCPInvStep == MCPInv /\ [MCPNext]_mcpVars => MCPInv'
<1>. SUFFICES ASSUME MCPInv, [MCPNext]_mcpVars PROVE MCPInv'
  OBVIOUS
<1>1. CASE \/ StartManager \/ StartManagerDone \/ StopManager \/ StopManagerDone
           \/ \E s \in Servers : Reconnect(s)
  BY <1>1, ManagerStep
<1>2. CASE \E s \in Servers : ClientStep(s)
  BY <1>2, ConnectBeginsStep, OpenedStep, ConnectEndsStep, DisconnectBeginsStep, DisconnectEndsStep DEF ClientStep
<1>3. CASE \E s \in Servers : Refreshed(s)
  BY <1>3, RefreshedStep
<1>4. CASE \/ \E s \in Servers : RefreshTools(s) \/ \E k \in Calls : CallTool(k, s)
           \/ \E k \in Calls : CallAnswered(k) \/ CallRaises(k) \/ CallTimesOut(k)
           \/ UNCHANGED mcpVars
  <2>1. UNCHANGED <<started, managerLock, todo, state, session, tools, lock, open, made, unclosed, overlapped>>
    BY <1>4 DEF RefreshTools, CallTool, CallAnswered, CallRaises, CallTimesOut, callRest, mcpVars
  <2>2. refreshing' \in [Servers -> Nat]
    BY <1>4 DEF RefreshTools, CallTool, CallAnswered, CallRaises, CallTimesOut, callRest, mcpVars,
                MCPInv, MCPTypeOK
  <2>3. MCPTypeOK' /\ Jobbing'
    BY <2>1, <2>2 DEF MCPInv, MCPTypeOK, Jobbing, Busy
  <2>4. \A s \in Servers : LockSound(s)' /\ (Unconnected(s)' <=> Unconnected(s)) /\ (Accounted(s)' <=> Accounted(s))
    BY <2>1 DEF MCPInv, LockSound, Unconnected, AtRest, Accounted, Unopened
  <2>. QED
    BY <2>1, <2>3, <2>4 DEF MCPInv
<1>. QED
  BY <1>1, <1>2, <1>3, <1>4 DEF MCPNext

\* For any servers and however connects, reconnects, closings and refreshes fail
\* and overlap: unless a reconnect was under way during a stop, no connection is
\* lost, a stopped manager holds none, and tools are those of the connection
\* (mcp/manager.py, mcp/client.py).
THEOREM MCPConnectionsConsistent == MCPSpec => []ConnectionsConsistent
<1>1. MCPInv => ConnectionsConsistent
  <2>. SUFFICES ASSUME MCPInv, ~overlapped
                PROVE  ConnectionsAccounted /\ StoppedIsDisconnected /\ ToolsOfConnection
    BY DEF ConnectionsConsistent
  <2>1. \A s \in Servers : Unconnected(s) /\ Accounted(s)
    BY DEF MCPInv
  <2>. QED
    BY <2>1 DEF Accounted, Unconnected, AtRest, ConnectionsAccounted, StoppedIsDisconnected, ToolsOfConnection
<1>. QED
  BY <1>1, MCPInvInit, MCPInvStep, PTL DEF MCPSpec

-----------------------------------------------------------------------------
ServerTypeOK ==
    /\ serverStatus \in {"stopped", "starting", "running", "unresponsive", "stopping", "error"}
    /\ child \in Pids \cup {0}
    /\ proc \in [Pids -> {"unborn", "booting", "serving", "dead"}]
    /\ external \in {"nobody", "omlx", "other"}
    /\ adopted \in BOOLEAN /\ stopEvent \in BOOLEAN /\ raced \in BOOLEAN
    /\ loop \in [Loops -> {"none", "idle", "checking", "checking start", "backoff", "respawning", "ended"}]
    /\ watcher \in Loops \cup {0}
    /\ ui \in {"idle", "launching", "watching", "dialog", "joining to release", "joining to kill",
               "joining to restart"}

\* A process is launched when nothing is on the port, and forgotten for an adopted one.
Ours == child # 0 => external = "nobody" /\ ~adopted

Unwatched == \A l \in Loops : loop[l] \in {"none", "ended"}
NoLoopAt(places) == \A l \in Loops : loop[l] \notin places

\* Only the last health check thread is alive, and only the last process.
OneOfEach ==
    /\ \A l \in Loops : loop[l] \in {"none", "ended"} \/ l = watcher
    /\ \A p \in Pids : Alive(p) => p = child

Starting ==
    /\ ui \in {"launching", "dialog"} => Unwatched /\ child = 0
    /\ ui = "watching" => Unwatched /\ serverStatus = "starting" /\ child # 0
    /\ ui = "launching" => serverStatus = "starting"
    /\ ui = "dialog" => serverStatus = "stopped"

Resting ==
    ui = "idle" =>
        /\ serverStatus # "stopping"
        /\ serverStatus = "stopped" => Unwatched /\ child = 0
        /\ serverStatus = "error" =>
             child = 0 /\ NoLoopAt({"checking", "checking start", "backoff", "respawning"})

\* A server being watched: its thread knows it is, and does what the status says.
Watching ==
    ui = "idle" /\ serverStatus \in Watched \cup {"starting"} =>
        /\ watcher \in Loops /\ loop[watcher] \notin {"none", "ended"} /\ ~stopEvent
        /\ serverStatus = "unresponsive" => external = "nobody"
        /\ adopted => serverStatus = "running"
        /\ loop[watcher] \in {"backoff", "respawning"} => child = 0 /\ ~adopted
        /\ loop[watcher] \notin {"backoff", "respawning"} => child # 0 \/ adopted
        /\ loop[watcher] = "checking" => serverStatus \in Watched
        /\ loop[watcher] \in {"checking start", "respawning"} => serverStatus = "starting"

\* While the main thread waits for the thread, that can only come to its end.
Joining ==
    /\ ui \in {"joining to release", "joining to kill", "joining to restart"} =>
         stopEvent /\ NoLoopAt({"respawning"})
    /\ ui \in {"joining to release", "joining to restart"} => child = 0
    /\ ui = "joining to restart" =>
         /\ serverStatus \in {"unresponsive", "error"} /\ NoLoopAt({"checking start"})
         /\ external # "nobody" => NoLoopAt({"checking"})

ServerInv ==
    /\ ServerTypeOK /\ Ours
    /\ ~raced => OneOfEach /\ Starting /\ Resting /\ Watching /\ Joining

LEMMA ZeroIsNone == 0 \notin Pids /\ 0 \notin Loops
  BY DEF Pids, Loops

\* The main thread goes on for certain only when the thread has ended.
LEMMA AllJoined ==
  ASSUME ServerTypeOK, Joined, ~JoinRaces PROVE Unwatched
  BY ZeroIsNone DEF ServerTypeOK, Joined, JoinRaces, LiveLoops, Unwatched

LEMMA ServerStepKeeps ==
  ASSUME ServerInv, [ServerNext]_serverVars PROVE ServerInv'
<1>. USE ZeroIsNone DEF ServerInv, ServerTypeOK, Ours, OneOfEach, Starting, Resting, Watching, Joining,
                        Unwatched, NoLoopAt, Watched, Alive
<1>1. CASE StartServer
  BY <1>1 DEF StartServer, BeginStart, CanWatch, LiveLoops
<1>2. CASE UIConflict
  BY <1>2 DEF UIConflict
<1>3. CASE UILaunchFails
  BY <1>3 DEF UILaunchFails
<1>4. CASE UILaunch
  BY <1>4, ZenonT(40) DEF UILaunch, Launch, PortInUse
<1>5. CASE WatchChild
  BY <1>5 DEF WatchChild, StartLoop
<1>6. CASE Adopt
  BY <1>6 DEF Adopt, StartLoop, Healthy
<1>7. CASE KillAndRestart
  BY <1>7 DEF KillAndRestart, BeginStart
<1>8. CASE CancelDialog
  BY <1>8 DEF CancelDialog
<1>9. CASE StopServer
  BY <1>9 DEF StopServer, BeginStop
<1>10. CASE ReleaseAdopted
  BY <1>10, AllJoined DEF ReleaseAdopted
<1>11. CASE KillChild
  <2>1. ServerTypeOK' /\ Ours'
    BY <1>11 DEF KillChild, CleanupDeadProcess
  <2>2. ASSUME ~raced' PROVE OneOfEach' /\ Starting'
    BY <1>11, <2>2, AllJoined DEF KillChild, CleanupDeadProcess
  <2>3. ASSUME ~raced' PROVE Resting' /\ Watching'
    BY <1>11, <2>3, AllJoined DEF KillChild, CleanupDeadProcess
  <2>4. ASSUME ~raced' PROVE Joining'
    BY <1>11, <2>4, AllJoined DEF KillChild, CleanupDeadProcess
  <2>. QED
    BY <2>1, <2>2, <2>3, <2>4
<1>12. CASE ForceRestart
  <2>1. ServerTypeOK' /\ Ours'
    BY <1>12 DEF ForceRestart, CleanupDeadProcess
  <2>2. ASSUME ~raced' PROVE OneOfEach' /\ Starting'
    BY <1>12, <2>2 DEF ForceRestart, CleanupDeadProcess
  <2>3. ASSUME ~raced' PROVE Resting' /\ Watching'
    BY <1>12, <2>3 DEF ForceRestart, CleanupDeadProcess
  <2>4. ASSUME ~raced' PROVE Joining'
    BY <1>12, <2>4 DEF ForceRestart, CleanupDeadProcess
  <2>. QED
    BY <2>1, <2>2, <2>3, <2>4
<1>13. CASE RestartJoined
  <2>1. ServerTypeOK' /\ Ours'
    BY <1>13 DEF RestartJoined, BeginStart
  <2>2. ASSUME ~raced' PROVE OneOfEach' /\ Starting'
    BY <1>13, <2>2, AllJoined DEF RestartJoined, BeginStart
  <2>3. ASSUME ~raced' PROVE Resting' /\ Watching'
    BY <1>13, <2>3, AllJoined DEF RestartJoined, BeginStart
  <2>4. ASSUME ~raced' PROVE Joining'
    BY <1>13, <2>4, AllJoined DEF RestartJoined, BeginStart
  <2>. QED
    BY <2>1, <2>2, <2>3, <2>4
<1>14. ASSUME NEW l \in Loops, LoopTop(l) PROVE ServerInv'
  <2>1. ServerTypeOK' /\ Ours'
    BY <1>14 DEF LoopTop, Goto
  <2>2. ASSUME ~raced' PROVE OneOfEach' /\ Starting'
    BY <1>14, <2>2 DEF LoopTop, Goto
  <2>3. ASSUME ~raced' PROVE Resting' /\ Watching'
    BY <1>14, <2>3 DEF LoopTop, Goto
  <2>4. ASSUME ~raced' PROVE Joining'
    BY <1>14, <2>4 DEF LoopTop, Goto
  <2>. QED
    BY <2>1, <2>2, <2>3, <2>4
<1>15. ASSUME NEW l \in Loops, CheckSucceeds(l) PROVE ServerInv'
  <2>1. ServerTypeOK' /\ Ours'
    BY <1>15 DEF CheckSucceeds, Goto, Healthy
  <2>2. ASSUME ~raced' PROVE OneOfEach' /\ Starting'
    BY <1>15, <2>2 DEF CheckSucceeds, Goto, Healthy
  <2>3. ASSUME ~raced' PROVE Resting' /\ Watching'
    BY <1>15, <2>3 DEF CheckSucceeds, Goto, Healthy
  <2>4. ASSUME ~raced' PROVE Joining'
    BY <1>15, <2>4 DEF CheckSucceeds, Goto, Healthy
  <2>. QED
    BY <2>1, <2>2, <2>3, <2>4
<1>16. ASSUME NEW l \in Loops, CheckFails(l) PROVE ServerInv'
  <2>1. ServerTypeOK' /\ Ours'
    <3>1. /\ adopted' \in {adopted, FALSE} /\ serverStatus' \in {serverStatus, "error", "unresponsive"}
          /\ loop' = [loop EXCEPT ![l] = "idle"]
          /\ UNCHANGED <<child, proc, external, stopEvent, watcher, ui, raced>>
      BY <1>16 DEF CheckFails, Goto, ChildExited
    <3>2. adopted' \in BOOLEAN
      BY <3>1
    <3>3. ServerTypeOK'
      BY <3>1, <3>2
    <3>4. Ours'
      BY <3>1
    <3>. QED
      BY <3>3, <3>4
  <2>2. ASSUME ~raced' PROVE OneOfEach' /\ Starting'
    BY <1>16, <2>2 DEF CheckFails, Goto, ChildExited
  <2>3. ASSUME ~raced' PROVE Resting' /\ Watching'
    BY <1>16, <2>3 DEF CheckFails, Goto, ChildExited
  <2>4. ASSUME ~raced' PROVE Joining'
    BY <1>16, <2>4 DEF CheckFails, Goto, ChildExited
  <2>. QED
    BY <2>1, <2>2, <2>3, <2>4
<1>17. ASSUME NEW l \in Loops, CheckFindsExit(l) PROVE ServerInv'
  <2>1. ServerTypeOK' /\ Ours'
    BY <1>17 DEF CheckFindsExit, Goto, ChildExited, CleanupDeadProcess
  <2>2. ASSUME ~raced' PROVE OneOfEach' /\ Starting'
    BY <1>17, <2>2 DEF CheckFindsExit, Goto, ChildExited, CleanupDeadProcess
  <2>3. ASSUME ~raced' PROVE Resting' /\ Watching'
    BY <1>17, <2>3 DEF CheckFindsExit, Goto, ChildExited, CleanupDeadProcess
  <2>4. ASSUME ~raced' PROVE Joining'
    BY <1>17, <2>4 DEF CheckFindsExit, Goto, ChildExited, CleanupDeadProcess
  <2>. QED
    BY <2>1, <2>2, <2>3, <2>4
<1>18. ASSUME NEW l \in Loops, BackoffEnds(l) PROVE ServerInv'
  <2>1. ServerTypeOK' /\ Ours'
    BY <1>18 DEF BackoffEnds, Goto
  <2>2. ASSUME ~raced' PROVE OneOfEach' /\ Starting'
    BY <1>18, <2>2 DEF BackoffEnds, Goto
  <2>3. ASSUME ~raced' PROVE Resting' /\ Watching'
    BY <1>18, <2>3 DEF BackoffEnds, Goto
  <2>4. ASSUME ~raced' PROVE Joining'
    BY <1>18, <2>4 DEF BackoffEnds, Goto
  <2>. QED
    BY <2>1, <2>2, <2>3, <2>4
<1>19. ASSUME NEW l \in Loops, Respawn(l) PROVE ServerInv'
  <2>1. ServerTypeOK' /\ Ours'
    BY <1>19 DEF Respawn, Goto, Launch, PortInUse
  <2>2. ASSUME ~raced' PROVE OneOfEach' /\ Starting'
    BY <1>19, <2>2 DEF Respawn, Goto, Launch, PortInUse
  <2>3. ASSUME ~raced' PROVE Resting' /\ Watching'
    BY <1>19, <2>3 DEF Respawn, Goto, Launch, PortInUse
  <2>4. ASSUME ~raced' PROVE Joining'
    BY <1>19, <2>4 DEF Respawn, Goto, Launch, PortInUse
  <2>. QED
    BY <2>1, <2>2, <2>3, <2>4
<1>20. ASSUME NEW l \in Loops, RespawnFails(l) PROVE ServerInv'
  <2>1. ServerTypeOK' /\ Ours'
    <3>1. /\ adopted' \in {adopted, FALSE} /\ serverStatus' = "error" /\ loop' = [loop EXCEPT ![l] = "idle"]
          /\ UNCHANGED <<child, proc, external, stopEvent, watcher, ui, raced>>
      BY <1>20 DEF RespawnFails, Goto
    <3>2. ServerTypeOK'
      BY <3>1
    <3>3. Ours'
      BY <3>1
    <3>. QED
      BY <3>2, <3>3
  <2>2. ASSUME ~raced' PROVE OneOfEach' /\ Starting'
    BY <1>20, <2>2 DEF RespawnFails, Goto
  <2>3. ASSUME ~raced' PROVE Resting' /\ Watching'
    BY <1>20, <2>3 DEF RespawnFails, Goto
  <2>4. ASSUME ~raced' PROVE Joining'
    BY <1>20, <2>4 DEF RespawnFails, Goto
  <2>. QED
    BY <2>1, <2>2, <2>3, <2>4
<1>21. ASSUME NEW p \in Pids, Bind(p) PROVE ServerInv'
  <2>1. ServerTypeOK' /\ Ours'
    BY <1>21 DEF Bind, processRest
  <2>2. ASSUME ~raced' PROVE OneOfEach' /\ Starting'
    BY <1>21, <2>2 DEF Bind, processRest
  <2>3. ASSUME ~raced' PROVE Resting' /\ Watching'
    BY <1>21, <2>3 DEF Bind, processRest
  <2>4. ASSUME ~raced' PROVE Joining'
    BY <1>21, <2>4 DEF Bind, processRest
  <2>. QED
    BY <2>1, <2>2, <2>3, <2>4
<1>22. ASSUME NEW p \in Pids, Crash(p) PROVE ServerInv'
  <2>1. ServerTypeOK' /\ Ours'
    BY <1>22 DEF Crash, processRest
  <2>2. ASSUME ~raced' PROVE OneOfEach' /\ Starting'
    BY <1>22, <2>2 DEF Crash, processRest
  <2>3. ASSUME ~raced' PROVE Resting' /\ Watching'
    BY <1>22, <2>3 DEF Crash, processRest
  <2>4. ASSUME ~raced' PROVE Joining'
    BY <1>22, <2>4 DEF Crash, processRest
  <2>. QED
    BY <2>1, <2>2, <2>3, <2>4
<1>23. CASE ExternalStops
  BY <1>23 DEF ExternalStops, processRest
<1>24. CASE UNCHANGED serverVars
  <2>1. UNCHANGED <<serverStatus, child, proc, external, adopted, stopEvent, loop, watcher, ui, raced>>
    BY <1>24 DEF serverVars
  <2>2. ServerTypeOK' /\ Ours'
    BY <2>1
  <2>3. ~raced => OneOfEach' /\ Starting' /\ Resting' /\ Watching' /\ Joining'
    BY <2>1
  <2>. QED
    BY <2>1, <2>2, <2>3
<1>. HIDE DEF ServerInv
<1>25. CASE UIStep
  BY <1>25, <1>2, <1>3, <1>4, <1>5, <1>6, <1>7, <1>8, <1>10, <1>11, <1>13 DEF UIStep
<1>26. ASSUME NEW l \in Loops, LoopStep(l) PROVE ServerInv'
  BY <1>26, <1>14, <1>15, <1>16, <1>17, <1>18, <1>19, <1>20 DEF LoopStep
<1>. QED
  BY <1>1, <1>9, <1>12, <1>25, <1>26, <1>21, <1>22, <1>23, <1>24 DEF ServerNext

\* What the manager would stop is all that runs, and it is watched.
THEOREM ServerProcessesExplained == ServerSpec => []ProcessesExplained
<1>1. ServerInit => ServerInv
  BY ZeroIsNone DEF ServerInit, ServerInv, ServerTypeOK, Ours, OneOfEach, Starting, Resting, Watching, Joining,
                    Unwatched, NoLoopAt, Watched, Alive
<1>2. ServerInv /\ [ServerNext]_serverVars => ServerInv'
  BY ServerStepKeeps
<1>3. ServerInv => ProcessesExplained
  <2>. SUFFICES ASSUME ServerInv, ~raced PROVE ProcessesExplained
    BY DEF ProcessesExplained
  <2>1. LiveProcesses \subseteq {child}
    BY DEF ServerInv, OneOfEach, LiveProcesses
  <2>2. LiveLoops \subseteq {watcher}
    BY DEF ServerInv, OneOfEach, LiveLoops
  <2>3. Cardinality(LiveLoops) <= 1
    <3>1. IsFiniteSet({watcher}) /\ Cardinality({watcher}) = 1
      BY FS_Singleton
    <3>. QED
      BY <2>2, <3>1, FS_Subset, FS_CardinalityType
  <2>4. ui = "idle" /\ serverStatus = "stopped" => LiveProcesses = {}
    BY <2>1, ZeroIsNone DEF ServerInv, Resting, LiveProcesses
  <2>5. ui = "idle" /\ serverStatus \in Watched \cup {"starting"} => watcher \in LiveLoops /\ ~stopEvent
    BY DEF ServerInv, Watching, LiveLoops
  <2>. QED
    BY <2>1, <2>3, <2>4, <2>5 DEF ProcessesExplained
<1>. QED
  BY <1>1, <1>2, <1>3, PTL DEF ServerSpec

-----------------------------------------------------------------------------
(***************************************************************************)
(* LastWord, for any runs, readers and numbers of tests.  What makes it    *)
(* inductive: where the task of a run is tells what it has measured        *)
(* (Measured), what its status is (StatusOf) and that it has not said how  *)
(* it ends before it does.                                                 *)
(***************************************************************************)
Before == {"none", "new", "load", "warmup", "single", "batch", "cleanup"}
Events == {"progress", "done", "upload_done", "error"}

ReaderTypeOK(r) ==
    /\ r \in [Readers -> [run : Runs \cup {NoRun}, at : {"none", "waiting", "left", "ended"}]]
    /\ \A q \in Readers : r[q].at = "waiting" => r[q].run \in Runs

BenchTypeOK ==
    /\ runStatus \in [Runs -> {"unborn", "running", "completed", "cancelled", "error"}]
    /\ phase \in [Runs -> Before \cup {"upload", "handler", "over"}]
    /\ results \in [Runs -> Nat]
    /\ queue \in [Runs -> Seq(Events)]
    /\ took \in [Runs -> Readers \cup {NoRun}]
    /\ ReaderTypeOK(reader)

Told(b) == \E i \in 1 .. Len(queue[b]) : queue[b][i] \in Terminal
TellsLast(b) == \A i \in 1 .. Len(queue[b]) : queue[b][i] \in Terminal => i = Len(queue[b])

\* How far the measuring has come where the task is.
Measured(b) ==
    /\ phase[b] \in {"none", "new", "load", "warmup"} => results[b] = 0
    /\ phase[b] = "single" => results[b] < Singles
    /\ phase[b] = "batch" => \E n \in 0 .. Batches - 1 : results[b] = Singles + 2 * n
    /\ phase[b] \in {"cleanup", "upload"} => results[b] = Tests

StatusOf(b) ==
    /\ phase[b] = "none" <=> runStatus[b] = "unborn"
    /\ phase[b] \in Before \ {"none"} => runStatus[b] = "running"
    /\ phase[b] = "upload" => runStatus[b] = "completed"
    /\ phase[b] \in {"handler", "over"} => runStatus[b] \in Finished
    /\ runStatus[b] = "completed" => results[b] = Tests

RunSound(b) ==
    /\ TellsLast(b) /\ Measured(b) /\ StatusOf(b)
    /\ phase[b] \in {"handler", "over"} <=> Told(b) \/ took[b] # NoRun

BenchInv == BenchTypeOK /\ \A b \in Runs : RunSound(b)

LEMMA BenchConstants == Singles \in Nat \ {0} /\ Batches \in Nat /\ NoRun \notin Runs /\ NoRun \notin Readers
  BY BenchmarkAssumption

\* An event goes to the end of the run's queue, or a progress event nowhere.
LEMMA SentEvent ==
  ASSUME BenchTypeOK, NEW b \in Runs, NEW event \in Events, Send(b, event)
  PROVE  /\ queue' \in [Runs -> Seq(Events)]
         /\ \A u \in Runs \ {b} : queue'[u] = queue[u]
         /\ queue'[b] = Append(queue[b], event) \/ (event = "progress" /\ queue'[b] = queue[b])
<1>1. queue \in [Runs -> Seq(Events)] /\ queue[b] \in Seq(Events) /\ Append(queue[b], event) \in Seq(Events)
  BY DEF BenchTypeOK
<1>2. \/ queue' = [queue EXCEPT ![b] = Append(queue[b], event)]
      \/ event = "progress" /\ queue' = [queue EXCEPT ![b] = queue[b]]
  BY DEF Send
<1>. QED
  BY <1>1, <1>2

\* Whether a run has said how it ends, after an event.
LEMMA SentWord ==
  ASSUME BenchTypeOK, NEW b \in Runs, NEW event \in Events, Send(b, event), ~Told(b)
  PROVE  TellsLast(b)' /\ (Told(b)' <=> event \in Terminal)
<1>1. queue[b] \in Seq(Events)
  BY DEF BenchTypeOK
<1>2. CASE queue'[b] = Append(queue[b], event)
  <2>1. /\ Len(queue'[b]) = Len(queue[b]) + 1 /\ queue'[b][Len(queue[b]) + 1] = event
        /\ \A i \in 1 .. Len(queue[b]) : queue'[b][i] = queue[b][i]
        /\ Len(queue[b]) \in Nat
    BY <1>1, <1>2
  <2>2. \A i \in 1 .. Len(queue[b]) : queue'[b][i] \notin Terminal
    BY <2>1 DEF Told
  <2>3. TellsLast(b)'
    BY <2>1, <2>2 DEF TellsLast
  <2>4. Told(b)' <=> event \in Terminal
    BY <2>1, <2>2 DEF Told
  <2>. QED
    BY <2>3, <2>4
<1>3. CASE event = "progress" /\ queue'[b] = queue[b]
  BY <1>3 DEF TellsLast, Told, Terminal
<1>. QED
  BY <1>2, <1>3, SentEvent

\* A stream is opened for a run, and ends.
LEMMA ReaderGoesOn ==
  ASSUME BenchTypeOK,
         \/ UNCHANGED reader
         \/ \E q \in Readers, b \in Runs : reader' = [reader EXCEPT ![q] = [run |-> b, at |-> "waiting"]]
         \/ \E q \in Readers, way \in {"left", "ended"} : reader' = [reader EXCEPT ![q].at = way]
  PROVE  ReaderTypeOK(reader)'
<1>. DEFINE Reading == [run : Runs \cup {NoRun}, at : {"none", "waiting", "left", "ended"}]
<1>1. reader \in [Readers -> Reading] /\ \A q \in Readers : reader[q].at = "waiting" => reader[q].run \in Runs
  BY DEF BenchTypeOK, ReaderTypeOK
<1>2. CASE UNCHANGED reader
  BY <1>1, <1>2 DEF ReaderTypeOK
<1>3. ASSUME NEW q \in Readers, NEW b \in Runs, reader' = [reader EXCEPT ![q] = [run |-> b, at |-> "waiting"]]
      PROVE  ReaderTypeOK(reader)'
  BY <1>1, <1>3 DEF ReaderTypeOK
<1>4. ASSUME NEW q \in Readers, NEW way \in {"left", "ended"}, reader' = [reader EXCEPT ![q].at = way]
      PROVE  ReaderTypeOK(reader)'
  <2>1. [reader[q] EXCEPT !.at = way] \in Reading /\ [reader[q] EXCEPT !.at = way].at = way
    BY <1>1
  <2>2. reader' = [reader EXCEPT ![q] = [reader[q] EXCEPT !.at = way]]
    BY <1>4
  <2>. QED
    BY <1>1, <2>1, <2>2 DEF ReaderTypeOK
<1>. QED
  BY <1>2, <1>3, <1>4

\* A step of one run leaves the others as they are.
LEMMA RunStep ==
  ASSUME BenchInv, NEW b \in Runs, BenchTypeOK', RunSound(b)',
         \A u \in Runs \ {b} : /\ queue'[u] = queue[u] /\ phase'[u] = phase[u] /\ results'[u] = results[u]
                               /\ runStatus'[u] = runStatus[u] /\ took'[u] = took[u]
  PROVE  BenchInv'
<1>1. ASSUME NEW u \in Runs \ {b} PROVE RunSound(u)'
  <2>1. /\ RunSound(u) /\ queue'[u] = queue[u] /\ phase'[u] = phase[u] /\ results'[u] = results[u]
        /\ runStatus'[u] = runStatus[u] /\ took'[u] = took[u]
    BY DEF BenchInv
  <2>. QED
    BY <2>1 DEF RunSound, TellsLast, Told, Measured, StatusOf
<1>. QED
  BY <1>1 DEF BenchInv

LEMMA UnloadAllKeeps == ASSUME BenchInv, NEW b \in Runs, UnloadAll(b) \/ LoadTarget(b) PROVE BenchInv'
<1>. USE BenchConstants
<1>1. /\ phase[b] \in {"new", "load"} /\ Send(b, "progress")
      /\ \E to \in {"load", "warmup"} : phase' = [phase EXCEPT ![b] = to]
      /\ UNCHANGED <<runStatus, results, reader, took>>
  BY DEF UnloadAll, LoadTarget, At
<1>2. BenchTypeOK /\ RunSound(b) /\ "progress" \in Events
  BY DEF BenchInv, Events
<1>3. BenchTypeOK'
  BY <1>1, <1>2, SentEvent DEF BenchTypeOK, Before
<1>4. phase'[b] \in {"load", "warmup"} /\ \A u \in Runs \ {b} : phase'[u] = phase[u] /\ queue'[u] = queue[u]
  BY <1>1, <1>2, SentEvent DEF BenchTypeOK
<1>5. ~Told(b) /\ took[b] = NoRun /\ results[b] = 0 /\ runStatus[b] = "running"
  BY <1>1, <1>2 DEF RunSound, Measured, StatusOf, Before
<1>6. TellsLast(b)' /\ ~Told(b)'
  BY <1>1, <1>2, <1>5, SentWord DEF Terminal
<1>7. RunSound(b)'
  BY <1>1, <1>4, <1>5, <1>6 DEF RunSound, Measured, StatusOf, Before
<1>. QED
  BY <1>1, <1>3, <1>4, <1>7, RunStep

LEMMA MeasureKeeps ==
  ASSUME BenchInv, NEW b \in Runs, WarmUp(b) \/ RunSingleTest(b) \/ RunBatchTest(b) PROVE BenchInv'
<1>. USE BenchConstants
<1>1. BenchTypeOK /\ RunSound(b) /\ "progress" \in Events /\ results[b] \in Nat
  BY DEF BenchInv, Events, BenchTypeOK
<1>2. PICK count \in {0, 1, 2} :
        /\ phase[b] = CASE count = 0 -> "warmup" [] count = 1 -> "single" [] count = 2 -> "batch"
        /\ results' = [results EXCEPT ![b] = results[b] + count] /\ Send(b, "progress")
        /\ phase' = [phase EXCEPT ![b] = IF results'[b] < Singles THEN "single"
                                         ELSE IF results'[b] < Tests THEN "batch" ELSE "cleanup"]
        /\ UNCHANGED <<runStatus, reader, took>>
  BY DEF WarmUp, RunSingleTest, RunBatchTest, Measure, At
<1>3. BenchTypeOK'
  <2>1. results' \in [Runs -> Nat] /\ phase' \in [Runs -> Before \cup {"upload", "handler", "over"}]
    BY <1>1, <1>2 DEF BenchTypeOK, Before
  <2>. QED
    BY <1>1, <1>2, <2>1, SentEvent DEF BenchTypeOK
<1>4. /\ results'[b] = results[b] + count
      /\ phase'[b] = IF results'[b] < Singles THEN "single" ELSE IF results'[b] < Tests THEN "batch" ELSE "cleanup"
      /\ \A u \in Runs \ {b} : phase'[u] = phase[u] /\ results'[u] = results[u] /\ queue'[u] = queue[u]
  BY <1>1, <1>2, SentEvent DEF BenchTypeOK
<1>5. ~Told(b) /\ took[b] = NoRun /\ runStatus[b] = "running" /\ Measured(b)
  BY <1>1, <1>2 DEF RunSound, StatusOf, Before
<1>6. TellsLast(b)' /\ ~Told(b)'
  BY <1>1, <1>2, <1>5, SentWord DEF Terminal
<1>7. Measured(b)'
  <2>1. CASE count \in {0, 1}
    <3>1. results'[b] <= Singles
      BY <1>1, <1>2, <1>4, <1>5, <2>1 DEF Measured
    <3>2. Tests = Singles + 2 * Batches
      BY DEF Tests
    <3>3. phase'[b] = "batch" => results'[b] = Singles + 2 * 0 /\ 0 \in 0 .. Batches - 1
      BY <1>1, <1>4, <3>1, <3>2
    <3>. QED
      BY <1>1, <1>4, <3>1, <3>2, <3>3 DEF Measured
  <2>2. CASE count = 2
    <3>1. PICK n \in 0 .. Batches - 1 : results[b] = Singles + 2 * n
      BY <1>2, <1>5, <2>2 DEF Measured
    <3>2. results'[b] = Singles + 2 * (n + 1)
      BY <1>4, <2>2, <3>1
    <3>3. results'[b] < Tests => n + 1 \in 0 .. Batches - 1
      BY <3>1, <3>2 DEF Tests
    <3>4. results'[b] >= Singles /\ (~(results'[b] < Tests) => results'[b] = Tests)
      BY <3>1, <3>2 DEF Tests
    <3>. QED
      BY <1>1, <1>4, <3>2, <3>3, <3>4 DEF Measured
  <2>. QED
    BY <2>1, <2>2
<1>8. RunSound(b)'
  <2>1. phase'[b] \in {"single", "batch", "cleanup"} /\ runStatus'[b] = "running" /\ took'[b] = NoRun
    BY <1>2, <1>4, <1>5
  <2>. QED
    BY <1>6, <1>7, <2>1 DEF RunSound, StatusOf, Before
<1>. QED
  BY <1>2, <1>3, <1>4, <1>8, RunStep

LEMMA CompleteKeeps == ASSUME BenchInv, NEW b \in Runs, CompleteRun(b) PROVE BenchInv'
<1>. USE BenchConstants
<1>1. /\ phase[b] = "cleanup" /\ Send(b, "done") /\ phase' = [phase EXCEPT ![b] = "upload"]
      /\ runStatus' = [runStatus EXCEPT ![b] = "completed"] /\ UNCHANGED <<results, reader, took>>
  BY DEF CompleteRun, At
<1>2. BenchTypeOK /\ RunSound(b) /\ "done" \in Events
  BY DEF BenchInv, Events
<1>3. BenchTypeOK'
  BY <1>1, <1>2, SentEvent DEF BenchTypeOK, Before
<1>4. /\ phase'[b] = "upload" /\ runStatus'[b] = "completed"
      /\ \A u \in Runs \ {b} : phase'[u] = phase[u] /\ runStatus'[u] = runStatus[u] /\ queue'[u] = queue[u]
  BY <1>1, <1>2, SentEvent DEF BenchTypeOK
<1>5. ~Told(b) /\ took[b] = NoRun /\ results[b] = Tests
  BY <1>1, <1>2 DEF RunSound, Measured
<1>6. TellsLast(b)' /\ ~Told(b)'
  BY <1>1, <1>2, <1>5, SentWord DEF Terminal
<1>7. RunSound(b)'
  BY <1>1, <1>4, <1>5, <1>6 DEF RunSound, Measured, StatusOf, Before
<1>. QED
  BY <1>1, <1>3, <1>4, <1>7, RunStep

\* The run says how it ends: after the upload, or for an exception.
LEMMA LastWordKeeps ==
  ASSUME BenchInv, NEW b \in Runs, UploadResults(b) \/ RunRaises(b) \/ RunCancelled(b) PROVE BenchInv'
<1>. USE BenchConstants
<1>1. PICK event \in {"upload_done", "error"}, how \in Finished, to \in {"handler", "over"} :
        /\ phase[b] \notin {"none", "handler", "over"} /\ Send(b, event)
        /\ phase' = [phase EXCEPT ![b] = to]
        /\ runStatus' = [runStatus EXCEPT ![b] = how]
        /\ how = "completed" => results[b] = Tests
        /\ UNCHANGED <<results, reader, took>>
  <2>1. CASE UploadResults(b)
    <3>1. runStatus' = [runStatus EXCEPT ![b] = "completed"] /\ results[b] = Tests
      BY <2>1 DEF UploadResults, BenchInv, BenchTypeOK, RunSound, StatusOf
    <3>. QED
      BY <2>1, <3>1 DEF UploadResults, Finished
  <2>2. CASE RunRaises(b) \/ RunCancelled(b)
    BY <2>2 DEF RunRaises, RunCancelled, EndInError, Measuring, Finished
  <2>. QED
    BY <2>1, <2>2
<1>2. BenchTypeOK /\ RunSound(b) /\ event \in Events /\ event \in Terminal
  BY DEF BenchInv, Events, Terminal
<1>3. BenchTypeOK'
  BY <1>1, <1>2, SentEvent DEF BenchTypeOK, Finished
<1>4. /\ phase'[b] = to /\ runStatus'[b] = how
      /\ \A u \in Runs \ {b} : phase'[u] = phase[u] /\ runStatus'[u] = runStatus[u] /\ queue'[u] = queue[u]
  BY <1>1, <1>2, SentEvent DEF BenchTypeOK
<1>5. ~Told(b)
  BY <1>1, <1>2 DEF RunSound
<1>6. TellsLast(b)' /\ Told(b)'
  BY <1>1, <1>2, <1>5, SentWord
<1>7. RunSound(b)'
  BY <1>1, <1>4, <1>6 DEF RunSound, Measured, StatusOf, Before, Finished
<1>. QED
  BY <1>1, <1>3, <1>4, <1>7, RunStep

LEMMA StartBenchmarkKeeps ==
  ASSUME BenchInv, NEW b \in Runs, NEW m \in Models, StartBenchmark(b, m) PROVE BenchInv'
<1>. USE BenchConstants
<1>1. /\ runStatus[b] = "unborn" /\ phase' = [phase EXCEPT ![b] = "new"]
      /\ runStatus' = [runStatus EXCEPT ![b] = "running"] /\ UNCHANGED <<results, queue, reader, took>>
  BY DEF StartBenchmark
<1>2. BenchTypeOK /\ RunSound(b)
  BY DEF BenchInv
<1>3. BenchTypeOK'
  BY <1>1, <1>2 DEF BenchTypeOK, Before
<1>4. /\ phase'[b] = "new" /\ runStatus'[b] = "running"
      /\ \A u \in Runs \ {b} : phase'[u] = phase[u] /\ runStatus'[u] = runStatus[u]
  BY <1>1, <1>2 DEF BenchTypeOK
<1>5. RunSound(b)'
  BY <1>1, <1>2, <1>4 DEF RunSound, Measured, StatusOf, Before, TellsLast, Told
<1>. QED
  BY <1>1, <1>3, <1>4, <1>5, RunStep

LEMMA TakeEventKeeps == ASSUME BenchInv, NEW q \in Readers, TakeEvent(q) PROVE BenchInv'
<1>. USE BenchConstants
<1>. PICK b \in Runs : reader[q].run = b
  BY DEF TakeEvent, BenchInv, BenchTypeOK, ReaderTypeOK
<1>1. /\ reader[q].run = b /\ queue[b] \in Seq(Events) /\ queue[b] # << >> /\ queue' = [queue EXCEPT ![b] = Tail(queue[b])]
      /\ UNCHANGED <<runStatus, phase, results>> /\ BenchTypeOK /\ RunSound(b)
  BY DEF TakeEvent, BenchInv, BenchTypeOK, ReaderTypeOK
<1>2. \/ /\ queue[b][1] \in Terminal /\ reader' = [reader EXCEPT ![q].at = "ended"]
         /\ took' = [took EXCEPT ![b] = q]
      \/ queue[b][1] \notin Terminal /\ UNCHANGED <<reader, took>>
  BY <1>1 DEF TakeEvent
<1>3. BenchTypeOK'
  <2>1. queue' \in [Runs -> Seq(Events)]
    BY <1>1 DEF BenchTypeOK
  <2>2. took' \in [Runs -> Readers \cup {NoRun}]
    BY <1>1, <1>2 DEF BenchTypeOK
  <2>3. ReaderTypeOK(reader)'
    BY <1>1, <1>2, ReaderGoesOn, Zenon
  <2>. QED
    BY <1>1, <2>1, <2>2, <2>3 DEF BenchTypeOK
<1>4. /\ queue'[b] = Tail(queue[b]) /\ \A u \in Runs \ {b} : queue'[u] = queue[u] /\ took'[u] = took[u]
      /\ took'[b] = IF queue[b][1] \in Terminal THEN q ELSE took[b]
  BY <1>1, <1>2 DEF BenchTypeOK
<1>5. /\ Len(queue'[b]) = Len(queue[b]) - 1 /\ Len(queue[b]) \in Nat \ {0}
      /\ \A i \in 1 .. Len(queue[b]) - 1 : queue'[b][i] = queue[b][i + 1]
  <2>1. /\ Len(queue[b]) \in Nat \ {0} /\ Len(Tail(queue[b])) = Len(queue[b]) - 1
        /\ \A i \in 1 .. Len(queue[b]) - 1 : Tail(queue[b])[i] = queue[b][i + 1]
    BY <1>1, TailItems
  <2>. QED
    BY <1>4, <2>1
<1>6. RunSound(b)'
  <2>1. TellsLast(b)'
    BY <1>1, <1>5 DEF RunSound, TellsLast
  <2>2. CASE queue[b][1] \in Terminal
    BY <1>1, <1>4, <1>5, <2>1, <2>2 DEF RunSound, Measured, StatusOf, Told
  <2>3. CASE queue[b][1] \notin Terminal
    <3>1. Told(b)' <=> Told(b)
      <4>1. ASSUME Told(b) PROVE Told(b)'
        <5>1. PICK i \in 1 .. Len(queue[b]) : queue[b][i] \in Terminal
          BY <4>1 DEF Told
        <5>2. i - 1 \in 1 .. Len(queue'[b]) /\ queue'[b][i - 1] = queue[b][i]
          BY <1>5, <2>3, <5>1
        <5>. QED
          BY <5>1, <5>2 DEF Told
      <4>2. ASSUME Told(b)' PROVE Told(b)
        BY <1>5, <4>2 DEF Told
      <4>. QED
        BY <4>1, <4>2
    <3>. QED
      BY <1>1, <1>4, <2>1, <2>3, <3>1 DEF RunSound, Measured, StatusOf
  <2>. QED
    BY <2>2, <2>3
<1>. QED
  BY <1>1, <1>3, <1>4, <1>6, RunStep

\* The rest of the steps say nothing and measure nothing.
LEMMA QuietStep ==
  ASSUME BenchInv,
         \/ UNCHANGED benchVars
         \/ \E b \in Runs : CancelBenchmark(b) \/ \E q \in Readers : StreamBenchmark(q, b)
         \/ \E q \in Readers : LeaveStream(q)
         \/ \E m \in Models : UserLoads(m)
  PROVE  BenchInv'
<1>1. UNCHANGED <<runStatus, phase, results, queue, took>>
  BY DEF benchVars, CancelBenchmark, StreamBenchmark, LeaveStream, UserLoads
<1>2. \/ UNCHANGED reader
      \/ \E q \in Readers, b \in Runs : reader' = [reader EXCEPT ![q] = [run |-> b, at |-> "waiting"]]
      \/ \E q \in Readers : reader' = [reader EXCEPT ![q].at = "left"]
  BY DEF benchVars, CancelBenchmark, StreamBenchmark, LeaveStream, UserLoads
<1>3. ReaderTypeOK(reader)'
  BY <1>2, ReaderGoesOn, Zenon DEF BenchInv
<1>4. BenchTypeOK'
  BY <1>1, <1>3 DEF BenchInv, BenchTypeOK
<1>5. ASSUME NEW b \in Runs PROVE RunSound(b)'
  BY <1>1 DEF BenchInv, RunSound, TellsLast, Told, Measured, StatusOf
<1>. QED
  BY <1>4, <1>5 DEF BenchInv

LEMMA UnloadAfterErrorKeeps == ASSUME BenchInv, NEW b \in Runs, UnloadAfterError(b) PROVE BenchInv'
<1>1. /\ phase[b] = "handler" /\ phase' = [phase EXCEPT ![b] = "over"]
      /\ UNCHANGED <<runStatus, results, queue, reader, took>>
  BY DEF UnloadAfterError
<1>2. BenchTypeOK /\ RunSound(b)
  BY DEF BenchInv
<1>3. BenchTypeOK' /\ phase'[b] = "over" /\ \A u \in Runs \ {b} : phase'[u] = phase[u]
  BY <1>1, <1>2 DEF BenchTypeOK
<1>4. RunSound(b)'
  BY <1>1, <1>2, <1>3 DEF RunSound, Measured, StatusOf, Before, TellsLast, Told
<1>. QED
  BY <1>1, <1>3, <1>4, RunStep

\* A run says how it ends once, last, and before it is over.
THEOREM BenchmarkLastWord == BenchSpec => []LastWord
<1>. USE BenchConstants
<1>1. BenchInit => BenchInv
  <2>. SUFFICES ASSUME BenchInit PROVE BenchInv
    OBVIOUS
  <2>1. BenchTypeOK
    BY DEF BenchInit, BenchTypeOK, ReaderTypeOK, Before
  <2>2. ASSUME NEW b \in Runs PROVE RunSound(b)
    <3>1. /\ queue[b] = << >> /\ runStatus[b] = "unborn" /\ phase[b] = "none" /\ results[b] = 0 /\ took[b] = NoRun
      BY DEF BenchInit
    <3>. QED
      BY <3>1 DEF RunSound, TellsLast, Told, Measured, StatusOf, Before
  <2>. QED
    BY <2>1, <2>2 DEF BenchInv
<1>2. BenchInv /\ [BenchNext]_benchVars => BenchInv'
  <2>. SUFFICES ASSUME BenchInv, [BenchNext]_benchVars PROVE BenchInv'
    OBVIOUS
  <2>1. ASSUME NEW b \in Runs, TaskStep(b) \/ RunRaises(b) PROVE BenchInv'
    BY <2>1, UnloadAllKeeps, MeasureKeeps, CompleteKeeps, LastWordKeeps, UnloadAfterErrorKeeps DEF TaskStep
  <2>2. ASSUME NEW b \in Runs, NEW m \in Models, StartBenchmark(b, m) PROVE BenchInv'
    BY <2>2, StartBenchmarkKeeps
  <2>3. ASSUME NEW q \in Readers, TakeEvent(q) PROVE BenchInv'
    BY <2>3, TakeEventKeeps
  <2>. QED
    BY <2>1, <2>2, <2>3, QuietStep DEF BenchNext
<1>3. BenchInv => LastWord
  <2>. SUFFICES ASSUME BenchInv, NEW b \in Runs
                PROVE  /\ {i \in DOMAIN queue[b] : queue[b][i] \in Terminal} \subseteq {Len(queue[b])}
                       /\ phase[b] \in {"handler", "over"} <=>
                            {i \in DOMAIN queue[b] : queue[b][i] \in Terminal} # {} \/ took[b] # NoRun
                       /\ phase[b] = "over" => runStatus[b] \in Finished
                       /\ runStatus[b] = "completed" => results[b] = Tests
    BY DEF LastWord
  <2>1. DOMAIN queue[b] = 1 .. Len(queue[b])
    BY DEF BenchInv, BenchTypeOK
  <2>2. RunSound(b)
    BY DEF BenchInv
  <2>3. {i \in DOMAIN queue[b] : queue[b][i] \in Terminal} # {} <=> Told(b)
    BY <2>1 DEF Told
  <2>. QED
    BY <2>1, <2>2, <2>3 DEF RunSound, TellsLast, StatusOf
<1>. QED
  BY <1>1, <1>2, <1>3, PTL DEF BenchSpec

-----------------------------------------------------------------------------
(***************************************************************************)
(* SettingsAgree holds for any updates, overrides and drives.              *)
(*                                                                         *)
(* SettingsInv adds what the file is worth to the next start, which the    *)
(* property says nothing of (FileKept), that no session is signed with a   *)
(* secret that was not made (SecretMade), and where an update that waits   *)
(* stands (UpdatesWait).                                                   *)
(***************************************************************************)
IsSettings(s) == DOMAIN s = {"host", "key", "skip", "subs", "dirs", "tuning", "limit", "secret"}

\* A file that can be read has the keys that were granted, the secret of the
\* sessions and a host that goes with its exception, with or without a server.
FileKept ==
    Readable =>
        /\ IsSettings(settingsFile)
        /\ settingsFile.subs = granted
        /\ sessions \subseteq {settingsFile.secret} \ {0}
        /\ settingsFile.skip => settingsFile.host = "local" \/ overridden
        /\ up => settingsFile.secret = settings.secret

SecretMade == up => settings.secret # 0 /\ sessions \subseteq {settings.secret}

\* The enforcer is stopped by an update that turned the limit off, and whoever
\* set one since is in the account.
UpdatesWait ==
    \A u \in Edits :
        /\ edit[u].at = "unloading" => Sent(edit[u].req, "dirs")
        /\ edit[u].at = "limiting" => Sent(edit[u].req, "limit")
        /\ edit[u].at = "stopping" => up /\ (settings.limit = "off" \/ "stopped" \in drift)

SettingsTypeOK ==
    /\ IsSettings(settings)
    /\ starts \in Nat
    /\ DOMAIN edit = Edits
    /\ \A u \in Edits : DOMAIN edit[u] = {"at", "req"}
    /\ DOMAIN enforcer = {"limit", "ttl"}

SettingsInv ==
    /\ SettingsTypeOK /\ FileKept /\ SecretMade /\ UpdatesWait
    /\ ServerFollowsSettings /\ SubKeysExact /\ SavedIsCurrent
    /\ SkipOnlyLocal /\ PoolFollowsSettings /\ EnforcerFollowsSettings

\* ensure_directories changes the directories only, and only to ones that are there.
LEMMA EnsuredFields ==
  ASSUME NEW s, IsSettings(s)
  PROVE  /\ IsSettings(Ensured(s))
         /\ Ensured(s).dirs = Effective(s.dirs) \ detached
         /\ \A f \in DOMAIN s \ {"dirs"} : Ensured(s)[f] = s[f]
         /\ Ensured(s).host = s.host /\ Ensured(s).key = s.key /\ Ensured(s).skip = s.skip
         /\ Ensured(s).subs = s.subs /\ Ensured(s).tuning = s.tuning
         /\ Ensured(s).limit = s.limit /\ Ensured(s).secret = s.secret
  BY DEF IsSettings, Ensured

\* Directories that all remain stand for themselves.
LEMMA EffectiveTwice ==
  ASSUME NEW dirs PROVE Effective(Effective(dirs)) = Effective(dirs)
  BY DEF Effective

LEMMA SaveEnds ==
  ASSUME NEW s, NEW old, NEW outcome \in SaveOutcomes(s, old)
  PROVE  IF outcome.ok THEN outcome.file = s ELSE outcome.file \in {Torn, old}
  BY DEF SaveOutcomes

\* No value from the command line or the environment is a sub key, the secret
\* of the sessions or the exception for localhost.
LEMMA LoadedFields ==
  ASSUME NEW env \in Overrides, NEW cli \in Overrides, Readable => IsSettings(settingsFile)
  PROVE  LET base == IF Readable THEN settingsFile ELSE Defaults
             s    == Loaded(env, cli)
         IN  /\ IsSettings(s)
             /\ s.subs = base.subs /\ s.secret = base.secret /\ s.skip = base.skip
             /\ s.host = base.host \/ Sent(env, "host") \/ Sent(cli, "host")
<1> DEFINE base == IF Readable THEN settingsFile ELSE Defaults
<1>1. IsSettings(base)
  BY DEF IsSettings, Defaults
<1>2. /\ "subs" \notin DOMAIN env /\ "secret" \notin DOMAIN env /\ "skip" \notin DOMAIN env
      /\ "subs" \notin DOMAIN cli /\ "secret" \notin DOMAIN cli /\ "skip" \notin DOMAIN cli
  BY AdminSettingsAssumption DEF AdminSettingsAssumption
<1>3. Loaded(env, cli) = Overlay(Overlay(base, env), cli)
  BY DEF Loaded
<1> HIDE DEF base
<1>4. ASSUME NEW s, IsSettings(s), NEW o
      PROVE  /\ IsSettings(Overlay(s, o))
             /\ \A f \in DOMAIN s : f \notin DOMAIN o => Overlay(s, o)[f] = s[f]
  BY <1>4 DEF IsSettings, Overlay, Sent
<1>5. /\ IsSettings(Overlay(base, env))
      /\ \A f \in DOMAIN base : f \notin DOMAIN env => Overlay(base, env)[f] = base[f]
  BY <1>1, <1>4
<1>6. /\ IsSettings(Loaded(env, cli))
      /\ \A f \in DOMAIN base : f \notin DOMAIN cli => Loaded(env, cli)[f] = Overlay(base, env)[f]
  <2>1. DOMAIN Overlay(base, env) = DOMAIN base
    BY <1>1, <1>5 DEF IsSettings
  <2>. QED
    BY <1>3, <1>4, <1>5, <2>1
<1>7. \A f \in DOMAIN base : f \notin DOMAIN env /\ f \notin DOMAIN cli => Loaded(env, cli)[f] = base[f]
  BY <1>5, <1>6
<1>8. {"host", "subs", "secret", "skip"} \subseteq DOMAIN base
  BY <1>1 DEF IsSettings
<1>. QED
  BY <1>2, <1>6, <1>7, <1>8 DEF Sent, base

\* After a save that counts, whether it succeeds or not.
LEMMA SavedFile ==
  ASSUME SettingsInv, up, NEW s, IsSettings(s), s.secret = settings.secret,
         s.skip => s.host = "local" \/ overridden,
         NEW outcome, SaveOf(s, outcome),
         outcome.ok => granted' = s.subs, ~outcome.ok => granted' = granted,
         sessions' \subseteq sessions \cup {settings.secret},
         settings'.secret = settings.secret, UNCHANGED <<up, overridden>>
  PROVE  FileKept' /\ SecretMade'
<1>1. /\ outcome \in SaveOutcomes(Ensured(s), settingsFile)
      /\ settingsFile' = outcome.file
  BY DEF SaveOf
<1>2. IF outcome.ok THEN settingsFile' = Ensured(s) ELSE settingsFile' \in {Torn, settingsFile}
  BY <1>1, SaveEnds
<1>3. FileKept /\ SecretMade
  BY DEF SettingsInv
<1>4. SecretMade'
  BY <1>3 DEF SecretMade
<1>5. /\ settings'.secret # 0
      /\ sessions' \subseteq {settings.secret} \ {0}
  BY <1>3 DEF SecretMade
<1>6. CASE outcome.ok
  BY <1>2, <1>4, <1>5, <1>6, EnsuredFields DEF FileKept
<1>7. CASE ~outcome.ok
  BY <1>2, <1>3, <1>4, <1>5, <1>7 DEF FileKept, Readable
<1>. QED
  BY <1>6, <1>7

LEMMA SavedDirs ==
  ASSUME PoolFollowsSettings, up, NEW s, IsSettings(s), s.dirs = settings.dirs,
         NEW outcome, SaveOf(s, outcome), settings'.dirs = Ensured(s).dirs, UNCHANGED scanned
  PROVE  PoolFollowsSettings' /\ drift \subseteq drift'
<1>1. drift' = IF Ensured(s).dirs = Effective(s.dirs) THEN drift ELSE drift \cup {"dropped"}
  BY DEF SaveOf
<1>2. CASE Ensured(s).dirs = Effective(s.dirs)
  BY <1>1, <1>2, EffectiveTwice DEF PoolFollowsSettings
<1>3. CASE Ensured(s).dirs # Effective(s.dirs)
  BY <1>1, <1>3 DEF PoolFollowsSettings
<1>. QED
  BY <1>2, <1>3

LEMMA LimitStays ==
  ASSUME EnforcerFollowsSettings, UpdatesWait, settings'.limit = settings.limit,
         drift \subseteq drift', UNCHANGED <<edit, enforcer, up>>
  PROVE  EnforcerFollowsSettings' /\ UpdatesWait'
  BY DEF EnforcerFollowsSettings, UpdatesWait

LEMMA ServeKeeps ==
  ASSUME SettingsInv, NEW env \in Overrides, NEW cli \in Overrides, ServeCommand(env, cli)
  PROVE  SettingsInv'
<1> DEFINE base     == IF Readable THEN settingsFile ELSE Defaults
           first    == Ensured(Loaded(env, cli))
           needs    == first.secret = 0
           running  == IF needs THEN [first EXCEPT !.secret = starts + 1] ELSE first
           asItWas  == [file |-> settingsFile, ok |-> TRUE]
           cliSaves == IF DOMAIN cli = {} THEN {asItWas} ELSE SaveOutcomes(first, settingsFile)
<1>1. SettingsTypeOK /\ FileKept /\ UpdatesWait /\ ~up
  BY DEF SettingsInv, ServeCommand
<1>2. /\ IsSettings(first)
      /\ first.subs = base.subs /\ first.secret = base.secret /\ first.skip = base.skip
      /\ first.host = base.host \/ overridden'
  <2>1. Readable => IsSettings(settingsFile)
    BY <1>1 DEF FileKept
  <2>2. /\ IsSettings(Loaded(env, cli))
        /\ Loaded(env, cli).subs = base.subs /\ Loaded(env, cli).secret = base.secret
        /\ Loaded(env, cli).skip = base.skip
        /\ Loaded(env, cli).host = base.host \/ Sent(env, "host") \/ Sent(cli, "host")
    BY <2>1, LoadedFields
  <2>3. overridden' = (overridden \/ Sent(env, "host") \/ Sent(cli, "host"))
    BY DEF ServeCommand
  <2>. QED
    BY <2>2, <2>3, EnsuredFields
<1>3. /\ granted' = base.subs
      /\ sessions' \subseteq {base.secret} \ {0}
      /\ base.skip => base.host = "local" \/ overridden'
  BY <1>1 DEF ServeCommand, FileKept, Defaults
<1>4. PICK saved \in cliSaves :
        \E last \in IF needs /\ Valid(first) THEN SaveOutcomes(running, saved.file) ELSE {saved} :
          /\ settingsFile' = last.file
          /\ up' = (Valid(first) /\ (needs => last.ok))
          /\ unsaved' = (last.file # running)
  BY DEF ServeCommand
<1>5. PICK last \in IF needs /\ Valid(first) THEN SaveOutcomes(running, saved.file) ELSE {saved} :
          /\ settingsFile' = last.file
          /\ up' = (Valid(first) /\ (needs => last.ok))
          /\ unsaved' = (last.file # running)
  BY <1>4
<1>6. /\ settings' = running /\ apiKey' = running.key /\ sampling' = running.tuning
      /\ scanned' = Effective(running.dirs)
      /\ enforcer' = [limit |-> running.limit, ttl |-> running.limit # "off"]
      /\ starts' = starts + 1 /\ drift' = {} /\ edit' = edit
  BY DEF ServeCommand
<1> HIDE DEF base, first
<1>7. /\ IsSettings(running)
      /\ running.subs = first.subs /\ running.skip = first.skip /\ running.host = first.host
      /\ running.secret = IF needs THEN starts + 1 ELSE first.secret
  BY <1>2 DEF IsSettings
<1> HIDE DEF running
<1>8. settingsFile' \in {running, first, Torn, settingsFile}
  <2>1. saved.file \in {first, Torn, settingsFile}
    <3>1. CASE DOMAIN cli = {}
      BY <3>1
    <3>2. CASE DOMAIN cli # {}
      BY <3>2, SaveEnds
    <3>. QED
      BY <3>1, <3>2
  <2>2. CASE needs /\ Valid(first)
    BY <1>5, <2>1, <2>2, SaveEnds
  <2>3. CASE ~(needs /\ Valid(first))
    BY <1>5, <2>1, <2>3
  <2>. QED
    BY <2>2, <2>3
<1>9. up' /\ needs => settingsFile' = running
  <2>. SUFFICES ASSUME up', needs PROVE settingsFile' = running
    OBVIOUS
  <2>1. Valid(first) /\ last.ok
    BY <1>5
  <2>2. last \in SaveOutcomes(running, saved.file)
    BY <1>5, <2>1
  <2>. QED
    BY <1>5, <2>1, <2>2, SaveEnds
<1>10. SettingsTypeOK'
  BY <1>1, <1>6, <1>7 DEF SettingsTypeOK
<1>11. SecretMade'
  <2>1. running.secret # 0
    BY <1>1, <1>7 DEF SettingsTypeOK
  <2>2. base.secret # 0 => running.secret = base.secret
    BY <1>2, <1>7
  <2>. QED
    BY <1>3, <1>6, <2>1, <2>2 DEF SecretMade
<1>12. FileKept'
  <2>. SUFFICES ASSUME Readable' PROVE FileKept'
    BY DEF FileKept
  <2>1. CASE settingsFile' = running
    <3>1. sessions' \subseteq {running.secret} \ {0}
      BY <1>2, <1>3, <1>7
    <3>. QED
      BY <1>2, <1>3, <1>6, <1>7, <2>1, <3>1 DEF FileKept
  <2>2. CASE settingsFile' # running
    <3>1. up' => ~needs
      BY <1>9, <2>2
    <3>2. up' => settings' = first
      BY <1>6, <3>1 DEF running
    <3>3. CASE settingsFile' = first
      BY <1>2, <1>3, <3>2, <3>3 DEF FileKept
    <3>4. CASE settingsFile' = settingsFile
      <4>1. Readable /\ base = settingsFile
        BY <3>4 DEF Readable, base
      <4>. QED
        BY <1>1, <1>2, <1>3, <3>2, <3>4, <4>1 DEF FileKept
    <3>5. settingsFile' # Torn
      BY DEF Readable
    <3>. QED
      BY <1>8, <2>2, <3>3, <3>4, <3>5
  <2>. QED
    BY <2>1, <2>2
<1>13. UpdatesWait'
  BY <1>1, <1>6 DEF UpdatesWait
<1>14. ServerFollowsSettings' /\ SubKeysExact' /\ SavedIsCurrent' /\ SkipOnlyLocal'
  BY <1>2, <1>3, <1>5, <1>6, <1>7 DEF ServerFollowsSettings, SubKeysExact, SavedIsCurrent, SkipOnlyLocal
<1>15. PoolFollowsSettings' /\ EnforcerFollowsSettings'
  BY <1>6 DEF PoolFollowsSettings, EnforcerFollowsSettings
<1>. QED
  BY <1>10, <1>11, <1>12, <1>13, <1>14, <1>15 DEF SettingsInv

LEMMA SetupKeeps ==
  ASSUME SettingsInv, NEW k, SetupApiKey(k)
  PROVE  SettingsInv'
<1> DEFINE s == [settings EXCEPT !.key = k]
<1>1. /\ up /\ settings' = Ensured(s) /\ apiKey' = k
      /\ UNCHANGED <<sampling, scanned, enforcer, edit, up, starts, granted, overridden>>
  BY DEF SetupApiKey
<1>2. PICK outcome \in SaveOutcomes(Ensured(s), settingsFile) :
         /\ SaveOf(s, outcome)
         /\ sessions' = IF outcome.ok THEN sessions \cup {settings.secret} ELSE sessions
         /\ unsaved' = ~outcome.ok
  BY DEF SetupApiKey
<1>3. /\ IsSettings(s) /\ s.key = k /\ s.subs = settings.subs /\ s.secret = settings.secret
      /\ s.skip = settings.skip /\ s.host = settings.host /\ s.dirs = settings.dirs
      /\ s.tuning = settings.tuning /\ s.limit = settings.limit
  BY DEF SettingsInv, SettingsTypeOK, IsSettings
<1> HIDE DEF s
<1>4. SettingsTypeOK'
  BY <1>1, <1>3, EnsuredFields DEF SettingsInv, SettingsTypeOK
<1>5. FileKept' /\ SecretMade'
  BY <1>1, <1>2, <1>3, EnsuredFields, SavedFile DEF SettingsInv, SubKeysExact, SkipOnlyLocal
<1>6. PoolFollowsSettings' /\ drift \subseteq drift'
  BY <1>1, <1>2, <1>3, SavedDirs DEF SettingsInv
<1>7. UpdatesWait' /\ EnforcerFollowsSettings'
  BY <1>1, <1>3, <1>6, EnsuredFields, LimitStays DEF SettingsInv
<1>8. ServerFollowsSettings' /\ SubKeysExact' /\ SkipOnlyLocal'
  BY <1>1, <1>3, EnsuredFields DEF SettingsInv, ServerFollowsSettings, SubKeysExact, SkipOnlyLocal
<1>9. SavedIsCurrent'
  BY <1>1, <1>2, SaveEnds DEF SavedIsCurrent, SaveOf
<1>. QED
  BY <1>4, <1>5, <1>6, <1>7, <1>8, <1>9 DEF SettingsInv

\* Creating and deleting a sub key: memory is taken back when the save fails.
LEMMA SubKeysKeep ==
  ASSUME SettingsInv, up, NEW subs,
         NEW outcome, SaveOf([settings EXCEPT !.subs = subs], outcome),
         granted' = IF outcome.ok THEN subs ELSE granted,
         unsaved' = (~outcome.ok /\ (unsaved \/ Ensured(settings) # settings)),
         settings' = Ensured(IF outcome.ok THEN [settings EXCEPT !.subs = subs] ELSE settings),
         UNCHANGED <<apiKey, sampling, scanned, enforcer, edit, sessions, up, starts, overridden>>
  PROVE  SettingsInv'
<1> DEFINE s == [settings EXCEPT !.subs = subs]
<1>1. /\ IsSettings(settings)
      /\ IsSettings(s) /\ s.key = settings.key /\ s.subs = subs /\ s.secret = settings.secret
      /\ s.skip = settings.skip /\ s.host = settings.host /\ s.dirs = settings.dirs
      /\ s.tuning = settings.tuning /\ s.limit = settings.limit
  BY DEF SettingsInv, SettingsTypeOK, IsSettings
<1>2. SaveOf(s, outcome)
  OBVIOUS
<1>3. settings' = Ensured(IF outcome.ok THEN s ELSE settings)
  OBVIOUS
<1> HIDE DEF s
<1>4. /\ IsSettings(settings') /\ settings'.key = settings.key /\ settings'.subs = granted'
      /\ settings'.secret = settings.secret /\ settings'.skip = settings.skip
      /\ settings'.host = settings.host /\ settings'.tuning = settings.tuning
      /\ settings'.limit = settings.limit /\ settings'.dirs = Ensured(s).dirs
  <2>1. settings.subs = granted
    BY DEF SettingsInv, SubKeysExact
  <2>2. PICK t : t = IF outcome.ok THEN s ELSE settings
    OBVIOUS
  <2>3. /\ IsSettings(t) /\ t.key = settings.key /\ t.subs = granted' /\ t.secret = settings.secret
        /\ t.skip = settings.skip /\ t.host = settings.host /\ t.dirs = s.dirs
        /\ t.tuning = settings.tuning /\ t.limit = settings.limit
    BY <1>1, <2>1, <2>2
  <2>4. settings' = Ensured(t)
    BY <1>3, <2>2
  <2>5. Ensured(s).dirs = Effective(s.dirs) \ detached
    BY <1>1, EnsuredFields
  <2>6. /\ IsSettings(Ensured(t)) /\ Ensured(t).dirs = Effective(t.dirs) \ detached
        /\ Ensured(t).host = t.host /\ Ensured(t).key = t.key /\ Ensured(t).skip = t.skip
        /\ Ensured(t).subs = t.subs /\ Ensured(t).tuning = t.tuning
        /\ Ensured(t).limit = t.limit /\ Ensured(t).secret = t.secret
    BY <2>3, EnsuredFields
  <2>. QED
    BY <2>3, <2>4, <2>5, <2>6
<1>5. SettingsTypeOK'
  BY <1>4 DEF SettingsInv, SettingsTypeOK
<1>6. FileKept' /\ SecretMade'
  BY <1>1, <1>2, <1>4, SavedFile DEF SettingsInv, SkipOnlyLocal
<1>7. PoolFollowsSettings' /\ drift \subseteq drift'
  BY <1>1, <1>2, <1>4, SavedDirs DEF SettingsInv
<1>8. UpdatesWait' /\ EnforcerFollowsSettings'
  BY <1>4, <1>7, LimitStays DEF SettingsInv
<1>9. ServerFollowsSettings' /\ SubKeysExact' /\ SkipOnlyLocal'
  BY <1>4 DEF SettingsInv, ServerFollowsSettings, SubKeysExact, SkipOnlyLocal
<1>10. SavedIsCurrent'
  <2>1. IF outcome.ok THEN settingsFile' = Ensured(s) ELSE settingsFile' \in {Torn, settingsFile}
    BY <1>2, SaveEnds DEF SaveOf
  <2>2. CASE outcome.ok
    BY <1>3, <2>1, <2>2 DEF SavedIsCurrent
  <2>3. CASE ~outcome.ok
    BY <1>3, <2>1, <2>3 DEF SavedIsCurrent, SettingsInv, Readable
  <2>. QED
    BY <2>2, <2>3
<1>. QED
  BY <1>5, <1>6, <1>7, <1>8, <1>9, <1>10 DEF SettingsInv

LEMMA CreateKeeps ==
  ASSUME SettingsInv, NEW k, CreateSubKey(k) PROVE SettingsInv'
<1>1. settings.subs = granted /\ up
  BY DEF SettingsInv, CreateSubKey, Admin, SubKeysExact
<1>2. [settings EXCEPT !.subs = @ \cup {k}] = [settings EXCEPT !.subs = settings.subs \cup {k}]
  OBVIOUS
<1>. QED
  BY <1>1, <1>2, SubKeysKeep, Zenon DEF CreateSubKey

LEMMA DeleteKeeps ==
  ASSUME SettingsInv, NEW k, DeleteSubKey(k) PROVE SettingsInv'
<1>1. settings.subs = granted /\ up
  BY DEF SettingsInv, DeleteSubKey, Admin, SubKeysExact
<1>2. [settings EXCEPT !.subs = @ \ {k}] = [settings EXCEPT !.subs = settings.subs \ {k}]
  OBVIOUS
<1>. QED
  BY <1>1, <1>2, SubKeysKeep, Zenon DEF DeleteSubKey

LEMMA BeginUpdateKeeps ==
  ASSUME SettingsInv, NEW u \in Edits, NEW req \in EditRequests, BeginUpdate(u, req)
  PROVE  SettingsInv'
<1>1. /\ up
      /\ UNCHANGED <<settingsFile, apiKey, sampling, scanned, enforcer, sessions, up, starts, granted,
                     overridden, drift>>
      /\ unsaved' = (unsaved \/ settings' # settings)
  BY DEF BeginUpdate, Admin
<1>2. PICK place : /\ edit' = [edit EXCEPT ![u] = [at |-> place, req |-> req]]
                   /\ place \in {"over", "unloading", "limiting", "applying"}
                   /\ place = "unloading" => Sent(req, "dirs")
                   /\ place = "limiting" => Sent(req, "limit")
  <2> DEFINE newDirs == Sent(req, "dirs") /\ req.dirs # settings.dirs
             missing == newDirs /\ req.dirs \cap detached # {}
             place == CASE missing -> "over" [] newDirs -> "unloading" [] OTHER -> AfterDirs(req)
  <2>1. edit' = [edit EXCEPT ![u] = [at |-> place, req |-> req]]
    BY DEF BeginUpdate
  <2>2. /\ place \in {"over", "unloading", "limiting", "applying"}
        /\ place = "unloading" => Sent(req, "dirs")
        /\ place = "limiting" => Sent(req, "limit")
    <3>1. CASE missing
      BY <3>1
    <3>2. CASE newDirs /\ ~missing
      BY <3>2
    <3>3. CASE ~newDirs /\ ~missing
      <4>1. place = AfterDirs(req)
        BY <3>3
      <4> HIDE DEF place
      <4>. QED
        BY <4>1 DEF AfterDirs
    <3>. QED
      BY <3>1, <3>2, <3>3
  <2> HIDE DEF place
  <2>. QED
    BY <2>1, <2>2
<1>3. edit[u].at = "unused" /\ DOMAIN edit = Edits
  BY DEF BeginUpdate, SettingsInv, SettingsTypeOK
<1>4. /\ edit'[u] = [at |-> place, req |-> req]
      /\ \A v \in Edits \ {u} : edit'[v] = edit[v]
      /\ DOMAIN edit' = Edits
  BY <1>2, <1>3
<1>5. /\ IsSettings(settings') /\ settings'.key = settings.key /\ settings'.subs = settings.subs
      /\ settings'.secret = settings.secret /\ settings'.tuning = settings.tuning
      /\ settings'.limit = settings.limit /\ settings'.dirs = settings.dirs
      /\ settings'.skip => settings'.host = "local" \/ overridden
  <2>1. settings' = IF Sent(req, "host")
                    THEN [settings EXCEPT !.host = req.host, !.skip = @ /\ req.host = "local"]
                    ELSE settings
    BY DEF BeginUpdate
  <2>2. IsSettings(settings) /\ (settings.skip => settings.host = "local" \/ overridden)
    BY DEF SettingsInv, SettingsTypeOK, SkipOnlyLocal
  <2>. QED
    BY <2>1, <2>2 DEF IsSettings
<1>6. SettingsTypeOK'
  BY <1>1, <1>4, <1>5 DEF SettingsInv, SettingsTypeOK
<1>7. FileKept' /\ SecretMade'
  BY <1>1, <1>5 DEF SettingsInv, FileKept, SecretMade, Readable
<1>8. UpdatesWait'
  BY <1>1, <1>2, <1>4, <1>5 DEF SettingsInv, UpdatesWait
<1>9. EnforcerFollowsSettings'
  BY <1>1, <1>3, <1>4, <1>5 DEF SettingsInv, EnforcerFollowsSettings
<1>10. ServerFollowsSettings' /\ SubKeysExact' /\ SkipOnlyLocal' /\ PoolFollowsSettings'
  BY <1>1, <1>5 DEF SettingsInv, ServerFollowsSettings, SubKeysExact, SkipOnlyLocal, PoolFollowsSettings
<1>11. SavedIsCurrent'
  BY <1>1 DEF SettingsInv, SavedIsCurrent, Readable
<1>. QED
  BY <1>6, <1>7, <1>8, <1>9, <1>10, <1>11 DEF SettingsInv

\* An update goes on to another place.
LEMMA StageAt ==
  ASSUME SettingsTypeOK, NEW u \in Edits, NEW place, Stage(u, place)
  PROVE  /\ DOMAIN edit' = Edits /\ edit'[u].at = place /\ edit'[u].req = edit[u].req
         /\ \A v \in Edits \ {u} : edit'[v] = edit[v]
         /\ \A v \in Edits : DOMAIN edit'[v] = {"at", "req"}
  BY DEF SettingsTypeOK, Stage

LEMMA ApplyDirsKeeps ==
  ASSUME SettingsInv, NEW u \in Edits, ApplyModelDirs(u)
  PROVE  SettingsInv'
<1> DEFINE dirs == edit[u].req.dirs
<1>1. /\ up /\ edit[u].at = "unloading"
      /\ UNCHANGED <<settingsFile, apiKey, sampling, enforcer, sessions, up, starts, granted, overridden>>
  BY DEF ApplyModelDirs
<1>2. PICK place : Stage(u, place) /\ (place = "limiting" => Sent(edit[u].req, "limit"))
                /\ place \in {"over", "limiting", "applying"}
  BY DEF ApplyModelDirs, AfterDirs
<1>3. /\ DOMAIN edit' = Edits /\ edit'[u].at = place /\ edit'[u].req = edit[u].req
      /\ \A v \in Edits \ {u} : edit'[v] = edit[v]
      /\ \A v \in Edits : DOMAIN edit'[v] = {"at", "req"}
  BY <1>2, StageAt DEF SettingsInv
<1>4. /\ IsSettings(settings') /\ settings'.key = settings.key /\ settings'.subs = settings.subs
      /\ settings'.secret = settings.secret /\ settings'.tuning = settings.tuning
      /\ settings'.limit = settings.limit /\ settings'.skip = settings.skip
      /\ settings'.host = settings.host
  BY DEF ApplyModelDirs, SettingsInv, SettingsTypeOK, IsSettings
<1>5. "stopped" \in drift => "stopped" \in drift'
  BY DEF ApplyModelDirs
<1>6. SettingsTypeOK'
  BY <1>1, <1>3, <1>4 DEF SettingsInv, SettingsTypeOK
<1>7. FileKept' /\ SecretMade'
  BY <1>1, <1>4 DEF SettingsInv, FileKept, SecretMade, Readable
<1>8. UpdatesWait'
  BY <1>1, <1>2, <1>3, <1>4, <1>5 DEF SettingsInv, UpdatesWait
<1>9. EnforcerFollowsSettings'
  BY <1>1, <1>3, <1>4, <1>5 DEF SettingsInv, EnforcerFollowsSettings
<1>10. ServerFollowsSettings' /\ SubKeysExact' /\ SkipOnlyLocal'
  BY <1>1, <1>4 DEF SettingsInv, ServerFollowsSettings, SubKeysExact, SkipOnlyLocal
<1>11. SavedIsCurrent'
  BY <1>1 DEF ApplyModelDirs, SettingsInv, SavedIsCurrent, Readable
<1>12. PoolFollowsSettings'
  <2>1. CASE "failed" \in drift' \/ "emptied" \in drift'
    BY <2>1 DEF PoolFollowsSettings
  <2>2. CASE ~("failed" \in drift' \/ "emptied" \in drift')
    <3>1. scanned' = dirs /\ dirs # {} /\ settings' = [settings EXCEPT !.dirs = dirs]
      BY <2>2 DEF ApplyModelDirs
    <3>2. settings'.dirs = dirs
      BY <3>1 DEF SettingsInv, SettingsTypeOK, IsSettings
    <3>. QED
      BY <3>1, <3>2 DEF PoolFollowsSettings, Effective
  <2>. QED
    BY <2>1, <2>2
<1>. QED
  BY <1>6, <1>7, <1>8, <1>9, <1>10, <1>11, <1>12 DEF SettingsInv

LEMMA ApplyLimitKeeps ==
  ASSUME SettingsInv, NEW u \in Edits, ApplyLimit(u)
  PROVE  SettingsInv'
<1> DEFINE limit == edit[u].req.limit
           place == IF limit = "off" /\ enforcer.limit # "off" THEN "stopping" ELSE "applying"
<1>1. /\ up /\ edit[u].at = "limiting"
      /\ UNCHANGED <<settingsFile, apiKey, sampling, scanned, sessions, up, starts, granted, overridden>>
      /\ unsaved' = TRUE
  BY DEF ApplyLimit
<1>2. Stage(u, place)
  BY DEF ApplyLimit
<1>3. /\ DOMAIN edit' = Edits /\ edit'[u].at = place /\ edit'[u].req = edit[u].req
      /\ \A v \in Edits \ {u} : edit'[v] = edit[v]
      /\ \A v \in Edits : DOMAIN edit'[v] = {"at", "req"}
  BY <1>2, StageAt DEF SettingsInv
<1>4. /\ IsSettings(settings') /\ settings'.key = settings.key /\ settings'.subs = settings.subs
      /\ settings'.secret = settings.secret /\ settings'.tuning = settings.tuning
      /\ settings'.limit = limit /\ settings'.skip = settings.skip
      /\ settings'.host = settings.host /\ settings'.dirs = settings.dirs
  BY DEF ApplyLimit, SettingsInv, SettingsTypeOK, IsSettings
<1>5. /\ enforcer' = IF limit = "off" THEN enforcer ELSE [limit |-> limit, ttl |-> enforcer.ttl]
      /\ drift' = IF \A v \in Edits : edit[v].at # "stopping" THEN drift \ {"stopped"}
                  ELSE IF limit # "off" THEN drift \cup {"stopped"} ELSE drift
  BY DEF ApplyLimit
<1>6. SettingsTypeOK'
  BY <1>1, <1>3, <1>4, <1>5 DEF SettingsInv, SettingsTypeOK
<1>7. FileKept' /\ SecretMade'
  BY <1>1, <1>4 DEF SettingsInv, FileKept, SecretMade, Readable
<1>8. UpdatesWait'
  <2>1. ASSUME NEW v \in Edits, v # u, edit[v].at = "stopping"
        PROVE  limit = "off" \/ "stopped" \in drift'
    BY <1>5, <2>1
  <2>2. place = "stopping" => limit = "off"
    OBVIOUS
  <2>3. place \notin {"unloading", "limiting"}
    OBVIOUS
  <2>4. UpdatesWait
    BY DEF SettingsInv
  <2> HIDE DEF place, limit
  <2>5. ASSUME NEW v \in Edits
        PROVE  /\ edit'[v].at = "unloading" => Sent(edit'[v].req, "dirs")
               /\ edit'[v].at = "limiting" => Sent(edit'[v].req, "limit")
               /\ edit'[v].at = "stopping" => up' /\ (settings'.limit = "off" \/ "stopped" \in drift')
    <3>1. CASE v = u
      BY <1>1, <1>3, <1>4, <2>2, <2>3, <3>1
    <3>2. CASE v # u
      BY <1>1, <1>3, <1>4, <2>1, <2>4, <3>2 DEF UpdatesWait
    <3>. QED
      BY <3>1, <3>2
  <2>. QED
    BY <2>5 DEF UpdatesWait
<1>9. EnforcerFollowsSettings'
  <2>1. CASE limit # "off" \/ enforcer.limit = "off"
    BY <1>4, <1>5, <2>1 DEF EnforcerFollowsSettings
  <2>2. CASE limit = "off" /\ enforcer.limit # "off"
    BY <1>3, <2>2 DEF EnforcerFollowsSettings
  <2>. QED
    BY <2>1, <2>2
<1>10. ServerFollowsSettings' /\ SubKeysExact' /\ SkipOnlyLocal' /\ SavedIsCurrent'
  BY <1>1, <1>4 DEF SettingsInv, ServerFollowsSettings, SubKeysExact, SkipOnlyLocal, SavedIsCurrent
<1>11. PoolFollowsSettings'
  BY <1>1, <1>4, <1>5 DEF SettingsInv, PoolFollowsSettings
<1>. QED
  BY <1>6, <1>7, <1>8, <1>9, <1>10, <1>11 DEF SettingsInv

\* The enforcer is off at last, as the settings are unless a limit came in between.
LEMMA StoppedKeeps ==
  ASSUME SettingsInv, NEW u \in Edits, EnforcerStopped(u)
  PROVE  SettingsInv'
<1>1. /\ up /\ edit[u].at = "stopping" /\ Stage(u, "applying")
      /\ enforcer' = [limit |-> "off", ttl |-> FALSE]
      /\ UNCHANGED <<settings, settingsFile, apiKey, sampling, scanned, sessions, up, starts, granted,
                     unsaved, overridden, drift>>
  BY DEF EnforcerStopped
<1>2. /\ DOMAIN edit' = Edits /\ edit'[u].at = "applying"
      /\ \A v \in Edits \ {u} : edit'[v] = edit[v]
      /\ \A v \in Edits : DOMAIN edit'[v] = {"at", "req"}
  BY <1>1, StageAt DEF SettingsInv
<1>3. SettingsTypeOK'
  BY <1>1, <1>2 DEF SettingsInv, SettingsTypeOK
<1>4. FileKept' /\ SecretMade'
  BY <1>1 DEF SettingsInv, FileKept, SecretMade, Readable
<1>5. UpdatesWait'
  BY <1>1, <1>2 DEF SettingsInv, UpdatesWait
<1>6. EnforcerFollowsSettings'
  BY <1>1 DEF SettingsInv, UpdatesWait, EnforcerFollowsSettings
<1>7. ServerFollowsSettings' /\ SubKeysExact' /\ SkipOnlyLocal' /\ SavedIsCurrent' /\ PoolFollowsSettings'
  BY <1>1 DEF SettingsInv, ServerFollowsSettings, SubKeysExact, SkipOnlyLocal, SavedIsCurrent, Readable,
              PoolFollowsSettings
<1>. QED
  BY <1>3, <1>4, <1>5, <1>6, <1>7 DEF SettingsInv

LEMMA FinishKeeps ==
  ASSUME SettingsInv, NEW u \in Edits, FinishUpdate(u)
  PROVE  SettingsInv'
<1> DEFINE req   == edit[u].req
           tuned == Tuned(settings, req)
           keyed == Keyed(tuned, req)
           short == Sent(req, "key") /\ req.key \notin Keys
<1>1. /\ up /\ edit[u].at = "applying" /\ Stage(u, "over")
      /\ sampling' = IF Sent(req, "tuning") THEN req.tuning ELSE sampling
      /\ UNCHANGED <<scanned, enforcer, sessions, up, starts, granted, overridden>>
  BY DEF FinishUpdate
<1>2. /\ DOMAIN edit' = Edits /\ edit'[u].at = "over"
      /\ \A v \in Edits \ {u} : edit'[v] = edit[v]
      /\ \A v \in Edits : DOMAIN edit'[v] = {"at", "req"}
  BY <1>1, StageAt DEF SettingsInv
<1>3. IsSettings(settings) /\ (settings.skip => settings.host = "local" \/ overridden)
      /\ settings.tuning = sampling /\ settings.key = apiKey /\ settings.subs = granted
  BY <1>1 DEF SettingsInv, SettingsTypeOK, SkipOnlyLocal, ServerFollowsSettings, SubKeysExact
<1>4. /\ IsSettings(tuned) /\ tuned.subs = settings.subs /\ tuned.secret = settings.secret
      /\ tuned.skip = settings.skip /\ tuned.host = settings.host /\ tuned.dirs = settings.dirs
      /\ tuned.limit = settings.limit /\ tuned.key = settings.key /\ tuned.tuning = sampling'
  BY <1>1, <1>3 DEF Tuned, IsSettings
<1> HIDE DEF tuned
<1>5. /\ IsSettings(keyed) /\ keyed.subs = tuned.subs /\ keyed.secret = tuned.secret
      /\ keyed.host = tuned.host /\ keyed.dirs = tuned.dirs
      /\ keyed.limit = tuned.limit /\ keyed.tuning = tuned.tuning
      /\ keyed.key = IF Sent(req, "key") THEN req.key ELSE tuned.key
      /\ keyed.skip => tuned.skip \/ tuned.host = "local"
  BY <1>4 DEF Keyed, IsSettings
<1>6. \/ /\ settings' = tuned /\ UNCHANGED <<settingsFile, apiKey, drift>>
         /\ unsaved' = (unsaved \/ tuned # settings)
      \/ /\ settings' = keyed /\ UNCHANGED <<settingsFile, drift>>
         /\ apiKey' = IF Sent(req, "key") THEN req.key ELSE apiKey
         /\ unsaved' = (unsaved \/ keyed # settings)
      \/ /\ settings' = Ensured(keyed)
         /\ apiKey' = IF Sent(req, "key") THEN req.key ELSE apiKey
         /\ \E outcome \in SaveOutcomes(Ensured(keyed), settingsFile) :
              SaveOf(keyed, outcome) /\ unsaved' = ~outcome.ok
  <2>1. CASE short
    BY <2>1 DEF FinishUpdate, tuned
  <2>2. CASE ~short /\ Valid(keyed)
    BY <2>2 DEF FinishUpdate, tuned
  <2>3. CASE ~short /\ ~Valid(keyed)
    BY <2>3 DEF FinishUpdate, tuned
  <2>. QED
    BY <2>1, <2>2, <2>3
<1> HIDE DEF keyed
<1>7. /\ IsSettings(settings') /\ settings'.subs = settings.subs /\ settings'.secret = settings.secret
      /\ settings'.host = settings.host /\ settings'.limit = settings.limit
      /\ settings'.tuning = sampling' /\ settings'.key = apiKey'
      /\ settings'.skip => settings'.host = "local" \/ overridden
  <2>1. CASE settings' = tuned /\ UNCHANGED apiKey
    BY <1>3, <1>4, <2>1
  <2>2. CASE settings' = keyed /\ apiKey' = IF Sent(req, "key") THEN req.key ELSE apiKey
    BY <1>3, <1>4, <1>5, <2>2
  <2>3. CASE settings' = Ensured(keyed) /\ apiKey' = IF Sent(req, "key") THEN req.key ELSE apiKey
    BY <1>3, <1>4, <1>5, <2>3, EnsuredFields
  <2>. QED
    BY <1>6, <2>1, <2>2, <2>3
<1>8. SettingsTypeOK'
  BY <1>1, <1>2, <1>7 DEF SettingsInv, SettingsTypeOK
<1>9. FileKept' /\ SecretMade' /\ PoolFollowsSettings' /\ SavedIsCurrent' /\ drift \subseteq drift'
  <2>1. CASE /\ settings' \in {tuned, keyed} /\ UNCHANGED <<settingsFile, drift>>
             /\ unsaved' = (unsaved \/ settings' # settings)
    <3>1. settings'.dirs = settings.dirs
      BY <1>4, <1>5, <2>1
    <3>2. FileKept' /\ SecretMade'
      BY <1>1, <1>7, <2>1 DEF SettingsInv, FileKept, SecretMade, Readable
    <3>. QED
      BY <1>1, <2>1, <3>1, <3>2 DEF SettingsInv, PoolFollowsSettings, SavedIsCurrent, Readable
  <2>2. ASSUME settings' = Ensured(keyed),
               NEW outcome \in SaveOutcomes(Ensured(keyed), settingsFile),
               SaveOf(keyed, outcome), unsaved' = ~outcome.ok
        PROVE  FileKept' /\ SecretMade' /\ PoolFollowsSettings' /\ SavedIsCurrent' /\ drift \subseteq drift'
    <3>1. keyed.skip => keyed.host = "local" \/ overridden
      BY <1>3, <1>4, <1>5
    <3>2. FileKept' /\ SecretMade'
      BY <1>1, <1>3, <1>4, <1>5, <1>7, <2>2, <3>1, SavedFile
    <3>3. PoolFollowsSettings' /\ drift \subseteq drift'
      BY <1>1, <1>4, <1>5, <2>2, SavedDirs DEF SettingsInv
    <3>4. SavedIsCurrent'
      BY <2>2, SaveEnds DEF SavedIsCurrent, SaveOf
    <3>. QED
      BY <3>2, <3>3, <3>4
  <2>. QED
    BY <1>6, <2>1, <2>2
<1>10. UpdatesWait' /\ EnforcerFollowsSettings'
  <2>1. \A v \in Edits : edit[v].at = "stopping" => edit'[v] = edit[v]
    BY <1>1, <1>2
  <2>. QED
    BY <1>1, <1>2, <1>7, <1>9, <2>1 DEF SettingsInv, UpdatesWait, EnforcerFollowsSettings
<1>11. ServerFollowsSettings' /\ SubKeysExact' /\ SkipOnlyLocal'
  BY <1>1, <1>3, <1>7 DEF ServerFollowsSettings, SubKeysExact, SkipOnlyLocal
<1>. QED
  BY <1>8, <1>9, <1>10, <1>11 DEF SettingsInv

LEMMA QuietSettings ==
  ASSUME SettingsInv,
         \/ EndServer \/ Login \/ RefreshAfterDownload \/ UNCHANGED settingsVars
         \/ \E d \in Drives : MoveDrive(d)
  PROVE  SettingsInv'
<1>1. CASE EndServer
  <2>1. /\ ~up' /\ UNCHANGED <<settings, settingsFile, starts, enforcer, sessions, granted, overridden>>
        /\ edit' = [v \in Edits |-> IF edit[v].at = "unused" THEN edit[v]
                                    ELSE [at |-> "over", req |-> << >>]]
    BY <1>1 DEF EndServer
  <2>2. SettingsTypeOK' /\ UpdatesWait'
    BY <2>1 DEF SettingsInv, SettingsTypeOK, UpdatesWait
  <2>3. FileKept' /\ SecretMade' /\ SkipOnlyLocal'
    BY <2>1 DEF SettingsInv, FileKept, SecretMade, Readable, SkipOnlyLocal
  <2>. QED
    BY <2>1, <2>2, <2>3 DEF SettingsInv, ServerFollowsSettings, SubKeysExact, SavedIsCurrent,
                            PoolFollowsSettings, EnforcerFollowsSettings
<1>2. ASSUME \/ Login \/ RefreshAfterDownload \/ UNCHANGED settingsVars
             \/ \E d \in Drives : MoveDrive(d)
      PROVE  SettingsInv'
  <2>1. /\ UNCHANGED <<settings, settingsFile, apiKey, sampling, enforcer, edit, up, starts, granted,
                       unsaved, overridden>>
        /\ drift' \in {drift, drift \cup {"refreshed"}}
        /\ sessions' = sessions \/ (up /\ sessions' = sessions \cup {settings.secret})
    BY <1>2 DEF Login, RefreshAfterDownload, MoveDrive, settingsVars
  <2>2. SettingsTypeOK' /\ UpdatesWait'
    BY <2>1 DEF SettingsInv, SettingsTypeOK, UpdatesWait
  <2>3. FileKept' /\ SecretMade'
    BY <2>1 DEF SettingsInv, FileKept, SecretMade, Readable
  <2>4. ServerFollowsSettings' /\ SubKeysExact' /\ SavedIsCurrent' /\ SkipOnlyLocal' /\ EnforcerFollowsSettings'
    BY <2>1 DEF SettingsInv, ServerFollowsSettings, SubKeysExact, SavedIsCurrent, Readable, SkipOnlyLocal,
                EnforcerFollowsSettings
  <2>5. PoolFollowsSettings'
    BY <1>2, <2>1 DEF SettingsInv, PoolFollowsSettings, Login, RefreshAfterDownload, MoveDrive, settingsVars
  <2>. QED
    BY <2>2, <2>3, <2>4, <2>5 DEF SettingsInv
<1>. QED
  BY <1>1, <1>2

\* The file, the running server and what the admins were told agree.
THEOREM AdminSettingsAgree == SettingsSpec => []SettingsAgree
<1>1. SettingsInit => SettingsInv
  BY DEF SettingsInit, SettingsInv, SettingsTypeOK, IsSettings, Defaults, Readable, FileKept, SecretMade,
         UpdatesWait, ServerFollowsSettings, SubKeysExact, SavedIsCurrent, SkipOnlyLocal,
         PoolFollowsSettings, EnforcerFollowsSettings
<1>2. SettingsInv /\ [SettingsNext]_settingsVars => SettingsInv'
  <2>. SUFFICES ASSUME SettingsInv, [SettingsNext]_settingsVars PROVE SettingsInv'
    OBVIOUS
  <2>1. ASSUME NEW env \in Overrides, NEW cli \in Overrides, ServeCommand(env, cli) PROVE SettingsInv'
    BY <2>1, ServeKeeps
  <2>2. ASSUME NEW k \in Keys, SetupApiKey(k) \/ CreateSubKey(k) \/ DeleteSubKey(k) PROVE SettingsInv'
    BY <2>2, SetupKeeps, CreateKeeps, DeleteKeeps
  <2>3. ASSUME NEW u \in Edits, NEW req \in EditRequests, BeginUpdate(u, req) PROVE SettingsInv'
    BY <2>3, BeginUpdateKeeps
  <2>4. ASSUME NEW u \in Edits,
               ApplyModelDirs(u) \/ ApplyLimit(u) \/ EnforcerStopped(u) \/ FinishUpdate(u)
        PROVE  SettingsInv'
    BY <2>4, ApplyDirsKeeps, ApplyLimitKeeps, StoppedKeeps, FinishKeeps
  <2>. QED
    BY <2>1, <2>2, <2>3, <2>4, QuietSettings, Zenon DEF SettingsNext
<1>3. SettingsInv => SettingsAgree
  BY DEF SettingsInv, SettingsAgree, SecretMade, SessionsSurvive
<1>. QED
  BY <1>1, <1>2, <1>3, PTL DEF SettingsSpec

-----------------------------------------------------------------------------
(***************************************************************************)
(* CatalogAgrees holds for any models, names and requests.                 *)
(*                                                                         *)
(* CatalogInv adds that the file is as good as memory, for a reload or a   *)
(* start reads it (GoodPrefs), that the pool has the models that are found *)
(* (entries = Found), what a reload wrote down before it waits             *)
(* (ReloadPins), and what the name of a request that waits still means     *)
(* (WaitingNamed).                                                         *)
(***************************************************************************)
GoodPrefs(p) ==
    /\ DOMAIN p = Names
    /\ \A n \in Names : DOMAIN p[n] = DOMAIN NoPrefs /\ p[n].pinned \in BOOLEAN
    /\ \A m, n \in Names : m # n =>
         /\ p[m].alias = p[n].alias => p[m].alias = Unset
         /\ ~(p[m].default /\ p[n].default)

CatalogTypeOK ==
    /\ onDisk \subseteq Names
    /\ DOMAIN entryOf = Names
    /\ \A n \in Names : DOMAIN entryOf[n] = {"pinned", "kind", "loaded"}
    /\ DOMAIN query = Queries
    /\ \A c \in Queries : DOMAIN query[c] = {"at", "name", "model", "source", "fell", "shaken"}
    /\ DOMAIN rescan = {"at", "pins", "changed"}

ReloadPins ==
    rescan.at # "idle" => \A n \in Names \ rescan.changed : n \in rescan.pins <=> prefs[n].pinned

WaitingNamed ==
    \A c \in Queries :
        query[c].at = "loading" =>
            Resolve(query[c].name) = query[c].model \/ query[c].shaken \/ query[c].fell

CatalogInv ==
    /\ CatalogTypeOK /\ entries = Found
    /\ GoodPrefs(prefs) /\ GoodPrefs(prefsFile) /\ PrefsOnFile
    /\ PinsFollowSettings /\ ReloadPins /\ KindsFollowSettings /\ DefaultFollowsSettings
    /\ WaitingNamed /\ SettingsOfServedModel

\* A rescan that finds whatever is in memory makes the pool what is found, with
\* the given pins, and the kinds of the settings where there are some.
LEMMA DiscoverFinds ==
  ASSUME CatalogTypeOK, NEW found \in SUBSET Names, NEW before, NEW pins, NEW p,
         Discover(found, before, pins, p),
         \A n \in before : entryOf[n].loaded => n \in found
  PROVE  /\ entries' = found
         /\ DOMAIN entryOf' = Names
         /\ \A n \in Names : DOMAIN entryOf'[n] = {"pinned", "kind", "loaded"}
         /\ \A n \in found :
              /\ entryOf'[n].pinned = (n \in pins)
              /\ p[n].kind # Unset => entryOf'[n].kind = p[n].kind
              /\ p[n].kind = Unset /\ ~(n \in before /\ entryOf[n].loaded) => entryOf'[n].kind = Detect(n)
              /\ p[n].kind = Unset /\ n \in before /\ entryOf[n].loaded =>
                   entryOf'[n].kind = entryOf[n].kind /\ (n \in kindDrift => n \in kindDrift')
<1> DEFINE held == {n \in before : entryOf[n].loaded}
           entry(n) == CASE n \in found \cap held -> [entryOf[n] EXCEPT !.pinned = n \in pins]
                         [] n \in found \ held    -> Fresh(n, pins)
                         [] n \in held \ found    -> entryOf[n]
                         [] OTHER                     -> NoEntry
<1>1. held \subseteq found
  OBVIOUS
<1>2. /\ entries' = found \cup held
      /\ entryOf' = [n \in Names |-> IF n \in found \cup held /\ p[n].kind # Unset
                                     THEN [entry(n) EXCEPT !.kind = p[n].kind] ELSE entry(n)]
      /\ kindDrift' = {n \in kindDrift : n \in held /\ p[n].kind = Unset}
  BY DEF Discover
<1>3. ASSUME NEW n \in found, n \in held
      PROVE  /\ DOMAIN entry(n) = {"pinned", "kind", "loaded"}
             /\ entry(n).pinned = (n \in pins) /\ entry(n).kind = entryOf[n].kind
  <2>1. entry(n) = [entryOf[n] EXCEPT !.pinned = n \in pins]
    BY <1>3
  <2>2. DOMAIN entryOf[n] = {"pinned", "kind", "loaded"}
    BY DEF CatalogTypeOK
  <2> HIDE DEF entry
  <2>. QED
    BY <2>1, <2>2
<1>4. ASSUME NEW n \in found, n \notin held
      PROVE  /\ DOMAIN entry(n) = {"pinned", "kind", "loaded"}
             /\ entry(n).pinned = (n \in pins) /\ entry(n).kind = Detect(n)
  <2>1. entry(n) = Fresh(n, pins)
    BY <1>4
  <2> HIDE DEF entry
  <2>. QED
    BY <2>1 DEF Fresh
<1>5. ASSUME NEW n \in Names, n \notin found PROVE entry(n) = NoEntry
  BY <1>1, <1>5
<1> HIDE DEF entry
<1>6. DOMAIN entryOf' = Names
  BY <1>2
<1>7. ASSUME NEW n \in Names
      PROVE  entryOf'[n] = IF n \in found /\ p[n].kind # Unset THEN [entry(n) EXCEPT !.kind = p[n].kind]
                           ELSE entry(n)
  BY <1>1, <1>2
<1>8. ASSUME NEW n \in Names PROVE DOMAIN entryOf'[n] = {"pinned", "kind", "loaded"}
  <2>1. CASE n \notin found
    <3>1. entryOf'[n] = NoEntry
      BY <1>5, <1>7, <2>1
    <3>. QED
      BY <3>1 DEF NoEntry
  <2>2. CASE n \in found
    <3>1. DOMAIN entry(n) = {"pinned", "kind", "loaded"}
      BY <1>3, <1>4, <2>2
    <3>. QED
      BY <1>7, <3>1
  <2>. QED
    BY <2>1, <2>2
<1>9. ASSUME NEW n \in found
      PROVE  /\ entryOf'[n].pinned = (n \in pins)
             /\ p[n].kind # Unset => entryOf'[n].kind = p[n].kind
             /\ p[n].kind = Unset => entryOf'[n].kind = entry(n).kind
  <2>1. DOMAIN entry(n) = {"pinned", "kind", "loaded"} /\ entry(n).pinned = (n \in pins)
    BY <1>3, <1>4
  <2>. QED
    BY <1>7, <2>1
<1>10. ASSUME NEW n \in found, p[n].kind = Unset
       PROVE  /\ ~(n \in before /\ entryOf[n].loaded) => entryOf'[n].kind = Detect(n)
              /\ n \in before /\ entryOf[n].loaded =>
                   entryOf'[n].kind = entryOf[n].kind /\ (n \in kindDrift => n \in kindDrift')
  BY <1>2, <1>3, <1>4, <1>9, <1>10
<1>. QED
  BY <1>1, <1>2, <1>6, <1>8, <1>9, <1>10

\* What a name means, from the models found and the settings p.
AnyOf(S) == CHOOSE n \in S : TRUE
EntryIn(ids, x) == IF x \in ids THEN {x} ELSE {n \in ids : Lower[n] = Lower[x]}
NamedIn(ids, p, x) == IF EntryIn(ids, x) # {} THEN EntryIn(ids, x) ELSE {n \in Names : p[n].alias = x}
StrippedIn(ids, p, x) == IF NamedIn(ids, p, x) = {} /\ x \in DOMAIN Stripped THEN Stripped[x] ELSE x
ResolveIn(ids, p, x) ==
    IF NamedIn(ids, p, StrippedIn(ids, p, x)) # {} THEN AnyOf(NamedIn(ids, p, StrippedIn(ids, p, x))) ELSE x

\* It depends on the aliases only.
LEMMA ResolveSame ==
  ASSUME NEW ids, NEW p, NEW q, \A n \in Names : p[n].alias = q[n].alias, NEW x
  PROVE  ResolveIn(ids, p, x) = ResolveIn(ids, q, x)
<1>1. ASSUME NEW y PROVE NamedIn(ids, p, y) = NamedIn(ids, q, y)
  BY DEF NamedIn
<1>2. StrippedIn(ids, p, x) = StrippedIn(ids, q, x)
  BY <1>1 DEF StrippedIn
<1>3. NamedIn(ids, p, StrippedIn(ids, p, x)) = NamedIn(ids, q, StrippedIn(ids, q, x))
  BY <1>1, <1>2
<1>. QED
  BY <1>3 DEF ResolveIn

\* When names change, requests that wait are told apart.
LEMMA ShakeKeeps ==
  ASSUME CatalogTypeOK, SettingsOfServedModel, query' = Shake(query)
  PROVE  /\ WaitingNamed' /\ SettingsOfServedModel'
         /\ DOMAIN query' = Queries
         /\ \A c \in Queries : DOMAIN query'[c] = {"at", "name", "model", "source", "fell", "shaken"}
<1>1. /\ DOMAIN query' = Queries
      /\ \A c \in Queries : query'[c] = [query[c] EXCEPT !.shaken = query[c].shaken \/ query[c].at = "loading"]
  BY DEF Shake
<1>2. ASSUME NEW c \in Queries
      PROVE  /\ DOMAIN query'[c] = {"at", "name", "model", "source", "fell", "shaken"}
             /\ query'[c].at = query[c].at /\ query'[c].model = query[c].model
             /\ query'[c].source = query[c].source /\ query'[c].fell = query[c].fell
             /\ query[c].shaken \/ query[c].at = "loading" => query'[c].shaken
  BY <1>1 DEF CatalogTypeOK
<1>3. WaitingNamed'
  BY <1>2 DEF WaitingNamed
<1>4. SettingsOfServedModel'
  BY <1>2 DEF SettingsOfServedModel
<1>. QED
  BY <1>1, <1>2, <1>3, <1>4

LEMMA QueriesStay ==
  ASSUME CatalogInv, UNCHANGED <<entries, query>>, \A n \in Names : prefs'[n].alias = prefs[n].alias
  PROVE  WaitingNamed' /\ SettingsOfServedModel'
<1>1. \A c \in Queries : Resolve(query[c].name) = ResolveIn(entries, prefs, query[c].name)
  BY DEF Resolve, Named, ByEntry, ByAlias, ResolveIn, StrippedIn, NamedIn, EntryIn,
         AnyOf
<1>2. \A c \in Queries : Resolve(query[c].name)' = ResolveIn(entries', prefs', query'[c].name)
  BY DEF Resolve, Named, ByEntry, ByAlias, ResolveIn, StrippedIn, NamedIn, EntryIn,
         AnyOf
<1>3. \A c \in Queries : ResolveIn(entries', prefs', query'[c].name) = ResolveIn(entries, prefs, query[c].name)
  <2>1. \A x : ResolveIn(entries, prefs', x) = ResolveIn(entries, prefs, x)
    BY ResolveSame
  <2>. QED
    BY <2>1
<1>4. WaitingNamed'
  BY <1>1, <1>2, <1>3 DEF CatalogInv, WaitingNamed
<1>5. SettingsOfServedModel'
  BY DEF CatalogInv, SettingsOfServedModel
<1>. QED
  BY <1>4, <1>5

LEMMA FoundIsNamed == CatalogTypeOK => Found \subseteq Names
  BY DEF CatalogTypeOK, Found

\* set_settings changes the fields that are sent, and takes the mark of the
\* default from the others.
LEMMA WithPrefsFields ==
  ASSUME GoodPrefs(prefs), NEW n \in Names, NEW req, prefs' = WithPrefs(n, req)
  PROVE  /\ DOMAIN prefs' = Names
         /\ \A m \in Names : DOMAIN prefs'[m] = DOMAIN NoPrefs
         /\ prefs'[n].alias = IF Asks(req, "alias") THEN req.alias ELSE prefs[n].alias
         /\ prefs'[n].pinned = IF Asks(req, "pinned") THEN req.pinned ELSE prefs[n].pinned
         /\ prefs'[n].default = IF Asks(req, "default") THEN req.default ELSE prefs[n].default
         /\ prefs'[n].kind = IF Asks(req, "kind") THEN req.kind ELSE prefs[n].kind
         /\ \A m \in Names \ {n} :
              /\ prefs'[m].alias = prefs[m].alias /\ prefs'[m].pinned = prefs[m].pinned
              /\ prefs'[m].kind = prefs[m].kind
              /\ prefs'[m].default => prefs[m].default /\ ~(Asks(req, "default") /\ req.default)
<1>1. /\ DOMAIN prefs' = Names
      /\ prefs'[n] = [f \in DOMAIN NoPrefs |-> IF Asks(req, f) THEN req[f] ELSE prefs[n][f]]
      /\ \A m \in Names \ {n} : prefs'[m] = IF Asks(req, "default") /\ req.default
                                       THEN [prefs[m] EXCEPT !.default = FALSE] ELSE prefs[m]
  BY DEF WithPrefs
<1>2. DOMAIN NoPrefs = {"alias", "pinned", "default", "kind", "temp", "forced"}
  BY DEF NoPrefs
<1>3. /\ DOMAIN prefs'[n] = DOMAIN NoPrefs
      /\ prefs'[n].alias = IF Asks(req, "alias") THEN req.alias ELSE prefs[n].alias
      /\ prefs'[n].pinned = IF Asks(req, "pinned") THEN req.pinned ELSE prefs[n].pinned
      /\ prefs'[n].default = IF Asks(req, "default") THEN req.default ELSE prefs[n].default
      /\ prefs'[n].kind = IF Asks(req, "kind") THEN req.kind ELSE prefs[n].kind
  BY <1>1, <1>2
<1>4. ASSUME NEW m \in Names \ {n}
      PROVE  /\ DOMAIN prefs'[m] = DOMAIN NoPrefs
             /\ prefs'[m].alias = prefs[m].alias /\ prefs'[m].pinned = prefs[m].pinned
             /\ prefs'[m].kind = prefs[m].kind
             /\ prefs'[m].default => prefs[m].default /\ ~(Asks(req, "default") /\ req.default)
  <2>1. DOMAIN prefs[m] = DOMAIN NoPrefs
    BY DEF GoodPrefs
  <2>2. CASE Asks(req, "default") /\ req.default
    <3>1. prefs'[m] = [prefs[m] EXCEPT !.default = FALSE]
      BY <1>1, <2>2
    <3>. QED
      BY <1>2, <2>1, <3>1
  <2>3. CASE ~(Asks(req, "default") /\ req.default)
    <3>1. prefs'[m] = prefs[m]
      BY <1>1, <2>3
    <3>. QED
      BY <2>1, <2>3, <3>1
  <2>. QED
    BY <2>2, <2>3
<1>. QED
  BY <1>1, <1>3, <1>4

LEMMA UpdateModelKeeps ==
  ASSUME CatalogInv, NEW n \in Names, NEW req \in PrefRequests, UpdateModelSettings(n, req)
  PROVE  CatalogInv'
<1>1. /\ n \in entries /\ AliasFree(n, req) /\ prefs' = WithPrefs(n, req)
      /\ kindDrift' = IF Asks(req, "kind") THEN kindDrift \ {n} ELSE kindDrift
      /\ pinDrift' = IF Asks(req, "pinned") THEN pinDrift \ {n} ELSE pinDrift
      /\ rescan' = IF Asks(req, "pinned") /\ rescan.at # "idle"
                   THEN [rescan EXCEPT !.changed = @ \cup {n}] ELSE rescan
      /\ query' = IF Asks(req, "alias") THEN Shake(query) ELSE query
      /\ prefsFile' = prefs' \/ (prefsUnsaved' = TRUE /\ UNCHANGED prefsFile)
      /\ UNCHANGED <<onDisk, entries>>
  BY DEF UpdateModelSettings
<1>2. /\ entryOf' = [entryOf EXCEPT
           ![n].kind   = IF ~Asks(req, "kind") THEN @
                         ELSE IF req.kind = Unset THEN Detect(n) ELSE req.kind,
           ![n].pinned = IF Asks(req, "pinned") THEN req.pinned ELSE @]
      /\ IF Asks(req, "default") /\ req.default
         THEN defaultModel' = n /\ defaultDrift' = FALSE
         ELSE UNCHANGED <<defaultModel, defaultDrift>>
  BY DEF UpdateModelSettings
<1>3. CatalogTypeOK /\ GoodPrefs(prefs) /\ GoodPrefs(prefsFile) /\ Found \subseteq Names
  BY FoundIsNamed DEF CatalogInv
<1>4. /\ DOMAIN prefs' = Names
      /\ \A m \in Names : DOMAIN prefs'[m] = DOMAIN NoPrefs
      /\ prefs'[n].alias = IF Asks(req, "alias") THEN req.alias ELSE prefs[n].alias
      /\ prefs'[n].pinned = IF Asks(req, "pinned") THEN req.pinned ELSE prefs[n].pinned
      /\ prefs'[n].default = IF Asks(req, "default") THEN req.default ELSE prefs[n].default
      /\ prefs'[n].kind = IF Asks(req, "kind") THEN req.kind ELSE prefs[n].kind
      /\ \A m \in Names \ {n} :
           /\ prefs'[m].alias = prefs[m].alias /\ prefs'[m].pinned = prefs[m].pinned
           /\ prefs'[m].kind = prefs[m].kind
           /\ prefs'[m].default => prefs[m].default /\ ~(Asks(req, "default") /\ req.default)
  BY <1>1, <1>3, WithPrefsFields
<1>5. GoodPrefs(prefs')
  <2>1. \A m \in Names : prefs'[m].pinned \in BOOLEAN
    BY <1>3, <1>4, CatalogAssumption DEF CatalogAssumption, Asks, GoodPrefs
  <2>2. ASSUME NEW m \in Names, m # n
        PROVE  /\ prefs'[m].alias = prefs'[n].alias => prefs'[m].alias = Unset
               /\ ~(prefs'[m].default /\ prefs'[n].default)
    <3>1. prefs'[m].alias = prefs'[n].alias => prefs'[m].alias = Unset
      BY <1>1, <1>3, <1>4, <2>2 DEF AliasFree, GoodPrefs
    <3>2. ~(prefs'[m].default /\ prefs'[n].default)
      BY <1>3, <1>4, <2>2 DEF GoodPrefs
    <3>. QED
      BY <3>1, <3>2
  <2>3. ASSUME NEW m \in Names, NEW k \in Names, m # k
        PROVE  /\ prefs'[m].alias = prefs'[k].alias => prefs'[m].alias = Unset
               /\ ~(prefs'[m].default /\ prefs'[k].default)
    <3>1. CASE m # n /\ k # n
      <4>1. /\ prefs[m].alias = prefs[k].alias => prefs[m].alias = Unset
            /\ ~(prefs[m].default /\ prefs[k].default)
        BY <1>3, <2>3 DEF GoodPrefs
      <4>. QED
        BY <1>4, <3>1, <4>1
    <3>2. CASE m = n \/ k = n
      BY <2>2, <2>3, <3>2
    <3>. QED
      BY <3>1, <3>2
  <2>. QED
    BY <1>4, <2>1, <2>3 DEF GoodPrefs
<1>6. GoodPrefs(prefsFile') /\ PrefsOnFile'
  BY <1>1, <1>3, <1>5 DEF PrefsOnFile
<1>7. /\ DOMAIN entryOf' = Names
      /\ \A m \in Names : DOMAIN entryOf'[m] = {"pinned", "kind", "loaded"}
      /\ \A m \in Names \ {n} : entryOf'[m] = entryOf[m]
      /\ entryOf'[n].kind = IF ~Asks(req, "kind") THEN entryOf[n].kind
                            ELSE IF req.kind = Unset THEN Detect(n) ELSE req.kind
      /\ entryOf'[n].pinned = IF Asks(req, "pinned") THEN req.pinned ELSE entryOf[n].pinned
  BY <1>2, <1>3 DEF CatalogTypeOK
<1>8. /\ WaitingNamed' /\ SettingsOfServedModel'
      /\ DOMAIN query' = Queries
      /\ \A c \in Queries : DOMAIN query'[c] = {"at", "name", "model", "source", "fell", "shaken"}
  <2>1. CASE Asks(req, "alias")
    BY <1>1, <1>3, <2>1, ShakeKeeps DEF CatalogInv
  <2>2. CASE ~Asks(req, "alias")
    <3>1. \A m \in Names : prefs'[m].alias = prefs[m].alias
      BY <1>4, <2>2
    <3>. QED
      BY <1>1, <1>3, <2>2, <3>1, QueriesStay DEF CatalogTypeOK
  <2>. QED
    BY <2>1, <2>2
<1>9. CatalogTypeOK' /\ (entries = Found)'
  <2>1. DOMAIN rescan' = {"at", "pins", "changed"}
    BY <1>1, <1>3 DEF CatalogTypeOK
  <2>2. onDisk' \subseteq Names
    BY <1>1, <1>3 DEF CatalogTypeOK
  <2>3. (entries = Found)'
    BY <1>1 DEF CatalogInv, Found
  <2>. QED
    BY <1>7, <1>8, <2>1, <2>2, <2>3 DEF CatalogTypeOK
<1>10. PinsFollowSettings'
  BY <1>1, <1>3, <1>4, <1>7 DEF CatalogInv, PinsFollowSettings
<1>11. ReloadPins'
  BY <1>1, <1>3, <1>4 DEF CatalogInv, CatalogTypeOK, ReloadPins
<1>12. KindsFollowSettings'
  <2>. SUFFICES ASSUME rescan'.at = "idle", NEW m \in entries', m \notin kindDrift'
                PROVE  entryOf'[m].kind = IF prefs'[m].kind = Unset THEN Detect(m) ELSE prefs'[m].kind
    BY DEF KindsFollowSettings
  <2>1. rescan.at = "idle" /\ m \in entries /\ m \in Names
    BY <1>1, <1>3 DEF CatalogInv, CatalogTypeOK
  <2>2. m \notin kindDrift => entryOf[m].kind = IF prefs[m].kind = Unset THEN Detect(m) ELSE prefs[m].kind
    BY <2>1 DEF CatalogInv, KindsFollowSettings
  <2>3. CASE m = n /\ Asks(req, "kind")
    BY <1>4, <1>7, <2>3
  <2>4. CASE m # n \/ ~Asks(req, "kind")
    <3>1. m \notin kindDrift
      BY <1>1, <2>4
    <3>2. prefs'[m].kind = prefs[m].kind /\ entryOf'[m].kind = entryOf[m].kind
      BY <1>4, <1>7, <2>1, <2>4
    <3>. QED
      BY <2>2, <3>1, <3>2
  <2>. QED
    BY <2>3, <2>4
<1>13. DefaultFollowsSettings'
  <2>. SUFFICES ASSUME NEW m \in Names, prefs'[m].default PROVE defaultModel' = m \/ defaultDrift'
    BY DEF DefaultFollowsSettings
  <2>1. CASE Asks(req, "default") /\ req.default
    BY <1>2, <1>4, <2>1
  <2>2. CASE ~(Asks(req, "default") /\ req.default)
    BY <1>2, <1>4, <2>2 DEF CatalogInv, DefaultFollowsSettings
  <2>. QED
    BY <2>1, <2>2
<1>. QED
  BY <1>5, <1>6, <1>8, <1>9, <1>10, <1>11, <1>12, <1>13 DEF CatalogInv

\* A download or a deletion: the pool keeps the models in memory that are found.
LEMMA RediscoverKeeps ==
  ASSUME CatalogInv, NEW before, Discover(Found', before, Pinned(prefs), prefs),
         before \subseteq entries, before \subseteq Found', onDisk' \subseteq Names, pinDrift' = {},
         query' = Shake(query),
         UNCHANGED <<prefs, prefsFile, defaultModel, rescan, prefsUnsaved, defaultDrift>>
  PROVE  CatalogInv'
<1>1. CatalogTypeOK /\ GoodPrefs(prefs) /\ GoodPrefs(prefsFile) /\ Found' \subseteq Names
  BY DEF CatalogInv, Found
<1>2. PICK found \in SUBSET Names : found = Found'
  BY <1>1
<1>3. /\ entries' = found
      /\ DOMAIN entryOf' = Names
      /\ \A n \in Names : DOMAIN entryOf'[n] = {"pinned", "kind", "loaded"}
      /\ \A n \in found :
           /\ entryOf'[n].pinned = (n \in Pinned(prefs))
           /\ prefs[n].kind # Unset => entryOf'[n].kind = prefs[n].kind
           /\ prefs[n].kind = Unset /\ ~(n \in before /\ entryOf[n].loaded) => entryOf'[n].kind = Detect(n)
           /\ prefs[n].kind = Unset /\ n \in before /\ entryOf[n].loaded =>
                entryOf'[n].kind = entryOf[n].kind /\ (n \in kindDrift => n \in kindDrift')
  <2>1. Discover(found, before, Pinned(prefs), prefs)
    BY <1>2
  <2>2. \A n \in before : entryOf[n].loaded => n \in found
    BY <1>2
  <2>. QED
    BY <1>1, <2>1, <2>2, DiscoverFinds
<1>4. CatalogTypeOK' /\ WaitingNamed' /\ SettingsOfServedModel'
  <2>1. /\ WaitingNamed' /\ SettingsOfServedModel'
        /\ DOMAIN query' = Queries
        /\ \A c \in Queries : DOMAIN query'[c] = {"at", "name", "model", "source", "fell", "shaken"}
    BY <1>1, ShakeKeeps DEF CatalogInv
  <2>. QED
    BY <1>1, <1>3, <2>1 DEF CatalogTypeOK
<1>5. PinsFollowSettings'
  <2>. SUFFICES ASSUME NEW n \in entries' PROVE entryOf'[n].pinned = prefs'[n].pinned
    BY DEF PinsFollowSettings
  <2>1. n \in Names /\ entryOf'[n].pinned = (n \in Pinned(prefs))
    BY <1>3
  <2>2. prefs[n].pinned \in BOOLEAN
    BY <1>1, <2>1 DEF GoodPrefs
  <2>3. n \in Pinned(prefs) <=> prefs[n].pinned
    BY <2>1 DEF Pinned
  <2>. QED
    BY <2>1, <2>2, <2>3
<1>6. KindsFollowSettings'
  <2>. SUFFICES ASSUME rescan'.at = "idle", NEW n \in entries', n \notin kindDrift'
                PROVE  entryOf'[n].kind = IF prefs'[n].kind = Unset THEN Detect(n) ELSE prefs'[n].kind
    BY DEF KindsFollowSettings
  <2>1. n \in found
    BY <1>3
  <2>2. CASE prefs[n].kind = Unset /\ n \in before /\ entryOf[n].loaded
    <3>1. n \in entries /\ n \notin kindDrift /\ entryOf'[n].kind = entryOf[n].kind
      BY <1>3, <2>1, <2>2
    <3>. QED
      BY <2>2, <3>1 DEF CatalogInv, KindsFollowSettings
  <2>3. CASE ~(prefs[n].kind = Unset /\ n \in before /\ entryOf[n].loaded)
    BY <1>3, <2>1, <2>3
  <2>. QED
    BY <2>2, <2>3
<1>7. ReloadPins' /\ DefaultFollowsSettings' /\ PrefsOnFile'
  BY DEF CatalogInv, ReloadPins, DefaultFollowsSettings, PrefsOnFile
<1>8. (entries = Found)'
  BY <1>2, <1>3
<1>. QED
  BY <1>1, <1>4, <1>5, <1>6, <1>7, <1>8 DEF CatalogInv

LEMMA DownloadKeeps ==
  ASSUME CatalogInv, NEW n \in Names, DownloadEnds(n) PROVE CatalogInv'
<1>1. /\ Discover(Found \cup {m \in {n} : ~Unsupported(m)}, entries, Pinned(prefs), prefs)
      /\ onDisk' = onDisk \cup {n} /\ pinDrift' = {} /\ query' = Shake(query)
      /\ UNCHANGED <<prefs, prefsFile, defaultModel, rescan, prefsUnsaved, defaultDrift>>
  BY DEF DownloadEnds
<1>2. Found' = Found \cup {m \in {n} : ~Unsupported(m)}
  BY <1>1 DEF Found
<1>3. Discover(Found', entries, Pinned(prefs), prefs)
  BY <1>1, <1>2
<1>4. entries = Found /\ onDisk' \subseteq Names
  BY <1>1 DEF CatalogInv, CatalogTypeOK
<1>. QED
  BY <1>1, <1>2, <1>3, <1>4, RediscoverKeeps

LEMMA DeleteModelKeeps ==
  ASSUME CatalogInv, NEW n \in Names, DeleteModel(n) PROVE CatalogInv'
<1>1. /\ Discover(Found \ {n}, entries \ {n}, Pinned(prefs), prefs)
      /\ onDisk' = onDisk \ {n} /\ pinDrift' = {} /\ query' = Shake(query)
      /\ UNCHANGED <<prefs, prefsFile, defaultModel, rescan, prefsUnsaved, defaultDrift>>
  BY DEF DeleteModel
<1>2. Found' = Found \ {n}
  BY <1>1 DEF Found
<1>3. Discover(Found', entries \ {n}, Pinned(prefs), prefs)
  BY <1>1, <1>2
<1>4. entries = Found /\ onDisk' \subseteq Names
  BY <1>1 DEF CatalogInv, CatalogTypeOK
<1>. QED
  BY <1>1, <1>2, <1>3, <1>4, RediscoverKeeps

LEMMA BeginReloadKeeps ==
  ASSUME CatalogInv, BeginReload PROVE CatalogInv'
<1>1. /\ prefs' = prefsFile
      /\ rescan' = [at |-> "unloading", pins |-> Pinned(prefsFile), changed |-> {}]
      /\ pinDrift' = pinDrift \cup {n \in Names : prefs[n].pinned # prefsFile[n].pinned}
      /\ defaultDrift' = (defaultDrift \/ prefs # prefsFile)
      /\ query' = Shake(query)
      /\ UNCHANGED <<onDisk, prefsFile, entries, entryOf, defaultModel, kindDrift>>
  BY DEF BeginReload
<1>2. CatalogTypeOK /\ GoodPrefs(prefsFile) /\ Found \subseteq Names
  BY FoundIsNamed DEF CatalogInv
<1>3. /\ WaitingNamed' /\ SettingsOfServedModel'
      /\ DOMAIN query' = Queries
      /\ \A c \in Queries : DOMAIN query'[c] = {"at", "name", "model", "source", "fell", "shaken"}
  BY <1>1, <1>2, ShakeKeeps DEF CatalogInv
<1>4. CatalogTypeOK' /\ (entries = Found)'
  BY <1>1, <1>2, <1>3 DEF CatalogInv, CatalogTypeOK, Found
<1>5. PinsFollowSettings'
  BY <1>1, <1>2 DEF CatalogInv, PinsFollowSettings
<1>6. ReloadPins' /\ KindsFollowSettings' /\ PrefsOnFile'
  BY <1>1 DEF ReloadPins, Pinned, KindsFollowSettings, PrefsOnFile
<1>7. DefaultFollowsSettings'
  BY <1>1 DEF CatalogInv, DefaultFollowsSettings
<1>. QED
  BY <1>1, <1>2, <1>3, <1>4, <1>5, <1>6, <1>7 DEF CatalogInv

\* A pool that is made anew, with the pins of a reload or of a start.
LEMMA PoolMadeAnew ==
  ASSUME CatalogTypeOK, Found' = Found, GoodPrefs(prefs'), NEW pins, Discover(Found, {}, pins, prefs'),
         \A n \in Names : (n \in pins <=> prefs'[n].pinned) \/ n \in pinDrift'
  PROVE  /\ DOMAIN entryOf' = Names
         /\ \A n \in Names : DOMAIN entryOf'[n] = {"pinned", "kind", "loaded"}
         /\ (entries = Found)' /\ PinsFollowSettings' /\ KindsFollowSettings'
<1>1. PICK p : p = prefs'
  OBVIOUS
<1>2. PICK found \in SUBSET Names : found = Found
  BY FoundIsNamed
<1>3. /\ entries' = found
      /\ DOMAIN entryOf' = Names
      /\ \A n \in Names : DOMAIN entryOf'[n] = {"pinned", "kind", "loaded"}
      /\ \A n \in found :
           /\ entryOf'[n].pinned = (n \in pins)
           /\ p[n].kind # Unset => entryOf'[n].kind = p[n].kind
           /\ p[n].kind = Unset /\ ~(n \in {} /\ entryOf[n].loaded) => entryOf'[n].kind = Detect(n)
  <2>1. Discover(found, {}, pins, p)
    BY <1>1, <1>2
  <2>2. \A n \in {} : entryOf[n].loaded => n \in found
    OBVIOUS
  <2>. QED
    BY <2>1, <2>2, DiscoverFinds
<1>4. PinsFollowSettings'
  <2>. SUFFICES ASSUME NEW n \in entries', n \notin pinDrift' PROVE entryOf'[n].pinned = prefs'[n].pinned
    BY DEF PinsFollowSettings
  <2>1. n \in Names /\ entryOf'[n].pinned = (n \in pins)
    BY <1>3
  <2>2. prefs'[n].pinned \in BOOLEAN
    BY <2>1 DEF GoodPrefs
  <2>3. n \in pins <=> prefs'[n].pinned
    BY <2>1
  <2>. QED
    BY <2>1, <2>2, <2>3
<1>5. KindsFollowSettings'
  BY <1>1, <1>3 DEF KindsFollowSettings
<1>. QED
  BY <1>2, <1>3, <1>4, <1>5

LEMMA EndReloadKeeps ==
  ASSUME CatalogInv, EndReload PROVE CatalogInv'
<1>1. /\ rescan.at = "unloading" /\ Discover(Found, {}, rescan.pins, prefs)
      /\ rescan' = NoRescan /\ pinDrift' = rescan.changed /\ query' = Shake(query)
      /\ UNCHANGED <<onDisk, prefs, prefsFile, defaultModel, prefsUnsaved, defaultDrift>>
  BY DEF EndReload
<1>2. CatalogTypeOK /\ GoodPrefs(prefs) /\ GoodPrefs(prefsFile)
  BY DEF CatalogInv
<1>3. /\ WaitingNamed' /\ SettingsOfServedModel'
      /\ DOMAIN query' = Queries
      /\ \A c \in Queries : DOMAIN query'[c] = {"at", "name", "model", "source", "fell", "shaken"}
  BY <1>1, <1>2, ShakeKeeps DEF CatalogInv
<1>4. PICK pins : pins = rescan.pins
  OBVIOUS
<1>5. /\ DOMAIN entryOf' = Names
      /\ \A n \in Names : DOMAIN entryOf'[n] = {"pinned", "kind", "loaded"}
      /\ (entries = Found)' /\ PinsFollowSettings' /\ KindsFollowSettings'
  <2>1. Discover(Found, {}, pins, prefs')
    BY <1>1, <1>4
  <2>2. \A n \in Names : (n \in pins <=> prefs'[n].pinned) \/ n \in pinDrift'
    BY <1>1, <1>4 DEF CatalogInv, ReloadPins
  <2>3. Found' = Found /\ GoodPrefs(prefs')
    BY <1>1, <1>2 DEF Found
  <2>. QED
    BY <1>2, <2>1, <2>2, <2>3, PoolMadeAnew
<1>6. CatalogTypeOK' /\ ReloadPins'
  BY <1>1, <1>2, <1>3, <1>5 DEF CatalogTypeOK, NoRescan, ReloadPins
<1>7. DefaultFollowsSettings' /\ PrefsOnFile'
  BY <1>1 DEF CatalogInv, DefaultFollowsSettings, PrefsOnFile
<1>. QED
  BY <1>1, <1>2, <1>3, <1>5, <1>6, <1>7 DEF CatalogInv

\* The model marked as the default is the default of a server that starts, if it is found.
LEMMA DefaultMarked ==
  ASSUME NEW p, GoodPrefs(p), NEW found, NEW n \in Names, p[n].default,
         {m \in Names : p[m].default} \subseteq found
  PROVE  DefaultAtStart(p, found) = n
<1>1. {m \in Names : p[m].default} = {n}
  BY DEF GoodPrefs
<1>2. found # {}
  BY <1>1
<1>3. (CHOOSE m \in {n} : TRUE) = n
  OBVIOUS
<1>. QED
  BY <1>1, <1>2, <1>3 DEF DefaultAtStart

LEMMA RestartKeeps ==
  ASSUME CatalogInv, RestartCatalog PROVE CatalogInv'
<1>1. /\ prefs' = prefsFile /\ Discover(Found, {}, Pinned(prefsFile), prefsFile)
      /\ defaultModel' = DefaultAtStart(prefsFile, Found)
      /\ rescan' = NoRescan
      /\ query' = [c \in Queries |-> IF query[c].at = "unused" THEN NoQuery
                                     ELSE [NoQuery EXCEPT !.at = "over"]]
      /\ pinDrift' = {}
      /\ defaultDrift' = ~({n \in Names : prefsFile[n].default} \subseteq Found)
      /\ UNCHANGED <<onDisk, prefsFile>>
  BY DEF RestartCatalog
<1>2. CatalogTypeOK /\ GoodPrefs(prefsFile)
  BY DEF CatalogInv
<1>3. /\ DOMAIN query' = Queries
      /\ \A c \in Queries : /\ DOMAIN query'[c] = {"at", "name", "model", "source", "fell", "shaken"}
                            /\ query'[c].at \in {"unused", "over"}
  BY <1>1 DEF NoQuery
<1>4. WaitingNamed' /\ SettingsOfServedModel'
  BY <1>3 DEF WaitingNamed, SettingsOfServedModel
<1>5. /\ DOMAIN entryOf' = Names
      /\ \A n \in Names : DOMAIN entryOf'[n] = {"pinned", "kind", "loaded"}
      /\ (entries = Found)' /\ PinsFollowSettings' /\ KindsFollowSettings'
  <2>1. PICK pins : pins = Pinned(prefsFile)
    OBVIOUS
  <2>2. Discover(Found, {}, pins, prefs')
    BY <1>1, <2>1
  <2>3. \A n \in Names : (n \in pins <=> prefs'[n].pinned) \/ n \in pinDrift'
    BY <1>1, <2>1 DEF Pinned
  <2>4. Found' = Found /\ GoodPrefs(prefs')
    BY <1>1, <1>2 DEF Found
  <2>. QED
    BY <1>2, <2>2, <2>3, <2>4, PoolMadeAnew
<1>6. CatalogTypeOK' /\ ReloadPins' /\ PrefsOnFile'
  BY <1>1, <1>2, <1>3, <1>5 DEF CatalogTypeOK, NoRescan, ReloadPins, PrefsOnFile
<1>7. DefaultFollowsSettings'
  <2>. SUFFICES ASSUME NEW n \in Names, prefsFile[n].default, ~defaultDrift' PROVE defaultModel' = n
    BY <1>1 DEF DefaultFollowsSettings
  <2>1. PICK p : p = prefsFile
    OBVIOUS
  <2>2. PICK found : found = Found
    OBVIOUS
  <2>3. {m \in Names : p[m].default} \subseteq found
    BY <1>1, <2>1, <2>2
  <2>4. DefaultAtStart(p, found) = n
    BY <1>2, <2>1, <2>3, DefaultMarked
  <2>. QED
    BY <1>1, <2>1, <2>2, <2>4
<1>. QED
  BY <1>1, <1>2, <1>4, <1>5, <1>6, <1>7 DEF CatalogInv

\* A request begins, is served, fails, or a model is unloaded.
LEMMA RequestsKeep ==
  ASSUME CatalogInv,
         UNCHANGED <<onDisk, prefs, prefsFile, entries, defaultModel, rescan, prefsUnsaved, pinDrift,
                     defaultDrift>>,
         DOMAIN entryOf' = Names,
         \A n \in Names : /\ DOMAIN entryOf'[n] = {"pinned", "kind", "loaded"}
                          /\ entryOf'[n].pinned = entryOf[n].pinned
                          /\ entryOf'[n].kind = entryOf[n].kind \/ n \in kindDrift',
         kindDrift \subseteq kindDrift',
         DOMAIN query' = Queries,
         \A c \in Queries :
           \/ query'[c] = query[c]
           \/ /\ DOMAIN query'[c] = {"at", "name", "model", "source", "fell", "shaken"}
              /\ query'[c].at = "loading" => query'[c].model = Resolve(query'[c].name) \/ query'[c].fell
              /\ query'[c].at = "served" =>
                   query'[c].source.of = query'[c].model \/ query'[c].shaken \/ query'[c].fell
  PROVE  CatalogInv'
<1>1. CatalogTypeOK /\ Found \subseteq Names
  BY FoundIsNamed DEF CatalogInv
<1>2. CatalogTypeOK' /\ (entries = Found)'
  BY <1>1 DEF CatalogInv, CatalogTypeOK, Found
<1>3. PinsFollowSettings' /\ KindsFollowSettings'
  BY <1>1 DEF CatalogInv, PinsFollowSettings, KindsFollowSettings
<1>4. ReloadPins' /\ DefaultFollowsSettings' /\ PrefsOnFile' /\ GoodPrefs(prefs)' /\ GoodPrefs(prefsFile)'
  BY DEF CatalogInv, ReloadPins, DefaultFollowsSettings, PrefsOnFile, GoodPrefs
<1>5. \A c \in Queries : Resolve(query[c].name) = ResolveIn(entries, prefs, query[c].name)
  BY DEF Resolve, Named, ByEntry, ByAlias, ResolveIn, StrippedIn, NamedIn, EntryIn, AnyOf
<1>6. \A c \in Queries : Resolve(query'[c].name) = ResolveIn(entries, prefs, query'[c].name)
  BY DEF Resolve, Named, ByEntry, ByAlias, ResolveIn, StrippedIn, NamedIn, EntryIn, AnyOf
<1>7. \A c \in Queries : Resolve(query[c].name)' = ResolveIn(entries', prefs', query'[c].name)
  BY DEF Resolve, Named, ByEntry, ByAlias, ResolveIn, StrippedIn, NamedIn, EntryIn, AnyOf
<1>8. \A c \in Queries : Resolve(query[c].name)' = ResolveIn(entries, prefs, query'[c].name)
  BY <1>7
<1>9. WaitingNamed'
  BY <1>5, <1>6, <1>8 DEF CatalogInv, WaitingNamed
<1>10. SettingsOfServedModel'
  BY DEF CatalogInv, SettingsOfServedModel
<1>. QED
  BY <1>2, <1>3, <1>4, <1>9, <1>10 DEF CatalogInv

LEMMA BeginQueryKeeps ==
  ASSUME CatalogInv, NEW c \in Queries, NEW x \in ClientNames, BeginQuery(c, x) PROVE CatalogInv'
<1>1. PICK place, m, fell :
         /\ query' = [query EXCEPT ![c] = [at |-> place, name |-> x, model |-> m, source |-> Unset,
                                           fell |-> fell, shaken |-> FALSE]]
         /\ place # "served" /\ (m = Resolve(x) \/ fell)
  <2> DEFINE named == Resolve(x)
             falls  == named \notin entries /\ modelFallback /\ defaultModel \in entries
             place  == IF named \in entries \/ falls THEN "loading" ELSE "over"
             m      == IF falls THEN defaultModel ELSE named
  <2>1. query' = [query EXCEPT ![c] = [at |-> place, name |-> x, model |-> m, source |-> Unset,
                                       fell |-> falls, shaken |-> FALSE]]
    BY DEF BeginQuery
  <2>2. place # "served" /\ (m = Resolve(x) \/ falls)
    OBVIOUS
  <2> HIDE DEF place, m, falls
  <2>. QED
    BY <2>1, <2>2
<1>2. UNCHANGED <<onDisk, prefs, prefsFile, entries, entryOf, defaultModel, rescan, prefsUnsaved,
                  pinDrift, kindDrift, defaultDrift>>
  BY DEF BeginQuery
<1>3. CatalogTypeOK
  BY DEF CatalogInv
<1>4. /\ DOMAIN query' = Queries
      /\ \A d \in Queries \ {c} : query'[d] = query[d]
      /\ query'[c] = [at |-> place, name |-> x, model |-> m, source |-> Unset, fell |-> fell, shaken |-> FALSE]
  BY <1>1, <1>3 DEF CatalogTypeOK
<1>5. \A d \in Queries :
        \/ query'[d] = query[d]
        \/ /\ DOMAIN query'[d] = {"at", "name", "model", "source", "fell", "shaken"}
           /\ query'[d].at = "loading" => query'[d].model = Resolve(query'[d].name) \/ query'[d].fell
           /\ query'[d].at = "served" =>
                query'[d].source.of = query'[d].model \/ query'[d].shaken \/ query'[d].fell
  BY <1>1, <1>4
<1>. QED
  BY <1>2, <1>3, <1>4, <1>5, RequestsKeep DEF CatalogTypeOK

LEMMA ServeQueryKeeps ==
  ASSUME CatalogInv, NEW c \in Queries, NEW asked \in BOOLEAN, NEW failed \in BOOLEAN,
         ServeQuery(c, asked, failed)
  PROVE  CatalogInv'
<1> DEFINE n == query[c].model
<1>1. /\ query[c].at = "loading" /\ n \in entries
      /\ entryOf' = [entryOf EXCEPT ![n] = [pinned |-> entryOf[n].pinned, loaded |-> TRUE,
                                            kind |-> IF failed THEN "llm" ELSE entryOf[n].kind]]
      /\ kindDrift' = IF failed THEN kindDrift \cup {n} ELSE kindDrift
      /\ query' = [query EXCEPT ![c].at = "served",
                                ![c].source = Temperature(SettingsName(query[c].name), asked)]
      /\ UNCHANGED <<onDisk, prefs, prefsFile, entries, defaultModel, rescan, prefsUnsaved, pinDrift,
                     defaultDrift>>
  BY DEF ServeQuery
<1>2. CatalogTypeOK /\ n \in Names
  BY <1>1, FoundIsNamed DEF CatalogInv
<1>3. /\ DOMAIN query' = Queries
      /\ \A d \in Queries \ {c} : query'[d] = query[d]
      /\ DOMAIN query'[c] = {"at", "name", "model", "source", "fell", "shaken"}
      /\ query'[c].at = "served" /\ query'[c].model = n
      /\ query'[c].source = Temperature(SettingsName(query[c].name), asked)
      /\ query'[c].shaken = query[c].shaken /\ query'[c].fell = query[c].fell
  BY <1>1, <1>2 DEF CatalogTypeOK
<1>4. query'[c].source.of = Resolve(query[c].name)
  BY <1>3 DEF Temperature, SettingsName
<1>5. Resolve(query[c].name) = n \/ query[c].shaken \/ query[c].fell
  BY <1>1 DEF CatalogInv, WaitingNamed
<1>6. /\ DOMAIN entryOf' = Names
      /\ \A m \in Names \ {n} : entryOf'[m] = entryOf[m]
      /\ entryOf'[n] = [pinned |-> entryOf[n].pinned, loaded |-> TRUE,
                        kind |-> IF failed THEN "llm" ELSE entryOf[n].kind]
  BY <1>1, <1>2 DEF CatalogTypeOK
<1>7. \A m \in Names : /\ DOMAIN entryOf'[m] = {"pinned", "kind", "loaded"}
                       /\ entryOf'[m].pinned = entryOf[m].pinned
                       /\ entryOf'[m].kind = entryOf[m].kind \/ m \in kindDrift'
  BY <1>1, <1>2, <1>6 DEF CatalogTypeOK
<1>8. \A d \in Queries :
        \/ query'[d] = query[d]
        \/ /\ DOMAIN query'[d] = {"at", "name", "model", "source", "fell", "shaken"}
           /\ query'[d].at = "loading" => query'[d].model = Resolve(query'[d].name) \/ query'[d].fell
           /\ query'[d].at = "served" =>
                query'[d].source.of = query'[d].model \/ query'[d].shaken \/ query'[d].fell
  BY <1>3, <1>4, <1>5
<1>. QED
  BY <1>1, <1>3, <1>6, <1>7, <1>8, RequestsKeep

LEMMA LostOrUnloadedKeeps ==
  ASSUME CatalogInv,
         \/ \E c \in Queries : LoseQuery(c)
         \/ \E n \in Names : UnloadModel(n)
         \/ UNCHANGED catalogVars
  PROVE  CatalogInv'
<1>1. CatalogTypeOK
  BY DEF CatalogInv
<1>2. UNCHANGED <<onDisk, prefs, prefsFile, entries, defaultModel, rescan, prefsUnsaved, pinDrift,
                  kindDrift, defaultDrift>>
  BY DEF LoseQuery, UnloadModel, catalogVars
<1>3. \/ UNCHANGED query
      \/ \E c \in Queries : query' = [query EXCEPT ![c].at = "over"]
  BY DEF LoseQuery, UnloadModel, catalogVars
<1>4. \/ UNCHANGED entryOf
      \/ \E n \in Names : entryOf' = [entryOf EXCEPT ![n].loaded = FALSE]
  BY DEF LoseQuery, UnloadModel, catalogVars
<1>5. /\ DOMAIN entryOf' = Names
      /\ \A n \in Names : /\ DOMAIN entryOf'[n] = {"pinned", "kind", "loaded"}
                          /\ entryOf'[n].pinned = entryOf[n].pinned
                          /\ entryOf'[n].kind = entryOf[n].kind \/ n \in kindDrift'
  BY <1>1, <1>4 DEF CatalogTypeOK
<1>6. /\ DOMAIN query' = Queries
      /\ \A c \in Queries :
           \/ query'[c] = query[c]
           \/ /\ DOMAIN query'[c] = {"at", "name", "model", "source", "fell", "shaken"}
              /\ query'[c].at = "over"
  BY <1>1, <1>3 DEF CatalogTypeOK
<1>7. \A c \in Queries :
        \/ query'[c] = query[c]
        \/ /\ DOMAIN query'[c] = {"at", "name", "model", "source", "fell", "shaken"}
           /\ query'[c].at = "loading" => query'[c].model = Resolve(query'[c].name) \/ query'[c].fell
           /\ query'[c].at = "served" =>
                query'[c].source.of = query'[c].model \/ query'[c].shaken \/ query'[c].fell
  BY <1>6
<1>. QED
  BY <1>2, <1>5, <1>6, <1>7, RequestsKeep

LEMMA CatalogInvInit == CatalogInit => CatalogInv
<1>. SUFFICES ASSUME CatalogInit PROVE CatalogInv
  OBVIOUS
<1>1. onDisk \subseteq Names
  BY CatalogAssumption DEF CatalogInit, CatalogAssumption
<1>2. prefs = [n \in Names |-> NoPrefs] /\ prefsFile = prefs
  BY DEF CatalogInit
<1>3. GoodPrefs(prefs) /\ GoodPrefs(prefsFile)
  BY <1>2 DEF GoodPrefs, NoPrefs
<1>4. /\ entries = Found
      /\ DOMAIN entryOf = Names
      /\ \A n \in Names : entryOf[n] = IF n \in Found THEN Fresh(n, {}) ELSE NoEntry
  BY DEF CatalogInit
<1>5. ASSUME NEW n \in Names
      PROVE  /\ DOMAIN entryOf[n] = {"pinned", "kind", "loaded"} /\ entryOf[n].pinned = FALSE
             /\ n \in Found => entryOf[n].kind = Detect(n)
  <2>1. entryOf[n] \in {Fresh(n, {}), NoEntry} /\ (n \in Found => entryOf[n] = Fresh(n, {}))
    BY <1>4
  <2>2. /\ DOMAIN Fresh(n, {}) = {"pinned", "kind", "loaded"} /\ Fresh(n, {}).kind = Detect(n)
        /\ Fresh(n, {}).pinned = FALSE
    <3>1. (n \in {}) = FALSE
      OBVIOUS
    <3>2. Fresh(n, {}) = [pinned |-> FALSE, kind |-> Detect(n), loaded |-> FALSE]
      BY <3>1, Zenon DEF Fresh
    <3>. QED
      BY <3>2
  <2>3. DOMAIN NoEntry = {"pinned", "kind", "loaded"} /\ NoEntry.pinned = FALSE
    BY DEF NoEntry
  <2>. QED
    BY <2>1, <2>2, <2>3
<1>6. CatalogTypeOK
  BY <1>1, <1>4, <1>5 DEF CatalogInit, CatalogTypeOK, NoQuery, NoRescan
<1>7. PinsFollowSettings /\ KindsFollowSettings /\ DefaultFollowsSettings
  BY <1>2, <1>4, <1>5, <1>6, FoundIsNamed
     DEF PinsFollowSettings, KindsFollowSettings, DefaultFollowsSettings, NoPrefs
<1>8. ReloadPins /\ WaitingNamed /\ SettingsOfServedModel /\ PrefsOnFile
  BY <1>2 DEF CatalogInit, ReloadPins, WaitingNamed, SettingsOfServedModel, PrefsOnFile, NoRescan, NoQuery
<1>. QED
  BY <1>3, <1>4, <1>6, <1>7, <1>8 DEF CatalogInv

\* Names, pins, kinds, the default, the file and what requests get agree.
THEOREM ModelCatalogAgrees == CatalogSpec => []CatalogAgrees
<1>1. CatalogInv /\ [CatalogNext]_catalogVars => CatalogInv'
  <2>. SUFFICES ASSUME CatalogInv, [CatalogNext]_catalogVars PROVE CatalogInv'
    OBVIOUS
  <2>1. ASSUME NEW n \in Names, NEW req \in PrefRequests, UpdateModelSettings(n, req) PROVE CatalogInv'
    BY <2>1, UpdateModelKeeps
  <2>2. ASSUME NEW n \in Names, DownloadEnds(n) \/ DeleteModel(n) PROVE CatalogInv'
    BY <2>2, DownloadKeeps, DeleteModelKeeps
  <2>3. CASE BeginReload \/ EndReload \/ RestartCatalog
    BY <2>3, BeginReloadKeeps, EndReloadKeeps, RestartKeeps
  <2>4. ASSUME NEW c \in Queries, NEW x \in ClientNames, BeginQuery(c, x) PROVE CatalogInv'
    BY <2>4, BeginQueryKeeps
  <2>5. ASSUME NEW c \in Queries, NEW asked \in BOOLEAN, NEW failed \in BOOLEAN,
               ServeQuery(c, asked, failed)
        PROVE  CatalogInv'
    BY <2>5, ServeQueryKeeps
  <2>. QED
    BY <2>1, <2>2, <2>3, <2>4, <2>5, LostOrUnloadedKeeps, Zenon DEF CatalogNext
<1>2. CatalogInv => CatalogAgrees
  BY DEF CatalogInv, CatalogAgrees, GoodPrefs, NamesAreUnique
<1>. QED
  BY <1>1, <1>2, CatalogInvInit, PTL DEF CatalogSpec
=============================================================================
