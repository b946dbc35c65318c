------------------------------ MODULE MCServices ------------------------------
(* The services around the engines.  They share no state, so the first state *)
(* chooses one, and only that one moves.                                     *)
EXTENDS Downloads, MCPManager, ServerManager, AppUpdate, Benchmark, ReplyStream, StateFiles,
        AdminSettings, ModelCatalog, Conversation, ThinkingBudget, WindowsPort, TrayApp

CONSTANT Services   \* those that are checked

VARIABLE service  \* the service that moves

servicesVars == <<service, downloadVars, mcpVars, serverVars, updateVars, benchVars, replyVars,
                  storeVars, settingsVars, catalogVars, conversationVars, budgetVars, metricsVars,
                  cacheVars, winVars, trayVars>>

MCOpenings == {<< >>, <<"lt", "think>", "w">>, <<"lt", "think>", "[call", "w", "]">>}

\* Bodies of the admin's settings requests, and values given at the start.
MCEditRequests ==
    {[host |-> "lan", limit |-> "off"], [host |-> "local", skip |-> TRUE],
     [key |-> "k2", tuning |-> "custom", limit |-> "half"],
     [key |-> "k1", tuning |-> "invalid"], [key |-> "short", skip |-> TRUE],
     [dirs |-> {"home", "drive"}, tuning |-> "custom"], [dirs |-> {}]}
MCOverrides == {<< >>, [host |-> "lan", tuning |-> "custom", key |-> "k2"]}

\* Two models, a vision and a text model; "b" is a directory and an alias.
MCPrefRequests ==
    {[alias |-> "x"], [alias |-> "b"], [alias |-> "unset"], [pinned |-> TRUE, default |-> TRUE],
     [pinned |-> FALSE, temp |-> TRUE, forced |-> TRUE], [kind |-> "llm"]}
MCLower == [x \in {"a", "b", "x", "A", "p/x", "unset"} |-> IF x = "A" THEN "a" ELSE x]
MCStripped == [x \in {"p/x"} |-> "x"]
MCConfig == [n \in {"a", "b"} |->
    [arch |-> IF n = "a" THEN "vision" ELSE "causal", type |-> "other", vision |-> FALSE,
     rerankName |-> FALSE]]
MCFirstOnDisk == {{}, {"a"}}

\* A harmony tokenizer has tool calling.
MCNoFormat == [api |-> "responses", model |-> "text", native |-> TRUE]
MCFormats == {MCNoFormat}
    \cup {f \in [api : {"chat", "messages"}, model : {"text", "vision", "harmony"}, native : BOOLEAN] :
             f.model = "harmony" => f.native}

\* Closing tags of one token and of several, with and without line ends.
MCNoNewlines == [end |-> <<"t">>, leading |-> << >>, trailing |-> << >>]
MCClosings ==
    {MCNoNewlines,
     [end |-> <<"t">>, leading |-> <<"n">>, trailing |-> <<"n", "n">>],
     [end |-> <<"x", "y">>, leading |-> << >>, trailing |-> <<"n">>]}

\* Two threads of the application that load three models, or one of two twice, or
\* two and the monitor.
MCLoads(as, bs, cs) == [m \in {"a", "b", "c"} |-> CASE m = "a" -> as [] m = "b" -> bs [] m = "c" -> cs]
MCTeams == {[threads |-> {"w1", "w2"}, loads |-> MCLoads(1, 1, 1)],
            [threads |-> {"w1", "w2"}, loads |-> MCLoads(2, 1, 0)],
            [threads |-> {"w1", "w2", "x"}, loads |-> MCLoads(1, 1, 0)]}

ServicesInit ==
    /\ service \in Services
    /\ DownloadInit /\ MCPInit /\ ServerInit /\ UpdateInit /\ BenchInit /\ ReplyInit
    /\ StoreInit /\ SettingsInit /\ CatalogInit /\ ConversationInit
    /\ BudgetInit /\ MetricsInit /\ CacheInit /\ WindowsModelsInit /\ TrayInit
    /\ service = "server" \/ external = "nobody"
    /\ service = "catalog" \/ (onDisk = {} /\ ~modelFallback)
    /\ service = "conversation" \/ format = MCNoFormat
    /\ service = "thinking" \/ (closing = MCNoNewlines /\ budget = 1)
    /\ service = "models" \/ loads = MCLoads(1, 1, 1)

OthersStay ==
    /\ IF service = "downloads" THEN TRUE ELSE UNCHANGED downloadVars
    /\ IF service = "mcp" THEN TRUE ELSE UNCHANGED mcpVars
    /\ IF service = "server" THEN TRUE ELSE UNCHANGED serverVars
    /\ IF service = "update" THEN TRUE ELSE UNCHANGED updateVars
    /\ IF service = "benchmark" THEN TRUE ELSE UNCHANGED benchVars
    /\ IF service = "reply" THEN TRUE ELSE UNCHANGED replyVars
    /\ IF service = "store" THEN TRUE ELSE UNCHANGED storeVars
    /\ IF service = "settings" THEN TRUE ELSE UNCHANGED settingsVars
    /\ IF service = "catalog" THEN TRUE ELSE UNCHANGED catalogVars
    /\ IF service = "conversation" THEN TRUE ELSE UNCHANGED conversationVars
    /\ IF service = "thinking" THEN TRUE ELSE UNCHANGED budgetVars
    /\ IF service = "metrics" THEN TRUE ELSE UNCHANGED metricsVars
    /\ IF service = "blocks" THEN TRUE ELSE UNCHANGED cacheVars
    /\ IF service = "models" THEN TRUE ELSE UNCHANGED winVars
    /\ IF service = "tray" THEN TRUE ELSE UNCHANGED trayVars

ServicesNext == UNCHANGED service /\ OthersStay /\
   (\/ service = "downloads" /\ DownloadNext
    \/ service = "mcp" /\ MCPNext
    \/ service = "server" /\ ServerNext
    \/ service = "update" /\ UpdateNext
    \/ service = "benchmark" /\ BenchNext
    \/ service = "reply" /\ ReplyNext
    \/ service = "store" /\ StoreNext
    \/ service = "settings" /\ SettingsNext
    \/ service = "catalog" /\ CatalogNext
    \/ service = "conversation" /\ ConversationNext
    \/ service = "thinking" /\ BudgetNext
    \/ service = "metrics" /\ MetricsNext
    \/ service = "blocks" /\ CacheNext
    \/ service = "models" /\ WindowsModelsNext
    \/ service = "tray" /\ TrayNext)

ServicesSpec == ServicesInit /\ [][ServicesNext]_servicesVars

\* No step that the fairness of a service names is enabled in its initial
\* state, where the services that were not chosen stay.
ServicesFairSpec ==
    /\ ServicesSpec
    /\ DownloadFairness /\ MCPFairness /\ ServerFairness /\ BenchFairness /\ ReplyFairness

-----------------------------------------------------------------------------
(* Liveness of the services                                                *)

\* The background loops go on: a download that waits is taken up once the slot
\* is free, and a server process that is gone is noticed.
WorkersGoOn == QueueMoves /\ CrashNoticed

\* Whoever waits is answered: a tool call under way ends although its session
\* is closed, the benchmark panel hears the last word, and the engine is freed
\* of a client that has left.
ClientsAnswered == CallsEnd /\ PanelIsTold /\ DisconnectFreesEngine
=============================================================================
