---------------------------- MODULE MCPManager ----------------------------
(***************************************************************************)
(* Connections to MCP tool servers (src/omlx/mcp/manager.py and client.py).*)
(*                                                                         *)
(* A manager starts, stops and reconnects one client per configured        *)
(* server.  A client's lock covers connect() and disconnect() over their   *)
(* awaits; tool calls and the refresh of the tool list do not take it.  The*)
(* manager's lock covers start() and stop(), not reconnect().              *)
(***************************************************************************)
EXTENDS Integers, FiniteSets

CONSTANTS
    Servers,     \* configured servers
    Enabled,     \* those with config.enabled
    Calls,       \* tool calls of API clients
    MaxSessions, \* bound: connections made to a server
    MaxFailures, \* bound: servers failing to connect or to close
    NoJob

ASSUME MCPAssumption ==
    /\ Enabled \subseteq Servers
    /\ MaxSessions \in Nat /\ MaxFailures \in Nat

Jobs == {"start", "stop", "reconnect"}
ASSUME NoJobAssumption == NoJob \notin Jobs

VARIABLES
    started,      \* _started of the manager
    managerLock,  \* the job holding the manager's _lock, or NoJob
    todo,         \* todo[j][s]: what job j still has to do with the client of s
    state,        \* state[s]: _state of the client
    session,      \* session[s]: _session, the number of the connection, 0 is None
    tools,        \* tools[s]: the connection _tools were read from, 0 if empty
    lock,         \* lock[s]: [job, at] of the coroutine holding the client's _lock
    refreshing,   \* refreshing[s]: connection a refresh_tools is waiting on, or 0
    call,         \* call[k]: [server, session, at]
    open,         \* open[s]: connections made and not closed (processes, streams)
    made,         \* made[s]: connections made so far
    unclosed,     \* unclosed[s]: closings that raised
    failures,     \* failures so far
    overlapped    \* a reconnect was under way while stop() was

mcpVars == <<started, managerLock, todo, state, session, tools, lock, refreshing, call, open,
             made, unclosed, failures, overlapped>>

Nothing == [s \in Servers |-> "none"]
Free == [job |-> NoJob, at |-> "none"]
Busy(j) == \E s \in Servers : todo[j][s] # "none"

MCPInit ==
    /\ started = FALSE
    /\ managerLock = NoJob
    /\ todo = [j \in Jobs |-> Nothing]
    /\ state = [s \in Servers |-> "disconnected"]
    /\ session = [s \in Servers |-> 0]
    /\ tools = [s \in Servers |-> 0]
    /\ lock = [s \in Servers |-> Free]
    /\ refreshing = [s \in Servers |-> 0]
    /\ call = [k \in Calls |-> [server |-> CHOOSE s \in Servers : TRUE, session |-> 0, at |-> "new"]]
    /\ open = [s \in Servers |-> {}]
    /\ made = [s \in Servers |-> 0]
    /\ unclosed = [s \in Servers |-> 0]
    /\ failures = 0
    /\ overlapped = FALSE

-----------------------------------------------------------------------------
(* The manager's jobs                                                      *)

managerRest == <<state, session, tools, lock, refreshing, call, open, made, unclosed, failures>>

\* start(): every enabled client connects, all at once.
StartManager ==
    /\ managerLock = NoJob
    /\ ~started
    /\ managerLock' = "start"
    /\ todo' = [todo EXCEPT !["start"] =
                  [s \in Servers |-> IF s \in Enabled THEN "connect" ELSE "none"]]
    /\ UNCHANGED <<started, overlapped, managerRest>>

StartManagerDone ==
    /\ managerLock = "start"
    /\ ~Busy("start")
    /\ started' = TRUE
    /\ managerLock' = NoJob
    /\ UNCHANGED <<todo, overlapped, managerRest>>

\* stop(): every client disconnects, all at once.
StopManager ==
    /\ managerLock = NoJob
    /\ started
    /\ managerLock' = "stop"
    /\ todo' = [todo EXCEPT !["stop"] = [s \in Servers |-> "disconnect"]]
    /\ overlapped' = (overlapped \/ Busy("reconnect"))
    /\ UNCHANGED <<started, managerRest>>

StopManagerDone ==
    /\ managerLock = "stop"
    /\ ~Busy("stop")
    /\ started' = FALSE
    /\ managerLock' = NoJob
    /\ UNCHANGED <<todo, overlapped, managerRest>>

\* reconnect(server): disconnect, then connect, without the manager's lock.
Reconnect(s) ==
    /\ started
    /\ ~Busy("reconnect")
    /\ made[s] < MaxSessions
    /\ todo' = [todo EXCEPT !["reconnect"][s] = "disconnect"]
    /\ overlapped' = (overlapped \/ managerLock = "stop")
    /\ UNCHANGED <<started, managerLock, managerRest>>

\* The job's part with this client is over, or its next half begins.
Advance(j, s) ==
    todo' = [todo EXCEPT ![j][s] = IF j = "reconnect" /\ @ = "disconnect" THEN "connect" ELSE "none"]

-----------------------------------------------------------------------------
(* MCPClient.connect and disconnect                                        *)

clientRest == <<started, managerLock, call, refreshing, overlapped>>

\* connect() with the lock: nothing to do, disabled, or the transport opens.
ConnectBegins(j, s) ==
    /\ todo[j][s] = "connect"
    /\ lock[s] = Free
    /\ IF state[s] = "connected" \/ s \notin Enabled
       THEN Advance(j, s) /\ UNCHANGED <<state, lock>>
       ELSE /\ state' = [state EXCEPT ![s] = "connecting"]
            /\ lock' = [lock EXCEPT ![s] = [job |-> j, at |-> "opening"]]
            /\ UNCHANGED todo
    /\ UNCHANGED <<clientRest, session, tools, open, made, unclosed, failures>>

\* _connect_stdio or _connect_sse: a process or a stream, and a session on it.
Opened(s) ==
    /\ lock[s].at = "opening"
    /\ made[s] < MaxSessions
    /\ made' = [made EXCEPT ![s] = @ + 1]
    /\ session' = [session EXCEPT ![s] = made'[s]]
    /\ open' = [open EXCEPT ![s] = @ \cup {made'[s]}]
    /\ lock' = [lock EXCEPT ![s].at = "initializing"]
    /\ UNCHANGED <<clientRest, todo, state, tools, unclosed, failures>>

Initialized(s) ==
    /\ lock[s].at = "initializing"
    /\ lock' = [lock EXCEPT ![s].at = "discovering"]
    /\ UNCHANGED <<clientRest, todo, state, session, tools, open, made, unclosed, failures>>

\* _discover_tools: a server that cannot list its tools counts as having none.
Discovered(s) ==
    /\ lock[s].at = "discovering"
    /\ \E found \in {0, session[s]} : tools' = [tools EXCEPT ![s] = found]
    /\ state' = [state EXCEPT ![s] = "connected"]
    /\ lock' = [lock EXCEPT ![s] = Free]
    /\ Advance(lock[s].job, s)
    /\ UNCHANGED <<clientRest, session, open, made, unclosed, failures>>

\* Any exception on the way: state ERROR, and what was opened stays open.
ConnectFails(s) ==
    /\ lock[s].at \in {"opening", "initializing"}
    /\ failures < MaxFailures
    /\ failures' = failures + 1
    /\ state' = [state EXCEPT ![s] = "error"]
    /\ lock' = [lock EXCEPT ![s] = Free]
    /\ Advance(lock[s].job, s)
    /\ UNCHANGED <<clientRest, session, tools, open, made, unclosed>>

\* Mutant: a client that is not connected has nothing to close.
DisconnectBegins_ConnectedOnly(j, s) ==
    /\ todo[j][s] = "disconnect"
    /\ lock[s] = Free
    /\ IF state[s] # "connected"
       THEN Advance(j, s) /\ UNCHANGED lock
       ELSE lock' = [lock EXCEPT ![s] = [job |-> j, at |-> "closing"]] /\ UNCHANGED todo
    /\ UNCHANGED <<clientRest, state, session, tools, open, made, unclosed, failures>>

\* disconnect() with the lock: nothing to do, or everything is closed.
DisconnectBegins(j, s) ==
    /\ todo[j][s] = "disconnect"
    /\ lock[s] = Free
    /\ IF state[s] = "disconnected"
       THEN Advance(j, s) /\ UNCHANGED lock
       ELSE lock' = [lock EXCEPT ![s] = [job |-> j, at |-> "closing"]] /\ UNCHANGED todo
    /\ UNCHANGED <<clientRest, state, session, tools, open, made, unclosed, failures>>

Closed(s) ==
    /\ state' = [state EXCEPT ![s] = "disconnected"]
    /\ tools' = [tools EXCEPT ![s] = 0]
    /\ lock' = [lock EXCEPT ![s] = Free]
    /\ Advance(lock[s].job, s)

DisconnectDone(s) ==
    /\ lock[s].at = "closing"
    /\ Closed(s)
    /\ open' = [open EXCEPT ![s] = @ \ {session[s]}]
    /\ session' = [session EXCEPT ![s] = 0]
    /\ UNCHANGED <<clientRest, made, unclosed, failures>>

\* The exit of the session or of the transport raises: logged, and the
\* transport is left open.
DisconnectRaises(s) ==
    /\ lock[s].at = "closing"
    /\ session[s] # 0
    /\ failures < MaxFailures
    /\ failures' = failures + 1
    /\ unclosed' = [unclosed EXCEPT ![s] = @ + 1]
    /\ Closed(s)
    /\ \E left \in {0, session[s]} : session' = [session EXCEPT ![s] = left]
    /\ UNCHANGED <<clientRest, open, made>>

-----------------------------------------------------------------------------
(* Refreshes and calls, beside the lock                                    *)

\* refresh_tools(): asks the session of the moment.
RefreshTools(s) ==
    /\ state[s] = "connected"
    /\ session[s] # 0
    /\ refreshing[s] = 0
    /\ refreshing' = [refreshing EXCEPT ![s] = session[s]]
    /\ UNCHANGED <<started, managerLock, todo, state, session, tools, lock, call, open, made,
                   unclosed, failures, overlapped>>

\* The answer, or an error, replaces the list, whatever happened meanwhile.
Refreshed(s) ==
    /\ refreshing[s] # 0
    /\ \E found \in {0} \cup ({refreshing[s]} \cap open[s]) : tools' = [tools EXCEPT ![s] = found]
    /\ refreshing' = [refreshing EXCEPT ![s] = 0]
    /\ UNCHANGED <<started, managerLock, todo, state, session, lock, call, open, made, unclosed,
                   failures, overlapped>>

callRest == <<started, managerLock, todo, state, session, tools, lock, refreshing, open, made,
              unclosed, failures, overlapped>>

\* execute_tool() resolves the server, call_tool() checks the connection and
\* takes the session.  Without them the answer is an error, at once.
CallTool(k, s) ==
    /\ call[k].at = "new"
    /\ call' = [call EXCEPT ![k] =
                  IF state[s] = "connected" /\ session[s] # 0
                  THEN [server |-> s, session |-> session[s], at |-> "waiting"]
                  ELSE [server |-> s, session |-> 0, at |-> "refused"]]
    /\ UNCHANGED callRest

\* The server answers on an open session, or the call raises.
CallAnswered(k) ==
    /\ call[k].at = "waiting"
    /\ call[k].session \in open[call[k].server]
    /\ call' = [call EXCEPT ![k].at = "answered"]
    /\ UNCHANGED callRest

CallRaises(k) ==
    /\ call[k].at = "waiting"
    /\ call[k].session \notin open[call[k].server]
    /\ call' = [call EXCEPT ![k].at = "failed"]
    /\ UNCHANGED callRest

CallTimesOut(k) ==
    /\ call[k].at = "waiting"
    /\ call' = [call EXCEPT ![k].at = "failed"]
    /\ UNCHANGED callRest

-----------------------------------------------------------------------------
ClientStep(s) ==
    \/ \E j \in Jobs : ConnectBegins(j, s) \/ DisconnectBegins(j, s)
    \/ Opened(s) \/ Initialized(s) \/ Discovered(s) \/ ConnectFails(s)
    \/ DisconnectDone(s) \/ DisconnectRaises(s)

MCPNext ==
    \/ StartManager \/ StartManagerDone \/ StopManager \/ StopManagerDone
    \/ \E s \in Servers :
         \/ Reconnect(s) \/ ClientStep(s) \/ RefreshTools(s) \/ Refreshed(s)
         \/ \E k \in Calls : CallTool(k, s)
    \/ \E k \in Calls : CallAnswered(k) \/ CallRaises(k) \/ CallTimesOut(k)

\* Timers fire and locks are handed on; servers owe nothing.
MCPFairness == \A k \in Calls : WF_mcpVars(CallTimesOut(k))

MCPSpec == MCPInit /\ [][MCPNext]_mcpVars /\ MCPFairness

-----------------------------------------------------------------------------
(* Properties                                                              *)

\* No server process or stream is lost: a connection that is open is the one
\* the client would close, unless closing an earlier one raised.  Failed
\* connects, reconnects and a stop in between all have to keep this.
ConnectionsAccounted ==
    \A s \in Servers : Cardinality(open[s] \ {session[s]}) <= unclosed[s]

\* After stop() has returned nothing is connected.
StoppedIsDisconnected ==
    ~started /\ managerLock = NoJob =>
        \A s \in Servers : state[s] = "disconnected" /\ lock[s] = Free

\* A connected server offers the tools of this connection (or none): a refresh
\* under way while the client was reconnected does not bring back those of the
\* earlier connection, unless closing that one raised and left it open.
ToolsOfConnection ==
    \A s \in Servers :
        state[s] = "connected" /\ tools[s] # 0 => tools[s] = session[s] \/ unclosed[s] > 0

\* Connections, the manager and the tool lists agree, as long as no reconnect
\* was under way while the manager stopped: a reconnect does not take the
\* manager's lock.  It can connect again behind the stop, and if that fails
\* half way, the next start connects a client in state error, which forgets
\* the connection it had without closing it.
ConnectionsConsistent ==
    ~overlapped => ConnectionsAccounted /\ StoppedIsDisconnected /\ ToolsOfConnection

\* A call whose server never answers, or is disconnected meanwhile, ends.
CallsEnd == \A k \in Calls : call[k].at = "waiting" ~> call[k].at # "waiting"
=============================================================================
