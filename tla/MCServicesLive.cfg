SPECIFICATION ServicesFairSpec
CONSTANTS
  Services = {"downloads", "mcp", "server", "benchmark", "reply"}
  Tasks = {t1, t2}
  Repos = {a, b}
  None = None
  Servers = {x}
  Enabled = {x}
  Calls = {k1}
  MaxSessions = 2
  MaxFailures = 1
  NoJob = NoJob
  MaxHealthFailures = 1
  MaxAutoRestarts = 1
  StableThreshold = 2
  MaxSpawns = 2
  MaxLoops = 2
  MaxLaunches = 3
  MaxUpdates = 3
  Runs = {b1, b2}
  Readers = {q1}
  Models = {m1}
  Singles = 1
  Batches = 1
  MaxRuns = 1
  NoRun = NoRun
  MaxTokens = 1
  Openings <- MCOpenings
  MaxResponses = 3
  StoreSize = 2
  MaxFaults = 1
  MaxRestarts = 1
  MaxSeconds = 1
  Keys = {"k1", "k2"}
  NoKey = "none"
  Home = "home"
  Drives = {"drive"}
  EditRequests <- MCEditRequests
  Overrides <- MCOverrides
  Absent = Absent
  Torn = Torn
  Edits = {1, 2}
  MaxStarts = 2
  MaxMishaps = 1
  Names = {"a", "b"}
  Aliases = {"b", "x"}
  ClientNames = {"A", "b", "x", "p/x"}
  Lower <- MCLower
  Stripped <- MCStripped
  ConfigOf <- MCConfig
  OcrModels = {"a"}
  PrefRequests <- MCPrefRequests
  FirstOnDisk <- MCFirstOnDisk
  Queries = {1}
  Unset = "unset"
  MaxPrefChanges = 2
  MaxIncidents = 1
  MaxReloads = 1
  Formats <- MCFormats
  MaxSaid = 4
  Vocabulary = {"t", "n", "x", "y", "s"}
  ThinkStart = "s"
  Closings <- MCClosings
  Budgets = {0, 1, 3}
  MaxWritten = 6
  CountedModels = {"a", "b"}
  Missing = Missing
  Broken = Broken
  MaxRequests = 2
  MaxCrashes = 3
  MaxIOFaults = 1
  Blocks = {"a", "b", "c"}
  Sizes = {1, 2}
  MaxCacheSize = 2
  NoBlock = NoBlock
  MaxPuts = 3
  WinModels = {"a", "b", "c"}
  NoModel = NoModel
  Pinnable = {"a"}
  Callers = {"w1", "w2"}
  Watchers = {"x"}
  Teams <- MCTeams
  MaxModels = 1
  MinModels = 1
  Processes = {"p", "q", "r"}
  NoProcess = "none"
  Waiters = {"w1", "w2"}
  MaxExits = 1
PROPERTIES WorkersGoOn ClientsAnswered
CHECK_DEADLOCK FALSE
