SPECIFICATION Spec
CONSTANTS
  Darwin = TRUE
  Hasty = FALSE
  MaxRestarts = 2
  MaxTries = 2
  MaxCrashes = 3
  MaxSpawns = 5
  Targets = {"t1", "t2"}
  Paths = {"a", "b"}
  Steady = TRUE
  Patient = TRUE
  MaxRequests = 3
  BenchRepos = {"r1", "r2"}
  BenchFiles = {"f1", "f2"}
  BenchCalls = 6
  BenchJobs = 1
  PodEnvs = {"e1", "e2"}
  Pods = {"x", "y"}
  PodDirs = {"d1", "d2"}
  PodCalls = 4
  Terminals = 2
  LogServers = {"s", "t"}
  LogPage = 2
  LogTotal <- LogTotals
  LogCalls = 4
  QuerySites = {"s", "t"}
  QueryRanges = {1, 2}
  QueryWords = {1, 2}
  QueryDepth = 1
  QueryCalls = 5
  StreamEvents = {"log", "done"}
  StreamOutages = 2
  PageRepos = {"r", "s"}
  MappedRepos = {"r"}
  PagePaths = {"a", "b"}
  PageCalls = 5
  PageOutages = 2
  PageTasks = 3
  TreeRepos = {"r", "s"}
  TreeLocals = {"l"}
  TreeDirs = {"d", "e"}
  TreeWords = {"x"}
  TreeCalls = 3
  CheckEnvs = {"e1", "e2"}
  CheckUrls = {"u", "v"}
  CheckCalls = 4
  RouteIps = {"a", "b"}
  RouteDevices = {"d"}
  RouteFiles = {"p", "q"}
  RouteDefaults = {"a"}
  OwnFiles = {"q"}
  OwnIps = {"b"}
  RouteCalls = 3
  BenchUsual = TRUE
  PodsUsual = TRUE
  LogsUsual = TRUE
  QueryUsual = TRUE
  PageUsual = TRUE
  TreeUsual = TRUE
  RouteUsual = TRUE
  CheckUsual = TRUE
INVARIANTS
  TypeOK
  OneBackend
  ShownIsCurrent
  NothingLost
  TextIsWhole
  InAnyOrder
PROPERTIES
  LeavesWhenSettled
  Recovers
CHECK_DEADLOCK FALSE
