INIT Init
NEXT Next
CHECK_DEADLOCK FALSE
CONSTANTS
  FdThreads = {"t1", "t2"}
  Fds = {3, 4}
  UsecPerMs = 2
  Timevals = {0, 3}
  Loaders = {"t1", "t2"}
  Listeners = {"l1"}
  ConfVals = {"a", "b", "bad"}
  MaxEdits = 2
  LogNames = {"x"}
  AppenderSets = {{}, {"File"}, {"Stdout"}}
  Addrs = {"p", "q"}
  MaxSockets = 3
  MaxStarts = 2
  Uris = {"a", "b"}
  Globs = {{"a"}, {"b"}, {"a", "b"}}
  MaxServlets = 4
  SemFibers = {"f", "g"}
  SemInitial = 1
  BatchSize = 2
  MaxNotifies = 3
  PoolThreads = {"w", "v"}
  MaxTasks = 2
  Launches = {"one", "two", "three"}
  MaxForks = 3
INVARIANTS
  SocketsHonoured
  ListenersTold
  LoggersFollow
  AcceptersEnd
  DispatchOrder
  PermitsKept
  TasksOnce
  PidfileTruth
