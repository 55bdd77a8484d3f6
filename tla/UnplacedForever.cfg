\* A task whose spawned runtime another request took stays allocating.
SPECIFICATION FairControlPlaneSpec
CONSTANTS
  t1 = t1
  t2 = t2
  t3 = t3
  r1 = r1
  r2 = r2
  p1 = p1
  Task = {t1, t2}
  Runtime = {r1, r2}
  Provider = {p1}
  NoTask = NoTask
  NoRuntime = NoRuntime
  NoProvider = NoProvider
  Request <- Unpinned
  Error <- Errors
  StartupError <- Startup
  DispatchError <- Transport
  Registration = {"ready"}
  ReRegistration = FALSE
  FailureThreshold = 1
  MaxFailures = 0
  MinWarm = 0
  MaxRuntimes = 2
  Environment = {}
PROPERTIES
  UnplacedTaskEnds
