\* Sessions: three calls, two sessions at most, on one runtime that may crash.
SPECIFICATION FairSessionsSpec
CONSTANTS
  c1 = c1
  c2 = c2
  c3 = c3
  r1 = r1
  p1 = p1
  Task = {c1, c2, c3}
  Runtime = {r1}
  Provider = {p1}
  NoTask = NoTask
  NoRuntime = NoRuntime
  NoProvider = NoProvider
  Request <- Requests
  AcquireRequest <- Acquiring
  Error <- Errors
  StartupError <- NotFound
  DispatchError <- NotFound
  Registration = {"ready"}
  ReRegistration = FALSE
  FailureThreshold = 1
  MaxFailures = 1
  MinWarm = 0
  MaxRuntimes = 1
  Environment = {"crash", "release"}
INVARIANTS
  SessionsInv
PROPERTIES
  ReleasedIsLetGo
  ControlPlaneSpec
  CallsReturn
