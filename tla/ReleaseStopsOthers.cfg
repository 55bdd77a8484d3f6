\* Releasing one session stops another.
SPECIFICATION SessionsSpec
CONSTANTS
  c1 = c1
  c2 = c2
  c3 = c3
  r1 = r1
  p1 = p1
  Task = {c1, c2, c3}
  Runtime = {r1}
  Provider = {p1}
  NoTask = NoTask
  NoRuntime = NoRuntime
  NoProvider = NoProvider
  Request <- Requests
  AcquireRequest <- Acquiring
  Error <- Errors
  StartupError <- NotFound
  DispatchError <- NotFound
  Registration = {"ready"}
  ReRegistration = FALSE
  FailureThreshold = 1
  MaxFailures = 0
  MinWarm = 0
  MaxRuntimes = 1
  Environment = {"release"}
PROPERTIES
  ReleaseSparesOthers
