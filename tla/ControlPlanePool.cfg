\* The pool alone stays within MaxRuntimes.
SPECIFICATION ControlPlaneSpec
CONSTANTS
  t1 = t1
  t2 = t2
  t3 = t3
  r1 = r1
  r2 = r2
  p1 = p1
  Task = {t1}
  Runtime = {r1, r2}
  Provider = {p1}
  NoTask = NoTask
  NoRuntime = NoRuntime
  NoProvider = NoProvider
  Request <- PinnedOnly
  Error <- Errors
  StartupError <- Startup
  DispatchError <- Transport
  Registration = {"ready"}
  ReRegistration = FALSE
  FailureThreshold = 1
  MaxFailures = 1
  MinWarm = 2
  MaxRuntimes = 1
  Environment = {"crash", "operator", "pool"}
SYMMETRY Symmetry
INVARIANTS
  WithinCapacity
