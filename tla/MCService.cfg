\* Leases: two tasks that pin, pool and flow over one runtime.
SPECIFICATION FairSpec
CONSTANTS
  t1 = t1
  t2 = t2
  t3 = t3
  r1 = r1
  r2 = r2
  p1 = p1
  p2 = p2
  Task = {t1, t2}
  Runtime = {r1}
  Provider = {p1}
  NoTask = NoTask
  NoRuntime = NoRuntime
  NoProvider = NoProvider
  Request <- PinnedRequests
  Error <- Errors
  Registration = {"ready", "failed"}
  ReRegistration = FALSE
  FailureThreshold = 2
  MaxFailures = 2
INVARIANTS
  TypeOK
  LeaseCoherent
  BusyIsLeased
  CoolingIsVisible
PROPERTIES
  GrantsLeases
  CooldownIsServed
  PoolLeaseIsFit
  ProviderRecovers
