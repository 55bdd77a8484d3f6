\* Routing: every profile and hint, two failures, two ready runtimes; three executions.
SPECIFICATION RoutersSpec
CONSTANTS
  Requests <- AllRequests
  FailureThreshold = 2
  MaxFailures = 2
  MaxReady = 2
  MaxDisabled = 1
  x1 = x1
  x2 = x2
  Client = {x1, x2}
  TaskType = {"navigate"}
  Registry <- Registries
  MaxExecutions = 3
SYMMETRY ClientSymmetry
INVARIANTS
  RouteTypeOK
  ChoiceIsUnique
  LeastRank
  FallbackIsReported
  ExecutorInv
PROPERTIES
  FailureNeverHelps
  HintIsFollowed
  CooldownsHold
