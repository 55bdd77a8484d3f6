------------------------------- MODULE Service -------------------------------
(***************************************************************************)
(* The task, runtime and provider registries of the EasyBrowser control    *)
(* plane: internal/service/service.go and internal/service/flow_tasks.go.  *)
(*                                                                         *)
(* Every exported method of the Go type Service takes s.mu for its whole   *)
(* body, so each of them is one action here.  The callers (HTTP handlers,  *)
(* process-manager goroutines, the pool loop) interleave between actions.  *)
(*                                                                         *)
(* A runtime's LeaseID and CurrentTaskID are always assigned together and  *)
(* cleared together, and no code ever compares a lease id, so the field    *)
(* `task' stands for both: a runtime is leased iff its task is not NoTask. *)
(*                                                                         *)
(* Time is abstract.  A cooldownUntil is "zero" (time.Time{}), "pending"   *)
(* (in the future) or "elapsed" (in the past and not cleared yet).  That   *)
(* of a provider is "ending" once a part of the wait is over, so that a    *)
(* failure which sets it afresh is seen to take it back to "pending".  A   *)
(* heartbeat is "fresh", "overdue" (older than heartbeatTimeout, not       *)
(* noticed yet) or "missed" (heartbeatMissed = true).                      *)
(***************************************************************************)
EXTENDS Naturals, FiniteSets

CONSTANTS
  Task,              \* task ids
  Runtime,           \* runtime ids
  Provider,          \* provider ids
  NoTask,            \* the empty CurrentTaskID
  NoRuntime,         \* the empty SelectedRuntimeID / RuntimeID
  NoProvider,        \* the empty SelectedProvider / Target.Provider
  Request,           \* the execute requests callers submit
  Error,             \* the normalized errors completions carry
  Registration,      \* the states runtimes register with
  ReRegistration,    \* may a runtime register again while it is leased?
  FailureThreshold,  \* failures before a cooldown starts (3 in the code)
  MaxFailures        \* bound on every recent-failure counter

ASSUME ThresholdAssumption ==
  FailureThreshold \in Nat /\ MaxFailures \in Nat

ASSUME NullAssumption ==
  /\ NoTask \notin Task
  /\ NoRuntime \notin Runtime
  /\ NoProvider \notin Provider

(* A request, reduced to what the service's control flow reads: `capable'  *)
(* is the set of providers that support the request's mode and action,     *)
(* `rank' the provider's StrategyPriority for its profile and action.      *)
RequestType ==
  [mode     : {"direct", "strategy"},
   provider : Provider \union {NoProvider},
   runtime  : Runtime \union {NoRuntime},
   allowed  : SUBSET Provider,
   capable  : SUBSET Provider,
   rank     : [Provider -> Nat]]

ASSUME RequestAssumption == Request \subseteq RequestType

ASSUME ErrorAssumption ==
  Error \subseteq [category : STRING, code : STRING, candidate : BOOLEAN]

ASSUME RegistrationAssumption ==
  Registration \subseteq {"ready", "failed"} /\ ReRegistration \in BOOLEAN

VARIABLES
  tasks,      \* s.tasks:     what the task table says of each task id
  runtimes,   \* s.runtimes:  what the runtime table says of each runtime id
  providers   \* s.providers: enablement and cooldown of each provider

vars == <<tasks, runtimes, providers>>

-----------------------------------------------------------------------------
(* Records. *)

Timer == {"zero", "pending", "elapsed"}
ProviderTimer == Timer \union {"ending"}

(* "absent" is a task id nextID has not produced yet.  No code assigns     *)
(* "timed_out", so it is not a state of the model.                         *)
Terminal == {"succeeded", "failed", "cancelled"}
TaskState == {"absent", "allocating", "running"} \union Terminal

(* `flow' tells the two constructors of a task record apart.               *)
TaskRecord ==
  [state    : TaskState,
   provider : Provider \union {NoProvider},
   runtime  : Runtime \union {NoRuntime},
   flow     : BOOLEAN]

(* "unknown" is a runtime id that is not a key of s.runtimes.              *)
RuntimeState == {"unknown", "ready", "busy", "cooled", "failed", "stopped"}

RuntimeRecord ==
  [provider  : Provider \union {NoProvider},
   state     : RuntimeState,
   healthy   : BOOLEAN,
   task      : Task \union {NoTask},
   cooldown  : Timer,
   failures  : Nat,
   heartbeat : {"fresh", "overdue", "missed"}]

ProviderRecord == [enabled : BOOLEAN, cooldown : ProviderTimer, failures : Nat]

NewTask == [state |-> "absent", provider |-> NoProvider,
            runtime |-> NoRuntime, flow |-> FALSE]

NewRuntime == [provider |-> NoProvider, state |-> "unknown", healthy |-> FALSE,
               task |-> NoTask, cooldown |-> "zero", failures |-> 0,
               heartbeat |-> "fresh"]

NewProvider == [enabled |-> TRUE, cooldown |-> "zero", failures |-> 0]

Known(r) == r \in Runtime /\ runtimes[r].state # "unknown"

(* View.CooldownActive, which every reader finds freshly synchronised.     *)
CooldownActive(x) == x.cooldown \in {"pending", "ending"}

-----------------------------------------------------------------------------
(* The effect of each locked helper on one record. *)

(* syncRuntimeDerivedLocked: a cooling runtime shows "cooled" unless busy. *)
Sync(rt) ==
  [rt EXCEPT !.state = IF CooldownActive(rt) /\ @ # "busy" THEN "cooled" ELSE @]

(* refreshCooldownsLocked, the heartbeat part.                             *)
NoteHeartbeat(rt) ==
  LET missed == rt.heartbeat = "overdue" /\ rt.state \in {"ready", "busy"}
  IN  [rt EXCEPT !.heartbeat = IF missed THEN "missed" ELSE @,
                 !.healthy   = @ /\ ~missed]

(* refreshCooldownsLocked, the cooldown part.                              *)
Thaw(rt) ==
  LET over == rt.cooldown = "elapsed"
  IN  [rt EXCEPT !.cooldown = IF over THEN "zero" ELSE @,
                 !.failures = IF over THEN 0 ELSE @,
                 !.state    = IF over /\ @ = "cooled" /\ rt.healthy
                              THEN "ready" ELSE @]

RefreshRuntime(rt) ==
  IF rt.state = "unknown" THEN rt ELSE Sync(Thaw(NoteHeartbeat(rt)))

(* Mutant: an elapsed cooldown forgets the failures but is not lifted.     *)
RefreshForgetsToLift(p) ==
  IF p.cooldown = "elapsed" THEN [p EXCEPT !.failures = 0] ELSE p

RefreshProvider(p) ==
  IF p.cooldown = "elapsed" THEN [p EXCEPT !.cooldown = "zero", !.failures = 0]
                            ELSE p

RefreshedRuntimes == [r \in Runtime |-> RefreshRuntime(runtimes[r])]
RefreshedProviders == [p \in Provider |-> RefreshProvider(providers[p])]

(* The body shared by allocateRuntimeLocked, allocateSpecificRuntimeLocked *)
(* and AssignRuntimeToTask.                                                *)
Lease(rt, t) == Sync([rt EXCEPT !.state = "busy", !.task = t])

(* Mutants: a release that keeps the lease, that keeps the state, and that *)
(* does not put a cooling runtime back into "cooled".                      *)
ReleaseKeepsTask(rt) ==
  Sync([rt EXCEPT !.state = IF @ \in {"failed", "cooled"} THEN @ ELSE "ready"])

ReleaseKeepsState(rt) == Sync([rt EXCEPT !.task = NoTask])

ReleaseUnsynced(rt) ==
  [rt EXCEPT !.task  = NoTask,
             !.state = IF @ \in {"failed", "cooled"} THEN @ ELSE "ready"]

(* releaseRuntimeLocked *)
Release(rt) ==
  Sync([rt EXCEPT !.task  = NoTask,
                  !.state = IF @ \in {"failed", "cooled"} THEN @ ELSE "ready"])

(* Mutant: a success ends the cooldown as well.                            *)
SucceedThaws(rt) ==
  Sync([rt EXCEPT !.failures = 0, !.cooldown = "zero",
                  !.state    = IF @ = "failed" THEN @ ELSE "ready",
                  !.healthy  = @ \/ rt.state # "failed"])

(* recordSuccessLocked, the runtime half: anything but "failed" revives.   *)
Succeed(rt) ==
  Sync([rt EXCEPT !.failures = 0,
                  !.state    = IF @ = "failed" THEN @ ELSE "ready",
                  !.healthy  = @ \/ rt.state # "failed"])

(* shouldInvalidateRuntimeForError: the category decides first, then the   *)
(* code, then the cooldown-candidate flag.                                 *)
FatalCategory  == {"abnormal_exit", "startup", "transport"}
BenignCategory == {"blocked", "flow_error", "auth_error", "otp_timeout",
                   "proxy_error"}
FatalCode  == {"dispatch_failed", "child_abnormal_exit", "spawn_failed",
               "ready_timeout", "transport_error", "devtools_transport_error"}
BenignCode == {"action_failed", "action_blocked", "callback", "otp_error",
               "network"}

ShouldInvalidate(e) ==
  \/ e.category \in FatalCategory
  \/ /\ e.category \notin BenignCategory
     /\ \/ e.code \in FatalCode
        \/ e.code \notin BenignCode /\ e.candidate

(* RecentFailures++, which only a comparison with the threshold and the    *)
(* other runtimes' counts reads: MaxFailures stands for "that or more".    *)
CountFailure(n) == IF n < MaxFailures THEN n + 1 ELSE n

(* recordFailureLocked with applyCooldownToRuntimeLocked, the runtime half *)
FailRuntime(rt, e) ==
  LET invalid == ShouldInvalidate(e)
      cools   == /\ invalid
                 /\ \/ CountFailure(rt.failures) >= FailureThreshold
                    \/ e.category = "abnormal_exit"
                 /\ e.candidate
  IN  Sync([rt EXCEPT !.failures = CountFailure(@),
                      !.cooldown = IF cools THEN "pending" ELSE @,
                      !.state    = IF invalid THEN "failed" ELSE @,
                      !.healthy  = @ /\ ~invalid])

(* recordFailureLocked with applyCooldownToProviderLocked: a candidate at  *)
(* or over the threshold sets cooldownUntil, also of a provider that cools *)
(* already, so it goes on cooling for the whole time again.                *)
FailProvider(p, e) ==
  [p EXCEPT !.failures = CountFailure(@),
            !.cooldown = IF CountFailure(p.failures) >= FailureThreshold /\ e.candidate
                         THEN "pending" ELSE @]

(* recordSuccessLocked, the provider half: the cooldown itself stays.      *)
SucceedProvider(p) == [p EXCEPT !.failures = 0]

-----------------------------------------------------------------------------
Init ==
  /\ tasks = [t \in Task |-> NewTask]
  /\ runtimes = [r \in Runtime |-> NewRuntime]
  /\ providers = [p \in Provider |-> NewProvider]

(***************************************************************************)
(* Routing.  Guards read the registries after refreshCooldownsLocked.      *)
(***************************************************************************)
Available(p) ==
  LET pr == RefreshedProviders[p] IN pr.enabled /\ ~CooldownActive(pr)

(* selectProviderLocked, direct mode: the provider named, or the one the   *)
(* named runtime belongs to.                                               *)
DirectProvider(q) ==
  { p \in Provider :
      /\ IF q.runtime = NoRuntime
         THEN p = q.provider
         ELSE /\ Known(q.runtime)
              /\ p = runtimes[q.runtime].provider
              /\ q.provider \in {p, NoProvider}
      /\ p \in q.capable
      /\ Available(p) }

(* selectProviderLocked, strategy mode: a provider of least rank among the *)
(* allowed, capable and available ones.  Which one wins a tie is the score *)
(* of module RouteStrategy; here every one of them may.                    *)
StrategyProvider(q) ==
  LET eligible == { p \in q.capable :
                      /\ p \in q.allowed \/ q.allowed = {}
                      /\ Available(p) }
  IN  { p \in eligible : \A o \in eligible : q.rank[p] <= q.rank[o] }

Selectable(q) ==
  IF q.mode = "direct" THEN DirectProvider(q) ELSE StrategyProvider(q)

(* Mutant: the allocator looks at the state alone.                         *)
AllocatableUnhealthy(p) ==
  { r \in Runtime :
      LET rt == RefreshedRuntimes[r]
      IN  rt.state = "ready" /\ rt.provider = p /\ ~CooldownActive(rt) }

(* allocateRuntimeLocked: ready, healthy and not cooling ...               *)
Allocatable(p) ==
  { r \in Runtime :
      LET rt == RefreshedRuntimes[r]
      IN  rt.state = "ready" /\ rt.provider = p /\ rt.healthy
          /\ ~CooldownActive(rt) }

(* ... with the fewest recent failures; ids break the tie.                 *)
PoolChoice(p) ==
  { r \in Allocatable(p) :
      \A o \in Allocatable(p) :
        RefreshedRuntimes[r].failures <= RefreshedRuntimes[o].failures }

(* Mutant: a pinned runtime is dispatched to without asking what it does.  *)
PinnedUnchecked(q) == {q.runtime}

(* allocateSpecificRuntimeLocked: the pinned runtime, whatever its health, *)
(* unless it is busy with another task.                                    *)
PinnedChoice(q) ==
  { r \in {q.runtime} :
      ~(RefreshedRuntimes[r].state = "busy" /\ runtimes[r].task # NoTask) }

Choice(q, p) == IF q.mode = "direct" /\ q.runtime # NoRuntime
                THEN PinnedChoice(q) ELSE PoolChoice(p)

(* SubmitTask: routes the request and leases a runtime if one can be had;  *)
(* otherwise the task is left "allocating" for the caller to place.        *)
SubmitTask(t, q) ==
  /\ tasks[t].state = "absent"
  /\ \E p \in Selectable(q) :
       \/ /\ Choice(q, p) = {}
          /\ tasks' = [tasks EXCEPT ![t] = [state |-> "allocating",
               provider |-> p, runtime |-> NoRuntime, flow |-> FALSE]]
          /\ runtimes' = RefreshedRuntimes
       \/ \E r \in Choice(q, p) :
            /\ tasks' = [tasks EXCEPT ![t] = [state |-> "running",
                 provider |-> p, runtime |-> r, flow |-> FALSE]]
            /\ runtimes' = [RefreshedRuntimes EXCEPT ![r] = Lease(@, t)]
  /\ providers' = RefreshedProviders

(* AssignRuntimeToTask: places an "allocating" task on a runtime spawned   *)
(* for it.  The task's state is not read: only the runtime is checked.     *)
CanAssign(t, r) ==
  /\ tasks[t].state # "absent"
  /\ r \in Allocatable(runtimes[r].provider)
  /\ tasks[t].provider \in {NoProvider, runtimes[r].provider}

AssignRuntimeToTask(t, r) ==
  /\ CanAssign(t, r)
  /\ runtimes' = [RefreshedRuntimes EXCEPT ![r] = Lease(@, t)]
  /\ tasks' = [tasks EXCEPT ![t].state = "running", ![t].runtime = r,
                            ![t].provider = runtimes[r].provider]
  /\ providers' = RefreshedProviders

(* Every call that only refreshes: GetTask, GetRuntime, ListProviders,     *)
(* ListRuntimes, ProviderStats, RuntimeStats, and the SubmitTask and       *)
(* AssignRuntimeToTask calls that return an error after the refresh.       *)
RefreshCooldowns ==
  /\ runtimes' = RefreshedRuntimes
  /\ providers' = RefreshedProviders
  /\ UNCHANGED tasks

(***************************************************************************)
(* The end of a task.                                                      *)
(***************************************************************************)

(* Mutant: the cancelled state spelt as no reader of it expects.           *)
CancelMisspelt(t) ==
  /\ tasks[t].state \in {"allocating", "running"}
  /\ tasks' = [tasks EXCEPT ![t].state = "canceled"]
  /\ runtimes' = [r \in Runtime |-> IF r = tasks[t].runtime /\ Known(r)
                                    THEN Release(runtimes[r]) ELSE runtimes[r]]
  /\ UNCHANGED providers

(* CancelTask: a task that has not ended is cancelled and the runtime it   *)
(* was placed on is released, whoever that runtime works for now.          *)
CancelTask(t) ==
  /\ tasks[t].state \in {"allocating", "running"}
  /\ tasks' = [tasks EXCEPT ![t].state = "cancelled"]
  /\ runtimes' = [r \in Runtime |-> IF r = tasks[t].runtime /\ Known(r)
                                    THEN Release(runtimes[r]) ELSE runtimes[r]]
  /\ UNCHANGED providers

(* RecordCompletion: the task's state is overwritten whatever it was, the  *)
(* outcome is booked on its provider and on the reporting runtime r, and r *)
(* is released.                                                            *)
RecordSuccess(t, r) ==
  /\ tasks[t].state # "absent"
  /\ tasks' = [tasks EXCEPT ![t].state = "succeeded"]
  /\ providers' = [p \in Provider |-> IF p = tasks[t].provider
                     THEN SucceedProvider(providers[p]) ELSE providers[p]]
  /\ runtimes' = [x \in Runtime |-> IF x = r /\ Known(x)
                    THEN Release(Succeed(runtimes[x])) ELSE runtimes[x]]

RecordFailure(t, r, e) ==
  /\ tasks[t].state # "absent"
  /\ tasks' = [tasks EXCEPT ![t].state = "failed"]
  /\ providers' = [p \in Provider |-> IF p = tasks[t].provider
                     THEN FailProvider(providers[p], e) ELSE providers[p]]
  /\ runtimes' = [x \in Runtime |-> IF x = r /\ Known(x)
                    THEN Release(FailRuntime(runtimes[x], e)) ELSE runtimes[x]]

(* CreateFlowTask and CompleteFlowTask: the status record of a flow run    *)
(* over a session.  No runtime is leased for it.                           *)
CreateFlowTask(t, r, p) ==
  /\ tasks[t].state = "absent"
  /\ tasks' = [tasks EXCEPT ![t] = [state |-> "running", provider |-> p,
                                    runtime |-> r, flow |-> TRUE]]
  /\ UNCHANGED <<runtimes, providers>>

CompleteFlowTask(t, outcome) ==
  /\ tasks[t].state # "absent"
  /\ tasks' = [tasks EXCEPT ![t].state = outcome]
  /\ UNCHANGED <<runtimes, providers>>

(***************************************************************************)
(* Runtimes report, start and stop.                                        *)
(***************************************************************************)

(* RegisterRuntime: neither the task nor the cooldown of a runtime that    *)
(* registers again is touched.                                             *)
RegisterRuntime(r, p, state) ==
  /\ runtimes' = [runtimes EXCEPT ![r] =
       Sync([@ EXCEPT !.provider = p, !.state = state,
                      !.healthy = state # "failed", !.heartbeat = "fresh"])]
  /\ UNCHANGED <<tasks, providers>>

(* RecordHeartbeat: health and the recent-failure count are the child's.   *)
RecordHeartbeat(r, healthy, failures, cooling) ==
  /\ Known(r)
  /\ runtimes' = [runtimes EXCEPT ![r] =
       Sync([runtimes[r] EXCEPT
               !.healthy = healthy, !.failures = failures, !.heartbeat = "fresh",
               !.cooldown = IF cooling /\ @ = "zero" THEN "pending" ELSE @])]
  /\ UNCHANGED <<tasks, providers>>

AbnormalExit == [category |-> "abnormal_exit", code |-> "child_abnormal_exit",
                 candidate |-> TRUE]

(* MarkRuntimeStopped(r, false): the lease goes, its task is left as it is *)
MarkRuntimeStopped(r) ==
  /\ Known(r)
  /\ runtimes' = [runtimes EXCEPT ![r] =
       Sync([@ EXCEPT !.healthy = FALSE, !.task = NoTask,
                      !.state = "stopped"])]
  /\ UNCHANGED <<tasks, providers>>

(* MarkRuntimeStopped(r, true): the task of the lease fails with it.       *)
MarkRuntimeCrashed(r) ==
  /\ Known(r)
  /\ tasks' = [t \in Task |->
       IF t = runtimes[r].task /\ tasks[t].state \notin Terminal
       THEN [tasks[t] EXCEPT !.state = "failed"] ELSE tasks[t]]
  /\ providers' = [p \in Provider |-> IF p = runtimes[r].provider
                     THEN FailProvider(providers[p], AbnormalExit)
                     ELSE providers[p]]
  /\ LET empty == [runtimes[r] EXCEPT !.healthy = FALSE, !.task = NoTask]
     IN  runtimes' = [runtimes EXCEPT ![r] =
           Sync([FailRuntime(empty, AbnormalExit) EXCEPT !.state = "failed"])]

(***************************************************************************)
(* Operators' commands, and the clock.                                     *)
(***************************************************************************)
SetProviderEnabled(p, enabled) ==
  /\ providers' = [providers EXCEPT ![p].enabled = enabled]
  /\ UNCHANGED <<tasks, runtimes>>

ResetProviderCooldown(p) ==
  /\ providers' = [providers EXCEPT ![p].cooldown = "zero", ![p].failures = 0]
  /\ UNCHANGED <<tasks, runtimes>>

ProviderCooldownRuns(p) ==
  /\ providers[p].cooldown = "pending"
  /\ providers' = [providers EXCEPT ![p].cooldown = "ending"]
  /\ UNCHANGED <<tasks, runtimes>>

ProviderCooldownElapses(p) ==
  /\ providers[p].cooldown = "ending"
  /\ providers' = [providers EXCEPT ![p].cooldown = "elapsed"]
  /\ UNCHANGED <<tasks, runtimes>>

RuntimeCooldownElapses(r) ==
  /\ runtimes[r].cooldown = "pending"
  /\ runtimes' = [runtimes EXCEPT ![r].cooldown = "elapsed"]
  /\ UNCHANGED <<tasks, providers>>

HeartbeatOverdue(r) ==
  /\ Known(r) /\ runtimes[r].heartbeat = "fresh"
  /\ runtimes' = [runtimes EXCEPT ![r].heartbeat = "overdue"]
  /\ UNCHANGED <<tasks, providers>>

-----------------------------------------------------------------------------
(***************************************************************************)
(* The callers.  What they never do is part of the specification:          *)
(* - only the handler that submitted a task assigns it a runtime, and only *)
(*   if the submission did not (router.execute, browser.executeAndWait);   *)
(* - a completion names the runtime the task was dispatched to, and none   *)
(*   if no runtime could be spawned; a flow run completes its own record;  *)
(* - a process says runtime_ready once, before its first task, so only a   *)
(*   registration over HTTP can meet a leased runtime (ReRegistration).    *)
(***************************************************************************)
Executing(t) == tasks[t].state # "absent" /\ ~tasks[t].flow

AssignUnplaced(t) ==
  /\ Executing(t) /\ tasks[t].runtime = NoRuntime
  /\ \E r \in Runtime : AssignRuntimeToTask(t, r)

ReportSuccess(t) ==
  /\ Executing(t) /\ tasks[t].runtime # NoRuntime
  /\ RecordSuccess(t, tasks[t].runtime)

ReportFailure(t) ==
  /\ Executing(t)
  /\ \E e \in Error : RecordFailure(t, tasks[t].runtime, e)

StartFlow(t) ==
  \E r \in Runtime : Known(r) /\ CreateFlowTask(t, r, runtimes[r].provider)

EndFlow(t) ==
  /\ tasks[t].flow
  /\ \E outcome \in {"succeeded", "failed"} : CompleteFlowTask(t, outcome)

Register(r) ==
  /\ ReRegistration \/ runtimes[r].task = NoTask
  /\ \E p \in Provider, state \in Registration : RegisterRuntime(r, p, state)

Heartbeat(r) ==
  \E healthy, cooling \in BOOLEAN, failures \in 0..MaxFailures :
    RecordHeartbeat(r, healthy, failures, cooling)

TaskStep ==
  \E t \in Task :
    \/ \E q \in Request : SubmitTask(t, q)
    \/ AssignUnplaced(t)
    \/ CancelTask(t)
    \/ ReportSuccess(t)
    \/ ReportFailure(t)
    \/ StartFlow(t)
    \/ EndFlow(t)

RuntimeStep ==
  \E r \in Runtime :
    \/ Register(r)
    \/ Heartbeat(r)
    \/ MarkRuntimeStopped(r)
    \/ MarkRuntimeCrashed(r)

OperatorStep ==
  \E p \in Provider :
    \/ \E enabled \in BOOLEAN : SetProviderEnabled(p, enabled)
    \/ ResetProviderCooldown(p)

ClockStep ==
  \/ \E p \in Provider : ProviderCooldownRuns(p) \/ ProviderCooldownElapses(p)
  \/ \E r \in Runtime : RuntimeCooldownElapses(r)
  \/ \E r \in Runtime : HeartbeatOverdue(r)

Next == TaskStep \/ RuntimeStep \/ OperatorStep \/ ClockStep \/ RefreshCooldowns

Spec == Init /\ [][Next]_vars

(* Time passes, and the pool loop lists the providers on every tick, which *)
(* refreshes the registries.  A cooldown elapses only if nothing sets it   *)
(* afresh before: a provider may be taken from "ending" back to "pending"  *)
(* for ever.                                                               *)
Fairness ==
  /\ \A p \in Provider : WF_vars(ProviderCooldownRuns(p))
  /\ \A p \in Provider : WF_vars(ProviderCooldownElapses(p))
  /\ WF_vars(RefreshCooldowns)

FairSpec == Spec /\ Fairness

-----------------------------------------------------------------------------
(* Properties. *)

(* Type correctness of the three registries of service.go.                 *)
TypeOK ==
  /\ tasks \in [Task -> TaskRecord]
  /\ runtimes \in [Runtime -> RuntimeRecord]
  /\ providers \in [Provider -> ProviderRecord]

(* The two tables agree on every lease: a runtime works for a task only    *)
(* while that task is running and placed on that very runtime, so no task  *)
(* holds two runtimes and no ended task holds any (releaseRuntimeLocked is *)
(* reached on every way a placed task ends).                               *)
LeaseCoherent ==
  \A r \in Runtime : runtimes[r].task # NoTask =>
    LET task == tasks[runtimes[r].task]
    IN  task.state = "running" /\ task.runtime = r /\ ~task.flow

(* A runtime shows "busy" only while it has a task: none is lost to the    *)
(* pool by a release, a crash or a registration that forgets the state.    *)
BusyIsLeased ==
  \A r \in Runtime : runtimes[r].state = "busy" => runtimes[r].task # NoTask

(* Whatever is recorded about it, a runtime in cooldown shows "cooled" or, *)
(* if pinned, "busy": it is never offered to the pool as "ready".          *)
CoolingIsVisible ==
  \A r \in Runtime :
    CooldownActive(runtimes[r]) => runtimes[r].state \in {"cooled", "busy"}

(* Through all of it the registries keep the promise of module Leases: no  *)
(* lease is stolen (a leased runtime gets a task only after the old one    *)
(* let it go), and no task is ever given a second runtime, not even after  *)
(* its completion, cancellation or crash.                                  *)
Holder == [r \in Runtime |-> runtimes[r].task]

Placed == { t \in Task : Executing(t) /\ tasks[t].runtime # NoRuntime }

Granting == INSTANCE Leases WITH holder <- Holder, granted <- Placed

GrantsLeases == Granting!Spec

(* But for a request that pins its runtime, none is leased that is         *)
(* unhealthy or cooling, and no ready one that fell silent, also when no   *)
(* one has refreshed the tables since (refreshCooldownsLocked before       *)
(* allocation).  A silence that began under a cooldown does escape it: the *)
(* refresh looks at heartbeats before it turns "cooled" into "ready".      *)
FitToLease(rt) ==
  /\ rt.healthy /\ ~CooldownActive(rt)
  /\ rt.state = "ready" => rt.heartbeat # "overdue"

PinnedSubmit ==
  \E t \in Task, q \in Request : q.runtime # NoRuntime /\ SubmitTask(t, q)

PoolLeaseIsFit ==
  [][\A r \in Runtime :
       runtimes[r].task = NoTask /\ runtimes'[r].task # NoTask =>
         FitToLease(runtimes[r]) \/ PinnedSubmit]_vars

(* Nothing but time ends the cooldown of a runtime: not a success, a       *)
(* heartbeat, a registration or a restart.                                 *)
CooldownIsServed ==
  [][\A r \in Runtime :
       CooldownActive(runtimes[r]) => runtimes'[r].cooldown # "zero"]_vars

(* A provider put in cooldown is not out for good: once its failures       *)
(* neither start a cooldown nor extend the one that runs, it is lifted,    *)
(* again and for ever, without an operator or a success (the refresh of    *)
(* service.go:1489).  While they do extend it nothing lifts it, and the    *)
(* pool goes on to start runtimes for a cooling provider.                  *)
Cools(p) == providers[p].cooldown # "pending" /\ providers'[p].cooldown = "pending"

ProviderRecovers ==
  \A p \in Provider :
    <>[][~Cools(p)]_vars => []<>(providers[p].cooldown = "zero")

=============================================================================
