---------------------------- MODULE ServiceProofs ----------------------------
(***************************************************************************)
(* Theorems about the registries of module Service, for every set of       *)
(* tasks, runtimes, providers, requests and errors.                        *)
(***************************************************************************)
EXTENDS Service, TLAPS

-----------------------------------------------------------------------------
(* The locked helpers map records to records. *)

(* syncRuntimeDerivedLocked changes nothing but the state.                 *)
LEMMA SyncType ==
  ASSUME NEW rt \in RuntimeRecord
  PROVE  Sync(rt) \in RuntimeRecord
BY DEF Sync, CooldownActive, RuntimeRecord, RuntimeState

(* One field of a record at a time, for the lemmas below.                  *)
LEMMA FieldTypes ==
  ASSUME NEW rt \in RuntimeRecord, NEW f \in Nat, NEW c \in Timer,
         NEW s \in RuntimeState
  PROVE  [rt EXCEPT !.cooldown = c, !.failures = f, !.state = s] \in RuntimeRecord
BY DEF RuntimeRecord

LEMMA RegisteredType ==
  ASSUME NEW rt \in RuntimeRecord, NEW p \in Provider, NEW s \in {"ready", "failed"}
  PROVE  [rt EXCEPT !.provider = p, !.state = s, !.healthy = s # "failed",
                    !.heartbeat = "fresh"] \in RuntimeRecord
<1>1. \A h \in BOOLEAN, t \in RuntimeState :
        [rt EXCEPT !.provider = p, !.state = t, !.healthy = h,
                   !.heartbeat = "fresh"] \in RuntimeRecord
  BY DEF RuntimeRecord
<1>2. (s # "failed") \in BOOLEAN
  OBVIOUS
<1>3. s \in RuntimeState
  BY DEF RuntimeState
<1>. QED  BY Zenon, <1>1, <1>2, <1>3

LEMMA ThawType ==
  ASSUME NEW rt \in RuntimeRecord
  PROVE  Thaw(rt) \in RuntimeRecord
<1>. DEFINE over == rt.cooldown = "elapsed"
            c == IF over THEN "zero" ELSE rt.cooldown
            f == IF over THEN 0 ELSE rt.failures
            s == IF over /\ rt.state = "cooled" /\ rt.healthy
                 THEN "ready" ELSE rt.state
<1>1. rt.cooldown \in Timer /\ rt.failures \in Nat /\ rt.state \in RuntimeState
  BY DEF RuntimeRecord
<1>2. c \in Timer
  BY <1>1 DEF Timer
<1>3. f \in Nat
  BY <1>1
<1>4. s \in RuntimeState
  BY <1>1 DEF RuntimeState
<1>5. Thaw(rt) = [rt EXCEPT !.cooldown = c, !.failures = f, !.state = s]
  BY Zenon DEF Thaw
<1>6. [rt EXCEPT !.cooldown = c, !.failures = f, !.state = s] \in RuntimeRecord
  <2>. HIDE DEF c, f, s
  <2>. QED  BY <1>2, <1>3, <1>4, FieldTypes
<1>. QED  BY Zenon, <1>5, <1>6

LEMMA RefreshType ==
  ASSUME NEW rt \in RuntimeRecord
  PROVE  RefreshRuntime(rt) \in RuntimeRecord
<1>1. NoteHeartbeat(rt) \in RuntimeRecord
  BY DEF NoteHeartbeat, RuntimeRecord
<1>2. Thaw(NoteHeartbeat(rt)) \in RuntimeRecord
  BY <1>1, ThawType
<1>3. Sync(Thaw(NoteHeartbeat(rt))) \in RuntimeRecord
  BY <1>2, SyncType
<1>. QED  BY <1>3 DEF RefreshRuntime

LEMMA LeaseType ==
  ASSUME NEW rt \in RuntimeRecord, NEW t \in Task
  PROVE  Lease(rt, t) \in RuntimeRecord
<1>1. [rt EXCEPT !.state = "busy", !.task = t] \in RuntimeRecord
  BY DEF RuntimeRecord, RuntimeState
<1>. QED  BY <1>1, SyncType DEF Lease

LEMMA ReleaseType ==
  ASSUME NEW rt \in RuntimeRecord
  PROVE  Release(rt) \in RuntimeRecord
<1>1. [rt EXCEPT !.task  = NoTask,
                 !.state = IF @ \in {"failed", "cooled"} THEN @ ELSE "ready"]
        \in RuntimeRecord
  BY DEF RuntimeRecord, RuntimeState
<1>. QED  BY <1>1, SyncType DEF Release

LEMMA SucceedType ==
  ASSUME NEW rt \in RuntimeRecord
  PROVE  Succeed(rt) \in RuntimeRecord
<1>1. [rt EXCEPT !.failures = 0,
                 !.state    = IF @ = "failed" THEN @ ELSE "ready",
                 !.healthy  = @ \/ rt.state # "failed"] \in RuntimeRecord
  BY DEF RuntimeRecord, RuntimeState
<1>. QED  BY <1>1, SyncType DEF Succeed

LEMMA FailType ==
  ASSUME NEW rt \in RuntimeRecord, NEW e
  PROVE  FailRuntime(rt, e) \in RuntimeRecord
<1>1. ASSUME NEW f \in Nat, NEW c \in Timer, NEW s \in RuntimeState,
             NEW h \in BOOLEAN
      PROVE  [rt EXCEPT !.failures = f, !.cooldown = c,
                        !.state = s, !.healthy = h] \in RuntimeRecord
  BY DEF RuntimeRecord
<1>2. CountFailure(rt.failures) \in Nat
  BY DEF RuntimeRecord, CountFailure
<1>3. ASSUME NEW invalid \in BOOLEAN, NEW cools \in BOOLEAN
      PROVE  /\ (IF cools THEN "pending" ELSE rt.cooldown) \in Timer
             /\ (IF invalid THEN "failed" ELSE rt.state) \in RuntimeState
             /\ (rt.healthy /\ ~invalid) \in BOOLEAN
  BY DEF RuntimeRecord, RuntimeState, Timer
<1>. QED
  <2>. DEFINE invalid == ShouldInvalidate(e)
              cools   == /\ invalid
                         /\ \/ CountFailure(rt.failures) >= FailureThreshold
                            \/ e.category = "abnormal_exit"
                         /\ e.candidate
              failed  == [rt EXCEPT !.failures = CountFailure(@),
                            !.cooldown = IF cools THEN "pending" ELSE @,
                            !.state    = IF invalid THEN "failed" ELSE @,
                            !.healthy  = @ /\ ~invalid]
  <2>1. failed \in RuntimeRecord
    <3>. HIDE DEF invalid, cools
    <3>. QED  BY <1>1, <1>2, <1>3
  <2>. QED  BY <2>1, SyncType DEF FailRuntime

(* recordFailureLocked does not end the lease; releaseRuntimeLocked does.  *)
LEMMA FailKeepsTask ==
  ASSUME NEW rt \in RuntimeRecord, NEW e
  PROVE  FailRuntime(rt, e).task = rt.task
BY DEF FailRuntime, Sync, RuntimeRecord

LEMMA ProviderTypes ==
  ASSUME NEW p \in ProviderRecord, NEW e
  PROVE  /\ RefreshProvider(p) \in ProviderRecord
         /\ FailProvider(p, e) \in ProviderRecord
         /\ SucceedProvider(p) \in ProviderRecord
<1>1. ASSUME NEW f \in Nat, NEW c \in ProviderTimer
      PROVE  [p EXCEPT !.failures = f, !.cooldown = c] \in ProviderRecord
  BY DEF ProviderRecord
<1>2. FailProvider(p, e) \in ProviderRecord
  <2>1. CountFailure(p.failures) \in Nat
    BY DEF ProviderRecord, CountFailure
  <2>2. ASSUME NEW cools \in BOOLEAN
        PROVE  (IF cools THEN "pending" ELSE p.cooldown) \in ProviderTimer
    BY DEF ProviderRecord, ProviderTimer, Timer
  <2>. QED  BY <1>1, <2>1, <2>2 DEF FailProvider
<1>3. RefreshProvider(p) \in ProviderRecord /\ SucceedProvider(p) \in ProviderRecord
  BY DEF RefreshProvider, SucceedProvider, ProviderRecord, ProviderTimer, Timer
<1>. QED  BY <1>2, <1>3

(* Refreshing whole registries.                                            *)
LEMMA RefreshedTypes ==
  TypeOK => /\ RefreshedRuntimes \in [Runtime -> RuntimeRecord]
            /\ RefreshedProviders \in [Provider -> ProviderRecord]
BY RefreshType, ProviderTypes DEF TypeOK, RefreshedRuntimes, RefreshedProviders

-----------------------------------------------------------------------------
LEMMA ChoiceIsKnown ==
  ASSUME NEW q \in Request, NEW p \in Selectable(q), NEW r \in Choice(q, p)
  PROVE  r \in Runtime
BY RequestAssumption DEF Choice, PinnedChoice, PoolChoice, Allocatable,
   Selectable, DirectProvider, RequestType, Known

LEMMA TypeInit == Init => TypeOK
BY DEF Init, TypeOK, NewTask, NewRuntime, NewProvider, TaskRecord, TaskState,
       RuntimeRecord, RuntimeState, ProviderRecord, ProviderTimer, Timer

(* One step of any caller leaves the registries well-formed.               *)
LEMMA TypeStep == TypeOK /\ [Next]_vars => TypeOK'
<1>. SUFFICES ASSUME TypeOK, [Next]_vars
              PROVE  TypeOK'
  OBVIOUS
<1>. USE DEF TypeOK
<1>. DEFINE Record(state, p, r, flow) ==
              [state |-> state, provider |-> p, runtime |-> r, flow |-> flow]
<1>0. ASSUME NEW state \in TaskState, NEW p \in Provider \union {NoProvider},
             NEW r \in Runtime \union {NoRuntime}, NEW flow \in BOOLEAN
      PROVE  Record(state, p, r, flow) \in TaskRecord
  BY DEF TaskRecord
<1>1. ASSUME NEW t \in Task, NEW q \in Request, SubmitTask(t, q)
      PROVE  TypeOK'
  <2>1. PICK p \in Selectable(q) :
          \/ /\ Choice(q, p) = {}
             /\ tasks' = [tasks EXCEPT ![t] = Record("allocating", p, NoRuntime, FALSE)]
             /\ runtimes' = RefreshedRuntimes
          \/ \E r \in Choice(q, p) :
               /\ tasks' = [tasks EXCEPT ![t] = Record("running", p, r, FALSE)]
               /\ runtimes' = [RefreshedRuntimes EXCEPT ![r] = Lease(@, t)]
    BY <1>1 DEF SubmitTask
  <2>2. p \in Provider
    BY RequestAssumption
       DEF Selectable, DirectProvider, StrategyProvider, RequestType
  <2>3. providers' \in [Provider -> ProviderRecord]
    BY <1>1, RefreshedTypes DEF SubmitTask
  <2>4. CASE Choice(q, p) = {} /\ runtimes' = RefreshedRuntimes
             /\ tasks' = [tasks EXCEPT ![t] = Record("allocating", p, NoRuntime, FALSE)]
    BY <1>0, <2>2, <2>3, <2>4, RefreshedTypes DEF TaskState
  <2>5. ASSUME NEW r \in Choice(q, p),
               tasks' = [tasks EXCEPT ![t] = Record("running", p, r, FALSE)],
               runtimes' = [RefreshedRuntimes EXCEPT ![r] = Lease(@, t)]
        PROVE  TypeOK'
    <3>1. r \in Runtime
      BY <2>1, <2>5, ChoiceIsKnown
    <3>. QED  BY <1>0, <2>2, <2>3, <2>5, <3>1, RefreshedTypes, LeaseType
              DEF TaskState
  <2>. QED  BY <2>1, <2>4, <2>5
<1>2. ASSUME NEW t \in Task, AssignUnplaced(t)
      PROVE  TypeOK'
  <2>1. PICK r \in Runtime : AssignRuntimeToTask(t, r)
    BY <1>2 DEF AssignUnplaced
  <2>2. [tasks[t] EXCEPT !.state = "running", !.runtime = r,
                         !.provider = runtimes[r].provider] \in TaskRecord
    <3>1. runtimes[r].provider \in Provider \union {NoProvider}
      BY DEF RuntimeRecord
    <3>2. "running" \in TaskState
      BY DEF TaskState
    <3>3. tasks[t] \in TaskRecord
      OBVIOUS
    <3>4. \A p \in Provider \union {NoProvider}, state \in TaskState :
            [tasks[t] EXCEPT !.state = state, !.runtime = r, !.provider = p]
              \in TaskRecord
      BY <3>3 DEF TaskRecord
    <3>. QED  BY <3>1, <3>2, <3>4
  <2>3. tasks' = [tasks EXCEPT ![t] =
          [tasks[t] EXCEPT !.state = "running", !.runtime = r,
                           !.provider = runtimes[r].provider]]
    BY <2>1 DEF AssignRuntimeToTask
  <2>4. tasks' \in [Task -> TaskRecord]
    BY <2>2, <2>3
  <2>5. runtimes' \in [Runtime -> RuntimeRecord]
    BY <2>1, RefreshedTypes, LeaseType DEF AssignRuntimeToTask
  <2>6. providers' \in [Provider -> ProviderRecord]
    BY <2>1, RefreshedTypes DEF AssignRuntimeToTask
  <2>. QED  BY <2>4, <2>5, <2>6
<1>3. ASSUME NEW t \in Task, CancelTask(t)
      PROVE  TypeOK'
  <2>1. [tasks[t] EXCEPT !.state = "cancelled"] \in TaskRecord
    BY DEF TaskRecord, TaskState, Terminal
  <2>2. runtimes' \in [Runtime -> RuntimeRecord]
    BY <1>3, ReleaseType DEF CancelTask
  <2>. QED  BY <1>3, <2>1, <2>2 DEF CancelTask
<1>4. ASSUME NEW t \in Task, ReportSuccess(t)
      PROVE  TypeOK'
  <2>1. [tasks[t] EXCEPT !.state = "succeeded"] \in TaskRecord
    BY DEF TaskRecord, TaskState, Terminal
  <2>2. RecordSuccess(t, tasks[t].runtime)
    BY <1>4 DEF ReportSuccess
  <2>3. runtimes' \in [Runtime -> RuntimeRecord]
    BY <2>2, ReleaseType, SucceedType DEF RecordSuccess
  <2>4. providers' \in [Provider -> ProviderRecord]
    BY <2>2, ProviderTypes DEF RecordSuccess
  <2>. QED  BY <2>1, <2>2, <2>3, <2>4 DEF RecordSuccess
<1>5. ASSUME NEW t \in Task, ReportFailure(t)
      PROVE  TypeOK'
  <2>1. [tasks[t] EXCEPT !.state = "failed"] \in TaskRecord
    BY DEF TaskRecord, TaskState, Terminal
  <2>2. PICK e \in Error : RecordFailure(t, tasks[t].runtime, e)
    BY <1>5 DEF ReportFailure
  <2>3. runtimes' \in [Runtime -> RuntimeRecord]
    BY <2>2, ReleaseType, FailType DEF RecordFailure
  <2>4. providers' \in [Provider -> ProviderRecord]
    BY <2>2, ProviderTypes DEF RecordFailure
  <2>. QED  BY <2>1, <2>2, <2>3, <2>4 DEF RecordFailure
<1>6. ASSUME NEW t \in Task, StartFlow(t) \/ EndFlow(t)
      PROVE  TypeOK'
  <2>1. CASE StartFlow(t)
    <3>1. PICK r \in Runtime : CreateFlowTask(t, r, runtimes[r].provider)
      BY <2>1 DEF StartFlow
    <3>2. Record("running", runtimes[r].provider, r, TRUE) \in TaskRecord
      BY <1>0 DEF RuntimeRecord, TaskState
    <3>. QED  BY <3>1, <3>2 DEF CreateFlowTask
  <2>2. CASE EndFlow(t)
    <3>1. PICK outcome \in {"succeeded", "failed"} : CompleteFlowTask(t, outcome)
      BY <2>2 DEF EndFlow
    <3>2. [tasks[t] EXCEPT !.state = outcome] \in TaskRecord
      BY DEF TaskRecord, TaskState, Terminal
    <3>. QED  BY <3>1, <3>2 DEF CompleteFlowTask
  <2>. QED  BY <1>6, <2>1, <2>2
<1>7. ASSUME NEW r \in Runtime, Register(r) \/ Heartbeat(r)
      PROVE  TypeOK'
  <2>1. CASE Register(r)
    <3>1. PICK p \in Provider, state \in Registration : RegisterRuntime(r, p, state)
      BY SMTT(40), <2>1 DEF Register
    <3>2. [runtimes[r] EXCEPT !.provider = p, !.state = state,
                              !.healthy = state # "failed",
                              !.heartbeat = "fresh"] \in RuntimeRecord
      <4>1. state \in {"ready", "failed"}
        BY RegistrationAssumption
      <4>. QED  BY <4>1, RegisteredType
    <3>. QED  BY <3>1, <3>2, SyncType DEF RegisterRuntime
  <2>2. CASE Heartbeat(r)
    <3>1. PICK healthy, cooling \in BOOLEAN, failures \in 0..MaxFailures :
            RecordHeartbeat(r, healthy, failures, cooling)
      BY <2>2 DEF Heartbeat
    <3>2. failures \in Nat
      BY ThresholdAssumption
    <3>3. [runtimes[r] EXCEPT !.healthy = healthy, !.failures = failures,
                              !.heartbeat = "fresh",
                              !.cooldown = IF cooling /\ @ = "zero"
                                           THEN "pending" ELSE @] \in RuntimeRecord
      <4>1. \A c \in Timer : [runtimes[r] EXCEPT !.healthy = healthy,
                                 !.failures = failures, !.heartbeat = "fresh",
                                 !.cooldown = c] \in RuntimeRecord
        BY ZenonT(60), <3>2 DEF RuntimeRecord
      <4>2. (IF cooling /\ runtimes[r].cooldown = "zero"
             THEN "pending" ELSE runtimes[r].cooldown) \in Timer
        BY DEF RuntimeRecord, Timer
      <4>. QED  BY <4>1, <4>2
    <3>. QED  BY <3>1, <3>3, SyncType DEF RecordHeartbeat
  <2>. QED  BY <1>7, <2>1, <2>2
<1>8. ASSUME NEW r \in Runtime, MarkRuntimeStopped(r)
      PROVE  TypeOK'
  <2>1. [runtimes[r] EXCEPT !.healthy = FALSE, !.task = NoTask,
                            !.state = "stopped"] \in RuntimeRecord
    BY ZenonT(60) DEF RuntimeRecord, RuntimeState
  <2>. QED  BY <1>8, <2>1, SyncType DEF MarkRuntimeStopped
<1>9. ASSUME NEW r \in Runtime, MarkRuntimeCrashed(r)
      PROVE  TypeOK'
  <2>. DEFINE empty  == [runtimes[r] EXCEPT !.healthy = FALSE, !.task = NoTask]
              dead   == FailRuntime(empty, AbnormalExit)
  <2>1. empty \in RuntimeRecord
    BY DEF RuntimeRecord
  <2>2. dead \in RuntimeRecord
    BY <2>1, FailType
  <2>3. [dead EXCEPT !.state = "failed"] \in RuntimeRecord
    <3>. HIDE DEF dead
    <3>. QED  BY <2>2 DEF RuntimeRecord, RuntimeState
  <2>4. runtimes' \in [Runtime -> RuntimeRecord]
    <3>. HIDE DEF dead
    <3>1. Sync([dead EXCEPT !.state = "failed"]) \in RuntimeRecord
      BY <2>3, SyncType
    <3>2. runtimes' = [runtimes EXCEPT ![r] = Sync([dead EXCEPT !.state = "failed"])]
      BY <1>9 DEF MarkRuntimeCrashed, dead
    <3>. QED  BY <3>1, <3>2
  <2>5. \A t \in Task : [tasks[t] EXCEPT !.state = "failed"] \in TaskRecord
    BY DEF TaskRecord, TaskState, Terminal
  <2>6. providers' \in [Provider -> ProviderRecord]
    BY <1>9, ProviderTypes DEF MarkRuntimeCrashed
  <2>7. tasks' \in [Task -> TaskRecord]
    BY <1>9, <2>5 DEF MarkRuntimeCrashed
  <2>. QED  BY <2>4, <2>6, <2>7
<1>10. CASE OperatorStep
  <2>1. PICK p \in Provider :
          \/ \E enabled \in BOOLEAN : SetProviderEnabled(p, enabled)
          \/ ResetProviderCooldown(p)
    BY <1>10 DEF OperatorStep
  <2>2. \A enabled \in BOOLEAN :
          [providers[p] EXCEPT !.enabled = enabled] \in ProviderRecord
    BY DEF ProviderRecord
  <2>3. [providers[p] EXCEPT !.cooldown = "zero", !.failures = 0] \in ProviderRecord
    BY DEF ProviderRecord, ProviderTimer, Timer
  <2>. QED  BY <2>1, <2>2, <2>3 DEF SetProviderEnabled, ResetProviderCooldown
<1>11. CASE ClockStep \/ RefreshCooldowns
  <2>1. \A p \in Provider :
          /\ [providers[p] EXCEPT !.cooldown = "ending"] \in ProviderRecord
          /\ [providers[p] EXCEPT !.cooldown = "elapsed"] \in ProviderRecord
    BY DEF ProviderRecord, ProviderTimer, Timer
  <2>2. \A r \in Runtime :
          /\ [runtimes[r] EXCEPT !.cooldown = "elapsed"] \in RuntimeRecord
          /\ [runtimes[r] EXCEPT !.heartbeat = "overdue"] \in RuntimeRecord
    BY DEF RuntimeRecord, Timer
  <2>. QED  BY <1>11, <2>1, <2>2, RefreshedTypes
            DEF ClockStep, ProviderCooldownRuns, ProviderCooldownElapses, RuntimeCooldownElapses,
                HeartbeatOverdue, RefreshCooldowns
<1>12. CASE UNCHANGED vars
  BY <1>12 DEF vars
<1>. QED
  BY <1>1, <1>2, <1>3, <1>4, <1>5, <1>6, <1>7, <1>8, <1>9, <1>10, <1>11, <1>12
     DEF Next, TaskStep, RuntimeStep

(* Type correctness of the registries: every exported method of the Go     *)
(* type Service leaves the three tables well-formed.                       *)
THEOREM TypeCorrect == Spec => []TypeOK
<1>1. Init => TypeOK
  BY TypeInit
<1>2. TypeOK /\ [Next]_vars => TypeOK'
  BY TypeStep
<1>. QED  BY <1>1, <1>2, PTL DEF Spec
-----------------------------------------------------------------------------
(***************************************************************************)
(* One runtime record at a time.  Fit is inductive on its own: whatever    *)
(* the tasks do, no helper takes a record out of it.                       *)
(***************************************************************************)
Fit(rt) ==
  /\ rt.state = "busy" => rt.task # NoTask
  /\ CooldownActive(rt) => rt.state \in {"cooled", "busy"}
  /\ rt.task # NoTask => rt.state # "unknown"
  /\ rt.task # NoTask /\ ~ReRegistration => rt.state = "busy"

FitRecord == { rt \in RuntimeRecord : Fit(rt) }

LEMMA SyncKeeps ==
  ASSUME NEW rt \in RuntimeRecord
  PROVE  /\ Sync(rt).task = rt.task /\ Sync(rt).cooldown = rt.cooldown
         /\ Sync(rt).healthy = rt.healthy /\ Sync(rt).failures = rt.failures
         /\ Sync(rt).heartbeat = rt.heartbeat
         /\ Sync(rt).provider = rt.provider
         /\ Sync(rt).state = IF CooldownActive(rt) /\ rt.state # "busy"
                             THEN "cooled" ELSE rt.state
BY DEF Sync, RuntimeRecord

(* A refresh moves a runtime between "ready" and "cooled" only.            *)
LEMMA RefreshKeeps ==
  ASSUME NEW rt \in RuntimeRecord
  PROVE  /\ RefreshRuntime(rt).task = rt.task
         /\ RefreshRuntime(rt).provider = rt.provider
         /\ rt.state \in {"busy", "unknown"} => RefreshRuntime(rt).state = rt.state
         /\ RefreshRuntime(rt).state \in {"busy", "unknown"}
              => RefreshRuntime(rt).state = rt.state
BY DEF RefreshRuntime, Sync, Thaw, NoteHeartbeat, CooldownActive,
       RuntimeRecord, RuntimeState

LEMMA RefreshFit ==
  ASSUME NEW rt \in FitRecord
  PROVE  RefreshRuntime(rt) \in FitRecord
<1>1. rt \in RuntimeRecord /\ Fit(rt)
  BY DEF FitRecord
<1>2. RefreshRuntime(rt) \in RuntimeRecord
  BY <1>1, RefreshType
<1>3. CooldownActive(RefreshRuntime(rt)) =>
        RefreshRuntime(rt).state \in {"cooled", "busy"}
  BY <1>1 DEF RefreshRuntime, Sync, Thaw, NoteHeartbeat, CooldownActive,
       RuntimeRecord, RuntimeState, Fit
<1>. QED  BY <1>1, <1>2, <1>3, RefreshKeeps DEF Fit, FitRecord

LEMMA LeaseFit ==
  ASSUME NEW rt \in RuntimeRecord, NEW t \in Task
  PROVE  /\ Lease(rt, t) \in FitRecord
         /\ Lease(rt, t).task = t
<1>1. Lease(rt, t).task = t /\ Lease(rt, t).state = "busy"
  BY DEF Lease, Sync, RuntimeRecord
<1>. QED  BY <1>1, LeaseType, NullAssumption DEF Fit, FitRecord

LEMMA ReleaseFit ==
  ASSUME NEW rt \in RuntimeRecord
  PROVE  /\ Release(rt) \in FitRecord
         /\ Release(rt).task = NoTask
<1>1. Release(rt).task = NoTask /\ Release(rt).state # "busy"
  BY DEF Release, Sync, RuntimeRecord
<1>2. CooldownActive(Release(rt)) => Release(rt).state = "cooled"
  BY DEF Release, Sync, RuntimeRecord, CooldownActive
<1>. QED  BY <1>1, <1>2, ReleaseType DEF Fit, FitRecord

(* MarkRuntimeStopped: a record that lost its task and is not busy.        *)
LEMMA StoppedFit ==
  ASSUME NEW rt \in RuntimeRecord, rt.task = NoTask, rt.state # "busy"
  PROVE  /\ Sync(rt) \in FitRecord
         /\ Sync(rt).task = NoTask
<1>1. Sync(rt).state # "busy"
  BY SyncKeeps
<1>2. CooldownActive(Sync(rt)) => Sync(rt).state = "cooled"
  BY SyncKeeps DEF CooldownActive
<1>. QED  BY <1>1, <1>2, SyncType, SyncKeeps DEF Fit, FitRecord

LEMMA RefreshedFit ==
  runtimes \in [Runtime -> FitRecord] => RefreshedRuntimes \in [Runtime -> FitRecord]
BY RefreshFit DEF RefreshedRuntimes

RuntimesFit == runtimes \in [Runtime -> FitRecord]

LEMMA CrashedFit ==
  ASSUME NEW r \in Runtime, TypeOK, MarkRuntimeCrashed(r)
  PROVE  \E rt \in FitRecord :
           runtimes' = [runtimes EXCEPT ![r] = rt] /\ rt.task = NoTask
<1>. DEFINE empty == [runtimes[r] EXCEPT !.healthy = FALSE, !.task = NoTask]
            dead  == FailRuntime(empty, AbnormalExit)
            new   == [dead EXCEPT !.state = "failed"]
<1>1. empty \in RuntimeRecord /\ empty.task = NoTask
  BY DEF RuntimeRecord, TypeOK
<1>2. dead \in RuntimeRecord /\ dead.task = NoTask
  <2>. HIDE DEF empty
  <2>. QED  BY <1>1, FailType, FailKeepsTask
<1>3. new \in RuntimeRecord /\ new.task = NoTask /\ new.state = "failed"
  <2>. HIDE DEF dead
  <2>. QED  BY <1>2 DEF RuntimeRecord, RuntimeState
<1>4. runtimes' = [runtimes EXCEPT ![r] = Sync(new)]
  BY DEF MarkRuntimeCrashed
<1>. HIDE DEF new
<1>. QED  BY <1>3, <1>4, StoppedFit

LEMMA CrashedIsFree ==
  ASSUME NEW r \in Runtime, TypeOK, MarkRuntimeCrashed(r)
  PROVE  runtimes'[r].task = NoTask
BY CrashedFit DEF TypeOK

(* The whole runtime table: fit records, whatever step is taken.           *)
LEMMA FitStep == TypeOK /\ RuntimesFit /\ [Next]_vars => RuntimesFit'
<1>. SUFFICES ASSUME TypeOK, RuntimesFit, [Next]_vars
              PROVE  RuntimesFit'
  OBVIOUS
<1>. USE DEF RuntimesFit
<1>0. \A r \in Runtime : runtimes[r] \in RuntimeRecord /\ Fit(runtimes[r])
  BY DEF FitRecord
<1>1. ASSUME NEW t \in Task, NEW q \in Request, SubmitTask(t, q)
      PROVE  RuntimesFit'
  <2>1. \/ runtimes' = RefreshedRuntimes
        \/ \E r : runtimes' = [RefreshedRuntimes EXCEPT ![r] = Lease(@, t)]
    BY <1>1 DEF SubmitTask
  <2>. QED  BY <2>1, RefreshedFit, RefreshedTypes, LeaseFit
<1>2. ASSUME NEW t \in Task, AssignUnplaced(t)
      PROVE  RuntimesFit'
  BY <1>2, RefreshedFit, RefreshedTypes, LeaseFit
     DEF AssignUnplaced, AssignRuntimeToTask
<1>3. ASSUME NEW t \in Task, CancelTask(t)
      PROVE  RuntimesFit'
  BY <1>0, <1>3, ReleaseFit DEF CancelTask
<1>4. ASSUME NEW t \in Task, ReportSuccess(t)
      PROVE  RuntimesFit'
  BY <1>0, <1>4, ReleaseFit, SucceedType DEF ReportSuccess, RecordSuccess
<1>5. ASSUME NEW t \in Task, ReportFailure(t)
      PROVE  RuntimesFit'
  BY <1>0, <1>5, ReleaseFit, FailType DEF ReportFailure, RecordFailure
<1>6. ASSUME NEW t \in Task, StartFlow(t) \/ EndFlow(t)
      PROVE  RuntimesFit'
  BY <1>6 DEF StartFlow, EndFlow, CreateFlowTask, CompleteFlowTask
<1>7. ASSUME NEW r \in Runtime, Register(r)
      PROVE  RuntimesFit'
  <2>1. PICK p \in Provider, state \in Registration : RegisterRuntime(r, p, state)
    BY <1>7 DEF Register
  <2>. DEFINE new == [runtimes[r] EXCEPT !.provider = p, !.state = state,
                        !.healthy = state # "failed", !.heartbeat = "fresh"]
  <2>2. new \in RuntimeRecord /\ new.state \in {"ready", "failed"}
        /\ new.task = runtimes[r].task
    <3>1. state \in {"ready", "failed"}
      BY SMTT(40), RegistrationAssumption
    <3>2. new \in RuntimeRecord
      BY <1>0, <3>1, RegisteredType
    <3>. QED  BY <1>0, <3>1, <3>2 DEF RuntimeRecord
  <2>3. runtimes' = [runtimes EXCEPT ![r] = Sync(new)]
    BY <2>1 DEF RegisterRuntime
  <2>4. ReRegistration \/ new.task = NoTask
    BY <1>7, <2>2 DEF Register
  <2>. HIDE DEF new
  <2>5. Sync(new) \in FitRecord
    BY <2>2, <2>4, SyncKeeps, SyncType DEF Fit, FitRecord, CooldownActive
  <2>. QED  BY <2>3, <2>5
<1>8. ASSUME NEW r \in Runtime, Heartbeat(r)
      PROVE  RuntimesFit'
  <2>1. PICK healthy, cooling \in BOOLEAN, failures \in 0..MaxFailures :
          RecordHeartbeat(r, healthy, failures, cooling)
    BY <1>8 DEF Heartbeat
  <2>. DEFINE new == [runtimes[r] EXCEPT !.healthy = healthy,
                        !.failures = failures, !.heartbeat = "fresh",
                        !.cooldown = IF cooling /\ @ = "zero"
                                     THEN "pending" ELSE @]
  <2>2. failures \in Nat
    BY ThresholdAssumption
  <2>3. new \in RuntimeRecord /\ new.state = runtimes[r].state
        /\ new.task = runtimes[r].task
    BY ZenonT(60), <1>0, <2>2 DEF RuntimeRecord, Timer
  <2>4. runtimes' = [runtimes EXCEPT ![r] = Sync(new)]
    BY <2>1 DEF RecordHeartbeat
  <2>5. new.state # "unknown"
    BY <2>1, <2>3 DEF RecordHeartbeat, Known
  <2>6. Fit(runtimes[r])
    BY <1>0
  <2>. HIDE DEF new
  <2>7. Sync(new) \in FitRecord
    BY <2>3, <2>5, <2>6, SyncKeeps, SyncType DEF Fit, FitRecord, CooldownActive
  <2>. QED  BY <2>4, <2>7
<1>9. ASSUME NEW r \in Runtime, MarkRuntimeStopped(r)
      PROVE  RuntimesFit'
  <2>1. [runtimes[r] EXCEPT !.healthy = FALSE, !.task = NoTask, !.state = "stopped"]
          \in RuntimeRecord
    BY <1>0 DEF RuntimeRecord, RuntimeState
  <2>. QED  BY <1>0, <1>9, <2>1, StoppedFit DEF MarkRuntimeStopped, RuntimeRecord
<1>10. ASSUME NEW r \in Runtime, MarkRuntimeCrashed(r)
       PROVE  RuntimesFit'
  <2>1. PICK rt \in FitRecord : runtimes' = [runtimes EXCEPT ![r] = rt]
    BY <1>10, CrashedFit
  <2>. QED  BY <2>1
<1>11. CASE OperatorStep
  BY <1>11 DEF OperatorStep, SetProviderEnabled, ResetProviderCooldown
<1>12. CASE ClockStep
  <2>1. \A r \in Runtime :
          /\ [runtimes[r] EXCEPT !.cooldown = "elapsed"] \in FitRecord
          /\ [runtimes[r] EXCEPT !.heartbeat = "overdue"] \in FitRecord
    BY <1>0 DEF FitRecord, Fit, CooldownActive, RuntimeRecord, Timer
  <2>. QED  BY <1>12, <2>1 DEF ClockStep, ProviderCooldownRuns, ProviderCooldownElapses,
               RuntimeCooldownElapses, HeartbeatOverdue
<1>13. CASE RefreshCooldowns \/ UNCHANGED vars
  BY <1>13, RefreshedFit DEF RefreshCooldowns, vars
<1>. QED
  BY <1>1, <1>2, <1>3, <1>4, <1>5, <1>6, <1>7, <1>8, <1>9, <1>10, <1>11, <1>12, <1>13
     DEF Next, TaskStep, RuntimeStep

LEMMA FitInit == Init => RuntimesFit
BY DEF Init, RuntimesFit, NewRuntime, FitRecord, Fit, RuntimeRecord,
       RuntimeState, Timer, CooldownActive

LEMMA AlwaysFit == Spec => [](TypeOK /\ RuntimesFit)
<1>1. Init => RuntimesFit
  BY FitInit
<1>2. RuntimesFit /\ TypeOK /\ [Next]_vars => RuntimesFit'
  BY FitStep
<1>. QED  BY <1>1, <1>2, TypeCorrect, PTL DEF Spec

(* No runtime is lost to the pool in state "busy": every release, crash    *)
(* and registration gives the state up with the task.                      *)
THEOREM BusyRuntimesAreLeased == Spec => []BusyIsLeased
<1>1. RuntimesFit => BusyIsLeased
  BY DEF RuntimesFit, FitRecord, Fit, BusyIsLeased
<1>. QED  BY <1>1, AlwaysFit, PTL

(* A cooling runtime shows "cooled" or "busy" after every locked method,   *)
(* whatever outcome, heartbeat or registration it recorded.                *)
THEOREM CoolingRuntimesAreVisible == Spec => []CoolingIsVisible
<1>1. RuntimesFit => CoolingIsVisible
  BY DEF RuntimesFit, FitRecord, Fit, CoolingIsVisible
<1>. QED  BY <1>1, AlwaysFit, PTL

-----------------------------------------------------------------------------
(***************************************************************************)
(* The task table and the runtime table agree on every lease.              *)
(***************************************************************************)
LEMMA CoherentStep ==
  TypeOK /\ RuntimesFit /\ LeaseCoherent /\ [Next]_vars => LeaseCoherent'
<1>. SUFFICES ASSUME TypeOK, RuntimesFit, LeaseCoherent, [Next]_vars
              PROVE  LeaseCoherent'
  OBVIOUS
<1>0. \A r \in Runtime :
        /\ runtimes[r] \in RuntimeRecord
        /\ runtimes[r].task # NoTask => Known(r)
        /\ RefreshedRuntimes[r] \in RuntimeRecord
        /\ RefreshedRuntimes[r].task = runtimes[r].task
  BY RefreshedTypes, RefreshKeeps
     DEF RuntimesFit, FitRecord, Fit, Known, RefreshedRuntimes, TypeOK
<1>. DEFINE Agree(r) == LET task == tasks[runtimes[r].task]
                       IN  task.state = "running" /\ task.runtime = r /\ ~task.flow
<1>. SUFFICES ASSUME NEW x \in Runtime, runtimes'[x].task # NoTask
              PROVE  Agree(x)'
  BY DEF LeaseCoherent
<1>a. runtimes'[x].task = runtimes[x].task => Agree(x) /\ runtimes[x].task \in Task
  BY <1>0 DEF LeaseCoherent, RuntimeRecord
<1>1. ASSUME NEW t \in Task, NEW q \in Request, SubmitTask(t, q)
      PROVE  Agree(x)'
  <2>. USE DEF TypeOK, TaskRecord
  <2>1. PICK p : \/ /\ tasks' = [tasks EXCEPT ![t] = [state |-> "allocating",
                         provider |-> p, runtime |-> NoRuntime, flow |-> FALSE]]
                    /\ runtimes' = RefreshedRuntimes
                 \/ \E r \in Choice(q, p) :
                    /\ tasks' = [tasks EXCEPT ![t] = [state |-> "running",
                         provider |-> p, runtime |-> r, flow |-> FALSE]]
                    /\ runtimes' = [RefreshedRuntimes EXCEPT ![r] = Lease(@, t)]
    BY <1>1 DEF SubmitTask
  <2>2. tasks[t].state = "absent"
    BY <1>1 DEF SubmitTask
  <2>3. CASE runtimes'[x].task = runtimes[x].task
    <3>1. runtimes[x].task # t /\ Agree(x)
      BY <1>a, <2>2, <2>3
    <3>2. tasks'[runtimes[x].task] = tasks[runtimes[x].task]
      BY <2>1, <3>1, <1>a, <2>3
    <3>. QED  BY <2>3, <3>1, <3>2
  <2>4. CASE runtimes'[x].task # runtimes[x].task
    <3>1. PICK r \in Choice(q, p) :
            /\ tasks' = [tasks EXCEPT ![t] = [state |-> "running",
                 provider |-> p, runtime |-> r, flow |-> FALSE]]
            /\ runtimes' = [RefreshedRuntimes EXCEPT ![r] = Lease(@, t)]
      BY <1>0, <2>1, <2>4
    <3>2. x = r /\ runtimes'[x].task = t
      BY <1>0, <2>4, <3>1, RefreshedTypes, LeaseFit
    <3>. QED  BY <3>1, <3>2
  <2>. QED  BY <2>3, <2>4
<1>2. ASSUME NEW t \in Task, AssignUnplaced(t)
      PROVE  Agree(x)'
  <2>. USE DEF TypeOK, TaskRecord
  <2>1. PICK r \in Runtime : AssignRuntimeToTask(t, r)
    BY <1>2 DEF AssignUnplaced
  <2>2. tasks[t].runtime = NoRuntime /\ ~tasks[t].flow
    BY <1>2 DEF AssignUnplaced, Executing
  <2>3. CASE x = r
    <3>1. runtimes'[x].task = t
      BY <1>0, <2>1, <2>3, RefreshedTypes, LeaseFit DEF AssignRuntimeToTask
    <3>. QED  BY <2>1, <2>2, <2>3, <3>1 DEF AssignRuntimeToTask
  <2>4. CASE x # r
    <3>1. runtimes'[x].task = runtimes[x].task
      BY <1>0, <2>1, <2>4, RefreshedTypes DEF AssignRuntimeToTask
    <3>2. runtimes[x].task # t
      BY <1>a, <2>2, <3>1, NullAssumption
    <3>3. tasks'[runtimes[x].task] = tasks[runtimes[x].task]
      BY <1>a, <2>1, <3>1, <3>2 DEF AssignRuntimeToTask
    <3>. QED  BY <1>a, <3>1, <3>3
  <2>. QED  BY <2>3, <2>4
<1>3. ASSUME NEW t \in Task, CancelTask(t)
      PROVE  Agree(x)'
  <2>1. ~(x = tasks[t].runtime /\ Known(x)) /\ runtimes'[x] = runtimes[x]
    BY <1>0, <1>3, ReleaseFit DEF CancelTask
  <2>2. runtimes[x].task # t
    BY <1>0, <1>a, <2>1
  <2>3. tasks'[runtimes[x].task] = tasks[runtimes[x].task]
    BY <1>a, <1>3, <2>1, <2>2 DEF CancelTask, TypeOK
  <2>. QED  BY <1>a, <2>1, <2>3
<1>4. ASSUME NEW t \in Task, ReportSuccess(t)
      PROVE  Agree(x)'
  <2>1. ~(x = tasks[t].runtime /\ Known(x)) /\ runtimes'[x] = runtimes[x]
    BY <1>0, <1>4, ReleaseFit, SucceedType DEF ReportSuccess, RecordSuccess
  <2>2. runtimes[x].task # t
    BY <1>0, <1>a, <2>1
  <2>3. tasks'[runtimes[x].task] = tasks[runtimes[x].task]
    BY <1>a, <1>4, <2>1, <2>2 DEF ReportSuccess, RecordSuccess, TypeOK
  <2>. QED  BY <1>a, <2>1, <2>3
<1>5. ASSUME NEW t \in Task, ReportFailure(t)
      PROVE  Agree(x)'
  <2>1. ~(x = tasks[t].runtime /\ Known(x)) /\ runtimes'[x] = runtimes[x]
    BY <1>0, <1>5, ReleaseFit, FailType DEF ReportFailure, RecordFailure
  <2>2. runtimes[x].task # t
    BY <1>0, <1>a, <2>1
  <2>3. tasks'[runtimes[x].task] = tasks[runtimes[x].task]
    BY <1>a, <1>5, <2>1, <2>2 DEF ReportFailure, RecordFailure, TypeOK
  <2>. QED  BY <1>a, <2>1, <2>3
<1>6. ASSUME NEW t \in Task, StartFlow(t) \/ EndFlow(t)
      PROVE  Agree(x)'
  <2>1. runtimes' = runtimes /\ (tasks[t].state = "absent" \/ tasks[t].flow)
    BY <1>6 DEF StartFlow, EndFlow, CreateFlowTask, CompleteFlowTask
  <2>2. runtimes[x].task # t
    BY <1>a, <2>1
  <2>3. tasks'[runtimes[x].task] = tasks[runtimes[x].task]
    BY <1>6, <1>a, <2>1, <2>2
       DEF StartFlow, EndFlow, CreateFlowTask, CompleteFlowTask, TypeOK
  <2>. QED  BY <1>a, <2>1, <2>3
<1>7. ASSUME NEW r \in Runtime, Register(r) \/ Heartbeat(r)
      PROVE  Agree(x)'
  <2>1. tasks' = tasks
    BY <1>7 DEF Register, Heartbeat, RegisterRuntime, RecordHeartbeat
  <2>2. runtimes'[x].task = runtimes[x].task
    <3>1. CASE Register(r)
      BY <1>0, <3>1 DEF Register, RegisterRuntime, Sync, RuntimeRecord, TypeOK
    <3>2. CASE Heartbeat(r)
      BY <1>0, <3>2 DEF Heartbeat, RecordHeartbeat, Sync, RuntimeRecord, TypeOK
    <3>. QED  BY <1>7, <3>1, <3>2
  <2>. QED  BY <1>a, <2>1, <2>2
<1>8. ASSUME NEW r \in Runtime, MarkRuntimeStopped(r)
      PROVE  Agree(x)'
  <2>1. tasks' = tasks
    BY <1>8 DEF MarkRuntimeStopped
  <2>2. runtimes'[x].task = runtimes[x].task
    BY <1>0, <1>8 DEF MarkRuntimeStopped, Sync, RuntimeRecord, TypeOK
  <2>. QED  BY <1>a, <2>1, <2>2
<1>9. ASSUME NEW r \in Runtime, MarkRuntimeCrashed(r)
      PROVE  Agree(x)'
  <2>1. x # r
    BY <1>9, CrashedIsFree
  <2>2. runtimes'[x] = runtimes[x]
    BY <1>9, <2>1 DEF MarkRuntimeCrashed, TypeOK
  <2>3. runtimes[x].task # runtimes[r].task
    BY <1>a, <1>0, <2>1, <2>2 DEF LeaseCoherent
  <2>4. tasks'[runtimes[x].task] = tasks[runtimes[x].task]
    BY <1>9, <1>a, <2>2, <2>3 DEF MarkRuntimeCrashed
  <2>. QED  BY <1>a, <2>2, <2>4
<1>10. CASE OperatorStep \/ ClockStep
  <2>1. tasks' = tasks
    BY <1>10 DEF OperatorStep, SetProviderEnabled, ResetProviderCooldown, ClockStep,
       ProviderCooldownRuns, ProviderCooldownElapses, RuntimeCooldownElapses, HeartbeatOverdue
  <2>2. runtimes'[x].task = runtimes[x].task
    <3>1. CASE OperatorStep \/ \E p \in Provider :
                        ProviderCooldownRuns(p) \/ ProviderCooldownElapses(p)
      BY <3>1 DEF OperatorStep, SetProviderEnabled, ResetProviderCooldown,
         ProviderCooldownRuns, ProviderCooldownElapses
    <3>2. \A r \in Runtime : /\ [runtimes[r] EXCEPT !.cooldown = "elapsed"].task
                                 = runtimes[r].task
                             /\ [runtimes[r] EXCEPT !.heartbeat = "overdue"].task
                                 = runtimes[r].task
      BY <1>0 DEF RuntimeRecord
    <3>3. CASE \E r \in Runtime : RuntimeCooldownElapses(r) \/ HeartbeatOverdue(r)
      BY <3>2, <3>3 DEF RuntimeCooldownElapses, HeartbeatOverdue, TypeOK
    <3>. QED  BY <1>10, <3>1, <3>3 DEF ClockStep
  <2>. QED  BY <1>a, <2>1, <2>2
<1>11. CASE RefreshCooldowns \/ UNCHANGED vars
  BY <1>0, <1>11 DEF RefreshCooldowns, vars, LeaseCoherent
<1>. QED
  BY <1>1, <1>2, <1>3, <1>4, <1>5, <1>6, <1>7, <1>8, <1>9, <1>10, <1>11
     DEF Next, TaskStep, RuntimeStep

(* No task holds two runtimes and no ended task holds any: the two tables  *)
(* agree on every lease, through every completion, cancellation, crash and *)
(* shutdown the handlers can interleave.                                   *)
THEOREM LeasesAreCoherent == Spec => []LeaseCoherent
<1>1. Init => LeaseCoherent
  BY DEF Init, LeaseCoherent, NewRuntime
<1>2. TypeOK /\ RuntimesFit /\ LeaseCoherent /\ [Next]_vars => LeaseCoherent'
  BY CoherentStep
<1>. QED  BY <1>1, <1>2, AlwaysFit, PTL DEF Spec

-----------------------------------------------------------------------------
(***************************************************************************)
(* Action properties.                                                      *)
(***************************************************************************)

(* What a step may do to the lease of one runtime: keep it, end it, or     *)
(* give it to a task the allocator placed there.                           *)
LEMMA LeaseMoves ==
  ASSUME TypeOK, RuntimesFit, [Next]_vars, NEW x \in Runtime,
         runtimes'[x].task \notin {runtimes[x].task, NoTask}
  PROVE  \/ \E t \in Task, q \in Request :
              SubmitTask(t, q) /\ \E p \in Selectable(q) : x \in Choice(q, p)
         \/ \E t \in Task : CanAssign(t, x)
<1>0. /\ runtimes[x] \in RuntimeRecord
      /\ RefreshedRuntimes[x] \in RuntimeRecord
      /\ RefreshedRuntimes[x].task = runtimes[x].task
  BY RefreshedTypes, RefreshKeeps DEF TypeOK, RefreshedRuntimes
<1>1. ASSUME NEW t \in Task, NEW q \in Request, SubmitTask(t, q)
      PROVE  \E p \in Selectable(q) : x \in Choice(q, p)
  <2>1. PICK p \in Selectable(q) :
          \/ runtimes' = RefreshedRuntimes
          \/ \E r \in Choice(q, p) :
               runtimes' = [RefreshedRuntimes EXCEPT ![r] = Lease(@, t)]
    BY <1>1 DEF SubmitTask
  <2>2. x \in Choice(q, p)
    BY <1>0, <2>1, RefreshedTypes
  <2>. QED  BY <2>2
<1>2. ASSUME NEW t \in Task, AssignUnplaced(t)
      PROVE  CanAssign(t, x)
  BY <1>0, <1>2, RefreshedTypes DEF AssignUnplaced, AssignRuntimeToTask
<1>3. ASSUME NEW t \in Task, CancelTask(t) \/ ReportSuccess(t) \/ ReportFailure(t)
      PROVE  FALSE
  BY <1>0, <1>3, ReleaseFit, SucceedType, FailType
     DEF CancelTask, ReportSuccess, ReportFailure, RecordSuccess, RecordFailure, TypeOK
<1>4. ASSUME NEW t \in Task, StartFlow(t) \/ EndFlow(t)
      PROVE  FALSE
  BY <1>4 DEF StartFlow, EndFlow, CreateFlowTask, CompleteFlowTask
<1>5. ASSUME NEW r \in Runtime, Register(r)
      PROVE  FALSE
  BY <1>0, <1>5 DEF Register, RegisterRuntime, Sync, RuntimeRecord, TypeOK
<1>6. ASSUME NEW r \in Runtime, Heartbeat(r)
      PROVE  FALSE
  BY <1>0, <1>6 DEF Heartbeat, RecordHeartbeat, Sync, RuntimeRecord, TypeOK
<1>7. ASSUME NEW r \in Runtime, MarkRuntimeStopped(r)
      PROVE  FALSE
  BY <1>0, <1>7 DEF MarkRuntimeStopped, Sync, RuntimeRecord, TypeOK
<1>8. ASSUME NEW r \in Runtime, MarkRuntimeCrashed(r)
      PROVE  FALSE
  <2>1. PICK rt : runtimes' = [runtimes EXCEPT ![r] = rt] /\ rt.task = NoTask
    BY <1>8, CrashedFit
  <2>. QED  BY <2>1 DEF TypeOK
<1>9. CASE OperatorStep \/ \E p \in Provider :
                        ProviderCooldownRuns(p) \/ ProviderCooldownElapses(p)
  BY <1>9 DEF OperatorStep, SetProviderEnabled, ResetProviderCooldown,
     ProviderCooldownRuns, ProviderCooldownElapses
<1>10. CASE \E r \in Runtime : RuntimeCooldownElapses(r) \/ HeartbeatOverdue(r)
  BY <1>0, <1>10 DEF RuntimeCooldownElapses, HeartbeatOverdue, TypeOK, RuntimeRecord
<1>11. CASE RefreshCooldowns \/ UNCHANGED vars
  BY <1>0, <1>11 DEF RefreshCooldowns, vars
<1>. QED
  BY <1>1, <1>2, <1>3, <1>4, <1>5, <1>6, <1>7, <1>8, <1>9, <1>10, <1>11
     DEF Next, TaskStep, RuntimeStep, ClockStep

(* While nobody registers over HTTP, a leased runtime is busy, so neither  *)
(* allocator offers it: its lease can only end.                            *)
LEMMA NotStolen ==
  ASSUME ~ReRegistration, TypeOK, RuntimesFit, [Next]_vars,
         NEW x \in Runtime, runtimes[x].task # NoTask
  PROVE  runtimes'[x].task \in {runtimes[x].task, NoTask}
<1>. SUFFICES ASSUME runtimes'[x].task \notin {runtimes[x].task, NoTask}
              PROVE  FALSE
  OBVIOUS
<1>1. runtimes[x].state = "busy" /\ runtimes[x] \in RuntimeRecord
  BY DEF RuntimesFit, FitRecord, Fit
<1>2. RefreshedRuntimes[x].state = "busy"
  BY <1>1, RefreshKeeps DEF RefreshedRuntimes
<1>3. ASSUME NEW q \in Request, NEW p \in Selectable(q), x \in Choice(q, p)
      PROVE  FALSE
  BY <1>2, <1>3 DEF Choice, PinnedChoice, PoolChoice, Allocatable
<1>4. ASSUME NEW t \in Task, CanAssign(t, x)
      PROVE  FALSE
  BY <1>2, <1>4 DEF CanAssign, Allocatable
<1>. QED  BY <1>3, <1>4, LeaseMoves

(* A step that changes one runtime's task, and places no task unless it    *)
(* gives it that runtime, is a step of Leases.                             *)
LEMMA Granted ==
  ASSUME NEW t \in Task, NEW r \in Runtime,
         t \notin Placed, runtimes[r].task = NoTask,
         \A x \in Runtime : runtimes'[x].task = IF x = r THEN t ELSE runtimes[x].task,
         Placed' = Placed \union {t}
  PROVE  Granting!Next
BY DEF Granting!Next, Granting!Grant, Granting!Free, Holder

LEMMA Ended ==
  ASSUME NEW r \in Runtime,
         \A x \in Runtime : runtimes'[x].task = IF x = r THEN NoTask ELSE runtimes[x].task,
         Placed' = Placed
  PROVE  [Granting!Next]_(Granting!leaseVars)
<1>1. CASE runtimes[r].task = NoTask
  BY <1>1 DEF Granting!leaseVars, Holder
<1>2. CASE runtimes[r].task # NoTask
  BY <1>2 DEF Granting!Next, Granting!End, Granting!Free, Holder
<1>. QED  BY <1>1, <1>2

LEMMA Unmoved ==
  ASSUME \A x \in Runtime : runtimes'[x].task = runtimes[x].task, Placed' = Placed
  PROVE  [Granting!Next]_(Granting!leaseVars)
BY DEF Granting!leaseVars, Holder

(* The three above, action by action.                                      *)
LEMMA GrantingStep ==
  ASSUME ~ReRegistration, TypeOK, RuntimesFit, LeaseCoherent, [Next]_vars
  PROVE  [Granting!Next]_(Granting!leaseVars)
<1>0. \A x \in Runtime : /\ runtimes[x] \in RuntimeRecord
                         /\ RefreshedRuntimes[x] \in RuntimeRecord
                         /\ RefreshedRuntimes[x].task = runtimes[x].task
  BY RefreshedTypes, RefreshKeeps DEF TypeOK, RefreshedRuntimes
<1>1. ASSUME NEW t \in Task, NEW q \in Request, SubmitTask(t, q)
      PROVE  [Granting!Next]_(Granting!leaseVars)
  <2>1. tasks[t].state = "absent" /\ t \notin Placed
    BY <1>1 DEF SubmitTask, Placed, Executing
  <2>2. PICK p \in Selectable(q) :
          \/ /\ tasks' = [tasks EXCEPT ![t] = [state |-> "allocating",
                   provider |-> p, runtime |-> NoRuntime, flow |-> FALSE]]
             /\ runtimes' = RefreshedRuntimes
          \/ \E r \in Choice(q, p) :
               /\ tasks' = [tasks EXCEPT ![t] = [state |-> "running",
                    provider |-> p, runtime |-> r, flow |-> FALSE]]
               /\ runtimes' = [RefreshedRuntimes EXCEPT ![r] = Lease(@, t)]
    BY <1>1 DEF SubmitTask
  <2>3. CASE /\ tasks' = [tasks EXCEPT ![t] = [state |-> "allocating",
                   provider |-> p, runtime |-> NoRuntime, flow |-> FALSE]]
             /\ runtimes' = RefreshedRuntimes
    <3>1. Placed' = Placed
      BY <2>1, <2>3 DEF Placed, Executing, TypeOK
    <3>. QED  BY <1>0, <2>3, <3>1, Unmoved
  <2>4. ASSUME NEW r \in Choice(q, p),
               tasks' = [tasks EXCEPT ![t] = [state |-> "running",
                    provider |-> p, runtime |-> r, flow |-> FALSE]],
               runtimes' = [RefreshedRuntimes EXCEPT ![r] = Lease(@, t)]
        PROVE  Granting!Next
    <3>1. r \in Runtime
      BY <2>4, ChoiceIsKnown, <2>2
    <3>2. Placed' = Placed \union {t}
      BY <2>1, <2>4, <3>1, NullAssumption DEF Placed, Executing, TypeOK
    <3>3. \A x \in Runtime : runtimes'[x].task = IF x = r THEN t ELSE runtimes[x].task
      BY <1>0, <2>4, <3>1, RefreshedTypes, LeaseFit
    <3>4. runtimes[r].task = NoTask
      <4>. SUFFICES ASSUME runtimes[r].task # NoTask  PROVE FALSE
        OBVIOUS
      <4>1. runtimes[r].task = t
        BY <3>1, <3>3, NotStolen, NullAssumption
      <4>. QED  BY <2>1, <3>1, <4>1, NullAssumption DEF LeaseCoherent
    <3>. QED  BY <2>1, <3>1, <3>2, <3>3, <3>4, Granted
  <2>. QED  BY <2>2, <2>3, <2>4
<1>2. ASSUME NEW t \in Task, AssignUnplaced(t)
      PROVE  [Granting!Next]_(Granting!leaseVars)
  <2>1. PICK r \in Runtime : AssignRuntimeToTask(t, r)
    BY <1>2 DEF AssignUnplaced
  <2>2. t \notin Placed /\ tasks[t].runtime = NoRuntime
    BY <1>2 DEF AssignUnplaced, Placed
  <2>3. Placed' = Placed \union {t}
    BY <1>2, <2>1, NullAssumption
       DEF AssignUnplaced, AssignRuntimeToTask, Placed, Executing, TypeOK, TaskRecord
  <2>4. \A x \in Runtime : runtimes'[x].task = IF x = r THEN t ELSE runtimes[x].task
    BY <1>0, <2>1, RefreshedTypes, LeaseFit DEF AssignRuntimeToTask
  <2>5. runtimes[r].task = NoTask
    <3>. SUFFICES ASSUME runtimes[r].task # NoTask  PROVE FALSE
      OBVIOUS
    <3>1. runtimes[r].task = t
      BY <2>4, NotStolen, NullAssumption
    <3>. QED  BY <2>2, <3>1, NullAssumption DEF LeaseCoherent
  <2>. QED  BY <2>2, <2>3, <2>4, <2>5, Granted
<1>3. ASSUME NEW t \in Task, CancelTask(t) \/ ReportSuccess(t) \/ ReportFailure(t)
      PROVE  [Granting!Next]_(Granting!leaseVars)
  <2>1. Placed' = Placed
    <3>1. PICK s \in Terminal : tasks' = [tasks EXCEPT ![t].state = s]
      BY <1>3 DEF CancelTask, ReportSuccess, ReportFailure, RecordSuccess,
                  RecordFailure, Terminal
    <3>2. tasks[t].state # "absent"
      BY <1>3 DEF CancelTask, ReportSuccess, ReportFailure, RecordSuccess, RecordFailure
    <3>. QED  BY <3>1, <3>2 DEF Placed, Executing, TypeOK, TaskRecord, Terminal
  <2>2. CASE tasks[t].runtime \in Runtime /\ Known(tasks[t].runtime)
    <3>1. \A x \in Runtime : runtimes'[x].task =
            IF x = tasks[t].runtime THEN NoTask ELSE runtimes[x].task
      BY <1>0, <1>3, <2>2, ReleaseFit, SucceedType, FailType
         DEF CancelTask, ReportSuccess, ReportFailure, RecordSuccess, RecordFailure
    <3>. QED  BY <2>1, <2>2, <3>1, Ended
  <2>3. CASE ~(tasks[t].runtime \in Runtime /\ Known(tasks[t].runtime))
    <3>1. \A x \in Runtime : runtimes'[x].task = runtimes[x].task
      BY <1>3, <2>3 DEF CancelTask, ReportSuccess, ReportFailure, RecordSuccess,
                        RecordFailure
    <3>. QED  BY <2>1, <3>1, Unmoved
  <2>. QED  BY <2>2, <2>3
<1>4. ASSUME NEW t \in Task, StartFlow(t) \/ EndFlow(t)
      PROVE  [Granting!Next]_(Granting!leaseVars)
  <2>1. Placed' = Placed /\ runtimes' = runtimes
    BY <1>4 DEF StartFlow, EndFlow, CreateFlowTask, CompleteFlowTask, Placed,
                Executing, TypeOK, TaskRecord
  <2>. QED  BY <2>1, Unmoved
<1>5. ASSUME NEW r \in Runtime, Register(r) \/ Heartbeat(r)
      PROVE  [Granting!Next]_(Granting!leaseVars)
  <2>1. tasks' = tasks
    BY <1>5 DEF Register, Heartbeat, RegisterRuntime, RecordHeartbeat
  <2>2. CASE Register(r)
    BY <1>0, <2>1, <2>2, Unmoved
       DEF Register, RegisterRuntime, Sync, RuntimeRecord, TypeOK, Placed, Executing
  <2>3. CASE Heartbeat(r)
    BY <1>0, <2>1, <2>3, Unmoved
       DEF Heartbeat, RecordHeartbeat, Sync, RuntimeRecord, TypeOK, Placed, Executing
  <2>. QED  BY <1>5, <2>2, <2>3
<1>6. ASSUME NEW r \in Runtime, MarkRuntimeStopped(r)
      PROVE  [Granting!Next]_(Granting!leaseVars)
  <2>1. Placed' = Placed
    BY <1>6 DEF MarkRuntimeStopped, Placed, Executing
  <2>2. \A x \in Runtime : runtimes'[x].task = IF x = r THEN NoTask ELSE runtimes[x].task
    BY <1>0, <1>6 DEF MarkRuntimeStopped, Sync, RuntimeRecord, TypeOK
  <2>. QED  BY <2>1, <2>2, Ended
<1>7. ASSUME NEW r \in Runtime, MarkRuntimeCrashed(r)
      PROVE  [Granting!Next]_(Granting!leaseVars)
  <2>1. Placed' = Placed
    <3>1. \A t \in Task : /\ tasks'[t].runtime = tasks[t].runtime
                          /\ tasks'[t].flow = tasks[t].flow
                          /\ tasks'[t].state = "absent" <=> tasks[t].state = "absent"
      BY <1>7, NullAssumption
         DEF MarkRuntimeCrashed, LeaseCoherent, TypeOK, TaskRecord
    <3>. QED  BY <3>1 DEF Placed, Executing
  <2>2. \A x \in Runtime : runtimes'[x].task = IF x = r THEN NoTask ELSE runtimes[x].task
    <3>1. PICK rt : runtimes' = [runtimes EXCEPT ![r] = rt] /\ rt.task = NoTask
      BY <1>7, CrashedFit
    <3>. QED  BY <3>1 DEF TypeOK
  <2>. QED  BY <2>1, <2>2, Ended
<1>8. CASE OperatorStep \/ \E p \in Provider :
                        ProviderCooldownRuns(p) \/ ProviderCooldownElapses(p)
  <2>1. UNCHANGED <<tasks, runtimes>>
    BY <1>8 DEF OperatorStep, SetProviderEnabled, ResetProviderCooldown,
       ProviderCooldownRuns, ProviderCooldownElapses
  <2>. QED  BY <2>1, Unmoved DEF Placed, Executing
<1>9. CASE \E r \in Runtime : RuntimeCooldownElapses(r) \/ HeartbeatOverdue(r)
  <2>1. tasks' = tasks
    BY <1>9 DEF RuntimeCooldownElapses, HeartbeatOverdue
  <2>2. \A x \in Runtime : runtimes'[x].task = runtimes[x].task
    BY SMTT(40), <1>0, <1>9 DEF RuntimeCooldownElapses, HeartbeatOverdue, TypeOK, RuntimeRecord
  <2>. QED  BY <2>1, <2>2, Unmoved DEF Placed, Executing
<1>10. CASE RefreshCooldowns \/ UNCHANGED vars
  <2>1. tasks' = tasks
    BY <1>10 DEF RefreshCooldowns, vars
  <2>2. \A x \in Runtime : runtimes'[x].task = runtimes[x].task
    BY <1>0, <1>10 DEF RefreshCooldowns, vars
  <2>. QED  BY <2>1, <2>2, Unmoved DEF Placed, Executing
<1>. QED
  BY <1>1, <1>2, <1>3, <1>4, <1>5, <1>6, <1>7, <1>8, <1>9, <1>10
     DEF Next, TaskStep, RuntimeStep, ClockStep

(* The registries implement module Leases: no lease is stolen and no task  *)
(* is ever given a second runtime.                                         *)
THEOREM ImplementsLeases == ~ReRegistration => (Spec => GrantsLeases)
<1>. SUFFICES ASSUME ~ReRegistration
              PROVE  Spec => GrantsLeases
  OBVIOUS
<1>1. Init => Granting!Init
  BY DEF Init, Granting!Init, Holder, Placed, Executing, NewTask, NewRuntime
<1>2. TypeOK /\ RuntimesFit /\ LeaseCoherent /\ [Next]_vars
        => [Granting!Next]_(Granting!leaseVars)
  BY GrantingStep
<1>. QED
  BY <1>1, <1>2, AlwaysFit, LeasesAreCoherent, PTL DEF Spec, GrantsLeases, Granting!Spec

LEMMA RefreshedReady ==
  ASSUME NEW rt \in RuntimeRecord,
         RefreshRuntime(rt).state = "ready", RefreshRuntime(rt).healthy,
         ~CooldownActive(RefreshRuntime(rt))
  PROVE  FitToLease(rt)
BY ZenonT(60) DEF RefreshRuntime, Sync, Thaw, NoteHeartbeat, CooldownActive, FitToLease,
       RuntimeRecord, RuntimeState, Timer

(* But for a request that pins its runtime, only healthy runtimes are      *)
(* leased that are not cooling and, if ready, not silent.                  *)
THEOREM PoolLeasesAreFit == Spec => PoolLeaseIsFit
<1>1. ASSUME TypeOK, RuntimesFit, [Next]_vars, NEW x \in Runtime, ~PinnedSubmit,
             runtimes[x].task = NoTask, runtimes'[x].task # NoTask
      PROVE  FitToLease(runtimes[x])
  <2>1. ASSUME NEW t \in Task, NEW q \in Request, SubmitTask(t, q),
               NEW p \in Selectable(q), x \in Choice(q, p)
        PROVE  \E o : x \in Allocatable(o)
    BY <1>1, <2>1 DEF Choice, PoolChoice, PinnedSubmit
  <2>2. ASSUME NEW t \in Task, CanAssign(t, x)
        PROVE  \E o : x \in Allocatable(o)
    BY <2>2 DEF CanAssign
  <2>3. PICK o : x \in Allocatable(o)
    BY <1>1, <2>1, <2>2, LeaseMoves
  <2>4. /\ RefreshRuntime(runtimes[x]).state = "ready"
        /\ RefreshRuntime(runtimes[x]).healthy
        /\ ~CooldownActive(RefreshRuntime(runtimes[x]))
    BY <2>3 DEF Allocatable, RefreshedRuntimes
  <2>. QED  BY <1>1, <2>4, RefreshedReady DEF TypeOK
<1>2. TypeOK /\ RuntimesFit /\ [Next]_vars =>
        [\A r \in Runtime :
           runtimes[r].task = NoTask /\ runtimes'[r].task # NoTask =>
             FitToLease(runtimes[r]) \/ PinnedSubmit]_vars
  BY <1>1
<1>. QED  BY <1>2, AlwaysFit, PTL DEF Spec, PoolLeaseIsFit

-----------------------------------------------------------------------------
(* What the helpers do to a cooldown that is running: nothing.             *)
LEMMA CooldownKept ==
  ASSUME NEW rt \in RuntimeRecord, CooldownActive(rt)
  PROVE  /\ RefreshRuntime(rt).cooldown = "pending"
         /\ \A t : Lease(rt, t).cooldown = "pending"
         /\ Release(rt).cooldown = "pending"
         /\ Succeed(rt).cooldown = "pending"
         /\ \A e : FailRuntime(rt, e).cooldown = "pending"
<1>0. rt.cooldown = "pending"
  BY DEF CooldownActive, RuntimeRecord, Timer
<1>1. RefreshRuntime(rt).cooldown = "pending"
  BY <1>0 DEF RefreshRuntime, Sync, Thaw, NoteHeartbeat, CooldownActive, RuntimeRecord
<1>2. \A t : Lease(rt, t).cooldown = "pending"
  BY <1>0 DEF Lease, Sync, CooldownActive, RuntimeRecord
<1>3. Release(rt).cooldown = "pending" /\ Succeed(rt).cooldown = "pending"
  BY <1>0 DEF Release, Succeed, Sync, CooldownActive, RuntimeRecord
<1>4. \A e : FailRuntime(rt, e).cooldown = "pending"
  BY <1>0 DEF FailRuntime, Sync, CooldownActive, RuntimeRecord
<1>. QED  BY <1>1, <1>2, <1>3, <1>4

(* Only time ends a runtime's cooldown: no success, heartbeat,             *)
(* registration, restart or operator command does.                         *)
THEOREM CooldownsAreServed == Spec => CooldownIsServed
<1>1. ASSUME TypeOK, [Next]_vars, NEW x \in Runtime, CooldownActive(runtimes[x])
      PROVE  runtimes'[x].cooldown # "zero"
  <2>0. /\ runtimes[x] \in RuntimeRecord /\ runtimes[x].cooldown = "pending"
        /\ RefreshedRuntimes[x] \in RuntimeRecord
        /\ CooldownActive(RefreshedRuntimes[x])
    BY <1>1, RefreshedTypes, CooldownKept
       DEF TypeOK, RefreshedRuntimes, CooldownActive, RuntimeRecord, Timer
  <2>1. ASSUME NEW t \in Task, NEW q \in Request, SubmitTask(t, q)
        PROVE  runtimes'[x].cooldown # "zero"
    <3>1. \/ runtimes' = RefreshedRuntimes
          \/ \E r : runtimes' = [RefreshedRuntimes EXCEPT ![r] = Lease(@, t)]
      BY <2>1 DEF SubmitTask
    <3>. QED  BY <1>1, <2>0, <3>1, RefreshedTypes, CooldownKept DEF CooldownActive
  <2>2. ASSUME NEW t \in Task, AssignUnplaced(t)
        PROVE  runtimes'[x].cooldown # "zero"
    BY <1>1, <2>0, <2>2, RefreshedTypes, CooldownKept
       DEF AssignUnplaced, AssignRuntimeToTask, CooldownActive
  <2>3. ASSUME NEW t \in Task, CancelTask(t) \/ ReportSuccess(t) \/ ReportFailure(t)
        PROVE  runtimes'[x].cooldown # "zero"
    <3>1. /\ Release(runtimes[x]).cooldown = "pending"
          /\ Release(Succeed(runtimes[x])).cooldown = "pending"
          /\ \A e : Release(FailRuntime(runtimes[x], e)).cooldown = "pending"
      BY <1>1, <2>0, CooldownKept, SucceedType, FailType DEF CooldownActive
    <3>. QED  BY <2>0, <2>3, <3>1 DEF CancelTask, ReportSuccess, ReportFailure,
                RecordSuccess, RecordFailure
  <2>4. ASSUME NEW t \in Task, StartFlow(t) \/ EndFlow(t)
        PROVE  runtimes'[x].cooldown # "zero"
    BY <2>0, <2>4 DEF StartFlow, EndFlow, CreateFlowTask, CompleteFlowTask
  <2>5. ASSUME NEW r \in Runtime, Register(r)
        PROVE  runtimes'[x].cooldown # "zero"
    BY <2>0, <2>5 DEF Register, RegisterRuntime, Sync, RuntimeRecord
  <2>6. ASSUME NEW r \in Runtime, Heartbeat(r)
        PROVE  runtimes'[x].cooldown # "zero"
    BY <2>0, <2>6 DEF Heartbeat, RecordHeartbeat, Sync, RuntimeRecord
  <2>7. ASSUME NEW r \in Runtime, MarkRuntimeStopped(r)
        PROVE  runtimes'[x].cooldown # "zero"
    BY <2>0, <2>7 DEF MarkRuntimeStopped, Sync, RuntimeRecord
  <2>8. ASSUME NEW r \in Runtime, MarkRuntimeCrashed(r)
        PROVE  runtimes'[x].cooldown # "zero"
    <3>. DEFINE empty == [runtimes[r] EXCEPT !.healthy = FALSE, !.task = NoTask]
                dead  == FailRuntime(empty, AbnormalExit)
    <3>1. runtimes' = [runtimes EXCEPT ![r] = Sync([dead EXCEPT !.state = "failed"])]
      BY <2>8 DEF MarkRuntimeCrashed
    <3>2. CASE x = r
      <4>1. empty \in RuntimeRecord /\ CooldownActive(empty)
        BY <2>0, <3>2 DEF RuntimeRecord, CooldownActive
      <4>2. dead \in RuntimeRecord /\ dead.cooldown = "pending"
        <5>. HIDE DEF empty
        <5>. QED  BY <4>1, FailType, CooldownKept
      <4>3. Sync([dead EXCEPT !.state = "failed"]).cooldown = "pending"
        <5>. HIDE DEF dead
        <5>. QED  BY <4>2 DEF Sync, CooldownActive, RuntimeRecord
      <4>. QED  BY <1>1, <3>1, <3>2, <4>3 DEF TypeOK
    <3>. QED  BY <2>0, <3>1, <3>2
  <2>9. CASE OperatorStep \/ \E p \in Provider :
                        ProviderCooldownRuns(p) \/ ProviderCooldownElapses(p)
    BY <2>0, <2>9 DEF OperatorStep, SetProviderEnabled, ResetProviderCooldown,
       ProviderCooldownRuns, ProviderCooldownElapses
  <2>10. CASE \E r \in Runtime : RuntimeCooldownElapses(r) \/ HeartbeatOverdue(r)
    <3>1. \A r \in Runtime : RuntimeCooldownElapses(r) => runtimes'[x].cooldown # "zero"
      BY <1>1, <2>0 DEF RuntimeCooldownElapses, RuntimeRecord, TypeOK
    <3>2. \A r \in Runtime : HeartbeatOverdue(r) => runtimes'[x].cooldown # "zero"
      BY <1>1, <2>0 DEF HeartbeatOverdue, RuntimeRecord, TypeOK
    <3>. QED  BY <2>10, <3>1, <3>2
  <2>11. CASE RefreshCooldowns \/ UNCHANGED vars
    BY <2>0, <2>11 DEF RefreshCooldowns, vars, CooldownActive
  <2>. QED
    BY <1>1, <2>1, <2>2, <2>3, <2>4, <2>5, <2>6, <2>7, <2>8, <2>9, <2>10, <2>11
       DEF Next, TaskStep, RuntimeStep, ClockStep
<1>2. TypeOK /\ [Next]_vars =>
        [\A r \in Runtime :
           CooldownActive(runtimes[r]) => runtimes'[r].cooldown # "zero"]_vars
  BY <1>1
<1>. QED  BY <1>2, TypeCorrect, PTL DEF Spec, CooldownIsServed
=============================================================================
