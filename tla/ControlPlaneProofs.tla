-------------------------- MODULE ControlPlaneProofs --------------------------
(***************************************************************************)
(* Theorems about the control plane at work, for every set of tasks,       *)
(* runtimes, providers, requests and errors and every environment: its     *)
(* goroutines keep to the calls module Service allows, a task is handed to *)
(* one process and once, the pool loop keeps within its limit, and, where  *)
(* nobody cancels, a process works only under a lease.                     *)
(***************************************************************************)
EXTENDS ControlPlane, ServiceProofs, FiniteSetTheorems

-----------------------------------------------------------------------------
(***************************************************************************)
(* Where a task is mentioned at a runtime: in the process (work), on its   *)
(* stdin (in) or in an answer on its stdout (out).                         *)
(***************************************************************************)
Mentioned(t, work, in, out) ==
  \/ work = t
  \/ \E i \in DOMAIN in : in[i] = t
  \/ \E i \in DOMAIN out : out[i].task = t

Once(t, work, in, out) ==
  /\ \A i, j \in DOMAIN in : in[i] = t /\ in[j] = t => i = j
  /\ \A i, j \in DOMAIN out : out[i].task = t /\ out[j].task = t => i = j
  /\ work = t => /\ \A i \in DOMAIN in : in[i] # t
                 /\ \A i \in DOMAIN out : out[i].task # t
  /\ \A i \in DOMAIN in, j \in DOMAIN out : in[i] = t => out[j].task # t

(* A move that hands nothing new to the process and doubles nothing.       *)
Moves(work, in, out, work2, in2, out2) ==
  \A t \in Task :
    /\ Mentioned(t, work2, in2, out2) => Mentioned(t, work, in, out)
    /\ Once(t, work, in, out) => Once(t, work2, in2, out2)

Line == Seq(Task \union {Shutdown})

(* The process says something about no task, or is asked to exit.          *)
LEMMA MovesNote ==
  ASSUME NEW work, NEW in \in Line, NEW out \in Seq(Envelope), NEW e \in Envelope,
         e.task = NoTask
  PROVE  Moves(work, in, out, work, in, Append(out, e))
<1>1. /\ DOMAIN Append(out, e) = 1..(Len(out) + 1)
      /\ DOMAIN out = 1..Len(out) /\ Len(out) \in Nat
      /\ \A i \in DOMAIN out : Append(out, e)[i] = out[i]
      /\ Append(out, e)[Len(out) + 1] = e
  OBVIOUS
<1>2. \A i \in DOMAIN Append(out, e) : Append(out, e)[i].task \in Task
        => i \in DOMAIN out /\ Append(out, e)[i] = out[i]
  BY <1>1, NullAssumption
<1>. QED  BY Zenon, <1>2 DEF Moves, Mentioned, Once

LEMMA MovesAsk ==
  ASSUME NEW work, NEW in \in Line, NEW out \in Seq(Envelope)
  PROVE  Moves(work, in, out, work, Append(in, Shutdown), out)
<1>. DEFINE new == Append(in, Shutdown)
<1>1. /\ DOMAIN new = 1..(Len(in) + 1)
      /\ DOMAIN in = 1..Len(in) /\ Len(in) \in Nat
      /\ \A i \in DOMAIN in : new[i] = in[i]
      /\ new[Len(in) + 1] = Shutdown
  BY DEF Line
<1>2. \A i \in DOMAIN new : new[i] \in Task => i \in DOMAIN in /\ new[i] = in[i]
  BY <1>1, ShutdownAssumption
<1>. QED  BY Zenon, <1>2 DEF Moves, Mentioned, Once

(* The process takes the head of its stdin.                                *)
LEMMA MovesRead ==
  ASSUME NEW in \in Line, in # <<>>, NEW out \in Seq(Envelope)
  PROVE  Moves(NoTask, in, out, Head(in), Tail(in), out)
<1>1. /\ DOMAIN Tail(in) = 1..(Len(in) - 1)
      /\ DOMAIN in = 1..Len(in) /\ Len(in) \in Nat \ {0}
      /\ Head(in) = in[1]
      /\ \A i \in DOMAIN Tail(in) : Tail(in)[i] = in[i + 1]
  BY DEF Line
<1>2. /\ 1 \in DOMAIN in
      /\ \A i \in DOMAIN Tail(in) : i + 1 \in DOMAIN in /\ i + 1 # 1
      /\ \A i, j \in DOMAIN Tail(in) : i + 1 = j + 1 => i = j
  BY <1>1
<1>. QED  BY <1>1, <1>2, NullAssumption DEF Moves, Mentioned, Once

(* The process is gone, and with it what it had not read or answered.      *)
LEMMA MovesDead ==
  ASSUME NEW work, NEW in, NEW out
  PROVE  Moves(work, in, out, NoTask, <<>>, out)
<1>1. DOMAIN <<>> = {}
  OBVIOUS
<1>. QED  BY <1>1, NullAssumption DEF Moves, Mentioned, Once

(* The process answers the task it worked on.                              *)
LEMMA MovesAnswer ==
  ASSUME NEW work, NEW in \in Line, NEW out \in Seq(Envelope), NEW e \in Envelope,
         e.task = work
  PROVE  Moves(work, in, out, NoTask, in, Append(out, e))
<1>1. /\ DOMAIN Append(out, e) = 1..(Len(out) + 1)
      /\ DOMAIN out = 1..Len(out) /\ Len(out) \in Nat
      /\ \A i \in DOMAIN out : Append(out, e)[i] = out[i]
      /\ Append(out, e)[Len(out) + 1] = e
  OBVIOUS
<1>2. \A i \in DOMAIN Append(out, e) :
        \/ i \in DOMAIN out /\ Append(out, e)[i] = out[i]
        \/ i = Len(out) + 1 /\ Append(out, e)[i].task = work
  BY <1>1
<1>. QED  BY Zenon, <1>2, NullAssumption DEF Moves, Mentioned, Once

(* The reader takes the head of stdout.                                    *)
LEMMA MovesTake ==
  ASSUME NEW work, NEW in, NEW out \in Seq(Envelope), out # <<>>
  PROVE  Moves(work, in, out, work, in, Tail(out))
<1>1. \A i \in DOMAIN Tail(out) : i + 1 \in DOMAIN out /\ Tail(out)[i] = out[i + 1]
  OBVIOUS
<1>2. \A i, j \in DOMAIN Tail(out) : i + 1 = j + 1 => i = j
  OBVIOUS
<1>. QED  BY Zenon, <1>1, <1>2 DEF Moves, Mentioned, Once

(* The end of stdout is lost with the pipe.                                *)
LEMMA MovesCut ==
  ASSUME NEW work, NEW in, NEW out \in Seq(Envelope), NEW n \in 0..Len(out)
  PROVE  Moves(work, in, out, work, in, SubSeq(out, 1, n))
<1>1. \A i \in DOMAIN SubSeq(out, 1, n) :
        i \in DOMAIN out /\ SubSeq(out, 1, n)[i] = out[i]
  OBVIOUS
<1>. QED  BY Zenon, <1>1 DEF Moves, Mentioned, Once

LEMMA MovesNot ==
  ASSUME NEW work, NEW in, NEW out
  PROVE  Moves(work, in, out, work, in, out)
BY Zenon DEF Moves

(* The only way in: DispatchTask writes a task that was mentioned nowhere. *)
LEMMA Handed ==
  ASSUME NEW t \in Task, NEW work, NEW in \in Line, NEW out \in Seq(Envelope),
         ~Mentioned(t, work, in, out)
  PROVE  /\ Once(t, work, Append(in, t), out)
         /\ \A u \in Task \ {t} :
              /\ Mentioned(u, work, Append(in, t), out) => Mentioned(u, work, in, out)
              /\ Once(u, work, in, out) => Once(u, work, Append(in, t), out)
<1>. DEFINE new == Append(in, t)
<1>1. /\ DOMAIN new = 1..(Len(in) + 1)
      /\ DOMAIN in = 1..Len(in) /\ Len(in) \in Nat
      /\ \A i \in DOMAIN in : new[i] = in[i]
      /\ new[Len(in) + 1] = t
  BY DEF Line
<1>2. \A i \in DOMAIN new :
        \/ i \in DOMAIN in /\ new[i] = in[i]
        \/ i = Len(in) + 1 /\ new[i] = t
  BY <1>1
<1>. QED  BY Zenon, <1>2 DEF Mentioned, Once

-----------------------------------------------------------------------------
(* Counting the mentions, as HandedOnce does.                              *)
LEMMA AtMostOne ==
  ASSUME NEW n \in Nat, NEW S \in SUBSET (1..n), \A i, j \in S : i = j
  PROVE  Cardinality(S) = IF S = {} THEN 0 ELSE 1
<1>1. CASE S = {}
  BY <1>1, FS_EmptySet
<1>2. ASSUME NEW i \in S
      PROVE  Cardinality(S) = 1
  <2>1. S = {i}
    OBVIOUS
  <2>. QED  BY <2>1, FS_Singleton
<1>. QED  BY <1>1, <1>2

MentionedAt(t, r) == Mentioned(t, procs[r].task, stdin[r], stdout[r])

OnceAt(t, r) == Once(t, procs[r].task, stdin[r], stdout[r])

LEMMA Counted ==
  ASSUME NEW t \in Task, NEW r \in Runtime,
         stdin[r] \in Line, stdout[r] \in Seq(Envelope), OnceAt(t, r)
  PROVE  Mentions(t, r) = IF MentionedAt(t, r) THEN 1 ELSE 0
<1>. DEFINE In  == { i \in DOMAIN stdin[r] : stdin[r][i] = t }
            Out == { i \in DOMAIN stdout[r] : stdout[r][i].task = t }
<1>1. Len(stdin[r]) \in Nat /\ In \in SUBSET (1..Len(stdin[r]))
  BY DEF Line
<1>2. Len(stdout[r]) \in Nat /\ Out \in SUBSET (1..Len(stdout[r]))
  OBVIOUS
<1>3. /\ \A i, j \in In : i = j
      /\ \A i, j \in Out : i = j
      /\ procs[r].task = t => In = {} /\ Out = {}
      /\ In = {} \/ Out = {}
  BY Zenon DEF OnceAt, Once
<1>4. MentionedAt(t, r) <=> procs[r].task = t \/ In # {} \/ Out # {}
  BY DEF MentionedAt, Mentioned
<1>5. /\ Cardinality(In) = IF In = {} THEN 0 ELSE 1
      /\ Cardinality(Out) = IF Out = {} THEN 0 ELSE 1
  <2>. HIDE DEF In, Out
  <2>. QED  BY <1>1, <1>2, <1>3, AtMostOne
<1>6. Mentions(t, r) = (IF procs[r].task = t THEN 1 ELSE 0)
                         + Cardinality(In) + Cardinality(Out)
  BY Zenon DEF Mentions
<1>. HIDE DEF In, Out
<1>. QED  BY <1>3, <1>4, <1>5, <1>6

-----------------------------------------------------------------------------
(***************************************************************************)
(* The inductive invariant.                                                *)
(***************************************************************************)
PoolRecord ==
  [idle    : SUBSET Runtime,
   lacking : 0..MinWarm,
   excess  : Int,
   warming : Runtime \union {NoRuntime},
   victim  : Runtime \union {NoRuntime}]

Started == { r \in Runtime : procs[r].state # "none" }

(* Types.  Only finitely many processes were started, so that those of a   *)
(* provider can be counted whatever the set of runtime ids.                *)
ProcessesTyped ==
  /\ handlers \in [Task -> HandlerRecord]
  /\ children \in [Runtime -> ChildRecord]
  /\ procs \in [Runtime -> ProcRecord]
  /\ stdin \in [Runtime -> Line]
  /\ stdout \in [Runtime -> Seq(Envelope)]
  /\ readers \in [Runtime -> {"free", "runtime_ready", "task_completed"}]
  /\ pool \in [Provider -> PoolRecord]
  /\ IsFiniteSet(Started)
  /\ \A p \in Provider : pool[p].warming # NoRuntime => pool[p].lacking > 0

(* A process, its child record and its pipes.  A runtime is registered by  *)
(* the one "runtime_ready" its process writes, first of all.               *)
ChildFits(r) ==
  /\ children[r].spawn = "none" => procs[r].state = "none"
  /\ procs[r].state # "none" => children[r].provider \in Provider
  /\ children[r].waited # "no" => procs[r].state \in {"exited", "crashed"}
  /\ IF procs[r].state = "executing" THEN procs[r].task \in Task
                                     ELSE procs[r].task = NoTask
  /\ ~Alive(r) => stdin[r] = <<>>
  /\ procs[r].state \in {"none", "booting"} =>
       stdout[r] = <<>> /\ runtimes[r].state = "unknown"
  /\ \A i \in DOMAIN stdout[r] :
       /\ stdout[r][i].action = "runtime_ready" =>
            i = 1 /\ runtimes[r].state = "unknown"
       /\ stdout[r][i].action = "task_completed" => stdout[r][i].task \in Task

(* A task and its handler, by the handler's program counter.               *)
HandlerFits(t) ==
  LET task == tasks[t]
      h    == handlers[t]
  IN  /\ ~task.flow
      /\ h.pc = "idle" <=> task.state = "absent"
      /\ h.pc \in {"idle", "spawn", "await"} => task.runtime = NoRuntime
      /\ h.pc = "spawn" => task.provider \in Provider
      /\ h.pc = "await" => h.runtime \in Runtime
      /\ h.pc \in {"dispatch", "undelivered"} =>
           h.runtime = task.runtime /\ task.runtime \in Runtime
      /\ h.sent => h.pc = "done"

(* A task is mentioned at one place of one runtime, once it was sent.      *)
MentionFits(t, r) ==
  /\ MentionedAt(t, r) => handlers[t].sent /\ tasks[t].runtime = r
  /\ OnceAt(t, r)

ControlPlaneIInv ==
  /\ TypeOK /\ RuntimesFit /\ LeaseCoherent
  /\ ProcessesTyped
  /\ \A r \in Runtime : ChildFits(r)
  /\ \A t \in Task : HandlerFits(t)
  /\ \A t \in Task, r \in Runtime : MentionFits(t, r)

LEMMA ControlPlaneBegins == ControlPlaneInit => ControlPlaneIInv
<1>. SUFFICES ASSUME ControlPlaneInit
              PROVE  ControlPlaneIInv
  OBVIOUS
<1>1. TypeOK /\ RuntimesFit /\ LeaseCoherent
  BY TypeInit, FitInit DEF ControlPlaneInit, Init, LeaseCoherent, NewRuntime
<1>2. ProcessesTyped
  <2>1. Started = {}
    BY DEF ControlPlaneInit, Started
  <2>2. IsFiniteSet(Started)
    BY <2>1, FS_EmptySet
  <2>3. Resting \in PoolRecord
    BY ControlPlaneAssumption DEF Resting, PoolRecord
  <2>4. pool \in [Provider -> PoolRecord]
        /\ \A p \in Provider : pool[p].warming = NoRuntime
    BY <2>3 DEF ControlPlaneInit, Resting
  <2>5. stdin \in [Runtime -> Line] /\ stdout \in [Runtime -> Seq(Envelope)]
    BY DEF ControlPlaneInit, Line
  <2>. QED  BY <2>2, <2>4, <2>5
            DEF ControlPlaneInit, ProcessesTyped, HandlerRecord, ChildRecord, ProcRecord
<1>3. \A r \in Runtime : ChildFits(r)
  BY DEF ControlPlaneInit, Init, ChildFits, Alive, NewRuntime
<1>4. \A t \in Task : HandlerFits(t)
  BY DEF ControlPlaneInit, Init, HandlerFits, NewTask
<1>5. \A t \in Task, r \in Runtime : MentionFits(t, r)
  BY NullAssumption
     DEF ControlPlaneInit, MentionFits, MentionedAt, OnceAt, Mentioned, Once
<1>. QED  BY <1>1, <1>2, <1>3, <1>4, <1>5 DEF ControlPlaneIInv

-----------------------------------------------------------------------------
(***************************************************************************)
(* The goroutines keep to the calls module Service allows.                 *)
(***************************************************************************)

(* Every call but a registration.                                          *)
OtherCalls ==
  \/ TaskStep
  \/ \E r \in Runtime : Heartbeat(r) \/ MarkRuntimeStopped(r) \/ MarkRuntimeCrashed(r)
  \/ OperatorStep \/ ClockStep \/ RefreshCooldowns

LEMMA OtherCallsAreCalls ==
  ASSUME [OtherCalls]_vars
  PROVE  [Next]_vars
BY Zenon DEF OtherCalls, Next, RuntimeStep

LEMMA ChosenIsKnown ==
  ASSUME TypeOK, NEW q \in Request, NEW p \in Selectable(q), NEW r \in Choice(q, p)
  PROVE  r \in Runtime /\ runtimes[r].state # "unknown"
<1>1. r \in Runtime
  BY ChoiceIsKnown
<1>2. CASE q.mode = "direct" /\ q.runtime # NoRuntime
  BY <1>2 DEF Choice, PinnedChoice, Selectable, DirectProvider, Known
<1>3. CASE ~(q.mode = "direct" /\ q.runtime # NoRuntime)
  <2>1. RefreshRuntime(runtimes[r]).state = "ready"
    BY <1>1, <1>3 DEF Choice, PoolChoice, Allocatable, RefreshedRuntimes
  <2>. QED  BY <1>1, <2>1, RefreshKeeps DEF TypeOK
<1>. QED  BY <1>2, <1>3

(* What makes a runtime known is its registration alone.                   *)
LEMMA UnknownStays ==
  ASSUME TypeOK, [OtherCalls]_vars, NEW x \in Runtime, runtimes[x].state = "unknown"
  PROVE  runtimes'[x].state = "unknown"
<1>0. /\ runtimes[x] \in RuntimeRecord /\ ~Known(x)
      /\ RefreshedRuntimes[x].state = "unknown"
      /\ RefreshedRuntimes \in [Runtime -> RuntimeRecord]
  BY RefreshedTypes DEF TypeOK, Known, RefreshedRuntimes, RefreshRuntime
<1>1. ASSUME NEW t \in Task, NEW q \in Request, SubmitTask(t, q)
      PROVE  runtimes'[x].state = "unknown"
  <2>1. PICK p \in Selectable(q) :
          \/ runtimes' = RefreshedRuntimes
          \/ \E r \in Choice(q, p) :
               runtimes' = [RefreshedRuntimes EXCEPT ![r] = Lease(@, t)]
    BY <1>1 DEF SubmitTask
  <2>2. \A r \in Choice(q, p) : r # x
    BY <2>1, ChosenIsKnown
  <2>. QED  BY <1>0, <2>1, <2>2
<1>2. ASSUME NEW t \in Task, AssignUnplaced(t)
      PROVE  runtimes'[x].state = "unknown"
  <2>1. PICK r \in Runtime : AssignRuntimeToTask(t, r)
    BY <1>2 DEF AssignUnplaced
  <2>2. r # x
    BY <1>0, <2>1 DEF AssignRuntimeToTask, CanAssign, Allocatable
  <2>. QED  BY <1>0, <2>1, <2>2 DEF AssignRuntimeToTask
<1>3. ASSUME NEW t \in Task, \/ CancelTask(t) \/ ReportSuccess(t) \/ ReportFailure(t)
                             \/ StartFlow(t) \/ EndFlow(t)
      PROVE  runtimes'[x].state = "unknown"
  BY <1>0, <1>3 DEF CancelTask, ReportSuccess, ReportFailure, RecordSuccess,
     RecordFailure, StartFlow, EndFlow, CreateFlowTask, CompleteFlowTask
<1>4. ASSUME NEW r \in Runtime,
             Heartbeat(r) \/ MarkRuntimeStopped(r) \/ MarkRuntimeCrashed(r)
      PROVE  runtimes'[x].state = "unknown"
  <2>1. Known(r) /\ \E rt : runtimes' = [runtimes EXCEPT ![r] = rt]
    BY Zenon, <1>4 DEF Heartbeat, RecordHeartbeat, MarkRuntimeStopped, MarkRuntimeCrashed
  <2>. QED  BY <1>0, <2>1
<1>5. CASE OperatorStep \/ UNCHANGED vars \/ RefreshCooldowns
  BY <1>0, <1>5 DEF OperatorStep, SetProviderEnabled, ResetProviderCooldown, vars,
     RefreshCooldowns
<1>6. CASE ClockStep
  <2>1. \A r \in Runtime :
          /\ [runtimes[r] EXCEPT !.cooldown = "elapsed"].state = runtimes[r].state
          /\ [runtimes[r] EXCEPT !.heartbeat = "overdue"].state = runtimes[r].state
    BY DEF RuntimeRecord, TypeOK
  <2>2. ASSUME NEW r \in Runtime, RuntimeCooldownElapses(r) \/ HeartbeatOverdue(r)
        PROVE  runtimes'[x].state = "unknown"
    <3>1. \/ runtimes' = [runtimes EXCEPT ![r] = [runtimes[r] EXCEPT !.cooldown = "elapsed"]]
          \/ runtimes' = [runtimes EXCEPT ![r] = [runtimes[r] EXCEPT !.heartbeat = "overdue"]]
      BY Zenon, <2>2 DEF RuntimeCooldownElapses, HeartbeatOverdue
    <3>. QED  BY <1>0, <2>1, <3>1 DEF TypeOK
  <2>. QED  BY <1>6, <2>2 DEF ClockStep, ProviderCooldownRuns, ProviderCooldownElapses
<1>. QED  BY <1>1, <1>2, <1>3, <1>4, <1>5, <1>6 DEF OtherCalls, TaskStep

LEMMA HandlerCalls ==
  ASSUME ControlPlaneIInv, NEW t \in Task, HandlerStep(t)
  PROVE  [OtherCalls]_vars
<1>. USE DEF OtherCalls, TaskStep, vars
<1>0. HandlerFits(t) /\ tasks[t] \in TaskRecord
  BY DEF ControlPlaneIInv, TypeOK
<1>1. CASE Spawn(t) \/ Dispatch(t)
  BY <1>1 DEF Spawn, Dispatch
<1>2. CASE Assign(t)
  <2>1. handlers[t].runtime \in Runtime /\ Executing(t) /\ tasks[t].runtime = NoRuntime
    BY <1>0, <1>2 DEF Assign, HandlerFits, Executing
  <2>2. AssignRuntimeToTask(t, handlers[t].runtime) \/ RefreshCooldowns
    BY Zenon, <1>2 DEF Assign
  <2>. QED  BY Zenon, <2>1, <2>2 DEF AssignUnplaced
<1>3. CASE SpawnFailed(t)
  <2>1. Executing(t) /\ tasks[t].runtime = NoRuntime
    BY <1>0, <1>3 DEF SpawnFailed, HandlerFits, Executing
  <2>2. RecordFailure(t, NoRuntime, StartupError) /\ StartupError \in Error
    BY Zenon, <1>3, ControlPlaneAssumption DEF SpawnFailed
  <2>. QED  BY Zenon, <2>1, <2>2 DEF ReportFailure
<1>4. CASE Undelivered(t)
  <2>1. Executing(t) /\ tasks[t].runtime = handlers[t].runtime
    BY <1>0, <1>4 DEF Undelivered, HandlerFits, Executing
  <2>2. RecordFailure(t, handlers[t].runtime, DispatchError) /\ DispatchError \in Error
    BY Zenon, <1>4, ControlPlaneAssumption DEF Undelivered
  <2>. QED  BY Zenon, <2>1, <2>2 DEF ReportFailure
<1>. QED  BY <1>1, <1>2, <1>3, <1>4 DEF HandlerStep

(* The task an answer names is mentioned, hence placed on that runtime.    *)
LEMMA AnsweredTask ==
  ASSUME ControlPlaneIInv, NEW r \in Runtime, Receive(r, "task_completed")
  PROVE  LET t == Head(stdout[r]).task
         IN  t \in Task /\ MentionedAt(t, r) /\ Executing(t) /\ tasks[t].runtime = r
<1>. DEFINE t == Head(stdout[r]).task
<1>1. ChildFits(r) /\ stdout[r] \in Seq(Envelope)
  BY DEF ControlPlaneIInv, ProcessesTyped
<1>2. 1 \in DOMAIN stdout[r] /\ Head(stdout[r]) = stdout[r][1]
  BY <1>1 DEF Receive
<1>3. t \in Task
  BY <1>1, <1>2 DEF Receive, ChildFits
<1>4. MentionedAt(t, r)
  BY <1>2 DEF MentionedAt, Mentioned
<1>5. HandlerFits(t) /\ MentionFits(t, r)
  BY <1>3 DEF ControlPlaneIInv
<1>. QED  BY <1>3, <1>4, <1>5 DEF MentionFits, HandlerFits, Executing

LEMMA ChildCalls ==
  ASSUME ControlPlaneIInv, NEW r \in Runtime,
         SpawnerStep(r) \/ ReaderStep(r) \/ WaiterStep(r) \/ ProcessStep(r)
  PROVE  [OtherCalls]_vars \/ HandleReady(r)
<1>. USE DEF OtherCalls, vars
<1>1. CASE SpawnerStep(r)
  <2>1. CASE SpawnReady(r)
    <3>1. RefreshCooldowns \/ RecordHeartbeat(r, TRUE, 0, FALSE)
      BY Zenon, <2>1 DEF SpawnReady
    <3>2. 0 \in 0..MaxFailures
      BY ThresholdAssumption
    <3>. QED  BY Zenon, <3>1, <3>2 DEF Heartbeat
  <2>. QED  BY <1>1, <2>1 DEF SpawnerStep, SpawnExited
<1>2. CASE ReaderStep(r)
  <2>1. CASE HandleHealth(r)
    <3>1. PICK failures \in 0..MaxFailures :
            RecordHeartbeat(r, Head(stdout[r]).success, failures, FALSE)
      BY Zenon, <2>1 DEF HandleHealth
    <3>2. Head(stdout[r]).success \in BOOLEAN
      <4>1. stdout[r] \in Seq(Envelope) /\ stdout[r] # <<>>
        BY <2>1 DEF ControlPlaneIInv, ProcessesTyped, HandleHealth, Receive
      <4>2. Head(stdout[r]) \in Envelope
        BY <4>1
      <4>. QED  BY <4>2 DEF Envelope
    <3>. QED  BY Zenon, <3>1, <3>2 DEF Heartbeat
  <2>2. CASE HandleCompletion(r)
    <3>. DEFINE t == Head(stdout[r]).task
    <3>1. t \in Task /\ Executing(t) /\ tasks[t].runtime = r
      BY <2>2, AnsweredTask DEF HandleCompletion
    <3>2. RecordSuccess(t, r) \/ \E e \in Error : RecordFailure(t, r, e)
      BY Zenon, <2>2 DEF HandleCompletion
    <3>3. ReportSuccess(t) \/ ReportFailure(t)
      <4>. HIDE DEF t
      <4>. QED  BY <3>1, <3>2, NullAssumption DEF ReportSuccess, ReportFailure
    <3>. QED  BY Zenon, <3>1, <3>3 DEF TaskStep
  <2>. QED  BY Zenon, <1>2, <2>1, <2>2 DEF ReaderStep, NoteReady, NoteCompletion
<1>3. CASE WaiterStep(r)
  <2>1. CASE WaitReturns(r)
    BY Zenon, <2>1 DEF WaitReturns
  <2>. QED  BY <1>3, <2>1 DEF WaiterStep, Delist
<1>4. CASE ProcessStep(r)
  BY <1>4 DEF ProcessStep, ServeStep, ProcReady, ProcRead, ProcComplete, ProcAnswers,
     ProcHeartbeat, ProcCrash
<1>. QED  BY Zenon, <1>1, <1>2, <1>3, <1>4

LEMMA OthersCalls ==
  ASSUME TimeStep \/ CallerStep \/ \E p \in Provider : PoolStep(p)
  PROVE  [OtherCalls]_vars
<1>. USE DEF OtherCalls, vars
<1>1. CASE TimeStep
  BY Zenon, <1>1 DEF TimeStep, SpawnTimeout, IdleTimeElapses
<1>2. CASE CallerStep
  BY Zenon, <1>2 DEF CallerStep, Accept, AcceptRequest, Cancel, ReleaseRuntime,
     ShutdownRuntime, SpawnOnRequest, TaskStep
<1>3. CASE \E p \in Provider : PoolStep(p)
  BY Zenon, <1>3 DEF PoolStep, PoolSnapshot, Prewarm, Prewarmed, PoolPick, PoolReap, PoolRest
<1>. QED  BY <1>1, <1>2, <1>3

(* Every step of a goroutine, a process or the pool is a call that Service *)
(* allows, or none; the one registration is that of a new process.         *)
LEMMA StepCalls ==
  ASSUME ControlPlaneIInv, [ControlPlaneNext]_allVars
  PROVE  [OtherCalls]_vars \/ \E r \in Runtime : HandleReady(r)
<1>1. CASE UNCHANGED allVars
  BY <1>1 DEF allVars
<1>. QED  BY Zenon, <1>1, HandlerCalls, ChildCalls, OthersCalls DEF ControlPlaneNext

LEMMA ReadyRegisters ==
  ASSUME ControlPlaneIInv, NEW r \in Runtime, HandleReady(r)
  PROVE  /\ Register(r) /\ runtimes[r].state = "unknown"
         /\ procs[r].state \notin {"none", "booting"}
         /\ \A i \in DOMAIN stdout'[r] : stdout'[r][i].action # "runtime_ready"
<1>1. ChildFits(r) /\ stdout[r] \in Seq(Envelope) /\ stdout[r] # <<>>
      /\ Head(stdout[r]).action = "runtime_ready"
  BY DEF ControlPlaneIInv, ProcessesTyped, HandleReady, Receive
<1>2. 1 \in DOMAIN stdout[r] /\ Head(stdout[r]) = stdout[r][1]
  BY <1>1
<1>3. runtimes[r].state = "unknown" /\ procs[r].state \notin {"none", "booting"}
  BY <1>1, <1>2 DEF ChildFits
<1>4. runtimes[r].task = NoTask
  BY <1>3 DEF ControlPlaneIInv, RuntimesFit, FitRecord, Fit
<1>5. children[r].provider \in Provider
  BY <1>1, <1>3 DEF ChildFits
<1>6. Register(r)
  BY <1>4, <1>5, ControlPlaneAssumption DEF HandleReady, Register
<1>7. stdout'[r] = Tail(stdout[r])
  BY DEF HandleReady, Receive, ControlPlaneIInv, ProcessesTyped
<1>8. \A i \in DOMAIN Tail(stdout[r]) :
        /\ i + 1 \in DOMAIN stdout[r] /\ i + 1 # 1
        /\ Tail(stdout[r])[i] = stdout[r][i + 1]
  BY <1>1
<1>9. \A i \in DOMAIN stdout'[r] : stdout'[r][i].action # "runtime_ready"
  BY <1>1, <1>7, <1>8 DEF ChildFits
<1>. QED  BY <1>3, <1>6, <1>9

LEMMA StepIsCall ==
  ASSUME ControlPlaneIInv, [ControlPlaneNext]_allVars
  PROVE  [Next]_vars
BY Zenon, StepCalls, OtherCallsAreCalls, ReadyRegisters DEF Next, RuntimeStep

-----------------------------------------------------------------------------
(***************************************************************************)
(* Handlers and their tasks.                                               *)
(***************************************************************************)
Kept(t) ==
  /\ tasks'[t].runtime = tasks[t].runtime /\ tasks'[t].provider = tasks[t].provider
  /\ tasks'[t].flow = tasks[t].flow
  /\ tasks'[t].state = "absent" <=> tasks[t].state = "absent"

LEMMA EndedIsKept ==
  ASSUME TypeOK, NEW t \in Task, NEW u \in Task, NEW s \in Terminal,
         tasks' = [tasks EXCEPT ![u].state = s], tasks[u].state # "absent"
  PROVE  Kept(t)
BY DEF Kept, TypeOK, TaskRecord, Terminal

(* Only its submission and its assignment place a task.                    *)
LEMMA TaskKept ==
  ASSUME ControlPlaneIInv, [ControlPlaneNext]_allVars, NEW t \in Task,
         ~Accept(t), ~Assign(t)
  PROVE  Kept(t)
<1>0. TypeOK /\ tasks[t] \in TaskRecord
  BY DEF ControlPlaneIInv, TypeOK
<1>a. ASSUME UNCHANGED tasks
      PROVE  Kept(t)
  BY <1>a DEF Kept
<1>1. ASSUME NEW u \in Task, Accept(u) \/ Assign(u)
      PROVE  Kept(t)
  <2>1. t # u
    BY <1>1
  <2>2. tasks'[t] = tasks[t]
    <3>1. CASE Accept(u)
      <4>1. PICK q \in Request : SubmitTask(u, q)
        BY <3>1 DEF Accept, AcceptRequest
      <4>2. \E task : tasks' = [tasks EXCEPT ![u] = task]
        BY Zenon, <4>1 DEF SubmitTask
      <4>. QED  BY <1>0, <2>1, <4>2 DEF TypeOK
    <3>2. CASE Assign(u)
      <4>1. \/ UNCHANGED tasks
            \/ tasks' = [tasks EXCEPT ![u].state = "running",
                           ![u].runtime = handlers[u].runtime,
                           ![u].provider = runtimes[handlers[u].runtime].provider]
        BY Zenon, <3>2 DEF Assign, AssignRuntimeToTask, RefreshCooldowns
      <4>. QED  BY <1>0, <2>1, <4>1 DEF TypeOK
    <3>. QED  BY <1>1, <3>1, <3>2
  <2>. QED  BY <2>2 DEF Kept
<1>2. ASSUME NEW u \in Task, HandlerStep(u)
      PROVE  Kept(t)
  <2>1. CASE Spawn(u) \/ Dispatch(u)
    BY <1>a, <2>1 DEF Spawn, Dispatch, vars
  <2>2. CASE SpawnFailed(u) \/ Undelivered(u)
    <3>1. tasks' = [tasks EXCEPT ![u].state = "failed"] /\ tasks[u].state # "absent"
      BY Zenon, <2>2 DEF SpawnFailed, Undelivered, RecordFailure
    <3>. QED  BY <1>0, <3>1, EndedIsKept DEF Terminal
  <2>. QED  BY <1>1, <1>2, <2>1, <2>2 DEF HandlerStep
<1>3. ASSUME NEW r \in Runtime, ReaderStep(r)
      PROVE  Kept(t)
  <2>1. CASE HandleCompletion(r)
    <3>. DEFINE u == Head(stdout[r]).task
    <3>1. u \in Task
      BY <2>1, AnsweredTask DEF HandleCompletion
    <3>2. tasks[u].state # "absent"
          /\ \E s \in {"succeeded", "failed"} : tasks' = [tasks EXCEPT ![u].state = s]
      BY Zenon, <2>1 DEF HandleCompletion, RecordSuccess, RecordFailure
    <3>. HIDE DEF u
    <3>. QED  BY <1>0, <3>1, <3>2, EndedIsKept DEF Terminal
  <2>. QED  BY <1>3, <1>a, <2>1 DEF ReaderStep, HandleReady, RegisterRuntime, NoteReady,
               HandleHealth, RecordHeartbeat, NoteCompletion, vars
<1>4. ASSUME NEW r \in Runtime, WaiterStep(r)
      PROVE  Kept(t)
  <2>1. CASE UNCHANGED tasks
    BY <1>a, <2>1
  <2>2. CASE MarkRuntimeCrashed(r)
    <3>1. runtimes[r].task = t => tasks[t].state = "running"
      BY NullAssumption DEF ControlPlaneIInv, LeaseCoherent
    <3>. QED  BY <1>0, <2>2, <3>1 DEF MarkRuntimeCrashed, Kept, TaskRecord
  <2>. QED  BY Zenon, <1>4, <2>1, <2>2
            DEF WaiterStep, WaitReturns, Delist, MarkRuntimeStopped, vars
<1>5. ASSUME NEW r \in Runtime, SpawnerStep(r) \/ ProcessStep(r)
      PROVE  Kept(t)
  BY Zenon, <1>5, <1>a DEF SpawnerStep, SpawnReady, SpawnExited, RefreshCooldowns,
     RecordHeartbeat, ProcessStep, ServeStep, ProcReady, ProcRead, ProcComplete,
     ProcAnswers, ProcHeartbeat, ProcCrash, vars
<1>6. ASSUME TimeStep \/ \E p \in Provider : PoolStep(p)
      PROVE  Kept(t)
  BY Zenon, <1>6, <1>a DEF TimeStep, SpawnTimeout, IdleTimeElapses, ClockStep,
     ProviderCooldownRuns, ProviderCooldownElapses, RuntimeCooldownElapses, HeartbeatOverdue, PoolStep,
     PoolSnapshot, Prewarm, Prewarmed, PoolPick, PoolReap, PoolRest, RefreshCooldowns, vars
<1>7. CASE CallerStep
  <2>1. ASSUME NEW u \in Task, Cancel(u)
        PROVE  Kept(t)
    <3>1. /\ tasks' = [tasks EXCEPT ![u].state = "cancelled"]
          /\ tasks[u].state \in {"allocating", "running"}
      BY Zenon, <2>1 DEF Cancel, CancelTask
    <3>2. tasks[u].state # "absent"
      BY <3>1
    <3>. QED  BY <1>0, <3>1, <3>2, EndedIsKept DEF Terminal
  <2>2. ASSUME NEW u \in Task, ReleaseRuntime(u)
        PROVE  Kept(t)
    BY Zenon, <2>2, <1>a DEF ReleaseRuntime, ShutdownRuntime, vars
  <2>3. ASSUME NEW p \in Provider, SpawnOnRequest(p)
        PROVE  Kept(t)
    BY Zenon, <2>3, <1>a DEF SpawnOnRequest, vars
  <2>4. CASE OperatorStep \/ RefreshCooldowns
    BY Zenon, <2>4, <1>a DEF OperatorStep, SetProviderEnabled, ResetProviderCooldown,
       RefreshCooldowns
  <2>. QED  BY Zenon, <1>1, <1>7, <2>1, <2>2, <2>3, <2>4 DEF CallerStep
<1>8. CASE UNCHANGED allVars
  BY <1>8, <1>a DEF allVars, vars
<1>. QED
  BY Zenon, <1>2, <1>3, <1>4, <1>5, <1>6, <1>7, <1>8 DEF ControlPlaneNext

(* A handler is moved by its own steps only.                               *)
LEMMA HandlerMoves ==
  ASSUME ControlPlaneIInv, [ControlPlaneNext]_allVars, NEW t \in Task
  PROVE  handlers'[t] = handlers[t] \/ Accept(t) \/ HandlerStep(t)
<1>0. handlers \in [Task -> HandlerRecord]
  BY DEF ControlPlaneIInv, ProcessesTyped
<1>1. ASSUME NEW u \in Task, Accept(u) \/ HandlerStep(u)
      PROVE  handlers'[t] = handlers[t] \/ u = t
  <2>1. \E h : handlers' = [handlers EXCEPT ![u] = h]
    BY Zenon, <1>1 DEF Accept, AcceptRequest, HandlerStep, Spawn, Assign, SpawnFailed,
       Dispatch, Undelivered
  <2>. QED  BY <1>0, <2>1
<1>2. CASE UNCHANGED handlers
  BY <1>2
<1>3. ASSUME NEW r \in Runtime,
             SpawnerStep(r) \/ ReaderStep(r) \/ WaiterStep(r) \/ ProcessStep(r)
      PROVE  UNCHANGED handlers
  BY Zenon, <1>3 DEF SpawnerStep, SpawnReady, SpawnExited, ReaderStep, HandleReady,
     NoteReady, HandleHealth, HandleCompletion, NoteCompletion, WaiterStep, WaitReturns,
     Delist, ProcessStep, ServeStep, ProcReady, ProcRead, ProcComplete, ProcAnswers,
     ProcHeartbeat, ProcCrash
<1>4. ASSUME TimeStep \/ \E p \in Provider : PoolStep(p)
      PROVE  UNCHANGED handlers
  BY Zenon, <1>4 DEF TimeStep, SpawnTimeout, IdleTimeElapses, processVars, PoolStep,
     PoolSnapshot, Prewarm, Prewarmed, PoolPick, PoolReap, PoolRest
<1>5. ASSUME CallerStep
      PROVE  UNCHANGED handlers \/ \E u \in Task : Accept(u)
  BY Zenon, <1>5 DEF CallerStep, Cancel, ReleaseRuntime, ShutdownRuntime, SpawnOnRequest,
     processVars
<1>6. CASE UNCHANGED allVars
  BY <1>6 DEF allVars, processVars
<1>. QED
  BY Zenon, <1>1, <1>2, <1>3, <1>4, <1>5, <1>6 DEF ControlPlaneNext

(* What SubmitTask makes of a task and of the handler that submitted it.   *)
LEMMA AcceptedFits ==
  ASSUME ControlPlaneIInv, NEW t \in Task, Accept(t)
  PROVE  /\ HandlerFits(t)'
         /\ handlers[t].pc = "idle" /\ ~handlers'[t].sent
         /\ handlers'[t].pc = "dispatch" =>
              runtimes[handlers'[t].runtime].state # "unknown"
<1>1. PICK q \in Request, session \in BOOLEAN : AcceptRequest(t, q, session)
  BY DEF Accept
<1>0. /\ handlers \in [Task -> HandlerRecord] /\ TypeOK
      /\ handlers'[t] = Answer(q, session, tasks'[t]) /\ handlers[t].pc = "idle"
      /\ SubmitTask(t, q)
  BY <1>1 DEF AcceptRequest, ControlPlaneIInv, ProcessesTyped
<1>2. PICK p \in Selectable(q) :
        \/ tasks' = [tasks EXCEPT ![t] = [state |-> "allocating",
             provider |-> p, runtime |-> NoRuntime, flow |-> FALSE]]
        \/ \E r \in Choice(q, p) :
             tasks' = [tasks EXCEPT ![t] = [state |-> "running",
               provider |-> p, runtime |-> r, flow |-> FALSE]]
  BY <1>0 DEF SubmitTask
<1>3. p \in Provider
  BY RequestAssumption DEF Selectable, DirectProvider, StrategyProvider, RequestType
<1>4. \A r \in Choice(q, p) : r \in Runtime /\ runtimes[r].state # "unknown"
  BY <1>0, ChosenIsKnown
<1>5. \/ tasks'[t] = [state |-> "allocating", provider |-> p,
                      runtime |-> NoRuntime, flow |-> FALSE]
      \/ \E r \in Choice(q, p) :
           tasks'[t] = [state |-> "running", provider |-> p, runtime |-> r, flow |-> FALSE]
  BY <1>0, <1>2 DEF TypeOK
<1>6. /\ handlers'[t].runtime = tasks'[t].runtime /\ ~handlers'[t].sent
      /\ handlers'[t].pc = IF tasks'[t].state = "running" THEN "dispatch"
                           ELSE IF q.runtime = NoRuntime THEN "spawn" ELSE "done"
  BY <1>0 DEF Answer
<1>7. CASE tasks'[t] = [state |-> "allocating", provider |-> p,
                        runtime |-> NoRuntime, flow |-> FALSE]
  BY <1>0, <1>3, <1>6, <1>7 DEF HandlerFits
<1>8. ASSUME NEW r \in Choice(q, p),
             tasks'[t] = [state |-> "running", provider |-> p, runtime |-> r, flow |-> FALSE]
      PROVE  /\ HandlerFits(t)'
             /\ runtimes[handlers'[t].runtime].state # "unknown"
  BY <1>0, <1>4, <1>6, <1>8 DEF HandlerFits
<1>. QED  BY <1>0, <1>5, <1>6, <1>7, <1>8

(* The task keeps to its handler, whatever else happens to it.             *)
LEMMA HandlersStep ==
  ASSUME ControlPlaneIInv, [ControlPlaneNext]_allVars, NEW t \in Task
  PROVE  HandlerFits(t)'
<1>0. /\ HandlerFits(t) /\ handlers \in [Task -> HandlerRecord]
      /\ handlers[t] \in HandlerRecord /\ TypeOK
  BY DEF ControlPlaneIInv, ProcessesTyped
<1>1. CASE Accept(t)
  BY <1>1, AcceptedFits
<1>2. CASE Assign(t)
  <2>. DEFINE r == handlers[t].runtime
  <2>1. r \in Runtime /\ handlers[t].pc = "await" /\ ~tasks[t].flow
        /\ tasks[t].runtime = NoRuntime /\ tasks[t].state # "absent" /\ ~handlers[t].sent
    BY <1>0, <1>2 DEF Assign, HandlerFits
  <2>2. CASE AssignRuntimeToTask(t, r) /\ handlers' = [handlers EXCEPT ![t].pc = "dispatch"]
    <3>1. /\ tasks'[t].state = "running" /\ tasks'[t].runtime = r /\ ~tasks'[t].flow
      BY <1>0, <2>1, <2>2 DEF AssignRuntimeToTask, TypeOK, TaskRecord
    <3>2. handlers'[t].pc = "dispatch" /\ handlers'[t].runtime = r /\ ~handlers'[t].sent
      BY <1>0, <2>1, <2>2 DEF HandlerRecord
    <3>. QED  BY <2>1, <3>1, <3>2 DEF HandlerFits
  <2>3. CASE RefreshCooldowns /\ handlers' = [handlers EXCEPT ![t].pc = "done"]
    <3>1. tasks' = tasks
      BY <2>3 DEF RefreshCooldowns
    <3>2. handlers'[t].pc = "done"
      BY <1>0, <2>3 DEF HandlerRecord
    <3>. QED  BY <1>0, <2>1, <3>1, <3>2 DEF HandlerFits
  <2>. QED  BY Zenon, <1>2, <2>2, <2>3 DEF Assign
<1>3. CASE Kept(t)
  <2>1. CASE handlers'[t] = handlers[t]
    BY <1>0, <1>3, <2>1 DEF HandlerFits, Kept
  <2>2. CASE Spawn(t)
    <3>1. PICK r \in Runtime : handlers' = [handlers EXCEPT ![t].pc = "await", ![t].runtime = r]
      BY Zenon, <2>2 DEF Spawn
    <3>2. handlers'[t].pc = "await" /\ handlers'[t].runtime = r
          /\ handlers'[t].sent = handlers[t].sent
      BY <1>0, <3>1 DEF HandlerRecord
    <3>. QED  BY <1>0, <1>3, <2>2, <3>2 DEF HandlerFits, Kept, Spawn
  <2>3. CASE SpawnFailed(t) \/ Undelivered(t)
    <3>1. handlers' = [handlers EXCEPT ![t].pc = "done"] /\ handlers[t].pc # "idle"
      BY <2>3 DEF SpawnFailed, Undelivered
    <3>2. handlers'[t].pc = "done" /\ handlers'[t].sent = handlers[t].sent
      BY <1>0, <3>1 DEF HandlerRecord
    <3>. QED  BY <1>0, <1>3, <3>1, <3>2 DEF HandlerFits, Kept
  <2>4. CASE Dispatch(t)
    <3>1. /\ handlers[t].pc = "dispatch"
          /\ \/ handlers' = [handlers EXCEPT ![t].pc = "done", ![t].sent = TRUE]
             \/ handlers' = [handlers EXCEPT ![t].pc =
                    IF handlers[t].session THEN "done" ELSE "undelivered"]
      BY Zenon, <2>4 DEF Dispatch
    <3>2. \/ handlers'[t].pc = "done"
          \/ /\ handlers'[t].pc = "undelivered" /\ handlers'[t].sent = handlers[t].sent
             /\ handlers'[t].runtime = handlers[t].runtime
      BY <1>0, <3>1 DEF HandlerRecord
    <3>. QED  BY <1>0, <1>3, <3>1, <3>2 DEF HandlerFits, Kept
  <2>. QED  BY <1>1, <1>2, <2>1, <2>2, <2>3, <2>4, HandlerMoves DEF HandlerStep
<1>. QED  BY <1>1, <1>2, <1>3, TaskKept

-----------------------------------------------------------------------------
(***************************************************************************)
(* Types of the processes, their pipes and the pool.                       *)
(***************************************************************************)
PipesTyped ==
  /\ children \in [Runtime -> ChildRecord]
  /\ procs \in [Runtime -> ProcRecord]
  /\ stdin \in [Runtime -> Line]
  /\ stdout \in [Runtime -> Seq(Envelope)]
  /\ readers \in [Runtime -> {"free", "runtime_ready", "task_completed"}]
  /\ IsFiniteSet(Started)

PoolTyped ==
  /\ pool \in [Provider -> PoolRecord]
  /\ \A p \in Provider : pool[p].warming # NoRuntime => pool[p].lacking > 0

LEMMA Typed ==
  ProcessesTyped <=> PipesTyped /\ PoolTyped /\ handlers \in [Task -> HandlerRecord]
BY Zenon DEF ProcessesTyped, PipesTyped, PoolTyped

LEMMA StartTyped ==
  ASSUME PipesTyped, NEW r \in Runtime, NEW p \in Provider,
         StartChild(r, p) \/ StartFails(r, p)
  PROVE  PipesTyped'
<1>. USE DEF PipesTyped
<1>0. \A c \in ChildRecord, s \in {"waiting", "failed"} :
        [c EXCEPT !.spawn = s, !.provider = p] \in ChildRecord
  BY DEF ChildRecord
<1>1. CASE StartChild(r, p)
  <2>1. children' \in [Runtime -> ChildRecord]
    <3>1. [children[r] EXCEPT !.spawn = "waiting", !.provider = p] \in ChildRecord
      BY <1>0
    <3>. QED  BY <1>1, <3>1 DEF StartChild
  <2>2. procs' \in [Runtime -> ProcRecord]
    <3>1. [procs[r] EXCEPT !.state = "booting"] \in ProcRecord
      BY DEF ProcRecord
    <3>. QED  BY <1>1, <3>1 DEF StartChild
  <2>3. Started' \subseteq Started \union {r}
    BY <1>1 DEF StartChild, Started
  <2>4. IsFiniteSet(Started')
    BY <2>3, FS_AddElement, FS_Subset
  <2>. QED  BY <1>1, <2>1, <2>2, <2>4 DEF StartChild
<1>2. CASE StartFails(r, p)
  <2>1. [children[r] EXCEPT !.spawn = "failed", !.provider = p] \in ChildRecord
    BY <1>0
  <2>. QED  BY <1>2, <2>1 DEF StartFails, Started
<1>. QED  BY <1>1, <1>2

LEMMA KillTyped ==
  ASSUME PipesTyped, NEW r \in Runtime, Kill(r)
  PROVE  /\ procs' \in [Runtime -> ProcRecord]
         /\ stdin' \in [Runtime -> Line]
         /\ IsFiniteSet(Started')
<1>. USE DEF PipesTyped
<1>1. [state |-> "crashed", task |-> NoTask] \in ProcRecord
  BY DEF ProcRecord
<1>2. procs' \in [Runtime -> ProcRecord]
  BY <1>1 DEF Kill
<1>3. <<>> \in Line
  BY DEF Line
<1>4. Started' \subseteq Started
  BY DEF Kill, Started, Alive
<1>. QED  BY <1>2, <1>3, <1>4, FS_Subset DEF Kill

(* One runtime's records change, and none that was not started starts.     *)
LEMMA OneChanges ==
  ASSUME PipesTyped, NEW r \in Runtime,
         \/ UNCHANGED children
         \/ \E c \in ChildRecord : children' = [children EXCEPT ![r] = c],
         \/ UNCHANGED procs
         \/ procs[r].state # "none" /\ \E w \in ProcRecord : procs' = [procs EXCEPT ![r] = w],
         \/ UNCHANGED stdin
         \/ \E in \in Line : stdin' = [stdin EXCEPT ![r] = in],
         \/ UNCHANGED stdout
         \/ \E out \in Seq(Envelope) : stdout' = [stdout EXCEPT ![r] = out],
         \/ UNCHANGED readers
         \/ \E s \in {"free", "runtime_ready", "task_completed"} :
              readers' = [readers EXCEPT ![r] = s]
  PROVE  PipesTyped'
<1>. USE DEF PipesTyped
<1>1. Started' \subseteq Started
  BY DEF Started
<1>2. IsFiniteSet(Started')
  BY <1>1, FS_Subset
<1>3. children' \in [Runtime -> ChildRecord]
  OBVIOUS
<1>4. procs' \in [Runtime -> ProcRecord]
  OBVIOUS
<1>5. stdin' \in [Runtime -> Line]
  OBVIOUS
<1>6. stdout' \in [Runtime -> Seq(Envelope)]
  OBVIOUS
<1>7. readers' \in [Runtime -> {"free", "runtime_ready", "task_completed"}]
  OBVIOUS
<1>. QED  BY Zenon, <1>2, <1>3, <1>4, <1>5, <1>6, <1>7

LEMMA ChildFields ==
  ASSUME NEW c \in ChildRecord
  PROVE  /\ [c EXCEPT !.busy = TRUE, !.ready = TRUE, !.idle = "zero"] \in ChildRecord
         /\ [c EXCEPT !.spawn = "ok"] \in ChildRecord
         /\ [c EXCEPT !.spawn = "failed"] \in ChildRecord
         /\ [c EXCEPT !.spawn = "failed", !.stopping = TRUE] \in ChildRecord
         /\ [c EXCEPT !.ready = TRUE, !.busy = FALSE, !.stopping = FALSE,
                      !.opened = TRUE, !.idle = "recent"] \in ChildRecord
         /\ [c EXCEPT !.ready = TRUE, !.busy = FALSE,
                      !.idle = IF c.stopping THEN @ ELSE "recent"] \in ChildRecord
         /\ [c EXCEPT !.waited = "marked"] \in ChildRecord
         /\ [c EXCEPT !.waited = "done"] \in ChildRecord
         /\ [c EXCEPT !.stopping = TRUE] \in ChildRecord
         /\ [c EXCEPT !.idle = "long"] \in ChildRecord
<1>1. /\ [c EXCEPT !.busy = TRUE, !.ready = TRUE, !.idle = "zero"] \in ChildRecord
      /\ [c EXCEPT !.spawn = "ok"] \in ChildRecord
      /\ [c EXCEPT !.spawn = "failed"] \in ChildRecord
      /\ [c EXCEPT !.spawn = "failed", !.stopping = TRUE] \in ChildRecord
  BY DEF ChildRecord
<1>2. [c EXCEPT !.ready = TRUE, !.busy = FALSE, !.stopping = FALSE,
                !.opened = TRUE, !.idle = "recent"] \in ChildRecord
  BY DEF ChildRecord
<1>3. \A i \in {"zero", "recent", "long"} :
        [c EXCEPT !.ready = TRUE, !.busy = FALSE, !.idle = i] \in ChildRecord
  BY DEF ChildRecord
<1>4. (IF c.stopping THEN c.idle ELSE "recent") \in {"zero", "recent", "long"}
  BY DEF ChildRecord
<1>5. /\ [c EXCEPT !.waited = "marked"] \in ChildRecord
      /\ [c EXCEPT !.waited = "done"] \in ChildRecord
      /\ [c EXCEPT !.stopping = TRUE] \in ChildRecord
      /\ [c EXCEPT !.idle = "long"] \in ChildRecord
  BY DEF ChildRecord
<1>. QED  BY Zenon, <1>1, <1>2, <1>3, <1>4, <1>5

LEMMA LineTypes ==
  ASSUME NEW in \in Line
  PROVE  /\ \A t \in Task \union {Shutdown} : Append(in, t) \in Line
         /\ in # <<>> => Head(in) \in Task \union {Shutdown} /\ Tail(in) \in Line
         /\ <<>> \in Line
BY DEF Line

LEMMA OutTypes ==
  ASSUME NEW out \in Seq(Envelope)
  PROVE  /\ \A e \in Envelope : Append(out, e) \in Seq(Envelope)
         /\ out # <<>> => Head(out) \in Envelope /\ Tail(out) \in Seq(Envelope)
         /\ \A n \in 0..Len(out) : SubSeq(out, 1, n) \in Seq(Envelope)
OBVIOUS

(* What each step makes of the records of its runtime.                     *)
LEMMA HandlerTyped ==
  ASSUME ControlPlaneIInv, NEW t \in Task, HandlerStep(t)
  PROVE  PipesTyped' /\ handlers' \in [Task -> HandlerRecord] /\ UNCHANGED pool
<1>0. PipesTyped /\ handlers \in [Task -> HandlerRecord] /\ HandlerFits(t)
  BY Typed DEF ControlPlaneIInv
<1>1. CASE Spawn(t)
  <2>1. PICK r \in Runtime :
          /\ StartChild(r, tasks[t].provider) \/ StartFails(r, tasks[t].provider)
          /\ handlers' = [handlers EXCEPT ![t].pc = "await", ![t].runtime = r]
    BY Zenon, <1>1 DEF Spawn
  <2>2. tasks[t].provider \in Provider
    BY <1>0, <1>1 DEF Spawn, HandlerFits
  <2>3. [handlers[t] EXCEPT !.pc = "await", !.runtime = r] \in HandlerRecord
    BY <1>0 DEF HandlerRecord
  <2>4. handlers' \in [Task -> HandlerRecord]
    BY <1>0, <2>1, <2>3
  <2>. QED  BY <1>0, <1>1, <2>1, <2>2, <2>4, StartTyped DEF Spawn
<1>2. CASE Assign(t) \/ SpawnFailed(t) \/ Undelivered(t)
  <2>1. \A pc \in {"dispatch", "done"} : [handlers[t] EXCEPT !.pc = pc] \in HandlerRecord
    BY <1>0 DEF HandlerRecord
  <2>2. \E pc \in {"dispatch", "done"} : handlers' = [handlers EXCEPT ![t].pc = pc]
    BY Zenon, <1>2 DEF Assign, SpawnFailed, Undelivered
  <2>3. handlers' \in [Task -> HandlerRecord]
    BY <1>0, <2>1, <2>2
  <2>. QED  BY Zenon, <1>0, <1>2, <2>3
            DEF Assign, SpawnFailed, Undelivered, PipesTyped, Started
<1>3. CASE Dispatch(t)
  <2>. DEFINE r == handlers[t].runtime
              c == [children[r] EXCEPT !.busy = TRUE, !.ready = TRUE, !.idle = "zero"]
  <2>1. r \in Runtime
    BY <1>0, <1>3 DEF Dispatch, HandlerFits
  <2>2. c \in ChildRecord
    BY <1>0, <2>1, ChildFields DEF PipesTyped
  <2>3. children' = children \/ children' = [children EXCEPT ![r] = c]
    BY <1>0, <1>3, <2>1 DEF Dispatch, PipesTyped
  <2>4. UNCHANGED stdin \/ \E in \in Line : stdin' = [stdin EXCEPT ![r] = in]
    BY <1>0, <1>3, <2>1, LineTypes DEF Dispatch, PipesTyped
  <2>5. handlers' \in [Task -> HandlerRecord]
    <3>1. /\ [handlers[t] EXCEPT !.pc = "done", !.sent = TRUE] \in HandlerRecord
          /\ \A pc \in {"done", "undelivered"} : [handlers[t] EXCEPT !.pc = pc] \in HandlerRecord
      BY <1>0 DEF HandlerRecord
    <3>2. \/ handlers' = [handlers EXCEPT ![t].pc = "done", ![t].sent = TRUE]
          \/ \E pc \in {"done", "undelivered"} : handlers' = [handlers EXCEPT ![t].pc = pc]
      BY Zenon, <1>3 DEF Dispatch
    <3>. QED  BY <1>0, <3>1, <3>2
  <2>6. UNCHANGED <<procs, stdout, readers, pool>>
    BY <1>3 DEF Dispatch
  <2>. HIDE DEF r, c
  <2>7. PipesTyped'
    BY Zenon, <1>0, <2>1, <2>2, <2>3, <2>4, <2>6, OneChanges
  <2>. QED  BY <2>5, <2>6, <2>7
<1>. QED  BY <1>1, <1>2, <1>3 DEF HandlerStep

LEMMA SpawnerTyped ==
  ASSUME PipesTyped, NEW r \in Runtime, SpawnerStep(r) \/ WaiterStep(r)
  PROVE  PipesTyped'
<1>0. children[r] \in ChildRecord /\ stdout[r] \in Seq(Envelope)
  BY DEF PipesTyped
<1>1. \E c \in ChildRecord : children' = [children EXCEPT ![r] = c]
  <2>1. \E c : /\ children' = [children EXCEPT ![r] = c]
               /\ c \in { [children[r] EXCEPT !.spawn = "ok"],
                          [children[r] EXCEPT !.spawn = "failed"],
                          [children[r] EXCEPT !.waited = "marked"],
                          [children[r] EXCEPT !.waited = "done"] }
    BY Zenon DEF SpawnerStep, SpawnReady, SpawnExited, WaiterStep, WaitReturns, Delist
  <2>. QED  BY <1>0, <2>1, ChildFields
<1>2. UNCHANGED stdout \/ \E out \in Seq(Envelope) : stdout' = [stdout EXCEPT ![r] = out]
  BY Zenon, <1>0, OutTypes
     DEF SpawnerStep, SpawnReady, SpawnExited, WaiterStep, WaitReturns, Delist
<1>3. UNCHANGED <<procs, stdin, readers>>
  BY Zenon DEF SpawnerStep, SpawnReady, SpawnExited, WaiterStep, WaitReturns, Delist
<1>. QED  BY Zenon, <1>1, <1>2, <1>3, OneChanges

LEMMA ReaderTyped ==
  ASSUME PipesTyped, NEW r \in Runtime, ReaderStep(r)
  PROVE  PipesTyped'
<1>0. children[r] \in ChildRecord /\ stdout[r] \in Seq(Envelope)
  BY DEF PipesTyped
<1>1. UNCHANGED children \/ \E c \in ChildRecord : children' = [children EXCEPT ![r] = c]
  <2>1. CASE NoteReady(r)
    <3>1. children' = [children EXCEPT ![r] =
            [children[r] EXCEPT !.ready = TRUE, !.busy = FALSE, !.stopping = FALSE,
                                !.opened = TRUE, !.idle = "recent"]]
      BY <2>1 DEF NoteReady, PipesTyped
    <3>. QED  BY <1>0, <3>1, ChildFields
  <2>2. CASE NoteCompletion(r)
    <3>1. children' = [children EXCEPT ![r] =
            [children[r] EXCEPT !.ready = TRUE, !.busy = FALSE,
                                !.idle = IF children[r].stopping THEN @ ELSE "recent"]]
      BY <1>0, <2>2 DEF NoteCompletion, PipesTyped, ChildRecord
    <3>. QED  BY <1>0, <3>1, ChildFields
  <2>. QED  BY Zenon, <2>1, <2>2 DEF ReaderStep, HandleReady, HandleHealth, HandleCompletion
<1>2. UNCHANGED stdout \/ \E out \in Seq(Envelope) : stdout' = [stdout EXCEPT ![r] = out]
  BY Zenon, <1>0, OutTypes DEF ReaderStep, Receive, HandleReady, HandleHealth,
     HandleCompletion, NoteReady, NoteCompletion
<1>3. \/ UNCHANGED readers
      \/ \E s \in {"free", "runtime_ready", "task_completed"} :
           readers' = [readers EXCEPT ![r] = s]
  BY Zenon DEF ReaderStep, HandleReady, HandleHealth, HandleCompletion, NoteReady,
     NoteCompletion
<1>4. UNCHANGED <<procs, stdin>>
  BY Zenon DEF ReaderStep, HandleReady, HandleHealth, HandleCompletion, NoteReady,
     NoteCompletion
<1>. QED  BY Zenon, <1>1, <1>2, <1>3, <1>4, OneChanges

LEMMA ProcessTyped ==
  ASSUME PipesTyped, NEW r \in Runtime, ProcessStep(r)
  PROVE  PipesTyped'
<1>0. /\ procs[r] \in ProcRecord /\ stdin[r] \in Line /\ stdout[r] \in Seq(Envelope)
      /\ procs[r].state # "none"
  BY DEF PipesTyped, ProcessStep, ServeStep, ProcReady, ProcRead, ProcComplete,
     ProcAnswers, ProcHeartbeat, ProcCrash, Alive
<1>1. ASSUME NEW task \in Task \union {NoTask}, NEW s \in {"serving", "executing", "exited"}
      PROVE  [state |-> s, task |-> task] \in ProcRecord
  BY DEF ProcRecord
<1>2. ASSUME NEW action \in {"runtime_ready", "runtime_health", "task_completed"},
             NEW task \in Task \union {NoTask}, NEW success \in BOOLEAN,
             Write(r, action, task, success)
      PROVE  \E out \in Seq(Envelope) : stdout' = [stdout EXCEPT ![r] = out]
  <2>1. [action |-> action, task |-> task, success |-> success] \in Envelope
    BY DEF Envelope
  <2>. QED  BY Zenon, <1>0, <1>2, <2>1, OutTypes DEF Write
<1>3. CASE ProcReady(r)
  <2>1. [procs[r] EXCEPT !.state = "serving"] \in ProcRecord
    BY <1>0 DEF ProcRecord
  <2>2. /\ procs' = [procs EXCEPT ![r] = [procs[r] EXCEPT !.state = "serving"]]
        /\ Write(r, "runtime_ready", NoTask, TRUE)
        /\ UNCHANGED <<children, stdin, readers>>
    BY <1>3 DEF ProcReady, PipesTyped
  <2>3. \E out \in Seq(Envelope) : stdout' = [stdout EXCEPT ![r] = out]
    BY <1>2, <2>2
  <2>. QED  BY Zenon, <1>0, <2>1, <2>2, <2>3, OneChanges
<1>4. CASE ProcHeartbeat(r)
  <2>1. PICK healthy \in BOOLEAN : Write(r, "runtime_health", NoTask, healthy)
    BY <1>4 DEF ProcHeartbeat
  <2>2. \E out \in Seq(Envelope) : stdout' = [stdout EXCEPT ![r] = out]
    BY <1>2, <2>1
  <2>3. UNCHANGED <<children, procs, stdin, readers>>
    BY <1>4 DEF ProcHeartbeat
  <2>. QED  BY Zenon, <1>0, <2>2, <2>3, OneChanges
<1>5. CASE ProcRead(r)
  <2>1. stdin[r] # <<>> /\ Head(stdin[r]) \in Task \union {Shutdown}
    BY <1>0, <1>5, LineTypes DEF ProcRead
  <2>2. \E w \in ProcRecord : procs' = [procs EXCEPT ![r] = w]
    BY <1>1, <1>5, <2>1 DEF ProcRead
  <2>3. \E in \in Line : stdin' = [stdin EXCEPT ![r] = in]
    BY Zenon, <1>0, <1>5, <2>1, LineTypes DEF ProcRead
  <2>4. UNCHANGED <<children, stdout, readers>>
    BY <1>5 DEF ProcRead
  <2>. QED  BY Zenon, <1>0, <2>2, <2>3, <2>4, OneChanges
<1>6. CASE ProcComplete(r)
  <2>1. PICK success \in BOOLEAN : ProcAnswers(r, success)
    BY <1>6 DEF ProcComplete
  <2>2. procs[r].task \in Task \union {NoTask}
    BY <1>0 DEF ProcRecord
  <2>3. \E out \in Seq(Envelope) : stdout' = [stdout EXCEPT ![r] = out]
    BY <1>2, <2>1, <2>2 DEF ProcAnswers
  <2>4. \E w \in ProcRecord : procs' = [procs EXCEPT ![r] = w]
    BY Zenon, <1>1, <2>1 DEF ProcAnswers
  <2>5. UNCHANGED <<children, stdin, readers>>
    BY <2>1 DEF ProcAnswers
  <2>. QED  BY Zenon, <1>0, <2>3, <2>4, <2>5, OneChanges
<1>7. CASE ProcCrash(r)
  BY <1>7, KillTyped DEF ProcCrash, PipesTyped
<1>. QED  BY <1>3, <1>4, <1>5, <1>6, <1>7 DEF ProcessStep, ServeStep

LEMMA ActiveCounted ==
  ASSUME PipesTyped, NEW p
  PROVE  IsFiniteSet(Active(p)) /\ Cardinality(Active(p)) \in Nat
<1>1. Active(p) \subseteq Started
  BY DEF Active, Listed, Started
<1>. QED  BY <1>1, FS_Subset, FS_CardinalityType DEF PipesTyped

LEMMA CountUpTo ==
  ASSUME NEW n \in Nat, NEW S \in SUBSET (1..n)
  PROVE  Cardinality(S) \in 0..n
<1>1. IsFiniteSet(1..n) /\ Cardinality(1..n) = n
  BY FS_Interval
<1>2. IsFiniteSet(S) /\ Cardinality(S) <= Cardinality(1..n)
  BY <1>1, FS_Subset
<1>3. Cardinality(S) \in Nat
  BY <1>2, FS_CardinalityType
<1>. QED  BY <1>1, <1>2, <1>3

(* What the pool loop does to its own copy.                                *)
LEMMA PoolStepTyped ==
  ASSUME ControlPlaneIInv, NEW p \in Provider, PoolStep(p)
  PROVE  PoolTyped'
<1>0. /\ PipesTyped /\ PoolTyped /\ pool \in [Provider -> PoolRecord]
      /\ pool[p] \in PoolRecord
  BY Typed DEF ControlPlaneIInv, PoolTyped
<1>1. SUFFICES \E x \in PoolRecord : /\ pool' = [pool EXCEPT ![p] = x]
                                     /\ x.warming # NoRuntime => x.lacking > 0
  BY <1>0 DEF PoolTyped
<1>2. CASE PoolSnapshot(p)
  <2>. DEFINE warm    == IF providers[p].enabled THEN MinWarm ELSE 0
              active  == Cardinality(Active(p))
              lacking == { n \in 1..warm : /\ Cardinality(Idle(p)) + n <= warm
                                           /\ active + n <= MaxRuntimes }
              x       == [Resting EXCEPT !.idle = Idle(p),
                            !.lacking = Cardinality(lacking), !.excess = active - warm]
  <2>1. warm \in 0..MinWarm /\ warm \in Nat
    BY ControlPlaneAssumption
  <2>2. active \in Nat
    BY <1>0, ActiveCounted
  <2>3. Cardinality(lacking) \in 0..MinWarm
    <3>1. lacking \in SUBSET (1..warm)
      OBVIOUS
    <3>2. Cardinality(lacking) \in 0..warm
      <4>. HIDE DEF warm, lacking
      <4>. QED  BY <2>1, <3>1, CountUpTo
    <3>. QED  BY <2>1, <3>2, ControlPlaneAssumption
  <2>4. Idle(p) \subseteq Runtime
    BY DEF Idle, Active
  <2>5. active - warm \in Int
    BY <2>1, <2>2
  <2>6. Resting \in PoolRecord /\ Resting.warming = NoRuntime
    BY ControlPlaneAssumption DEF Resting, PoolRecord
  <2>7. x \in PoolRecord /\ x.warming = NoRuntime
    <3>1. \A i \in SUBSET Runtime, l \in 0..MinWarm, e \in Int :
            /\ [Resting EXCEPT !.idle = i, !.lacking = l, !.excess = e] \in PoolRecord
            /\ [Resting EXCEPT !.idle = i, !.lacking = l, !.excess = e].warming = NoRuntime
      BY <2>6 DEF PoolRecord
    <3>. HIDE DEF lacking, active, warm
    <3>. QED  BY Zenon, <2>3, <2>4, <2>5, <3>1
  <2>8. pool' = [pool EXCEPT ![p] = x]
    BY Zenon, <1>2 DEF PoolSnapshot
  <2>. HIDE DEF x
  <2>. QED  BY <2>7, <2>8
<1>3. CASE Prewarm(p)
  <2>1. PICK r \in Runtime : pool' = [pool EXCEPT ![p].warming = r]
    BY Zenon, <1>3 DEF Prewarm
  <2>2. [pool[p] EXCEPT !.warming = r] \in PoolRecord
    BY <1>0 DEF PoolRecord
  <2>3. [pool[p] EXCEPT !.warming = r].lacking > 0
    BY <1>0, <1>3 DEF Prewarm, PoolRecord
  <2>. QED  BY <2>1, <2>2, <2>3
<1>4. CASE Prewarmed(p)
  <2>. DEFINE r == pool[p].warming
              x == [pool[p] EXCEPT !.warming = NoRuntime,
                      !.lacking = IF children[r].spawn = "ok" THEN @ - 1 ELSE 0,
                      !.excess  = IF children[r].spawn = "ok" THEN @ + 1 ELSE @]
  <2>1. pool[p].lacking > 0 /\ pool[p].lacking \in 0..MinWarm /\ pool[p].excess \in Int
    BY <1>0, <1>4 DEF Prewarmed, PoolTyped, PoolRecord
  <2>2. \A l \in 0..MinWarm, e \in Int :
          [pool[p] EXCEPT !.warming = NoRuntime, !.lacking = l, !.excess = e] \in PoolRecord
    BY <1>0 DEF PoolRecord
  <2>3. /\ (IF children[r].spawn = "ok" THEN pool[p].lacking - 1 ELSE 0) \in 0..MinWarm
        /\ (IF children[r].spawn = "ok" THEN pool[p].excess + 1 ELSE pool[p].excess) \in Int
    BY <2>1, ControlPlaneAssumption
  <2>4. x \in PoolRecord
    BY Zenon, <2>2, <2>3
  <2>5. x.warming = NoRuntime
    BY <1>0 DEF PoolRecord
  <2>6. pool' = [pool EXCEPT ![p] = x]
    BY <1>0, <1>4 DEF Prewarmed
  <2>. HIDE DEF x
  <2>. QED  BY <2>4, <2>5, <2>6
<1>5. CASE PoolPick(p)
  <2>1. pool[p].warming = NoRuntime /\ pool[p].idle \subseteq Runtime
        /\ pool[p].victim \in Runtime \union {NoRuntime}
    BY <1>0, <1>5 DEF PoolPick, PoolRecord
  <2>2. PICK r \in pool[p].idle : \E v \in Runtime \union {NoRuntime} :
          pool' = [pool EXCEPT ![p].idle = @ \ {r}, ![p].victim = v]
    <3>1. PICK r \in pool[p].idle : \E b \in BOOLEAN :
            pool' = [pool EXCEPT ![p].idle = @ \ {r}, ![p].victim = IF b THEN r ELSE @]
      BY <1>5 DEF PoolPick
    <3>. QED  BY <1>0, <2>1, <3>1
  <2>3. PICK v \in Runtime \union {NoRuntime} :
          pool' = [pool EXCEPT ![p].idle = @ \ {r}, ![p].victim = v]
    BY <2>2
  <2>. DEFINE x == [pool[p] EXCEPT !.idle = @ \ {r}, !.victim = v]
  <2>4. x \in PoolRecord /\ x.warming = NoRuntime
    BY <1>0, <2>1 DEF PoolRecord
  <2>5. pool' = [pool EXCEPT ![p] = x]
    BY <1>0, <2>3
  <2>. HIDE DEF x
  <2>. QED  BY <2>4, <2>5
<1>6. CASE PoolReap(p)
  <2>1. pool' = [pool EXCEPT ![p] =
          [pool[p] EXCEPT !.victim = NoRuntime, !.excess = pool[p].excess - 1]]
    BY <1>0, <1>6 DEF PoolReap
  <2>2. pool[p].excess - 1 \in Int
    BY <1>0 DEF PoolRecord
  <2>3. \A e \in Int : /\ [pool[p] EXCEPT !.victim = NoRuntime, !.excess = e] \in PoolRecord
                       /\ [pool[p] EXCEPT !.victim = NoRuntime, !.excess = e].warming
                            = pool[p].warming
                       /\ [pool[p] EXCEPT !.victim = NoRuntime, !.excess = e].lacking
                            = pool[p].lacking
    BY <1>0 DEF PoolRecord
  <2>. QED  BY <1>0, <2>1, <2>2, <2>3 DEF PoolTyped
<1>7. CASE PoolRest(p)
  <2>1. Resting \in PoolRecord /\ Resting.warming = NoRuntime
    BY ControlPlaneAssumption DEF Resting, PoolRecord
  <2>2. pool' = [pool EXCEPT ![p] = Resting]
    BY Zenon, <1>7 DEF PoolRest
  <2>. QED  BY <2>1, <2>2
<1>. QED  BY <1>2, <1>3, <1>4, <1>5, <1>6, <1>7 DEF PoolStep

(* A child that is killed is stopping already.                             *)
LEMMA KilledTyped ==
  ASSUME PipesTyped, NEW r \in Runtime, Kill(r), NEW c \in ChildRecord,
         children' = [children EXCEPT ![r] = c], UNCHANGED <<stdout, readers>>
  PROVE  PipesTyped'
<1>1. children' \in [Runtime -> ChildRecord]
  BY DEF PipesTyped
<1>. QED  BY Zenon, <1>1, KillTyped DEF PipesTyped

LEMMA PoolPipesTyped ==
  ASSUME ControlPlaneIInv, NEW p \in Provider, PoolStep(p)
  PROVE  PipesTyped' /\ UNCHANGED handlers
<1>0. /\ PipesTyped /\ pool[p] \in PoolRecord
      /\ \A r \in Runtime : children[r] \in ChildRecord
  BY Typed DEF ControlPlaneIInv, PoolTyped, PipesTyped
<1>1. CASE Prewarm(p)
  BY Zenon, <1>0, <1>1, StartTyped DEF Prewarm
<1>2. CASE PoolReap(p)
  <2>. DEFINE r == pool[p].victim
              c == [children[r] EXCEPT !.stopping = TRUE]
  <2>1. r \in Runtime /\ Kill(r) /\ UNCHANGED <<stdout, readers, handlers>>
    BY <1>0, <1>2 DEF PoolReap, PoolRecord
  <2>2. c \in ChildRecord
    BY <1>0, <2>1, ChildFields
  <2>3. children' = [children EXCEPT ![r] = c]
    BY <1>0, <1>2, <2>1 DEF PoolReap, PipesTyped
  <2>. HIDE DEF r, c
  <2>. QED  BY <1>0, <2>1, <2>2, <2>3, KilledTyped
<1>3. CASE PoolSnapshot(p) \/ Prewarmed(p) \/ PoolPick(p) \/ PoolRest(p)
  BY Zenon, <1>0, <1>3 DEF PoolSnapshot, Prewarmed, PoolPick, PoolRest, PipesTyped, Started
<1>. QED  BY <1>1, <1>2, <1>3 DEF PoolStep

LEMMA TimeTyped ==
  ASSUME PipesTyped, TimeStep
  PROVE  PipesTyped' /\ UNCHANGED <<handlers, pool>>
<1>1. ASSUME NEW r \in Runtime, SpawnTimeout(r)
      PROVE  PipesTyped' /\ UNCHANGED <<handlers, pool>>
  <2>. DEFINE c == [children[r] EXCEPT !.spawn = "failed", !.stopping = TRUE]
  <2>1. c \in ChildRecord
    BY ChildFields DEF PipesTyped
  <2>2. children' = [children EXCEPT ![r] = c]
    BY <1>1 DEF SpawnTimeout, PipesTyped
  <2>3. Kill(r) /\ UNCHANGED <<handlers, stdout, readers, pool>>
    BY <1>1 DEF SpawnTimeout
  <2>. HIDE DEF c
  <2>. QED  BY <2>1, <2>2, <2>3, KilledTyped
<1>2. ASSUME NEW r \in Runtime, IdleTimeElapses(r)
      PROVE  PipesTyped' /\ UNCHANGED <<handlers, pool>>
  <2>1. [children[r] EXCEPT !.idle = "long"] \in ChildRecord
    BY ChildFields DEF PipesTyped
  <2>2. children' = [children EXCEPT ![r] = [children[r] EXCEPT !.idle = "long"]]
    BY <1>2 DEF IdleTimeElapses, PipesTyped
  <2>3. UNCHANGED <<handlers, procs, stdin, stdout, readers, pool>>
    BY <1>2 DEF IdleTimeElapses
  <2>. QED  BY Zenon, <2>1, <2>2, <2>3, OneChanges
<1>3. CASE UNCHANGED processVars
  BY Zenon, <1>3 DEF processVars, PipesTyped, Started
<1>. QED  BY Zenon, <1>1, <1>2, <1>3 DEF TimeStep

LEMMA CallerTyped ==
  ASSUME ControlPlaneIInv, CallerStep
  PROVE  PipesTyped' /\ handlers' \in [Task -> HandlerRecord] /\ UNCHANGED pool
<1>0. PipesTyped /\ handlers \in [Task -> HandlerRecord]
  BY Typed DEF ControlPlaneIInv
<1>1. ASSUME NEW t \in Task, Accept(t)
      PROVE  PipesTyped' /\ handlers' \in [Task -> HandlerRecord] /\ UNCHANGED pool
  <2>1. PICK q \in Request, session \in BOOLEAN : AcceptRequest(t, q, session)
    BY <1>1 DEF Accept
  <2>2. tasks' \in [Task -> TaskRecord]
    <3>1. [ControlPlaneNext]_allVars
      BY <1>1 DEF ControlPlaneNext, CallerStep
    <3>. QED  BY <3>1, StepIsCall, TypeStep DEF ControlPlaneIInv, TypeOK
  <2>3. Answer(q, session, tasks'[t]) \in HandlerRecord
    BY <2>2 DEF Answer, HandlerRecord, TaskRecord
  <2>4. handlers' = [handlers EXCEPT ![t] = Answer(q, session, tasks'[t])]
        /\ UNCHANGED <<children, procs, stdin, stdout, readers, pool>>
    BY Zenon, <2>1 DEF AcceptRequest
  <2>5. handlers' \in [Task -> HandlerRecord]
    BY <1>0, <2>3, <2>4
  <2>. QED  BY Zenon, <1>0, <2>4, <2>5 DEF PipesTyped, Started
<1>2. ASSUME NEW t \in Task, ReleaseRuntime(t)
      PROVE  PipesTyped' /\ UNCHANGED <<handlers, pool>>
  <2>. DEFINE r == handlers[t].runtime
              c == [children[r] EXCEPT !.stopping = TRUE]
  <2>1. UNCHANGED <<handlers, procs, stdout, readers, pool>>
    BY <1>2 DEF ReleaseRuntime, ShutdownRuntime
  <2>2. /\ children' = [children EXCEPT ![r] = c]
        /\ stdin' = stdin \/ stdin' = [stdin EXCEPT ![r] = Append(stdin[r], Shutdown)]
    BY <1>0, <1>2 DEF ReleaseRuntime, ShutdownRuntime, PipesTyped
  <2>3. CASE r \in Runtime
    <3>1. c \in ChildRecord /\ stdin[r] \in Line
      BY <1>0, <2>3, ChildFields DEF PipesTyped
    <3>2. Append(stdin[r], Shutdown) \in Line
      BY <3>1, LineTypes
    <3>. HIDE DEF r, c
    <3>. QED  BY Zenon, <1>0, <2>1, <2>2, <2>3, <3>1, <3>2, OneChanges
  <2>4. CASE r \notin Runtime
    <3>. HIDE DEF r, c
    <3>1. children' = children /\ stdin' = stdin
      BY <1>0, <2>2, <2>4 DEF PipesTyped
    <3>. QED  BY Zenon, <1>0, <2>1, <3>1 DEF PipesTyped, Started
  <2>. QED  BY <2>3, <2>4
<1>3. ASSUME NEW p \in Provider, SpawnOnRequest(p)
      PROVE  PipesTyped' /\ UNCHANGED <<handlers, pool>>
  BY Zenon, <1>0, <1>3, StartTyped DEF SpawnOnRequest
<1>4. CASE UNCHANGED processVars
  BY Zenon, <1>0, <1>4 DEF processVars, PipesTyped, Started
<1>. QED  BY Zenon, <1>0, <1>1, <1>2, <1>3, <1>4 DEF CallerStep, Cancel

LEMMA TypedStep ==
  ASSUME ControlPlaneIInv, [ControlPlaneNext]_allVars
  PROVE  ProcessesTyped'
<1>. SUFFICES PipesTyped' /\ PoolTyped' /\ handlers' \in [Task -> HandlerRecord]
  BY Zenon DEF ProcessesTyped, PipesTyped, PoolTyped
<1>0. PipesTyped /\ PoolTyped /\ handlers \in [Task -> HandlerRecord]
  BY Typed DEF ControlPlaneIInv
<1>1. UNCHANGED pool => PoolTyped'
  BY Zenon, <1>0 DEF PoolTyped
<1>2. ASSUME NEW t \in Task, HandlerStep(t)
      PROVE  PipesTyped' /\ PoolTyped' /\ handlers' \in [Task -> HandlerRecord]
  BY Zenon, <1>1, <1>2, HandlerTyped
<1>3. ASSUME NEW r \in Runtime,
             SpawnerStep(r) \/ ReaderStep(r) \/ WaiterStep(r) \/ ProcessStep(r)
      PROVE  PipesTyped' /\ PoolTyped' /\ handlers' \in [Task -> HandlerRecord]
  <2>1. PipesTyped'
    BY Zenon, <1>0, <1>3, SpawnerTyped, ReaderTyped, ProcessTyped
  <2>2. UNCHANGED <<handlers, pool>>
    BY Zenon, <1>3 DEF SpawnerStep, SpawnReady, SpawnExited, ReaderStep, HandleReady,
       NoteReady, HandleHealth, HandleCompletion, NoteCompletion, WaiterStep, WaitReturns,
       Delist, ProcessStep, ServeStep, ProcReady, ProcRead, ProcComplete, ProcAnswers,
       ProcHeartbeat, ProcCrash
  <2>. QED  BY Zenon, <1>0, <1>1, <2>1, <2>2
<1>4. ASSUME NEW p \in Provider, PoolStep(p)
      PROVE  PipesTyped' /\ PoolTyped' /\ handlers' \in [Task -> HandlerRecord]
  BY Zenon, <1>0, <1>4, PoolStepTyped, PoolPipesTyped
<1>5. CASE TimeStep
  BY Zenon, <1>0, <1>1, <1>5, TimeTyped
<1>6. CASE CallerStep
  BY Zenon, <1>1, <1>6, CallerTyped
<1>7. CASE UNCHANGED allVars
  BY Zenon, <1>0, <1>1, <1>7 DEF allVars, processVars, PipesTyped, Started
<1>. QED  BY Zenon, <1>2, <1>3, <1>4, <1>5, <1>6, <1>7 DEF ControlPlaneNext

-----------------------------------------------------------------------------
(***************************************************************************)
(* A process, its child record and its pipes, step by step.                *)
(***************************************************************************)

(* Only a registration makes a runtime known.                              *)
StaysUnknown(x) == runtimes[x].state = "unknown" => runtimes'[x].state = "unknown"

(* The flags a child is dispatched to and reaped by do not matter.         *)
LEMMA ChildKept ==
  ASSUME NEW x \in Runtime, ChildFits(x), StaysUnknown(x),
         children'[x].spawn = children[x].spawn,
         children'[x].provider = children[x].provider,
         children'[x].waited = children[x].waited,
         procs'[x] = procs[x], stdout'[x] = stdout[x],
         Alive(x) \/ stdin'[x] = stdin[x]
  PROVE  ChildFits(x)'
BY DEF ChildFits, Alive, StaysUnknown

LEMMA ChildStarts ==
  ASSUME PipesTyped, NEW x \in Runtime, ChildFits(x), StaysUnknown(x),
         NEW r \in Runtime, NEW p \in Provider, StartChild(r, p) \/ StartFails(r, p)
  PROVE  ChildFits(x)'
<1>0. /\ children \in [Runtime -> ChildRecord] /\ procs \in [Runtime -> ProcRecord]
      /\ children[x] \in ChildRecord /\ procs[x] \in ProcRecord
  BY DEF PipesTyped
<1>1. UNCHANGED <<stdin, stdout>> /\ children[r].spawn = "none"
  BY DEF StartChild, StartFails
<1>2. CASE StartChild(r, p) /\ x = r
  <2>1. /\ children'[x].spawn = "waiting" /\ children'[x].provider = p
        /\ children'[x].waited = children[x].waited
        /\ procs'[x].state = "booting" /\ procs'[x].task = procs[x].task
    BY <1>0, <1>2 DEF StartChild, ChildRecord, ProcRecord
  <2>. QED  BY <1>1, <1>2, <2>1 DEF ChildFits, Alive, StaysUnknown
<1>3. CASE StartFails(r, p) /\ x = r
  <2>1. /\ children'[x].spawn = "failed" /\ children'[x].provider = p
        /\ children'[x].waited = children[x].waited /\ procs'[x] = procs[x]
    BY <1>0, <1>3 DEF StartFails, ChildRecord
  <2>. QED  BY <1>1, <1>3, <2>1 DEF ChildFits, Alive, StaysUnknown
<1>4. CASE x # r
  <2>1. children'[x] = children[x] /\ procs'[x] = procs[x]
    BY <1>0, <1>4 DEF StartChild, StartFails
  <2>. QED  BY <1>1, <2>1, ChildKept
<1>. QED  BY <1>2, <1>3, <1>4

LEMMA ChildKilled ==
  ASSUME PipesTyped, NEW x \in Runtime, ChildFits(x), StaysUnknown(x),
         NEW r \in Runtime, Kill(r), UNCHANGED stdout,
         children'[x].spawn = "none" => children[x].spawn = "none",
         children'[x].provider = children[x].provider,
         children'[x].waited = children[x].waited
  PROVE  ChildFits(x)'
<1>0. procs \in [Runtime -> ProcRecord] /\ stdin \in [Runtime -> Line]
  BY DEF PipesTyped
<1>1. CASE x = r
  <2>1. /\ stdin'[x] = <<>>
        /\ Alive(x) => procs'[x].state = "crashed" /\ procs'[x].task = NoTask
        /\ ~Alive(x) => procs'[x] = procs[x]
    BY <1>0, <1>1 DEF Kill
  <2>. QED  BY <2>1 DEF ChildFits, Alive, StaysUnknown
<1>2. CASE x # r
  <2>1. procs'[x] = procs[x] /\ stdin'[x] = stdin[x]
    BY <1>0, <1>2 DEF Kill
  <2>. QED  BY <2>1 DEF ChildFits, Alive, StaysUnknown
<1>. QED  BY <1>1, <1>2

LEMMA HandlerChild ==
  ASSUME ControlPlaneIInv, NEW x \in Runtime, StaysUnknown(x),
         NEW t \in Task, HandlerStep(t)
  PROVE  ChildFits(x)'
<1>0. /\ PipesTyped /\ ChildFits(x) /\ HandlerFits(t)
      /\ children \in [Runtime -> ChildRecord] /\ stdin \in [Runtime -> Line]
  BY Typed DEF ControlPlaneIInv, PipesTyped
<1>1. CASE Spawn(t)
  <2>1. PICK r \in Runtime :
          StartChild(r, tasks[t].provider) \/ StartFails(r, tasks[t].provider)
    BY <1>1 DEF Spawn
  <2>2. tasks[t].provider \in Provider
    BY <1>0, <1>1 DEF Spawn, HandlerFits
  <2>. QED  BY <1>0, <2>1, <2>2, ChildStarts
<1>2. CASE Assign(t) \/ SpawnFailed(t) \/ Undelivered(t)
  <2>1. UNCHANGED <<children, procs, stdin, stdout>>
    BY Zenon, <1>2 DEF Assign, SpawnFailed, Undelivered
  <2>. QED  BY <1>0, <2>1, ChildKept
<1>3. CASE Dispatch(t)
  <2>1. /\ children'[x].spawn = children[x].spawn
        /\ children'[x].provider = children[x].provider
        /\ children'[x].waited = children[x].waited
    BY <1>0, <1>3 DEF Dispatch, ChildRecord
  <2>2. UNCHANGED <<procs, stdout>> /\ (Alive(x) \/ stdin'[x] = stdin[x])
    BY <1>0, <1>3 DEF Dispatch
  <2>. QED  BY <1>0, <2>1, <2>2, ChildKept
<1>. QED  BY <1>1, <1>2, <1>3 DEF HandlerStep

LEMMA SpawnerChild ==
  ASSUME ControlPlaneIInv, NEW x \in Runtime, StaysUnknown(x),
         NEW r \in Runtime, SpawnerStep(r) \/ WaiterStep(r)
  PROVE  ChildFits(x)'
<1>0. /\ ChildFits(x)
      /\ children \in [Runtime -> ChildRecord] /\ stdout \in [Runtime -> Seq(Envelope)]
  BY DEF ControlPlaneIInv, ProcessesTyped
<1>1. UNCHANGED <<procs, stdin>>
  BY Zenon DEF SpawnerStep, SpawnReady, SpawnExited, WaiterStep, WaitReturns, Delist
<1>2. /\ children'[x].provider = children[x].provider
      /\ \/ children'[x].spawn = children[x].spawn
         \/ children[x].spawn = "waiting" /\ children'[x].spawn # "none"
      /\ \/ children'[x].waited = children[x].waited
         \/ procs[x].state \in {"exited", "crashed"}
  <2>1. CASE SpawnReady(r) \/ SpawnExited(r)
    <3>1. PICK s \in {"ok", "failed"} : children' = [children EXCEPT ![r].spawn = s]
      BY <2>1 DEF SpawnReady, SpawnExited
    <3>2. x = r => children[x].spawn = "waiting"
      BY <2>1 DEF SpawnReady, SpawnExited
    <3>3. CASE x = r
      <4>1. children'[x] = [children[x] EXCEPT !.spawn = s]
        BY <1>0, <3>1, <3>3
      <4>. QED  BY <1>0, <3>2, <3>3, <4>1 DEF ChildRecord
    <3>4. x # r => children'[x] = children[x]
      BY <1>0, <3>1
    <3>. QED  BY <3>3, <3>4
  <2>2. CASE WaitReturns(r) \/ Delist(r)
    <3>1. PICK w \in {"marked", "done"} : children' = [children EXCEPT ![r].waited = w]
      BY <2>2 DEF WaitReturns, Delist
    <3>2. x = r => procs[x].state \in {"exited", "crashed"}
      BY <1>0, <2>2 DEF WaitReturns, Delist, ChildFits
    <3>3. CASE x = r
      <4>1. children'[x] = [children[x] EXCEPT !.waited = w]
        BY <1>0, <3>1, <3>3
      <4>. QED  BY <1>0, <3>2, <3>3, <4>1 DEF ChildRecord
    <3>4. x # r => children'[x] = children[x]
      BY <1>0, <3>1
    <3>. QED  BY <3>3, <3>4
  <2>. QED  BY <2>1, <2>2 DEF SpawnerStep, WaiterStep
<1>3. \/ stdout'[x] = stdout[x]
      \/ \E n \in 0..Len(stdout[x]) : stdout'[x] = SubSeq(stdout[x], 1, n)
  <2>1. CASE WaitReturns(r)
    <3>1. PICK n \in 0..Len(stdout[r]) : stdout' = [stdout EXCEPT ![r] = SubSeq(@, 1, n)]
      BY <2>1 DEF WaitReturns
    <3>. QED  BY <1>0, <3>1
  <2>2. CASE UNCHANGED stdout
    BY <2>2
  <2>. QED  BY Zenon, <2>1, <2>2 DEF SpawnerStep, SpawnReady, SpawnExited, WaiterStep, Delist
<1>4. /\ \A i \in DOMAIN stdout'[x] : /\ i \in DOMAIN stdout[x]
                                      /\ stdout'[x][i] = stdout[x][i]
      /\ stdout[x] = <<>> => stdout'[x] = <<>>
  <2>1. stdout[x] \in Seq(Envelope)
    BY <1>0
  <2>. QED  BY <1>3, <2>1
<1>. QED  BY <1>0, <1>1, <1>2, <1>4 DEF ChildFits, Alive, StaysUnknown

(* What is read from stdout came first, and is not read again.             *)
LEMMA ReaderChild ==
  ASSUME ControlPlaneIInv, NEW x \in Runtime, NEW r \in Runtime, ReaderStep(r),
         \/ StaysUnknown(x)
         \/ HandleReady(r) /\ x = r
  PROVE  ChildFits(x)'
<1>0. /\ ChildFits(x) /\ children \in [Runtime -> ChildRecord]
      /\ stdout \in [Runtime -> Seq(Envelope)]
  BY DEF ControlPlaneIInv, ProcessesTyped
<1>1. UNCHANGED <<procs, stdin>>
  BY Zenon DEF ReaderStep, HandleReady, NoteReady, HandleHealth, HandleCompletion,
     NoteCompletion
<1>2. CASE NoteReady(r) \/ NoteCompletion(r)
  <2>1. /\ children'[x].spawn = children[x].spawn
        /\ children'[x].provider = children[x].provider
        /\ children'[x].waited = children[x].waited
    BY <1>0, <1>2 DEF NoteReady, NoteCompletion, ChildRecord
  <2>2. UNCHANGED stdout /\ StaysUnknown(x)
    BY <1>2 DEF NoteReady, NoteCompletion, HandleReady, Receive, vars, StaysUnknown
  <2>. QED  BY <1>0, <1>1, <2>1, <2>2, ChildKept
<1>3. CASE HandleReady(r) \/ HandleHealth(r) \/ HandleCompletion(r)
  <2>1. UNCHANGED children /\ stdout' = [stdout EXCEPT ![r] = Tail(stdout[r])]
        /\ stdout[r] # <<>>
    BY Zenon, <1>3 DEF HandleReady, HandleHealth, HandleCompletion, Receive
  <2>2. CASE x # r
    <3>1. stdout'[x] = stdout[x] /\ StaysUnknown(x)
      BY <1>0, <2>1, <2>2
    <3>. QED  BY <1>0, <1>1, <2>1, <3>1, ChildKept
  <2>3. CASE x = r
    <3>1. stdout'[x] = Tail(stdout[x]) /\ stdout[x] \in Seq(Envelope) /\ stdout[x] # <<>>
      BY <1>0, <2>1, <2>3
    <3>2. \A i \in DOMAIN stdout'[x] :
            /\ i + 1 \in DOMAIN stdout[x] /\ i + 1 # 1
            /\ stdout'[x][i] = stdout[x][i + 1]
      BY <3>1
    <3>3. \A i \in DOMAIN stdout'[x] :
            /\ stdout'[x][i].action # "runtime_ready"
            /\ stdout'[x][i].action = "task_completed" => stdout'[x][i].task \in Task
      BY <1>0, <3>2 DEF ChildFits
    <3>4. procs[x].state \notin {"none", "booting"}
      BY <1>0, <3>1 DEF ChildFits
    <3>. QED  BY <1>0, <1>1, <2>1, <3>3, <3>4 DEF ChildFits, Alive
  <2>. QED  BY <2>2, <2>3
<1>. QED  BY <1>2, <1>3 DEF ReaderStep

LEMMA ProcessChild ==
  ASSUME ControlPlaneIInv, NEW x \in Runtime, StaysUnknown(x),
         NEW r \in Runtime, ProcessStep(r)
  PROVE  ChildFits(x)'
<1>0. /\ PipesTyped /\ ChildFits(x)
      /\ procs \in [Runtime -> ProcRecord] /\ procs[x] \in ProcRecord
      /\ stdin \in [Runtime -> Line] /\ stdin[x] \in Line
      /\ stdout \in [Runtime -> Seq(Envelope)] /\ stdout[x] \in Seq(Envelope)
  BY Typed DEF ControlPlaneIInv, PipesTyped
<1>1. UNCHANGED <<children, vars>> /\ StaysUnknown(x)
  BY Zenon DEF ProcessStep, ServeStep, ProcReady, ProcRead, ProcComplete, ProcAnswers,
     ProcHeartbeat, ProcCrash, vars, StaysUnknown
<1>2. CASE ProcCrash(r)
  BY <1>0, <1>1, <1>2, ChildKilled DEF ProcCrash
<1>3. CASE x # r /\ ~ProcCrash(r)
  <2>1. procs'[x] = procs[x] /\ stdin'[x] = stdin[x] /\ stdout'[x] = stdout[x]
    BY <1>0, <1>3 DEF ProcessStep, ServeStep, ProcReady, ProcRead, ProcComplete,
       ProcAnswers, ProcHeartbeat, Write
  <2>. QED  BY <1>0, <1>1, <2>1, ChildKept
<1>4. CASE x = r /\ ProcReady(r)
  <2>1. /\ procs[x].state = "booting" /\ procs'[x].state = "serving"
        /\ procs'[x].task = procs[x].task /\ UNCHANGED stdin
    BY <1>0, <1>4 DEF ProcReady, ProcRecord
  <2>. DEFINE e == [action |-> "runtime_ready", task |-> NoTask, success |-> TRUE]
  <2>2. stdout'[x] = Append(stdout[x], e) /\ stdout[x] = <<>>
        /\ runtimes[x].state = "unknown"
    BY <1>0, <1>4, <2>1 DEF ProcReady, Write, ChildFits
  <2>3. \A i \in DOMAIN stdout'[x] : i = 1 /\ stdout'[x][i].action = "runtime_ready"
    <3>1. e.action = "runtime_ready"
      OBVIOUS
    <3>. HIDE DEF e
    <3>. QED  BY <2>2, <3>1
  <2>. QED  BY <1>0, <1>1, <2>1, <2>2, <2>3 DEF ChildFits, Alive, vars
<1>5. ASSUME x = r, NEW action \in {"runtime_health", "task_completed"},
             NEW t \in Task \union {NoTask}, NEW success, Write(r, action, t, success),
             action = "task_completed" => t \in Task,
             procs[x].state \in {"serving", "executing"},
             procs'[x].state \in {"serving", "executing"},
             IF procs'[x].state = "executing" THEN procs'[x].task \in Task
                                              ELSE procs'[x].task = NoTask
      PROVE  ChildFits(x)'
  <2>. DEFINE e == [action |-> action, task |-> t, success |-> success]
  <2>1. stdout'[x] = Append(stdout[x], e)
    BY <1>0, <1>5 DEF Write
  <2>2. \A i \in DOMAIN stdout'[x] :
          \/ i \in DOMAIN stdout[x] /\ stdout'[x][i] = stdout[x][i]
          \/ stdout'[x][i] = e
    <3>. HIDE DEF e
    <3>. QED  BY <1>0, <2>1
  <2>a. e.action = action /\ e.task = t
    OBVIOUS
  <2>. HIDE DEF e
  <2>3. \A i \in DOMAIN stdout'[x] :
          /\ stdout'[x][i].action = "runtime_ready" =>
               i = 1 /\ runtimes[x].state = "unknown"
          /\ stdout'[x][i].action = "task_completed" => stdout'[x][i].task \in Task
    BY <1>0, <1>5, <2>2, <2>a DEF ChildFits
  <2>. QED  BY <1>0, <1>1, <1>5, <2>3 DEF ChildFits, Alive, vars
<1>6. CASE x = r /\ ProcHeartbeat(r)
  <2>1. PICK healthy : Write(r, "runtime_health", NoTask, healthy)
    BY <1>6 DEF ProcHeartbeat
  <2>2. procs[x].state \in {"serving", "executing"} /\ UNCHANGED procs
    BY <1>6 DEF ProcHeartbeat
  <2>. QED  BY <1>0, <1>5, <1>6, <2>1, <2>2 DEF ChildFits
<1>7. CASE x = r /\ ProcComplete(r)
  <2>1. PICK success : ProcAnswers(r, success)
    BY <1>7 DEF ProcComplete
  <2>2. /\ procs[x].state = "executing" /\ procs[x].task \in Task
        /\ procs'[x] = [state |-> "serving", task |-> NoTask]
        /\ Write(r, "task_completed", procs[x].task, success)
    BY <1>0, <1>7, <2>1 DEF ProcAnswers, ChildFits
  <2>. QED  BY <1>5, <1>7, <2>2
<1>8. CASE x = r /\ ProcRead(r)
  <2>1. /\ procs[x].state = "serving" /\ UNCHANGED stdout
        /\ Head(stdin[x]) \in Task \union {Shutdown}
    BY <1>0, <1>8, LineTypes DEF ProcRead
  <2>2. /\ procs'[x] = IF Head(stdin[x]) = Shutdown
                       THEN [state |-> "exited", task |-> NoTask]
                       ELSE [state |-> "executing", task |-> Head(stdin[x])]
        /\ Head(stdin[x]) = Shutdown => stdin'[x] = <<>>
    BY <1>0, <1>8 DEF ProcRead
  <2>. QED  BY <1>0, <1>1, <2>1, <2>2 DEF ChildFits, Alive, StaysUnknown
<1>. QED  BY <1>2, <1>3, <1>4, <1>6, <1>7, <1>8 DEF ProcessStep, ServeStep

LEMMA PoolChild ==
  ASSUME ControlPlaneIInv, NEW x \in Runtime, StaysUnknown(x),
         NEW p \in Provider, PoolStep(p)
  PROVE  ChildFits(x)'
<1>0. /\ PipesTyped /\ ChildFits(x) /\ pool[p] \in PoolRecord
      /\ children \in [Runtime -> ChildRecord]
  BY Typed DEF ControlPlaneIInv, PipesTyped, PoolTyped
<1>1. CASE Prewarm(p)
  <2>1. PICK r \in Runtime : StartChild(r, p) \/ StartFails(r, p)
    BY <1>1 DEF Prewarm
  <2>. QED  BY <1>0, <2>1, ChildStarts
<1>2. CASE PoolReap(p)
  <2>1. /\ pool[p].victim \in Runtime /\ Kill(pool[p].victim) /\ UNCHANGED stdout
        /\ children' = [children EXCEPT ![pool[p].victim].stopping = TRUE]
    BY <1>0, <1>2 DEF PoolReap, PoolRecord
  <2>2. /\ children'[x].spawn = children[x].spawn
        /\ children'[x].provider = children[x].provider
        /\ children'[x].waited = children[x].waited
    BY <1>0, <2>1 DEF ChildRecord
  <2>. QED  BY <1>0, <2>1, <2>2, ChildKilled
<1>3. CASE PoolSnapshot(p) \/ Prewarmed(p) \/ PoolPick(p) \/ PoolRest(p)
  <2>1. UNCHANGED <<children, procs, stdin, stdout>>
    BY Zenon, <1>3 DEF PoolSnapshot, Prewarmed, PoolPick, PoolRest
  <2>. QED  BY <1>0, <2>1, ChildKept
<1>. QED  BY <1>1, <1>2, <1>3 DEF PoolStep

LEMMA OthersChild ==
  ASSUME ControlPlaneIInv, NEW x \in Runtime, StaysUnknown(x),
         TimeStep \/ CallerStep \/ UNCHANGED allVars
  PROVE  ChildFits(x)'
<1>0. /\ PipesTyped /\ ChildFits(x) /\ children \in [Runtime -> ChildRecord]
      /\ children[x] \in ChildRecord /\ stdin \in [Runtime -> Line]
  BY Typed DEF ControlPlaneIInv, PipesTyped
<1>1. ASSUME NEW r \in Runtime, SpawnTimeout(r)
      PROVE  ChildFits(x)'
  <2>1. /\ Kill(r) /\ UNCHANGED stdout
        /\ children' = [children EXCEPT ![r].spawn = "failed", ![r].stopping = TRUE]
    BY <1>1 DEF SpawnTimeout
  <2>2. /\ children'[x].spawn = "none" => children[x].spawn = "none"
        /\ children'[x].provider = children[x].provider
        /\ children'[x].waited = children[x].waited
    BY <1>0, <2>1 DEF ChildRecord
  <2>. QED  BY <1>0, <2>1, <2>2, ChildKilled
<1>2. ASSUME NEW r \in Runtime, IdleTimeElapses(r)
      PROVE  ChildFits(x)'
  <2>1. /\ children'[x].spawn = children[x].spawn
        /\ children'[x].provider = children[x].provider
        /\ children'[x].waited = children[x].waited
    BY <1>0, <1>2 DEF IdleTimeElapses, ChildRecord
  <2>2. UNCHANGED <<procs, stdin, stdout>>
    BY <1>2 DEF IdleTimeElapses
  <2>. QED  BY <1>0, <2>1, <2>2, ChildKept
<1>3. ASSUME NEW t \in Task, ReleaseRuntime(t)
      PROVE  ChildFits(x)'
  <2>. DEFINE r == handlers[t].runtime
  <2>1. /\ children' = [children EXCEPT ![r].stopping = TRUE]
        /\ stdin' = (IF Alive(r) /\ ~AsksToExit(r)
                     THEN [stdin EXCEPT ![r] = Append(@, Shutdown)] ELSE stdin)
        /\ UNCHANGED <<procs, stdout>>
    BY Zenon, <1>3 DEF ReleaseRuntime, ShutdownRuntime
  <2>2. /\ children'[x].spawn = children[x].spawn
        /\ children'[x].provider = children[x].provider
        /\ children'[x].waited = children[x].waited
    BY <1>0, <2>1 DEF ChildRecord
  <2>3. Alive(x) \/ stdin'[x] = stdin[x]
    BY <1>0, <2>1
  <2>. QED  BY <1>0, <2>1, <2>2, <2>3, ChildKept
<1>4. ASSUME NEW p \in Provider, SpawnOnRequest(p)
      PROVE  ChildFits(x)'
  <2>1. PICK r \in Runtime : StartChild(r, p)
    BY <1>4 DEF SpawnOnRequest
  <2>. QED  BY <1>0, <2>1, ChildStarts
<1>5. CASE UNCHANGED <<children, procs, stdin, stdout>>
  BY <1>0, <1>5, ChildKept
<1>6. ASSUME NEW t \in Task, Accept(t)
      PROVE  UNCHANGED <<children, procs, stdin, stdout>>
  BY Zenon, <1>6 DEF Accept, AcceptRequest
<1>7. UNCHANGED processVars \/ UNCHANGED allVars
        => UNCHANGED <<children, procs, stdin, stdout>>
  BY DEF allVars, processVars
<1>. QED  BY Zenon, <1>1, <1>2, <1>3, <1>4, <1>5, <1>6, <1>7
          DEF TimeStep, CallerStep, Cancel

LEMMA ChildStep ==
  ASSUME ControlPlaneIInv, [ControlPlaneNext]_allVars, NEW x \in Runtime
  PROVE  ChildFits(x)'
<1>1. StaysUnknown(x) \/ HandleReady(x)
  <2>1. CASE [OtherCalls]_vars
    BY <2>1, UnknownStays DEF StaysUnknown, ControlPlaneIInv
  <2>2. ASSUME NEW r \in Runtime, HandleReady(r), r # x
        PROVE  StaysUnknown(x)
    BY <2>2 DEF HandleReady, RegisterRuntime, StaysUnknown, ControlPlaneIInv, TypeOK
  <2>. QED  BY <2>1, <2>2, StepCalls
<1>2. CASE StaysUnknown(x)
  <2>1. ASSUME NEW t \in Task, HandlerStep(t)
        PROVE  ChildFits(x)'
    BY Zenon, <1>2, <2>1, HandlerChild
  <2>2. ASSUME NEW r \in Runtime, SpawnerStep(r) \/ WaiterStep(r)
        PROVE  ChildFits(x)'
    BY Zenon, <1>2, <2>2, SpawnerChild
  <2>3. ASSUME NEW r \in Runtime, ReaderStep(r)
        PROVE  ChildFits(x)'
    BY <1>2, <2>3, ReaderChild
  <2>4. ASSUME NEW r \in Runtime, ProcessStep(r)
        PROVE  ChildFits(x)'
    BY Zenon, <1>2, <2>4, ProcessChild
  <2>5. ASSUME NEW p \in Provider, PoolStep(p)
        PROVE  ChildFits(x)'
    BY Zenon, <1>2, <2>5, PoolChild
  <2>6. CASE TimeStep \/ CallerStep \/ UNCHANGED allVars
    BY Zenon, <1>2, <2>6, OthersChild
  <2>. QED  BY Zenon, <2>1, <2>2, <2>3, <2>4, <2>5, <2>6 DEF ControlPlaneNext
<1>3. CASE HandleReady(x)
  BY <1>3, ReaderChild DEF ReaderStep
<1>. QED  BY <1>1, <1>2, <1>3

-----------------------------------------------------------------------------
(***************************************************************************)
(* Where a task is mentioned, step by step: DispatchTask alone hands one   *)
(* to a process, and from there it only moves on or is lost.               *)
(***************************************************************************)
MovesAt(x) ==
  Moves(procs[x].task, stdin[x], stdout[x], procs'[x].task, stdin'[x], stdout'[x])

HandedTo(t, x) ==
  /\ Dispatch(t) /\ handlers[t].runtime = x
  /\ procs'[x].task = procs[x].task /\ stdout'[x] = stdout[x]
  /\ stdin'[x] = Append(stdin[x], t) /\ handlers'[t].sent

LEMMA MovesStill ==
  ASSUME NEW x \in Runtime, procs'[x].task = procs[x].task,
         stdin'[x] = stdin[x], stdout'[x] = stdout[x]
  PROVE  MovesAt(x)
BY MovesNot DEF MovesAt

LEMMA MovesStart ==
  ASSUME PipesTyped, NEW x \in Runtime, NEW r \in Runtime, NEW p,
         StartChild(r, p) \/ StartFails(r, p)
  PROVE  MovesAt(x)
<1>1. procs'[x].task = procs[x].task
  <2>1. UNCHANGED procs \/ procs' = [procs EXCEPT ![r].state = "booting"]
    BY Zenon DEF StartChild, StartFails
  <2>2. procs \in [Runtime -> ProcRecord] /\ procs[x] \in ProcRecord
    BY DEF PipesTyped
  <2>3. [procs[x] EXCEPT !.state = "booting"].task = procs[x].task
    BY <2>2 DEF ProcRecord
  <2>. QED  BY <2>1, <2>2, <2>3
<1>2. UNCHANGED <<stdin, stdout>>
  BY DEF StartChild, StartFails
<1>. QED  BY <1>1, <1>2, MovesStill

LEMMA MovesKilled ==
  ASSUME PipesTyped, NEW x \in Runtime, ChildFits(x), NEW r \in Runtime, Kill(r),
         UNCHANGED stdout
  PROVE  MovesAt(x)
<1>0. procs \in [Runtime -> ProcRecord] /\ stdin \in [Runtime -> Line]
  BY DEF PipesTyped
<1>1. CASE x = r
  <2>1. procs'[x].task = NoTask /\ stdin'[x] = <<>>
    BY <1>0, <1>1 DEF Kill, ChildFits, Alive
  <2>. QED  BY <2>1, MovesDead DEF MovesAt
<1>2. CASE x # r
  BY <1>0, <1>2, MovesStill DEF Kill
<1>. QED  BY <1>1, <1>2

LEMMA ProcessMoves ==
  ASSUME ControlPlaneIInv, NEW x \in Runtime, NEW r \in Runtime, ProcessStep(r)
  PROVE  MovesAt(x)
<1>0. /\ PipesTyped /\ ChildFits(x)
      /\ procs \in [Runtime -> ProcRecord] /\ procs[x] \in ProcRecord
      /\ stdin \in [Runtime -> Line] /\ stdin[x] \in Line
      /\ stdout \in [Runtime -> Seq(Envelope)] /\ stdout[x] \in Seq(Envelope)
  BY Typed DEF ControlPlaneIInv, PipesTyped
<1>1. CASE ProcCrash(r)
  BY <1>0, <1>1, MovesKilled DEF ProcCrash
<1>2. CASE x # r /\ ~ProcCrash(r)
  <2>1. procs'[x] = procs[x] /\ stdin'[x] = stdin[x] /\ stdout'[x] = stdout[x]
    BY <1>0, <1>2 DEF ProcessStep, ServeStep, ProcReady, ProcRead, ProcComplete,
       ProcAnswers, ProcHeartbeat, Write
  <2>. QED  BY <2>1, MovesStill
<1>3. ASSUME x = r, NEW action \in {"runtime_ready", "runtime_health"},
             NEW success \in BOOLEAN, Write(r, action, NoTask, success),
             procs'[x].task = procs[x].task, stdin'[x] = stdin[x]
      PROVE  MovesAt(x)
  <2>. DEFINE e == [action |-> action, task |-> NoTask, success |-> success]
  <2>1. e \in Envelope /\ e.task = NoTask
    BY DEF Envelope
  <2>2. stdout'[x] = Append(stdout[x], e)
    BY <1>0, <1>3 DEF Write
  <2>. HIDE DEF e
  <2>. QED  BY <1>0, <1>3, <2>1, <2>2, MovesNote DEF MovesAt
<1>4. CASE x = r /\ ProcReady(r)
  <2>1. procs'[x].task = procs[x].task /\ UNCHANGED stdin
        /\ Write(r, "runtime_ready", NoTask, TRUE)
    BY <1>0, <1>4 DEF ProcReady, ProcRecord
  <2>. QED  BY <1>3, <1>4, <2>1
<1>5. CASE x = r /\ ProcHeartbeat(r)
  <2>1. UNCHANGED <<procs, stdin>>
        /\ \E healthy \in BOOLEAN : Write(r, "runtime_health", NoTask, healthy)
    BY Zenon, <1>5 DEF ProcHeartbeat
  <2>. QED  BY <1>3, <1>5, <2>1
<1>6. CASE x = r /\ ProcRead(r)
  <2>1. /\ procs[x].task = NoTask /\ UNCHANGED stdout /\ stdin[x] # <<>>
        /\ \/ procs'[x].task = NoTask /\ stdin'[x] = <<>>
           \/ procs'[x].task = Head(stdin[x]) /\ stdin'[x] = Tail(stdin[x])
    BY <1>0, <1>6 DEF ProcRead, ChildFits
  <2>. QED  BY <1>0, <2>1, MovesDead, MovesRead DEF MovesAt
<1>7. CASE x = r /\ ProcComplete(r)
  <2>1. PICK success \in BOOLEAN : ProcAnswers(r, success)
    BY <1>7 DEF ProcComplete
  <2>. DEFINE e == [action |-> "task_completed", task |-> procs[x].task,
                    success |-> success]
  <2>2. e \in Envelope /\ e.task = procs[x].task
    BY <1>0 DEF Envelope, ProcRecord
  <2>3. /\ procs'[x].task = NoTask /\ UNCHANGED stdin
        /\ stdout'[x] = Append(stdout[x], e)
    BY <1>0, <1>7, <2>1 DEF ProcAnswers, Write
  <2>. HIDE DEF e
  <2>. QED  BY <1>0, <2>2, <2>3, MovesAnswer DEF MovesAt
<1>. QED  BY <1>1, <1>2, <1>4, <1>5, <1>6, <1>7 DEF ProcessStep, ServeStep

LEMMA ReaderMoves ==
  ASSUME ControlPlaneIInv, NEW x \in Runtime, NEW r \in Runtime,
         SpawnerStep(r) \/ ReaderStep(r) \/ WaiterStep(r)
  PROVE  MovesAt(x)
<1>0. stdout \in [Runtime -> Seq(Envelope)]
  BY DEF ControlPlaneIInv, ProcessesTyped
<1>1. UNCHANGED <<procs, stdin>>
  BY Zenon DEF SpawnerStep, SpawnReady, SpawnExited, ReaderStep, HandleReady, NoteReady,
     HandleHealth, HandleCompletion, NoteCompletion, WaiterStep, WaitReturns, Delist
<1>2. CASE HandleReady(r) \/ HandleHealth(r) \/ HandleCompletion(r)
  <2>1. stdout' = [stdout EXCEPT ![r] = Tail(stdout[r])] /\ stdout[r] # <<>>
    BY Zenon, <1>2 DEF HandleReady, HandleHealth, HandleCompletion, Receive
  <2>2. CASE x = r
    BY <1>0, <1>1, <2>1, <2>2, MovesTake DEF MovesAt
  <2>3. CASE x # r
    BY <1>0, <1>1, <2>1, <2>3, MovesStill
  <2>. QED  BY <2>2, <2>3
<1>3. CASE WaitReturns(r)
  <2>1. PICK n \in 0..Len(stdout[r]) : stdout' = [stdout EXCEPT ![r] = SubSeq(@, 1, n)]
    BY <1>3 DEF WaitReturns
  <2>2. CASE x = r
    BY <1>0, <1>1, <2>1, <2>2, MovesCut DEF MovesAt
  <2>3. CASE x # r
    BY <1>0, <1>1, <2>1, <2>3, MovesStill
  <2>. QED  BY <2>2, <2>3
<1>4. CASE UNCHANGED stdout
  BY <1>1, <1>4, MovesStill
<1>. QED  BY Zenon, <1>2, <1>3, <1>4 DEF SpawnerStep, SpawnReady, SpawnExited, ReaderStep,
          NoteReady, NoteCompletion, WaiterStep, Delist

LEMMA HandlerGives ==
  ASSUME ControlPlaneIInv, NEW x \in Runtime, NEW t \in Task, HandlerStep(t)
  PROVE  MovesAt(x) \/ HandedTo(t, x)
<1>0. /\ PipesTyped /\ handlers \in [Task -> HandlerRecord]
      /\ stdin \in [Runtime -> Line]
  BY Typed DEF ControlPlaneIInv, PipesTyped
<1>1. CASE Spawn(t)
  <2>1. PICK r \in Runtime :
          StartChild(r, tasks[t].provider) \/ StartFails(r, tasks[t].provider)
    BY <1>1 DEF Spawn
  <2>. QED  BY <1>0, <2>1, MovesStart
<1>2. CASE Assign(t) \/ SpawnFailed(t) \/ Undelivered(t)
  <2>1. UNCHANGED <<procs, stdin, stdout>>
    BY Zenon, <1>2 DEF Assign, SpawnFailed, Undelivered
  <2>. QED  BY <2>1, MovesStill
<1>3. CASE Dispatch(t)
  <2>1. UNCHANGED <<procs, stdout>>
    BY <1>3 DEF Dispatch
  <2>2. CASE stdin'[x] = stdin[x]
    BY <2>1, <2>2, MovesStill
  <2>3. CASE stdin'[x] # stdin[x]
    <3>. DEFINE r == handlers[t].runtime
    <3>1. /\ stdin' = [stdin EXCEPT ![r] = Append(@, t)]
          /\ handlers' = [handlers EXCEPT ![t].pc = "done", ![t].sent = TRUE]
      BY <1>3, <2>3 DEF Dispatch
    <3>2. r = x /\ stdin'[x] = Append(stdin[x], t)
      BY <1>0, <2>3, <3>1
    <3>3. handlers'[t].sent
      BY <1>0, <3>1 DEF HandlerRecord
    <3>. QED  BY <1>3, <2>1, <3>2, <3>3 DEF HandedTo
  <2>. QED  BY <2>2, <2>3
<1>. QED  BY <1>1, <1>2, <1>3 DEF HandlerStep

LEMMA OthersMove ==
  ASSUME ControlPlaneIInv, NEW x \in Runtime,
         \/ \E p \in Provider : PoolStep(p)
         \/ TimeStep \/ CallerStep \/ UNCHANGED allVars
  PROVE  MovesAt(x)
<1>0. /\ PipesTyped /\ ChildFits(x)
      /\ stdin \in [Runtime -> Line] /\ stdout[x] \in Seq(Envelope)
  BY Typed DEF ControlPlaneIInv, PipesTyped
<1>1. ASSUME NEW p \in Provider, Prewarm(p) \/ SpawnOnRequest(p)
      PROVE  MovesAt(x)
  <2>1. PICK r \in Runtime : StartChild(r, p) \/ StartFails(r, p)
    BY <1>1 DEF Prewarm, SpawnOnRequest
  <2>. QED  BY <1>0, <2>1, MovesStart
<1>2. ASSUME NEW p \in Provider, PoolReap(p)
      PROVE  MovesAt(x)
  <2>1. pool[p].victim \in Runtime /\ Kill(pool[p].victim) /\ UNCHANGED stdout
    BY <1>2 DEF ControlPlaneIInv, ProcessesTyped, PoolReap, PoolRecord
  <2>. QED  BY <1>0, <2>1, MovesKilled
<1>3. ASSUME NEW r \in Runtime, SpawnTimeout(r)
      PROVE  MovesAt(x)
  BY <1>0, <1>3, MovesKilled DEF SpawnTimeout
<1>4. ASSUME NEW t \in Task, ReleaseRuntime(t)
      PROVE  MovesAt(x)
  <2>1. \/ stdin'[x] = stdin[x]
        \/ stdin'[x] = Append(stdin[x], Shutdown)
    BY <1>0, <1>4 DEF ReleaseRuntime, ShutdownRuntime
  <2>2. UNCHANGED <<procs, stdout>>
    BY <1>4 DEF ReleaseRuntime, ShutdownRuntime
  <2>. QED  BY <1>0, <2>1, <2>2, MovesAsk, MovesStill DEF MovesAt
<1>5. CASE UNCHANGED <<procs, stdin, stdout>>
  BY <1>5, MovesStill
<1>6. ASSUME NEW p \in Provider,
             PoolSnapshot(p) \/ Prewarmed(p) \/ PoolPick(p) \/ PoolRest(p)
      PROVE  UNCHANGED <<procs, stdin, stdout>>
  BY Zenon, <1>6 DEF PoolSnapshot, Prewarmed, PoolPick, PoolRest
<1>7. ASSUME NEW r \in Runtime, IdleTimeElapses(r)
      PROVE  UNCHANGED <<procs, stdin, stdout>>
  BY Zenon, <1>7 DEF IdleTimeElapses
<1>8. ASSUME NEW t \in Task, Accept(t)
      PROVE  UNCHANGED <<procs, stdin, stdout>>
  BY Zenon, <1>8 DEF Accept, AcceptRequest
<1>9. UNCHANGED processVars \/ UNCHANGED allVars => UNCHANGED <<procs, stdin, stdout>>
  BY DEF allVars, processVars
<1>. QED  BY Zenon, <1>1, <1>2, <1>3, <1>4, <1>5, <1>6, <1>7, <1>8, <1>9
          DEF PoolStep, TimeStep, CallerStep, Cancel

LEMMA Carried ==
  ASSUME ControlPlaneIInv, [ControlPlaneNext]_allVars, NEW x \in Runtime
  PROVE  MovesAt(x) \/ \E t \in Task : HandedTo(t, x)
BY Zenon, HandlerGives, ReaderMoves, ProcessMoves, OthersMove DEF ControlPlaneNext

(* The handler of a task it has sent is done with it.                      *)
LEMMA SentStays ==
  ASSUME ControlPlaneIInv, [ControlPlaneNext]_allVars, NEW t \in Task, handlers[t].sent
  PROVE  handlers'[t] = handlers[t] /\ tasks'[t].runtime = tasks[t].runtime
<1>1. handlers[t].pc = "done"
  BY DEF ControlPlaneIInv, HandlerFits
<1>2. ~Accept(t) /\ ~HandlerStep(t)
  BY <1>1 DEF Accept, AcceptRequest, HandlerStep, Spawn, Assign, SpawnFailed, Dispatch,
     Undelivered
<1>3. handlers'[t] = handlers[t] /\ Kept(t)
  BY Zenon, <1>2, HandlerMoves, TaskKept DEF HandlerStep
<1>. QED  BY <1>3 DEF Kept

LEMMA MentionStep ==
  ASSUME ControlPlaneIInv, [ControlPlaneNext]_allVars, NEW t \in Task, NEW x \in Runtime
  PROVE  MentionFits(t, x)'
<1>0. /\ MentionFits(t, x) /\ HandlerFits(t)
      /\ stdin[x] \in Line /\ stdout[x] \in Seq(Envelope)
  BY DEF ControlPlaneIInv, ProcessesTyped
<1>1. MentionedAt(t, x) => handlers'[t].sent /\ tasks'[t].runtime = x
  BY <1>0, SentStays DEF MentionFits
<1>2. CASE MovesAt(x)
  <2>1. (MentionedAt(t, x)' => MentionedAt(t, x)) /\ OnceAt(t, x)'
    BY <1>0, <1>2 DEF MovesAt, Moves, MentionedAt, MentionFits, OnceAt
  <2>. QED  BY <1>1, <2>1 DEF MentionFits
<1>3. ASSUME HandedTo(t, x)
      PROVE  MentionFits(t, x)'
  <2>1. handlers[t].pc = "dispatch" /\ tasks'[t].runtime = x
    BY <1>0, <1>3 DEF HandedTo, Dispatch, HandlerFits, vars
  <2>2. ~MentionedAt(t, x)
    BY <1>0, <2>1 DEF HandlerFits, MentionFits
  <2>3. OnceAt(t, x)'
    BY <1>0, <1>3, <2>2, Handed DEF HandedTo, MentionedAt, OnceAt
  <2>. QED  BY <1>3, <2>1, <2>3 DEF HandedTo, MentionFits
<1>4. ASSUME NEW u \in Task, HandedTo(u, x), t # u
      PROVE  MentionFits(t, x)'
  <2>0. HandlerFits(u) /\ MentionFits(u, x)
    BY DEF ControlPlaneIInv
  <2>1. handlers[u].pc = "dispatch"
    BY <1>4 DEF HandedTo, Dispatch
  <2>2. ~MentionedAt(u, x)
    BY <2>0, <2>1 DEF HandlerFits, MentionFits
  <2>3. (MentionedAt(t, x)' => MentionedAt(t, x)) /\ OnceAt(t, x)'
    BY <1>0, <1>4, <2>2, Handed DEF HandedTo, MentionedAt, OnceAt, MentionFits
  <2>. QED  BY <1>1, <2>3 DEF MentionFits
<1>. QED  BY <1>2, <1>3, <1>4, Carried

(* Each conjunct by its own lemma; the registries' by module ServiceProofs *)
(* because the step is one of its calls.                                   *)
LEMMA ControlPlaneStep ==
  ASSUME ControlPlaneIInv, [ControlPlaneNext]_allVars
  PROVE  ControlPlaneIInv'
<1>1. (TypeOK /\ RuntimesFit /\ LeaseCoherent)'
  BY StepIsCall, TypeStep, FitStep, CoherentStep DEF ControlPlaneIInv
<1>2. ProcessesTyped'
  BY TypedStep
<1>3. \A r \in Runtime : ChildFits(r)'
  BY ChildStep
<1>4. \A t \in Task : HandlerFits(t)'
  BY HandlersStep
<1>5. \A t \in Task, r \in Runtime : MentionFits(t, r)'
  BY MentionStep
<1>. QED  BY <1>1, <1>2, <1>3, <1>4, <1>5 DEF ControlPlaneIInv

LEMMA ControlPlaneInvariant == ControlPlaneSpec => []ControlPlaneIInv
<1>1. ControlPlaneInit => ControlPlaneIInv
  BY ControlPlaneBegins
<1>2. ControlPlaneIInv /\ [ControlPlaneNext]_allVars => ControlPlaneIInv'
  BY ControlPlaneStep
<1>. QED  BY <1>1, <1>2, PTL DEF ControlPlaneSpec

(* The goroutines of the process manager, the handlers of execute requests *)
(* and the pool loop keep to the calls module Service assumes of them: the *)
(* registries under all of them are those its theorems are about.          *)
THEOREM KeepsToService == ControlPlaneSpec => Spec
<1>1. ControlPlaneInit => Init
  BY DEF ControlPlaneInit
<1>2. ControlPlaneIInv /\ [ControlPlaneNext]_allVars => [Next]_vars
  BY StepIsCall
<1>. QED  BY <1>1, <1>2, ControlPlaneInvariant, PTL DEF ControlPlaneSpec, Spec

(* A task is handed to one process and once (DispatchTask), whatever       *)
(* crash, timeout, reap, release and late answer do in between.            *)
THEOREM TasksAreHandedOnce == ControlPlaneSpec => []HandedOnce
<1>1. ASSUME ControlPlaneIInv, NEW t \in Task, NEW r \in Runtime
      PROVE  /\ Mentions(t, r) <= (IF handlers[t].sent THEN 1 ELSE 0)
             /\ Mentions(t, r) > 0 => tasks[t].runtime = r
  <2>1. Mentions(t, r) = IF MentionedAt(t, r) THEN 1 ELSE 0
    BY <1>1, Counted DEF ControlPlaneIInv, MentionFits, ProcessesTyped
  <2>2. MentionedAt(t, r) => handlers[t].sent /\ tasks[t].runtime = r
    BY <1>1 DEF ControlPlaneIInv, MentionFits
  <2>. QED  BY <2>1, <2>2
<1>2. ControlPlaneIInv => HandedOnce
  BY <1>1 DEF HandedOnce
<1>. QED  BY <1>2, ControlPlaneInvariant, PTL

-----------------------------------------------------------------------------
(***************************************************************************)
(* Leases cover the work.  A task at a live process, or about to be sent   *)
(* to it, holds the runtime: where nobody cancels and nobody registers a   *)
(* runtime over HTTP, nothing but its own answer or the end of the process *)
(* takes the lease away.                                                   *)
(***************************************************************************)
TaskIsLeased(t, r) == Alive(r) /\ MentionedAt(t, r) => runtimes[r].task = t

HandlerIsLeased(t) ==
  LET h == handlers[t]
  IN  /\ h.pc \in {"dispatch", "undelivered"} =>
           procs[h.runtime].state \notin {"none", "booting"}
      /\ h.pc = "dispatch" /\ Alive(h.runtime) => runtimes[h.runtime].task = t
      /\ h.pc = "undelivered" => ~Alive(h.runtime)

LeaseFits ==
  /\ \A t \in Task, r \in Runtime : TaskIsLeased(t, r)
  /\ \A t \in Task : HandlerIsLeased(t)

(* What ends the lease of a live process: its own answer, if not a cancel. *)
LEMMA LeaseKept ==
  ASSUME ~ReRegistration, "cancel" \notin Environment, ControlPlaneIInv, LeaseFits,
         [ControlPlaneNext]_allVars, NEW x \in Runtime, NEW t \in Task,
         Alive(x), runtimes[x].task = t, runtimes'[x].task # t
  PROVE  HandleCompletion(x) /\ Head(stdout[x]).task = t
<1>0. /\ TypeOK /\ runtimes[x] \in RuntimeRecord /\ runtimes \in [Runtime -> RuntimeRecord]
      /\ RefreshedRuntimes[x].task = t /\ RefreshedRuntimes[x] \in RuntimeRecord
      /\ RefreshedRuntimes \in [Runtime -> RuntimeRecord]
      /\ t # NoTask /\ x # NoRuntime
  BY RefreshedTypes, RefreshKeeps, NullAssumption
     DEF ControlPlaneIInv, TypeOK, RefreshedRuntimes
<1>1. runtimes'[x].task = NoTask
  BY <1>0, StepIsCall, NotStolen DEF ControlPlaneIInv
<1>2. UNCHANGED runtimes \/ runtimes' = RefreshedRuntimes => FALSE
  BY <1>0, <1>1
<1>3. ASSUME NEW r \in Runtime, NEW u \in Task, runtimes' = [RefreshedRuntimes EXCEPT ![r] = Lease(@, u)]
      PROVE  FALSE
  BY <1>0, <1>1, <1>3, LeaseFit, NullAssumption
<1>4. ASSUME NEW r \in Runtime, NEW healthy, NEW failures, NEW cooling,
             RecordHeartbeat(r, healthy, failures, cooling)
      PROVE  FALSE
  BY <1>0, <1>1, <1>4 DEF RecordHeartbeat, Sync, RuntimeRecord
<1>5. ASSUME NEW u, NEW r, RecordSuccess(u, r) \/ \E e : RecordFailure(u, r, e), x # r
      PROVE  FALSE
  BY <1>0, <1>2, <1>5 DEF RecordSuccess, RecordFailure
<1>6. ASSUME NEW u \in Task, HandlerStep(u)
      PROVE  FALSE
  <2>1. CASE Spawn(u) \/ Dispatch(u)
    BY <1>2, <2>1 DEF Spawn, Dispatch, vars
  <2>2. CASE Assign(u)
    <3>1. handlers[u].runtime \in Runtime
      BY <2>2 DEF Assign, ControlPlaneIInv, HandlerFits
    <3>2. AssignRuntimeToTask(u, handlers[u].runtime) \/ RefreshCooldowns
      BY Zenon, <2>2 DEF Assign
    <3>. QED  BY <1>2, <1>3, <3>1, <3>2 DEF AssignRuntimeToTask, RefreshCooldowns
  <2>3. CASE SpawnFailed(u)
    BY <1>0, <1>5, <2>3 DEF SpawnFailed
  <2>4. CASE Undelivered(u)
    <3>1. ~Alive(handlers[u].runtime)
      BY <2>4 DEF Undelivered, LeaseFits, HandlerIsLeased
    <3>. QED  BY <1>5, <2>4, <3>1 DEF Undelivered
  <2>. QED  BY <1>6, <2>1, <2>2, <2>3, <2>4 DEF HandlerStep
<1>7. ASSUME NEW r \in Runtime, SpawnerStep(r) \/ ProcessStep(r)
      PROVE  FALSE
  BY Zenon, <1>2, <1>4, <1>7 DEF SpawnerStep, SpawnReady, SpawnExited, RefreshCooldowns,
     ProcessStep, ServeStep, ProcReady, ProcRead, ProcComplete, ProcAnswers,
     ProcHeartbeat, ProcCrash, vars
<1>8. ASSUME NEW r \in Runtime, ReaderStep(r)
      PROVE  HandleCompletion(x) /\ Head(stdout[x]).task = t
  <2>1. CASE HandleReady(r)
    BY <1>0, <1>1, <2>1 DEF HandleReady, RegisterRuntime, Sync, RuntimeRecord
  <2>2. CASE HandleHealth(r)
    BY <1>4, <2>2 DEF HandleHealth
  <2>3. CASE NoteReady(r) \/ NoteCompletion(r)
    BY <1>2, <2>3 DEF NoteReady, NoteCompletion, vars
  <2>4. CASE HandleCompletion(r)
    <3>1. x = r
      BY <1>5, <2>4 DEF HandleCompletion
    <3>2. Head(stdout[x]).task \in Task /\ MentionedAt(Head(stdout[x]).task, x)
      BY <2>4, <3>1, AnsweredTask DEF HandleCompletion
    <3>3. runtimes[x].task = Head(stdout[x]).task
      BY <3>2 DEF LeaseFits, TaskIsLeased
    <3>. QED  BY <2>4, <3>1, <3>3
  <2>. QED  BY <1>8, <2>1, <2>2, <2>3, <2>4 DEF ReaderStep
<1>9. ASSUME NEW r \in Runtime, WaiterStep(r)
      PROVE  FALSE
  <2>1. CASE Delist(r)
    BY <1>2, <2>1 DEF Delist, vars
  <2>2. CASE WaitReturns(r)
    <3>1. r # x
      BY <2>2 DEF WaitReturns, Alive
    <3>2. UNCHANGED runtimes \/ \E rt : runtimes' = [runtimes EXCEPT ![r] = rt]
      BY Zenon, <2>2 DEF WaitReturns, MarkRuntimeStopped, MarkRuntimeCrashed, vars
    <3>. QED  BY <1>0, <1>1, <3>1, <3>2
  <2>. QED  BY <1>9, <2>1, <2>2 DEF WaiterStep
<1>10. ASSUME NEW p \in Provider, PoolStep(p)
       PROVE  FALSE
  BY Zenon, <1>2, <1>10 DEF PoolStep, PoolSnapshot, Prewarm, Prewarmed, PoolPick, PoolReap,
     PoolRest, RefreshCooldowns, vars
<1>11. CASE TimeStep
  <2>1. CASE ClockStep
    BY <1>0, <1>1, <2>1 DEF ClockStep, ProviderCooldownRuns, ProviderCooldownElapses, RuntimeCooldownElapses,
       HeartbeatOverdue, RuntimeRecord
  <2>. QED  BY Zenon, <1>2, <1>11, <2>1 DEF TimeStep, SpawnTimeout, IdleTimeElapses, vars
<1>12. CASE CallerStep
  <2>1. ASSUME NEW u \in Task, Accept(u)
        PROVE  FALSE
    <3>1. PICK q \in Request : SubmitTask(u, q)
      BY <2>1 DEF Accept, AcceptRequest
    <3>2. PICK p \in Selectable(q) :
            \/ runtimes' = RefreshedRuntimes
            \/ \E r \in Choice(q, p) :
                 runtimes' = [RefreshedRuntimes EXCEPT ![r] = Lease(@, u)]
      BY <3>1 DEF SubmitTask
    <3>. QED  BY <1>2, <1>3, <3>2, ChoiceIsKnown
  <2>2. ~\E u \in Task : Cancel(u)
    BY DEF Cancel, May
  <2>3. ASSUME NEW u \in Task, ReleaseRuntime(u)
        PROVE  FALSE
    BY Zenon, <1>2, <2>3 DEF ReleaseRuntime, ShutdownRuntime, vars
  <2>4. ASSUME NEW p \in Provider, SpawnOnRequest(p)
        PROVE  FALSE
    BY Zenon, <1>2, <2>4 DEF SpawnOnRequest, vars
  <2>5. CASE OperatorStep \/ RefreshCooldowns
    BY Zenon, <1>2, <2>5 DEF OperatorStep, SetProviderEnabled, ResetProviderCooldown,
       RefreshCooldowns
  <2>. QED  BY Zenon, <1>12, <2>1, <2>2, <2>3, <2>4, <2>5 DEF CallerStep
<1>13. CASE UNCHANGED allVars
  BY <1>2, <1>13 DEF allVars, vars
<1>. QED  BY Zenon, <1>6, <1>7, <1>8, <1>9, <1>10, <1>11, <1>12, <1>13 DEF ControlPlaneNext

(* A process starts with nothing to do.                                    *)
LEMMA NotStarted ==
  ASSUME ControlPlaneIInv, NEW x \in Runtime, procs[x].state = "none",
         NEW t \in Task
  PROVE  ~MentionedAt(t, x)
<1>1. /\ procs[x].task = NoTask /\ stdin[x] = <<>> /\ stdout[x] = <<>>
  BY DEF ControlPlaneIInv, ChildFits, Alive
<1>2. DOMAIN stdin[x] = {} /\ DOMAIN stdout[x] = {}
  BY <1>1
<1>. QED  BY <1>1, <1>2, NullAssumption DEF MentionedAt, Mentioned

(* What a step may do to the state of a process.                           *)
LEMMA ProcessMovesOn ==
  ASSUME ControlPlaneIInv, [ControlPlaneNext]_allVars, NEW x \in Runtime
  PROVE  \/ procs'[x].state = procs[x].state
         \/ procs[x].state = "none" /\ procs'[x].state = "booting"
         \/ Alive(x) /\ procs'[x].state \notin {"none", "booting"}
<1>. DEFINE Goal == \/ procs'[x].state = procs[x].state
                    \/ procs[x].state = "none" /\ procs'[x].state = "booting"
                    \/ Alive(x) /\ procs'[x].state \notin {"none", "booting"}
<1>0. procs \in [Runtime -> ProcRecord] /\ children \in [Runtime -> ChildRecord]
      /\ ChildFits(x) /\ procs[x] \in ProcRecord
  BY DEF ControlPlaneIInv, ProcessesTyped
<1>1. ASSUME NEW r \in Runtime, NEW p, StartChild(r, p) \/ StartFails(r, p)
      PROVE  Goal
  <2>1. CASE StartChild(r, p) /\ x = r
    <3>1. procs[x].state = "none"
      BY <1>0, <2>1 DEF StartChild, ChildFits
    <3>2. procs'[x].state = "booting"
      BY <1>0, <2>1 DEF StartChild, ProcRecord
    <3>. QED  BY <3>1, <3>2
  <2>2. CASE x # r \/ UNCHANGED procs
    BY <1>0, <1>1, <2>2 DEF StartChild, StartFails
  <2>. QED  BY <1>1, <2>1, <2>2 DEF StartFails
<1>2. ASSUME NEW r, Kill(r)
      PROVE  Goal
  BY <1>0, <1>2 DEF Kill, Alive
<1>3. CASE UNCHANGED procs
  BY <1>3
<1>4. ASSUME NEW r \in Runtime, ProcessStep(r)
      PROVE  Goal
  <2>1. CASE ProcCrash(r)
    BY <1>2, <2>1 DEF ProcCrash
  <2>2. CASE x # r /\ ~ProcCrash(r)
    BY <1>0, <1>4, <2>2 DEF ProcessStep, ServeStep, ProcReady, ProcRead, ProcComplete,
       ProcAnswers, ProcHeartbeat
  <2>3. CASE x = r /\ ~ProcCrash(r)
    <3>1. Alive(x)
      BY <1>4, <2>3 DEF ProcessStep, ServeStep, ProcReady, ProcRead, ProcComplete,
         ProcAnswers, ProcHeartbeat, Alive
    <3>2. CASE ProcReady(r)
      <4>1. procs' = [procs EXCEPT ![r].state = "serving"]
        BY <3>2 DEF ProcReady
      <4>2. procs'[x].state = "serving"
        BY <1>0, <2>3, <4>1 DEF ProcRecord
      <4>. QED  BY <3>1, <4>2
    <3>3. CASE ProcRead(r) \/ ProcComplete(r)
      <4>1. \E s \in {"serving", "executing", "exited"} : \E t :
              procs' = [procs EXCEPT ![r] = [state |-> s, task |-> t]]
        BY Zenon, <3>3 DEF ProcRead, ProcComplete, ProcAnswers
      <4>2. procs'[x].state \in {"serving", "executing", "exited"}
        BY <1>0, <2>3, <4>1
      <4>. QED  BY <3>1, <4>2
    <3>4. CASE ProcHeartbeat(r)
      BY <3>4 DEF ProcHeartbeat
    <3>. QED  BY <1>4, <2>3, <3>2, <3>3, <3>4 DEF ProcessStep, ServeStep
  <2>. QED  BY <2>1, <2>2, <2>3
<1>5. ASSUME NEW t \in Task, HandlerStep(t)
      PROVE  Goal
  BY Zenon, <1>1, <1>3, <1>5 DEF HandlerStep, Spawn, Assign, SpawnFailed, Dispatch,
     Undelivered
<1>6. ASSUME NEW r \in Runtime, SpawnerStep(r) \/ ReaderStep(r) \/ WaiterStep(r)
      PROVE  UNCHANGED procs
  BY Zenon, <1>6 DEF SpawnerStep, SpawnReady, SpawnExited, ReaderStep, HandleReady,
     NoteReady, HandleHealth, HandleCompletion, NoteCompletion, WaiterStep, WaitReturns,
     Delist
<1>7. ASSUME NEW p \in Provider, PoolStep(p)
      PROVE  Goal
  BY Zenon, <1>1, <1>2, <1>3, <1>7 DEF PoolStep, PoolSnapshot, Prewarm, Prewarmed,
     PoolPick, PoolReap, PoolRest
<1>8. CASE TimeStep
  BY Zenon, <1>2, <1>3, <1>8 DEF TimeStep, SpawnTimeout, IdleTimeElapses, processVars
<1>9. CASE CallerStep
  <2>1. ASSUME NEW p \in Provider, SpawnOnRequest(p)
        PROVE  Goal
    BY Zenon, <1>1, <2>1 DEF SpawnOnRequest
  <2>. QED  BY Zenon, <1>3, <1>9, <2>1 DEF CallerStep, Accept, AcceptRequest, Cancel,
            ReleaseRuntime, ShutdownRuntime, processVars
<1>10. UNCHANGED allVars => UNCHANGED procs
  BY DEF allVars, processVars
<1>. QED
  BY Zenon, <1>3, <1>4, <1>5, <1>6, <1>7, <1>8, <1>9, <1>10 DEF ControlPlaneNext

(* Who is handed a task has a runtime that was leased for it.              *)
LEMMA HandedIsLeased ==
  ASSUME ControlPlaneIInv, LeaseFits, NEW t \in Task, NEW x \in Runtime, HandedTo(t, x)
  PROVE  /\ Alive(x) /\ runtimes[x].task = t /\ UNCHANGED <<runtimes, procs>>
         /\ ~MentionedAt(t, x)
<1>1. handlers[t].pc = "dispatch" /\ UNCHANGED <<runtimes, procs>>
  BY DEF HandedTo, Dispatch, vars
<1>2. Alive(x)
  <2>1. stdin[x] \in Line /\ stdin'[x] = Append(stdin[x], t)
    BY DEF ControlPlaneIInv, ProcessesTyped, HandedTo
  <2>2. Append(stdin[x], t) # stdin[x]
    BY <2>1 DEF Line
  <2>. QED  BY <2>1, <2>2 DEF HandedTo, Dispatch
<1>3. runtimes[x].task = t
  BY <1>1, <1>2 DEF LeaseFits, HandlerIsLeased, HandedTo
<1>4. ~MentionedAt(t, x)
  BY <1>1 DEF ControlPlaneIInv, HandlerFits, MentionFits
<1>. QED  BY <1>1, <1>2, <1>3, <1>4

(* The answer was all that was left of the task.                           *)
LEMMA ReadIsGone ==
  ASSUME ControlPlaneIInv, NEW t \in Task, NEW x \in Runtime,
         HandleCompletion(x), Head(stdout[x]).task = t
  PROVE  ~MentionedAt(t, x)'
<1>0. MentionFits(t, x) /\ stdin[x] \in Line /\ stdout[x] \in Seq(Envelope)
  BY DEF ControlPlaneIInv, ProcessesTyped
<1>1. /\ stdout[x] # <<>> /\ stdout'[x] = Tail(stdout[x])
      /\ procs'[x] = procs[x] /\ stdin'[x] = stdin[x]
  BY DEF HandleCompletion, Receive, ControlPlaneIInv, ProcessesTyped
<1>2. 1 \in DOMAIN stdout[x] /\ stdout[x][1].task = t
  BY <1>0, <1>1
<1>3. \A i \in DOMAIN stdout'[x] :
        /\ i + 1 \in DOMAIN stdout[x] /\ i + 1 # 1
        /\ stdout'[x][i] = stdout[x][i + 1]
  BY <1>0, <1>1
<1>. QED  BY <1>0, <1>1, <1>2, <1>3
          DEF MentionFits, OnceAt, Once, MentionedAt, Mentioned

LEMMA TaskLeaseStep ==
  ASSUME ~ReRegistration, "cancel" \notin Environment, ControlPlaneIInv, LeaseFits,
         [ControlPlaneNext]_allVars, NEW t \in Task, NEW x \in Runtime
  PROVE  TaskIsLeased(t, x)'
<1>. SUFFICES ASSUME Alive(x)', MentionedAt(t, x)'
              PROVE  runtimes'[x].task = t
  BY DEF TaskIsLeased
<1>0. /\ MentionFits(t, x) /\ stdin[x] \in Line /\ stdout[x] \in Seq(Envelope)
      /\ procs'[x].state \in {"booting", "serving", "executing"}
  BY DEF ControlPlaneIInv, ProcessesTyped, Alive
<1>1. Alive(x) \/ procs[x].state = "none"
  BY <1>0, ProcessMovesOn DEF Alive
<1>2. CASE MovesAt(x)
  <2>1. MentionedAt(t, x)
    BY <1>2 DEF MovesAt, Moves, MentionedAt
  <2>2. Alive(x) /\ runtimes[x].task = t
    BY <1>1, <2>1, NotStarted DEF LeaseFits, TaskIsLeased
  <2>3. ASSUME HandleCompletion(x), Head(stdout[x]).task = t
        PROVE  FALSE
    BY <2>3, ReadIsGone
  <2>. QED  BY <2>2, <2>3, LeaseKept
<1>3. ASSUME NEW u \in Task, HandedTo(u, x)
      PROVE  runtimes'[x].task = t
  <2>1. /\ Alive(x) /\ runtimes[x].task = u /\ UNCHANGED <<runtimes, procs>>
        /\ ~MentionedAt(u, x)
    BY <1>3, HandedIsLeased
  <2>2. t # u => MentionedAt(t, x)
    BY <1>0, <1>3, <2>1, Handed DEF HandedTo, MentionedAt
  <2>. QED  BY <2>1, <2>2 DEF LeaseFits, TaskIsLeased
<1>. QED  BY <1>2, <1>3, Carried

(* The allocators lease the runtime they place a task on.                  *)
LEMMA PlacedIsLeased ==
  ASSUME ControlPlaneIInv, NEW t \in Task, Accept(t) \/ Assign(t),
         handlers'[t].pc = "dispatch"
  PROVE  LET r == handlers'[t].runtime
         IN  runtimes[r].state # "unknown" /\ runtimes'[r].task = t
<1>0. /\ TypeOK /\ handlers \in [Task -> HandlerRecord] /\ handlers[t] \in HandlerRecord
      /\ RefreshedRuntimes \in [Runtime -> RuntimeRecord]
  BY RefreshedTypes DEF ControlPlaneIInv, ProcessesTyped
<1>1. CASE Accept(t)
  <2>1. PICK q \in Request, session \in BOOLEAN : AcceptRequest(t, q, session)
    BY <1>1 DEF Accept
  <2>2. SubmitTask(t, q) /\ handlers'[t] = Answer(q, session, tasks'[t])
    BY <1>0, <2>1 DEF AcceptRequest
  <2>3. tasks'[t].state = "running" /\ handlers'[t].runtime = tasks'[t].runtime
    BY <2>2 DEF Answer
  <2>4. PICK p \in Selectable(q) :
          \/ tasks' = [tasks EXCEPT ![t] = [state |-> "allocating",
               provider |-> p, runtime |-> NoRuntime, flow |-> FALSE]]
          \/ \E r \in Choice(q, p) :
               /\ tasks' = [tasks EXCEPT ![t] = [state |-> "running",
                    provider |-> p, runtime |-> r, flow |-> FALSE]]
               /\ runtimes' = [RefreshedRuntimes EXCEPT ![r] = Lease(@, t)]
    BY <2>2 DEF SubmitTask
  <2>5. PICK r \in Choice(q, p) :
          /\ tasks' = [tasks EXCEPT ![t] = [state |-> "running",
               provider |-> p, runtime |-> r, flow |-> FALSE]]
          /\ runtimes' = [RefreshedRuntimes EXCEPT ![r] = Lease(@, t)]
    BY <1>0, <2>3, <2>4 DEF TypeOK
  <2>6. handlers'[t].runtime = r /\ r \in Runtime /\ runtimes[r].state # "unknown"
    BY <1>0, <2>3, <2>5, ChosenIsKnown DEF TypeOK
  <2>7. runtimes'[r].task = t
    BY <1>0, <2>5, <2>6, LeaseFit
  <2>. QED  BY <2>6, <2>7
<1>2. CASE Assign(t)
  <2>. DEFINE r == handlers[t].runtime
  <2>1. AssignRuntimeToTask(t, r) /\ handlers' = [handlers EXCEPT ![t].pc = "dispatch"]
    <3>1. \/ AssignRuntimeToTask(t, r) /\ handlers' = [handlers EXCEPT ![t].pc = "dispatch"]
          \/ handlers' = [handlers EXCEPT ![t].pc = "done"]
      BY Zenon, <1>2 DEF Assign
    <3>. QED  BY <1>0, <3>1 DEF HandlerRecord
  <2>2. handlers'[t].runtime = r /\ r \in Runtime
    BY <1>0, <1>2, <2>1 DEF HandlerRecord, Assign, ControlPlaneIInv, HandlerFits
  <2>3. RefreshedRuntimes[r].state = "ready"
    BY <2>1 DEF AssignRuntimeToTask, CanAssign, Allocatable
  <2>4. runtimes[r].state # "unknown"
    BY <1>0, <2>2, <2>3, RefreshKeeps DEF RefreshedRuntimes, TypeOK
  <2>5. runtimes'[r].task = t
    BY <1>0, <2>1, <2>2, LeaseFit DEF AssignRuntimeToTask
  <2>. QED  BY <2>2, <2>4, <2>5
<1>. QED  BY <1>1, <1>2

LEMMA HandlerLeaseStep ==
  ASSUME ~ReRegistration, "cancel" \notin Environment, ControlPlaneIInv, LeaseFits,
         [ControlPlaneNext]_allVars, NEW t \in Task
  PROVE  HandlerIsLeased(t)'
<1>0. /\ HandlerFits(t) /\ HandlerFits(t)' /\ HandlerIsLeased(t)
      /\ handlers \in [Task -> HandlerRecord] /\ handlers[t] \in HandlerRecord
  BY HandlersStep DEF ControlPlaneIInv, ProcessesTyped, LeaseFits
<1>1. CASE Accept(t) \/ Assign(t)
  <2>1. handlers'[t].pc # "undelivered"
    <3>1. CASE Accept(t)
      <4>1. PICK q \in Request, session \in BOOLEAN : AcceptRequest(t, q, session)
        BY <3>1 DEF Accept
      <4>2. handlers'[t] = Answer(q, session, tasks'[t])
        BY <1>0, <4>1 DEF AcceptRequest
      <4>. QED  BY <4>2 DEF Answer
    <3>2. CASE Assign(t)
      <4>1. \E pc \in {"dispatch", "done"} : handlers' = [handlers EXCEPT ![t].pc = pc]
        BY Zenon, <3>2 DEF Assign
      <4>. QED  BY <1>0, <4>1 DEF HandlerRecord
    <3>. QED  BY <1>1, <3>1, <3>2
  <2>2. ASSUME handlers'[t].pc = "dispatch"
        PROVE  HandlerIsLeased(t)'
    <3>. DEFINE r == handlers'[t].runtime
    <3>1. r \in Runtime /\ runtimes[r].state # "unknown" /\ runtimes'[r].task = t
      BY <1>0, <1>1, <2>2, PlacedIsLeased DEF HandlerFits
    <3>2. procs[r].state \notin {"none", "booting"} /\ ChildFits(r)
      BY <3>1 DEF ControlPlaneIInv, ChildFits
    <3>3. procs'[r].state \notin {"none", "booting"}
      BY <3>1, <3>2, ProcessMovesOn
    <3>. QED  BY <2>2, <3>1, <3>3 DEF HandlerIsLeased
  <2>3. handlers'[t].pc \notin {"dispatch", "undelivered"} => HandlerIsLeased(t)'
    BY DEF HandlerIsLeased
  <2>. QED  BY <2>1, <2>2, <2>3
<1>2. CASE handlers'[t] = handlers[t]
  <2>. DEFINE r == handlers[t].runtime
  <2>1. CASE handlers[t].pc \in {"dispatch", "undelivered"}
    <3>1. r \in Runtime /\ procs[r].state \notin {"none", "booting"}
      BY <1>0, <2>1 DEF HandlerFits, HandlerIsLeased
    <3>2. procs'[r].state \notin {"none", "booting"}
      BY <3>1, ProcessMovesOn
    <3>3. Alive(r)' => Alive(r)
      BY <1>2, <3>1, ProcessMovesOn DEF Alive
    <3>4. ASSUME handlers[t].pc = "dispatch", Alive(r), runtimes'[r].task # t
          PROVE  FALSE
      <4>1. runtimes[r].task = t
        BY <1>0, <3>4 DEF HandlerIsLeased
      <4>2. HandleCompletion(r) /\ Head(stdout[r]).task = t
        BY <3>1, <3>4, <4>1, LeaseKept
      <4>3. MentionedAt(t, r)
        BY <3>1, <4>2, AnsweredTask DEF HandleCompletion
      <4>. QED  BY <1>0, <3>1, <3>4, <4>3 DEF HandlerFits, ControlPlaneIInv, MentionFits
    <3>. QED  BY <1>0, <1>2, <3>2, <3>3, <3>4 DEF HandlerIsLeased
  <2>2. CASE handlers[t].pc \notin {"dispatch", "undelivered"}
    BY <1>2, <2>2 DEF HandlerIsLeased
  <2>. QED  BY <2>1, <2>2
<1>3. CASE Spawn(t) \/ SpawnFailed(t) \/ Undelivered(t)
  <2>1. handlers'[t].pc \in {"await", "done"}
    <3>1. \/ \E r : handlers' = [handlers EXCEPT ![t].pc = "await", ![t].runtime = r]
          \/ handlers' = [handlers EXCEPT ![t].pc = "done"]
      BY Zenon, <1>3 DEF Spawn, SpawnFailed, Undelivered
    <3>. QED  BY <1>0, <3>1 DEF HandlerRecord
  <2>. QED  BY <2>1 DEF HandlerIsLeased
<1>4. CASE Dispatch(t)
  <2>. DEFINE r == handlers[t].runtime
  <2>1. handlers[t].pc = "dispatch" /\ r \in Runtime /\ UNCHANGED procs
    BY <1>0, <1>4 DEF Dispatch, HandlerFits
  <2>2. procs[r].state \notin {"none", "booting"} /\ ChildFits(r)
    BY <1>0, <2>1 DEF HandlerIsLeased, ControlPlaneIInv
  <2>3. Alive(r) => Listed(r)
    BY <2>2 DEF Listed, ChildFits, Alive
  <2>4. \/ handlers' = [handlers EXCEPT ![t].pc = "done", ![t].sent = TRUE]
        \/ ~Alive(r) /\ \E pc \in {"done", "undelivered"} :
             handlers' = [handlers EXCEPT ![t].pc = pc]
    BY Zenon, <1>4, <2>3 DEF Dispatch
  <2>5. \/ handlers'[t].pc = "done"
        \/ ~Alive(r) /\ handlers'[t].pc = "undelivered" /\ handlers'[t].runtime = r
    BY <1>0, <2>4 DEF HandlerRecord
  <2>. QED  BY <2>1, <2>2, <2>5 DEF HandlerIsLeased, Alive
<1>. QED  BY <1>1, <1>2, <1>3, <1>4, HandlerMoves DEF HandlerStep

LEMMA LeaseInvariant ==
  ~ReRegistration /\ "cancel" \notin Environment
    => (ControlPlaneSpec => [](ControlPlaneIInv /\ LeaseFits))
<1>. SUFFICES ASSUME ~ReRegistration, "cancel" \notin Environment
              PROVE  ControlPlaneSpec => [](ControlPlaneIInv /\ LeaseFits)
  OBVIOUS
<1>1. ControlPlaneInit => LeaseFits
  BY DEF ControlPlaneInit, LeaseFits, TaskIsLeased, HandlerIsLeased, Alive
<1>2. ControlPlaneIInv /\ LeaseFits /\ [ControlPlaneNext]_allVars => LeaseFits'
  BY TaskLeaseStep, HandlerLeaseStep DEF LeaseFits
<1>. QED  BY <1>1, <1>2, ControlPlaneInvariant, PTL DEF ControlPlaneSpec

(* A process works on a task only under that task's lease: no late answer, *)
(* crash, expired spawn or reap takes it away (RecordCompletion,           *)
(* MarkRuntimeStopped), where nobody cancels or registers over HTTP.       *)
THEOREM LeasesCoverExecution ==
  ~ReRegistration /\ "cancel" \notin Environment
    => (ControlPlaneSpec => []LeaseCoversExecution)
<1>. SUFFICES ASSUME ~ReRegistration, "cancel" \notin Environment
              PROVE  ControlPlaneSpec => []LeaseCoversExecution
  OBVIOUS
<1>1. ASSUME ControlPlaneIInv, LeaseFits, NEW r \in Runtime, procs[r].task # NoTask
      PROVE  runtimes[r].task = procs[r].task
  <2>1. procs[r].task \in Task /\ Alive(r)
    BY <1>1 DEF ControlPlaneIInv, ChildFits, Alive
  <2>2. MentionedAt(procs[r].task, r)
    BY DEF MentionedAt, Mentioned
  <2>. QED  BY <1>1, <2>1, <2>2 DEF LeaseFits, TaskIsLeased
<1>2. ControlPlaneIInv /\ LeaseFits => LeaseCoversExecution
  BY <1>1 DEF LeaseCoversExecution
<1>. QED  BY <1>2, LeaseInvariant, PTL

(* The state of the process manager and of the handlers is as the code     *)
(* leaves it (childProcess, executeAndWait).                               *)
LEMMA ProcessesAreTyped == ControlPlaneIInv => ProcessesTypeOK
<1>. SUFFICES ASSUME ControlPlaneIInv
              PROVE  ProcessesTypeOK
  OBVIOUS
<1>1. ASSUME NEW r \in Runtime
      PROVE  /\ \A i \in DOMAIN stdin[r] : stdin[r][i] \in Task \union {Shutdown}
             /\ \A i \in DOMAIN stdout[r] : stdout[r][i] \in Envelope
  <2>1. stdin[r] \in Seq(Task \union {Shutdown}) /\ stdout[r] \in Seq(Envelope)
    BY DEF ControlPlaneIInv, ProcessesTyped, Line
  <2>. QED  BY <2>1
<1>2. ASSUME NEW p \in Provider
      PROVE  /\ pool[p].idle \subseteq Runtime
             /\ pool[p].lacking \in 0..MinWarm /\ pool[p].excess \in Int
             /\ {pool[p].warming, pool[p].victim} \subseteq Runtime \union {NoRuntime}
  <2>1. pool[p] \in PoolRecord
    BY DEF ControlPlaneIInv, ProcessesTyped
  <2>. QED  BY <2>1 DEF PoolRecord
<1>. QED  BY <1>1, <1>2 DEF ControlPlaneIInv, ProcessesTyped, ProcessesTypeOK

(* Besides, a process is never given a second task before it has finished  *)
(* the first (manager.go:544-604): both would hold its one lease.          *)
THEOREM ProcessesWorkOneByOne ==
  ~ReRegistration /\ "cancel" \notin Environment => (ControlPlaneSpec => []ProcessesInv)
<1>. SUFFICES ASSUME ~ReRegistration, "cancel" \notin Environment
              PROVE  ControlPlaneSpec => []ProcessesInv
  OBVIOUS
<1>1. ASSUME ControlPlaneIInv, LeaseFits, NEW r \in Runtime
      PROVE  Cardinality(InProcess(r)) <= 1
  <2>1. ASSUME NEW t \in InProcess(r)
        PROVE  t = runtimes[r].task
    <3>1. stdin[r] \in Line /\ procs[r] \in ProcRecord /\ ChildFits(r)
      BY <1>1 DEF ControlPlaneIInv, ProcessesTyped
    <3>2. t \in Task /\ MentionedAt(t, r)
      BY <3>1 DEF InProcess, MentionedAt, Mentioned, Line, ProcRecord
    <3>3. Alive(r)
      <4>1. ASSUME ~Alive(r)
            PROVE  FALSE
        <5>1. stdin[r] = <<>> /\ procs[r].task = NoTask
          BY <3>1, <4>1 DEF ChildFits, Alive
        <5>2. DOMAIN stdin[r] = {}
          BY <5>1
        <5>. QED  BY <5>1, <5>2 DEF InProcess
      <4>. QED  BY <4>1
    <3>. QED  BY <1>1, <3>2, <3>3 DEF LeaseFits, TaskIsLeased
  <2>2. InProcess(r) \subseteq {runtimes[r].task}
    BY <2>1
  <2>3. IsFiniteSet({runtimes[r].task}) /\ Cardinality({runtimes[r].task}) = 1
    BY FS_Singleton
  <2>4. IsFiniteSet(InProcess(r)) /\ Cardinality(InProcess(r)) <= 1
    BY <2>2, <2>3, FS_Subset
  <2>. QED  BY <2>4
<1>2. ControlPlaneIInv /\ LeaseFits => ProcessesInv
  BY <1>1, ProcessesAreTyped DEF ProcessesInv, OneTaskPerProcess
<1>. QED  BY <1>2, LeaseInvariant, PTL

-----------------------------------------------------------------------------
(***************************************************************************)
(* The pool's limit.  The pool loop counts once and spawns afterwards; it  *)
(* keeps within MaxRuntimes if it alone spawns and every exit it does not  *)
(* wait for is a kill.                                                     *)
(***************************************************************************)
PoolAloneSpawns ==
  /\ {"spawn", "release"} \cap Environment = {}
  /\ \A q \in Request : q.runtime # NoRuntime

AliveOf(p) == { r \in Runtime : Alive(r) /\ children[r].provider = p }

(* What a pass for p has still to spawn is counted with what lives, but    *)
(* for the one whose spawn is under way.                                   *)
Room(p) ==
  Cardinality(AliveOf(p)) + pool[p].lacking
    <= MaxRuntimes + (IF pool[p].warming # NoRuntime THEN 1 ELSE 0)

ReapsStarted(p) ==
  /\ \A r \in pool[p].idle : children[r].spawn # "none"
  /\ pool[p].victim # NoRuntime => children[pool[p].victim].spawn # "none"

StopsDead(r) == children[r].stopping => ~Alive(r) /\ children[r].spawn # "none"

CapacityFits ==
  /\ \A t \in Task : handlers[t].pc # "spawn"
  /\ \A r \in Runtime : StopsDead(r)
  /\ \A p \in Provider : ReapsStarted(p) /\ Room(p)

(* A step that starts nothing: what lives or stops did so before, unless   *)
(* it is killed in the same step.                                          *)
StartsNothing ==
  \A x \in Runtime :
    /\ Alive(x)' => Alive(x)
    /\ children'[x].provider = children[x].provider
    /\ children[x].spawn # "none" => children'[x].spawn # "none"
    /\ children'[x].stopping => \/ children[x].stopping
                                \/ ~Alive(x)' /\ children'[x].spawn # "none"

LEMMA AliveCounted ==
  ASSUME PipesTyped, NEW p
  PROVE  IsFiniteSet(AliveOf(p)) /\ Cardinality(AliveOf(p)) \in Nat
<1>1. AliveOf(p) \subseteq Started
  BY DEF AliveOf, Alive, Started
<1>. QED  BY <1>1, FS_Subset, FS_CardinalityType DEF PipesTyped

LEMMA FewerAlive ==
  ASSUME PipesTyped, StartsNothing, NEW p
  PROVE  Cardinality(AliveOf(p)') \in Nat
         /\ Cardinality(AliveOf(p)') <= Cardinality(AliveOf(p))
<1>1. AliveOf(p)' \subseteq AliveOf(p)
  BY DEF AliveOf, StartsNothing
<1>. QED  BY <1>1, AliveCounted, FS_Subset, FS_CardinalityType

LEMMA KillStartsNothing ==
  ASSUME PipesTyped, NEW r \in Runtime, Kill(r), NEW s \in {children[r].spawn, "failed"},
         children[r].spawn # "none",
         children' = [children EXCEPT ![r].spawn = s, ![r].stopping = TRUE]
  PROVE  StartsNothing
<1>0. children \in [Runtime -> ChildRecord] /\ procs \in [Runtime -> ProcRecord]
  BY DEF PipesTyped
<1>1. ASSUME NEW x \in Runtime, x # r
      PROVE  children'[x] = children[x] /\ procs'[x] = procs[x]
  BY <1>0, <1>1 DEF Kill
<1>2. children'[r].spawn = s /\ children'[r].provider = children[r].provider
  BY <1>0 DEF ChildRecord
<1>3. ~Alive(r)'
  BY <1>0 DEF Kill, Alive
<1>. QED  BY <1>1, <1>2, <1>3 DEF StartsNothing, Alive

LEMMA FlagsStartNothing ==
  ASSUME UNCHANGED procs,
         \A x \in Runtime : /\ children'[x].provider = children[x].provider
                            /\ children[x].spawn # "none" => children'[x].spawn # "none"
                            /\ children'[x].stopping => children[x].stopping
  PROVE  StartsNothing
BY DEF StartsNothing, Alive

LEMMA ChildStartsNothing ==
  ASSUME ControlPlaneIInv, NEW r \in Runtime,
         SpawnerStep(r) \/ ReaderStep(r) \/ WaiterStep(r) \/ IdleTimeElapses(r)
  PROVE  StartsNothing
<1>0. children \in [Runtime -> ChildRecord] /\ children[r] \in ChildRecord
  BY DEF ControlPlaneIInv, ProcessesTyped
<1>1. UNCHANGED procs
  BY Zenon DEF SpawnerStep, SpawnReady, SpawnExited, ReaderStep, HandleReady, NoteReady,
     HandleHealth, HandleCompletion, NoteCompletion, WaiterStep, WaitReturns, Delist,
     IdleTimeElapses
<1>2. ASSUME NEW c, children' = [children EXCEPT ![r] = c],
             c.provider = children[r].provider,
             children[r].spawn # "none" => c.spawn # "none",
             c.stopping => children[r].stopping
      PROVE  StartsNothing
  <2>1. \A x \in Runtime : /\ children'[x].provider = children[x].provider
                           /\ children[x].spawn # "none" => children'[x].spawn # "none"
                           /\ children'[x].stopping => children[x].stopping
    BY <1>0, <1>2
  <2>. QED  BY <1>1, <2>1, FlagsStartNothing
<1>3. CASE SpawnReady(r) \/ SpawnExited(r)
  <2>1. PICK s \in {"ok", "failed"} : children' = [children EXCEPT ![r].spawn = s]
    BY <1>3 DEF SpawnReady, SpawnExited
  <2>2. LET c == [children[r] EXCEPT !.spawn = s]
        IN  c.provider = children[r].provider /\ c.spawn = s
            /\ c.stopping = children[r].stopping
    BY <1>0 DEF ChildRecord
  <2>. QED  BY <1>0, <1>2, <2>1, <2>2
<1>4. CASE WaiterStep(r)
  <2>1. PICK w : children' = [children EXCEPT ![r].waited = w]
    BY Zenon, <1>4 DEF WaiterStep, WaitReturns, Delist
  <2>2. LET c == [children[r] EXCEPT !.waited = w]
        IN  c.provider = children[r].provider /\ c.spawn = children[r].spawn
            /\ c.stopping = children[r].stopping
    BY <1>0 DEF ChildRecord
  <2>. QED  BY <1>0, <1>2, <2>1, <2>2
<1>5. CASE NoteReady(r)
  <2>. DEFINE c == [children[r] EXCEPT !.ready = TRUE, !.busy = FALSE, !.stopping = FALSE,
                                       !.opened = TRUE, !.idle = "recent"]
  <2>1. children' = [children EXCEPT ![r] = c]
    BY <1>0, <1>5 DEF NoteReady
  <2>2. c.provider = children[r].provider /\ c.spawn = children[r].spawn /\ ~c.stopping
    BY <1>0 DEF ChildRecord
  <2>. HIDE DEF c
  <2>. QED  BY <1>2, <2>1, <2>2
<1>6. CASE NoteCompletion(r)
  <2>1. PICK i : children' =
          [children EXCEPT ![r].ready = TRUE, ![r].busy = FALSE, ![r].idle = i]
    BY <1>6 DEF NoteCompletion
  <2>. DEFINE c == [children[r] EXCEPT !.ready = TRUE, !.busy = FALSE, !.idle = i]
  <2>2. c.provider = children[r].provider /\ c.spawn = children[r].spawn
        /\ c.stopping = children[r].stopping
    BY <1>0 DEF ChildRecord
  <2>3. children' = [children EXCEPT ![r] = c]
    BY <1>0, <2>1
  <2>. HIDE DEF c
  <2>. QED  BY <1>2, <2>2, <2>3
<1>7. CASE IdleTimeElapses(r)
  <2>1. children' = [children EXCEPT ![r].idle = "long"]
    BY <1>7 DEF IdleTimeElapses
  <2>2. LET c == [children[r] EXCEPT !.idle = "long"]
        IN  c.provider = children[r].provider /\ c.spawn = children[r].spawn
            /\ c.stopping = children[r].stopping
    BY <1>0 DEF ChildRecord
  <2>. QED  BY <1>0, <1>2, <2>1, <2>2
<1>8. CASE UNCHANGED children
  BY <1>1, <1>8, FlagsStartNothing
<1>. QED  BY Zenon, <1>3, <1>4, <1>5, <1>6, <1>7, <1>8
          DEF SpawnerStep, ReaderStep, HandleReady, HandleHealth, HandleCompletion

LEMMA ProcessStartsNothing ==
  ASSUME ControlPlaneIInv, NEW r \in Runtime, ProcessStep(r)
  PROVE  StartsNothing
<1>0. procs \in [Runtime -> ProcRecord] /\ UNCHANGED children /\ Alive(r)
  BY DEF ControlPlaneIInv, ProcessesTyped, ProcessStep, ServeStep, ProcReady, ProcRead,
     ProcComplete, ProcAnswers, ProcHeartbeat, ProcCrash, Alive
<1>1. UNCHANGED procs \/ \E w : procs' = [procs EXCEPT ![r] = w]
  BY Zenon DEF ProcessStep, ServeStep, ProcReady, ProcRead, ProcComplete, ProcAnswers,
     ProcHeartbeat, ProcCrash, Kill
<1>2. \A x \in Runtime : Alive(x)' => Alive(x)
  BY <1>0, <1>1 DEF Alive
<1>. QED  BY <1>0, <1>2 DEF StartsNothing

(* Nobody starts a process but the pool loop, in Prewarm.                  *)
LEMMA OnlyPrewarmStarts ==
  ASSUME PoolAloneSpawns, ControlPlaneIInv, CapacityFits, [ControlPlaneNext]_allVars,
         ~\E p \in Provider : Prewarm(p)
  PROVE  StartsNothing
<1>0. PipesTyped /\ children \in [Runtime -> ChildRecord]
  BY Typed DEF ControlPlaneIInv, PipesTyped
<1>a. UNCHANGED <<procs, children>> => StartsNothing
  BY FlagsStartNothing
<1>1. ASSUME NEW t \in Task, HandlerStep(t)
      PROVE  StartsNothing
  <2>1. CASE Dispatch(t)
    <3>1. UNCHANGED procs
      BY <2>1 DEF Dispatch
    <3>2. ASSUME NEW x \in Runtime
          PROVE  /\ children'[x].provider = children[x].provider
                 /\ children'[x].spawn = children[x].spawn
                 /\ children'[x].stopping = children[x].stopping
      <4>1. \A c \in ChildRecord :
              LET d == [c EXCEPT !.busy = TRUE, !.ready = TRUE, !.idle = "zero"]
              IN  d.provider = c.provider /\ d.spawn = c.spawn /\ d.stopping = c.stopping
        BY DEF ChildRecord
      <4>2. \/ children'[x] = children[x]
            \/ children'[x] = [children[x] EXCEPT !.busy = TRUE, !.ready = TRUE,
                                                  !.idle = "zero"]
        BY <1>0, <2>1 DEF Dispatch
      <4>. QED  BY <1>0, <4>1, <4>2
    <3>. QED  BY <3>1, <3>2, FlagsStartNothing
  <2>2. ~Spawn(t)
    BY DEF Spawn, CapacityFits
  <2>. QED  BY Zenon, <1>a, <1>1, <2>1, <2>2 DEF HandlerStep, Assign, SpawnFailed, Undelivered
<1>2. ASSUME NEW p \in Provider, PoolStep(p)
      PROVE  StartsNothing
  <2>1. CASE PoolReap(p)
    <3>. DEFINE r == pool[p].victim
    <3>1. r \in Runtime /\ children[r].spawn # "none" /\ Kill(r)
      BY <2>1 DEF PoolReap, ControlPlaneIInv, ProcessesTyped, PoolRecord, CapacityFits,
         ReapsStarted
    <3>2. children' = [children EXCEPT ![r].spawn = children[r].spawn, ![r].stopping = TRUE]
      BY <1>0, <2>1, <3>1 DEF PoolReap, ChildRecord
    <3>. HIDE DEF r
    <3>. QED  BY <1>0, <3>1, <3>2, KillStartsNothing
  <2>. QED  BY Zenon, <1>a, <1>2, <2>1 DEF PoolStep, PoolSnapshot, Prewarmed, PoolPick,
            PoolRest
<1>3. ASSUME NEW r \in Runtime, SpawnTimeout(r)
      PROVE  StartsNothing
  BY <1>0, <1>3, KillStartsNothing DEF SpawnTimeout
<1>4. CASE TimeStep
  BY Zenon, <1>3, <1>4, <1>a, ChildStartsNothing DEF TimeStep, processVars
<1>5. CASE CallerStep
  <2>1. ~May("release") /\ ~May("spawn")
    BY DEF PoolAloneSpawns, May
  <2>. QED  BY Zenon, <1>5, <1>a, <2>1 DEF CallerStep, Accept, AcceptRequest, Cancel,
            ReleaseRuntime, SpawnOnRequest, processVars
<1>6. CASE UNCHANGED allVars
  BY Zenon, <1>a, <1>6 DEF allVars, processVars
<1>. QED  BY Zenon, <1>1, <1>2, <1>4, <1>5, <1>6, ChildStartsNothing, ProcessStartsNothing
          DEF ControlPlaneNext

LEMMA PrewarmKeepsRoom ==
  ASSUME PoolAloneSpawns, ControlPlaneIInv, CapacityFits, NEW p \in Provider, Prewarm(p)
  PROVE  /\ \A x \in Runtime : StopsDead(x)'
         /\ \A q \in Provider : ReapsStarted(q)' /\ Room(q)'
<1>0. /\ PipesTyped /\ children \in [Runtime -> ChildRecord]
      /\ procs \in [Runtime -> ProcRecord] /\ pool \in [Provider -> PoolRecord]
  BY Typed DEF ControlPlaneIInv, PipesTyped, PoolTyped
<1>1. PICK r \in Runtime : /\ StartChild(r, p) \/ StartFails(r, p)
                           /\ pool' = [pool EXCEPT ![p].warming = r]
  BY <1>0 DEF Prewarm
<1>2. /\ children[r].spawn = "none" /\ children'[r].spawn # "none"
      /\ children'[r].provider = p /\ children'[r].stopping = children[r].stopping
  <2>1. PICK s \in {"waiting", "failed"} :
          children' = [children EXCEPT ![r].spawn = s, ![r].provider = p]
    BY <1>1 DEF StartChild, StartFails
  <2>2. LET c == [children[r] EXCEPT !.spawn = s, !.provider = p]
        IN  c.spawn = s /\ c.provider = p /\ c.stopping = children[r].stopping
    BY <1>0 DEF ChildRecord
  <2>. QED  BY <1>0, <1>1, <2>1, <2>2 DEF StartChild, StartFails
<1>3. ASSUME NEW x \in Runtime, x # r
      PROVE  children'[x] = children[x] /\ procs'[x] = procs[x]
  BY <1>0, <1>1, <1>3 DEF StartChild, StartFails
<1>4. ASSUME NEW x \in Runtime
      PROVE  StopsDead(x)'
  <2>1. StopsDead(x) /\ StopsDead(r)
    BY DEF CapacityFits
  <2>. QED  BY <1>2, <1>3, <2>1 DEF StopsDead, Alive
<1>5. ASSUME NEW q \in Provider
      PROVE  /\ pool'[q].idle = pool[q].idle /\ pool'[q].victim = pool[q].victim
             /\ pool'[q].lacking = pool[q].lacking /\ pool[q].lacking \in Nat
             /\ pool'[q].warming = IF q = p THEN r ELSE pool[q].warming
             /\ pool[q].idle \subseteq Runtime
             /\ pool[q].victim \in Runtime \union {NoRuntime}
  <2>1. pool[q] \in PoolRecord
    BY <1>0
  <2>2. LET x == [pool[q] EXCEPT !.warming = r]
        IN  /\ x.idle = pool[q].idle /\ x.victim = pool[q].victim
            /\ x.lacking = pool[q].lacking /\ x.warming = r
    BY <2>1 DEF PoolRecord
  <2>. QED  BY <1>0, <1>1, <2>1, <2>2, ControlPlaneAssumption DEF PoolRecord
<1>6. ASSUME NEW q \in Provider
      PROVE  ReapsStarted(q)'
  <2>1. ReapsStarted(q)
    BY DEF CapacityFits
  <2>2. \A x \in Runtime : children[x].spawn # "none" => children'[x].spawn # "none"
    BY <1>2, <1>3
  <2>. QED  BY <1>5, <2>1, <2>2 DEF ReapsStarted
<1>7. ASSUME NEW q \in Provider
      PROVE  Room(q)'
  <2>1. IsFiniteSet(AliveOf(q)) /\ Cardinality(AliveOf(q)) \in Nat
    BY <1>0, AliveCounted
  <2>2. CASE q # p
    <3>1. AliveOf(q)' \subseteq AliveOf(q)
      BY <1>2, <1>3, <2>2 DEF AliveOf, Alive
    <3>2. Cardinality(AliveOf(q)') <= Cardinality(AliveOf(q))
          /\ Cardinality(AliveOf(q)') \in Nat
      BY <2>1, <3>1, FS_Subset, FS_CardinalityType
    <3>3. Room(q)
      BY DEF CapacityFits
    <3>. QED  BY <1>5, <2>1, <2>2, <3>2, <3>3, ControlPlaneAssumption DEF Room
  <2>3. CASE q = p
    <3>1. AliveOf(p)' \subseteq AliveOf(p) \union {r}
      BY <1>3 DEF AliveOf, Alive
    <3>2. /\ IsFiniteSet(AliveOf(p) \union {r})
          /\ Cardinality(AliveOf(p) \union {r}) <= Cardinality(AliveOf(p)) + 1
      <4>1. IsFiniteSet(AliveOf(p)) /\ Cardinality(AliveOf(p)) \in Nat
        BY <2>1, <2>3
      <4>2. /\ IsFiniteSet(AliveOf(p) \union {r})
            /\ Cardinality(AliveOf(p) \union {r})
                 = IF r \in AliveOf(p) THEN Cardinality(AliveOf(p))
                                       ELSE Cardinality(AliveOf(p)) + 1
        BY <4>1, FS_AddElement
      <4>. QED  BY <4>1, <4>2
    <3>3. Cardinality(AliveOf(p)') <= Cardinality(AliveOf(p)) + 1
          /\ Cardinality(AliveOf(p)') \in Nat
      <4>1. Cardinality(AliveOf(p)') <= Cardinality(AliveOf(p) \union {r})
            /\ IsFiniteSet(AliveOf(p)')
        BY <3>1, <3>2, FS_Subset
      <4>. QED  BY <2>1, <2>3, <3>2, <4>1, FS_CardinalityType
    <3>4. Room(p) /\ pool[p].warming = NoRuntime
      BY DEF CapacityFits, Prewarm
    <3>. QED  BY <1>5, <2>1, <2>3, <3>3, <3>4, ControlPlaneAssumption, NullAssumption
              DEF Room
  <2>. QED  BY <2>2, <2>3
<1>. QED  BY <1>4, <1>6, <1>7

(* The snapshot leaves room for what it lets the pass spawn.               *)
LEMMA SnapshotLeavesRoom ==
  ASSUME ControlPlaneIInv, CapacityFits, NEW p \in Provider, PoolSnapshot(p)
  PROVE  /\ Cardinality(AliveOf(p)) + pool'[p].lacking <= MaxRuntimes
         /\ pool'[p].warming = NoRuntime /\ pool'[p].victim = NoRuntime
         /\ pool'[p].idle = Idle(p)
<1>. DEFINE warm    == IF providers[p].enabled THEN MinWarm ELSE 0
            active  == Cardinality(Active(p))
            lacking == { n \in 1..warm : /\ Cardinality(Idle(p)) + n <= warm
                                         /\ active + n <= MaxRuntimes }
<1>0. PipesTyped /\ pool \in [Provider -> PoolRecord] /\ MaxRuntimes \in Nat
  BY Typed, ControlPlaneAssumption DEF ControlPlaneIInv, PoolTyped
<1>1. pool'[p] = [Resting EXCEPT !.idle = Idle(p), !.lacking = Cardinality(lacking),
                                 !.excess = active - warm]
  BY <1>0 DEF PoolSnapshot
<1>2. /\ pool'[p].lacking = Cardinality(lacking) /\ pool'[p].idle = Idle(p)
      /\ pool'[p].warming = NoRuntime /\ pool'[p].victim = NoRuntime
  <2>. HIDE DEF lacking, active, warm
  <2>. QED  BY <1>1 DEF Resting
<1>3. Room(p) /\ pool[p] = Resting
  BY DEF CapacityFits, PoolSnapshot
<1>4. Cardinality(AliveOf(p)) \in Nat /\ Cardinality(AliveOf(p)) <= MaxRuntimes
  BY <1>0, <1>3, AliveCounted DEF Room, Resting
<1>5. active \in Nat /\ Cardinality(AliveOf(p)) <= active
  <2>1. AliveOf(p) \subseteq Active(p)
    BY DEF AliveOf, Active, Listed, Alive, ControlPlaneIInv, ChildFits, CapacityFits,
       StopsDead
  <2>. QED  BY <1>0, <2>1, ActiveCounted, FS_Subset
<1>6. CASE active <= MaxRuntimes
  <2>1. lacking \in SUBSET (1..(MaxRuntimes - active))
    BY <1>0, <1>5, <1>6, ControlPlaneAssumption
  <2>2. Cardinality(lacking) \in 0..(MaxRuntimes - active)
    <3>1. MaxRuntimes - active \in Nat
      BY <1>0, <1>5, <1>6
    <3>. HIDE DEF lacking, active
    <3>. QED  BY <2>1, <3>1, CountUpTo
  <2>. HIDE DEF lacking, active
  <2>. QED  BY <1>0, <1>2, <1>4, <1>5, <1>6, <2>2
<1>7. CASE ~(active <= MaxRuntimes)
  <2>1. lacking = {}
    BY <1>0, <1>5, <1>7, ControlPlaneAssumption
  <2>2. Cardinality(lacking) = 0
    BY <2>1, FS_EmptySet
  <2>. HIDE DEF lacking, active
  <2>. QED  BY <1>2, <1>4, <2>2
<1>. QED  BY <1>2, <1>6, <1>7

LEMMA CapacityOfPool ==
  ASSUME PoolAloneSpawns, ControlPlaneIInv, CapacityFits, [ControlPlaneNext]_allVars,
         NEW q \in Provider
  PROVE  ReapsStarted(q)' /\ Room(q)'
<1>1. ASSUME NEW p \in Provider, Prewarm(p)
      PROVE  ReapsStarted(q)' /\ Room(q)'
  BY <1>1, PrewarmKeepsRoom
<1>2. ASSUME StartsNothing
      PROVE  ReapsStarted(q)' /\ Room(q)'
  <2>0. /\ PipesTyped /\ pool \in [Provider -> PoolRecord] /\ pool[q] \in PoolRecord
        /\ ReapsStarted(q) /\ Room(q) /\ MaxRuntimes \in Nat
        /\ pool[q].lacking \in Nat
        /\ pool[q].warming # NoRuntime => pool[q].lacking > 0
    BY Typed, ControlPlaneAssumption
       DEF ControlPlaneIInv, PoolTyped, CapacityFits, PoolRecord
  <2>1. /\ Cardinality(AliveOf(q)) \in Nat /\ Cardinality(AliveOf(q)') \in Nat
        /\ Cardinality(AliveOf(q)') <= Cardinality(AliveOf(q))
        /\ \A x \in Runtime : children[x].spawn # "none" => children'[x].spawn # "none"
    BY <1>2, <2>0, AliveCounted, FewerAlive DEF StartsNothing
  <2>2. ASSUME pool'[q].idle \subseteq pool[q].idle \union Idle(q),
               pool'[q].victim \in pool[q].idle \union {pool[q].victim, NoRuntime}
        PROVE  ReapsStarted(q)'
    <3>1. \A x \in Idle(q) : x \in Runtime /\ children[x].spawn # "none"
      BY DEF Idle, Active, Listed, ControlPlaneIInv, ChildFits
    <3>2. \A x \in pool[q].idle : x \in Runtime /\ children[x].spawn # "none"
      BY <2>0 DEF ReapsStarted, PoolRecord
    <3>3. pool[q].victim # NoRuntime =>
            pool[q].victim \in Runtime /\ children[pool[q].victim].spawn # "none"
      BY <2>0 DEF ReapsStarted, PoolRecord
    <3>. QED  BY <2>1, <2>2, <3>1, <3>2, <3>3 DEF ReapsStarted
  <2>3. ASSUME pool'[q].lacking \in Nat, pool'[q].warming = NoRuntime,
               pool'[q].lacking <= IF pool[q].warming # NoRuntime THEN pool[q].lacking - 1
                                                                 ELSE pool[q].lacking
        PROVE  Room(q)'
    BY <2>0, <2>1, <2>3 DEF Room
  <2>4. CASE pool'[q] = pool[q]
    BY <2>0, <2>1, <2>2, <2>4 DEF Room
  <2>5. CASE PoolSnapshot(q)
    <3>1. Room(q)'
      <4>1. pool'[q] \in PoolRecord
        BY TypedStep DEF ProcessesTyped
      <4>2. pool'[q].lacking \in Nat
        BY <4>1, ControlPlaneAssumption DEF PoolRecord
      <4>. QED  BY <2>0, <2>1, <2>5, <4>2, SnapshotLeavesRoom DEF Room
    <3>. QED  BY <2>2, <2>5, <3>1, SnapshotLeavesRoom
  <2>6. CASE Prewarmed(q)
    <3>1. PICK l, e : /\ pool' = [pool EXCEPT ![q].warming = NoRuntime,
                                             ![q].lacking = l, ![q].excess = e]
                      /\ l \in {pool[q].lacking - 1, 0} /\ pool[q].warming # NoRuntime
      BY <2>0, <2>6 DEF Prewarmed
    <3>2. /\ pool'[q].warming = NoRuntime /\ pool'[q].lacking = l
          /\ pool'[q].idle = pool[q].idle /\ pool'[q].victim = pool[q].victim
      BY <2>0, <3>1 DEF PoolRecord
    <3>. QED  BY <2>0, <2>2, <2>3, <3>1, <3>2
  <2>7. CASE PoolPick(q)
    <3>1. PICK r \in pool[q].idle : \E v \in {r, pool[q].victim} :
            pool' = [pool EXCEPT ![q].idle = @ \ {r}, ![q].victim = v]
      BY <2>0, <2>7 DEF PoolPick
    <3>2. PICK v \in {r, pool[q].victim} :
            pool' = [pool EXCEPT ![q].idle = @ \ {r}, ![q].victim = v]
      BY <3>1
    <3>3. /\ pool'[q].idle = pool[q].idle \ {r} /\ pool'[q].victim = v
          /\ pool'[q].lacking = pool[q].lacking /\ pool'[q].warming = pool[q].warming
      BY <2>0, <3>2 DEF PoolRecord
    <3>. QED  BY <2>0, <2>2, <2>3, <2>7, <3>2, <3>3 DEF PoolPick
  <2>8. CASE PoolReap(q)
    <3>1. \E e : pool' = [pool EXCEPT ![q].victim = NoRuntime, ![q].excess = e]
      BY Zenon, <2>8 DEF PoolReap
    <3>2. /\ pool'[q].idle = pool[q].idle /\ pool'[q].victim = NoRuntime
          /\ pool'[q].lacking = pool[q].lacking /\ pool'[q].warming = pool[q].warming
      BY <2>0, <3>1 DEF PoolRecord
    <3>. QED  BY <2>0, <2>1, <2>2, <3>2 DEF Room
  <2>9. CASE PoolRest(q)
    <3>1. pool'[q] = Resting
      BY <2>0, <2>9 DEF PoolRest
    <3>2. pool[q].warming = NoRuntime
      <4>1. [pool[q] EXCEPT !.excess = 0].warming = Resting.warming
        BY <2>9 DEF PoolRest
      <4>. QED  BY <2>0, <4>1 DEF PoolRecord, Resting
    <3>. QED  BY <2>0, <2>2, <2>3, <3>1, <3>2 DEF Resting
  <2>10. \/ pool'[q] = pool[q] \/ PoolStep(q)
    <3>1. ASSUME NEW p \in Provider, PoolStep(p), p # q
          PROVE  pool'[q] = pool[q]
      <4>1. \E x : pool' = [pool EXCEPT ![p] = x]
        BY Zenon, <3>1 DEF PoolStep, PoolSnapshot, Prewarm, Prewarmed, PoolPick, PoolReap,
           PoolRest
      <4>. QED  BY <2>0, <3>1, <4>1
    <3>2. ASSUME NEW t \in Task, HandlerStep(t)
          PROVE  UNCHANGED pool
      BY Zenon, <3>2 DEF HandlerStep, Spawn, Assign, SpawnFailed, Dispatch, Undelivered
    <3>3. ASSUME NEW r \in Runtime,
                 SpawnerStep(r) \/ ReaderStep(r) \/ WaiterStep(r) \/ ProcessStep(r)
          PROVE  UNCHANGED pool
      BY Zenon, <3>3 DEF SpawnerStep, SpawnReady, SpawnExited, ReaderStep, HandleReady,
         NoteReady, HandleHealth, HandleCompletion, NoteCompletion, WaiterStep, WaitReturns,
         Delist, ProcessStep, ServeStep, ProcReady, ProcRead, ProcComplete, ProcAnswers,
         ProcHeartbeat, ProcCrash
    <3>4. CASE TimeStep \/ CallerStep \/ UNCHANGED allVars
      BY Zenon, <3>4 DEF TimeStep, SpawnTimeout, IdleTimeElapses, CallerStep, Accept,
         AcceptRequest, Cancel, ReleaseRuntime, ShutdownRuntime, SpawnOnRequest,
         allVars, processVars
    <3>. QED  BY Zenon, <3>1, <3>2, <3>3, <3>4 DEF ControlPlaneNext
  <2>. QED  BY <1>1, <2>4, <2>5, <2>6, <2>7, <2>8, <2>9, <2>10 DEF PoolStep
<1>. QED  BY <1>1, <1>2, OnlyPrewarmStarts

LEMMA CapacityStep ==
  ASSUME PoolAloneSpawns, ControlPlaneIInv, CapacityFits, [ControlPlaneNext]_allVars
  PROVE  CapacityFits'
<1>1. ASSUME NEW t \in Task
      PROVE  handlers'[t].pc # "spawn"
  <2>0. handlers \in [Task -> HandlerRecord] /\ handlers[t].pc # "spawn"
    BY DEF ControlPlaneIInv, ProcessesTyped, CapacityFits
  <2>1. CASE Accept(t)
    <3>1. PICK q \in Request, session \in BOOLEAN : AcceptRequest(t, q, session)
      BY <2>1 DEF Accept
    <3>2. handlers'[t] = Answer(q, session, tasks'[t]) /\ q.runtime # NoRuntime
      BY <2>0, <3>1 DEF AcceptRequest, PoolAloneSpawns
    <3>. QED  BY <3>2 DEF Answer
  <2>2. CASE HandlerStep(t)
    <3>1. \/ \E pc \in {"dispatch", "done", "undelivered"} :
               handlers' = [handlers EXCEPT ![t].pc = pc]
          \/ handlers' = [handlers EXCEPT ![t].pc = "done", ![t].sent = TRUE]
      BY Zenon, <2>0, <2>2 DEF HandlerStep, Spawn, Assign, SpawnFailed, Dispatch, Undelivered
    <3>. QED  BY <2>0, <3>1 DEF HandlerRecord
  <2>. QED  BY <2>0, <2>1, <2>2, HandlerMoves
<1>2. ASSUME NEW x \in Runtime
      PROVE  StopsDead(x)'
  <2>1. CASE \E p \in Provider : Prewarm(p)
    BY <2>1, PrewarmKeepsRoom
  <2>2. CASE StartsNothing
    BY <2>2 DEF StartsNothing, CapacityFits, StopsDead
  <2>. QED  BY <2>1, <2>2, OnlyPrewarmStarts
<1>. QED  BY <1>1, <1>2, CapacityOfPool DEF CapacityFits

(* The pool loop never has more processes of a provider alive than         *)
(* MaxRuntimes, whatever crashes, times out or is reaped between its count *)
(* and its spawns (reconcileRuntimePool), if the processes are its alone.  *)
THEOREM PoolKeepsWithinCapacity ==
  PoolAloneSpawns => (ControlPlaneSpec => []WithinCapacity)
<1>. SUFFICES ASSUME PoolAloneSpawns
              PROVE  ControlPlaneSpec => []WithinCapacity
  OBVIOUS
<1>1. ControlPlaneInit => CapacityFits
  <2>. SUFFICES ASSUME ControlPlaneInit
                PROVE  CapacityFits
    OBVIOUS
  <2>1. ASSUME NEW p \in Provider
        PROVE  ReapsStarted(p) /\ Room(p)
    <3>1. pool[p].lacking = 0 /\ pool[p].idle = {}
          /\ pool[p].warming = NoRuntime /\ pool[p].victim = NoRuntime
      BY DEF ControlPlaneInit, Resting
    <3>2. AliveOf(p) = {}
      BY DEF ControlPlaneInit, AliveOf, Alive
    <3>3. Cardinality(AliveOf(p)) = 0
      BY <3>2, FS_EmptySet
    <3>. QED  BY <3>1, <3>3, ControlPlaneAssumption DEF ReapsStarted, Room
  <2>2. (\A t \in Task : handlers[t].pc # "spawn") /\ \A r \in Runtime : StopsDead(r)
    BY DEF ControlPlaneInit, StopsDead
  <2>. QED  BY <2>1, <2>2 DEF CapacityFits
<1>2. ControlPlaneIInv /\ CapacityFits /\ [ControlPlaneNext]_allVars => CapacityFits'
  BY CapacityStep
<1>3. ASSUME ControlPlaneIInv, CapacityFits, NEW p \in Provider
      PROVE  Cardinality(AliveOf(p)) <= MaxRuntimes
  <2>1. /\ Room(p) /\ Cardinality(AliveOf(p)) \in Nat /\ MaxRuntimes \in Nat
        /\ pool[p].lacking \in Nat
        /\ pool[p].warming # NoRuntime => pool[p].lacking > 0
    BY <1>3, Typed, AliveCounted, ControlPlaneAssumption
       DEF ControlPlaneIInv, PoolTyped, PoolRecord, CapacityFits
  <2>. QED  BY <2>1 DEF Room
<1>4. ControlPlaneIInv /\ CapacityFits => WithinCapacity
  BY <1>3 DEF WithinCapacity, AliveOf
<1>. QED  BY <1>1, <1>2, <1>4, ControlPlaneInvariant, PTL DEF ControlPlaneSpec

=============================================================================
