----------------------------- MODULE ControlPlane -----------------------------
(***************************************************************************)
(* The control plane at work: the registries of module Service, the        *)
(* process manager that owns one child process per runtime                 *)
(* (internal/processmanager/manager.go), the goroutines that serve execute *)
(* requests (internal/httpapi/router.go, internal/browser/browser.go) and  *)
(* the child processes themselves.                                         *)
(*                                                                         *)
(* Every action is one step of one goroutine or process: a critical        *)
(* section of s.mu or m.mu, a write to a pipe, a signal.  A child reads    *)
(* its stdin and serves one task at a time (runtime_entry.py run, the stub *)
(* runtime); its stdout is read by readStdout, its end by waitChild.       *)
(* Runtime ids are fresh: nextRuntimeID gives each to one process.         *)
(***************************************************************************)
EXTENDS Service, Integers, Sequences

CONSTANTS
  MinWarm,       \* minWarmByProviderID, the same for every provider
  MaxRuntimes,   \* Limits.MaxRuntimes, the same for every provider; the
                 \* code's 0, no limit, is any number past Cardinality(Runtime)
  Environment,   \* what may happen besides execute requests being served
  StartupError,  \* the error of a spawn that failed
  DispatchError  \* the error of a task that could not be sent

(* The environment's moves.  An instance that leaves one out bounds its    *)
(* state space; each is in the Environment of some run.                    *)
EnvironmentMoves == {"cancel", "clock", "crash", "heartbeat", "operator",
                     "pool", "release", "spawn", "start fails", "timeout"}

ASSUME ControlPlaneAssumption ==
  /\ MinWarm \in Nat /\ MaxRuntimes \in Nat \ {0}
  /\ Environment \subseteq EnvironmentMoves
  /\ StartupError \in Error /\ DispatchError \in Error
  /\ "ready" \in Registration

May(move) == move \in Environment

VARIABLES
  handlers,  \* per task: the goroutine that serves its execute request
  children,  \* per runtime: its childProcess record and its waitChild
  procs,     \* per runtime: the operating-system process
  stdin,     \* per runtime: envelopes sent and not read by the process
  stdout,    \* per runtime: envelopes written and not handled
  readers,   \* per runtime: what readStdout has still to note in the record
  pool       \* per provider: the snapshot reconcileRuntimePool works from

processVars == <<handlers, children, procs, stdin, stdout, readers, pool>>
allVars == <<vars, processVars>>

-----------------------------------------------------------------------------
(* "spawn": SpawnRuntime is next; "await": it is under way, on `runtime';  *)
(* "undelivered": dispatch failed and the failure is not recorded yet.     *)
HandlerRecord ==
  [pc      : {"idle", "spawn", "await", "dispatch", "undelivered", "done"},
   session : BOOLEAN,   \* executeAndWait, not router.execute
   runtime : Runtime \union {NoRuntime},
   sent    : BOOLEAN]   \* DispatchTask succeeded

(* `spawn' is the state of the startChildCommand call, `opened' tells that *)
(* readyCh is closed, `waited' how far waitChild got, `idle' the age of    *)
(* lastIdleAt ("long" is past the idle timeout).                           *)
ChildRecord ==
  [provider : Provider \union {NoProvider},
   spawn    : {"none", "waiting", "ok", "failed"},
   ready    : BOOLEAN,
   busy     : BOOLEAN,
   stopping : BOOLEAN,
   opened   : BOOLEAN,
   idle     : {"zero", "recent", "long"},
   waited   : {"no", "marked", "done"}]

ProcRecord ==
  [state : {"none", "booting", "serving", "executing", "exited", "crashed"},
   task  : Task \union {NoTask}]

(* One pass of the loop: the idle children it copied, how many warm ones   *)
(* are lacking, how many may be reaped, the one being spawned or reaped.   *)
Resting == [idle |-> {}, lacking |-> 0, excess |-> 0,
            warming |-> NoRuntime, victim |-> NoRuntime]

Shutdown == "shutdown_runtime"

ASSUME ShutdownAssumption == Shutdown \notin Task

Envelope == [action  : {"runtime_ready", "runtime_health", "task_completed"},
             task    : Task \union {NoTask},
             success : BOOLEAN]

Alive(r) == procs[r].state \in {"booting", "serving", "executing"}

(* r is a key of m.children.                                               *)
Listed(r) == procs[r].state # "none" /\ children[r].waited # "done"

Active(p) == { r \in Runtime : Listed(r) /\ children[r].provider = p
                               /\ ~children[r].stopping }

Idle(p) == { r \in Active(p) : children[r].ready /\ ~children[r].busy }

(* The tasks handed to a process and not finished by it.                   *)
InProcess(r) == ({ procs[r].task } \union { stdin[r][i] : i \in DOMAIN stdin[r] })
                  \ { NoTask, Shutdown }

-----------------------------------------------------------------------------
ControlPlaneInit ==
  /\ Init
  /\ handlers = [t \in Task |-> [pc |-> "idle", session |-> FALSE,
                                 runtime |-> NoRuntime, sent |-> FALSE]]
  /\ children = [r \in Runtime |->
       [provider |-> NoProvider, spawn |-> "none", ready |-> FALSE, busy |-> FALSE,
        stopping |-> FALSE, opened |-> FALSE, idle |-> "zero", waited |-> "no"]]
  /\ procs = [r \in Runtime |-> [state |-> "none", task |-> NoTask]]
  /\ stdin = [r \in Runtime |-> <<>>]
  /\ stdout = [r \in Runtime |-> <<>>]
  /\ readers = [r \in Runtime |-> "free"]
  /\ pool = [p \in Provider |-> Resting]

(***************************************************************************)
(* Spawning: startChildCommand and SpawnStub.                              *)
(***************************************************************************)

(* The child is listed, then started; the caller waits.                    *)
StartChild(r, p) ==
  /\ children[r].spawn = "none"
  /\ children' = [children EXCEPT ![r].spawn = "waiting", ![r].provider = p]
  /\ procs' = [procs EXCEPT ![r].state = "booting"]
  /\ UNCHANGED <<stdin, stdout, readers>>

(* cmd.Start fails: the child is delisted again.                           *)
StartFails(r, p) ==
  /\ May("start fails") /\ children[r].spawn = "none"
  /\ children' = [children EXCEPT ![r].spawn = "failed", ![r].provider = p]
  /\ UNCHANGED <<procs, stdin, stdout, readers>>

(* killChild: SIGKILL to the process group.  `stopping' is how waitChild   *)
(* will know that the exit was wanted.  What is in the pipe is lost.       *)
Kill(r) ==
  /\ procs' = [procs EXCEPT ![r] = IF Alive(r) THEN [state |-> "crashed", task |-> NoTask]
                                               ELSE @]
  /\ stdin' = [stdin EXCEPT ![r] = <<>>]

(* The select over readyCh, exitCh and the timer, and what follows it:     *)
(* startChildCommand reads the runtime, SpawnStub records a heartbeat.     *)
SpawnReady(r) ==
  /\ children[r].spawn = "waiting" /\ children[r].opened
  /\ children' = [children EXCEPT ![r].spawn = "ok"]
  /\ RefreshCooldowns \/ RecordHeartbeat(r, TRUE, 0, FALSE)
  /\ UNCHANGED <<handlers, procs, stdin, stdout, readers, pool>>

SpawnExited(r) ==
  /\ children[r].spawn = "waiting" /\ children[r].waited # "no"
  /\ children' = [children EXCEPT ![r].spawn = "failed"]
  /\ UNCHANGED <<vars, handlers, procs, stdin, stdout, readers, pool>>

SpawnTimeout(r) ==
  /\ May("timeout") /\ children[r].spawn = "waiting"
  /\ children' = [children EXCEPT ![r].spawn = "failed", ![r].stopping = TRUE]
  /\ Kill(r)
  /\ UNCHANGED <<vars, handlers, stdout, readers, pool>>

(***************************************************************************)
(* The request handlers: router.execute and executeAndWait.                *)
(***************************************************************************)

(* SubmitTask answered: dispatch to the runtime leased, spawn one if none  *)
(* was, or give up (409) if the caller pinned one that is busy.            *)
Answer(q, session, task) ==
  [pc      |-> IF task.state = "running" THEN "dispatch"
               ELSE IF q.runtime = NoRuntime THEN "spawn" ELSE "done",
   session |-> session,
   runtime |-> task.runtime,
   sent    |-> FALSE]

AcceptRequest(t, q, session) ==
  /\ handlers[t].pc = "idle"
  /\ SubmitTask(t, q)
  /\ handlers' = [handlers EXCEPT ![t] = Answer(q, session, tasks'[t])]
  /\ UNCHANGED <<children, procs, stdin, stdout, readers, pool>>

Accept(t) ==
  \E q \in Request, session \in BOOLEAN : AcceptRequest(t, q, session)

Spawn(t) ==
  /\ handlers[t].pc = "spawn"
  /\ \E r \in Runtime :
       /\ StartChild(r, tasks[t].provider) \/ StartFails(r, tasks[t].provider)
       /\ handlers' = [handlers EXCEPT ![t].pc = "await", ![t].runtime = r]
  /\ UNCHANGED <<vars, pool>>

(* The runtime is up: it is the task's unless another request took it in   *)
(* the meantime.  Then the task is left "allocating" and the handler       *)
(* returns (router.execute as if accepted, executeAndWait with an error).  *)
Assign(t) ==
  LET r == handlers[t].runtime
  IN  /\ handlers[t].pc = "await" /\ children[r].spawn = "ok"
      /\ \/ /\ AssignRuntimeToTask(t, r)
            /\ handlers' = [handlers EXCEPT ![t].pc = "dispatch"]
         \/ /\ ~CanAssign(t, r)
            /\ RefreshCooldowns
            /\ handlers' = [handlers EXCEPT ![t].pc = "done"]
      /\ UNCHANGED <<children, procs, stdin, stdout, readers, pool>>

SpawnFailed(t) ==
  /\ handlers[t].pc = "await" /\ children[handlers[t].runtime].spawn = "failed"
  /\ RecordFailure(t, NoRuntime, StartupError)
  /\ handlers' = [handlers EXCEPT ![t].pc = "done"]
  /\ UNCHANGED <<children, procs, stdin, stdout, readers, pool>>

(* Mutant: a task that was sent is dispatched once more.                   *)
DispatchTwice(t) ==
  LET r == handlers[t].runtime
  IN  /\ handlers[t].pc = "dispatch"
      /\ Listed(r) /\ Alive(r) /\ Len(stdin[r]) < 2
      /\ children' = [children EXCEPT ![r].busy = TRUE, ![r].ready = TRUE,
                                      ![r].idle = "zero"]
      /\ stdin' = [stdin EXCEPT ![r] = Append(@, t)]
      /\ handlers' = [handlers EXCEPT ![t].sent = TRUE]
      /\ UNCHANGED <<vars, procs, stdout, readers, pool>>

(* DispatchTask: the flags are set under m.mu, then the envelope is        *)
(* written.  No child (ErrNotFound) or no reader at the other end of the   *)
(* pipe is an error: router.execute records it, executeAndWait returns it. *)
Dispatch(t) ==
  LET r == handlers[t].runtime
  IN  /\ handlers[t].pc = "dispatch"
      /\ children' = IF Listed(r)
                     THEN [children EXCEPT ![r].busy = TRUE, ![r].ready = TRUE,
                                           ![r].idle = "zero"]
                     ELSE children
      /\ IF Listed(r) /\ Alive(r)
         THEN /\ stdin' = [stdin EXCEPT ![r] = Append(@, t)]
              /\ handlers' = [handlers EXCEPT ![t].pc = "done", ![t].sent = TRUE]
         ELSE /\ handlers' = [handlers EXCEPT ![t].pc =
                    IF handlers[t].session THEN "done" ELSE "undelivered"]
              /\ UNCHANGED stdin
      /\ UNCHANGED <<vars, procs, stdout, readers, pool>>

(* Mutant: the failed dispatch is recorded without its runtime.            *)
UndeliveredNowhere(t) ==
  /\ handlers[t].pc = "undelivered"
  /\ RecordFailure(t, NoRuntime, DispatchError)
  /\ handlers' = [handlers EXCEPT ![t].pc = "done"]
  /\ UNCHANGED <<children, procs, stdin, stdout, readers, pool>>

Undelivered(t) ==
  /\ handlers[t].pc = "undelivered"
  /\ RecordFailure(t, handlers[t].runtime, DispatchError)
  /\ handlers' = [handlers EXCEPT ![t].pc = "done"]
  /\ UNCHANGED <<children, procs, stdin, stdout, readers, pool>>

(* POST /v1/tasks/{taskId}/cancel: nothing is said to the process.         *)
Cancel(t) == May("cancel") /\ CancelTask(t) /\ UNCHANGED processVars

(***************************************************************************)
(* The process: reads, works, writes, ends.                                *)
(***************************************************************************)
Write(r, action, t, success) ==
  stdout' = [stdout EXCEPT ![r] =
               Append(@, [action |-> action, task |-> t, success |-> success])]

ProcReady(r) ==
  /\ procs[r].state = "booting"
  /\ procs' = [procs EXCEPT ![r].state = "serving"]
  /\ Write(r, "runtime_ready", NoTask, TRUE)
  /\ UNCHANGED <<vars, handlers, children, stdin, readers, pool>>

(* The heartbeat thread; one unread heartbeat stands for several.          *)
ProcHeartbeat(r) ==
  /\ May("heartbeat") /\ procs[r].state \in {"serving", "executing"}
  /\ \A i \in DOMAIN stdout[r] : stdout[r][i].action # "runtime_health"
  /\ \E healthy \in BOOLEAN : Write(r, "runtime_health", NoTask, healthy)
  /\ UNCHANGED <<vars, handlers, children, procs, stdin, readers, pool>>

(* Mutant: a process that takes every request for a task.                  *)
ProcReadsTasksOnly(r) ==
  /\ procs[r].state = "serving" /\ stdin[r] # <<>>
  /\ procs' = [procs EXCEPT ![r] = [state |-> "executing", task |-> Head(stdin[r])]]
  /\ stdin' = [stdin EXCEPT ![r] = Tail(@)]
  /\ UNCHANGED <<vars, handlers, children, stdout, readers, pool>>

ProcRead(r) ==
  /\ procs[r].state = "serving" /\ stdin[r] # <<>>
  /\ LET env == Head(stdin[r])
     IN  procs' = [procs EXCEPT ![r] = IF env = Shutdown
           THEN [state |-> "exited", task |-> NoTask]
           ELSE [state |-> "executing", task |-> env]]
  /\ stdin' = [stdin EXCEPT ![r] = IF Head(@) = Shutdown THEN <<>> ELSE Tail(@)]
  /\ UNCHANGED <<vars, handlers, children, stdout, readers, pool>>

ProcAnswers(r, success) ==
  /\ procs[r].state = "executing"
  /\ procs' = [procs EXCEPT ![r] = [state |-> "serving", task |-> NoTask]]
  /\ Write(r, "task_completed", procs[r].task, success)
  /\ UNCHANGED <<vars, handlers, children, stdin, readers, pool>>

ProcComplete(r) == \E success \in BOOLEAN : ProcAnswers(r, success)

ProcCrash(r) ==
  /\ May("crash") /\ Alive(r) /\ Kill(r)
  /\ UNCHANGED <<vars, handlers, children, stdout, readers, pool>>

(***************************************************************************)
(* readStdout and handleEnvelope: the registries first (s.mu), then the    *)
(* flags of the child (m.mu).                                              *)
(***************************************************************************)
Receive(r, action) ==
  /\ readers[r] = "free" /\ stdout[r] # <<>> /\ Head(stdout[r]).action = action
  /\ stdout' = [stdout EXCEPT ![r] = Tail(@)]

HandleReady(r) ==
  /\ Receive(r, "runtime_ready")
  /\ RegisterRuntime(r, children[r].provider, "ready")
  /\ readers' = [readers EXCEPT ![r] = "runtime_ready"]
  /\ UNCHANGED <<handlers, children, procs, stdin, pool>>

NoteReady(r) ==
  /\ readers[r] = "runtime_ready"
  /\ readers' = [readers EXCEPT ![r] = "free"]
  /\ children' = [children EXCEPT ![r].ready = TRUE, ![r].busy = FALSE,
                    ![r].stopping = FALSE, ![r].opened = TRUE, ![r].idle = "recent"]
  /\ UNCHANGED <<vars, handlers, procs, stdin, stdout, pool>>

HandleHealth(r) ==
  /\ Receive(r, "runtime_health")
  /\ \E failures \in 0..MaxFailures :
       RecordHeartbeat(r, Head(stdout[r]).success, failures, FALSE)
  /\ UNCHANGED <<handlers, children, procs, stdin, readers, pool>>

HandleCompletion(r) ==
  /\ Receive(r, "task_completed")
  /\ LET env == Head(stdout[r])
     IN  \/ env.success /\ RecordSuccess(env.task, r)
         \/ ~env.success /\ \E e \in Error : RecordFailure(env.task, r, e)
  /\ readers' = [readers EXCEPT ![r] = "task_completed"]
  /\ UNCHANGED <<handlers, children, procs, stdin, pool>>

NoteCompletion(r) ==
  /\ readers[r] = "task_completed"
  /\ readers' = [readers EXCEPT ![r] = "free"]
  /\ children' = [children EXCEPT ![r].ready = TRUE, ![r].busy = FALSE,
                    ![r].idle = IF children[r].stopping THEN @ ELSE "recent"]
  /\ UNCHANGED <<vars, handlers, procs, stdin, stdout, pool>>

(***************************************************************************)
(* waitChild.  cmd.Wait closes the pipe once the process is gone: what the *)
(* scanner of readStdout had not buffered by then is lost.                 *)
(***************************************************************************)
(* Mutant: no exit counts as a crash.                                      *)
WaitForgivesCrashes(r) ==
  /\ procs[r].state \in {"exited", "crashed"} /\ children[r].waited = "no"
  /\ children' = [children EXCEPT ![r].waited = "marked"]
  /\ IF Known(r) THEN MarkRuntimeStopped(r) ELSE UNCHANGED vars
  /\ \E n \in 0..Len(stdout[r]) : stdout' = [stdout EXCEPT ![r] = SubSeq(@, 1, n)]
  /\ UNCHANGED <<handlers, procs, stdin, readers, pool>>

WaitReturns(r) ==
  /\ procs[r].state \in {"exited", "crashed"} /\ children[r].waited = "no"
  /\ children' = [children EXCEPT ![r].waited = "marked"]
  /\ IF ~Known(r) THEN UNCHANGED vars
     ELSE IF procs[r].state = "exited" \/ children[r].stopping
     THEN MarkRuntimeStopped(r) ELSE MarkRuntimeCrashed(r)
  /\ \E n \in 0..Len(stdout[r]) : stdout' = [stdout EXCEPT ![r] = SubSeq(@, 1, n)]
  /\ UNCHANGED <<handlers, procs, stdin, readers, pool>>

(* exitCh <- err, and the child leaves m.children.                         *)
Delist(r) ==
  /\ children[r].waited = "marked"
  /\ children' = [children EXCEPT ![r].waited = "done"]
  /\ UNCHANGED <<vars, handlers, procs, stdin, stdout, readers, pool>>

(***************************************************************************)
(* The pool loop (runtimePoolLoop, reconcileRuntimePool) and operators.    *)
(***************************************************************************)

(* Mutant: the limit is left to the spawner, which has none.               *)
PoolSnapshotUnlimited(p) ==
  /\ May("pool") /\ pool[p] = Resting
  /\ LET warm == IF providers[p].enabled THEN MinWarm ELSE 0
     IN  pool' = [pool EXCEPT ![p] = [Resting EXCEPT !.idle = Idle(p),
           !.lacking = Cardinality({ n \in 1..warm : Cardinality(Idle(p)) + n <= warm }),
           !.excess = Cardinality(Active(p)) - warm]]
  /\ RefreshCooldowns
  /\ UNCHANGED <<handlers, children, procs, stdin, stdout, readers>>

(* One pass for provider p: the children are copied under m.mu; what is    *)
(* done with the copy later reads the live records without a lock.         *)
PoolSnapshot(p) ==
  LET warm    == IF providers[p].enabled THEN MinWarm ELSE 0
      active  == Cardinality(Active(p))
      lacking == { n \in 1..warm : /\ Cardinality(Idle(p)) + n <= warm
                                   /\ active + n <= MaxRuntimes }
  IN  /\ May("pool") /\ pool[p] = Resting
      /\ pool' = [pool EXCEPT ![p] = [Resting EXCEPT !.idle = Idle(p),
                     !.lacking = Cardinality(lacking), !.excess = active - warm]]
      /\ RefreshCooldowns
      /\ UNCHANGED <<handlers, children, procs, stdin, stdout, readers>>

(* First the missing warm runtimes are spawned, one after the other, until *)
(* a spawn fails.                                                          *)
Prewarm(p) ==
  /\ pool[p].lacking > 0 /\ pool[p].warming = NoRuntime
  /\ \E r \in Runtime :
       /\ StartChild(r, p) \/ StartFails(r, p)
       /\ pool' = [pool EXCEPT ![p].warming = r]
  /\ UNCHANGED <<vars, handlers>>

Prewarmed(p) ==
  LET r == pool[p].warming
  IN  /\ r # NoRuntime /\ children[r].spawn # "waiting"
      /\ pool' = [pool EXCEPT ![p].warming = NoRuntime,
           ![p].lacking = IF children[r].spawn = "ok" THEN @ - 1 ELSE 0,
           ![p].excess  = IF children[r].spawn = "ok" THEN @ + 1 ELSE @]
      /\ UNCHANGED <<vars, handlers, children, procs, stdin, stdout, readers>>

(* Then the next idle child of the copy, if it is still worth reaping.     *)
PoolPick(p) ==
  /\ pool[p].lacking = 0 /\ pool[p].warming = NoRuntime
  /\ pool[p].victim = NoRuntime
  /\ \E r \in pool[p].idle :
       LET reap == /\ pool[p].excess > 0
                   /\ ~children[r].stopping /\ children[r].idle = "long"
       IN  pool' = [pool EXCEPT ![p].idle = @ \ {r},
                                ![p].victim = IF reap THEN r ELSE @]
  /\ UNCHANGED <<vars, handlers, children, procs, stdin, stdout, readers>>

PoolReap(p) ==
  LET r == pool[p].victim
  IN  /\ r # NoRuntime
      /\ children' = [children EXCEPT ![r].stopping = TRUE]
      /\ Kill(r)
      /\ pool' = [pool EXCEPT ![p].victim = NoRuntime, ![p].excess = @ - 1]
      /\ UNCHANGED <<vars, handlers, stdout, readers>>

PoolRest(p) ==
  /\ [pool[p] EXCEPT !.excess = 0] = Resting /\ pool[p].excess # 0
  /\ pool' = [pool EXCEPT ![p] = Resting]
  /\ UNCHANGED <<vars, handlers, children, procs, stdin, stdout, readers>>

(* POST /admin/providers/{providerId}/spawn: a runtime for no task.        *)
SpawnOnRequest(p) ==
  /\ May("spawn")
  /\ \E r \in Runtime : StartChild(r, p)
  /\ UNCHANGED <<vars, handlers, pool>>

(* ShutdownRuntime: a request to exit, read after the tasks sent before it *)
(* (one unread shutdown stands for several).                               *)
AsksToExit(r) == Shutdown \in { stdin[r][i] : i \in DOMAIN stdin[r] }

ShutdownRuntime(r) ==
  /\ Listed(r)
  /\ children' = [children EXCEPT ![r].stopping = TRUE]
  /\ stdin' = IF Alive(r) /\ ~AsksToExit(r)
              THEN [stdin EXCEPT ![r] = Append(@, Shutdown)] ELSE stdin
  /\ UNCHANGED <<vars, handlers, procs, stdout, readers, pool>>

(* ReleaseSession shuts down the runtime that opened the session.          *)
ReleaseRuntime(t) ==
  /\ May("release") /\ handlers[t].pc = "done" /\ handlers[t].session
  /\ tasks[t].state = "succeeded"
  /\ ShutdownRuntime(handlers[t].runtime)

IdleTimeElapses(r) ==
  /\ May("pool") /\ children[r].idle = "recent"
  /\ children' = [children EXCEPT ![r].idle = "long"]
  /\ UNCHANGED <<vars, handlers, procs, stdin, stdout, readers, pool>>

-----------------------------------------------------------------------------
(* The goroutine of one execute request, after its SubmitTask.             *)
HandlerStep(t) ==
  \/ Spawn(t) \/ Assign(t) \/ SpawnFailed(t) \/ Dispatch(t) \/ Undelivered(t)

(* The goroutines of one child: its spawner, its reader, its waiter.       *)
SpawnerStep(r) == SpawnReady(r) \/ SpawnExited(r)

ReaderStep(r) ==
  \/ HandleReady(r) \/ NoteReady(r) \/ HandleHealth(r)
  \/ HandleCompletion(r) \/ NoteCompletion(r)

WaiterStep(r) == WaitReturns(r) \/ Delist(r)

(* What a process does unless it crashes.                                  *)
ServeStep(r) == ProcReady(r) \/ ProcRead(r) \/ ProcComplete(r)

ProcessStep(r) == ServeStep(r) \/ ProcHeartbeat(r) \/ ProcCrash(r)

PoolStep(p) ==
  \/ PoolSnapshot(p) \/ Prewarm(p) \/ Prewarmed(p)
  \/ PoolPick(p) \/ PoolReap(p) \/ PoolRest(p)

TimeStep ==
  \/ \E r \in Runtime : SpawnTimeout(r) \/ IdleTimeElapses(r)
  \/ May("clock") /\ ClockStep /\ UNCHANGED processVars

CallerStep ==
  \/ \E t \in Task : Accept(t) \/ Cancel(t) \/ ReleaseRuntime(t)
  \/ \E p \in Provider : SpawnOnRequest(p)
  \/ May("operator") /\ OperatorStep /\ UNCHANGED processVars
  \/ RefreshCooldowns /\ UNCHANGED processVars

ControlPlaneNext ==
  \/ \E t \in Task : HandlerStep(t)
  \/ \E r \in Runtime : SpawnerStep(r) \/ ReaderStep(r) \/ WaiterStep(r)
  \/ \E r \in Runtime : ProcessStep(r)
  \/ \E p \in Provider : PoolStep(p)
  \/ TimeStep
  \/ CallerStep

ControlPlaneSpec == ControlPlaneInit /\ [][ControlPlaneNext]_allVars

(* The Go scheduler runs every goroutine, and a process that does not      *)
(* crash serves what it is sent: the runtimes bound each browser operation *)
(* by a timeout.  Callers, crashes, clocks and the pool owe nothing.       *)
ControlPlaneFairness ==
  /\ \A t \in Task : WF_allVars(HandlerStep(t))
  /\ \A r \in Runtime : /\ WF_allVars(SpawnerStep(r))
                        /\ WF_allVars(ReaderStep(r))
                        /\ WF_allVars(WaiterStep(r))
                        /\ WF_allVars(ServeStep(r))

FairControlPlaneSpec == ControlPlaneSpec /\ ControlPlaneFairness

-----------------------------------------------------------------------------
(* Properties. *)

(* Type correctness of the process manager's and the handlers' state.      *)
ProcessesTypeOK ==
  /\ handlers \in [Task -> HandlerRecord]
  /\ children \in [Runtime -> ChildRecord]
  /\ procs \in [Runtime -> ProcRecord]
  /\ \A r \in Runtime :
       /\ \A i \in DOMAIN stdin[r] : stdin[r][i] \in Task \union {Shutdown}
       /\ \A i \in DOMAIN stdout[r] : stdout[r][i] \in Envelope
       /\ readers[r] \in {"free", "runtime_ready", "task_completed"}
  /\ \A p \in Provider :
       /\ pool[p].idle \subseteq Runtime
       /\ pool[p].lacking \in 0..MinWarm /\ pool[p].excess \in Int
       /\ {pool[p].warming, pool[p].victim} \subseteq Runtime \union {NoRuntime}

(* A task is handed to one process and once: whatever handler, crash and   *)
(* retry do, it is in one pipe or process at a time, on the runtime the    *)
(* task table names, and nowhere once a handler has it still to send.      *)
Mentions(t, r) ==
  (IF procs[r].task = t THEN 1 ELSE 0)
  + Cardinality({ i \in DOMAIN stdin[r] : stdin[r][i] = t })
  + Cardinality({ i \in DOMAIN stdout[r] : stdout[r][i].task = t })

HandedOnce ==
  \A t \in Task, r \in Runtime :
    /\ Mentions(t, r) <= (IF handlers[t].sent THEN 1 ELSE 0)
    /\ Mentions(t, r) > 0 => tasks[t].runtime = r

(* A process never has a second task before it has finished the first.     *)
OneTaskPerProcess == \A r \in Runtime : Cardinality(InProcess(r)) <= 1

(* ARCHITECTURE.md:37: surplus idle runtimes are reaped.  Reaping one that *)
(* works on a task kills the task with it.                                 *)
OnlyIdleReaped ==
  [][\A p \in Provider : PoolReap(p) => InProcess(pool[p].victim) = {}]_allVars

(* ALLOCATION-FLOW.md:13-16: a runtime is spawned when capacity permits.   *)
WithinCapacity ==
  \A p \in Provider :
    Cardinality({ r \in Runtime : Alive(r) /\ children[r].provider = p }) <= MaxRuntimes

(* RUNTIME-DISPATCH-FLOW.md:18-21: the lease is created before the process *)
(* executes the task and released after, so no late completion, crash or   *)
(* expired spawn takes it away from a task at work.  It is promised only   *)
(* while nobody cancels: CancelTask releases the lease at once and tells   *)
(* the process nothing.                                                    *)
LeaseCoversExecution ==
  \A r \in Runtime : procs[r].task # NoTask => runtimes[r].task = procs[r].task

(* A task handed to a process ends, in success, failure or cancellation,   *)
(* whether the process answers, crashes or crashes with its answer unread. *)
DispatchedTaskEnds ==
  \A t \in Task : handlers[t].sent ~> tasks[t].state \in Terminal

(* RUNTIME-DISPATCH-FLOW.md:14-17: a task gets a ready runtime, a fresh    *)
(* one, or fails; so no task stays "allocating" once its spawn is under    *)
(* way or given up.                                                        *)
UnplacedTaskEnds ==
  \A t \in Task :
    tasks[t].state = "allocating" /\ handlers[t].pc # "spawn"
      ~> tasks[t].state # "allocating"

(* The flags, pipes and program counters are as the code leaves them, and  *)
(* no process is given a task while it has one (manager.go:544-604).       *)
ProcessesInv == ProcessesTypeOK /\ OneTaskPerProcess

=============================================================================
