---------------------------- MODULE SessionsProofs ----------------------------
(***************************************************************************)
(* Theorems about the browser sessions, for every set of calls, runtimes   *)
(* and providers: they ask of the control plane nothing but what it allows *)
(* its callers, so its theorems hold under them; and, where nobody cancels *)
(* a task behind a call's back, no page is left open without an owner.     *)
(***************************************************************************)
EXTENDS BrowserSessions, ControlPlaneProofs

-----------------------------------------------------------------------------
(***************************************************************************)
(* What the control plane promises its callers about a task they wait for. *)
(***************************************************************************)

(* The handler remembers where it sent its task: to a process that ran.    *)
SentFits(t) ==
  LET r == handlers[t].runtime
  IN  handlers[t].sent =>
        r = tasks[t].runtime /\ r \in Runtime /\ procs[r].state # "none"

(* Only its own answer makes a task succeed, and it leaves nothing behind. *)
SucceededFits(t) ==
  tasks[t].state = "succeeded" =>
    /\ handlers[t].sent
    /\ \A r \in Runtime : ~MentionedAt(t, r)

(* The process has answered the task, and the answer is not read yet.      *)
Answered(t, r) ==
  \E i \in DOMAIN stdout[r] :
    /\ stdout[r][i].action = "task_completed" /\ stdout[r][i].task = t
    /\ stdout[r][i].success

-----------------------------------------------------------------------------
(***************************************************************************)
(* The inductive invariant of the sessions.                                *)
(***************************************************************************)

(* The call s acquired a session, whose page was opened by its runtime.    *)
Acquired(s) ==
  /\ calls[s].op = "acquire" /\ calls[s].pc = "done"
  /\ handlers[s].sent /\ handlers[s].session
  /\ tasks[s].state = "succeeded"
  /\ sessions[s].runtime = tasks[s].runtime

Gone(r) == procs[r].state \in {"exited", "crashed"} \/ AsksToExit(r)

CallFits(t) ==
  LET c == calls[t]
  IN  /\ c.op = "none" <=> c.pc = "idle"
      /\ c.pc \in {"idle", "found"} => handlers[t].pc = "idle"
      /\ handlers[t].pc # "idle" => handlers[t].session
      /\ c.op = "acquire" => c.session = t /\ c.pc \in {"waiting", "done"}
      /\ c.op \in {"step", "release"} => c.session \in Task /\ Acquired(c.session)
      /\ c.pc \in {"stopping", "deleting"} => c.op = "release"
      /\ c.pc = "deleting" => Gone(sessions[c.session].runtime)
      /\ c.late => c.pc = "done"
      /\ c.op = "acquire" /\ c.pc = "done" /\ ~c.late =>
           /\ handlers[t].pc = "done"
           /\ handlers[t].sent => tasks[t].state \in Terminal

CallsIInv ==
  /\ SessionsTypeOK
  /\ \A t \in Task : CallFits(t)
  /\ \A s \in Task : sessions[s].listed => Acquired(s)

(* The session s whose browser r has open: its task was sent there.        *)
OpenedAt(s, r) ==
  calls[s].op = "acquire" /\ handlers[s].sent /\ tasks[s].runtime = r

(* While r is alive, its call still waits for the good news, or is as      *)
(* SessionsInv says.                                                       *)
PageOwned(s, r) ==
  /\ OpenedAt(s, r)
  /\ \/ /\ calls[s].pc = "waiting"
        /\ tasks[s].state = "succeeded" \/ Answered(s, r)
     \/ calls[s].late \/ sessions[s].listed \/ AsksToExit(r)

PageFits(s, r) ==
  s \in pages[r] => OpenedAt(s, r) /\ (Alive(r) => PageOwned(s, r))

(* A step or a release is sent to the runtime of its session, or nowhere.  *)
PinnedFits(t) ==
  calls[t].op \in {"step", "release"} =>
    /\ handlers[t].pc \notin {"spawn", "await"}
    /\ tasks[t].runtime \in {NoRuntime, sessions[calls[t].session].runtime}

(* What closes the page of a session, from its process's answer on.        *)
ClosedAt(t, r) == tasks[t].state = "succeeded" \/ Answered(t, r)

CloseFits(t) ==
  calls[t].op = "release" =>
    \A r \in Runtime : r = sessions[calls[t].session].runtime /\ ClosedAt(t, r)
                         => calls[t].session \notin pages[r]

PagesIInv ==
  /\ \A r \in Runtime : procs[r].state \in {"none", "booting"} => pages[r] = {}
  /\ \A s \in Task, r \in Runtime : PageFits(s, r)
  /\ \A t \in Task : PinnedFits(t) /\ CloseFits(t)

(* All but the pages, which need more than this: that nobody cancels.      *)
SessionsIInv ==
  /\ ControlPlaneIInv
  /\ \A t \in Task : SentFits(t) /\ SucceededFits(t)
  /\ CallsIInv

-----------------------------------------------------------------------------
(***************************************************************************)
(* What becomes of a task, whoever waits for it.                           *)
(***************************************************************************)

(* All a step may do to the task table.                                    *)
LEMMA TasksChange ==
  ASSUME ControlPlaneIInv, [ControlPlaneNext]_allVars
  PROVE  \/ \E u \in Task : Accept(u) \/ Assign(u)
         \/ UNCHANGED tasks
         \/ \E u \in Task, s \in {"failed", "cancelled"} :
              /\ tasks' = [tasks EXCEPT ![u].state = s]
              /\ handlers[u].pc # "done" \/ tasks[u].state \notin Terminal
         \/ \E r \in Runtime : HandleCompletion(r) \/ MarkRuntimeCrashed(r)
<1>. DEFINE Goal == \/ \E u \in Task : Accept(u) \/ Assign(u)
                    \/ UNCHANGED tasks
                    \/ \E u \in Task, s \in {"failed", "cancelled"} :
                         /\ tasks' = [tasks EXCEPT ![u].state = s]
                         /\ handlers[u].pc # "done" \/ tasks[u].state \notin Terminal
                    \/ \E r \in Runtime : HandleCompletion(r) \/ MarkRuntimeCrashed(r)
<1>1. ASSUME NEW u \in Task, HandlerStep(u)
      PROVE  Goal
  <2>1. CASE Spawn(u) \/ Dispatch(u)
    BY <2>1 DEF Spawn, Dispatch, vars
  <2>2. CASE SpawnFailed(u) \/ Undelivered(u)
    <3>1. tasks' = [tasks EXCEPT ![u].state = "failed"]
      BY Zenon, <2>2 DEF SpawnFailed, Undelivered, RecordFailure
    <3>2. handlers[u].pc # "done"
      BY <2>2 DEF SpawnFailed, Undelivered
    <3>. QED  BY <3>1, <3>2
  <2>. QED  BY <1>1, <2>1, <2>2 DEF HandlerStep
<1>2. ASSUME NEW r \in Runtime, ReaderStep(r)
      PROVE  Goal
  BY Zenon, <1>2 DEF ReaderStep, HandleReady, RegisterRuntime, NoteReady, HandleHealth,
     RecordHeartbeat, NoteCompletion, vars
<1>3. ASSUME NEW r \in Runtime, WaiterStep(r)
      PROVE  Goal
  BY Zenon, <1>3 DEF WaiterStep, WaitReturns, Delist, MarkRuntimeStopped, vars
<1>4. ASSUME NEW r \in Runtime, SpawnerStep(r) \/ ProcessStep(r)
      PROVE  UNCHANGED tasks
  BY Zenon, <1>4 DEF SpawnerStep, SpawnReady, SpawnExited, RefreshCooldowns,
     RecordHeartbeat, ProcessStep, ServeStep, ProcReady, ProcRead, ProcComplete,
     ProcAnswers, ProcHeartbeat, ProcCrash, vars
<1>5. ASSUME TimeStep \/ \E p \in Provider : PoolStep(p)
      PROVE  UNCHANGED tasks
  BY Zenon, <1>5 DEF TimeStep, SpawnTimeout, IdleTimeElapses, ClockStep,
     ProviderCooldownRuns, ProviderCooldownElapses, RuntimeCooldownElapses, HeartbeatOverdue, PoolStep,
     PoolSnapshot, Prewarm, Prewarmed, PoolPick, PoolReap, PoolRest, RefreshCooldowns, vars
<1>6. CASE CallerStep
  <2>1. ASSUME NEW u \in Task, Cancel(u)
        PROVE  Goal
    <3>1. tasks' = [tasks EXCEPT ![u].state = "cancelled"]
      BY Zenon, <2>1 DEF Cancel, CancelTask
    <3>2. tasks[u].state \notin Terminal
      BY <2>1 DEF Cancel, CancelTask, Terminal
    <3>. QED  BY <3>1, <3>2
  <2>. QED  BY Zenon, <1>6, <2>1 DEF CallerStep, ReleaseRuntime, ShutdownRuntime,
            SpawnOnRequest, OperatorStep, SetProviderEnabled, ResetProviderCooldown,
            RefreshCooldowns, vars
<1>7. CASE UNCHANGED allVars
  BY <1>7 DEF allVars, vars
<1>. QED  BY Zenon, <1>1, <1>2, <1>3, <1>4, <1>5, <1>6, <1>7 DEF ControlPlaneNext

(* What the handler of another task does to this one: nothing.             *)
LEMMA OtherTask ==
  ASSUME TypeOK, NEW t \in Task, NEW u \in Task, t # u, Accept(u) \/ Assign(u)
  PROVE  tasks'[t] = tasks[t]
<1>1. CASE Accept(u)
  <2>1. PICK q \in Request : SubmitTask(u, q)
    BY <1>1 DEF Accept, AcceptRequest
  <2>2. \E task : tasks' = [tasks EXCEPT ![u] = task]
    BY Zenon, <2>1 DEF SubmitTask
  <2>. QED  BY <2>2 DEF TypeOK
<1>2. CASE Assign(u)
  <2>1. \/ UNCHANGED tasks
        \/ tasks' = [tasks EXCEPT ![u].state = "running",
                       ![u].runtime = handlers[u].runtime,
                       ![u].provider = runtimes[handlers[u].runtime].provider]
    BY Zenon, <1>2 DEF Assign, AssignRuntimeToTask, RefreshCooldowns
  <2>. QED  BY <2>1 DEF TypeOK
<1>. QED  BY <1>1, <1>2

(* A task that has ended stays ended, once its handler is done with it.    *)
LEMMA TerminalStays ==
  ASSUME ControlPlaneIInv, [ControlPlaneNext]_allVars, NEW t \in Task,
         handlers[t].pc = "done", tasks[t].state \in Terminal
  PROVE  tasks'[t].state \in Terminal
<1>0. TypeOK /\ tasks[t] \in TaskRecord
  BY DEF ControlPlaneIInv, TypeOK
<1>1. ASSUME NEW u \in Task, Accept(u) \/ Assign(u)
      PROVE  tasks'[t].state \in Terminal
  <2>1. t # u
    BY <1>1 DEF Accept, AcceptRequest, Assign
  <2>. QED  BY <1>0, <1>1, <2>1, OtherTask
<1>2. ASSUME NEW u \in Task, NEW s \in Terminal, tasks' = [tasks EXCEPT ![u].state = s]
      PROVE  tasks'[t].state \in Terminal
  BY <1>0, <1>2 DEF TypeOK, TaskRecord
<1>3. ASSUME NEW r \in Runtime, HandleCompletion(r)
      PROVE  tasks'[t].state \in Terminal
  <2>. DEFINE u == Head(stdout[r]).task
  <2>1. u \in Task
    BY <1>3, AnsweredTask DEF HandleCompletion
  <2>2. \E s \in {"succeeded", "failed"} : tasks' = [tasks EXCEPT ![u].state = s]
    BY Zenon, <1>3 DEF HandleCompletion, RecordSuccess, RecordFailure
  <2>. HIDE DEF u
  <2>. QED  BY <1>2, <2>1, <2>2 DEF Terminal
<1>4. ASSUME NEW r \in Runtime, MarkRuntimeCrashed(r)
      PROVE  tasks'[t].state \in Terminal
  BY <1>4 DEF MarkRuntimeCrashed
<1>. QED  BY <1>1, <1>2, <1>3, <1>4, TasksChange DEF Terminal

(* Only the answer of its process makes a task succeed (RecordCompletion). *)
LEMMA WhoSucceeds ==
  ASSUME ControlPlaneIInv, [ControlPlaneNext]_allVars, NEW t \in Task,
         tasks[t].state # "succeeded", tasks'[t].state = "succeeded"
  PROVE  \E r \in Runtime : HandleCompletion(r) /\ Head(stdout[r]).task = t
<1>0. TypeOK /\ tasks[t] \in TaskRecord /\ HandlerFits(t)
  BY DEF ControlPlaneIInv, TypeOK
<1>1. ASSUME NEW u \in Task, Accept(u) \/ Assign(u)
      PROVE  FALSE
  <2>1. CASE t # u
    BY <1>0, <1>1, <2>1, OtherTask
  <2>2. CASE Accept(t)
    <3>1. PICK q \in Request : SubmitTask(t, q)
      BY <2>2 DEF Accept, AcceptRequest
    <3>2. \E p, r : \E s \in {"allocating", "running"} :
            tasks' = [tasks EXCEPT ![t] = [state |-> s, provider |-> p,
                                           runtime |-> r, flow |-> FALSE]]
      BY Zenon, <3>1 DEF SubmitTask
    <3>. QED  BY <1>0, <3>2 DEF TypeOK
  <2>3. CASE Assign(t)
    <3>. DEFINE r == handlers[t].runtime
    <3>1. \/ UNCHANGED tasks
          \/ tasks' = [tasks EXCEPT ![t].state = "running", ![t].runtime = r,
                                    ![t].provider = runtimes[r].provider]
      BY Zenon, <2>3 DEF Assign, AssignRuntimeToTask, RefreshCooldowns
    <3>2. tasks'[t] = tasks[t] \/ tasks'[t].state = "running"
      BY <1>0, <3>1 DEF TaskRecord, TypeOK
    <3>. QED  BY <3>2
  <2>. QED  BY <1>1, <2>1, <2>2, <2>3
<1>2. ASSUME NEW u \in Task, NEW s \in {"failed", "cancelled"},
             tasks' = [tasks EXCEPT ![u].state = s]
      PROVE  FALSE
  BY <1>0, <1>2 DEF TypeOK, TaskRecord
<1>3. ASSUME NEW r \in Runtime, HandleCompletion(r)
      PROVE  Head(stdout[r]).task = t
  <2>1. \E s : tasks' = [tasks EXCEPT ![Head(stdout[r]).task].state = s]
    BY Zenon, <1>3 DEF HandleCompletion, RecordSuccess, RecordFailure
  <2>. QED  BY <1>0, <2>1 DEF TypeOK
<1>4. ASSUME NEW r \in Runtime, MarkRuntimeCrashed(r)
      PROVE  FALSE
  <2>1. tasks'[t] \in {tasks[t], [tasks[t] EXCEPT !.state = "failed"]}
    BY <1>4 DEF MarkRuntimeCrashed
  <2>. QED  BY <1>0, <2>1 DEF TaskRecord
<1>. QED  BY <1>1, <1>2, <1>3, <1>4, TasksChange

(* Only DispatchTask brings a task where it was not mentioned before.      *)
LEMMA NewlyMentioned ==
  ASSUME ControlPlaneIInv, [ControlPlaneNext]_allVars, NEW t \in Task, NEW x \in Runtime,
         ~MentionedAt(t, x), MentionedAt(t, x)'
  PROVE  handlers[t].pc = "dispatch"
<1>0. stdin[x] \in Line /\ stdout[x] \in Seq(Envelope)
  BY DEF ControlPlaneIInv, ProcessesTyped
<1>1. ~MovesAt(x)
  BY DEF MovesAt, Moves, MentionedAt
<1>2. PICK u \in Task : HandedTo(u, x)
  BY <1>1, Carried
<1>3. handlers[u].pc = "dispatch"
  BY <1>2 DEF HandedTo, Dispatch
<1>4. ~MentionedAt(u, x)
  BY <1>3 DEF ControlPlaneIInv, HandlerFits, MentionFits
<1>5. t = u
  BY <1>0, <1>2, <1>4, Handed DEF HandedTo, MentionedAt
<1>. QED  BY <1>3, <1>5

LEMMA SentFitsStep ==
  ASSUME ControlPlaneIInv, [ControlPlaneNext]_allVars, NEW t \in Task, SentFits(t)
  PROVE  SentFits(t)'
<1>0. /\ HandlerFits(t) /\ handlers \in [Task -> HandlerRecord]
      /\ handlers[t] \in HandlerRecord
  BY DEF ControlPlaneIInv, ProcessesTyped
<1>1. CASE handlers[t].sent
  BY <1>1, SentStays, ProcessMovesOn DEF SentFits
<1>2. CASE ~handlers[t].sent
  <2>1. CASE Dispatch(t)
    <3>1. tasks' = tasks /\ procs' = procs /\ handlers[t].pc = "dispatch"
      BY <2>1 DEF Dispatch, vars
    <3>3. handlers'[t].sent => procs[handlers[t].runtime].state # "none"
      <4>1. \/ Alive(handlers[t].runtime)
            \/ \E pc : handlers' = [handlers EXCEPT ![t].pc = pc]
        BY Zenon, <2>1 DEF Dispatch
      <4>2. \A pc : ~[handlers[t] EXCEPT !.pc = pc].sent
        BY <1>0, <1>2 DEF HandlerRecord
      <4>. QED  BY <1>0, <4>1, <4>2 DEF Alive
    <3>2. handlers'[t].runtime = handlers[t].runtime
      <4>1. \/ handlers' = [handlers EXCEPT ![t].pc = "done", ![t].sent = TRUE]
            \/ \E pc : handlers' = [handlers EXCEPT ![t].pc = pc]
        BY Zenon, <2>1 DEF Dispatch
      <4>. QED  BY <1>0, <4>1 DEF HandlerRecord
    <3>. QED  BY <1>0, <3>1, <3>2, <3>3 DEF HandlerFits, SentFits
  <2>2. CASE Accept(t)
    BY <2>2, AcceptedFits DEF SentFits
  <2>3. CASE Spawn(t) \/ Assign(t) \/ SpawnFailed(t) \/ Undelivered(t)
    <3>1. \/ \E r, pc : handlers' = [handlers EXCEPT ![t].pc = pc, ![t].runtime = r]
          \/ \E pc : handlers' = [handlers EXCEPT ![t].pc = pc]
      BY Zenon, <2>3 DEF Spawn, Assign, SpawnFailed, Undelivered
    <3>2. ~handlers'[t].sent
      <4>1. \A r, pc : /\ ~[handlers[t] EXCEPT !.pc = pc, !.runtime = r].sent
                       /\ ~[handlers[t] EXCEPT !.pc = pc].sent
        BY <1>0, <1>2 DEF HandlerRecord
      <4>2. \/ \E r, pc : handlers'[t] = [handlers[t] EXCEPT !.pc = pc, !.runtime = r]
            \/ \E pc : handlers'[t] = [handlers[t] EXCEPT !.pc = pc]
        BY <1>0, <3>1
      <4>. QED  BY <4>1, <4>2
    <3>. QED  BY <3>2 DEF SentFits
  <2>. QED  BY <1>2, <2>1, <2>2, <2>3, HandlerMoves DEF HandlerStep, SentFits
<1>. QED  BY <1>1, <1>2

LEMMA SucceededStep ==
  ASSUME ControlPlaneIInv, [ControlPlaneNext]_allVars, NEW t \in Task, SucceededFits(t)
  PROVE  SucceededFits(t)'
<1>. SUFFICES ASSUME tasks'[t].state = "succeeded"
              PROVE  handlers'[t].sent /\ \A r \in Runtime : ~MentionedAt(t, r)'
  BY DEF SucceededFits
<1>1. CASE tasks[t].state = "succeeded"
  <2>1. handlers[t].sent /\ handlers[t].pc = "done"
    BY <1>1 DEF SucceededFits, ControlPlaneIInv, HandlerFits
  <2>. QED  BY <1>1, <2>1, SentStays, NewlyMentioned DEF SucceededFits
<1>2. CASE tasks[t].state # "succeeded"
  <2>1. PICK r \in Runtime : HandleCompletion(r) /\ Head(stdout[r]).task = t
    BY <1>2, WhoSucceeds
  <2>2. MentionedAt(t, r)
    BY <2>1, AnsweredTask DEF HandleCompletion
  <2>3. handlers[t].sent /\ handlers[t].pc = "done" /\ tasks[t].runtime = r
    BY <2>2 DEF ControlPlaneIInv, MentionFits, HandlerFits
  <2>4. \A x \in Runtime \ {r} : ~MentionedAt(t, x)
    BY <2>3 DEF ControlPlaneIInv, MentionFits
  <2>. QED  BY <2>1, <2>3, <2>4, SentStays, NewlyMentioned, ReadIsGone
<1>. QED  BY <1>1, <1>2

(* What a step may do to the pipes of a process that survives it.          *)
InMoves(x) ==
  \/ stdin'[x] = stdin[x]
  \/ \E e : stdin'[x] = Append(stdin[x], e)
  \/ /\ stdin[x] # <<>> /\ Head(stdin[x]) # Shutdown
     /\ stdin'[x] = Tail(stdin[x])

OutMoves(x) ==
  \/ stdout'[x] = stdout[x]
  \/ \E e : stdout'[x] = Append(stdout[x], e)
  \/ /\ HandleReady(x) \/ HandleHealth(x) \/ HandleCompletion(x)
     /\ stdout'[x] = Tail(stdout[x])

LEMMA KillSpares ==
  ASSUME PipesTyped, NEW x \in Runtime, NEW r \in Runtime, Kill(r), Alive(x)'
  PROVE  stdin'[x] = stdin[x]
<1>1. procs \in [Runtime -> ProcRecord] /\ stdin \in [Runtime -> Line]
  BY DEF PipesTyped
<1>2. x # r
  BY <1>1 DEF Kill, Alive
<1>. QED  BY <1>1, <1>2 DEF Kill

LEMMA PipesMove ==
  ASSUME ControlPlaneIInv, [ControlPlaneNext]_allVars, NEW x \in Runtime,
         Alive(x), Alive(x)'
  PROVE  InMoves(x) /\ OutMoves(x)
<1>. DEFINE Goal == InMoves(x) /\ OutMoves(x)
<1>0. /\ PipesTyped /\ procs \in [Runtime -> ProcRecord]
      /\ stdin \in [Runtime -> Line] /\ stdout \in [Runtime -> Seq(Envelope)]
  BY Typed DEF ControlPlaneIInv, PipesTyped
<1>a. UNCHANGED <<stdin, stdout>> => Goal
  BY DEF InMoves, OutMoves
<1>b. ASSUME NEW r \in Runtime, Kill(r), UNCHANGED stdout
      PROVE  Goal
  BY <1>0, <1>b, KillSpares DEF InMoves, OutMoves
<1>c. ASSUME NEW r \in Runtime, NEW e, stdin' = [stdin EXCEPT ![r] = Append(@, e)],
             UNCHANGED stdout
      PROVE  Goal
  BY <1>0, <1>c DEF InMoves, OutMoves
<1>1. ASSUME NEW t \in Task, HandlerStep(t)
      PROVE  Goal
  <2>1. CASE Spawn(t)
    BY Zenon, <1>a, <2>1 DEF Spawn, StartChild, StartFails
  <2>2. CASE Dispatch(t)
    <3>1. UNCHANGED stdout
      BY <2>2 DEF Dispatch
    <3>2. UNCHANGED stdin \/ stdin' = [stdin EXCEPT ![handlers[t].runtime] = Append(@, t)]
      BY Zenon, <2>2 DEF Dispatch
    <3>3. handlers[t].runtime \in Runtime
      BY <2>2 DEF Dispatch, ControlPlaneIInv, HandlerFits
    <3>. QED  BY Zenon, <1>a, <1>c, <3>1, <3>2, <3>3
  <2>. QED  BY Zenon, <1>1, <1>a, <2>1, <2>2 DEF HandlerStep, Assign, SpawnFailed, Undelivered
<1>2. ASSUME NEW r \in Runtime, SpawnerStep(r) \/ ReaderStep(r) \/ WaiterStep(r)
      PROVE  Goal
  <2>1. CASE HandleReady(r) \/ HandleHealth(r) \/ HandleCompletion(r)
    <3>1. stdout' = [stdout EXCEPT ![r] = Tail(stdout[r])] /\ UNCHANGED stdin
      BY Zenon, <2>1 DEF HandleReady, HandleHealth, HandleCompletion, Receive
    <3>2. IF x = r THEN stdout'[x] = Tail(stdout[x]) ELSE stdout'[x] = stdout[x]
      BY <1>0, <3>1
    <3>. QED  BY <2>1, <3>1, <3>2 DEF InMoves, OutMoves
  <2>2. CASE WaitReturns(r)
    <3>1. x # r /\ UNCHANGED stdin
      BY <2>2 DEF WaitReturns, Alive
    <3>2. stdout'[x] = stdout[x]
      BY <1>0, <2>2, <3>1 DEF WaitReturns
    <3>. QED  BY <3>1, <3>2 DEF InMoves, OutMoves
  <2>. QED  BY Zenon, <1>2, <1>a, <2>1, <2>2 DEF SpawnerStep, SpawnReady, SpawnExited,
            ReaderStep, NoteReady, NoteCompletion, WaiterStep, Delist
<1>3. ASSUME NEW r \in Runtime, ProcessStep(r)
      PROVE  Goal
  <2>1. CASE ProcCrash(r)
    BY Zenon, <1>b, <2>1 DEF ProcCrash
  <2>2. CASE ProcRead(r)
    <3>1. /\ UNCHANGED stdout /\ stdin[r] # <<>>
          /\ stdin' = [stdin EXCEPT ![r] = IF Head(@) = Shutdown THEN <<>> ELSE Tail(@)]
          /\ Head(stdin[r]) = Shutdown =>
               procs' = [procs EXCEPT ![r] = [state |-> "exited", task |-> NoTask]]
      BY <2>2 DEF ProcRead
    <3>2. x = r => Head(stdin[r]) # Shutdown
      BY <1>0, <3>1 DEF Alive
    <3>. QED  BY <1>0, <3>1, <3>2 DEF InMoves, OutMoves
  <2>3. CASE ProcReady(r) \/ ProcHeartbeat(r) \/ ProcComplete(r)
    <3>1. UNCHANGED stdin /\ \E e : stdout' = [stdout EXCEPT ![r] = Append(@, e)]
      BY Zenon, <2>3 DEF ProcReady, ProcHeartbeat, ProcComplete, ProcAnswers, Write
    <3>. QED  BY <1>0, <3>1 DEF InMoves, OutMoves
  <2>. QED  BY <1>3, <2>1, <2>2, <2>3 DEF ProcessStep, ServeStep
<1>4. ASSUME NEW p \in Provider, PoolStep(p)
      PROVE  Goal
  <2>1. CASE PoolReap(p)
    <3>1. pool[p].victim \in Runtime /\ Kill(pool[p].victim) /\ UNCHANGED stdout
      BY <2>1 DEF ControlPlaneIInv, ProcessesTyped, PoolReap, PoolRecord
    <3>. QED  BY <1>b, <3>1
  <2>. QED  BY Zenon, <1>4, <1>a, <2>1 DEF PoolStep, PoolSnapshot, Prewarm, Prewarmed,
            PoolPick, PoolRest, StartChild, StartFails
<1>5. CASE TimeStep
  BY Zenon, <1>5, <1>a, <1>b DEF TimeStep, SpawnTimeout, IdleTimeElapses, processVars
<1>6. CASE CallerStep
  <2>1. ASSUME NEW t \in Task, ReleaseRuntime(t)
        PROVE  Goal
    <3>1. UNCHANGED stdout /\ (stdin'[x] = stdin[x] \/ stdin'[x] = Append(stdin[x], Shutdown))
      BY <1>0, <2>1 DEF ReleaseRuntime, ShutdownRuntime
    <3>. QED  BY <3>1 DEF InMoves, OutMoves
  <2>. QED  BY Zenon, <1>6, <1>a, <2>1 DEF CallerStep, Accept, AcceptRequest, Cancel,
            SpawnOnRequest, StartChild, processVars
<1>7. CASE UNCHANGED allVars
  BY <1>7, <1>a DEF allVars, processVars
<1>. QED  BY Zenon, <1>1, <1>2, <1>3, <1>4, <1>5, <1>6, <1>7 DEF ControlPlaneNext

(* A request to exit is not taken back.                                    *)
LEMMA ExitStaysAsked ==
  ASSUME ControlPlaneIInv, [ControlPlaneNext]_allVars, NEW x \in Runtime,
         Alive(x), Alive(x)', AsksToExit(x)
  PROVE  AsksToExit(x)'
<1>0. stdin[x] \in Line /\ stdin'[x] \in Line
  BY ControlPlaneStep DEF ControlPlaneIInv, ProcessesTyped
<1>1. PICK i \in DOMAIN stdin[x] : stdin[x][i] = Shutdown
  BY DEF AsksToExit
<1>2. CASE stdin'[x] = stdin[x]
  BY <1>1, <1>2 DEF AsksToExit
<1>3. ASSUME NEW e, stdin'[x] = Append(stdin[x], e)
      PROVE  AsksToExit(x)'
  <2>1. i \in DOMAIN stdin'[x] /\ stdin'[x][i] = Shutdown
    BY <1>0, <1>1, <1>3 DEF Line
  <2>. QED  BY <2>1 DEF AsksToExit
<1>4. ASSUME stdin[x] # <<>>, Head(stdin[x]) # Shutdown, stdin'[x] = Tail(stdin[x])
      PROVE  AsksToExit(x)'
  <2>1. i \in 1..Len(stdin[x]) /\ i # 1
    BY <1>0, <1>1, <1>4 DEF Line
  <2>2. i - 1 \in DOMAIN stdin'[x] /\ stdin'[x][i - 1] = Shutdown
    BY <1>0, <1>1, <1>4, <2>1 DEF Line
  <2>. QED  BY <2>2 DEF AsksToExit
<1>. QED  BY <1>2, <1>3, <1>4, PipesMove DEF InMoves

(* An answer waits until it is read, and then the task has succeeded.      *)
LEMMA AnswerStays ==
  ASSUME ControlPlaneIInv, [ControlPlaneNext]_allVars, NEW x \in Runtime, NEW t \in Task,
         Alive(x), Alive(x)', Answered(t, x)
  PROVE  Answered(t, x)' \/ tasks'[t].state = "succeeded"
<1>0. /\ stdout[x] \in Seq(Envelope) /\ tasks \in [Task -> TaskRecord]
      /\ tasks[t] \in TaskRecord
  BY DEF ControlPlaneIInv, ProcessesTyped, TypeOK
<1>1. PICK i \in DOMAIN stdout[x] :
        /\ stdout[x][i].action = "task_completed" /\ stdout[x][i].task = t
        /\ stdout[x][i].success
  BY DEF Answered
<1>2. CASE stdout'[x] = stdout[x]
  BY <1>1, <1>2 DEF Answered
<1>3. ASSUME NEW e, stdout'[x] = Append(stdout[x], e)
      PROVE  Answered(t, x)'
  <2>1. i \in DOMAIN stdout'[x] /\ stdout'[x][i] = stdout[x][i]
    BY <1>0, <1>1, <1>3
  <2>. QED  BY <1>1, <2>1 DEF Answered
<1>4. ASSUME HandleReady(x) \/ HandleHealth(x) \/ HandleCompletion(x),
             stdout'[x] = Tail(stdout[x])
      PROVE  Answered(t, x)' \/ tasks'[t].state = "succeeded"
  <2>1. CASE i = 1
    <3>1. Head(stdout[x]) = stdout[x][1]
      BY <1>0, <1>1, <2>1
    <3>2. RecordSuccess(t, x)
      BY <1>1, <1>4, <2>1, <3>1 DEF HandleReady, HandleHealth, HandleCompletion, Receive
    <3>. QED  BY <1>0, <3>2 DEF RecordSuccess, TaskRecord
  <2>2. CASE i # 1
    <3>1. i - 1 \in DOMAIN stdout'[x] /\ stdout'[x][i - 1] = stdout[x][i]
      BY <1>0, <1>1, <1>4, <2>2
    <3>. QED  BY <1>1, <3>1 DEF Answered
  <2>. QED  BY <2>1, <2>2
<1>. QED  BY <1>2, <1>3, <1>4, PipesMove DEF OutMoves

LEMMA SucceededStays ==
  ASSUME ControlPlaneIInv, [ControlPlaneNext]_allVars, NEW t \in Task, SucceededFits(t),
         tasks[t].state = "succeeded"
  PROVE  tasks'[t].state = "succeeded"
<1>0. /\ TypeOK /\ tasks[t] \in TaskRecord
      /\ handlers[t].pc = "done" /\ tasks[t].state \in Terminal
      /\ \A r \in Runtime : ~MentionedAt(t, r)
  BY DEF ControlPlaneIInv, TypeOK, SucceededFits, HandlerFits, Terminal
<1>1. ASSUME NEW u \in Task, Accept(u) \/ Assign(u)
      PROVE  tasks'[t] = tasks[t]
  <2>1. t # u
    BY <1>0, <1>1 DEF Accept, AcceptRequest, Assign
  <2>. QED  BY <1>0, <1>1, <2>1, OtherTask
<1>2. ASSUME NEW u \in Task, u # t, NEW s, tasks' = [tasks EXCEPT ![u].state = s]
      PROVE  tasks'[t] = tasks[t]
  BY <1>0, <1>2 DEF TypeOK
<1>3. ASSUME NEW r \in Runtime, HandleCompletion(r)
      PROVE  tasks'[t] = tasks[t]
  <2>. DEFINE u == Head(stdout[r]).task
  <2>1. u \in Task /\ u # t
    BY <1>0, <1>3, AnsweredTask DEF HandleCompletion
  <2>2. \E s : tasks' = [tasks EXCEPT ![u].state = s]
    BY Zenon, <1>3 DEF HandleCompletion, RecordSuccess, RecordFailure
  <2>. HIDE DEF u
  <2>. QED  BY <1>2, <2>1, <2>2
<1>4. ASSUME NEW r \in Runtime, MarkRuntimeCrashed(r)
      PROVE  tasks'[t] = tasks[t]
  BY <1>0, <1>4 DEF MarkRuntimeCrashed
<1>. QED  BY <1>0, <1>1, <1>2, <1>3, <1>4, TasksChange

-----------------------------------------------------------------------------
(***************************************************************************)
(* The sessions keep to what the control plane allows its callers.         *)
(***************************************************************************)

(* A session, listed or not, is on the runtime its acquire was sent to.    *)
LEMMA AcquiredRuntime ==
  ASSUME SessionsIInv, NEW s \in Task, Acquired(s)
  PROVE  /\ sessions[s].runtime = handlers[s].runtime /\ handlers[s].runtime \in Runtime
         /\ handlers[s].pc = "done" /\ procs[handlers[s].runtime].state # "none"
BY DEF SessionsIInv, Acquired, SentFits, ControlPlaneIInv, HandlerFits

LEMMA WaitedRefreshes ==
  ASSUME NEW t \in Task, NEW op, NEW pc, Waited(t, op, pc)
  PROVE  RefreshCooldowns /\ UNCHANGED processVars
BY DEF Waited

LEMMA StepBelow ==
  ASSUME SessionsIInv, [SessionsNext]_everything
  PROVE  [ControlPlaneNext]_allVars
<1>. USE DEF ControlPlaneNext
<1>1. ASSUME NEW t \in Task, Acquire(t)
      PROVE  ControlPlaneNext
  <2>1. AcceptRequest(t, AcquireRequest, TRUE) /\ AcquireRequest \in Request
    BY <1>1, SessionAssumption DEF Acquire
  <2>. QED  BY Zenon, <2>1 DEF CallerStep, Accept
<1>2. ASSUME NEW t \in Task, CallStep(t)
      PROVE  [ControlPlaneNext]_allVars
  <2>. DEFINE s == calls[t].session
  <2>0. CallFits(t)
    BY DEF SessionsIInv, CallsIInv
  <2>1. CASE AcquireReturns(t) \/ StepReturns(t) \/ CloseReturns(t) \/ Refused(t)
    <3>1. RefreshCooldowns /\ UNCHANGED processVars
      BY Zenon, <2>1, WaitedRefreshes DEF AcquireReturns, StepReturns, CloseReturns, Refused
    <3>. QED  BY <3>1 DEF CallerStep
  <2>2. CASE Submit(t)
    <3>1. s \in Task /\ Acquired(s)
      BY <2>0, <2>2 DEF Submit, CallFits, SessionsIInv, CallsIInv, SessionsTypeOK, CallRecord
    <3>2. OnSession(s) \in Request
      BY <3>1, AcquiredRuntime, SessionAssumption DEF OnSession
    <3>3. AcceptRequest(t, OnSession(s), TRUE)
      BY <2>2 DEF Submit
    <3>. HIDE DEF s
    <3>. QED  BY Zenon, <3>2, <3>3 DEF CallerStep, Accept
  <2>3. CASE Stop(t)
    <3>1. s \in Task /\ Acquired(s)
      BY <2>0, <2>3 DEF Stop, CallFits
    <3>2. /\ ShutdownRuntime(handlers[s].runtime) \/ UNCHANGED allVars
          /\ handlers[s].pc = "done" /\ handlers[s].session /\ tasks[s].state = "succeeded"
      BY <2>3, <3>1, AcquiredRuntime DEF Stop, Acquired
    <3>3. ShutdownRuntime(handlers[s].runtime) => ReleaseRuntime(s)
      BY <3>2, SessionAssumption DEF ReleaseRuntime, May
    <3>. HIDE DEF s
    <3>. QED  BY Zenon, <3>1, <3>2, <3>3 DEF CallerStep
  <2>4. CASE Delete(t)
    BY <2>4 DEF Delete
  <2>. QED  BY <1>2, <2>1, <2>2, <2>3, <2>4 DEF CallStep
<1>3. ASSUME NEW r \in Runtime, PageStep(r)
      PROVE  ControlPlaneNext
  <2>1. \E success \in BOOLEAN : ProcAnswers(r, success)
    BY Zenon, <1>3 DEF PageStep, OpenPage, UsePage, ClosePage
  <2>. QED  BY Zenon, <2>1 DEF ProcessStep, ServeStep, ProcComplete
<1>4. CASE BelowStep
  BY Zenon, <1>4 DEF BelowStep, CallerStep, TimeStep, ProcessStep, ServeStep
<1>5. ASSUME NEW t \in Task, Find(t)
      PROVE  UNCHANGED allVars
  BY <1>5 DEF Find
<1>6. UNCHANGED everything => UNCHANGED allVars
  BY DEF everything
<1>. QED  BY Zenon, <1>1, <1>2, <1>3, <1>4, <1>5, <1>6 DEF SessionsNext

-----------------------------------------------------------------------------
(***************************************************************************)
(* Calls and sessions, step by step.                                       *)
(***************************************************************************)

(* A call and its handler are moved by their own steps only.               *)
LEMMA CallMoves ==
  ASSUME SessionsIInv, [SessionsNext]_everything, NEW t \in Task
  PROVE  \/ UNCHANGED calls \/ calls'[t] = calls[t]
         \/ Acquire(t) \/ Find(t) \/ CallStep(t)
<1>0. calls \in [Task -> CallRecord]
  BY DEF SessionsIInv, CallsIInv, SessionsTypeOK
<1>1. ASSUME NEW u \in Task, Acquire(u) \/ Find(u) \/ CallStep(u), u # t
      PROVE  calls'[t] = calls[t]
  <2>1. \E c : calls' = [calls EXCEPT ![u] = c]
    <3>1. CASE Find(u)
      BY Zenon, <3>1 DEF Find
    <3>2. CASE ~Find(u)
      BY Zenon, <1>1, <3>2 DEF Acquire, CallStep, AcquireReturns, Waited, Submit, Refused,
         StepReturns, CloseReturns, Stop, Delete
    <3>. QED  BY <3>1, <3>2
  <2>. QED  BY <1>0, <1>1, <2>1
<1>2. ASSUME NEW r \in Runtime, PageStep(r)
      PROVE  UNCHANGED calls
  BY Zenon, <1>2 DEF PageStep, OpenPage, UsePage, ClosePage
<1>3. UNCHANGED sessionVars \/ UNCHANGED everything => UNCHANGED calls
  BY DEF sessionVars, everything
<1>. QED  BY Zenon, <1>1, <1>2, <1>3 DEF SessionsNext

LEMMA HandlerOfCall ==
  ASSUME SessionsIInv, [SessionsNext]_everything, NEW t \in Task
  PROVE  \/ handlers'[t] = handlers[t]
         \/ Acquire(t) \/ Submit(t)
         \/ HandlerStep(t) /\ UNCHANGED sessionVars
<1>0. handlers \in [Task -> HandlerRecord]
  BY DEF SessionsIInv, ControlPlaneIInv, ProcessesTyped
<1>1. ASSUME NEW u \in Task, Acquire(u) \/ Submit(u) \/ HandlerStep(u), u # t
      PROVE  handlers'[t] = handlers[t]
  <2>1. \E h : handlers' = [handlers EXCEPT ![u] = h]
    BY Zenon, <1>1 DEF Acquire, Submit, AcceptRequest, HandlerStep, Spawn, Assign,
       SpawnFailed, Dispatch, Undelivered
  <2>. QED  BY <1>0, <1>1, <2>1
<1>2. ASSUME NEW u \in Task, CallStep(u)
      PROVE  UNCHANGED handlers \/ Submit(u)
  <2>1. CASE AcquireReturns(u) \/ StepReturns(u) \/ CloseReturns(u) \/ Refused(u)
    <3>1. UNCHANGED processVars
      BY Zenon, <2>1, WaitedRefreshes DEF AcquireReturns, StepReturns, CloseReturns, Refused
    <3>. QED  BY <3>1 DEF processVars
  <2>2. CASE Stop(u) \/ Delete(u)
    BY <2>2 DEF Stop, Delete, ShutdownRuntime, allVars, processVars
  <2>. QED  BY <1>2, <2>1, <2>2 DEF CallStep
<1>3. ASSUME NEW r \in Runtime, PageStep(r)
      PROVE  UNCHANGED handlers
  BY Zenon, <1>3 DEF PageStep, OpenPage, UsePage, ClosePage, ProcAnswers
<1>4. ASSUME BelowStep, UNCHANGED sessionVars
      PROVE  UNCHANGED handlers \/ \E u \in Task : HandlerStep(u) /\ UNCHANGED sessionVars
  <2>1. UNCHANGED processVars => UNCHANGED handlers
    BY DEF processVars
  <2>. QED  BY Zenon, <1>4, <2>1 DEF BelowStep, Cancel, SpawnerStep, SpawnReady,
            SpawnExited, ReaderStep, HandleReady, NoteReady, HandleHealth,
            HandleCompletion, NoteCompletion, WaiterStep, WaitReturns, Delist,
            SpawnTimeout, ProcReady, ProcRead, ProcHeartbeat, ProcCrash
<1>5. ASSUME NEW u \in Task, Find(u)
      PROVE  UNCHANGED handlers
  BY <1>5 DEF Find, allVars, processVars
<1>6. UNCHANGED everything => UNCHANGED handlers
  BY DEF everything, allVars, processVars
<1>. QED  BY Zenon, <1>1, <1>2, <1>3, <1>4, <1>5, <1>6 DEF SessionsNext

(* The goroutine of a task that is neither new nor done keeps its kind.    *)
LEMMA HandlerWorks ==
  ASSUME ControlPlaneIInv, NEW t \in Task, HandlerStep(t)
  PROVE  /\ handlers[t].pc \notin {"idle", "done"}
         /\ handlers'[t].session = handlers[t].session
<1>0. handlers \in [Task -> HandlerRecord] /\ handlers[t] \in HandlerRecord
  BY DEF ControlPlaneIInv, ProcessesTyped
<1>1. handlers[t].pc \notin {"idle", "done"}
  BY DEF HandlerStep, Spawn, Assign, SpawnFailed, Dispatch, Undelivered
<1>2. \/ \E r, pc : handlers' = [handlers EXCEPT ![t].pc = pc, ![t].runtime = r]
      \/ \E pc : handlers' = [handlers EXCEPT ![t].pc = pc]
      \/ \E sent, pc : handlers' = [handlers EXCEPT ![t].pc = pc, ![t].sent = sent]
  BY Zenon DEF HandlerStep, Spawn, Assign, SpawnFailed, Dispatch, Undelivered
<1>3. \A pc, x : LET h == handlers[t]
                 IN  /\ [h EXCEPT !.pc = pc].session = h.session
                     /\ [h EXCEPT !.pc = pc, !.runtime = x].session = h.session
                     /\ [h EXCEPT !.pc = pc, !.sent = x].session = h.session
  BY <1>0 DEF HandlerRecord
<1>4. \/ \E r, pc : handlers'[t] = [handlers[t] EXCEPT !.pc = pc, !.runtime = r]
      \/ \E pc : handlers'[t] = [handlers[t] EXCEPT !.pc = pc]
      \/ \E sent, pc : handlers'[t] = [handlers[t] EXCEPT !.pc = pc, !.sent = sent]
  BY <1>0, <1>2
<1>5. handlers'[t].session = handlers[t].session
  <2>1. ASSUME NEW r, NEW pc, handlers'[t] = [handlers[t] EXCEPT !.pc = pc, !.runtime = r]
        PROVE  handlers'[t].session = handlers[t].session
    BY <1>3, <2>1
  <2>2. ASSUME NEW pc, handlers'[t] = [handlers[t] EXCEPT !.pc = pc]
        PROVE  handlers'[t].session = handlers[t].session
    BY <1>3, <2>2
  <2>3. ASSUME NEW b, NEW pc, handlers'[t] = [handlers[t] EXCEPT !.pc = pc, !.sent = b]
        PROVE  handlers'[t].session = handlers[t].session
    BY <1>3, <2>3
  <2>. QED  BY Zenon, <1>4, <2>1, <2>2, <2>3
<1>. QED  BY <1>1, <1>5

LEMMA SessionMoves ==
  ASSUME SessionsIInv, [SessionsNext]_everything, NEW s \in Task
  PROVE  \/ sessions'[s] = sessions[s]
         \/ AcquireReturns(s)
         \/ \E t \in Task : /\ Delete(t) /\ calls[t].session = s
                            /\ sessions'[s].listed = FALSE
                            /\ sessions'[s].runtime = sessions[s].runtime
<1>0. /\ sessions \in [Task -> SessionRecord] /\ sessions[s] \in SessionRecord
  BY DEF SessionsIInv, CallsIInv, SessionsTypeOK
<1>1. ASSUME NEW t \in Task, AcquireReturns(t), t # s
      PROVE  sessions'[s] = sessions[s]
  BY <1>0, <1>1 DEF AcquireReturns
<1>2. ASSUME NEW t \in Task, Delete(t)
      PROVE  \/ sessions'[s] = sessions[s]
             \/ /\ calls[t].session = s /\ sessions'[s].listed = FALSE
                /\ sessions'[s].runtime = sessions[s].runtime
  BY <1>0, <1>2 DEF Delete, SessionRecord
<1>3. ASSUME NEW t \in Task, CallStep(t)
      PROVE  UNCHANGED sessions \/ AcquireReturns(t) \/ Delete(t)
  BY Zenon, <1>3 DEF CallStep, Submit, Refused, StepReturns, CloseReturns, Stop
<1>4. ASSUME NEW t \in Task, Acquire(t) \/ Find(t)
      PROVE  UNCHANGED sessions
  BY <1>4 DEF Acquire, Find
<1>5. ASSUME NEW r \in Runtime, PageStep(r)
      PROVE  UNCHANGED sessions
  BY Zenon, <1>5 DEF PageStep, OpenPage, UsePage, ClosePage
<1>6. UNCHANGED sessionVars \/ UNCHANGED everything => UNCHANGED sessions
  BY DEF sessionVars, everything
<1>. QED  BY Zenon, <1>1, <1>2, <1>3, <1>4, <1>5, <1>6 DEF SessionsNext

(* Whatever follows, an acquired session stays what it is.                 *)
LEMMA AcquiredStays ==
  ASSUME SessionsIInv, [SessionsNext]_everything, NEW s \in Task, Acquired(s)
  PROVE  Acquired(s)' /\ sessions'[s].runtime = sessions[s].runtime
<1>0. /\ ControlPlaneIInv /\ [ControlPlaneNext]_allVars
      /\ SucceededFits(s) /\ CallFits(s)
  BY StepBelow DEF SessionsIInv, CallsIInv
<1>1. handlers'[s] = handlers[s] /\ tasks'[s].runtime = tasks[s].runtime
  BY <1>0, SentStays DEF Acquired
<1>2. tasks'[s].state = "succeeded"
  BY <1>0, SucceededStays DEF Acquired
<1>3. ~Acquire(s) /\ ~Find(s) /\ ~CallStep(s)
  BY DEF Acquired, Acquire, Find, Fresh, CallStep, AcquireReturns, Submit, Refused,
     StepReturns, CloseReturns, Stop, Delete, Waited
<1>4. calls'[s] = calls[s]
  BY <1>3, CallMoves
<1>5. sessions'[s].runtime = sessions[s].runtime
  BY Zenon, <1>3, SessionMoves DEF CallStep
<1>. QED  BY <1>1, <1>2, <1>4, <1>5 DEF Acquired

LEMMA GoneStays ==
  ASSUME ControlPlaneIInv, [ControlPlaneNext]_allVars, NEW r \in Runtime, Gone(r)
  PROVE  Gone(r)'
<1>1. CASE procs[r].state \in {"exited", "crashed"}
  <2>1. procs'[r].state \in {"exited", "crashed"}
    BY <1>1, ProcessMovesOn DEF Alive
  <2>. QED  BY <2>1 DEF Gone
<1>2. CASE AsksToExit(r)
  <2>1. Alive(r)
    <3>1. DOMAIN stdin[r] # {}
      BY <1>2 DEF AsksToExit
    <3>2. ChildFits(r)
      BY DEF ControlPlaneIInv
    <3>3. DOMAIN <<>> = {}
      OBVIOUS
    <3>. QED  BY <3>1, <3>2, <3>3 DEF ChildFits
  <2>2. Alive(r)' \/ procs'[r].state \in {"exited", "crashed"}
    <3>1. procs'[r].state \in {"none", "booting", "serving", "executing", "exited", "crashed"}
      BY ControlPlaneStep DEF ControlPlaneIInv, ProcessesTyped, ProcRecord
    <3>. QED  BY <2>1, <3>1, ProcessMovesOn DEF Alive
  <2>. QED  BY <1>2, <2>1, <2>2, ExitStaysAsked DEF Gone
<1>. QED  BY <1>1, <1>2 DEF Gone

LEMMA SessionsTyped ==
  ASSUME SessionsIInv, [SessionsNext]_everything
  PROVE  SessionsTypeOK'
<1>0. /\ calls \in [Task -> CallRecord] /\ sessions \in [Task -> SessionRecord]
      /\ pages \in [Runtime -> SUBSET Task]
      /\ tasks \in [Task -> TaskRecord]
  BY DEF SessionsIInv, CallsIInv, SessionsTypeOK, ControlPlaneIInv, TypeOK
<1>1. ASSUME NEW op \in {"acquire", "step", "release"},
             NEW pc \in {"found", "waiting", "stopping", "deleting", "done"},
             NEW s \in Task
      PROVE  /\ Call(op, pc, s) \in CallRecord
             /\ \A c \in CallRecord : /\ [c EXCEPT !.pc = pc] \in CallRecord
                                      /\ \A b \in BOOLEAN :
                                           [c EXCEPT !.pc = pc, !.late = b] \in CallRecord
  BY DEF Call, CallRecord
<1>2. calls' \in [Task -> CallRecord]
  <2>1. ASSUME NEW t \in Task, Acquire(t)
        PROVE  calls' \in [Task -> CallRecord]
    BY <1>0, <1>1, <2>1 DEF Acquire
  <2>2. ASSUME NEW t \in Task, Find(t)
        PROVE  calls' \in [Task -> CallRecord]
    <3>1. PICK s \in Task, op \in {"step", "release"} :
            calls' = [calls EXCEPT ![t] = Call(op, "found", s)]
      BY <2>2 DEF Find
    <3>. QED  BY <1>0, <1>1, <3>1
  <2>3. ASSUME NEW t \in Task, CallStep(t)
        PROVE  calls' \in [Task -> CallRecord]
    <3>1. ASSUME NEW op \in {"acquire", "step", "release"}, NEW pc \in {"stopping", "done"},
                 Waited(t, op, pc)
          PROVE  calls' \in [Task -> CallRecord]
      <4>1. PICK b \in BOOLEAN : calls' = [calls EXCEPT ![t].pc = pc, ![t].late = b]
        <5>1. (op = "acquire" /\ Pending(t)) \in BOOLEAN
          OBVIOUS
        <5>. QED  BY Zenon, <3>1, <5>1 DEF Waited
      <4>. QED  BY <1>0, <1>1, <4>1
    <3>2. CASE AcquireReturns(t) \/ StepReturns(t) \/ CloseReturns(t)
      BY <3>1, <3>2 DEF AcquireReturns, StepReturns, CloseReturns
    <3>3. CASE Submit(t) \/ Refused(t) \/ Stop(t) \/ Delete(t)
      <4>1. PICK pc \in {"waiting", "stopping", "deleting", "done"} :
              calls' = [calls EXCEPT ![t].pc = pc]
        BY Zenon, <3>3 DEF Submit, Refused, Stop, Delete
      <4>. QED  BY <1>0, <1>1, <4>1
    <3>. QED  BY <2>3, <3>2, <3>3 DEF CallStep
  <2>4. CASE UNCHANGED calls
    BY <1>0, <2>4
  <2>5. ASSUME NEW r \in Runtime, PageStep(r)
        PROVE  UNCHANGED calls
    BY Zenon, <2>5 DEF PageStep, OpenPage, UsePage, ClosePage
  <2>6. UNCHANGED sessionVars \/ UNCHANGED everything => UNCHANGED calls
    BY DEF sessionVars, everything
  <2>. QED  BY Zenon, <2>1, <2>2, <2>3, <2>4, <2>5, <2>6 DEF SessionsNext
<1>3. sessions' \in [Task -> SessionRecord]
  <2>1. ASSUME NEW t \in Task, AcquireReturns(t)
        PROVE  sessions' \in [Task -> SessionRecord]
    <3>1. [listed |-> TRUE, runtime |-> tasks[t].runtime] \in SessionRecord
      BY <1>0 DEF TaskRecord, SessionRecord
    <3>. QED  BY <1>0, <2>1, <3>1 DEF AcquireReturns
  <2>2. ASSUME NEW t \in Task, Delete(t)
        PROVE  sessions' \in [Task -> SessionRecord]
    <3>1. \A x \in SessionRecord : [x EXCEPT !.listed = FALSE] \in SessionRecord
      BY DEF SessionRecord
    <3>. QED  BY <1>0, <2>2, <3>1 DEF Delete
  <2>3. ASSUME NEW t \in Task, CallStep(t)
        PROVE  UNCHANGED sessions \/ AcquireReturns(t) \/ Delete(t)
    BY Zenon, <2>3 DEF CallStep, Submit, Refused, StepReturns, CloseReturns, Stop
  <2>4. ASSUME NEW t \in Task, Acquire(t) \/ Find(t)
        PROVE  UNCHANGED sessions
    BY <2>4 DEF Acquire, Find
  <2>5. ASSUME NEW r \in Runtime, PageStep(r)
        PROVE  UNCHANGED sessions
    BY Zenon, <2>5 DEF PageStep, OpenPage, UsePage, ClosePage
  <2>6. UNCHANGED sessionVars \/ UNCHANGED everything => UNCHANGED sessions
    BY DEF sessionVars, everything
  <2>. QED  BY Zenon, <1>0, <2>1, <2>2, <2>3, <2>4, <2>5, <2>6 DEF SessionsNext
<1>4. pages' \in [Runtime -> SUBSET Task]
  <2>1. ASSUME NEW r \in Runtime, PageStep(r)
        PROVE  pages' \in [Runtime -> SUBSET Task]
    <3>1. procs[r].task \in Task
      BY <2>1 DEF PageStep, OpenPage, UsePage, ClosePage, Serves, SessionsIInv,
         ControlPlaneIInv, ChildFits
    <3>2. \E kept \in SUBSET Task : pages' = [pages EXCEPT ![r] = kept]
      <4>1. CASE OpenPage(r)
        <5>1. PICK kept \in SUBSET pages[r] :
                pages' \in { [pages EXCEPT ![r] = kept \union {procs[r].task}],
                             [pages EXCEPT ![r] = kept] }
          BY <4>1 DEF OpenPage
        <5>. QED  BY <1>0, <3>1, <5>1
      <4>2. CASE UsePage(r)
        BY <1>0, <4>2 DEF UsePage
      <4>3. CASE ClosePage(r)
        <5>1. pages[r] \ {calls[procs[r].task].session} \in SUBSET Task
          BY <1>0
        <5>. QED  BY <4>3, <5>1 DEF ClosePage
      <4>. QED  BY <2>1, <4>1, <4>2, <4>3 DEF PageStep
    <3>. QED  BY <1>0, <3>2
  <2>2. ASSUME NEW t \in Task, CallStep(t) \/ Acquire(t) \/ Find(t)
        PROVE  UNCHANGED pages
    BY Zenon, <2>2 DEF CallStep, AcquireReturns, Submit, Refused, StepReturns, CloseReturns,
       Stop, Delete, Acquire, Find
  <2>3. UNCHANGED sessionVars \/ UNCHANGED everything => UNCHANGED pages
    BY DEF sessionVars, everything
  <2>. QED  BY Zenon, <1>0, <2>1, <2>2, <2>3 DEF SessionsNext
<1>. QED  BY <1>2, <1>3, <1>4 DEF SessionsTypeOK

(* The table lists what was acquired.                                      *)
LEMMA ListedStep ==
  ASSUME SessionsIInv, [SessionsNext]_everything, NEW s \in Task, sessions'[s].listed
  PROVE  Acquired(s)'
<1>0. /\ sessions \in [Task -> SessionRecord] /\ calls \in [Task -> CallRecord]
      /\ calls[s] \in CallRecord
      /\ tasks \in [Task -> TaskRecord] /\ CallFits(s)
      /\ sessions[s].listed => Acquired(s)
  BY DEF SessionsIInv, CallsIInv, SessionsTypeOK, ControlPlaneIInv, TypeOK
<1>1. CASE sessions'[s] = sessions[s]
  BY <1>0, <1>1, AcquiredStays
<1>2. CASE AcquireReturns(s) /\ sessions'[s] # sessions[s]
  <2>1. /\ Succeeded(s) /\ calls[s].op = "acquire"
        /\ sessions' = [sessions EXCEPT ![s] = [listed |-> TRUE, runtime |-> tasks[s].runtime]]
    BY <1>2 DEF AcquireReturns, Waited
  <2>2. calls'[s].op = "acquire" /\ calls'[s].pc = "done"
    BY <1>0, <1>2 DEF AcquireReturns, Waited, CallRecord
  <2>3. UNCHANGED <<handlers, tasks>>
    BY <1>2 DEF AcquireReturns, Waited, RefreshCooldowns, processVars
  <2>4. handlers[s].sent /\ tasks[s].state = "succeeded" /\ handlers[s].session
    BY <1>0, <2>1 DEF Succeeded, CallFits, SessionsIInv, ControlPlaneIInv, HandlerFits
  <2>. QED  BY <1>0, <2>1, <2>2, <2>3, <2>4 DEF Acquired
<1>. QED  BY Zenon, <1>1, <1>2, SessionMoves

(* The process of a released session was asked to exit, or has ended.      *)
LEMMA StopEnds ==
  ASSUME SessionsIInv, NEW t \in Task, Stop(t), NEW s \in Task, s = calls[t].session,
         Acquired(s), NEW r \in Runtime, r = sessions[s].runtime
  PROVE  Gone(r)'
<1>0. ChildFits(r) /\ stdin \in [Runtime -> Line] /\ procs[r].state # "none"
      /\ procs[r] \in ProcRecord
  BY AcquiredRuntime DEF SessionsIInv, ControlPlaneIInv, ProcessesTyped
<1>1. CASE ~Listed(r) /\ UNCHANGED allVars
  <2>1. procs'[r].state \in {"exited", "crashed"}
    BY <1>0, <1>1 DEF Listed, ChildFits, allVars, processVars
  <2>. QED  BY <2>1 DEF Gone
<1>2. CASE ShutdownRuntime(r)
  <2>1. CASE ~Alive(r)
    <3>1. procs'[r].state \in {"exited", "crashed"}
      BY <1>0, <1>2, <2>1 DEF ShutdownRuntime, Alive, ProcRecord
    <3>. QED  BY <3>1 DEF Gone
  <2>2. CASE AsksToExit(r)
    BY <1>2, <2>2 DEF ShutdownRuntime, AsksToExit, Gone
  <2>3. CASE Alive(r) /\ ~AsksToExit(r)
    <3>1. stdin'[r] = Append(stdin[r], Shutdown)
      BY <1>0, <1>2, <2>3 DEF ShutdownRuntime
    <3>2. \A in \in Line : /\ Len(in) + 1 \in DOMAIN Append(in, Shutdown)
                          /\ Append(in, Shutdown)[Len(in) + 1] = Shutdown
      BY DEF Line
    <3>3. stdin[r] \in Line
      BY <1>0
    <3>. QED  BY <3>1, <3>2, <3>3 DEF Gone, AsksToExit
  <2>. QED  BY <2>1, <2>2, <2>3
<1>. QED  BY <1>1, <1>2 DEF Stop

LEMMA CallFitsStep ==
  ASSUME SessionsIInv, [SessionsNext]_everything, NEW t \in Task
  PROVE  CallFits(t)'
<1>0. /\ calls \in [Task -> CallRecord] /\ calls[t] \in CallRecord
      /\ handlers \in [Task -> HandlerRecord] /\ tasks \in [Task -> TaskRecord]
      /\ CallFits(t) /\ ControlPlaneIInv /\ [ControlPlaneNext]_allVars
      /\ HandlerFits(t)
  BY StepBelow DEF SessionsIInv, CallsIInv, SessionsTypeOK, ControlPlaneIInv, TypeOK,
     ProcessesTyped
<1>1. ASSUME NEW s \in Task, Acquired(s)
      PROVE  /\ Acquired(s)' /\ sessions'[s].runtime = sessions[s].runtime
             /\ sessions[s].runtime \in Runtime
  BY <1>1, AcquiredStays, AcquiredRuntime
(* The handler: it starts with the call's submission.                      *)
<1>2. ASSUME ~Acquire(t), ~Submit(t)
      PROVE  /\ handlers[t].pc = "idle" => handlers'[t].pc = "idle"
             /\ handlers'[t].pc # "idle" => handlers'[t].session
             /\ handlers[t].pc = "done" =>
                  /\ handlers'[t].pc = "done"
                  /\ handlers'[t].sent => handlers[t].sent
  BY <1>0, <1>2, HandlerOfCall, HandlerWorks DEF CallFits
<1>3. CASE calls'[t] = calls[t]
  <2>1. ~Acquire(t) /\ ~Submit(t)
    <3>1. ASSUME Acquire(t)
          PROVE  FALSE
      BY <1>0, <1>3, <3>1 DEF Acquire, Fresh, Call
    <3>2. ASSUME Submit(t)
          PROVE  FALSE
      BY <1>0, <1>3, <3>2 DEF Submit, CallRecord
    <3>. QED  BY <3>1, <3>2
  <2>2. handlers[t].pc = "done" /\ tasks[t].state \in Terminal => tasks'[t].state \in Terminal
    BY <1>0, TerminalStays
  <2>3. ASSUME NEW s \in Task, s = calls[t].session, calls[t].op \in {"step", "release"}
        PROVE  /\ Acquired(s)'
               /\ calls[t].pc = "deleting" =>
                    \E r \in Runtime : Gone(r)' /\ sessions'[s].runtime = r
    <3>1. /\ Acquired(s)' /\ sessions'[s].runtime = sessions[s].runtime
          /\ sessions[s].runtime \in Runtime
      BY <1>0, <1>1, <2>3 DEF CallFits
    <3>2. ASSUME NEW r \in Runtime, r = sessions[s].runtime, calls[t].pc = "deleting"
          PROVE  Gone(r)'
      BY <1>0, <2>3, <3>2, GoneStays DEF CallFits
    <3>. QED  BY <3>1, <3>2
  <2>4. ASSUME calls[t].op \notin {"step", "release"}
        PROVE  CallFits(t)'
    BY <1>0, <1>2, <1>3, <2>1, <2>2, <2>4 DEF CallFits
  <2>5. ASSUME NEW s \in Task, s = calls[t].session, calls[t].op \in {"step", "release"}
        PROVE  CallFits(t)'
    BY <1>0, <1>2, <1>3, <2>1, <2>3, <2>5 DEF CallFits, Acquired, Gone, AsksToExit
  <2>6. calls[t].op \in {"step", "release"} => calls[t].session \in Task
    BY <1>0 DEF CallFits
  <2>. QED  BY <2>4, <2>5, <2>6
(* The call's own steps.                                                   *)
<1>4. CASE Acquire(t)
  <2>1. /\ calls'[t] = Call("acquire", "waiting", t)
        /\ handlers'[t] = Answer(AcquireRequest, TRUE, tasks'[t])
    BY <1>0, <1>4 DEF Acquire, AcceptRequest
  <2>. QED  BY <2>1 DEF CallFits, Call, Answer
<1>5. CASE Find(t)
  <2>1. PICK s \in Task, op \in {"step", "release"} :
          sessions[s].listed /\ calls' = [calls EXCEPT ![t] = Call(op, "found", s)]
    BY <1>5 DEF Find
  <2>2. Acquired(s)'
    BY <1>1, <2>1 DEF SessionsIInv, CallsIInv
  <2>3. calls'[t] = Call(op, "found", s)
    BY <1>0, <2>1
  <2>4. UNCHANGED handlers /\ handlers[t].pc = "idle"
    BY <1>0, <1>5 DEF Find, Fresh, CallFits, allVars, processVars
  <2>. QED  BY <2>2, <2>3, <2>4 DEF CallFits, Call, Acquired
<1>6. ASSUME CallStep(t), NEW s \in Task, s = calls[t].session,
             calls[t].op \in {"step", "release"}
      PROVE  CallFits(t)'
  <2>1. PICK r \in Runtime : sessions[s].runtime = r
    BY <1>0, <1>1, <1>6 DEF CallFits
  <2>2. Acquired(s) /\ Acquired(s)' /\ sessions'[s].runtime = r
    BY <1>0, <1>1, <1>6, <2>1 DEF CallFits
  <2>3. PICK pc \in {"waiting", "stopping", "deleting", "done"} :
          /\ \/ calls' = [calls EXCEPT ![t].pc = pc]
             \/ calls' = [calls EXCEPT ![t].pc = pc, ![t].late = FALSE]
          /\ pc \in {"stopping", "deleting"} => calls[t].op = "release"
          /\ pc = "deleting" => Stop(t)
    <3>1. CASE StepReturns(t) \/ CloseReturns(t)
      BY <3>1 DEF StepReturns, CloseReturns, Waited
    <3>2. CASE Submit(t) \/ Refused(t)
      BY <3>2 DEF Submit, Refused
    <3>3. CASE Stop(t) \/ Delete(t)
      BY <1>0, <3>3 DEF Stop, Delete, CallFits
    <3>4. ~AcquireReturns(t)
      BY <1>6 DEF AcquireReturns, Waited
    <3>. QED  BY <1>6, <3>1, <3>2, <3>3, <3>4 DEF CallStep
  <2>4. /\ calls'[t].op = calls[t].op /\ calls'[t].session = s /\ calls'[t].pc = pc
        /\ ~calls'[t].late
    <3>1. ~calls[t].late
      BY <1>0, <1>6 DEF CallFits, CallStep, AcquireReturns, Submit, Refused, StepReturns,
         CloseReturns, Stop, Delete, Waited
    <3>. QED  BY <1>0, <1>6, <2>3, <3>1 DEF CallRecord
  <2>5. handlers'[t].pc # "idle" => handlers'[t].session
    <3>1. CASE Submit(t)
      <4>1. \E q : handlers'[t] = Answer(q, TRUE, tasks'[t])
        BY <1>0, <3>1 DEF Submit, AcceptRequest
      <4>. QED  BY <4>1 DEF Answer
    <3>2. ~Acquire(t)
      BY <1>6 DEF Acquire, Fresh
    <3>. QED  BY <1>2, <3>1, <3>2
  <2>6. pc = "deleting" => Gone(r)'
    BY <1>6, <2>1, <2>2, <2>3, StopEnds
  <2>7. pc \in {"stopping", "deleting"} => calls[t].op = "release"
    BY <2>3
  <2>8. Acquired(calls[t].session)' /\ (pc = "deleting" => Gone(sessions[s].runtime)')
    BY <1>6, <2>1, <2>2, <2>4, <2>6 DEF Acquired, Gone, AsksToExit
  <2>. QED  BY <1>6, <2>4, <2>5, <2>7, <2>8 DEF CallFits
<1>7. CASE CallStep(t) /\ calls[t].op \notin {"step", "release"}
  <2>1. AcquireReturns(t) /\ calls[t].op = "acquire" /\ calls[t].pc = "waiting"
    BY <1>0, <1>7 DEF CallFits, CallStep, AcquireReturns, Submit, Refused, StepReturns,
       CloseReturns, Stop, Delete, Waited, CallRecord
  <2>2. /\ calls'[t].op = "acquire" /\ calls'[t].pc = "done"
        /\ calls'[t].session = calls[t].session /\ (calls'[t].late <=> Pending(t))
    <3>1. PICK b \in BOOLEAN :
            calls' = [calls EXCEPT ![t].pc = "done", ![t].late = b] /\ (b <=> Pending(t))
      <4>1. ("acquire" = "acquire" /\ Pending(t)) \in BOOLEAN
        OBVIOUS
      <4>. QED  BY Zenon, <2>1, <4>1 DEF AcquireReturns, Waited
    <3>. QED  BY <1>0, <2>1, <3>1 DEF CallRecord
  <2>3. UNCHANGED <<handlers, tasks>>
    BY <2>1 DEF AcquireReturns, Waited, RefreshCooldowns, processVars
  <2>4. ~Pending(t) => /\ handlers[t].pc = "done"
                       /\ handlers[t].sent => tasks[t].state \in Terminal
    BY <1>0, <2>1 DEF AcquireReturns, Waited, Succeeded, Failed, Pending, HandlerFits, Terminal
  <2>. QED  BY <1>0, <2>1, <2>2, <2>3, <2>4 DEF CallFits
<1>8. CASE CallStep(t)
  <2>1. calls[t].op \in {"step", "release"} => calls[t].session \in Task
    BY <1>0 DEF CallFits
  <2>. QED  BY <1>6, <1>7, <1>8, <2>1
<1>. QED  BY <1>3, <1>4, <1>5, <1>8, CallMoves

-----------------------------------------------------------------------------
(***************************************************************************)
(* The sessions use the control plane as its callers may.                  *)
(***************************************************************************)
LEMMA SessionsBegin == SessionsInit => SessionsIInv /\ PagesIInv
<1>. SUFFICES ASSUME SessionsInit
              PROVE  SessionsIInv /\ PagesIInv
  OBVIOUS
<1>1. ControlPlaneIInv
  BY ControlPlaneBegins DEF SessionsInit
<1>2. ASSUME NEW t \in Task
      PROVE  /\ handlers[t].pc = "idle" /\ ~handlers[t].sent /\ tasks[t].state = "absent"
             /\ calls[t] = Call("none", "idle", NoTask)
             /\ sessions[t] = [listed |-> FALSE, runtime |-> NoRuntime]
  BY <1>1 DEF SessionsInit, ControlPlaneInit, ControlPlaneIInv, HandlerFits
<1>3. \A t \in Task : SentFits(t) /\ SucceededFits(t)
  BY <1>2 DEF SentFits, SucceededFits
<1>4. CallsIInv
  <2>1. SessionsTypeOK
    <3>1. Call("none", "idle", NoTask) \in CallRecord
      BY DEF Call, CallRecord
    <3>2. [listed |-> FALSE, runtime |-> NoRuntime] \in SessionRecord
      BY DEF SessionRecord
    <3>. QED  BY <3>1, <3>2 DEF SessionsInit, SessionsTypeOK
  <2>2. \A t \in Task : CallFits(t)
    BY <1>2 DEF CallFits, Call
  <2>. QED  BY <1>2, <2>1, <2>2 DEF CallsIInv
<1>5. PagesIInv
  BY <1>2 DEF SessionsInit, PagesIInv, PageFits, PinnedFits, CloseFits, Call
<1>. QED  BY <1>1, <1>3, <1>4, <1>5 DEF SessionsIInv

LEMMA SessionsStep ==
  ASSUME SessionsIInv, [SessionsNext]_everything
  PROVE  SessionsIInv'
<1>1. [ControlPlaneNext]_allVars /\ ControlPlaneIInv
  BY StepBelow DEF SessionsIInv
<1>2. ControlPlaneIInv'
  BY <1>1, ControlPlaneStep
<1>3. \A t \in Task : SentFits(t)' /\ SucceededFits(t)'
  BY <1>1, SentFitsStep, SucceededStep DEF SessionsIInv
<1>4. CallsIInv'
  BY SessionsTyped, CallFitsStep, ListedStep DEF CallsIInv
<1>. QED  BY <1>2, <1>3, <1>4 DEF SessionsIInv

LEMMA SessionsInvariant == SessionsSpec => []SessionsIInv
<1>1. SessionsInit => SessionsIInv
  BY SessionsBegin
<1>2. SessionsIInv /\ [SessionsNext]_everything => SessionsIInv'
  BY SessionsStep
<1>. QED  BY <1>1, <1>2, PTL DEF SessionsSpec

(* Whatever the sessions do, the task manager, the registries and the      *)
(* processes behave as the control plane does for any caller: no session   *)
(* asks for what a handler, a release or a process does not allow          *)
(* (AcquireSession, StepSession and ReleaseSession of browser.go).         *)
THEOREM KeepsToControlPlane == SessionsSpec => ControlPlaneSpec
<1>1. SessionsInit => ControlPlaneInit
  BY DEF SessionsInit
<1>2. SessionsIInv /\ [SessionsNext]_everything => [ControlPlaneNext]_allVars
  BY StepBelow
<1>. QED  BY <1>1, <1>2, SessionsInvariant, PTL DEF SessionsSpec, ControlPlaneSpec

-----------------------------------------------------------------------------
(***************************************************************************)
(* Pages have owners.  The hard step is an acquire that returns: the page  *)
(* is open, so the task must not have failed under it, which the lease     *)
(* excludes as long as the process lives and nobody cancels.               *)
(***************************************************************************)

(* An answer on its way to the control plane: the task still runs.         *)
LEMMA MentionedRuns ==
  ASSUME ControlPlaneIInv, LeaseFits, NEW t \in Task, NEW r \in Runtime,
         Alive(r), MentionedAt(t, r)
  PROVE  tasks[t].state = "running"
<1>1. runtimes[r].task = t /\ t # NoTask
  BY NullAssumption DEF LeaseFits, TaskIsLeased
<1>. QED  BY <1>1 DEF ControlPlaneIInv, LeaseCoherent

LEMMA PageMoves ==
  ASSUME SessionsIInv, [SessionsNext]_everything, NEW r \in Runtime, NEW s \in pages'[r]
  PROVE  \/ s \in pages[r]
         \/ /\ Serves(r, "acquire") /\ ProcAnswers(r, TRUE) /\ s = procs[r].task
            /\ UNCHANGED <<calls, sessions>>
<1>0. pages \in [Runtime -> SUBSET Task]
  BY DEF SessionsIInv, CallsIInv, SessionsTypeOK
<1>1. ASSUME NEW x \in Runtime, PageStep(x), s \notin pages[r]
      PROVE  /\ Serves(r, "acquire") /\ ProcAnswers(r, TRUE) /\ s = procs[r].task
             /\ UNCHANGED <<calls, sessions>>
  <2>1. CASE OpenPage(x)
    <3>1. PICK kept \in SUBSET pages[x] :
            \/ /\ ProcAnswers(x, TRUE)
               /\ pages' = [pages EXCEPT ![x] = kept \union {procs[x].task}]
            \/ pages' = [pages EXCEPT ![x] = kept]
      BY <2>1 DEF OpenPage
    <3>2. x = r /\ ProcAnswers(x, TRUE) /\ s = procs[x].task
      BY <1>0, <1>1, <3>1
    <3>. QED  BY <2>1, <3>2 DEF OpenPage
  <2>2. CASE UsePage(x)
    <3>1. PICK kept \in SUBSET pages[x] : pages' = [pages EXCEPT ![x] = kept]
      BY <2>2 DEF UsePage
    <3>. QED  BY <1>0, <1>1, <3>1
  <2>3. CASE ClosePage(x)
    <3>1. PICK c : pages' = [pages EXCEPT ![x] = @ \ {c}]
      BY <2>3 DEF ClosePage
    <3>. QED  BY <1>0, <1>1, <3>1
  <2>. QED  BY <1>1, <2>1, <2>2, <2>3 DEF PageStep
<1>2. ASSUME NEW t \in Task, CallStep(t) \/ Acquire(t) \/ Find(t)
      PROVE  UNCHANGED pages
  BY Zenon, <1>2 DEF CallStep, AcquireReturns, Submit, Refused, StepReturns, CloseReturns,
     Stop, Delete, Acquire, Find
<1>3. UNCHANGED sessionVars \/ UNCHANGED everything => UNCHANGED pages
  BY DEF sessionVars, everything
<1>4. UNCHANGED pages \/ \E x \in Runtime : PageStep(x)
  BY Zenon, <1>2, <1>3 DEF SessionsNext
<1>. QED  BY <1>1, <1>4

(* A new page: its acquire waits for the answer, or has returned already.  *)
LEMMA OpenedIsOwned ==
  ASSUME SessionsIInv, LeaseFits, NEW s \in Task, NEW r \in Runtime,
         Serves(r, "acquire"), ProcAnswers(r, TRUE), s = procs[r].task,
         UNCHANGED <<calls, sessions>>
  PROVE  PageOwned(s, r)'
<1>1. ControlPlaneIInv /\ CallFits(s) /\ calls[s].op = "acquire"
      /\ MentionFits(s, r) /\ stdout \in [Runtime -> Seq(Envelope)]
  BY DEF SessionsIInv, CallsIInv, Serves, ControlPlaneIInv, ProcessesTyped
<1>2. Alive(r) /\ MentionedAt(s, r)
  BY DEF ProcAnswers, Alive, MentionedAt, Mentioned
<1>3. handlers[s].sent /\ tasks[s].runtime = r /\ tasks[s].state = "running"
  BY <1>1, <1>2, MentionedRuns DEF MentionFits
<1>4. UNCHANGED <<handlers, tasks>>
  BY DEF ProcAnswers, vars
<1>5. Answered(s, r)'
  <2>. DEFINE e == [action |-> "task_completed", task |-> s, success |-> TRUE]
  <2>1. stdout'[r] = Append(stdout[r], e)
    BY <1>1 DEF ProcAnswers, Write
  <2>2. \A out \in Seq(Envelope) : /\ Len(out) + 1 \in DOMAIN Append(out, e)
                                   /\ Append(out, e)[Len(out) + 1] = e
    OBVIOUS
  <2>3. stdout[r] \in Seq(Envelope)
    BY <1>1
  <2>4. e.action = "task_completed" /\ e.task = s /\ e.success
    OBVIOUS
  <2>. HIDE DEF e
  <2>5. PICK i \in DOMAIN stdout'[r] : stdout'[r][i] = e
    BY <2>1, <2>2, <2>3
  <2>. QED  BY <2>4, <2>5 DEF Answered
<1>6. calls[s].pc = "waiting" \/ calls[s].late
  BY <1>1, <1>3 DEF CallFits, Terminal
<1>. QED  BY <1>1, <1>3, <1>4, <1>5, <1>6 DEF PageOwned, OpenedAt

(* An old one, at a process that goes on.                                  *)
LEMMA PageStaysOwned ==
  ASSUME SessionsIInv, LeaseFits, [SessionsNext]_everything,
         NEW s \in Task, NEW r \in Runtime, Alive(r), Alive(r)', PageOwned(s, r)
  PROVE  PageOwned(s, r)'
<1>0. /\ ControlPlaneIInv /\ [ControlPlaneNext]_allVars /\ CallFits(s) /\ SucceededFits(s)
      /\ calls \in [Task -> CallRecord] /\ sessions \in [Task -> SessionRecord]
      /\ calls[s] \in CallRecord /\ tasks[s] \in TaskRecord
      /\ sessions[s].listed => Acquired(s)
  BY StepBelow DEF SessionsIInv, CallsIInv, SessionsTypeOK, ControlPlaneIInv, TypeOK
<1>1. handlers'[s].sent /\ tasks'[s].runtime = r
  BY <1>0, SentStays DEF PageOwned, OpenedAt
<1>2. calls'[s] = calls[s] \/ AcquireReturns(s)
  <2>1. ~Acquire(s) /\ ~Find(s)
    BY DEF PageOwned, OpenedAt, Acquire, Find, Fresh
  <2>2. CallStep(s) => AcquireReturns(s)
    BY <1>0 DEF PageOwned, OpenedAt, CallFits, CallStep, AcquireReturns, Submit, Refused, StepReturns,
       CloseReturns, Stop, Delete, Waited
  <2>. QED  BY <2>1, <2>2, CallMoves
<1>3. AcquireReturns(s) => calls[s].pc = "waiting" /\ calls'[s].op = "acquire"
  BY <1>0 DEF AcquireReturns, Waited, CallRecord
<1>4. CASE AsksToExit(r)
  BY <1>0, <1>1, <1>2, <1>3, <1>4, ExitStaysAsked DEF PageOwned, OpenedAt
<1>5. CASE calls[s].late
  <2>1. calls'[s] = calls[s]
    BY <1>0, <1>2, <1>3, <1>5 DEF CallFits
  <2>. QED  BY <1>1, <1>5, <2>1 DEF PageOwned, OpenedAt
<1>6. CASE sessions[s].listed
  <2>1. Acquired(s) /\ sessions[s].runtime = r
    BY <1>0, <1>6 DEF Acquired, PageOwned, OpenedAt
  <2>2. calls'[s] = calls[s] /\ ~AcquireReturns(s)
    BY <1>2, <1>3, <2>1 DEF Acquired
  <2>3. ASSUME NEW t \in Task, Delete(t), calls[t].session = s
        PROVE  AsksToExit(r)
    <3>1. Gone(r)
      BY <2>1, <2>3 DEF Delete, SessionsIInv, CallsIInv, CallFits
    <3>. QED  BY <3>1 DEF Gone, Alive
  <2>4. sessions'[s] = sessions[s] \/ AsksToExit(r)
    BY <2>2, <2>3, SessionMoves
  <2>. QED  BY <1>1, <1>4, <1>6, <2>2, <2>4 DEF PageOwned, OpenedAt
<1>7. CASE calls[s].pc = "waiting" /\ (tasks[s].state = "succeeded" \/ Answered(s, r))
  <2>1. CASE calls'[s] = calls[s]
    <3>1. tasks'[s].state = "succeeded" \/ Answered(s, r)'
      BY <1>0, <1>7, SucceededStays, AnswerStays
    <3>. QED  BY <1>1, <1>7, <2>1, <3>1 DEF PageOwned, OpenedAt
  <2>2. CASE AcquireReturns(s)
    <3>1. Succeeded(s) \/ Failed(s) \/ Pending(s)
      BY <2>2 DEF AcquireReturns, Waited
    <3>2. ~Failed(s)
      <4>1. Answered(s, r) => MentionedAt(s, r)
        BY DEF Answered, MentionedAt, Mentioned
      <4>2. tasks[s].state \in {"succeeded", "running"}
        BY <1>0, <1>7, <4>1, MentionedRuns
      <4>. QED  BY <4>2 DEF Failed, PageOwned, OpenedAt
    <3>3. CASE Succeeded(s)
      <4>1. sessions'[s].listed
        BY <1>0, <2>2, <3>3 DEF AcquireReturns
      <4>. QED  BY <1>1, <1>3, <2>2, <4>1 DEF PageOwned, OpenedAt
    <3>4. CASE Pending(s)
      <4>1. calls' = [calls EXCEPT ![s].pc = "done", ![s].late = TRUE]
        <5>1. ("acquire" = "acquire" /\ Pending(s)) = TRUE
          BY <3>4 DEF Pending
        <5>. QED  BY Zenon, <2>2, <5>1 DEF AcquireReturns, Waited
      <4>2. calls'[s].late
        BY <1>0, <4>1 DEF CallRecord
      <4>. QED  BY <1>1, <1>3, <2>2, <4>2 DEF PageOwned, OpenedAt
    <3>. QED  BY <3>1, <3>2, <3>3, <3>4
  <2>. QED  BY <1>2, <2>1, <2>2
<1>. QED  BY <1>4, <1>5, <1>6, <1>7 DEF PageOwned, OpenedAt

(* A browser that stays open was opened where its task was sent.           *)
LEMMA OpenedStays ==
  ASSUME SessionsIInv, [SessionsNext]_everything, NEW s \in Task, NEW r \in Runtime,
         OpenedAt(s, r)
  PROVE  OpenedAt(s, r)'
<1>0. /\ ControlPlaneIInv /\ [ControlPlaneNext]_allVars /\ CallFits(s)
      /\ calls \in [Task -> CallRecord] /\ calls[s] \in CallRecord
  BY StepBelow DEF SessionsIInv, CallsIInv, SessionsTypeOK
<1>1. handlers'[s].sent /\ tasks'[s].runtime = r
  BY <1>0, SentStays DEF OpenedAt
<1>2. calls'[s] = calls[s] \/ AcquireReturns(s)
  <2>1. ~Acquire(s) /\ ~Find(s)
    BY DEF OpenedAt, Acquire, Find, Fresh
  <2>2. CallStep(s) => AcquireReturns(s)
    BY <1>0 DEF OpenedAt, CallFits, CallStep, AcquireReturns, Submit, Refused, StepReturns,
       CloseReturns, Stop, Delete, Waited
  <2>. QED  BY <2>1, <2>2, CallMoves
<1>3. calls'[s].op = "acquire"
  BY <1>0, <1>2 DEF OpenedAt, AcquireReturns, Waited, CallRecord
<1>. QED  BY <1>1, <1>3 DEF OpenedAt

(* A call keeps its kind and its session, once it has them.                *)
LEMMA CallKeeps ==
  ASSUME SessionsIInv, [SessionsNext]_everything, NEW t \in Task,
         calls'[t].op \in {"step", "release"}
  PROVE  \/ Find(t) /\ handlers[t].pc = "idle"
         \/ /\ calls[t].op = calls'[t].op /\ calls[t].session = calls'[t].session
            /\ calls[t].session \in Task /\ Acquired(calls[t].session)
<1>0. /\ calls \in [Task -> CallRecord] /\ calls[t] \in CallRecord /\ CallFits(t)
  BY DEF SessionsIInv, CallsIInv, SessionsTypeOK
<1>1. ~Acquire(t)
  <2>1. ASSUME Acquire(t)
        PROVE  calls'[t] = Call("acquire", "waiting", t)
    BY <1>0, <2>1 DEF Acquire
  <2>2. Call("acquire", "waiting", t).op = "acquire"
    BY DEF Call
  <2>. QED  BY <2>1, <2>2
<1>2. Find(t) => handlers[t].pc = "idle"
  BY <1>0 DEF Find, Fresh, CallFits
<1>3. ASSUME CallStep(t)
      PROVE  calls'[t].op = calls[t].op /\ calls'[t].session = calls[t].session
  <2>1. ASSUME NEW op, NEW pc, Waited(t, op, pc)
        PROVE  \E b : calls' = [calls EXCEPT ![t].pc = pc, ![t].late = b]
    BY Zenon, <2>1 DEF Waited
  <2>2. \/ \E pc : calls' = [calls EXCEPT ![t].pc = pc]
        \/ \E pc, b : calls' = [calls EXCEPT ![t].pc = pc, ![t].late = b]
    BY Zenon, <1>3, <2>1 DEF CallStep, AcquireReturns, Submit, Refused, StepReturns,
       CloseReturns, Stop, Delete
  <2>3. \A pc, b : LET c == calls[t]
                   IN  /\ [c EXCEPT !.pc = pc].op = c.op
                       /\ [c EXCEPT !.pc = pc].session = c.session
                       /\ [c EXCEPT !.pc = pc, !.late = b].op = c.op
                       /\ [c EXCEPT !.pc = pc, !.late = b].session = c.session
    BY <1>0 DEF CallRecord
  <2>4. ASSUME NEW pc, calls' = [calls EXCEPT ![t].pc = pc]
        PROVE  calls'[t].op = calls[t].op /\ calls'[t].session = calls[t].session
    <3>1. calls'[t] = [calls[t] EXCEPT !.pc = pc]
      BY <1>0, <2>4
    <3>. QED  BY <2>3, <3>1
  <2>5. ASSUME NEW pc, NEW b, calls' = [calls EXCEPT ![t].pc = pc, ![t].late = b]
        PROVE  calls'[t].op = calls[t].op /\ calls'[t].session = calls[t].session
    <3>1. t \in DOMAIN calls
      BY <1>0
    <3>2. calls'[t] = [calls[t] EXCEPT !.pc = pc, !.late = b]
      BY <2>5, <3>1
    <3>. QED  BY <2>3, <3>2
  <2>. QED  BY <2>2, <2>4, <2>5
<1>. QED  BY <1>0, <1>1, <1>2, <1>3, CallMoves DEF CallFits

LEMMA PinnedStep ==
  ASSUME SessionsIInv, [SessionsNext]_everything, NEW t \in Task, PinnedFits(t)
  PROVE  PinnedFits(t)'
<1>. SUFFICES ASSUME calls'[t].op \in {"step", "release"}
              PROVE  /\ handlers'[t].pc \notin {"spawn", "await"}
                     /\ tasks'[t].runtime \in
                          {NoRuntime, sessions'[calls'[t].session].runtime}
  BY DEF PinnedFits
<1>0. /\ ControlPlaneIInv /\ [ControlPlaneNext]_allVars
      /\ HandlerFits(t) /\ TypeOK
      /\ handlers \in [Task -> HandlerRecord] /\ handlers[t] \in HandlerRecord
  BY StepBelow DEF SessionsIInv, ControlPlaneIInv, ProcessesTyped
<1>1. CASE Find(t) /\ handlers[t].pc = "idle"
  <2>1. UNCHANGED <<handlers, tasks>>
    BY <1>1 DEF Find, allVars, processVars, vars
  <2>. QED  BY <1>0, <1>1, <2>1 DEF HandlerFits
<1>2. CASE /\ calls[t].op = calls'[t].op /\ calls[t].session = calls'[t].session
           /\ calls[t].session \in Task /\ Acquired(calls[t].session)
  <2>. DEFINE s == calls[t].session
              r == sessions[s].runtime
  <2>0. /\ s \in Task /\ r \in Runtime /\ sessions'[s].runtime = r
        /\ handlers[t].pc \notin {"spawn", "await"} /\ tasks[t].runtime \in {NoRuntime, r}
    BY <1>2, AcquiredStays, AcquiredRuntime DEF PinnedFits
  <2>1. CASE Submit(t)
    <3>1. SubmitTask(t, OnRuntime(r)) /\ handlers' =
            [handlers EXCEPT ![t] = Answer(OnRuntime(r), TRUE, tasks'[t])]
      BY <2>1 DEF Submit, AcceptRequest, OnSession
    <3>2. OnRuntime(r).mode = "direct" /\ OnRuntime(r).runtime = r
      BY SessionAssumption, RequestAssumption DEF OnRuntime, RequestType
    <3>3. \A p : Choice(OnRuntime(r), p) \subseteq {r}
      BY <2>0, <3>2, NullAssumption DEF Choice, PinnedChoice
    <3>4. tasks'[t].runtime \in {NoRuntime, r}
      <4>1. PICK p \in Selectable(OnRuntime(r)) :
              \/ tasks' = [tasks EXCEPT ![t] = [state |-> "allocating",
                   provider |-> p, runtime |-> NoRuntime, flow |-> FALSE]]
              \/ \E x \in Choice(OnRuntime(r), p) :
                   tasks' = [tasks EXCEPT ![t] = [state |-> "running",
                     provider |-> p, runtime |-> x, flow |-> FALSE]]
        BY <3>1 DEF SubmitTask
      <4>. QED  BY <1>0, <3>3, <4>1 DEF TypeOK
    <3>5. handlers'[t].pc \in {"dispatch", "done"}
      BY <1>0, <2>0, <3>1, <3>2, NullAssumption DEF Answer
    <3>. QED  BY <1>2, <2>0, <3>4, <3>5
  <2>2. CASE ~Submit(t)
    <3>1. ~Acquire(t)
      BY <1>2 DEF Acquire, Fresh
    <3>2. handlers'[t].pc \in {handlers[t].pc, "done", "undelivered"}
      <4>1. CASE handlers'[t] = handlers[t]
        BY <4>1
      <4>2. CASE HandlerStep(t)
        <5>1. Dispatch(t) \/ Undelivered(t)
          BY <2>0, <4>2 DEF HandlerStep, Spawn, Assign, SpawnFailed
        <5>2. \E pc \in {"done", "undelivered"} :
                \/ handlers' = [handlers EXCEPT ![t].pc = pc]
                \/ handlers' = [handlers EXCEPT ![t].pc = pc, ![t].sent = TRUE]
          BY Zenon, <5>1 DEF Dispatch, Undelivered
        <5>. QED  BY <1>0, <5>2 DEF HandlerRecord
      <4>. QED  BY <2>2, <3>1, <4>1, <4>2, HandlerOfCall
    <3>3. ~Accept(t)
      <4>1. ASSUME Accept(t)
            PROVE  FALSE
        <5>1. handlers[t].pc = "idle" /\ handlers'[t].pc # "idle"
          <6>1. PICK q \in Request, session \in BOOLEAN : AcceptRequest(t, q, session)
            BY <4>1 DEF Accept
          <6>2. handlers[t].pc = "idle" /\ handlers'[t] = Answer(q, session, tasks'[t])
            BY <1>0, <6>1 DEF AcceptRequest
          <6>. QED  BY <6>2 DEF Answer
        <5>. QED  BY <2>2, <3>1, <5>1, HandlerOfCall, HandlerWorks, <1>0
      <4>. QED  BY <4>1
    <3>4. tasks'[t].runtime = tasks[t].runtime
      <4>1. ~Assign(t)
        BY <2>0 DEF Assign
      <4>. QED  BY <1>0, <3>3, <4>1, TaskKept DEF Kept
    <3>. QED  BY <1>2, <2>0, <3>2, <3>4
  <2>. QED  BY <2>1, <2>2
<1>. QED  BY <1>1, <1>2, CallKeeps

(* Only the page work of its process answers a call's task.                *)
LEMMA NewAnswer ==
  ASSUME SessionsIInv, [SessionsNext]_everything, NEW t \in Task, NEW r \in Runtime,
         ~Answered(t, r), Answered(t, r)'
  PROVE  PageStep(r) /\ procs[r].task = t
<1>0. /\ ControlPlaneIInv /\ stdout \in [Runtime -> Seq(Envelope)]
      /\ stdout[r] \in Seq(Envelope)
  BY DEF SessionsIInv, ControlPlaneIInv, ProcessesTyped
<1>1. ~UNCHANGED stdout
  BY DEF Answered
<1>2. ASSUME NEW n \in 0..Len(stdout[r]), stdout'[r] = SubSeq(stdout[r], 1, n)
      PROVE  FALSE
  <2>1. \A i \in DOMAIN stdout'[r] : i \in DOMAIN stdout[r] /\ stdout'[r][i] = stdout[r][i]
    BY <1>0, <1>2
  <2>. QED  BY <2>1 DEF Answered
<1>3. ASSUME stdout[r] # <<>>, stdout'[r] = Tail(stdout[r])
      PROVE  FALSE
  <2>1. \A i \in DOMAIN stdout'[r] :
          i + 1 \in DOMAIN stdout[r] /\ stdout'[r][i] = stdout[r][i + 1]
    BY <1>0, <1>3
  <2>. QED  BY <2>1 DEF Answered
<1>4. ASSUME NEW e, stdout'[r] = Append(stdout[r], e)
      PROVE  e.action = "task_completed" /\ e.task = t
  <2>1. \A i \in DOMAIN stdout'[r] :
          \/ stdout'[r][i] = e
          \/ i \in DOMAIN stdout[r] /\ stdout'[r][i] = stdout[r][i]
    BY <1>0, <1>4
  <2>. QED  BY <2>1 DEF Answered
<1>5. ASSUME NEW x \in Runtime, ReaderStep(x)
      PROVE  FALSE
  <2>1. HandleReady(x) \/ HandleHealth(x) \/ HandleCompletion(x)
    BY Zenon, <1>1, <1>5 DEF ReaderStep, NoteReady, NoteCompletion
  <2>2. stdout[x] # <<>> /\ stdout' = [stdout EXCEPT ![x] = Tail(stdout[x])]
    BY Zenon, <2>1 DEF HandleReady, HandleHealth, HandleCompletion, Receive
  <2>. QED  BY <1>0, <1>3, <2>2 DEF Answered
<1>6. ASSUME NEW x \in Runtime, WaiterStep(x)
      PROVE  FALSE
  <2>1. PICK n \in 0..Len(stdout[x]) : stdout' = [stdout EXCEPT ![x] = SubSeq(@, 1, n)]
    BY <1>1, <1>6 DEF WaiterStep, Delist, WaitReturns
  <2>. QED  BY <1>0, <1>2, <2>1 DEF Answered
<1>7. ASSUME NEW x \in Runtime, ProcReady(x) \/ ProcHeartbeat(x)
      PROVE  FALSE
  <2>. DEFINE Note(action, good) == [action |-> action, task |-> NoTask, success |-> good]
  <2>1. PICK action \in {"runtime_ready", "runtime_health"}, good \in BOOLEAN :
          stdout' = [stdout EXCEPT ![x] = Append(@, Note(action, good))]
    BY <1>7 DEF ProcReady, ProcHeartbeat, Write
  <2>2. Note(action, good).action # "task_completed"
    OBVIOUS
  <2>. HIDE DEF Note
  <2>. QED  BY <1>0, <1>4, <2>1, <2>2 DEF Answered
<1>8. ASSUME NEW x \in Runtime, PageStep(x)
      PROVE  x = r /\ procs[r].task = t
  <2>1. PICK success \in BOOLEAN : ProcAnswers(x, success)
    BY Zenon, <1>8 DEF PageStep, OpenPage, UsePage, ClosePage
  <2>. DEFINE e == [action |-> "task_completed", task |-> procs[x].task,
                    success |-> success]
  <2>2. stdout' = [stdout EXCEPT ![x] = Append(@, e)] /\ e.task = procs[x].task
    BY <2>1 DEF ProcAnswers, Write
  <2>. HIDE DEF e
  <2>. QED  BY <1>0, <1>4, <2>2 DEF Answered
<1>9. ASSUME NEW u \in Task, Acquire(u) \/ Find(u) \/ CallStep(u)
      PROVE  FALSE
  <2>1. UNCHANGED processVars => UNCHANGED stdout
    BY DEF processVars
  <2>2. ASSUME NEW op, NEW pc, Waited(u, op, pc)
        PROVE  UNCHANGED stdout
    BY <2>1, <2>2, WaitedRefreshes
  <2>. QED  BY Zenon, <1>1, <1>9, <2>1, <2>2 DEF Acquire, AcceptRequest, Find, CallStep,
            AcquireReturns, StepReturns, CloseReturns, Submit, Refused, Stop,
            ShutdownRuntime, Delete, allVars
<1>10. ASSUME NEW u \in Task, HandlerStep(u) \/ Cancel(u)
       PROVE  FALSE
  BY Zenon, <1>1, <1>10 DEF HandlerStep, Spawn, StartChild, StartFails, Assign,
     SpawnFailed, Dispatch, Undelivered, Cancel, processVars
<1>11. ASSUME NEW x \in Runtime,
              SpawnerStep(x) \/ SpawnTimeout(x) \/ ProcRead(x) \/ ProcCrash(x)
       PROVE  FALSE
  BY Zenon, <1>1, <1>11 DEF SpawnerStep, SpawnReady, SpawnExited, SpawnTimeout, ProcRead,
     ProcCrash
<1>12. ~UNCHANGED everything /\ ~UNCHANGED processVars
  BY Zenon, <1>1 DEF everything, allVars, processVars
<1>. QED  BY Zenon, <1>5, <1>6, <1>7, <1>8, <1>9, <1>10, <1>11, <1>12
          DEF SessionsNext, BelowStep

(* A call that succeeds has been answered before, where it was sent.       *)
LEMMA SuccessWasAnswered ==
  ASSUME ControlPlaneIInv, [ControlPlaneNext]_allVars, NEW t \in Task,
         tasks[t].state # "succeeded", tasks'[t].state = "succeeded"
  PROVE  Answered(t, tasks[t].runtime) /\ handlers[t].sent
<1>1. PICK r \in Runtime : HandleCompletion(r) /\ Head(stdout[r]).task = t
  BY WhoSucceeds
<1>2. stdout[r] \in Seq(Envelope) /\ stdout[r] # <<>>
      /\ Head(stdout[r]).action = "task_completed"
  BY <1>1 DEF HandleCompletion, Receive, ControlPlaneIInv, ProcessesTyped
<1>3. Head(stdout[r]).success
  <2>1. ASSUME NEW e \in Error, RecordFailure(t, r, e)
        PROVE  FALSE
    <3>1. tasks' = [tasks EXCEPT ![t].state = "failed"]
      BY Zenon, <2>1 DEF RecordFailure
    <3>2. tasks \in [Task -> TaskRecord]
      BY DEF ControlPlaneIInv, TypeOK
    <3>. QED  BY <3>1, <3>2 DEF TaskRecord
  <2>. QED  BY <1>1, <2>1 DEF HandleCompletion
<1>4. 1 \in DOMAIN stdout[r] /\ Head(stdout[r]) = stdout[r][1]
  BY <1>2
<1>5. Answered(t, r)
  BY <1>1, <1>2, <1>3, <1>4 DEF Answered
<1>6. MentionedAt(t, r)
  BY <1>1, AnsweredTask DEF HandleCompletion
<1>. QED  BY <1>5, <1>6 DEF ControlPlaneIInv, MentionFits

(* What was closed stays closed: the acquire has had its answer.           *)
LEMMA CloseStep ==
  ASSUME SessionsIInv, PagesIInv, [SessionsNext]_everything, NEW t \in Task
  PROVE  CloseFits(t)'
<1>. SUFFICES ASSUME NEW r \in Runtime, calls'[t].op = "release",
                     r = sessions'[calls'[t].session].runtime, ClosedAt(t, r)'
              PROVE  calls'[t].session \notin pages'[r]
  BY DEF CloseFits
<1>0. /\ ControlPlaneIInv /\ [ControlPlaneNext]_allVars
      /\ HandlerFits(t) /\ pages \in [Runtime -> SUBSET Task]
      /\ CloseFits(t) /\ PinnedFits(t)
  BY StepBelow DEF SessionsIInv, ControlPlaneIInv, CallsIInv, SessionsTypeOK, PagesIInv
<1>a. \A x \in Runtime : Answered(t, x) => MentionedAt(t, x)
  BY DEF Answered, MentionedAt, Mentioned
<1>1. CASE Find(t) /\ handlers[t].pc = "idle"
  <2>1. UNCHANGED <<tasks, stdout>>
    BY <1>1 DEF Find, allVars, processVars, vars
  <2>2. tasks[t].state = "absent" /\ ~handlers[t].sent
    BY <1>0, <1>1 DEF HandlerFits
  <2>3. ~Answered(t, r)
    BY <1>0, <1>a, <2>2 DEF ControlPlaneIInv, MentionFits
  <2>. QED  BY <2>1, <2>2, <2>3 DEF ClosedAt, Answered
<1>2. CASE /\ calls[t].op = calls'[t].op /\ calls[t].session = calls'[t].session
           /\ calls[t].session \in Task /\ Acquired(calls[t].session)
  <2>. DEFINE s == calls[t].session
  <2>0. /\ s \in Task /\ Acquired(s) /\ calls[t].op = "release" /\ calls'[t].session = s
        /\ sessions[s].runtime = r
    BY <1>2, AcquiredStays
  <2>1. \/ ClosedAt(t, r)
        \/ PageStep(r) /\ procs[r].task = t
    <3>1. CASE tasks[t].state # "succeeded" /\ tasks'[t].state = "succeeded"
      <4>1. Answered(t, tasks[t].runtime) /\ tasks[t].runtime \in {NoRuntime, r}
            /\ handlers[t].sent
        BY <1>0, <2>0, <3>1, SuccessWasAnswered DEF PinnedFits
      <4>2. tasks[t].runtime # NoRuntime
        <5>1. \E x \in Runtime : MentionedAt(t, x) /\ Head(stdout[x]).task = t
          BY <1>0, <3>1, WhoSucceeds, AnsweredTask DEF HandleCompletion
        <5>. QED  BY <1>0, <5>1, NullAssumption DEF ControlPlaneIInv, MentionFits
      <4>. QED  BY <4>1, <4>2 DEF ClosedAt
    <3>2. CASE Answered(t, r)' /\ ~Answered(t, r)
      BY <3>2, NewAnswer
    <3>. QED  BY <3>1, <3>2 DEF ClosedAt
  <2>2. CASE PageStep(r) /\ procs[r].task = t
    <3>1. ClosePage(r)
      BY <2>0, <2>2 DEF PageStep, OpenPage, UsePage, Serves
    <3>. QED  BY <1>0, <2>0, <2>2, <3>1 DEF ClosePage
  <2>3. CASE ClosedAt(t, r)
    <3>1. s \notin pages[r]
      BY <1>0, <2>0, <2>3 DEF CloseFits
    <3>2. ~MentionedAt(s, r)
      BY <2>0 DEF SessionsIInv, SucceededFits, Acquired
    <3>3. procs[r].task # s
      BY <3>2 DEF MentionedAt, Mentioned
    <3>. QED  BY <2>0, <3>1, <3>3, PageMoves
  <2>. HIDE DEF s
  <2>. QED  BY <2>1, <2>2, <2>3
<1>. QED  BY <1>1, <1>2, CallKeeps

LEMMA PagesStep ==
  ASSUME SessionsIInv, LeaseFits, PagesIInv, [SessionsNext]_everything
  PROVE  PagesIInv'
<1>0. /\ ControlPlaneIInv /\ [ControlPlaneNext]_allVars
      /\ pages' \in [Runtime -> SUBSET Task] /\ procs \in [Runtime -> ProcRecord]
  BY StepBelow, SessionsTyped DEF SessionsIInv, SessionsTypeOK, ControlPlaneIInv,
     ProcessesTyped
<1>1. ASSUME NEW r \in Runtime, NEW s \in pages'[r], ProcAnswers(r, TRUE)
      PROVE  Alive(r) /\ procs'[r].state = "serving"
  BY <1>0, <1>1 DEF ProcAnswers, Alive
<1>2. ASSUME NEW r \in Runtime, procs'[r].state \in {"none", "booting"}
      PROVE  pages'[r] = {}
  <2>1. pages[r] = {}
    BY <1>0, <1>2, ProcessMovesOn DEF PagesIInv
  <2>. QED  BY <1>1, <1>2, <2>1, PageMoves
<1>3. ASSUME NEW s \in Task, NEW r \in Runtime, s \in pages'[r]
      PROVE  OpenedAt(s, r)' /\ (Alive(r)' => PageOwned(s, r)')
  <2>1. CASE s \in pages[r]
    <3>1. OpenedAt(s, r) /\ (Alive(r) => PageOwned(s, r))
      BY <2>1 DEF PagesIInv, PageFits
    <3>2. Alive(r)' => Alive(r)
      BY <1>0, <2>1, ProcessMovesOn DEF PagesIInv, Alive
    <3>. QED  BY <3>1, <3>2, OpenedStays, PageStaysOwned
  <2>2. CASE s \notin pages[r]
    <3>1. PageOwned(s, r)'
      BY <1>3, <2>2, PageMoves, OpenedIsOwned
    <3>. QED  BY <3>1 DEF PageOwned
  <2>. QED  BY <2>1, <2>2
<1>4. ASSUME NEW s \in Task, NEW r \in Runtime
      PROVE  PageFits(s, r)'
  BY <1>3 DEF PageFits
<1>5. \A t \in Task : PinnedFits(t)' /\ CloseFits(t)'
  BY PinnedStep, CloseStep DEF PagesIInv
<1>. QED  BY <1>2, <1>4, <1>5 DEF PagesIInv

(* No process that goes on keeps a page without an owner: it belongs to a  *)
(* listed session, to an acquire that is to list it, or to one that gave   *)
(* up at its deadline; and a release whose close_resource task succeeded   *)
(* has quit the browser of its session for good: also with any number of   *)
(* sessions in a process, calls that race, processes that crash and        *)
(* runtimes that are released under their steps (AcquireSession,           *)
(* ReleaseSession and executeAndWait of browser.go).  What a process       *)
(* leaves open when it ends is not covered: nobody owns it.                *)
THEOREM PagesHaveOwners ==
  ~ReRegistration /\ "cancel" \notin Environment => (SessionsSpec => []SessionsInv)
<1>. SUFFICES ASSUME ~ReRegistration, "cancel" \notin Environment
              PROVE  SessionsSpec => []SessionsInv
  OBVIOUS
<1>1. ControlPlaneSpec => [](ControlPlaneIInv /\ LeaseFits)
  BY LeaseInvariant
<1>2. SessionsInit => PagesIInv
  BY SessionsBegin
<1>3. SessionsIInv /\ LeaseFits /\ PagesIInv /\ [SessionsNext]_everything => PagesIInv'
  BY PagesStep
<1>4. SessionsIInv /\ PagesIInv => SessionsInv
  <2>. SUFFICES ASSUME SessionsIInv, PagesIInv
                PROVE  SessionsInv
    OBVIOUS
  <2>1. SessionsTypeOK
    BY DEF SessionsIInv, CallsIInv
  <2>2. ASSUME NEW r \in Runtime, NEW s \in pages[r]
        PROVE  \/ sessions[s].listed \/ calls[s].pc = "waiting" \/ calls[s].late
               \/ AsksToExit(r) \/ ~Alive(r)
    <3>1. s \in Task
      BY <2>1, <2>2 DEF SessionsTypeOK
    <3>. QED  BY <2>2, <3>1 DEF PagesIInv, PageFits, PageOwned
  <2>3. ASSUME NEW t \in Task, calls[t].op = "release", tasks[t].state = "succeeded",
               NEW r \in Runtime, calls[t].session \in pages[r]
        PROVE  FALSE
    <3>. DEFINE s == calls[t].session
    <3>1. s \in Task /\ Acquired(s)
      BY <2>3 DEF SessionsIInv, CallsIInv, CallFits
    <3>2. sessions[s].runtime = r
      BY <2>3, <3>1 DEF PagesIInv, PageFits, OpenedAt, Acquired
    <3>. QED  BY <2>3, <3>1, <3>2 DEF PagesIInv, CloseFits, ClosedAt
  <2>. QED  BY <2>1, <2>2, <2>3 DEF SessionsInv, PagesAreOwned, ClosedIsQuit
<1>. QED  BY <1>1, <1>2, <1>3, <1>4, KeepsToControlPlane, SessionsInvariant, PTL
     DEF SessionsSpec

=============================================================================
