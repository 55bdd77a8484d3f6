--------------------------- MODULE BrowserSessions ---------------------------
(***************************************************************************)
(* The browser sessions of internal/browser/browser.go on top of the       *)
(* control plane: POST /v1/browser/sessions/acquire, /steps and /release,  *)
(* each of them a goroutine that submits a task, waits for it by polling   *)
(* and then edits the session table b.sessions; and the browsers the       *)
(* processes open for them (BrowserSessionManager in                       *)
(* browser_runtime/session_runtime.py, which chrome_runtime uses).         *)
(*                                                                         *)
(* Each call has at most one task and shares its id.  A session, and the   *)
(* page it names, bear the id of the call that acquired them.  ExpiresAt,  *)
(* all that RenewSession writes, is read by no decision and left out.      *)
(***************************************************************************)
EXTENDS ControlPlane

CONSTANTS
  AcquireRequest   \* the execute request AcquireSession makes

(* executeOnSession: direct, and pinned to the runtime of the session.     *)
OnRuntime(r) == [AcquireRequest EXCEPT !.mode = "direct", !.provider = NoProvider,
                                       !.runtime = r]

(* What the sessions ask of the control plane is among its requests and    *)
(* moves.                                                                  *)
ASSUME SessionAssumption ==
  /\ AcquireRequest \in Request /\ AcquireRequest.runtime = NoRuntime
  /\ \A r \in Runtime : OnRuntime(r) \in Request
  /\ "release" \in Environment

VARIABLES
  calls,     \* per call: the goroutine that serves it
  sessions,  \* per session: its SessionRecord, and is it in b.sessions?
  pages      \* per runtime: the sessions whose browser its process has
             \* opened and not quit

sessionVars == <<calls, sessions, pages>>
everything == <<allVars, sessionVars>>

-----------------------------------------------------------------------------
(* "found": getSession returned the record, "waiting": in executeAndWait.  *)
CallRecord ==
  [op      : {"none", "acquire", "step", "release"},
   pc      : {"idle", "found", "waiting", "stopping", "deleting", "done"},
   session : Task \union {NoTask},
   late    : BOOLEAN]  \* an acquire that returned at its deadline

SessionRecord == [listed : BOOLEAN, runtime : Runtime \union {NoRuntime}]

Call(op, pc, session) ==
  [op |-> op, pc |-> pc, session |-> session, late |-> FALSE]

(* nextID: task ids are taken in one order, the ids of calls here.         *)
Fresh(t) == calls[t].op = "none" /\ t = CHOOSE u \in Task : calls[u].op = "none"

SessionsInit ==
  /\ ControlPlaneInit
  /\ calls = [t \in Task |-> Call("none", "idle", NoTask)]
  /\ sessions = [t \in Task |-> [listed |-> FALSE, runtime |-> NoRuntime]]
  /\ pages = [r \in Runtime |-> {}]

(***************************************************************************)
(* executeAndWait.                                                         *)
(***************************************************************************)

OnSession(s) == OnRuntime(sessions[s].runtime)

(* What the waiting goroutine finds: the result, an error (also one from   *)
(* before the dispatch), or nothing until its deadline.                    *)
Succeeded(t) == handlers[t].sent /\ tasks[t].state = "succeeded"

Failed(t) ==
  /\ handlers[t].pc = "done"
  /\ ~handlers[t].sent \/ tasks[t].state \in {"failed", "cancelled"}

(* Mutant: the polling loop has no deadline.                               *)
NeverPending(t) == FALSE

Pending(t) == handlers[t].sent /\ tasks[t].state \notin Terminal

(* A call leaves executeAndWait; the last GetTask refreshed the tables.    *)
Waited(t, op, pc) ==
  /\ calls[t].op = op /\ calls[t].pc = "waiting"
  /\ Succeeded(t) \/ Failed(t) \/ Pending(t)
  /\ calls' = [calls EXCEPT ![t].pc = pc,
                            ![t].late = op = "acquire" /\ Pending(t)]
  /\ RefreshCooldowns /\ UNCHANGED processVars

(***************************************************************************)
(* The calls.                                                              *)
(***************************************************************************)

(* The bound on runtime ids: an acquire that has to spawn finds one left.  *)
RuntimeLeft ==
  \/ \A p \in Selectable(AcquireRequest) : Choice(AcquireRequest, p) # {}
  \/ Cardinality({ t \in Task : handlers[t].pc = "spawn" })
       < Cardinality({ r \in Runtime : children[r].spawn = "none" })

Acquire(t) ==
  /\ Fresh(t) /\ RuntimeLeft
  /\ AcceptRequest(t, AcquireRequest, TRUE)
  /\ calls' = [calls EXCEPT ![t] = Call("acquire", "waiting", t)]
  /\ UNCHANGED <<sessions, pages>>

(* Mutant: the session record names the provider instead of the runtime.   *)
AcquireReturnsProvider(t) ==
  /\ Waited(t, "acquire", "done")
  /\ sessions' = IF Succeeded(t)
                 THEN [sessions EXCEPT ![t] =
                         [listed |-> TRUE, runtime |-> tasks[t].provider]]
                 ELSE sessions
  /\ UNCHANGED <<pages>>

AcquireReturns(t) ==
  /\ Waited(t, "acquire", "done")
  /\ sessions' = IF Succeeded(t)
                 THEN [sessions EXCEPT ![t] =
                         [listed |-> TRUE, runtime |-> tasks[t].runtime]]
                 ELSE sessions
  /\ UNCHANGED <<pages>>

(* getSession, for StepSession and ReleaseSession.                         *)
Find(t) ==
  /\ Fresh(t)
  /\ \E s \in Task, op \in {"step", "release"} :
       /\ sessions[s].listed
       /\ calls' = [calls EXCEPT ![t] = Call(op, "found", s)]
  /\ UNCHANGED <<allVars, sessions, pages>>

(* SubmitTask for the record found, however old it is by now; or, if the   *)
(* provider went into cooldown or was disabled, an error.                  *)
Submit(t) ==
  /\ calls[t].pc = "found"
  /\ AcceptRequest(t, OnSession(calls[t].session), TRUE)
  /\ calls' = [calls EXCEPT ![t].pc = "waiting"]
  /\ UNCHANGED <<sessions, pages>>

Refused(t) ==
  /\ calls[t].pc = "found"
  /\ Selectable(OnSession(calls[t].session)) = {}
  /\ RefreshCooldowns
  /\ calls' = [calls EXCEPT ![t].pc =
                  IF calls[t].op = "release" THEN "stopping" ELSE "done"]
  /\ UNCHANGED <<processVars, sessions, pages>>

StepReturns(t) ==
  /\ Waited(t, "step", "done")
  /\ UNCHANGED <<sessions, pages>>

(* ReleaseSession goes on whatever became of its close_resource task.      *)
CloseReturns(t) ==
  /\ Waited(t, "release", "stopping")
  /\ UNCHANGED <<sessions, pages>>

(* Mutant: the close_resource task is trusted to have closed the page.     *)
StopSkipped(t) ==
  /\ calls[t].pc = "stopping"
  /\ calls' = [calls EXCEPT ![t].pc = "deleting"]
  /\ UNCHANGED <<allVars, sessions, pages>>

(* Mutant: the runtime is reported stopped before its process has ended.   *)
StopReported(t) ==
  LET r == sessions[calls[t].session].runtime
  IN  /\ calls[t].pc = "stopping"
      /\ MarkRuntimeStopped(r)
      /\ calls' = [calls EXCEPT ![t].pc = "deleting"]
      /\ UNCHANGED <<processVars, sessions, pages>>

Stop(t) ==
  LET r == sessions[calls[t].session].runtime
  IN  /\ calls[t].pc = "stopping"
      /\ \/ ShutdownRuntime(r)
         \/ ~Listed(r) /\ UNCHANGED allVars
      /\ calls' = [calls EXCEPT ![t].pc = "deleting"]
      /\ UNCHANGED <<sessions, pages>>

Delete(t) ==
  /\ calls[t].pc = "deleting"
  /\ sessions' = [sessions EXCEPT ![calls[t].session].listed = FALSE]
  /\ calls' = [calls EXCEPT ![t].pc = "done"]
  /\ UNCHANGED <<allVars, pages>>

(***************************************************************************)
(* The process: BrowserSessionManager, whose _sessions are pages[r] while  *)
(* it lives.  Opening and looking up first reap the pages past their       *)
(* expires_at, any of them: no one renews a page, ttl and renewals stay in *)
(* the control plane.  Closing does not, and succeeds whether the page is  *)
(* there or not.  Neither an exit nor a crash quits a browser: main leaves *)
(* its loop and returns (chrome_runtime/runtime_entry.py:698-704), so what *)
(* was open then stays in pages[r], and nobody is left to close it.  (A    *)
(* kill by the manager takes the process group, which may hold browsers;   *)
(* no property counts on that, and pages[r] keeps them.)                   *)
(***************************************************************************)
Serves(r, op) == procs[r].task # NoTask /\ calls[procs[r].task].op = op

OpenPage(r) ==
  /\ Serves(r, "acquire")
  /\ \E kept \in SUBSET pages[r] :
       \/ /\ ProcAnswers(r, TRUE)
          /\ pages' = [pages EXCEPT ![r] = kept \union {procs[r].task}]
       \/ /\ ProcAnswers(r, FALSE)
          /\ pages' = [pages EXCEPT ![r] = kept]
  /\ UNCHANGED <<calls, sessions>>

UsePage(r) ==
  /\ Serves(r, "step")
  /\ \E kept \in SUBSET pages[r] :
       /\ \/ calls[procs[r].task].session \in kept /\ ProcAnswers(r, TRUE)
          \/ ProcAnswers(r, FALSE)
       /\ pages' = [pages EXCEPT ![r] = kept]
  /\ UNCHANGED <<calls, sessions>>

(* Mutant: the page is looked up under the id of the releasing task.       *)
ClosePageOfTask(r) ==
  /\ Serves(r, "release")
  /\ ProcAnswers(r, TRUE)
  /\ pages' = [pages EXCEPT ![r] = @ \ {procs[r].task}]
  /\ UNCHANGED <<calls, sessions>>

ClosePage(r) ==
  /\ Serves(r, "release")
  /\ ProcAnswers(r, TRUE)
  /\ pages' = [pages EXCEPT ![r] = @ \ {calls[procs[r].task].session}]
  /\ UNCHANGED <<calls, sessions>>

-----------------------------------------------------------------------------
(* The goroutine of one call, once it is accepted.                         *)
CallStep(t) ==
  \/ AcquireReturns(t)
  \/ Submit(t) \/ Refused(t) \/ StepReturns(t)
  \/ CloseReturns(t) \/ Stop(t) \/ Delete(t)

PageStep(r) == OpenPage(r) \/ UsePage(r) \/ ClosePage(r)

(* The control plane below, without callers of its own.                    *)
BelowStep ==
  \/ \E t \in Task : HandlerStep(t) \/ Cancel(t)
  \/ \E r \in Runtime :
       \/ SpawnerStep(r) \/ ReaderStep(r) \/ WaiterStep(r) \/ SpawnTimeout(r)
       \/ ProcReady(r) \/ ProcRead(r) \/ ProcHeartbeat(r) \/ ProcCrash(r)
  \/ RefreshCooldowns /\ UNCHANGED processVars

SessionsNext ==
  \/ \E t \in Task : Acquire(t) \/ Find(t)
  \/ \E t \in Task : CallStep(t)
  \/ \E r \in Runtime : PageStep(r)
  \/ BelowStep /\ UNCHANGED sessionVars

SessionsSpec == SessionsInit /\ [][SessionsNext]_everything

(* As in ControlPlane; the goroutine of a call is scheduled too, and its   *)
(* deadline comes.                                                         *)
SessionsFairness ==
  /\ \A t \in Task : /\ WF_everything(HandlerStep(t) /\ UNCHANGED sessionVars)
                     /\ WF_everything(CallStep(t))
  /\ \A r \in Runtime :
       /\ WF_everything(SpawnerStep(r) /\ UNCHANGED sessionVars)
       /\ WF_everything(ReaderStep(r) /\ UNCHANGED sessionVars)
       /\ WF_everything(WaiterStep(r) /\ UNCHANGED sessionVars)
       /\ WF_everything((ProcReady(r) \/ ProcRead(r)) /\ UNCHANGED sessionVars)
       /\ WF_everything(PageStep(r))

FairSessionsSpec == SessionsSpec /\ SessionsFairness

-----------------------------------------------------------------------------
(* Properties. *)

(* Type correctness of the session table and the calls.                    *)
SessionsTypeOK ==
  /\ calls \in [Task -> CallRecord]
  /\ sessions \in [Task -> SessionRecord]
  /\ pages \in [Runtime -> SUBSET Task]

(* What a process keeps open belongs to someone: to a session in the       *)
(* table, to an acquire that is still to list it, or it is about to be     *)
(* left because the process was asked to exit.  The one leak of a process  *)
(* that goes on is an acquire that returned at its deadline: executeAndWait *)
(* does not cancel the task, whose page then has no session (browser.go:138 *)
(* and 379).  The browsers of a process that has ended belong to nobody,   *)
(* and the property says nothing of them.                                  *)
PagesAreOwned ==
  \A r \in Runtime : \A s \in pages[r] :
    \/ sessions[s].listed \/ calls[s].pc = "waiting" \/ calls[s].late
    \/ AsksToExit(r) \/ ~Alive(r)

(* A release whose close_resource task succeeded has quit the browser of   *)
(* its session, once and for all, wherever it was opened and whatever      *)
(* became of its process (ReleaseSession and release_session).             *)
ClosedIsQuit ==
  \A t \in Task : calls[t].op = "release" /\ tasks[t].state = "succeeded" =>
    \A r \in Runtime : calls[t].session \notin pages[r]

(* No process goes on keeping a released session's page, whether the       *)
(* close_resource task was refused because the runtime is busy, lost,      *)
(* overtaken by its deadline, or done: the page is closed or the process   *)
(* ends (ReleaseSession, browser.go:195-222).  The browser may outlive it. *)
ReleasedIsLetGo ==
  \A t \in Task, r \in Runtime :
    calls[t].pc = "deleting" ~> calls[t].session \notin pages[r] \/ ~Alive(r)

(* Every call returns, also when its task is lost with a process or runs   *)
(* into one that is asked to exit (the deadline in executeAndWait).        *)
CallsReturn == \A t \in Task : calls[t].op # "none" ~> calls[t].pc = "done"

(* PROCESS-ISOLATION.md:11-12 expects "better fault containment" and       *)
(* "reduced cross-request interference" of isolated processes, and         *)
(* AcquireSession asks for RequireSeparateProcess (browser.go:126), which  *)
(* nothing reads: sessions share a process, and the release of one of them *)
(* makes it exit under the others.                                         *)
ReleaseSparesOthers ==
  [][\A t \in Task : Stop(t) =>
       \A s \in Task \ {calls[t].session} :
         LET r == sessions[calls[t].session].runtime
         IN  ~(sessions[s].listed /\ Alive(r) /\ s \in pages[r])]_everything

(* The session table is well-formed, no running process keeps a page that  *)
(* has no owner, and what a release has closed stays closed, whatever      *)
(* becomes of the calls (browser.go:75-224).                               *)
SessionsInv == SessionsTypeOK /\ PagesAreOwned /\ ClosedIsQuit

=============================================================================
