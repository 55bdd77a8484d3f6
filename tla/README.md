# EasyBrowser: TLA+ models, checks and proofs

EasyBrowser runs browser automation. A Go service (`service/base`) accepts
requests, chooses a provider and a runtime process, starts processes when none
is ready, sends them tasks over pipes, books the results and cools what fails.
The runtimes are Python programs that keep browsers, pages and sessions. Beside
them stand a Python library with a router of its own (`service/base/easybrowser`)
and the parts of a batch service (`runtimes/chrome/src`): a repair queue, result
shards, register workers, a token pool, mail polling, and the flows that log in
and register page by page. This project models all of
these. Paths are relative to `src/`; `internal` stands for
`service/base/internal`, `browser_runtime` for
`runtimes/chrome/src/browser_runtime`.

## 1. The system

| Component | State it keeps | Operations that change it | Module |
|---|---|---|---|
| Registries, `internal/service/service.go`, `flow_tasks.go` | tables of tasks, runtimes, providers under one mutex `s.mu` | `SubmitTask`, `AssignRuntimeToTask`, `CancelTask`, `RecordCompletion`, `RegisterRuntime`, `RecordHeartbeat`, `MarkRuntimeStopped`, `SetProviderEnabled`, `ResetProviderCooldown`, `CreateFlowTask`, `CompleteFlowTask`; every read refreshes cooldowns | `Service`, abstractly `Leases` |
| Process manager, `internal/processmanager/manager.go` | `m.children`, one record of flags per process, under `m.mu` (some flags are read without it) | spawn, dispatch, shutdown, kill, stdout reader, exit waiter, warm-pool loop | `ControlPlane` |
| Execute handlers, `internal/httpapi/router.go` | one goroutine per request | submit, spawn, assign, dispatch, record what failed | `ControlPlane` |
| Browser sessions, `internal/browser/browser.go` | session table under `b.mu`, one polling goroutine per call | acquire, renew, step, release; `executeAndWait` | `BrowserSessions` on `ControlPlane` |
| Route scoring, `internal/provider` | none; reads failure counts, cooldowns and ready runtimes | rank, score, capability tests, choice | `RouteStrategy`; ranks in `Service` |
| Flow executor, `internal/browser/flow_executor.go` | a status record per flow | start, complete | `Service` (the record) |
| Runtime processes, `internal/stubruntime`, `runtimes/chrome` | the task at work, the pipe, the open pages of sessions | read, execute, answer, heartbeat, exit; open, use, close and expire pages | `ControlPlane`, `BrowserSessions` |
| Session runtime, `browser_runtime/session_runtime.py` | session table, a lock and a state dictionary per session | acquire, renew, release, list, reap; the register and repair steps | `SessionRuntime` |
| Geekez and camoufox runtimes, `service/base/providers/*/runtime.py` | child process, Playwright, page table with close handlers | start, connect, read, open, use, close, recover, answer, end | `StdioRuntime` |
| Python library, `service/base/easybrowser` | affinity records with cooldowns, provider objects, contexts | `execute_task`, route, book, cool, recover; launch | `TaskExecutor` |
| Repair queue, `browser_runtime/repairer_*.py` | directories of files, result lines | claim, release stale, repair, book, dispose | `Repairer`, abstractly `WorkQueue` |
| Results, `results_state.py`, `runtime_io.py`, `shared_auth` | shard files, their state file, token files | append, save state, write, mirror, migrate | `ResultShards` |
| Register workers, `worker_loop.py`, `runtime_io.py`, `proxy_pool.py` | browser of each worker, init lock, proxy cooldowns | pick a proxy, launch, retry, restart, close, hold | `DriverRuns` |
| Driver factory, `driver_factory.py` | temporary directories, running browsers | prepare, clean, route, start, attach, quit | `DriverLaunch` |
| Token pool, `probe_*.py`, `auth_pool_storage.py` | pool directory, account cooldowns | list, probe, top up, swap | `TokenPool` |
| Mail clients, `shared_mailbox`, `repairer_flow.py` | baselines, errors | look up, poll, next mailbox, give up | `MailCodes` |
| Page flows, `repairer_flow.py`, `register_*.py`, `about_you_flow.py`, `consent_flow.py`, `oauth_flow.py`, `camoufox_native.py` | the locals of one login, registration or exchange; pages and mailbox are the site's | open, look, fill, submit, wait, recover, fetch and enter a code, exchange, start over | `LoginFlow`, `AboutYou`, `OAuthExchange`, `RegisterFlow` on `AuthPages` |
| Views, normalisation, configuration, stealth scripts, deployment | derived or none | - | not modelled, section 5 |

**Interactions.** Handlers call the registries and the process manager in turn,
with no lock held across calls. The manager's reader goroutine turns each line
of a process's stdout into a registry call and *afterwards* updates the flags of
the child. Its waiter turns the end of the process into `MarkRuntimeStopped`.
The pool loop copies the children, then spawns or kills from the copy. A chrome
process runs the session runtime; its tasks are the steps and page actions of
sessions. The library and the batch service talk to neither: the library
launches browsers in its own process, and the parts of the batch service share
directories and locks with copies of themselves. `run_repairer_loop`,
`run_probe_loop`, `run_worker_loop` and `run_service_main` take everything they
call as parameters and are called nowhere in the repository, so how many run and
with which settings is a parameter of the modules too.

**What is hard.** Every pair of these calls can interleave with another
request's. Processes crash between any two steps; what they wrote may be lost,
or be handled after the crash was. A ready-timeout races the ready message. A
cancellation or a release races a task at work. Cooldowns run out whether or not
anyone looks. File operations fail one by one. Two launches share a profile
directory. `PROJECT.json` lists the main hazards line by line, with the properties
that cover each. Others, for which nothing in the repository says what is right:

- A runtime whose cooldown elapses while it is unhealthy stays "cooled" without a
  cooldown (`service.go:1513`); heartbeats overwrite the failure count that
  completions keep (`service.go:1128`).
- A failed dispatch in `executeAndWait` leaves the task running (`browser.go:350`);
  execute requests spawn without reading `MaxRuntimes` (`router.go:187`).
- A page expires in its process after 900 s although its session was renewed
  (`runtime_entry.py:259`); a session renewed after it was found expired is
  released all the same (`session_runtime.py:299`).
- Errors that say the browser is gone are classified as flow errors
  (`runtime_entry.py:234`).
- The pool goes on to start runtimes of a provider that cools
  (`manager.go:1102-1126` reads `Enabled` only), and each failure at the threshold
  sets the cooldown anew (`service.go:1453`): a provider whose runtimes keep
  crashing is never available again.
- Two instances may hand one stale file to each other for ever
  (`repairer_loop.py:40`); if the success line of a repair fails, it is booked as a
  failure although the fixed file is there (`repairer_one_file.py:232`).
- A session on a shared `BROWSER_USER_DATA_DIR` kills the browser of the one before
  (`session_runtime.py:316`); a launch that raises leaves its directories and its
  browser (`driver_factory.py:984`).
- A failed lookup counts as an empty mailbox (`easy_email_client.py:484`); a code
  of the same second as an older one is passed over (`:445`); logins that share a
  mailbox take each other's codes; a registration looks nothing up beforehand
  (`mailbox_runtime.py:115`).
- A login that finds itself past the email before it submitted one ends with an
  UnboundLocalError: `repairer_flow.py:1380` reads `last_email_submit_at`, which
  only the submission sets, although a message at `:1093` takes "password stage
  already present" for an ordinary case. `LoginFlow` fails there as well.
- While it waits for the code to be accepted, a registration counts any page of
  the authentication site that is not an error as progress
  (`register_auth_flow.py:1540`); after a failed native run it opens the sign-up
  again and may enter a code that was used.

**What makes each component correct.**

- *Registries*: both tables agree on every lease; no lease is stolen and no task
  is placed twice; the pool leases only fit runtimes; a cooldown is neither
  invisible nor cut short, and a provider comes back once failures no longer
  cool it.
- *Process manager and handlers*: a task reaches one process, once, on the
  runtime it was leased; a process has one task at a time, under a lease; the
  pool keeps to the limits and kills nothing that works; what was sent ends.
- *Sessions*: a page that a running process keeps belongs to a session or to a
  call that is about to list one; a released page is closed, or its process ends;
  what was closed stays closed; every call returns.
- *Scoring*: there is one choice, of least rank; fallbacks are reported as such;
  a failure helps no provider, unless the runtime it frees or loses is worth more
  under the hint of the request; reuse hints point the right way.
- *Session runtime*: every open browser has an owner; a step keeps its browser to
  its end; what a later step reads was left by the run it belongs to.
- *Runtime processes*: each task is answered once; ids keep their pages; the
  process ends when asked and leaves nothing running, wherever the start failed.
- *Library*: every result is booked; contexts are closed; an execution has the
  browser it launched; cooled providers are spared and come back.
- *Batch service*: no file of the queue is lost or worked on twice while it is
  fresh; shards have no gaps; no browser or directory is left behind; a proxy is
  never bypassed; the pool deletes only what the server rejected; a login takes
  the newest code and no old one.
- *Page flows*: a login succeeds only where one of its waits saw the target, and
  fails with what was seen; a registration logs in only for an account that was
  made and not ruled out, twice at most, and ends well only with the tokens of
  its last request; every flow ends.

## 2. Modules

**`Leases`** states what the registries promise: `holder` maps a runtime to the
task it works for, `granted` collects the tasks that ever got one. `Grant` needs
a free runtime and a task never served, `End` frees a runtime.

**`Service`** has one action per exported method of `Service` that changes
state, since each of them holds `s.mu` for its whole body. Locked helpers are
operators on one record (`Sync`, `Lease`, `Release`, `Succeed`, `FailRuntime`,
`Thaw`, ...), named after what they do; the comment above each names the Go
function. Abstractions:

- `LeaseID` and `CurrentTaskID` are assigned and cleared together and no code
  compares a lease id; the field `task` stands for both.
- Time: a cooldown is zero, pending or elapsed; a heartbeat fresh, overdue or
  missed. `ClockStep` moves them on, the refresh inside each call notices. The
  cooldown of a provider has one more stage, `ending`, from which a failure at the
  threshold sets it back to pending, as the code sets `cooldownUntil` anew: a
  cooldown that is extended again and again never ends.
- A request is reduced to mode, named provider, named runtime, allowed and
  capable providers and their ranks. Among providers of equal rank the score
  decides in the code; the model lets any of them win.
- Failure counters saturate at `MaxFailures`; only comparisons with the
  threshold and between runtimes read them. Total counters, texts, events and
  statistics are left out, as nothing branches on them except the score.
- The last section of the module says what callers never do (who may assign,
  which runtime a completion names, when a runtime registers).
  `ControlPlane` is checked to keep to it.

**`ControlPlane`** extends `Service` with the goroutines and processes. Each
action is one critical section, one pipe write or one signal:

| State | In the code |
|---|---|
| `handlers[t]` | program counter of the goroutine in `router.execute` or `executeAndWait` |
| `children[r]` | `childProcess`: flags, `readyCh` (`opened`), how far `waitChild` got (`waited`), the outcome of `startChildCommand` (`spawn`) |
| `procs[r]` | the operating-system process |
| `stdin[r]`, `stdout[r]` | the pipes: lines written and not yet read |
| `readers[r]` | between the two halves of `handleEnvelope` |
| `pool[p]` | the copy `reconcileRuntimePool` works from |

Some steps of the code are merged, where no other step can tell: a child is
listed and started in one action; the send on `exitCh` and the removal from
`m.children` are one action. The flags of a child are read and written here one
at a time, while some of the Go accesses are unsynchronised; each is a single
word, so the model takes them as atomic. `cmd.Wait` closes the pipe when the
process is gone: `WaitReturns` therefore drops any suffix of the unread output.
A kill of the built-in stub is seen by it as the end of its input; as with every
kill by the manager the exit counts as wanted, through `stopping`.

The constant `Environment` bounds what may happen besides requests being served:
`cancel`, `clock`, `crash`, `heartbeat`, `operator`, `pool`, `release`, `spawn`
(by an operator), `start fails`, `timeout` (of a spawn). Each run names its own
subset, so the state space stays within reach and a violation shows which move
it needs. Every move is in some passing run.

**`BrowserSessions`** extends `ControlPlane` with the calls of the session API.
A call is a goroutine (`calls[t]`): it submits a task, which has its id, waits in
`executeAndWait` until the result, an error or the deadline, and then edits the
table `sessions`. The tasks run through the handlers of `ControlPlane`
unchanged; execute requests of other callers are left out. `pages[r]` are the
sessions whose browser the process of `r` has opened and not quit: while the
process lives, the table of its `BrowserSessionManager`. What its task does there
(`OpenPage`, `UsePage`, `ClosePage`) is the process's answer of `ControlPlane`
plus the change of that table, and pages past their ttl go whenever the code
reaps them, any subset of them. Nothing else closes a page: neither an exit nor a
crash of the process quits its browsers, so what was open then stays in `pages[r]`
for ever. (A kill by the manager, with SIGKILL to the process group, may take
browsers with it; the model keeps them, and no property tells. Destructors of the
Selenium library are not counted on: the heartbeat thread refers to the runtime
until the interpreter is gone.) Releasing goes on after its `close_resource`
task whatever the outcome, and asks the process to exit. A session bears the id
of the call that acquired it. Renewal only writes `ExpiresAt`, which nothing
reads, so it is left out.

**`RouteStrategy`** has the capability tests, ranks, scores and comparison of
candidates of a strategy-mode request as operators over the providers' records,
and a state machine that changes those records: failures, successes, cooldowns,
operators, runtimes. A failure and a success are whole critical sections: with the
counters changes the number of ready runtimes, since a completion releases its
runtime and a crash loses one (the argument `change`). The properties compare the
choice before and after such a step. It is a module of its own because the score reads total failure counts
that nothing else reads; `LeastRank` says that its choice is one that `Service`
allows.

**`SessionRuntime`** is `BrowserSessionManager` under callers in several threads.
Each access to the table under the manager's lock is one step, and so is each
waiting for the lock of a session; a release takes the session from the table
(`PopStale`, `BeginCall`) and quits its browser (`QuitPopped`) in separate steps.
`progress` is `session.state`: for every key the number of the run that left it,
which is all that tells a later step whether it continues the right run.

**`StdioRuntime`** is one process behind a pipe, of kind camoufox, geekez or
chrome. `main` is the program counter of its main thread, `table` its page table,
`openPages` what Playwright has told it, `handlers` the close handlers a page has
collected. `SIGTERM` may come between any two steps.

**`TaskExecutor`** interleaves executions of `execute_task` at their awaits. The
affinity records, the provider objects they share and the backends they launch
are variables; the router runs without an await and is one step.

**`Repairer`** has one action per file operation of the repair loop: list, claim
(`os.replace`), open, drive, record, write, remove. Any of them may fail as
`setting.faults` says, an instance may die at any point, and a file becomes stale
by its time stamp, which a move does not renew. **`WorkQueue`** is the abstract
queue it implements (`IsWorkQueue`): waiting, taken or settled, settled only once
its outcome is booked.

**`ResultShards`** splits the append into reading the state, writing the line and
writing the state, with an interruption after each, and starts with the
migration of an old layout. The lines of a directory are a set of places, `LinesOf`;
`Kept` takes what a migration has not moved yet with what it has.

**`DriverRuns`** has the workers of the register loop with the init lock and the
retries of launches and rounds; **`DriverLaunch`** looks into one launch: which
directories it makes, how it routes, whose browsers its cleaning kills, what its
caller removes. Launches of one process come one after the other, those of
several processes interleave. **`TokenPool`** is one pass of the probe thread
beside workers that add files; **`MailCodes`** one login that polls mailboxes
which others share.

**`AuthPages`** says what one look of the page flows finds. A page is a record of
the place it is at, its visible fields, its buttons and what else it says; the
predicates stand for the selectors, patterns and scripts of the functions they are
named after, on either backend. They are many, because the code asks the same
question differently from place to place, and where two looks disagree the flow
may go wrong. **`LoginFlow`** is `repairer_drive_login_and_get_callback_url` with
the native run it tries first on camoufox; `drive.pc` names the stage. Between two
waits the code reads one page, and after a wait the site may show any other:
actions choose a page, or two, from `Site` with no memory of the last. A wait ends
on what it waits for or on its deadline at any time. **`AboutYou`** is the form of
a registration with the field its page keeps, **`OAuthExchange`** the exchange of
a callback for tokens over several routes, where an answer may be lost after the
code was spent. **`RegisterFlow`** composes them: the sign-up pages, the form, the
wait for the callback, the login of the second stage, its exchange, and the
handler that may log in once more. A login alone is a behaviour in which the
registration is idle.

**The MC modules** hold the requests, errors and symmetry sets of the
configurations. `MCRouteStrategy`, `MCRuntimes` and `MCBatch` combine components
that share no state: a variable of their own (`router`, `active`) says which of
them runs in a behaviour, and the others rest in their initial state. Each component
is explored as if it had a run to itself.
**`ServiceProofs`**, **`ControlPlaneProofs`**, **`SessionsProofs`**,
**`RouteStrategyProofs`**, **`RuntimesProofs`** (sessions, processes and the
library), **`FlowsProofs`**, **`RepairerProofs`** and **`BatchProofs`** (the other
parts of the batch service) hold the theorems.

Operators under a comment "Mutant:" are deliberate errors, used only to see that
the properties notice them.

## 3. Runs

| Run | Configuration | What it shows |
|---|---|---|
| `leases` | 2 tasks, 1 runtime, pinned and routed requests, flows, failing registrations; threshold 2; fair | type invariant, `LeaseCoherent`, `BusyIsLeased`, `CoolingIsVisible`, `CooldownIsServed`, `PoolLeaseIsFit`, `ProviderRecovers`; `Service` implements `Leases` (`GrantsLeases`) |
| `handing` | 2 tasks, 2 runtimes; crash, heartbeat, release, failing start, timeout | `HandedOnce`, `ProcessesInv` (with `OneTaskPerProcess`), `LeaseCoversExecution` |
| `pool` | 2 runtimes, `MaxRuntimes` 1, `MinWarm` 2; crash, operator, pool | the pool alone keeps `WithinCapacity` |
| `keeps_to_service` | 2 tasks, 1 runtime; cancel, clock, crash, release, spawn, failing start, timeout | `ControlPlane` implements `Service!Spec` |
| `dispatched_ends` | 2 tasks, 2 runtimes; crash, failing start; fair | `DispatchedTaskEnds` |
| `sessions` | 3 calls (so 2 sessions and a step or release, or one session with two calls on it), 1 runtime; crash; fair | `SessionsInv` (`PagesAreOwned`, `ClosedIsQuit`), `ReleasedIsLetGo`, `CallsReturn`; the calls use the control plane only as `ControlPlaneSpec` allows |
| `routes` | control plane: 4 providers, 16 requests over all profiles and hints, 2 failures, 2 ready runtimes, 1 disabled provider; library: 2 clients, 3 executions over 1 or 2 providers, thresholds 1 and 2 | `ChoiceIsUnique`, `LeastRank`, `FallbackIsReported`, `FailureNeverHelps`, `HintIsFollowed`; `ExecutorInv` (`ResultsAreBooked`, `ThresholdCools`, `ContextsAreClosed`, `OwnBrowser`), `CooldownsHold` (`CooldownsRunOut`, `CooledAreSpared`) |
| `runtimes` | sessions: 2 callers with 5 or 6 calls on 1 or 2 sessions, opening and expiring, registering, or repairing; processes: each kind, 3 pages, 4 tasks, 2 failed connects; flows: 28 pages, 5 ways to call a login, 2 mails, 2 rounds for the email, 4 for the password, 2 attempts of the exchange with and without a proxy, 3 ways to submit the form; fair | `SessionRuntimeInv` (`BrowsersAreOwned`, `KeysFollow`), `StdioInv` (`AnsweredOnce`, `NothingLeftRunning`, `PagesAreKnown`); `StepsKeepTheirBrowser`, `IdsKeepTheirPage`; `FlowsInv` (`SuccessWasMet`, `EntersNewCodes`, `ErrorIsPreserved`, `ForcedIsWanted`, `ExchangeIsFinal`, `LoginsAreWarranted`, `DoneIsAnswered`); `RuntimesEnd` (`SessionCallsReturn`, `EndsWhenAsked`, `FlowsEnd`) |
| `batch` | queue: 1 or 2 instances, 1 or 2 files, faults; shards of 2 lines, 6 lines, 2 interruptions, 4 old layouts; 2 workers, 1 proxy, 4 deployments; 2 launches in 1 or 2 processes; pool of 2; 2 mailboxes of both kinds with 2 mails each over 2 seconds; fair | `RepairInv` (`Accounted`, `ExclusiveUntilStale`), `IsWorkQueue`; `ShardsInv` (`ShardsBounded`, `EarlierShardsFull`, `StateLags`, `LinesComeFirst`); `DriversInv` (`BrowsersAreClosed`); `LaunchInv` (`ProxyIsKept`, `AnonymousStays`, `NothingIsLeft`, `UnsharedStayAlive`); `PoolKeepsTheGood` (`OnlyRejectedGo`, `ShrinksByLostOnly`); `MailInv` (`ReadIsNew`, `NewestIsRead`, `QuotaIsNotBlamed`); `BatchEnds` (`FilesAreSettled`, `WorkersStop`, `LoginsEnd`) |

A property ending in `Inv`, and `CooldownsHold`, `PoolKeepsTheGood`, `BatchEnds`
and `RuntimesEnd`, is the conjunction of the parts in
brackets, and an invariant also of the type invariant of its module; each part states
a promise of its own and has a mutant in `PROJECT.json` that breaks it.

Violations, each a disagreement between the code and what a document or the code
itself says, under
`findings` in `PROJECT.json`:

| Run | The code | The document |
|---|---|---|
| `pool_reaps_working` | a task dispatched between the halves of `handleEnvelope` is marked idle; the pool kills it | `docs/ARCHITECTURE.md:37`: surplus idle runtimes are reaped |
| `unplaced_forever` | the runtime spawned for a task is taken by another request; the error is dropped and the task allocates for ever | `docs/RUNTIME-DISPATCH-FLOW.md:14-17`: reuse, spawn or fail |
| `release_stops_others` | sessions share a process in spite of `RequireSeparateProcess`; releasing one makes the process exit under the others | `docs/PROCESS-ISOLATION.md:11-12`: fault containment, reduced cross-request interference |

**Bounds.** Two tasks are what a stolen lease, a late completion or a second
dispatch needs; the third role in each of those stories is always a runtime or
the clock. One runtime is enough where the question is about one lease, two
where a task may reach two processes; one makes two sessions share a process.
Three calls allow what two cannot: two sessions and a release of one, or a step
and a release of the same session.
`FailureThreshold` is 1 or 2 instead of 3, so that counters reach it exactly,
pass it and are reset within few steps. In `handing` and `keeps_to_service`
`MaxFailures` is 0: counted failures cool nothing there and cooldowns come from
crashes, which is all those properties can tell apart; the counting is the
subject of `leases` and `dispatched_ends`. The pipes
need no bound: a task is sent once, one unread heartbeat stands for several and
so does one unread shutdown request. Runtime ids are used once, as
`nextRuntimeID` makes them, so `Runtime` also bounds the number of spawns.
Deadlock is checked wherever the system runs for ever, and there is none, as a
refresh is always possible; `runtimes` and `batch` say `CHECK_DEADLOCK FALSE`
since their processes and flows end and their calls, lines, attempts and launches are
bounded. In `routes` the clients of the library are interchangeable and
declared symmetric; no run with symmetry checks liveness. The bounds on calls and
faults (`menu.calls`, `MaxTasks`, `MaxExecutions`, `MaxLines`, `MaxInterruptions`,
`MaxMails`, `MaxSecond`) leave room for the stories the properties are about:
two sessions and a step on one; an id that loses its page, is bound to another and is closed; a shard that fills, is interrupted and is continued; two
codes of which one came before the login and one in the same second.
The 28 pages of the flows in `runtimes` are one for each answer that some look of the flows can
give, and two where two looks disagree; every stage and every reason for a failure
is reached. The 60 rounds of the password stage are 4, as three errors in a row
are what they count; other rounds are the code's own numbers or two, which tells
the first, a later and the last apart.

**Fairness.** `Fairness` (registries): a cooldown that is not set anew runs out
(`ProviderCooldownRuns`, then `ProviderCooldownElapses`), and some call keeps
refreshing. Nothing ends failures: a provider that fails while it cools is cooled
on, which is why `ProviderRecovers` speaks of providers that no failure cools any
more, from some point on. With the default settings the pool loop does, on every tick of its
timer (`runtimePoolLoop` starts with `ListProviders`); with the pool switched
off any client that polls does. `ControlPlaneFairness`: the Go scheduler runs
every goroutine (handler, spawner, reader, waiter), and a process that does not
crash answers what it read, because the browser operations of the runtimes carry
timeouts (for instance `timeout_s` in
`runtimes/chrome/src/chrome_runtime/runtime_entry.py:605`). Nothing is assumed
of callers, crashes, clocks or the pool. `SessionsFairness` adds the goroutine of
each call, whose deadline comes: `executeAndWait` compares the clock on every
round (`internal/browser/browser.go:379`). `SessionRuntimeFairness` and
`StdioFairness`: a thread that can go on does, because every browser call has a
timeout. `RepairFairness`: an instance goes on with its file or is restarted, and
`DriversFairness`: worker threads run; both loops bound their retries.
`MailFairness`: requests to a mailbox have time limits and every wait a deadline
(`cloudflare_temp_email_client.py:86`, `easy_email_client.py:432`).
`RegisterSpec` assumes that a flow goes on: each of its waits has a deadline and
each of its loops a last round (for instance `repairer_flow.py:1384`, `1491`,
`1966`); nothing is assumed of pages and mail.

**Limits of the passing runs, on purpose.** `LeaseCoversExecution` and
`OneTaskPerProcess` are checked without cancellations: `CancelTask` frees the
runtime while its process works on, so the next task is queued behind the
cancelled one, whose late completion then releases the lease of the other.
`DispatchedTaskEnds` is checked without cancellation, release and spawn timeout:
after a wanted exit (`stopping`) `MarkRuntimeStopped` leaves the task of the
lease as it is, so a task sent to a process that is shut down, or that was ready
but is killed by the timeout of its spawner, stays running for ever. No document
says what should happen to such tasks, so these are recorded here and as hazards
rather than as findings. `WithinCapacity` is checked of the pool alone: execute
requests spawn a runtime for every task that found none ready and never read
`MaxRuntimes`, although `runtime-pool/allocator/ALLOCATION-FLOW.md:13-16` asks
for capacity. `PoolLeaseIsFit` is about requests that pin no runtime:
`allocateSpecificRuntimeLocked` leases a pinned runtime that cools, although
`docs/RUNTIME-DISPATCH-FLOW.md:13` says that the cooling layer rejects those.
`PagesAreOwned` excepts the page of an acquire that returned at its deadline,
which the code leaks, and says nothing of browsers whose process has ended, which
belong to no one; `ReleasedIsLetGo` ends with the process too. A browser may
well outlive its process: `run` leaves its loop and quits none
(`runtime_entry.py:698-704`), and a release asks for that exit also where its
`close_resource` task was refused because the runtime was busy. The model reaches
this state, with the browser of the released session open and nobody left to quit
it; `runtimes/chrome/PROVIDER-BOUNDARY.md:9` says that "the runtime owns the
Selenium/undetected-chromedriver lifecycle" and not what that means for its end,
so it is recorded here and as a hazard and no run is spent on it. An error of `driver.quit()`
is swallowed (`session_runtime.py:49-56`), so `ClosedIsQuit` takes a session that was
released for one whose browser was quit, as the code does. `FailureNeverHelps`
excepts the steps whose runtime outweighs the failure (`Outweighs`): a failure that
frees a runtime where reuse is required, or preferred (but not under
stability-first), or where latency-first has no hint; and one that loses a runtime
where a fresh one is required (but not under stability-first). There a provider may
win the next request by failing, unless the failure cools it. `HintIsFollowed`
leaves out `prefer_fresh`, which the
latency-first profile outweighs. `ErrorIsPreserved` is about the errors that
`_try_recover_post_otp_auth_error` answers: `_wait_callback_with_consent` assigns
a terminal error without a `nonlocal` declaration (`repairer_flow.py:1993`,
`2043`), so that a login whose error page is gone by then reports a time-out
although lines 2144-2158 are there to report the error; the model does the same.
In `sessions` failed actions never cool
anything; cooldowns come from crashes only.

A crash counts against the provider and may cool it (`service.go:1329`), although
`cooling/policy/TRIGGER-MATRIX.yaml:15-16` names it as no candidate at provider
level; no run is spent on it. `StepsKeepTheirBrowser` is about steps: page actions
take no session lock and may find their browser quit. `StdioRuntime` lets
`SIGTERM` come between steps only: the handler takes `pages_lock`, which is not
reentrant (`providers/camoufox/runtime.py:1072`), so a signal inside a locked
section would wait for itself. `OwnBrowser` is about chrome and browserbase
providers; camoufox and geekez keep the address in the provider object, where a
concurrent launch overwrites it. `ContextsAreClosed` says nothing of providers,
which the executor never closes, although `docs/USAGE.md:426` speaks of an
automatic life cycle. `ExclusiveUntilStale` ends when a file goes stale, which it
may as soon as it is claimed, since moving it keeps its time stamp.
`FilesAreSettled` lets a file go stale a bounded number of times.
`BrowsersAreClosed` excepts the browser that was to be kept for a look.
`UnsharedStayAlive` excepts directories whose path goes on from the cleaned one;
`NothingIsLeft` speaks of launches that returned and whose browser was closed, as
one that raises leaves what it had made. `NothingLeftRunning` is about camoufox and
geekez: a chrome process has its browsers in the session runtime, whose end the
process does not wait for. A count of lines that fails while the state of the
results is inferred (`results_state.py:127`) and a persist failure that cools the
proxy or a quit that fails (`DriverRuns`) are left out, so `ShardsInv` and
`DriversInv` hold where these work. `ReadIsNew` takes a mailbox whose lookup failed for one that was
empty, as the code does. In the library, executor and router run in one event
loop and not in threads, where writing whole records back would lose results.


## 4. Proofs

`ServiceProofs` proves for any sets of tasks, runtimes, providers, requests and
errors and any threshold, from the assumptions in `Service` (the null values are
no members of their sets, requests and errors have their types, bounds are
naturals):

| Theorem | Property |
|---|---|
| `TypeCorrect` | `TypeOK` |
| `BusyRuntimesAreLeased` | `BusyIsLeased` |
| `CoolingRuntimesAreVisible` | `CoolingIsVisible` |
| `LeasesAreCoherent` | `LeaseCoherent` |
| `ImplementsLeases` | `GrantsLeases`, if runtimes do not register again under a lease |
| `PoolLeasesAreFit` | `PoolLeaseIsFit`, for requests that pin no runtime |
| `CooldownsAreServed` | `CooldownIsServed` |

*Invariants of one runtime.* The inductive invariant is `RuntimesFit`: every
runtime's record is in `FitRecord`, that is, it has its type, a busy one has a
task, a cooling one shows "cooled" or "busy", a leased one is known and, without
re-registration, busy. The two properties alone are not enough: that only ready
runtimes are handed out tells nothing about leases unless a leased runtime is
known to be busy. Lemmas show that each record operator (`Sync`, `Lease`,
`Release`, ...) stays in `FitRecord`, whatever the tasks do; `FitStep` then takes
one action at a time.

*Leases.* `LeaseCoherent` relates two tables. It is inductive together with the
type invariant: a release, completion or crash that frees a runtime needs that
the task it frees agrees with the task table, and a new lease that its task held
nothing before.

*Refinement.* `ImplementsLeases` splits each step, runtime by runtime, into
"the holder is unchanged", "it was granted" and "it ended"; coherence gives that
at most one runtime moves, and that a task granted was placed nowhere before.
With re-registration a leased runtime shows "ready" again and its lease can be
overwritten, which is why the theorem has its hypothesis; `LeasesAreCoherent`
needs no such hypothesis.

`RouteStrategyProofs` proves, for any set of well-formed requests and any
threshold and bounds (`RouteAssumption`), hence for any failure counts and
numbers of ready runtimes:

| Theorem | Property |
|---|---|
| `RouteTypesCorrect` | `RouteTypeOK`, with recent failures among the total |
| `OneChoice` | `ChoiceIsUnique` |
| `RanksAreLeast` | `LeastRank` |
| `FallbacksAreReported` | `FallbackIsReported` |
| `FailuresNeverHelp` | `FailureNeverHelps` |
| `HintsAreFollowed` | `HintIsFollowed` |

*The choice.* `Before` is shown to be irreflexive and transitive on sextuples of
integers, and total on those whose last components differ; the last component of
a key is the provider's place in the order, which no two providers share. A
non-empty set of providers then has a leader (`SomeoneLeads` adds the four one by
one), transitivity allows no second (`OnlyOneLeads`), and `Selected` is that
leader (`SelectedLeads`). The score is never computed in these steps: uniqueness
does not depend on the weights.

*Failures and hints.* `FailureSetsBack` compares a provider's key before and
after a failure: the rank is the same, and the score falls because every profile
charges more for a recent and a past failure together than a runtime that the same
step frees or loses is worth, outside of `Outweighs`; a provider that cools is no
candidate any more. `ReadyMoves`
does the same for one more ready runtime, whose weight is positive for the hints
that ask for reuse and negative for `require_fresh` under every profile. Whoever
led before leads a set that is no larger, over the same keys and one that moved
back (`OthersMoveBack`); who led and moved ahead leads on (`LeaderMovesAhead`).

*Fallbacks.* The first key of the sort is the rank (`LeaderRanksLeast`), so a
capable provider of less rank than the choice cannot have been a candidate.

`RepairerProofs` proves, for any files, instances, deployments and failing file
operations (`RepairerAssumption`), that `RepairInv` always holds (`RepairerIsSafe`)
and that `Repairer` implements `WorkQueue` (`RepairerIsWorkQueue`).

*The repair queue.* `RepairIInv` adds two facts. A file about to be removed has
its outcome on record, and so has every file a test run remembers as processed
(`PutAwayIsBooked`); without it a crash between booking and removal could not be
told from a lost file. A claimed file whose mtime has not expired is in nobody
else's hands and not in the need directory (`ClaimsAreExclusive`), which carries
over a claim because whoever finds a file there knows that no one holds it, unless
it is stale. For the refinement `PlacesMove` shows what a change of the
directories can be to the queue: taken, given back, settled, or nothing; a file
in both directories, as a restore that copied but could not remove leaves it, is
still waiting.

`FlowsProofs` proves `FlowsAreSafe`: `FlowsInv` for any set of pages a site may
show, any ways to call a login, any routes, and any numbers of rounds, codes and
attempts (`LoginAssumption`, `SubmitModes`, `ExchangeAssumption`,
`RegisterAssumption`; the two bounds on rounds and codes among them drop out).

*The parts.* `FlowsIInv` joins an inductive invariant per flow, each proved over
that flow's steps alone: what is in the record of the flow, from where it stands.
`EntersNewCodes` needs that a code in hand came after the baseline, and that a
baseline that was noted is no older than what the mailbox held when the login
began (`CodeFits`). `SuccessWasMet` needs that the last look is taken only after
a wait has seen the target, and `ErrorIsPreserved` that a stage a reload went back
to is known only with the error it was reloaded for (`OutcomeFits`).
`ExchangeIsFinal` needs that nothing leaves the check of the callback but a good
one, and that nothing was refused as long as the exchange runs (`ExchangeFits`).

*The whole.* `RegFits` says what a registration has behind it at each stage: the
code before the form, no login before the callback, one at most before the
handler, a login that succeeded before the exchange. A step of one flow leaves the
invariants of the others alone, since a login that has succeeded and an exchange
that is done take no further step (`OverIsOver`).

`ControlPlaneProofs` proves, for any sets, bounds and moves of the environment
(`ControlPlaneAssumption`, `ShutdownAssumption`, and those of `Service`; a runtime
may register itself as ready, as every runtime of the repository does):

| Theorem | Property |
|---|---|
| `KeepsToService` | `ControlPlaneSpec => Spec`: every theorem of `ServiceProofs` holds of `ControlPlane` |
| `TasksAreHandedOnce` | `HandedOnce` |
| `LeasesCoverExecution` | `LeaseCoversExecution`, if nobody cancels and runtimes do not register again |
| `ProcessesWorkOneByOne` | `ProcessesInv`, under the same hypotheses |
| `PoolKeepsWithinCapacity` | `WithinCapacity`, if only the pool spawns (`PoolAloneSpawns`) |

*Where a task may be.* `ControlPlaneIInv` says of each handler, by its program
counter, what the task table shows and whether the task was sent (`HandlerFits`);
of each process what its pipes may hold (`ChildFits`); and of each pair that a task
mentioned at a runtime, on stdin, in the process or on stdout, was sent, is placed
there, and is there once (`MentionFits`). `Service` lets its caller finish or
dispatch a task only in certain states; that a goroutine still finds them, after
whatever happened since it looked, is what these say (`StepIsCall`, one lemma per
action).

*Leases in use.* `LeaseFits` adds that a task mentioned at a live process, and one whose
handler is about to send it, has the lease of that runtime. A cancel frees the
runtime while its process works on, and a second registration shows it ready, so
neither is left out for convenience: with either the formula is false.

*The pool's limit.* The loop counts, and spawns or reaps step by step afterwards.
`CapacityFits` says that what is alive and what is still to be spawned stay
within `MaxRuntimes`, one more while a spawn is under way (`Room`), that what is
to be reaped was spawned before, and that a process being stopped is dead. The
last fails for a release, which asks a process to exit and counts it no more;
requests that pin no runtime spawn without looking at the limit. Both are excluded
by the hypothesis and are discussed above.

`SessionsProofs` proves, for any number of calls on any sessions (`SessionAssumption`:
the requests an acquire and a step send are among those of the control plane, and
a release may come at any time):

| Theorem | Property |
|---|---|
| `KeepsToControlPlane` | `ControlPlaneSpec`: every theorem above holds under `BrowserSessions` |
| `PagesHaveOwners` | `SessionsInv`, if nobody cancels and runtimes do not register again |

*Pages.* `CallsIInv` relates a waiting call to its task and handler: a task that
succeeded was answered by the process it was sent to, and left nothing behind.
`PagesIInv` adds that the page of a session is open only where its acquire ran
(`PageOwned`, `Acquired`, `OpenedAt`), and this needs `HandedOnce` and `LeaseFits`;
and for `ClosedIsQuit` that the task of a step or release is at no runtime but that
of its session (`PinnedFits`), so that what a release closes can be open nowhere
else (`CloseFits`). An acquire opens its page once, hence never after the release. With a
cancel an acquire returns an error while its page is still to open, which is a
page without an owner; hence the hypothesis.

`RuntimesProofs` proves, for any callers, sessions, pages, tasks, providers and
thresholds (`SessionRuntimeAssumption`, `StdioAssumption`,
`TaskExecutorAssumption`):

| Theorem | Property |
|---|---|
| `SessionsOwnTheirBrowsers` | `SessionRuntimeInv` |
| `StepsKeepBrowsers` | `StepsKeepTheirBrowser` |
| `ProcessesAnswerOnce` | `StdioInv` |
| `IdsKeepPages` | `IdsKeepTheirPage` |
| `ExecutionsAreBooked` | `ExecutorInv` |
| `CooledProvidersRest` | `CooldownsHold` |

*Sessions.* `CallFits` says what a call has in hand at each of its steps: the lock
of its session, a session whose browser was started, one to quit. `StatesFollow`
says that no key of a session's state is of a later run than those that have
begun, nor than the key it is made from.

*Processes.* `TasksFit` relates the task at hand to the answers written,
`HelpersFit` the helpers that run to the connects that failed, and `PagesFit` the
page table to what Playwright has told. `BindingsFit` says that an id is bound to an
open page that has its close handler, without which it could outlive the page, and
that the handler of an open page is of an id bound to it, without which closing
one page could unbind another.

*The library.* `BooksFit` counts handlers that ended against the affinity records,
of which `Fits` says that a provider with as many recent failures as the threshold
has a cooldown; `JobFits` says which backend, context and address belong to an
execution at each step. The router compares scores, which are quotients; the model
compares cross products, and `CrossProducts`, `ScoresAreOrdered`, `SomeAreBest` and
`FirstIsThere` show that these give an order in which some provider is always
first.

`BatchProofs` proves, for any workers, proxies, launches, shard sizes, mailboxes and
pools (`DriverAssumption`, `LaunchAssumption`, `ShardAssumption`, `MailAssumption`,
`PoolAssumption`; `ShardAssumption` says that an old layout is packed, one full file
after the other, as the code that wrote it left it, and no larger than what the
model counts to):

| Theorem | Property |
|---|---|
| `WorkersCloseBrowsers` | `DriversInv` |
| `LaunchesKeepApart` | `LaunchInv` |
| `ResultsHaveNoGaps` | `ShardsInv` |
| `LoginsReadNewCodes` | `MailInv` |
| `PoolsKeepTheGood` | `PoolKeepsTheGood` |

*Browsers.* `BrowserFits` counts a worker's browsers by where it is in its round.
`LaunchFits` says what a launch has made so far, and that a browser which is gone
was quit or ended by a neighbour on its path (`EndedByNeighbour`).

*Results.* The properties of `ShardsInv` are not inductive. `PlaceFits` is what the
state file must tell: every shard before its own is full, its line is not past
what is there, the file is past its line only by interruptions and by the line a
writer is about to record, and nothing lies further on. A state that was lost is
found again from the files or from the old layout, so `OldPlaceFits` says the
same, exactly, of a layout that was not continued, and `MigrationFits` and `Packed`
carry it through a migration that stops half-way. That shards do not run out is
counting: the lines are a finite set of places (`LinesOf`), of which there are at
most `MaxLines`, and a full shard holds at least one (`PlaceIsShard`).

*Mail.* `BaselineFits` says that the baseline of a mailbox is the number of mails it
held when the login looked, or the second of a code no older than any of those.

*The pool.* `PassFits` says that a pass asks for replacements only once every file
it listed is probed, and has deleted nothing before.

Every invariant and every action property of the passing runs is thus a theorem.
Only model-checked are the liveness properties (liveness under fairness is beyond
the prover): `ProviderRecovers`, `DispatchedTaskEnds`, `CallsReturn`,
`ReleasedIsLetGo`, `RuntimesEnd`, `BatchEnds`. Where a theorem has a hypothesis,
the run that checks its property satisfies it, and section 3 says why it is there.

## 5. Not modelled

- *Inside the page flows*: how an element is looked up, typed into and clicked is
  one outcome; a challenge may or may not be solved; the rounds after the email,
  which submit it again on a page that has not moved, change nothing that is kept.
  The site takes a code once (`OAuthExchange`), which is an assumption about it.
  `SuccessWasMet` is about the login's own waits: the address is read once more
  after them, and may be another by then. `EntersNewCodes` is about mailboxes that
  could be looked up.
- *Stealth scripts, captcha clients, proof of work* (`stealth_*.py`,
  `turnstile_*.py`, `shared_sentinel`): data and page content.
- *Proxy settings of the environment* (`shared_proxy`): read-only resolution.
- *Copies that nothing launches*: `runtimes/chrome/runtime.py` (the manager starts
  `chrome_runtime/runtime_entry.py`), `chrome_runtime/driver_factory.py` and
  `chrome_runtime/session_state.py` (imported by each other only). The older
  factory kills every chromedriver when it cleans up, and starts without a proxy
  where it cannot parse one; neither reaches a running program.
- *Operational views and events* (written everywhere, read by no decision), JSON
  normalisation and provider contracts, configuration and start-up, the node
  runtimes (same envelope protocol as chrome), deployment scripts.
- `Manager.Close` only runs in tests. The `/internal` HTTP endpoints for
  heartbeats and completions have no caller in the repository; registration over
  HTTP is `ReRegistration`.
- Inside what is modelled: spelling variants of profiles, actions and kinds;
  pages that pages open; the isolation setting of the native profile, left at its
  default; a retry setting of zero attempts. That Chrome refuses a profile in use
  is an assumption about Chrome (`Occupied`).

## 6. Plan

Done, the most important behaviour first: `Leases`, `Service`, `ServiceProofs`,
`ControlPlane`, `BrowserSessions`, `RouteStrategy`, `RouteStrategyProofs`,
`SessionRuntime`, `StdioRuntime`, `TaskExecutor`, `Repairer` with `WorkQueue`,
`ResultShards`, `DriverRuns`, `TokenPool`, `DriverLaunch`, `MailCodes`,
`AuthPages`, `LoginFlow`, `AboutYou`, `OAuthExchange`, `RegisterFlow`,
`FlowsProofs`, `RepairerProofs`, `ControlPlaneProofs`, `SessionsProofs`,
`RuntimesProofs`, `BatchProofs`.

Next, in this order:

1. What a cancel leaves behind: a form of `LeaseCoversExecution` and `PagesAreOwned`
   that holds with cancellations too, naming the tasks that were cancelled under
   their process, checked and then proved with the invariants at hand.
2. The limit of the pool beside releases: `WithinCapacity` for processes that were
   not asked to exit.
3. The safety half of `DispatchedTaskEnds`: a task that was sent and is not over is
   at its process, in an answer under way, or lost with a process that stopped.
