----------------------------- MODULE DriverRuns -----------------------------
(***************************************************************************)
(* The worker threads of a batch service: worker_loop.run_worker_loop picks*)
(* a proxy (proxy_pool.py) and runs runtime_io.run_register_once, which    *)
(* launches a browser under driver_init_lock, lets the job run in it, and  *)
(* retries what failed: the launch, or the whole round with a new browser. *)
(* What the job does is its outcome.  Scores only weigh the choice between *)
(* proxies, every one of which keeps a positive weight, and are left out.  *)
(***************************************************************************)
EXTENDS Naturals, FiniteSets

CONSTANTS
  Driver,          \* the workers, and the browser each of them drives
  Proxy, NoProxy,
  Deployment,      \* what is configured: [headless, keep, require]
  MaxAttempts,     \* MAX_ATTEMPTS_PER_WORKER
  MaxRounds,       \* MAX_REGISTER_ROUND_RETRIES
  StartupRetries   \* BROWSER_STARTUP_RETRIES

(* headless: HEADLESS; keep: KEEP_BROWSER_OPEN_ON_FAIL, for visible        *)
(* browsers only; require: REQUIRE_PROXY.                                  *)
ASSUME DriverAssumption ==
  /\ NoProxy \notin Proxy
  /\ Deployment \subseteq [headless : BOOLEAN, keep : BOOLEAN, require : BOOLEAN]
  /\ \A d \in Deployment : d.keep => ~d.headless
  /\ MaxAttempts \in Nat \ {0} /\ MaxRounds \in Nat /\ StartupRetries \in Nat

VARIABLES
  deployment,  \* never changed
  cooled,      \* the proxies with a cooldown ahead
  initLock,    \* the workers that hold driver_init_lock
  browsers,    \* how many browsers each worker has left running
  run          \* where each worker is

driverVars == <<deployment, cooled, initLock, browsers, run>>

RunResult == {"none", "success", "failed"}

RunRecord ==
  [pc : {"pick", "lock", "launch", "work", "close", "hold", "mark", "done"},
   attempt : 0..MaxAttempts, round : 0..MaxRounds, startup : 0..StartupRetries,
   proxy : Proxy \union {NoProxy},
   lastExc : BOOLEAN,   \* last_exc is set
   force : BOOLEAN,     \* always_close_error_predicate(last_exc)
   result : RunResult]

NewRun == [pc |-> "pick", attempt |-> 0, round |-> 0, startup |-> 0,
           proxy |-> NoProxy, lastExc |-> FALSE, force |-> FALSE, result |-> "none"]

DriversInit ==
  /\ deployment \in Deployment
  /\ cooled = {} /\ initLock = {}
  /\ browsers = [d \in Driver |-> 0]
  /\ run = [d \in Driver |-> NewRun]

InRun(d, pc) == run[d].pc = pc

SetRun(d, r) == run' = [run EXCEPT ![d] = r]

(* A visible browser gets one attempt, whatever is configured.             *)
Attempts == IF deployment.headless THEN MaxAttempts ELSE 1

-----------------------------------------------------------------------------
(* pick_proxy: the current one until it rotates or cools, else another     *)
(* ready one; none if all cool.                                            *)
Pickable(d) ==
  LET ready == Proxy \ cooled
  IN  IF ready = {} THEN {NoProxy} ELSE ready

(* Mutant: one attempt too many.                                           *)
PickProxyAgain(d) ==
  /\ InRun(d, "pick")
  /\ IF run[d].attempt > Attempts
     THEN SetRun(d, [run[d] EXCEPT !.pc = "done"])
     ELSE SetRun(d, [NewRun EXCEPT !.attempt = run[d].attempt + 1, !.pc = "lock"])
  /\ UNCHANGED <<deployment, cooled, initLock, browsers>>

(* run_worker_loop up to run_register_once.  Without a proxy where one is  *)
(* required an attempt is spent on nothing.                                *)
PickProxy(d) ==
  /\ InRun(d, "pick")
  /\ IF run[d].attempt >= Attempts
     THEN SetRun(d, [run[d] EXCEPT !.pc = "done"])
     ELSE \E p \in Pickable(d) :
            SetRun(d, [NewRun EXCEPT
              !.attempt = run[d].attempt + 1, !.proxy = p,
              !.pc = IF p # NoProxy \/ ~deployment.require THEN "lock"
                     ELSE IF deployment.headless THEN "pick" ELSE "done"])
  /\ UNCHANGED <<deployment, cooled, initLock, browsers>>

AcquireInit(d) ==
  /\ InRun(d, "lock") /\ initLock = {}
  /\ initLock' = {d}
  /\ SetRun(d, [run[d] EXCEPT !.pc = "launch", !.startup = 0])
  /\ UNCHANGED <<deployment, cooled, browsers>>

(* new_driver; a transient failure is tried again under the same lock.     *)
Launched(d) ==
  /\ InRun(d, "launch")
  /\ browsers' = [browsers EXCEPT ![d] = @ + 1]
  /\ initLock' = initLock \ {d}
  /\ SetRun(d, [run[d] EXCEPT !.pc = "work"])
  /\ UNCHANGED <<deployment, cooled>>

LaunchRetried(d) ==
  /\ InRun(d, "launch") /\ run[d].startup < StartupRetries
  /\ SetRun(d, [run[d] EXCEPT !.startup = @ + 1, !.lastExc = TRUE, !.force = FALSE])
  /\ UNCHANGED <<deployment, cooled, initLock, browsers>>

(* Mutant: the lock survives a failed launch.                              *)
LaunchFailsLocked(d) ==
  /\ InRun(d, "launch")
  /\ SetRun(d, [run[d] EXCEPT !.pc = "close", !.result = "failed",
                              !.lastExc = TRUE, !.force = FALSE])
  /\ UNCHANGED <<deployment, cooled, initLock, browsers>>

LaunchFails(d) ==
  /\ InRun(d, "launch")
  /\ initLock' = initLock \ {d}
  /\ SetRun(d, [run[d] EXCEPT !.pc = "close", !.result = "failed",
                              !.lastExc = TRUE, !.force = FALSE])
  /\ UNCHANGED <<deployment, cooled, browsers>>

-----------------------------------------------------------------------------
(* The job, register_fn. *)

JobSucceeds(d) ==
  /\ InRun(d, "work")
  /\ SetRun(d, [run[d] EXCEPT !.pc = "close", !.result = "success"])
  /\ UNCHANGED <<deployment, cooled, initLock, browsers>>

(* An error that is no RuntimeError is not kept in last_exc.               *)
JobFails(d) ==
  /\ InRun(d, "work")
  /\ \/ SetRun(d, [run[d] EXCEPT !.pc = "close", !.result = "failed"])
     \/ \E force \in BOOLEAN :
          SetRun(d, [run[d] EXCEPT !.pc = "close", !.result = "failed",
                                   !.lastExc = TRUE, !.force = force])
  /\ UNCHANGED <<deployment, cooled, initLock, browsers>>

Closed(d) == [browsers EXCEPT ![d] = IF @ > 0 THEN @ - 1 ELSE 0]

(* Mutant: the next round starts with the browser of the last one open.    *)
JobRestartsOpen(d) ==
  /\ InRun(d, "work") /\ run[d].round < MaxRounds
  /\ SetRun(d, [run[d] EXCEPT !.pc = "lock", !.round = @ + 1,
                              !.lastExc = TRUE, !.force = FALSE])
  /\ UNCHANGED <<deployment, cooled, initLock, browsers>>

(* A recoverable failure: quit, wait, and the round starts over.           *)
JobRestarts(d) ==
  /\ InRun(d, "work") /\ run[d].round < MaxRounds
  /\ browsers' = Closed(d)
  /\ SetRun(d, [run[d] EXCEPT !.pc = "lock", !.round = @ + 1,
                              !.lastExc = TRUE, !.force = FALSE])
  /\ UNCHANGED <<deployment, cooled, initLock>>

(* Mutant: a successful run keeps its browser too.                         *)
ShouldCloseFailed(r) ==
  ~deployment.keep \/ (r.lastExc /\ r.round < MaxRounds) \/ r.force

(* The finally block.                                                      *)
ShouldClose(r) ==
  \/ ~deployment.keep
  \/ r.result = "success"
  \/ r.lastExc /\ r.round < MaxRounds
  \/ r.force

CloseBrowser(d) ==
  /\ InRun(d, "close")
  /\ LET close == ShouldClose(run[d])
     IN  /\ browsers' = IF close THEN Closed(d) ELSE browsers
         /\ SetRun(d, [run[d] EXCEPT !.pc =
              IF close \/ browsers[d] = 0 THEN "mark" ELSE "hold"])
  /\ UNCHANGED <<deployment, cooled, initLock>>

(* The browser is held for a person to look at, until it is closed or      *)
(* KEEP_BROWSER_OPEN_ON_FAIL_SECONDS are over; then it is left running.    *)
HoldBrowser(d) ==
  /\ InRun(d, "hold")
  /\ browsers' = Closed(d) \/ UNCHANGED browsers
  /\ SetRun(d, [run[d] EXCEPT !.pc = "mark"])
  /\ UNCHANGED <<deployment, cooled, initLock>>

(* proxy_mark_result and the end of the pass.                              *)
MarkResult(d) ==
  /\ InRun(d, "mark")
  /\ cooled' = IF run[d].result = "failed" /\ run[d].proxy # NoProxy
               THEN cooled \union {run[d].proxy} ELSE cooled
  /\ SetRun(d, [run[d] EXCEPT !.pc = IF deployment.headless THEN "pick" ELSE "done"])
  /\ UNCHANGED <<deployment, initLock, browsers>>

ProxyWarms(p) ==
  /\ p \in cooled /\ cooled' = cooled \ {p}
  /\ UNCHANGED <<deployment, initLock, browsers, run>>

DriverStep(d) ==
  \/ PickProxy(d) \/ AcquireInit(d) \/ Launched(d) \/ LaunchRetried(d) \/ LaunchFails(d)
  \/ JobSucceeds(d) \/ JobFails(d) \/ JobRestarts(d) \/ CloseBrowser(d) \/ HoldBrowser(d) \/ MarkResult(d)

DriversNext ==
  \/ \E d \in Driver : DriverStep(d)
  \/ \E p \in Proxy : ProxyWarms(p)

DriversSpec == DriversInit /\ [][DriversNext]_driverVars

(* Threads run; retries, rounds and holds are bounded by the code.         *)
DriversFairness == \A d \in Driver : WF_driverVars(DriverStep(d))

-----------------------------------------------------------------------------
(* Properties. *)

(* Type correctness of the workers.                                        *)
DriversTypeOK ==
  /\ deployment \in Deployment
  /\ cooled \subseteq Proxy /\ initLock \subseteq Driver
  /\ browsers \in [Driver -> Nat]
  /\ run \in [Driver -> RunRecord]

(* However launches, rounds and closing blocks follow each other, a worker *)
(* has one browser at most, and leaves one behind only where a failed job  *)
(* was to be looked at (runtime_io.py:118-144).                            *)
BrowsersAreClosed ==
  \A d \in Driver :
    /\ browsers[d] <= 1
    /\ browsers[d] = 1 /\ run[d].pc \notin {"work", "close", "hold"} =>
         deployment.keep /\ run[d].result = "failed"

(* Every worker comes to the end of its attempts: no failure of a launch   *)
(* or a round leaves the lock behind or repeats for ever.                  *)
WorkersStop == \A d \in Driver : <>(run[d].pc = "done")

(* Workers hold one lock, one proxy and one browser at most, and give them *)
(* back (runtime_io.py:59-144, worker_loop.py:34-75).                      *)
DriversInv == DriversTypeOK /\ BrowsersAreClosed

=============================================================================
