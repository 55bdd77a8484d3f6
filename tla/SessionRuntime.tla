--------------------------- MODULE SessionRuntime ---------------------------
(***************************************************************************)
(* browser_runtime/session_runtime.py: BrowserSessionManager and the steps *)
(* that run in its sessions, under callers in several threads, which is    *)
(* what its locks are for.  Every call but a release first releases the    *)
(* sessions that have expired.  The manager's lock is held for single      *)
(* accesses to the table; the lock of a session is held through a whole    *)
(* step, and a release takes the session from the table before it waits    *)
(* for that lock.  Actions on a page take no lock at all.                  *)
(*                                                                         *)
(* What a step does on its pages is its outcome; what it leaves in         *)
(* session.state is kept, as the number of the run that made it.           *)
(***************************************************************************)
EXTENDS Naturals

CONSTANTS
  Session, NoSession,
  Caller, Nobody,
  Menu,    \* what a behaviour contains: [ops, sessions, calls]
  MaxRuns  \* runs that register or log in

RegisterOp == {"register_auth", "register_profile", "register_finalize", "register_full"}
RepairOp == {"repair_login", "repair_finalize", "repair_full", "openai_web_login"}
SessionOp == {"open", "close", "list", "renew", "page"} \union RegisterOp \union RepairOp

ASSUME SessionRuntimeAssumption ==
  /\ NoSession \notin Session /\ Nobody \notin Caller
  /\ Menu \subseteq [ops : SUBSET SessionOp, sessions : SUBSET Session, calls : Nat]
  /\ MaxRuns \in Nat

VARIABLES
  menu,      \* the bounds of this behaviour, never changed
  listed,    \* _sessions
  expired,   \* the sessions whose expires_at is over
  keeper,    \* who holds session.lock
  driver,    \* the browser of a session: "none", "open" or "quit"
  progress,  \* session.state
  call,      \* what each caller is doing
  calls,     \* how many calls have begun
  runs       \* how many runs have begun

sessionVars == <<menu, listed, expired, keeper, driver, progress, call, calls, runs>>

(* The keys of session.state; 0: not there.                                *)
ProgressRecord ==
  [auth : 0..MaxRuns, profile : 0..MaxRuns, finalize : 0..MaxRuns,
   result : 0..MaxRuns, full : 0..MaxRuns,  \* register_*
   login : 0..MaxRuns, repaired : 0..MaxRuns, repairedFull : 0..MaxRuns,  \* repair_*
   web : 0..MaxRuns]

Blank == [auth |-> 0, profile |-> 0, finalize |-> 0, result |-> 0, full |-> 0,
          login |-> 0, repaired |-> 0, repairedFull |-> 0, web |-> 0]

CallPc == {"idle", "reap", "quit", "launch", "enlist", "lookup", "enter", "work", "page"}

SessionCall ==
  [pc : CallPc, op : SessionOp \union {"none"}, session : Session \union {NoSession},
   stale : SUBSET Session,             \* found expired and still to release
   popped : Session \union {NoSession}]  \* taken from the table, still to quit

NoCall == [pc |-> "idle", op |-> "none", session |-> NoSession, stale |-> {},
           popped |-> NoSession]

SessionRuntimeInit ==
  /\ menu \in Menu
  /\ listed = {} /\ expired = {}
  /\ keeper = [s \in Session |-> Nobody]
  /\ driver = [s \in Session |-> "none"]
  /\ progress = [s \in Session |-> Blank]
  /\ call = [c \in Caller |-> NoCall]
  /\ calls = 0 /\ runs = 0

CallAt(c, pc) == call[c].pc = pc

SetCall(c, r) == call' = [call EXCEPT ![c] = r]

Return(c) == SetCall(c, NoCall)

-----------------------------------------------------------------------------
(* A call begins: a release takes its session from the table at once, all  *)
(* others list the expired ones.                                           *)
BeginCall(c, op, s) ==
  /\ CallAt(c, "idle") /\ op \in menu.ops /\ calls < menu.calls
  /\ op \in {"open", "list"} => s = NoSession
  /\ op \notin {"open", "list"} => s # NoSession /\ driver[s] # "none"
  /\ calls' = calls + 1
  /\ IF op = "close"
     THEN /\ listed' = listed \ {s}
          /\ SetCall(c, IF s \in listed
                        THEN [NoCall EXCEPT !.pc = "quit", !.op = op, !.popped = s]
                        ELSE NoCall)
     ELSE /\ UNCHANGED listed
          /\ SetCall(c, [NoCall EXCEPT !.pc = "reap", !.op = op, !.session = s,
                                       !.stale = listed \intersect expired])
  /\ UNCHANGED <<menu, expired, keeper, driver, progress, runs>>

(* reap_expired: the stale ones are released one after the other; a        *)
(* session renewed or released meanwhile is not looked at again.           *)
PopStale(c) ==
  /\ CallAt(c, "reap")
  /\ \E s \in call[c].stale :
       /\ listed' = listed \ {s}
       /\ SetCall(c, IF s \in listed
                     THEN [call[c] EXCEPT !.pc = "quit", !.popped = s, !.stale = @ \ {s}]
                     ELSE [call[c] EXCEPT !.stale = @ \ {s}])
  /\ UNCHANGED <<menu, expired, keeper, driver, progress, calls, runs>>

(* Mutant: a busy session is taken from the table and left at that.        *)
QuitUnlessBusy(c) ==
  /\ CallAt(c, "quit")
  /\ LET s == call[c].popped
     IN  IF keeper[s] = Nobody
         THEN /\ driver' = [driver EXCEPT ![s] = "quit"]
              /\ progress' = [progress EXCEPT ![s] = Blank]
         ELSE UNCHANGED <<driver, progress>>
  /\ IF call[c].op = "close" THEN Return(c)
     ELSE SetCall(c, [call[c] EXCEPT !.pc = "reap", !.popped = NoSession])
  /\ UNCHANGED <<menu, listed, expired, keeper, calls, runs>>

(* Mutant: the browser is quit without waiting for the lock.               *)
QuitNow(c) ==
  /\ CallAt(c, "quit")
  /\ driver' = [driver EXCEPT ![call[c].popped] = "quit"]
  /\ progress' = [progress EXCEPT ![call[c].popped] = Blank]
  /\ IF call[c].op = "close" THEN Return(c)
     ELSE SetCall(c, [call[c] EXCEPT !.pc = "reap", !.popped = NoSession])
  /\ UNCHANGED <<menu, listed, expired, keeper, calls, runs>>

(* The second half of release_session, under the session's lock.           *)
QuitPopped(c) ==
  LET s == call[c].popped
  IN  /\ CallAt(c, "quit") /\ keeper[s] = Nobody
      /\ driver' = [driver EXCEPT ![s] = "quit"]
      /\ progress' = [progress EXCEPT ![s] = Blank]
      /\ IF call[c].op = "close" THEN Return(c)
         ELSE SetCall(c, [call[c] EXCEPT !.pc = "reap", !.popped = NoSession])
      /\ UNCHANGED <<menu, listed, expired, keeper, calls, runs>>

Reaped(c) ==
  /\ CallAt(c, "reap") /\ call[c].stale = {}
  /\ CASE call[c].op = "open" -> SetCall(c, [call[c] EXCEPT !.pc = "launch"])
       [] call[c].op = "list" -> Return(c)
       [] OTHER -> SetCall(c, [call[c] EXCEPT !.pc = "lookup"])
  /\ UNCHANGED <<menu, listed, expired, keeper, driver, progress, calls, runs>>

-----------------------------------------------------------------------------
(* acquire_session: the launch, under driver_init_lock, and the entry.     *)
LaunchSession(c) ==
  /\ CallAt(c, "launch")
  /\ \E s \in menu.sessions :
       /\ driver[s] = "none"
       /\ driver' = [driver EXCEPT ![s] = "open"]
       /\ SetCall(c, [call[c] EXCEPT !.pc = "enlist", !.session = s])
  /\ UNCHANGED <<menu, listed, expired, keeper, progress, calls, runs>>

(* Mutant: a session is entered although its launch failed.                *)
LaunchGoesOn(c) ==
  /\ CallAt(c, "launch")
  /\ SetCall(c, [call[c] EXCEPT !.pc = "enlist"])
  /\ UNCHANGED <<menu, listed, expired, keeper, driver, progress, calls, runs>>

LaunchRaises(c) ==
  /\ CallAt(c, "launch") /\ Return(c)
  /\ UNCHANGED <<menu, listed, expired, keeper, driver, progress, calls, runs>>

Enlist(c) ==
  /\ CallAt(c, "enlist")
  /\ listed' = listed \union {call[c].session} /\ Return(c)
  /\ UNCHANGED <<menu, expired, keeper, driver, progress, calls, runs>>

(* get_session; the caller keeps the record it found.                      *)
Lookup(c) ==
  /\ CallAt(c, "lookup")
  /\ IF call[c].session \notin listed THEN Return(c)
     ELSE SetCall(c, [call[c] EXCEPT !.pc = IF call[c].op = "page" THEN "page" ELSE "enter"])
  /\ UNCHANGED <<menu, listed, expired, keeper, driver, progress, calls, runs>>

(* Reading or driving the page: with a quit browser it raises.             *)
PageAction(c) ==
  /\ CallAt(c, "page") /\ Return(c)
  /\ UNCHANGED <<menu, listed, expired, keeper, driver, progress, calls, runs>>

(* with session.lock                                                       *)
EnterSession(c) ==
  /\ CallAt(c, "enter") /\ keeper[call[c].session] = Nobody
  /\ keeper' = [keeper EXCEPT ![call[c].session] = c]
  /\ SetCall(c, [call[c] EXCEPT !.pc = "work"])
  /\ UNCHANGED <<menu, listed, expired, driver, progress, calls, runs>>

-----------------------------------------------------------------------------
(* The steps: the states a step may leave, a failed one included, if run n *)
(* is the one it starts.                                                   *)

RegisterAuth(p, n) == {p, [p EXCEPT !.auth = n]}

RegisterProfile(p, n) == {p, [p EXCEPT !.profile = IF p.auth > 0 THEN p.auth ELSE n]}

(* The finalize key is written before the payload is looked at.            *)
RegisterFinalize(p) ==
  IF p.auth = 0 \/ p.profile = 0 THEN {p}
  ELSE {p, [p EXCEPT !.finalize = p.auth],
        [p EXCEPT !.finalize = p.auth, !.result = p.auth]}

(* Mutant: one key is forgotten in the list of keys to clear.              *)
RegisterClearedBut(p) == [p EXCEPT !.auth = 0, !.profile = 0, !.finalize = 0, !.result = 0]

RegisterCleared(p) ==
  [p EXCEPT !.auth = 0, !.profile = 0, !.finalize = 0, !.result = 0, !.full = 0]

RegisterFull(p, n) ==
  LET clear == RegisterCleared(p)
      made == [clear EXCEPT !.auth = n, !.profile = n, !.finalize = n]
  IN  {clear, made, [made EXCEPT !.result = n, !.full = n]}

RepairLogin(p, n) == {p, [p EXCEPT !.login = n]}

RepairFinalize(p) == IF p.login = 0 THEN {p} ELSE {p, [p EXCEPT !.repaired = p.login]}

RepairCleared(p) == [p EXCEPT !.login = 0, !.repaired = 0, !.repairedFull = 0]

RepairFull(p, n) ==
  LET clear == RepairCleared(p)
  IN  {clear, [clear EXCEPT !.login = n],
       [clear EXCEPT !.login = n, !.repaired = n, !.repairedFull = n]}

OpenaiWebLogin(p, n) == {p, [p EXCEPT !.web = n]}

StartsRun(op) == op \notin {"register_finalize", "repair_finalize", "renew"}

Outcomes(op, p, n) ==
  CASE op = "register_auth"     -> RegisterAuth(p, n)
    [] op = "register_profile"  -> RegisterProfile(p, n)
    [] op = "register_finalize" -> RegisterFinalize(p)
    [] op = "register_full"     -> RegisterFull(p, n)
    [] op = "repair_login"      -> RepairLogin(p, n)
    [] op = "repair_finalize"   -> RepairFinalize(p)
    [] op = "repair_full"       -> RepairFull(p, n)
    [] op = "openai_web_login"  -> OpenaiWebLogin(p, n)
    [] op = "renew"             -> {p}

(* In a browser that is gone, and over a state that is cleared, a step     *)
(* raises; a full run has cleared the state before it does.                *)
After(c, s, n) ==
  IF driver[s] = "open" THEN Outcomes(call[c].op, progress[s], n) ELSE {progress[s]}

(* Mutant: a step that raises keeps the lock.                              *)
FinishStepHolding(c) ==
  LET s == call[c].session
      n == IF StartsRun(call[c].op) THEN runs + 1 ELSE runs
  IN  /\ CallAt(c, "work")
      /\ \E p \in IF n <= MaxRuns THEN After(c, s, n) ELSE {progress[s]} :
           progress' = [progress EXCEPT ![s] = p]
      /\ keeper' = IF progress' = progress THEN keeper ELSE [keeper EXCEPT ![s] = Nobody]
      /\ expired' = IF call[c].op = "renew" THEN expired \ {s} ELSE expired
      /\ runs' = IF n <= MaxRuns THEN n ELSE runs
      /\ Return(c)
      /\ UNCHANGED <<menu, listed, driver, calls>>

(* The step ends, or raises; renew_session moves expires_at.               *)
FinishStep(c) ==
  LET s == call[c].session
      n == IF StartsRun(call[c].op) THEN runs + 1 ELSE runs
  IN  /\ CallAt(c, "work")
      /\ \E p \in IF n <= MaxRuns THEN After(c, s, n) ELSE {progress[s]} :
           progress' = [progress EXCEPT ![s] = p]
      /\ keeper' = [keeper EXCEPT ![s] = Nobody]
      /\ expired' = IF call[c].op = "renew" THEN expired \ {s} ELSE expired
      /\ runs' = IF n <= MaxRuns THEN n ELSE runs
      /\ Return(c)
      /\ UNCHANGED <<menu, listed, driver, calls>>

(* Time passes.                                                            *)
Expires(s) ==
  /\ s \in listed /\ expired' = expired \union {s}
  /\ UNCHANGED <<menu, listed, keeper, driver, progress, call, calls, runs>>

CallStep(c) ==
  \/ PopStale(c) \/ QuitPopped(c) \/ Reaped(c)
  \/ LaunchSession(c) \/ LaunchRaises(c) \/ Enlist(c)
  \/ Lookup(c) \/ PageAction(c) \/ EnterSession(c) \/ FinishStep(c)

SessionRuntimeNext ==
  \/ \E c \in Caller : CallStep(c)
  \/ \E c \in Caller, op \in SessionOp, s \in Session \union {NoSession} : BeginCall(c, op, s)
  \/ \E s \in Session : Expires(s)

SessionRuntimeSpec == SessionRuntimeInit /\ [][SessionRuntimeNext]_sessionVars

(* The threads run, and every step has an end: its waits are bounded.      *)
SessionRuntimeFairness == \A c \in Caller : WF_sessionVars(CallStep(c))

-----------------------------------------------------------------------------
(* Properties. *)

(* Type correctness of the table, the sessions and the calls.              *)
SessionRuntimeTypeOK ==
  /\ menu \in Menu
  /\ listed \subseteq Session /\ expired \subseteq Session
  /\ keeper \in [Session -> Caller \union {Nobody}]
  /\ driver \in [Session -> {"none", "open", "quit"}]
  /\ progress \in [Session -> ProgressRecord]
  /\ call \in [Caller -> SessionCall]
  /\ calls \in 0..menu.calls /\ runs \in 0..MaxRuns

(* No browser is left running without a session in the table or a call     *)
(* about to put it there or to quit it, however expiry, releases and       *)
(* launches race (session_runtime.py:294-346, 364-375).                    *)
BrowsersAreOwned ==
  \A s \in Session : driver[s] = "open" =>
    \/ s \in listed
    \/ \E c \in Caller : \/ CallAt(c, "enlist") /\ call[c].session = s
                         \/ CallAt(c, "quit") /\ call[c].popped = s

(* A step keeps the browser it began with, although releases and expiry    *)
(* take its session from the table meanwhile (session_runtime.py:369-374). *)
StepsKeepTheirBrowser ==
  [][\A c \in Caller :
       CallAt(c, "work") /\ CallAt(c, "work")' =>
         driver'[call[c].session] = driver[call[c].session]]_sessionVars

(* What a session shows of a run is never older news than what it was made *)
(* from: steps called in any order, failures half way and full runs that   *)
(* start over leave no key without the ones before it, and none of a later *)
(* run than theirs (session_runtime.py:556-561, 760-762, 1158, 1248).      *)
KeysFollow ==
  \A s \in Session :
    LET p == progress[s]
    IN  /\ p.full <= p.result /\ p.result <= p.finalize /\ p.finalize <= p.auth
        /\ p.finalize > 0 => p.profile > 0
        /\ p.repairedFull <= p.repaired /\ p.repaired <= p.login

(* Every call returns: waiting for the lock of a session, alone or while   *)
(* reaping, never closes a circle, and no step that raises keeps a lock.   *)
SessionCallsReturn == \A c \in Caller : ~CallAt(c, "idle") ~> CallAt(c, "idle")

(* Sessions, browsers and the keys of session.state go together, in any    *)
(* order of calls (session_runtime.py:294-375, 464-1272).                  *)
SessionRuntimeInv == SessionRuntimeTypeOK /\ BrowsersAreOwned /\ KeysFollow

=============================================================================
