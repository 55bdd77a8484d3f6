------------------------------ MODULE BatchProofs ------------------------------
(***************************************************************************)
(* Theorems about the parts of a batch service, for every number of        *)
(* workers, proxies, launches, profiles, result lines, mailboxes and pool  *)
(* files and every bound: a worker closes the browsers it opens; a launch  *)
(* gets its own profile and proxy and ends nobody else's browser; the      *)
(* results have no gaps; a login takes the code that was sent for it; and  *)
(* the pool loses only what the server rejected.                           *)
(***************************************************************************)
EXTENDS DriverRuns, DriverLaunch, ResultShards, MailCodes, TokenPool, WellFoundedInduction,
        FiniteSetTheorems, TLAPS

-----------------------------------------------------------------------------
(***************************************************************************)
(* The browser of a worker, by where the worker is in a round: none before *)
(* the launch; any number from the job to the end of the closing block,    *)
(* which is one or none; and then one only if a failed job was to be       *)
(* looked at, which ends the attempts, for the browser is visible.         *)
(***************************************************************************)
BrowserFits(pc, outcome, b) ==
  /\ b <= 1
  /\ pc \in {"pick", "lock", "launch"} => b = 0
  /\ pc = "close" => outcome \in {"success", "failed"}
  /\ pc = "hold" => deployment.keep /\ outcome = "failed"
  /\ pc \in {"mark", "done"} /\ b = 1 => deployment.keep /\ outcome = "failed"

DriversIInv ==
  /\ DriversTypeOK
  /\ \A d \in Driver : BrowserFits(run[d].pc, run[d].result, browsers[d])

(* A worker's step is about its own run and its own browsers.              *)
LEMMA DriverStepKeeps ==
  ASSUME DriversIInv, NEW d \in Driver, DriverStep(d)
  PROVE  DriversIInv'
<1> DEFINE r == run[d]  b == browsers[d]
<1>1. /\ r \in RunRecord /\ b \in Nat
      /\ MaxAttempts \in Nat \ {0} /\ MaxRounds \in Nat /\ StartupRetries \in Nat
      /\ 0 \in 0..StartupRetries
  BY DriverAssumption DEF DriversIInv, DriversTypeOK
<1>2. r.startup \in 0..StartupRetries /\ r.round \in 0..MaxRounds
  BY <1>1 DEF RunRecord
<1>3. BrowserFits(r.pc, r.result, b)
  BY DEF DriversIInv
<1>4. deployment.keep => ~deployment.headless
  BY DriverAssumption DEF DriversIInv, DriversTypeOK
<1>5. r.pc \in {"pick", "lock", "launch"} => b = 0
  BY <1>3 DEF BrowserFits
<1>6. b = 0 \/ b = 1
  BY <1>1, <1>3 DEF BrowserFits
<1>7. Closed(d) = [browsers EXCEPT ![d] = 0]
  <2>1. (IF b > 0 THEN b - 1 ELSE 0) = 0 BY <1>6
  <2> QED BY <2>1 DEF Closed
<1>8. SUFFICES ASSUME deployment' = deployment, cooled' \subseteq Proxy, initLock' \subseteq Driver,
                      NEW r2 \in RunRecord, NEW b2 \in Nat,
                      run' = [run EXCEPT ![d] = r2], browsers' = [browsers EXCEPT ![d] = b2],
                      BrowserFits(r2.pc, r2.result, b2)
               PROVE  DriversIInv'
  <2> DEFINE Step(r2, b2) ==
        /\ deployment' = deployment /\ cooled' \subseteq Proxy /\ initLock' \subseteq Driver
        /\ run' = [run EXCEPT ![d] = r2] /\ browsers' = [browsers EXCEPT ![d] = b2]
  <2>1. SUFFICES \E r2 \in RunRecord, b2 \in Nat : Step(r2, b2) /\ BrowserFits(r2.pc, r2.result, b2)
    BY <1>8
  <2> USE <1>1 DEF RunRecord, RunResult, SetRun, InRun
  <2>0. /\ browsers = [browsers EXCEPT ![d] = b]
        /\ cooled \subseteq Proxy /\ initLock \subseteq Driver
    BY DEF DriversIInv, DriversTypeOK
  <2>2. CASE PickProxy(d)
    <3>0. b = 0 BY <1>5, <2>2 DEF PickProxy
    <3>1. CASE r.attempt >= Attempts
      <4> DEFINE r2 == [r EXCEPT !.pc = "done"]
      <4>1. Step(r2, b) BY <2>0, <2>2, <3>1 DEF PickProxy
      <4>2. r2 \in RunRecord /\ r2.pc = "done" /\ r2.result = r.result OBVIOUS
      <4>3. BrowserFits(r2.pc, r2.result, b) BY <3>0, <4>2 DEF BrowserFits
      <4> HIDE DEF r2, Step
      <4> QED BY <4>1, <4>2, <4>3
    <3>2. CASE ~(r.attempt >= Attempts)
      <4>1. PICK p \in Proxy \union {NoProxy}, pc \in {"lock", "pick", "done"} :
              run' = [run EXCEPT ![d] =
                        [NewRun EXCEPT !.attempt = r.attempt + 1, !.proxy = p, !.pc = pc]]
        BY <2>2, <3>2 DEF PickProxy, Pickable
      <4> DEFINE r2 == [NewRun EXCEPT !.attempt = r.attempt + 1, !.proxy = p, !.pc = pc]
      <4>2. r.attempt + 1 \in 0..MaxAttempts BY <3>2 DEF Attempts
      <4>3. r2 \in RunRecord
        <5>1. NewRun \in RunRecord BY DEF NewRun
        <5> QED BY <4>2, <5>1
      <4>4. r2.pc = pc BY DEF NewRun
      <4>5. BrowserFits(r2.pc, r2.result, b) BY <3>0, <4>4 DEF BrowserFits
      <4>6. Step(r2, b) BY <2>0, <2>2, <4>1 DEF PickProxy
      <4> HIDE DEF r2, Step
      <4> QED BY <4>3, <4>5, <4>6
    <3> QED BY <3>1, <3>2
  <2>3. CASE AcquireInit(d)
    <3> DEFINE r2 == [r EXCEPT !.pc = "launch", !.startup = 0]
    <3>1. Step(r2, b) BY <2>0, <2>3 DEF AcquireInit
    <3>2. r2 \in RunRecord /\ r2.pc = "launch" /\ r2.result = r.result OBVIOUS
    <3>3. BrowserFits(r2.pc, r2.result, b) BY <1>5, <2>3, <3>2 DEF AcquireInit, BrowserFits
    <3> HIDE DEF r2, Step
    <3> QED BY <3>1, <3>2, <3>3
  <2>4. CASE Launched(d)
    <3> DEFINE r2 == [r EXCEPT !.pc = "work"]
    <3>1. Step(r2, b + 1) BY <2>0, <2>4 DEF Launched
    <3>2. r2 \in RunRecord /\ r2.pc = "work" /\ r2.result = r.result BY <2>4 DEF Launched
    <3>3. BrowserFits(r2.pc, r2.result, b + 1) BY <1>5, <2>4, <3>2 DEF Launched, BrowserFits
    <3> HIDE DEF r2, Step
    <3> QED BY <3>1, <3>2, <3>3
  <2>5. CASE LaunchRetried(d)
    <3> DEFINE r2 == [r EXCEPT !.startup = @ + 1, !.lastExc = TRUE, !.force = FALSE]
    <3>1. Step(r2, b) BY <2>0, <2>5 DEF LaunchRetried
    <3>2. r2 \in RunRecord /\ r2.pc = "launch" /\ r2.result = r.result
      <4>1. r.startup + 1 \in 0..StartupRetries BY <1>2, <2>5 DEF LaunchRetried
      <4>2. r.pc = "launch" BY <2>5 DEF LaunchRetried
      <4> QED BY <4>1, <4>2
    <3>3. BrowserFits(r2.pc, r2.result, b) BY <1>5, <2>5, <3>2 DEF LaunchRetried, BrowserFits
    <3> HIDE DEF r2, Step
    <3> QED BY <3>1, <3>2, <3>3
  <2>6. CASE LaunchFails(d)
    <3> DEFINE r2 == [r EXCEPT !.pc = "close", !.result = "failed", !.lastExc = TRUE,
                               !.force = FALSE]
    <3>1. Step(r2, b) BY <2>0, <2>6 DEF LaunchFails
    <3>2. r2 \in RunRecord /\ r2.pc = "close" /\ r2.result = "failed" BY <2>6 DEF LaunchFails
    <3>3. BrowserFits(r2.pc, r2.result, b) BY <1>5, <2>6, <3>2 DEF LaunchFails, BrowserFits
    <3> HIDE DEF r2, Step
    <3> QED BY <3>1, <3>2, <3>3
  <2>7. CASE JobSucceeds(d)
    <3> DEFINE r2 == [r EXCEPT !.pc = "close", !.result = "success"]
    <3>1. Step(r2, b) BY <2>0, <2>7 DEF JobSucceeds
    <3>2. r2 \in RunRecord /\ r2.pc = "close" /\ r2.result = "success" BY <2>7 DEF JobSucceeds
    <3>3. BrowserFits(r2.pc, r2.result, b) BY <1>3, <2>7, <3>2 DEF JobSucceeds, BrowserFits
    <3> HIDE DEF r2, Step
    <3> QED BY <3>1, <3>2, <3>3
  <2>8. CASE JobFails(d)
    <3>1. CASE run' = [run EXCEPT ![d] = [r EXCEPT !.pc = "close", !.result = "failed"]]
      <4> DEFINE r2 == [r EXCEPT !.pc = "close", !.result = "failed"]
      <4>1. Step(r2, b) BY <2>0, <2>8, <3>1 DEF JobFails
      <4>2. r2 \in RunRecord /\ r2.pc = "close" /\ r2.result = "failed" OBVIOUS
      <4>3. BrowserFits(r2.pc, r2.result, b) BY <1>3, <2>8, <4>2 DEF JobFails, BrowserFits
      <4> HIDE DEF r2, Step
      <4> QED BY <4>1, <4>2, <4>3
    <3>2. ASSUME NEW force \in BOOLEAN,
                 run' = [run EXCEPT ![d] = [r EXCEPT !.pc = "close", !.result = "failed",
                                                     !.lastExc = TRUE, !.force = force]]
          PROVE  \E r2 \in RunRecord, b2 \in Nat : Step(r2, b2) /\ BrowserFits(r2.pc, r2.result, b2)
      <4> DEFINE r2 == [r EXCEPT !.pc = "close", !.result = "failed",
                                 !.lastExc = TRUE, !.force = force]
      <4>1. Step(r2, b) BY <2>0, <2>8, <3>2 DEF JobFails
      <4>2. r2 \in RunRecord /\ r2.pc = "close" /\ r2.result = "failed" OBVIOUS
      <4>3. BrowserFits(r2.pc, r2.result, b) BY <1>3, <2>8, <4>2 DEF JobFails, BrowserFits
      <4> HIDE DEF r2, Step
      <4> QED BY <4>1, <4>2, <4>3
    <3> QED BY <2>8, <3>1, <3>2 DEF JobFails
  <2>9. CASE JobRestarts(d)
    <3> DEFINE r2 == [r EXCEPT !.pc = "lock", !.round = @ + 1, !.lastExc = TRUE, !.force = FALSE]
    <3>1. Step(r2, 0) BY <1>7, <2>0, <2>9 DEF JobRestarts
    <3>2. r2 \in RunRecord /\ r2.pc = "lock" /\ r2.result = r.result
      <4>1. r.round + 1 \in 0..MaxRounds BY <1>2, <2>9 DEF JobRestarts
      <4> QED BY <4>1
    <3>3. BrowserFits(r2.pc, r2.result, 0) BY <1>3, <2>9, <3>2 DEF JobRestarts, BrowserFits
    <3> HIDE DEF r2, Step
    <3> QED BY <3>1, <3>2, <3>3
  <2>10. CASE CloseBrowser(d)
    <3>1. ASSUME ShouldClose(r)
          PROVE  \E r2 \in RunRecord, b2 \in Nat : Step(r2, b2) /\ BrowserFits(r2.pc, r2.result, b2)
      <4> DEFINE r2 == [r EXCEPT !.pc = "mark"]
      <4>1. Step(r2, 0) BY <1>7, <2>0, <2>10, <3>1 DEF CloseBrowser
      <4>2. r2 \in RunRecord /\ r2.pc = "mark" /\ r2.result = r.result OBVIOUS
      <4>3. BrowserFits(r2.pc, r2.result, 0) BY <1>3, <4>2 DEF BrowserFits
      <4> HIDE DEF r2, Step
      <4> QED BY <4>1, <4>2, <4>3
    <3>2. ASSUME ~ShouldClose(r)
          PROVE  \E r2 \in RunRecord, b2 \in Nat : Step(r2, b2) /\ BrowserFits(r2.pc, r2.result, b2)
      <4>1. PICK pc \in {"mark", "hold"} : run' = [run EXCEPT ![d] = [r EXCEPT !.pc = pc]]
        BY <2>10 DEF CloseBrowser
      <4> DEFINE r2 == [r EXCEPT !.pc = pc]
      <4>2. Step(r2, b) BY <2>0, <2>10, <3>2, <4>1 DEF CloseBrowser
      <4>3. r2 \in RunRecord /\ r2.pc = pc /\ r2.result = r.result OBVIOUS
      <4>4. deployment.keep /\ r.result = "failed"
        BY <1>3, <2>10, <3>2 DEF CloseBrowser, ShouldClose, BrowserFits
      <4>5. BrowserFits(r2.pc, r2.result, b) BY <1>3, <4>3, <4>4 DEF BrowserFits
      <4> HIDE DEF r2, Step
      <4> QED BY <4>2, <4>3, <4>5
    <3> QED BY <3>1, <3>2
  <2>11. CASE HoldBrowser(d)
    <3> DEFINE r2 == [r EXCEPT !.pc = "mark"]
    <3>1. Step(r2, b) \/ Step(r2, 0) BY <1>7, <2>0, <2>11 DEF HoldBrowser
    <3>2. r2 \in RunRecord /\ r2.pc = "mark" /\ r2.result = r.result OBVIOUS
    <3>3. BrowserFits(r2.pc, r2.result, b) /\ BrowserFits(r2.pc, r2.result, 0)
      BY <1>3, <2>11, <3>2 DEF HoldBrowser, BrowserFits
    <3> HIDE DEF r2, Step
    <3> QED BY <3>1, <3>2, <3>3
  <2>12. CASE MarkResult(d)
    <3>1. PICK pc \in {"pick", "done"} :
            /\ run' = [run EXCEPT ![d] = [r EXCEPT !.pc = pc]]
            /\ pc = "pick" => deployment.headless
      BY <2>12 DEF MarkResult
    <3> DEFINE r2 == [r EXCEPT !.pc = pc]
    <3>2. Step(r2, b) BY <2>0, <2>12, <3>1 DEF MarkResult
    <3>3. r2 \in RunRecord /\ r2.pc = pc /\ r2.result = r.result OBVIOUS
    <3>4. b = 1 => deployment.keep /\ r.result = "failed"
      BY <1>3, <2>12 DEF MarkResult, BrowserFits
    <3>5. pc = "pick" => b # 1 BY <1>4, <3>1, <3>4
    <3>6. BrowserFits(r2.pc, r2.result, b) BY <1>6, <3>3, <3>4, <3>5 DEF BrowserFits
    <3> HIDE DEF r2, Step
    <3> QED BY <3>2, <3>3, <3>6
  <2> QED
    BY <2>2, <2>3, <2>4, <2>5, <2>6, <2>7, <2>8, <2>9, <2>10, <2>11, <2>12 DEF DriverStep
<1>9. /\ run' \in [Driver -> RunRecord] /\ browsers' \in [Driver -> Nat]
      /\ deployment' \in Deployment
  BY <1>8 DEF DriversIInv, DriversTypeOK
<1>10. ASSUME NEW e \in Driver
      PROVE  BrowserFits(run[e].pc, run[e].result, browsers[e])'
  BY <1>8, <1>10 DEF DriversIInv, DriversTypeOK, BrowserFits
<1> QED BY <1>8, <1>9, <1>10 DEF DriversIInv, DriversTypeOK

(***************************************************************************)
(* However launches, rounds and closing blocks follow each other, and      *)
(* however many workers share the launch lock and the proxies, a worker    *)
(* has one browser at most and leaves one behind only where a failed job   *)
(* was to be looked at (runtime_io.py:59-144, worker_loop.py:34-75).       *)
(***************************************************************************)
THEOREM WorkersCloseBrowsers == DriversSpec => []DriversInv
<1>1. DriversInit => DriversIInv
  BY DriverAssumption
  DEF DriversInit, DriversIInv, DriversTypeOK, BrowserFits, NewRun, RunRecord, RunResult
<1>2. DriversIInv /\ [DriversNext]_driverVars => DriversIInv'
  <2> SUFFICES ASSUME DriversIInv, [DriversNext]_driverVars PROVE DriversIInv'
    OBVIOUS
  <2>1. ASSUME NEW d \in Driver, DriverStep(d) PROVE DriversIInv'
    BY <2>1, DriverStepKeeps
  <2>2. ASSUME NEW p \in Proxy, ProxyWarms(p) PROVE DriversIInv'
    BY <2>2 DEF ProxyWarms, DriversIInv, DriversTypeOK, BrowserFits
  <2>3. CASE UNCHANGED driverVars
    BY <2>3 DEF driverVars, DriversIInv, DriversTypeOK, BrowserFits
  <2> QED BY <2>1, <2>2, <2>3 DEF DriversNext
<1>3. DriversIInv => DriversInv
  <2> SUFFICES ASSUME DriversIInv, NEW d \in Driver
               PROVE  /\ browsers[d] <= 1
                      /\ browsers[d] = 1 /\ run[d].pc \notin {"work", "close", "hold"} =>
                           deployment.keep /\ run[d].result = "failed"
    BY DEF DriversIInv, DriversInv, BrowsersAreClosed
  <2> QED BY DEF DriversIInv, DriversTypeOK, BrowserFits, RunRecord
<1> QED BY <1>1, <1>2, <1>3, PTL DEF DriversSpec

-----------------------------------------------------------------------------
(***************************************************************************)
(* A launch, by how far it got: the directories made for it, the profile   *)
(* they give it, the kind of window and the route of its traffic.          *)
(***************************************************************************)
Private(q) == q.anonymous /\ q.proxy \in {"auth", "odd"}

ReturnedOf(l) ==
  CASE "root" \in l.dirs -> "root"
    [] l.dirs = {"extension"} -> "extension"
    [] OTHER -> "none"

LaunchFits(q, l) ==
  /\ l.pc = "native" => l.profile = q.profile
  /\ l.profile \in {q.profile, "none", "temporary"}
  /\ l.dirs \in {{}, {"root"}, {"extension"}}
  /\ l.pc \in {"idle", "native", "private", "route"} => l.dirs \in {{}, {"root"}}
  /\ l.pc = "open" => l.returned = ReturnedOf(l)
  /\ l.pc = "closed" => l.dirs = {}
  /\ l.pc \in {"route", "clean", "start", "stealth", "open"} /\ ~q.debugger =>
       /\ Private(q) => ~l.incognito /\ l.profile = "temporary" /\ l.dirs = {"root"}
       /\ q.anonymous /\ ~Private(q) => l.incognito
  /\ l.pc \in {"clean", "start", "stealth", "open"} /\ ~q.debugger =>
       q.proxy # "odd" /\ (q.proxy # "none" => l.route = "proxy")

(* An open browser that does not run was ended by a launch that named its  *)
(* directory, or one whose path it goes on from.                           *)
EndedByNeighbour(c) ==
  launch[c].pc \in {"stealth", "open"} /\ ~launch[c].alive =>
    \E d \in Launcher \ {c} : <<request[d].profile, launch[c].profile>> \in Extends

LaunchIInv ==
  /\ LaunchTypeOK
  /\ \A c \in Launcher : LaunchFits(request[c], launch[c]) /\ EndedByNeighbour(c)

(* Cleaning up changes nothing but which browsers run.                     *)
LEMMA KilledBrowsers ==
  ASSUME LaunchIInv, NEW c \in Launcher, NEW p
  PROVE  /\ Stale(c, p) \subseteq Launcher \ {c}
         /\ Killed(c, p) =
              [d \in Launcher |-> IF d \in Stale(c, p) THEN [launch[d] EXCEPT !.alive = FALSE]
                                  ELSE launch[d]]
<1>1. ASSUME NEW d \in Launcher
      PROVE  [launch[d] EXCEPT !.alive = @ /\ d \notin Stale(c, p)] =
               IF d \in Stale(c, p) THEN [launch[d] EXCEPT !.alive = FALSE] ELSE launch[d]
  <2>1. launch[d] \in LaunchRecord BY DEF LaunchIInv, LaunchTypeOK
  <2>2. CASE d \in Stale(c, p)
    <3>1. (launch[d].alive /\ d \notin Stale(c, p)) = FALSE BY <2>2
    <3> QED BY <2>2, <3>1
  <2>3. CASE d \notin Stale(c, p)
    <3>1. (launch[d].alive /\ d \notin Stale(c, p)) = launch[d].alive
      BY <2>1, <2>3 DEF LaunchRecord
    <3> QED BY <2>1, <2>3, <3>1 DEF LaunchRecord
  <2> QED BY <2>2, <2>3
<1> QED BY <1>1 DEF Killed, Stale

(* A launch moves on, and ends some browsers in the directory it named.    *)
Moved(c, l, dead) ==
  /\ request' = request
  /\ launch' = [d \in Launcher |-> IF d = c THEN l
                                   ELSE IF d \in dead THEN [launch[d] EXCEPT !.alive = FALSE]
                                   ELSE launch[d]]

LEMMA MovedKeeps ==
  ASSUME LaunchIInv, NEW c \in Launcher, NEW l \in LaunchRecord, NEW dead \in SUBSET (Launcher \ {c}),
         Moved(c, l, dead), LaunchFits(request[c], l),
         l.pc \in {"stealth", "open"} /\ ~l.alive =>
           /\ launch[c].pc \in {"stealth", "open"} /\ ~launch[c].alive
           /\ l.profile = launch[c].profile,
         \A d \in dead : <<request[c].profile, launch[d].profile>> \in Extends
  PROVE  LaunchIInv'
<1>1. LaunchTypeOK'
  <2>1. ASSUME NEW d \in Launcher
        PROVE  launch'[d] \in LaunchRecord
    <3>1. launch[d] \in LaunchRecord BY DEF LaunchIInv, LaunchTypeOK
    <3>2. [launch[d] EXCEPT !.alive = FALSE] \in LaunchRecord BY <3>1 DEF LaunchRecord
    <3> QED BY <3>1, <3>2 DEF Moved
  <2> QED BY <2>1 DEF LaunchIInv, LaunchTypeOK, Moved
<1>2. ASSUME NEW d \in Launcher
      PROVE  LaunchFits(request[d], launch[d])' /\ EndedByNeighbour(d)'
  <2>1. LaunchFits(request[d], launch[d]) /\ EndedByNeighbour(d) /\ launch[d] \in LaunchRecord
    BY DEF LaunchIInv, LaunchTypeOK
  <2>2. CASE d = c
    BY <2>1, <2>2 DEF Moved, LaunchFits, ReturnedOf, EndedByNeighbour
  <2>3. CASE d # c /\ d \notin dead
    BY <2>1, <2>3 DEF Moved, LaunchFits, ReturnedOf, EndedByNeighbour
  <2>4. CASE d # c /\ d \in dead
    <3> DEFINE k == [launch[d] EXCEPT !.alive = FALSE]
    <3>1. /\ launch'[d] = k /\ request' = request
          /\ k.pc = launch[d].pc /\ k.profile = launch[d].profile /\ k.dirs = launch[d].dirs
          /\ k.returned = launch[d].returned /\ k.route = launch[d].route
          /\ k.incognito = launch[d].incognito
      BY <2>1, <2>4 DEF Moved, LaunchRecord
    <3>2. LaunchFits(request[d], k)
      BY <2>1, <3>1 DEF LaunchFits, ReturnedOf
    <3>3. <<request[c].profile, k.profile>> \in Extends /\ c \in Launcher \ {d}
      BY <2>4, <3>1
    <3> HIDE DEF k
    <3>4. LaunchFits(request[d], launch[d])' BY <3>1, <3>2
    <3>5. EndedByNeighbour(d)' BY <3>1, <3>3 DEF EndedByNeighbour
    <3> QED BY <3>4, <3>5
  <2> QED BY <2>2, <2>3, <2>4
<1> QED BY <1>1, <1>2 DEF LaunchIInv

LEMMA LaunchStepKeeps ==
  ASSUME LaunchIInv, LaunchNext
  PROVE  LaunchIInv'
<1>1. PICK c \in Launcher :
        \/ Attach(c) \/ BeginLaunch(c) \/ PrepareNative(c) \/ PreparePrivate(c)
        \/ RouteProxy(c) \/ CleanProfile(c) \/ StartBrowser(c) \/ FinishLaunch(c)
        \/ NewDriverRaises(c) \/ QuitBrowser(c)
  BY DEF LaunchNext
<1> DEFINE q == request[c]  l == launch[c]
<1>2. q \in Request /\ l \in LaunchRecord /\ LaunchFits(q, l)
  BY DEF LaunchIInv, LaunchTypeOK
<1> DEFINE Goal(l2, dead) ==
      /\ Moved(c, l2, dead) /\ LaunchFits(q, l2)
      /\ l2.pc \in {"stealth", "open"} /\ ~l2.alive =>
           l.pc \in {"stealth", "open"} /\ ~l.alive /\ l2.profile = l.profile
      /\ \A d \in dead : <<q.profile, launch[d].profile>> \in Extends
<1>3. SUFFICES \E l2 \in LaunchRecord, dead \in SUBSET (Launcher \ {c}) : Goal(l2, dead)
  BY MovedKeeps
<1>4. ASSUME NEW l2 \in LaunchRecord, request' = request, launch' = [launch EXCEPT ![c] = l2],
             LaunchFits(q, l2),
             l2.pc \in {"stealth", "open"} /\ ~l2.alive =>
               l.pc \in {"stealth", "open"} /\ ~l.alive /\ l2.profile = l.profile
      PROVE  \E l3 \in LaunchRecord, dead \in SUBSET (Launcher \ {c}) : Goal(l3, dead)
  <2>1. Goal(l2, {}) BY <1>4 DEF Moved, LaunchIInv, LaunchTypeOK
  <2> HIDE DEF Goal
  <2> QED BY <2>1
<1>5. ASSUME NEW l2 \in LaunchRecord, request' = request,
             launch' = [Killed(c, l.profile) EXCEPT ![c] = l2],
             LaunchFits(q, l2), l.profile \in {q.profile, "none", "temporary"},
             l2.pc \notin {"stealth", "open"}
      PROVE  \E l3 \in LaunchRecord, dead \in SUBSET (Launcher \ {c}) : Goal(l3, dead)
  <2> DEFINE p == l.profile
  <2>0. /\ Stale(c, p) \subseteq Launcher \ {c}
        /\ Killed(c, p) =
             [d \in Launcher |-> IF d \in Stale(c, p) THEN [launch[d] EXCEPT !.alive = FALSE]
                                 ELSE launch[d]]
    BY KilledBrowsers
  <2>1. Moved(c, l2, Stale(c, l.profile)) BY <1>5, <2>0 DEF Moved
  <2>2. ASSUME NEW d \in Stale(c, l.profile)
        PROVE  <<q.profile, launch[d].profile>> \in Extends
    BY <1>5, LaunchAssumption DEF Stale
  <2>3. Goal(l2, Stale(c, p)) BY <1>5, <2>1, <2>2
  <2> HIDE DEF Goal, p
  <2> QED BY <2>0, <2>3
<1>6. CASE Attach(c)
  <2> DEFINE l2 == [l EXCEPT !.pc = "stealth", !.alive = TRUE]
  <2>1. launch' = [launch EXCEPT ![c] = l2] /\ request' = request /\ q.debugger /\ l.pc = "idle"
    BY <1>6 DEF Attach, MayLaunch, LaunchAt
  <2>2. l2 \in LaunchRecord /\ l2.alive BY <1>2 DEF LaunchRecord
  <2>3. LaunchFits(q, l2) BY <1>2, <2>1 DEF LaunchFits, LaunchRecord, ReturnedOf
  <2> HIDE DEF l2, Goal
  <2> QED BY <1>4, <2>1, <2>2, <2>3
<1>7. CASE BeginLaunch(c)
  <2>1. PICK pc \in {"native", "private"} :
          launch' = [launch EXCEPT ![c] = [l EXCEPT !.pc = pc, !.profile = q.profile]]
    BY <1>7 DEF BeginLaunch
  <2> DEFINE l2 == [l EXCEPT !.pc = pc, !.profile = q.profile]
  <2>2. request' = request /\ l.pc = "idle" BY <1>7 DEF BeginLaunch, MayLaunch, LaunchAt
  <2>3. l2 \in LaunchRecord BY <1>2 DEF LaunchRecord, Request
  <2>4. LaunchFits(q, l2) BY <1>2, <2>2 DEF LaunchFits, LaunchRecord, ReturnedOf
  <2>5. l2.pc \notin {"stealth", "open"} BY <1>2 DEF LaunchRecord
  <2>6. launch' = [launch EXCEPT ![c] = l2] BY <2>1
  <2> HIDE DEF l2, Goal
  <2> QED BY <1>4, <2>2, <2>3, <2>4, <2>5, <2>6
<1>8. CASE PrepareNative(c)
  <2> DEFINE k == Killed(c, l.profile)
  <2>1. PICK primed \in BOOLEAN :
          launch' = [k EXCEPT ![c].pc = "private", ![c].primed = primed,
                       ![c].profile = IF @ = "none" THEN "temporary" ELSE @,
                       ![c].dirs = IF l.profile = "none" THEN {"root"} ELSE {}]
    BY <1>8 DEF PrepareNative
  <2> DEFINE l2 == [l EXCEPT !.pc = "private", !.primed = primed,
                             !.profile = IF l.profile = "none" THEN "temporary" ELSE l.profile,
                             !.dirs = IF l.profile = "none" THEN {"root"} ELSE {}]
  <2>2. launch' = [k EXCEPT ![c] = l2]
    <3>1. k[c] = l /\ k = [d \in Launcher |-> k[d]]
      <4> DEFINE p == l.profile
      <4>1. /\ Stale(c, p) \subseteq Launcher \ {c}
            /\ Killed(c, p) =
                 [d \in Launcher |-> IF d \in Stale(c, p) THEN [launch[d] EXCEPT !.alive = FALSE]
                                     ELSE launch[d]]
        BY KilledBrowsers
      <4> QED BY <4>1
    <3>2. l \in LaunchRecord BY <1>2
    <3> HIDE DEF k, l
    <3> QED BY <2>1, <3>1, <3>2 DEF LaunchRecord
  <2>3. request' = request /\ l.pc = "native" BY <1>8 DEF PrepareNative, LaunchAt
  <2>4. l2 \in LaunchRecord BY <1>2 DEF LaunchRecord
  <2>5. LaunchFits(q, l2) BY <1>2, <2>3 DEF LaunchFits, LaunchRecord, ReturnedOf
  <2>6. l2.pc \notin {"stealth", "open"} BY <1>2 DEF LaunchRecord
  <2>7. l.profile \in {q.profile, "none", "temporary"} BY <1>2 DEF LaunchFits
  <2> HIDE DEF l2, Goal
  <2> QED BY <1>5, <2>3, <2>4, <2>5, <2>6, <2>7, <2>2
<1>9. CASE PreparePrivate(c)
  <2> DEFINE l2 == [l EXCEPT !.pc = "route",
                      !.incognito = q.anonymous /\ ~NeedsPrivate(c),
                      !.profile = IF NeedsPrivate(c) THEN "temporary" ELSE @,
                      !.dirs = IF NeedsPrivate(c) THEN {"root"} ELSE @]
  <2>1. launch' = [launch EXCEPT ![c] = l2] /\ request' = request /\ l.pc = "private"
    BY <1>9 DEF PreparePrivate, LaunchAt
  <2>2. NeedsPrivate(c) = Private(q) BY DEF NeedsPrivate, Private
  <2>3. l2 \in LaunchRecord BY <1>2 DEF LaunchRecord
  <2>4. LaunchFits(q, l2) BY <1>2, <2>1, <2>2 DEF LaunchFits, LaunchRecord, ReturnedOf
  <2>5. l2.pc \notin {"stealth", "open"} BY <1>2 DEF LaunchRecord
  <2> HIDE DEF l2, Goal
  <2> QED BY <1>4, <2>1, <2>3, <2>4, <2>5
<1>10. CASE RouteProxy(c)
  <2>1. PICK route \in {"direct", "proxy"} :
          /\ launch' = [launch EXCEPT ![c] =
               [l EXCEPT !.pc = "clean", !.dirs = @ \union ExtensionDir(c), !.route = route]]
          /\ q.proxy # "odd" /\ (q.proxy # "none" => route = "proxy")
    BY <1>2, <1>10 DEF RouteProxy, ServerSwitch, Request
  <2> DEFINE l2 == [l EXCEPT !.pc = "clean", !.dirs = @ \union ExtensionDir(c), !.route = route]
  <2>2. request' = request /\ l.pc = "route" BY <1>10 DEF RouteProxy, LaunchAt
  <2>3. ExtensionDir(c) \in {{}, {"extension"}} /\ (l.dirs = {"root"} => ExtensionDir(c) = {})
    BY DEF ExtensionDir
  <2>4. l.dirs \union ExtensionDir(c) \in {{}, {"root"}, {"extension"}}
        /\ (l.dirs = {"root"} => l.dirs \union ExtensionDir(c) = {"root"})
    BY <1>2, <2>2, <2>3 DEF LaunchFits
  <2>5. l2 \in LaunchRecord BY <1>2, <2>4 DEF LaunchRecord
  <2>6. LaunchFits(q, l2) BY <1>2, <2>1, <2>2, <2>4 DEF LaunchFits, LaunchRecord, ReturnedOf
  <2>7. l2.pc \notin {"stealth", "open"} BY <1>2 DEF LaunchRecord
  <2>8. launch' = [launch EXCEPT ![c] = l2] BY <2>1
  <2> HIDE DEF l2, Goal
  <2> QED BY <1>4, <2>2, <2>5, <2>6, <2>7, <2>8
<1>11. CASE CleanProfile(c)
  <2> DEFINE l2 == [l EXCEPT !.pc = "start"]
  <2>1. request' = request /\ l.pc = "clean" BY <1>11 DEF CleanProfile, LaunchAt
  <2>2. \/ launch' = [launch EXCEPT ![c] = l2]
        \/ launch' = [Killed(c, l.profile) EXCEPT ![c] = l2]
    BY <1>2, <1>11, KilledBrowsers DEF CleanProfile, LaunchRecord
  <2>3. l2 \in LaunchRecord BY <1>2 DEF LaunchRecord
  <2>4. LaunchFits(q, l2) BY <1>2, <2>1 DEF LaunchFits, LaunchRecord, ReturnedOf
  <2>5. l2.pc \notin {"stealth", "open"} BY <1>2 DEF LaunchRecord
  <2>6. l.profile \in {q.profile, "none", "temporary"} BY <1>2 DEF LaunchFits
  <2> HIDE DEF l2, Goal
  <2> QED BY <1>4, <1>5, <2>1, <2>2, <2>3, <2>4, <2>5, <2>6
<1>12. CASE StartBrowser(c)
  <2> DEFINE l2 == [l EXCEPT !.pc = "stealth", !.alive = TRUE]
  <2>1. launch' = [launch EXCEPT ![c] = l2] /\ request' = request /\ l.pc = "start"
    BY <1>12 DEF StartBrowser, LaunchAt
  <2>2. l2 \in LaunchRecord /\ l2.alive BY <1>2 DEF LaunchRecord
  <2>3. LaunchFits(q, l2) BY <1>2, <2>1 DEF LaunchFits, LaunchRecord, ReturnedOf
  <2> HIDE DEF l2, Goal
  <2> QED BY <1>4, <2>1, <2>2, <2>3
<1>13. CASE FinishLaunch(c)
  <2> DEFINE l2 == [l EXCEPT !.pc = "open", !.returned = Returned(c)]
  <2>1. launch' = [launch EXCEPT ![c] = l2] /\ request' = request /\ l.pc = "stealth"
    BY <1>13 DEF FinishLaunch, LaunchAt
  <2>2. Returned(c) = ReturnedOf(l) /\ Returned(c) \in {"none", "root", "extension"}
    BY DEF Returned, ReturnedOf
  <2>3. l2 \in LaunchRecord BY <1>2, <2>2 DEF LaunchRecord
  <2>4. ReturnedOf(l2) = ReturnedOf(l) BY <1>2 DEF ReturnedOf, LaunchRecord
  <2>5. LaunchFits(q, l2) BY <1>2, <2>1, <2>2, <2>4 DEF LaunchFits, LaunchRecord
  <2>6. l2.alive = l.alive /\ l2.profile = l.profile BY <1>2 DEF LaunchRecord
  <2> HIDE DEF l2, Goal
  <2> QED BY <1>4, <2>1, <2>3, <2>5, <2>6
<1>14. CASE NewDriverRaises(c)
  <2> DEFINE l2 == [l EXCEPT !.pc = "failed"]
  <2>1. launch' = [launch EXCEPT ![c] = l2] /\ request' = request
    BY <1>14 DEF NewDriverRaises, MoveLaunch
  <2>2. l2 \in LaunchRecord BY <1>2 DEF LaunchRecord
  <2>3. LaunchFits(q, l2) BY <1>2 DEF LaunchFits, LaunchRecord, ReturnedOf
  <2>4. l2.pc \notin {"stealth", "open"} BY <1>2 DEF LaunchRecord
  <2> HIDE DEF l2, Goal
  <2> QED BY <1>4, <2>1, <2>2, <2>3, <2>4
<1>15. CASE QuitBrowser(c)
  <2> DEFINE l2 == [l EXCEPT !.pc = "closed", !.alive = FALSE, !.dirs = @ \ {l.returned}]
  <2>1. launch' = [launch EXCEPT ![c] = l2] /\ request' = request /\ l.pc = "open"
    BY <1>15 DEF QuitBrowser, LaunchAt
  <2>2. l.dirs \ {l.returned} = {}
    BY <1>2, <2>1 DEF LaunchFits, ReturnedOf
  <2>3. l2 \in LaunchRecord BY <1>2, <2>2 DEF LaunchRecord
  <2>4. LaunchFits(q, l2) BY <1>2, <2>2 DEF LaunchFits, LaunchRecord, ReturnedOf
  <2>5. l2.pc \notin {"stealth", "open"} BY <1>2 DEF LaunchRecord
  <2> HIDE DEF l2, Goal
  <2> QED BY <1>4, <2>1, <2>3, <2>4, <2>5
<1> QED
  BY <1>1, <1>6, <1>7, <1>8, <1>9, <1>10, <1>11, <1>12, <1>13, <1>14, <1>15

(***************************************************************************)
(* However launches of different processes on one machine interleave, each *)
(* gets its proxy and, if it is to be anonymous, a window or a directory of *)
(* its own; if it returned, no directory is left once its browser was      *)
(* closed; and only a launch that named its directory, or one its path     *)
(* goes on from, ends its browser (driver_factory.py:110-165, 655-1030).   *)
(***************************************************************************)
THEOREM LaunchesKeepApart == LaunchSpec => []LaunchInv
<1>1. LaunchInit => LaunchIInv
  <2> SUFFICES ASSUME LaunchInit PROVE LaunchIInv
    OBVIOUS
  <2>1. request \in [Launcher -> Request] /\ launch = [c \in Launcher |-> NewLaunch]
    BY LaunchAssumption DEF LaunchInit
  <2>2. NewLaunch \in LaunchRecord BY DEF NewLaunch, LaunchRecord
  <2>3. ASSUME NEW q \in Request PROVE LaunchFits(q, NewLaunch)
    BY DEF NewLaunch, LaunchFits
  <2>4. ASSUME NEW c \in Launcher PROVE EndedByNeighbour(c)
    BY <2>1 DEF EndedByNeighbour, NewLaunch
  <2> HIDE DEF NewLaunch
  <2> QED BY <2>1, <2>2, <2>3, <2>4 DEF LaunchIInv, LaunchTypeOK
<1>2. LaunchIInv /\ [LaunchNext]_launchVars => LaunchIInv'
  <2>1. LaunchIInv /\ LaunchNext => LaunchIInv'
    BY LaunchStepKeeps
  <2>2. LaunchIInv /\ UNCHANGED launchVars => LaunchIInv'
    BY DEF launchVars, LaunchIInv, LaunchTypeOK, EndedByNeighbour
  <2> QED BY <2>1, <2>2
<1>3. LaunchIInv => LaunchInv
  <2> SUFFICES ASSUME LaunchIInv PROVE LaunchInv
    OBVIOUS
  <2>1. \A c \in Launcher : /\ request[c] \in Request /\ launch[c] \in LaunchRecord
                            /\ LaunchFits(request[c], launch[c]) /\ EndedByNeighbour(c)
    BY DEF LaunchIInv, LaunchTypeOK
  <2>2. ProxyIsKept
    BY <2>1 DEF ProxyIsKept, OpenedHere, LaunchAt, LaunchFits
  <2>3. AnonymousStays
    <3> SUFFICES ASSUME NEW c \in Launcher, OpenedHere(c), request[c].anonymous
                 PROVE  IF request[c].proxy = "auth"
                        THEN /\ ~launch[c].incognito /\ launch[c].profile = "temporary"
                             /\ launch[c].returned = "root"
                        ELSE launch[c].incognito
      BY DEF AnonymousStays
    <3>1. /\ launch[c].pc = "open" /\ ~request[c].debugger /\ LaunchFits(request[c], launch[c])
      BY <2>1 DEF OpenedHere, LaunchAt
    <3>2. request[c].proxy # "odd"
      BY <3>1 DEF LaunchFits
    <3>3. CASE request[c].proxy = "auth"
      BY <3>1, <3>3 DEF LaunchFits, Private, ReturnedOf
    <3>4. CASE request[c].proxy # "auth"
      BY <3>1, <3>2, <3>4 DEF LaunchFits, Private
    <3> QED BY <3>3, <3>4
  <2>4. NothingIsLeft
    BY <2>1 DEF NothingIsLeft, LaunchAt, LaunchFits
  <2>5. UnsharedStayAlive
    BY <2>1 DEF UnsharedStayAlive, LaunchAt, EndedByNeighbour
  <2> QED BY <2>2, <2>3, <2>4, <2>5 DEF LaunchIInv, LaunchInv
<1> QED BY <1>1, <1>2, <1>3, PTL DEF LaunchSpec

-----------------------------------------------------------------------------
(* A set of numbers with a bound has a greatest one.                       *)
LEMMA MaxOfBounded ==
  ASSUME NEW n \in Nat, NEW S \in SUBSET (0..n), S # {}
  PROVE  Max(S) \in S /\ \A y \in S : Max(S) >= y
<1> DEFINE T == { n - x : x \in S }
<1>1. T \subseteq Nat /\ T # {}
  <2>1. PICK x \in S : TRUE OBVIOUS
  <2>2. n - x \in T BY <2>1
  <2>3. \A x2 \in S : n - x2 \in Nat OBVIOUS
  <2> QED BY <2>2, <2>3
<1>2. PICK t \in T : \A u \in T : ~(<<u, t>> \in OpToRel(<, Nat))
  <2> HIDE DEF T
  <2> QED BY <1>1, NatLessThanWellFounded, WFMin
<1>3. PICK x \in S : t = n - x BY <1>2
<1>4. ASSUME NEW y \in S PROVE x >= y
  <2>1. n - y \in T OBVIOUS
  <2>2. ~(n - y < t) BY <1>1, <1>2, <2>1 DEF OpToRel
  <2> QED BY <1>3, <2>2
<1> QED BY <1>4 DEF Max

-----------------------------------------------------------------------------
(***************************************************************************)
(* A place in the results, shard k after n lines: every earlier shard is   *)
(* full, wherever a migration left its lines; the place is not past the    *)
(* lines; the file is past the place only by interruptions, and by one     *)
(* more while a writer is between the line and the state (ahead); and      *)
(* nothing was written further on.                                         *)
(***************************************************************************)
PlaceFits(k, n, ahead) ==
  \A s \in Shard :
    /\ s < k => Kept[s] >= ShardSize
    /\ s = k => n <= Kept[s] /\ lines[s] <= n + interruptions + ahead
    /\ s > k => lines[s] = 0

(* The place of the old layout is exactly where its lines end.             *)
OldPlaceFits(k, n) ==
  \A s \in Shard :
    /\ s < k => Kept[s] >= ShardSize
    /\ s = k => Kept[s] = n
    /\ s > k => Kept[s] = 0

Packed == \A s, u \in Shard : s < u /\ Kept[u] > 0 => Kept[s] >= ShardSize

LinesFit ==
  /\ legacy \in [Shard -> 0..ShardSize]
  /\ Written <= MaxLines /\ Packed

(* What a migration may still move: nothing of it was continued.           *)
Unmigrated == phase = "migrate" \/ (state = NoState /\ Present(lines) = {})

MigrationFits ==
  /\ phase = "migrate" => state = NoState /\ \A s \in Shard : legacy[s] > 0 => lines[s] = 0
  /\ Unmigrated /\ legacyState # NoState => OldPlaceFits(legacyState.shard, legacyState.line)

Ahead == IF \E t \in Thread : writer[t].pc = "save" THEN 1 ELSE 0

StateFits == state # NoState => PlaceFits(state.shard, state.line, Ahead)

(* What a thread under the lock has read, written and not yet written.     *)
WriterFits(t) ==
  LET w == writer[t]
  IN  /\ w.pc # "out" => lock = {t} /\ phase = "run"
      /\ w.pc \in {"load", "append"} => Written < MaxLines
      /\ w.pc = "append" => w.at = LoadState
      /\ w.pc = "save" => w.at \in StateRecord /\ PlaceFits(w.at.shard, w.at.line + 1, 0)
      /\ w.pc \in {"save", "auth"} => files.auth < Written
      /\ w.pc = "mirror" => files.mirror < files.auth

ShardsIInv ==
  /\ ShardsTypeOK /\ interruptions \in Nat
  /\ LinesFit /\ MigrationFits /\ StateFits
  /\ \A t \in Thread : WriterFits(t)
  /\ ShardsBounded /\ LinesComeFirst

-----------------------------------------------------------------------------
(* Counting lines. *)

LEMMA LineIsThere ==
  ASSUME NEW dir \in [Shard -> Nat]
  PROVE  \A x : x \in LinesOf(dir) <=> \E s \in Shard : \E i \in 1..dir[s] : x = <<s, i>>
<1>1. SUFFICES ASSUME NEW x
               PROVE  x \in LinesOf(dir) <=> \E s \in Shard : \E i \in 1..dir[s] : x = <<s, i>>
  OBVIOUS
<1>2. x \in LinesOf(dir) <=> \E s \in Shard : x \in {s} \X (1..dir[s])
  BY DEF LinesOf
<1>3. \A s \in Shard : x \in {s} \X (1..dir[s]) <=> \E i \in 1..dir[s] : x = <<s, i>>
  OBVIOUS
<1> QED BY <1>2, <1>3

LEMMA LinesAreCounted ==
  ASSUME NEW dir \in [Shard -> Nat]
  PROVE  IsFiniteSet(LinesOf(dir)) /\ Cardinality(LinesOf(dir)) \in Nat
<1> DEFINE f == [s \in Shard |-> {s} \X (1..dir[s])]
           Parts == { {s} \X (1..dir[s]) : s \in Shard }
<1>1. IsFiniteSet(Shard)
  BY ShardAssumption, FS_Interval DEF Shard
<1>2. IsFiniteSet(Parts)
  <2>1. f \in Surjection(Shard, Parts) BY DEF Surjection
  <2> HIDE DEF f, Parts
  <2> QED BY <1>1, <2>1, FS_Surjection
<1>3. ASSUME NEW s \in Shard PROVE IsFiniteSet({s} \X (1..dir[s]))
  <2>1. IsFiniteSet({s}) BY FS_Singleton
  <2>2. 1 \in Int /\ dir[s] \in Int OBVIOUS
  <2>3. IsFiniteSet(1..dir[s]) BY <2>2, FS_Interval
  <2> QED BY <2>1, <2>3, FS_Product
<1>4. \A P \in Parts : IsFiniteSet(P)
  BY <1>3
<1>5. LinesOf(dir) = UNION Parts
  BY DEF LinesOf
<1> HIDE DEF Parts
<1>6. IsFiniteSet(LinesOf(dir))
  BY <1>2, <1>4, <1>5, FS_UNION
<1> QED BY <1>6, FS_CardinalityType

(* One more line in a shard is one more line.                              *)
LEMMA LineIsAdded ==
  ASSUME NEW dir \in [Shard -> Nat], NEW dir2 \in [Shard -> Nat], NEW k \in Shard,
         dir2[k] = dir[k] + 1, \A s \in Shard \ {k} : dir2[s] = dir[s]
  PROVE  Cardinality(LinesOf(dir2)) = Cardinality(LinesOf(dir)) + 1
<1> DEFINE new == <<k, dir[k] + 1>>
<1>1. new \notin LinesOf(dir)
  <2>1. ASSUME NEW s \in Shard, \E i \in 1..dir[s] : new = <<s, i>> PROVE FALSE
    BY <2>1
  <2> QED BY <2>1, LineIsThere
<1>2. ASSUME NEW x PROVE x \in LinesOf(dir2) <=> x \in LinesOf(dir) \union {new}
  <2>1. ASSUME x \in LinesOf(dir2) PROVE x \in LinesOf(dir) \union {new}
    <3>0. PICK s \in Shard : \E i \in 1..dir2[s] : x = <<s, i>>
      BY <2>1, LineIsThere
    <3>1. PICK i \in 1..dir2[s] : x = <<s, i>>
      BY <3>0
    <3>2. CASE s = k /\ i = dir[k] + 1
      BY <3>1, <3>2
    <3>3. CASE ~(s = k /\ i = dir[k] + 1)
      <4>1. i \in 1..dir[s] BY <3>3
      <4> QED BY <3>1, <4>1, LineIsThere
    <3> QED BY <3>2, <3>3
  <2>2. ASSUME x \in LinesOf(dir) PROVE x \in LinesOf(dir2)
    <3>0. PICK s \in Shard : \E i \in 1..dir[s] : x = <<s, i>>
      BY <2>2, LineIsThere
    <3>1. PICK i \in 1..dir[s] : x = <<s, i>>
      BY <3>0
    <3>2. i \in 1..dir2[s] BY <3>1
    <3> QED BY <3>1, <3>2, LineIsThere
  <2>3. new \in LinesOf(dir2)
    <3>1. dir[k] + 1 \in 1..dir2[k] OBVIOUS
    <3> QED BY <3>1, LineIsThere
  <2> QED BY <2>1, <2>2, <2>3
<1>3. LinesOf(dir2) = LinesOf(dir) \union {new}
  BY <1>2
<1> HIDE DEF new
<1> QED BY <1>1, <1>3, LinesAreCounted, FS_AddElement

LEMMA KeptType ==
  ASSUME ShardsTypeOK
  PROVE  /\ Kept \in [Shard -> Nat] /\ \A s \in Shard : Kept[s] = lines[s] + legacy[s]
         /\ Written \in Nat
<1>1. Kept \in [Shard -> Nat] /\ \A s \in Shard : Kept[s] = lines[s] + legacy[s]
  BY DEF ShardsTypeOK, Kept
<1> QED BY <1>1, LinesAreCounted DEF Written

(* There are more shards than lines, so a place is one of a shard.         *)
LEMMA PlaceIsShard ==
  ASSUME ShardsTypeOK, LinesFit, NEW k \in Nat,
         \A s \in Shard : s < k => Kept[s] >= ShardSize
  PROVE  k \in Shard
<1>1. SUFFICES ASSUME k > MaxLines PROVE FALSE
  BY ShardAssumption DEF Shard
<1>2. MaxLines \in Nat /\ ShardSize \in Nat /\ ShardSize > 0
  BY ShardAssumption
<1>3. \A s \in Shard : Kept[s] \in Nat /\ Kept[s] >= 1
  BY <1>1, <1>2, KeptType DEF Shard
<1>4. Shard \X {1} \subseteq LinesOf(Kept)
  <2>1. ASSUME NEW x \in Shard \X {1} PROVE x \in LinesOf(Kept)
    <3>1. PICK s \in Shard : x = <<s, 1>> OBVIOUS
    <3>2. 1 \in 1..Kept[s] BY <1>3
    <3> QED BY <3>1, <3>2, KeptType, LineIsThere
  <2> QED BY <2>1
<1>5. IsFiniteSet(Shard) /\ Cardinality(Shard) = MaxLines + 1
  <2>1. 0 \in Int /\ MaxLines \in Int /\ 0 <= MaxLines BY <1>2
  <2> QED BY <2>1, FS_Interval DEF Shard
<1>6. IsFiniteSet({1}) /\ Cardinality({1}) = 1
  BY FS_Singleton
<1>7. Cardinality(Shard \X {1}) = MaxLines + 1
  BY <1>2, <1>5, <1>6, FS_Product
<1>8. Cardinality(Shard \X {1}) <= Written
  BY <1>4, KeptType, LinesAreCounted, FS_Subset DEF Written
<1> QED BY <1>2, <1>7, <1>8, KeptType DEF LinesFit

(* The last shard of a directory, and where its lines end.                 *)
LEMMA InferredPlace ==
  ASSUME NEW dir \in [Shard -> Nat]
  PROVE  LET p == InferState(dir)
         IN  /\ p \in StateRecord
             /\ \/ Present(dir) = {} /\ p.shard = 0 /\ p.line = 0
                \/ \E last \in Present(dir) :
                     /\ \A s \in Shard : s > last => dir[s] = 0
                     /\ \/ p.shard = last + 1 /\ p.line = 0 /\ dir[last] >= ShardSize
                        \/ p.shard = last /\ p.line = dir[last]
<1>1. ShardSize \in Nat /\ ShardSize > 0 /\ MaxLines \in Nat
  BY ShardAssumption
<1>2. CASE Present(dir) = {}
  <2>1. InferState(dir) = [shard |-> 0, line |-> 0] BY <1>2 DEF InferState
  <2> QED BY <1>1, <1>2, <2>1 DEF StateRecord
<1>3. CASE Present(dir) # {}
  <2> DEFINE last == Max(Present(dir))
  <2>1. last \in Present(dir) /\ \A y \in Present(dir) : last >= y
    <3>1. Present(dir) \subseteq 0..MaxLines BY DEF Present, Shard
    <3> QED BY <1>1, <1>3, <3>1, MaxOfBounded
  <2>2. InferState(dir) = After(last, dir[last])
    BY <1>3 DEF InferState
  <2> HIDE DEF last
  <2>3. last \in Nat /\ last \in Shard /\ dir[last] \in Nat
    BY <2>1 DEF Present, Shard
  <2>4. \A s \in Shard : s > last => dir[s] = 0
    <3>1. SUFFICES ASSUME NEW s \in Shard, s > last, dir[s] # 0 PROVE FALSE
      OBVIOUS
    <3>2. s \in Present(dir) /\ s \in Nat BY <3>1 DEF Present, Shard
    <3> QED BY <2>1, <2>3, <3>1, <3>2
  <2>5. CASE dir[last] >= ShardSize
    <3>1. InferState(dir) = [shard |-> last + 1, line |-> 0] BY <2>2, <2>5 DEF After
    <3> QED BY <1>1, <2>1, <2>3, <2>4, <2>5, <3>1 DEF StateRecord
  <2>6. CASE ~(dir[last] >= ShardSize)
    <3>1. InferState(dir) = [shard |-> last, line |-> dir[last]] BY <2>2, <2>6 DEF After
    <3> QED BY <1>1, <2>1, <2>3, <2>4, <2>6, <3>1 DEF StateRecord
  <2> QED BY <2>5, <2>6
<1> QED BY <1>2, <1>3

LEMMA InferredFits ==
  ASSUME ShardsTypeOK, interruptions \in Nat, Packed
  PROVE  /\ InferState(lines) \in StateRecord
         /\ PlaceFits(InferState(lines).shard, InferState(lines).line, 0)
<1> DEFINE p == InferState(lines)
<1>1. lines \in [Shard -> Nat] /\ legacy \in [Shard -> Nat] /\ ShardSize \in Nat /\ Shard \subseteq Nat
  BY ShardAssumption DEF ShardsTypeOK, Shard
<1>2. \A s \in Shard : lines[s] \in Nat /\ legacy[s] \in Nat /\ Kept[s] = lines[s] + legacy[s]
  BY <1>1, KeptType
<1>3. p \in StateRecord
  BY <1>1, InferredPlace
<1>4. CASE Present(lines) = {} /\ p.shard = 0 /\ p.line = 0
  <2>1. \A s \in Shard : lines[s] = 0
    BY <1>2, <1>4 DEF Present
  <2> QED BY <1>1, <1>2, <1>3, <1>4, <2>1 DEF PlaceFits
<1>5. ASSUME NEW last \in Present(lines),
             \A s \in Shard : s > last => lines[s] = 0,
             \/ p.shard = last + 1 /\ p.line = 0 /\ lines[last] >= ShardSize
             \/ p.shard = last /\ p.line = lines[last]
      PROVE  PlaceFits(p.shard, p.line, 0)
  <2>1. last \in Shard /\ last \in Nat /\ lines[last] > 0
    BY <1>1 DEF Present
  <2>2. \A s \in Shard : s < last => Kept[s] >= ShardSize
    BY <1>2, <2>1 DEF Packed
  <2> HIDE DEF p
  <2>3. ASSUME NEW s \in Shard
        PROVE  /\ s < p.shard => Kept[s] >= ShardSize
               /\ s = p.shard => p.line <= Kept[s] /\ lines[s] <= p.line + interruptions + 0
               /\ s > p.shard => lines[s] = 0
    <3>1. s \in Nat /\ lines[s] \in Nat /\ legacy[s] \in Nat /\ Kept[s] = lines[s] + legacy[s]
      BY <1>1, <1>2
    <3>2. CASE p.shard = last + 1 /\ p.line = 0 /\ lines[last] >= ShardSize
      BY <1>1, <1>5, <2>1, <2>2, <3>1, <3>2
    <3>3. CASE p.shard = last /\ p.line = lines[last]
      BY <1>1, <1>5, <2>1, <2>2, <3>1, <3>3
    <3> QED BY <1>5, <3>2, <3>3
  <2> QED BY <2>3 DEF PlaceFits
<1> QED
  <2>1. \/ Present(lines) = {} /\ p.shard = 0 /\ p.line = 0
        \/ \E last \in Present(lines) :
             /\ \A s \in Shard : s > last => lines[s] = 0
             /\ \/ p.shard = last + 1 /\ p.line = 0 /\ lines[last] >= ShardSize
                \/ p.shard = last /\ p.line = lines[last]
    BY <1>1, InferredPlace
  <2> QED BY <1>3, <1>4, <1>5, <2>1

(* What a writer would read now.                                           *)
LEMMA LoadedFits ==
  ASSUME ShardsTypeOK, interruptions \in Nat, LinesFit, StateFits
  PROVE  /\ LoadState \in StateRecord
         /\ PlaceFits(LoadState.shard, LoadState.line, Ahead)
         /\ LoadState.shard \in Shard
<1>1. LoadState \in StateRecord
  BY InferredFits DEF LoadState, ShardsTypeOK, LinesFit
<1>2. PlaceFits(LoadState.shard, LoadState.line, Ahead)
  <2>1. CASE state # NoState
    BY <2>1 DEF LoadState, StateFits
  <2>2. CASE state = NoState
    <3>1. LoadState = InferState(lines) BY <2>2 DEF LoadState
    <3>2. PlaceFits(LoadState.shard, LoadState.line, 0) BY <3>1, InferredFits DEF LinesFit
    <3>3. lines \in [Shard -> Nat] /\ LoadState.line \in Nat /\ Ahead \in {0, 1}
      BY <1>1 DEF ShardsTypeOK, StateRecord, Ahead
    <3> QED BY <3>2, <3>3 DEF PlaceFits
  <2> QED BY <2>1, <2>2
<1>3. LoadState.shard \in Nat
  BY <1>1 DEF StateRecord
<1>4. LoadState.shard \in Shard
  BY <1>2, <1>3, PlaceIsShard DEF PlaceFits
<1> QED BY <1>1, <1>2, <1>4

-----------------------------------------------------------------------------
(* What a step that moves no lines leaves as it is.                        *)
LEMMA LinesStay ==
  ASSUME ShardsTypeOK, lines' = lines, legacy' = legacy
  PROVE  /\ Kept' = Kept /\ Written' = Written /\ Present(lines)' = Present(lines)
         /\ InferState(lines)' = InferState(lines)
         /\ LinesFit => LinesFit'
<1>1. Kept' = Kept BY DEF Kept
<1>2. Written' = Written BY <1>1 DEF Written, LinesOf
<1>3. Present(lines)' = Present(lines) BY DEF Present
<1>4. InferState(lines)' = InferState(lines) BY DEF InferState, Present, After
<1>5. LinesFit => LinesFit' BY <1>1, <1>2 DEF LinesFit, Packed
<1> QED BY <1>1, <1>2, <1>3, <1>4, <1>5

LEMMA PlaceStays ==
  ASSUME ShardsTypeOK, lines' = lines, legacy' = legacy, interruptions \in Nat,
         NEW k \in Nat, NEW n \in Nat, NEW a \in Nat, NEW b \in Nat,
         PlaceFits(k, n, a), interruptions' \in Nat, interruptions + a <= interruptions' + b
  PROVE  PlaceFits(k, n, b)'
<1>1. Kept' = Kept BY LinesStay
<1>2. \A s \in Shard : lines[s] \in Nat BY DEF ShardsTypeOK
<1>3. ASSUME NEW s \in Shard, s = k, lines[s] <= n + interruptions + a
      PROVE  lines'[s] <= n + interruptions' + b
  <2> DEFINE i == interruptions  j == interruptions'  l == lines[s]
  <2>1. i \in Nat /\ j \in Nat /\ l \in Nat /\ i + a <= j + b /\ l <= n + i + a /\ l = lines'[s]
    BY <1>2, <1>3
  <2> HIDE DEF i, j, l
  <2>2. l <= n + j + b
    BY <2>1
  <2> QED BY <2>1, <2>2 DEF j
<1> QED BY <1>1, <1>3 DEF PlaceFits

(* A thread that is not out holds the lock, and the others are out.        *)
LEMMA AloneUnderLock ==
  ASSUME \A u \in Thread : WriterFits(u), NEW t \in Thread, writer[t].pc # "out"
  PROVE  /\ lock = {t} /\ phase = "run"
         /\ \A u \in Thread \ {t} : writer[u].pc = "out"
         /\ Ahead = IF writer[t].pc = "save" THEN 1 ELSE 0
<1>1. lock = {t} /\ phase = "run"
  BY DEF WriterFits
<1>2. \A u \in Thread \ {t} : writer[u].pc = "out"
  BY <1>1 DEF WriterFits
<1>3. (\E u \in Thread : writer[u].pc = "save") <=> writer[t].pc = "save"
  BY <1>2
<1> QED BY <1>1, <1>2, <1>3 DEF Ahead

WriterType == [pc : {"out", "load", "append", "save", "auth", "mirror"},
               at : StateRecord \union {NoState}]

(* So a step of such a thread is about its own record.                     *)
LEMMA OwnRecordMoves ==
  ASSUME ShardsTypeOK, \A u \in Thread : WriterFits(u), NEW t \in Thread, writer[t].pc # "out",
         NEW w \in WriterType, writer' = [writer EXCEPT ![t] = w]
  PROVE  /\ writer' \in [Thread -> WriterType] /\ writer'[t] = w
         /\ \A u \in Thread \ {t} : WriterFits(u)'
         /\ Ahead' = IF w.pc = "save" THEN 1 ELSE 0
<1>1. writer \in [Thread -> WriterType]
  BY DEF ShardsTypeOK, WriterType
<1>2. writer' \in [Thread -> WriterType] /\ writer'[t] = w
  BY <1>1
<1>3. \A u \in Thread \ {t} : writer'[u].pc = "out"
  BY <1>1, AloneUnderLock
<1>4. \A u \in Thread \ {t} : WriterFits(u)'
  BY <1>3 DEF WriterFits
<1>5. (\E u \in Thread : writer'[u].pc = "save") <=> w.pc = "save"
  BY <1>2, <1>3
<1> QED BY <1>2, <1>4, <1>5 DEF Ahead

-----------------------------------------------------------------------------
(* The process. *)

LEMMA StartKeeps ==
  ASSUME ShardsIInv, StartProcess
  PROVE  ShardsIInv'
<1>1. /\ phase = "start" /\ phase' \in {"migrate", "run"}
      /\ UNCHANGED <<lines, legacy, state, legacyState, lock, writer, files, interruptions>>
  BY DEF StartProcess
<1>2. /\ Kept' = Kept /\ Written' = Written /\ Present(lines)' = Present(lines) /\ LinesFit'
  BY <1>1, LinesStay DEF ShardsIInv
<1>3. \A t \in Thread : writer[t].pc = "out"
  BY <1>1 DEF ShardsIInv, WriterFits
<1>4. \A t \in Thread : WriterFits(t)'
  BY <1>1, <1>3 DEF WriterFits
<1>5. ShardsTypeOK' /\ ShardsBounded' /\ LinesComeFirst' /\ interruptions' \in Nat
  BY <1>1, <1>2 DEF ShardsIInv, ShardsTypeOK, ShardsBounded, LinesComeFirst
<1>6. StateFits'
  <2>1. Ahead' = Ahead BY <1>1 DEF Ahead
  <2> QED BY <1>1, <1>2, <2>1 DEF ShardsIInv, StateFits, PlaceFits
<1>7. MigrationFits'
  <2>1. Unmigrated' => Unmigrated
    BY <1>1, <1>2 DEF StartProcess, Unmigrated
  <2>2. phase' = "migrate" => state = NoState /\ Present(lines) = {}
    BY <1>1 DEF StartProcess
  <2>3. \A s \in Shard : lines[s] \in Nat BY DEF ShardsIInv, ShardsTypeOK
  <2>4. Present(lines) = {} => \A s \in Shard : lines[s] = 0
    BY <2>3 DEF Present
  <2> QED BY <1>1, <1>2, <2>1, <2>2, <2>4 DEF ShardsIInv, MigrationFits, OldPlaceFits
<1> QED BY <1>2, <1>4, <1>5, <1>6, <1>7 DEF ShardsIInv

LEMMA MigrateShardKeeps ==
  ASSUME ShardsIInv, NEW s \in Shard, MigrateShard(s)
  PROVE  ShardsIInv'
<1>1. /\ phase = "migrate" /\ phase' = phase /\ state = NoState /\ lines[s] = 0 /\ legacy[s] > 0
      /\ lines' = [lines EXCEPT ![s] = legacy[s]] /\ legacy' = [legacy EXCEPT ![s] = 0]
      /\ UNCHANGED <<state, legacyState, lock, writer, files, interruptions>>
  BY DEF MigrateShard, ShardsIInv, MigrationFits
<1>2. /\ lines \in [Shard -> Nat] /\ legacy \in [Shard -> Nat] /\ interruptions \in Nat
      /\ legacy \in [Shard -> 0..ShardSize] /\ ShardSize \in Nat
  BY ShardAssumption DEF ShardsIInv, ShardsTypeOK, LinesFit
<1>3. /\ lines' \in [Shard -> Nat] /\ legacy' \in [Shard -> Nat]
      /\ lines'[s] = legacy[s] /\ legacy'[s] = 0
      /\ \A u \in Shard \ {s} : lines'[u] = lines[u] /\ legacy'[u] = legacy[u]
      /\ legacy' \in [Shard -> 0..ShardSize]
  <2>1. 0 \in 0..ShardSize BY <1>2
  <2> QED BY <1>1, <1>2, <2>1
<1>4. Kept' = Kept
  <2>1. \A u \in Shard : lines'[u] + legacy'[u] = lines[u] + legacy[u]
    <3>1. lines'[s] + legacy'[s] = lines[s] + legacy[s]
      BY <1>1, <1>2, <1>3
    <3> QED BY <1>3, <3>1
  <2> QED BY <2>1 DEF Kept
<1>5. Written' = Written /\ LinesFit'
  <2>1. Written' = Written BY <1>4 DEF Written, LinesOf
  <2> QED BY <1>3, <1>4, <2>1 DEF ShardsIInv, LinesFit, Packed
<1>6. \A t \in Thread : WriterFits(t)'
  <2>1. \A t \in Thread : writer'[t].pc = "out" BY <1>1 DEF ShardsIInv, WriterFits
  <2> QED BY <2>1 DEF WriterFits
<1>7. ShardsTypeOK' /\ LinesComeFirst' /\ interruptions' \in Nat
  BY <1>1, <1>3, <1>5 DEF ShardsIInv, ShardsTypeOK, LinesComeFirst
<1>8. ShardsBounded'
  <2>1. ASSUME NEW u \in Shard PROVE lines'[u] <= ShardSize + interruptions'
    <3>1. CASE u = s BY <1>1, <1>2, <1>3, <3>1
    <3>2. CASE u # s BY <1>1, <1>3, <3>2 DEF ShardsIInv, ShardsBounded
    <3> QED BY <3>1, <3>2
  <2> QED BY <2>1 DEF ShardsBounded
<1>9. StateFits'
  BY <1>1 DEF StateFits
<1>10. MigrationFits'
  <2>1. \A u \in Shard : legacy'[u] > 0 => lines'[u] = 0
    BY <1>1, <1>3 DEF ShardsIInv, MigrationFits
  <2>2. legacyState' # NoState => OldPlaceFits(legacyState'.shard, legacyState'.line)
    BY <1>1 DEF ShardsIInv, MigrationFits, Unmigrated
  <2> QED BY <1>1, <1>4, <2>1, <2>2 DEF MigrationFits, OldPlaceFits
<1> QED BY <1>5, <1>6, <1>7, <1>8, <1>9, <1>10 DEF ShardsIInv

LEMMA MigrateStateKeeps ==
  ASSUME ShardsIInv, MigrateState
  PROVE  ShardsIInv'
<1>1. /\ phase = "migrate" /\ phase' = "run" /\ state = NoState
      /\ interruptions \in Nat /\ interruptions' \in {interruptions, interruptions + 1}
      /\ \/ state' = legacyState /\ legacyState' = NoState
         \/ state' = NoState /\ legacyState' = legacyState
      /\ UNCHANGED <<lines, legacy, lock, writer, files>>
  BY DEF MigrateState, ShardsIInv, MigrationFits
<1>2. /\ Kept' = Kept /\ Written' = Written /\ Present(lines)' = Present(lines) /\ LinesFit'
  BY <1>1, LinesStay DEF ShardsIInv
<1>3. /\ \A s \in Shard : lines[s] \in Nat /\ legacy[s] \in Nat /\ Kept[s] = lines[s] + legacy[s]
      /\ ShardSize \in Nat /\ interruptions' \in Nat /\ interruptions' >= interruptions
  BY <1>1, KeptType, ShardAssumption DEF ShardsIInv, ShardsTypeOK
<1>4. \A t \in Thread : writer'[t].pc = "out"
  BY <1>1 DEF ShardsIInv, WriterFits
<1>5. \A t \in Thread : WriterFits(t)'
  BY <1>4 DEF WriterFits
<1>6. ShardsTypeOK' /\ LinesComeFirst'
  BY <1>1, <1>2 DEF ShardsIInv, ShardsTypeOK, LinesComeFirst
<1>7. ShardsBounded'
  BY <1>1, <1>3 DEF ShardsIInv, ShardsBounded
<1>8. StateFits'
  <2>1. SUFFICES ASSUME state' # NoState, state' = legacyState
                 PROVE  PlaceFits(state.shard, state.line, Ahead)'
    BY <1>1 DEF StateFits
  <2>2. OldPlaceFits(legacyState.shard, legacyState.line) /\ legacyState \in StateRecord
    BY <1>1, <2>1 DEF ShardsIInv, MigrationFits, Unmigrated, ShardsTypeOK
  <2>3. Ahead' = 0 BY <1>4 DEF Ahead
  <2>4. legacyState.line \in Nat BY <2>2 DEF StateRecord
  <2>5. ASSUME NEW s \in Shard
        PROVE  /\ s < legacyState.shard => Kept[s] >= ShardSize
               /\ s = legacyState.shard => /\ legacyState.line <= Kept[s]
                                           /\ lines[s] <= legacyState.line + interruptions' + 0
               /\ s > legacyState.shard => lines[s] = 0
    BY <1>3, <2>2, <2>4 DEF OldPlaceFits
  <2> QED BY <1>1, <1>2, <2>1, <2>3, <2>5 DEF PlaceFits
<1>9. MigrationFits'
  <2>1. legacyState' # NoState => OldPlaceFits(legacyState'.shard, legacyState'.line)
    BY <1>1 DEF ShardsIInv, MigrationFits, Unmigrated
  <2> QED BY <1>1, <1>2, <2>1 DEF MigrationFits, OldPlaceFits
<1> QED BY <1>2, <1>3, <1>5, <1>6, <1>7, <1>8, <1>9 DEF ShardsIInv

(* Whatever ends the writers, alone or all of them, spends an interruption.*)
LEMMA InterruptionKeeps ==
  ASSUME ShardsIInv, interruptions' = interruptions + 1,
         writer' \in [Thread -> WriterType],
         \A t \in Thread : writer'[t].pc = "out",
         lock' \subseteq Thread, phase' \in {"start", phase},
         UNCHANGED <<lines, legacy, state, legacyState, files>>
  PROVE  ShardsIInv'
<1>1. /\ Kept' = Kept /\ Written' = Written /\ Present(lines)' = Present(lines) /\ LinesFit'
  BY LinesStay DEF ShardsIInv
<1>2. \A t \in Thread : WriterFits(t)'
  BY DEF WriterFits
<1>3. ShardsTypeOK' /\ LinesComeFirst' /\ interruptions' \in Nat
  BY <1>1 DEF ShardsIInv, ShardsTypeOK, LinesComeFirst, WriterType
<1>4. ShardsBounded'
  BY ShardAssumption DEF ShardsIInv, ShardsBounded, ShardsTypeOK
<1>5. StateFits'
  <2>1. SUFFICES ASSUME state # NoState PROVE PlaceFits(state.shard, state.line, 0)'
    <3>1. Ahead' = 0 BY DEF Ahead
    <3> QED BY <2>1, <3>1 DEF StateFits, PlaceFits
  <2>2. state.shard \in Nat /\ state.line \in Nat
    BY <2>1 DEF ShardsIInv, ShardsTypeOK, StateRecord
  <2>3. Ahead \in Nat /\ Ahead <= 1 BY DEF Ahead
  <2>4. PlaceFits(state.shard, state.line, Ahead) BY <2>1 DEF ShardsIInv, StateFits
  <2>5. interruptions \in Nat /\ interruptions + Ahead <= interruptions' + 0
    BY <2>3 DEF ShardsIInv
  <2>6. \A a \in Nat : PlaceFits(state.shard, state.line, a) /\ interruptions + a <= interruptions' + 0
            => PlaceFits(state.shard, state.line, 0)'
    <3>1. SUFFICES ASSUME NEW k \in Nat, NEW n \in Nat, NEW a \in Nat, k = state.shard, n = state.line,
                          PlaceFits(k, n, a), interruptions + a <= interruptions' + 0
                   PROVE  PlaceFits(k, n, 0)'
      BY <2>2 DEF PlaceFits
    <3> QED BY <1>3, <2>5, <3>1, PlaceStays DEF ShardsIInv
  <2> QED BY <2>3, <2>4, <2>5, <2>6
<1>6. MigrationFits'
  BY <1>1 DEF ShardsIInv, MigrationFits, OldPlaceFits, Unmigrated
<1> QED BY <1>1, <1>2, <1>3, <1>4, <1>5, <1>6 DEF ShardsIInv

-----------------------------------------------------------------------------
(* The writers. *)

(* A thread's step that moves no lines and not the state.                  *)
LEMMA WriterStepKeeps ==
  ASSUME ShardsIInv,
         writer' \in [Thread -> WriterType], lock' \subseteq Thread,
         \A u \in Thread : WriterFits(u)', Ahead' = Ahead,
         files' \in [auth : Nat, mirror : Nat], LinesComeFirst',
         UNCHANGED <<phase, lines, legacy, state, legacyState, interruptions>>
  PROVE  ShardsIInv'
<1>1. /\ Kept' = Kept /\ Written' = Written /\ Present(lines)' = Present(lines) /\ LinesFit'
  BY LinesStay DEF ShardsIInv
<1>2. ShardsTypeOK' /\ ShardsBounded' /\ interruptions' \in Nat
  BY <1>1 DEF ShardsIInv, ShardsTypeOK, ShardsBounded, WriterType
<1>3. StateFits'
  BY <1>1 DEF ShardsIInv, StateFits, PlaceFits
<1>4. MigrationFits'
  BY <1>1 DEF ShardsIInv, MigrationFits, OldPlaceFits, Unmigrated
<1> QED BY <1>1, <1>2, <1>3, <1>4 DEF ShardsIInv

LEMMA EnterKeeps ==
  ASSUME ShardsIInv, NEW t \in Thread, Enter(t)
  PROVE  ShardsIInv'
<1>1. /\ phase = "run" /\ lock = {} /\ lock' = {t}
      /\ writer' = [writer EXCEPT ![t].pc = "load"]
      /\ UNCHANGED <<phase, lines, legacy, state, legacyState, files, interruptions>>
  BY DEF Enter, Persists, PersistAt
<1>2. Written < MaxLines
  <2>1. Written + Cardinality({}) < MaxLines BY DEF Enter
  <2>2. Written \in Nat /\ MaxLines \in Nat BY KeptType, ShardAssumption DEF ShardsIInv
  <2> QED BY <2>1, <2>2, FS_EmptySet
<1>3. \A u \in Thread : writer[u].pc = "out"
  BY <1>1 DEF ShardsIInv, WriterFits
<1>4. writer \in [Thread -> WriterType]
  BY DEF ShardsIInv, ShardsTypeOK, WriterType
<1>5. /\ writer' \in [Thread -> WriterType] /\ writer'[t].pc = "load"
      /\ \A u \in Thread \ {t} : writer'[u].pc = "out"
  <2>1. [writer[t] EXCEPT !.pc = "load"] \in WriterType BY <1>4 DEF WriterType
  <2>2. writer' = [writer EXCEPT ![t] = [writer[t] EXCEPT !.pc = "load"]] BY <1>1
  <2>3. [writer[t] EXCEPT !.pc = "load"].pc = "load" BY <1>4 DEF WriterType
  <2> QED BY <1>3, <1>4, <2>1, <2>2, <2>3
<1>6. Written' = Written
  BY <1>1, LinesStay DEF ShardsIInv
<1>7. \A u \in Thread : WriterFits(u)'
  BY <1>1, <1>2, <1>5, <1>6 DEF WriterFits
<1>8. Ahead' = Ahead
  BY <1>3, <1>5 DEF Ahead
<1>9. LinesComeFirst'
  BY <1>1, <1>6 DEF ShardsIInv, LinesComeFirst
<1> QED
  BY <1>1, <1>5, <1>7, <1>8, <1>9, WriterStepKeeps DEF ShardsIInv, ShardsTypeOK

LEMMA LoadKeeps ==
  ASSUME ShardsIInv, NEW t \in Thread, Load(t)
  PROVE  ShardsIInv'
<1> DEFINE w == [pc |-> "append", at |-> LoadState]
<1>1. /\ phase = "run" /\ writer[t].pc = "load" /\ writer' = [writer EXCEPT ![t] = w]
      /\ UNCHANGED <<phase, lines, legacy, state, legacyState, lock, files, interruptions>>
  BY DEF Load, Persists
<1>2. w \in WriterType
  BY LoadedFits DEF ShardsIInv, WriterType
<1>3. w.pc = "append" /\ w.at = LoadState
  OBVIOUS
<1> HIDE DEF w
<1>4. /\ writer' \in [Thread -> WriterType] /\ writer'[t] = w
      /\ \A u \in Thread \ {t} : WriterFits(u)'
      /\ Ahead' = 0
  BY <1>1, <1>2, <1>3, OwnRecordMoves DEF ShardsIInv
<1>5. Ahead = 0 /\ lock = {t}
  BY <1>1, AloneUnderLock DEF ShardsIInv
<1>6. Written' = Written /\ LoadState' = LoadState
  BY <1>1, LinesStay DEF ShardsIInv, LoadState
<1>7. WriterFits(t)'
  <2>1. Written < MaxLines BY <1>1 DEF ShardsIInv, WriterFits
  <2> QED BY <1>1, <1>3, <1>4, <1>5, <1>6, <2>1 DEF WriterFits
<1>8. LinesComeFirst'
  BY <1>1, <1>6 DEF ShardsIInv, LinesComeFirst
<1> QED
  BY <1>1, <1>4, <1>5, <1>7, <1>8, WriterStepKeeps DEF ShardsIInv, ShardsTypeOK

(* Steps that leave the thread's position: the pc alone moves.             *)
LEMMA OwnPcMoves ==
  ASSUME ShardsIInv, NEW t \in Thread, writer[t].pc # "out",
         NEW pc \in {"load", "append", "save", "auth", "mirror"},
         writer' = [writer EXCEPT ![t].pc = pc]
  PROVE  /\ writer' \in [Thread -> WriterType]
         /\ writer'[t].pc = pc /\ writer'[t].at = writer[t].at
         /\ \A u \in Thread \ {t} : WriterFits(u)'
         /\ Ahead' = IF pc = "save" THEN 1 ELSE 0
<1> DEFINE w == [writer[t] EXCEPT !.pc = pc]
<1>1. writer[t] \in WriterType
  BY DEF ShardsIInv, ShardsTypeOK, WriterType
<1>2. w \in WriterType /\ w.pc = pc /\ w.at = writer[t].at
  BY <1>1 DEF WriterType
<1>3. writer' = [writer EXCEPT ![t] = w]
  OBVIOUS
<1> HIDE DEF w
<1> QED BY <1>2, <1>3, OwnRecordMoves DEF ShardsIInv

LEMMA WriteAuthKeeps ==
  ASSUME ShardsIInv, NEW t \in Thread, WriteAuth(t)
  PROVE  ShardsIInv'
<1>1. /\ phase = "run" /\ writer[t].pc = "auth" /\ writer' = [writer EXCEPT ![t].pc = "mirror"]
      /\ files' = [files EXCEPT !.auth = @ + 1]
      /\ UNCHANGED <<phase, lines, legacy, state, legacyState, lock, interruptions>>
  BY DEF WriteAuth, Persists, PersistAt
<1>2. /\ writer' \in [Thread -> WriterType] /\ writer'[t].pc = "mirror"
      /\ \A u \in Thread \ {t} : WriterFits(u)'
      /\ Ahead' = 0
  BY <1>1, OwnPcMoves
<1>3. Ahead = 0 /\ lock = {t}
  BY <1>1, AloneUnderLock DEF ShardsIInv
<1>4. Written' = Written
  BY <1>1, LinesStay DEF ShardsIInv
<1>5. files.auth < Written /\ files.mirror <= files.auth
  BY <1>1 DEF ShardsIInv, WriterFits, LinesComeFirst
<1>6. files.auth \in Nat /\ files.mirror \in Nat /\ Written \in Nat
  BY KeptType DEF ShardsIInv, ShardsTypeOK
<1>7. /\ files' \in [auth : Nat, mirror : Nat]
      /\ files'.auth = files.auth + 1 /\ files'.mirror = files.mirror
  <2> DEFINE n == files.auth + 1
  <2>1. n \in Nat /\ files' = [files EXCEPT !.auth = n] BY <1>1, <1>6
  <2> HIDE DEF n
  <2>2. files' \in [auth : Nat, mirror : Nat] /\ files'.auth = n /\ files'.mirror = files.mirror
    BY <2>1 DEF ShardsIInv, ShardsTypeOK
  <2> QED BY <2>2 DEF n
<1>8. WriterFits(t)' /\ LinesComeFirst'
  BY <1>1, <1>2, <1>3, <1>4, <1>5, <1>6, <1>7 DEF WriterFits, LinesComeFirst
<1> QED
  BY <1>1, <1>2, <1>3, <1>7, <1>8, WriterStepKeeps DEF ShardsIInv, ShardsTypeOK

LEMMA MirrorAuthKeeps ==
  ASSUME ShardsIInv, NEW t \in Thread, MirrorAuth(t)
  PROVE  ShardsIInv'
<1>1. /\ phase = "run" /\ writer[t].pc = "mirror" /\ writer' = [writer EXCEPT ![t] = NoWriter]
      /\ lock' = lock \ {t}
      /\ UNCHANGED <<phase, lines, legacy, state, legacyState, interruptions>>
  BY DEF MirrorAuth, Persists
<1>2. NoWriter \in WriterType /\ NoWriter.pc = "out"
  BY DEF NoWriter, WriterType
<1>3. /\ writer' \in [Thread -> WriterType] /\ writer'[t] = NoWriter
      /\ \A u \in Thread \ {t} : WriterFits(u)'
      /\ Ahead' = 0
  BY <1>1, <1>2, OwnRecordMoves DEF ShardsIInv
<1>4. Ahead = 0
  BY <1>1, AloneUnderLock DEF ShardsIInv
<1>5. Written' = Written
  BY <1>1, LinesStay DEF ShardsIInv
<1>6. files.mirror < files.auth /\ files.auth <= Written
  BY <1>1 DEF ShardsIInv, WriterFits, LinesComeFirst
<1>7. files.auth \in Nat /\ files.mirror \in Nat /\ Written \in Nat
  BY KeptType DEF ShardsIInv, ShardsTypeOK
<1>8. PICK copied \in {0, 1} : files' = [files EXCEPT !.mirror = @ + copied]
  BY DEF MirrorAuth
<1>9. /\ files' \in [auth : Nat, mirror : Nat]
      /\ files'.mirror = files.mirror + copied /\ files'.auth = files.auth
  <2> DEFINE n == files.mirror + copied
  <2>1. n \in Nat /\ files' = [files EXCEPT !.mirror = n] BY <1>7, <1>8
  <2> HIDE DEF n
  <2>2. files' \in [auth : Nat, mirror : Nat] /\ files'.mirror = n /\ files'.auth = files.auth
    BY <2>1 DEF ShardsIInv, ShardsTypeOK
  <2> QED BY <2>2 DEF n
<1>10. LinesComeFirst'
  BY <1>5, <1>6, <1>7, <1>9 DEF LinesComeFirst
<1>11. WriterFits(t)'
  BY <1>2, <1>3 DEF WriterFits
<1> QED
  BY <1>1, <1>3, <1>4, <1>9, <1>10, <1>11, WriterStepKeeps DEF ShardsIInv, ShardsTypeOK

LEMMA AppendLineKeeps ==
  ASSUME ShardsIInv, NEW t \in Thread, AppendLine(t)
  PROVE  ShardsIInv'
<1>1. /\ phase = "run" /\ writer[t].pc = "append" /\ writer[t].at = LoadState
      /\ lines' = [lines EXCEPT ![LoadState.shard] = lines[LoadState.shard] + 1]
      /\ writer' = [writer EXCEPT ![t].pc = "save"]
      /\ UNCHANGED <<phase, legacy, state, legacyState, lock, files, interruptions>>
  BY DEF AppendLine, Persists, PersistAt, ShardsIInv, WriterFits
<1>2. /\ writer' \in [Thread -> WriterType]
      /\ writer'[t].pc = "save" /\ writer'[t].at = LoadState
      /\ \A u \in Thread \ {t} : WriterFits(u)'
      /\ Ahead' = 1 /\ Ahead = 0 /\ lock = {t}
  BY <1>1, OwnPcMoves, AloneUnderLock DEF ShardsIInv
<1>3. PICK k \in Shard, n \in Nat :
        /\ LoadState \in StateRecord /\ LoadState.shard = k /\ LoadState.line = n
        /\ PlaceFits(k, n, 0)
  <2>1. /\ LoadState \in StateRecord /\ LoadState.shard \in Shard
        /\ PlaceFits(LoadState.shard, LoadState.line, 0)
    BY <1>2, LoadedFits DEF ShardsIInv
  <2>2. LoadState.line \in Nat BY <2>1, ShardAssumption DEF StateRecord
  <2> QED BY <2>1, <2>2
<1> DEFINE i == interruptions
<1>4. /\ n + 1 <= ShardSize /\ ShardSize \in Nat /\ i \in Nat /\ MaxLines \in Nat
      /\ \A s \in Shard : s \in Nat
  BY <1>3, ShardAssumption DEF StateRecord, ShardsIInv, Shard
<1>5. /\ \A s \in Shard : lines[s] \in Nat /\ legacy[s] \in Nat /\ Kept[s] \in Nat
                          /\ Kept[s] = lines[s] + legacy[s]
      /\ Kept \in [Shard -> Nat] /\ Written \in Nat
  BY KeptType DEF ShardsIInv, ShardsTypeOK
<1>6. /\ lines' \in [Shard -> Nat] /\ lines'[k] = lines[k] + 1
      /\ \A s \in Shard \ {k} : lines'[s] = lines[s]
  <2> DEFINE l == lines[k] + 1
  <2>1. l \in Nat /\ lines' = [lines EXCEPT ![k] = l] BY <1>1, <1>3, <1>5
  <2> HIDE DEF l
  <2>2. lines' \in [Shard -> Nat] /\ lines'[k] = l /\ \A s \in Shard \ {k} : lines'[s] = lines[s]
    BY <1>3, <2>1 DEF ShardsIInv, ShardsTypeOK
  <2> QED BY <2>2 DEF l
<1>7. ShardsTypeOK' /\ interruptions' = i
  BY <1>1, <1>2, <1>6 DEF ShardsIInv, ShardsTypeOK, WriterType
<1>8. writer'[t].at.shard = k /\ writer'[t].at.line = n
  BY <1>2, <1>3
<1>9. state # NoState => state.shard = k /\ state.line = n
  BY <1>3 DEF LoadState
<1>10. writer'[t].at \in StateRecord
  BY <1>2, <1>3
<1> HIDE DEF i
<1>11. /\ \A s \in Shard : Kept'[s] = lines'[s] + legacy'[s] /\ Kept'[s] \in Nat
       /\ Kept' \in [Shard -> Nat] /\ Written' \in Nat
  <2>1. Kept' = [s \in Shard |-> lines'[s] + legacy'[s]] BY DEF Kept
  <2>2. \A s \in Shard : lines'[s] \in Nat /\ legacy'[s] \in Nat
    BY <1>7 DEF ShardsTypeOK
  <2>3. Kept' \in [Shard -> Nat] BY <2>1, <2>2
  <2>4. Written' = Cardinality(LinesOf(Kept')) BY DEF Written, LinesOf
  <2> QED BY <2>1, <2>2, <2>3, <2>4, LinesAreCounted
<1>12. Kept'[k] = Kept[k] + 1 /\ \A s \in Shard \ {k} : Kept'[s] = Kept[s]
  BY <1>1, <1>3, <1>5, <1>6, <1>11
<1>13. Written' = Written + 1
  <2>1. Written' = Cardinality(LinesOf(Kept')) BY DEF Written, LinesOf
  <2>2. Cardinality(LinesOf(Kept')) = Cardinality(LinesOf(Kept)) + 1
    BY <1>3, <1>5, <1>11, <1>12, LineIsAdded
  <2> QED BY <2>1, <2>2 DEF Written
<1>14. LinesFit'
  <2>1. Written < MaxLines BY <1>1 DEF ShardsIInv, WriterFits
  <2>2. Written' <= MaxLines BY <1>4, <1>5, <1>13, <2>1
  <2>3. \A s \in Shard : Kept'[s] >= Kept[s]
    BY <1>3, <1>5, <1>12
  <2>4. Packed'
    <3>1. SUFFICES ASSUME NEW s \in Shard, NEW u \in Shard, s < u, Kept'[u] > 0
                   PROVE  Kept'[s] >= ShardSize
      BY DEF Packed
    <3>2. Kept[s] >= ShardSize
      <4>1. CASE u = k BY <1>3, <3>1, <4>1 DEF PlaceFits
      <4>2. CASE u # k
        <5>1. Kept[u] > 0 BY <1>12, <3>1, <4>2
        <5> QED BY <3>1, <5>1 DEF ShardsIInv, LinesFit, Packed
      <4> QED BY <4>1, <4>2
    <3> QED BY <1>4, <1>5, <1>11, <2>3, <3>2
  <2> QED BY <1>1, <2>2, <2>4 DEF LinesFit, ShardsIInv
<1>15. MigrationFits'
  <2>1. k \in Present(lines)'
    BY <1>3, <1>5, <1>6 DEF Present
  <2> QED BY <1>1, <2>1 DEF MigrationFits, Unmigrated
<1>16. PlaceFits(k, n + 1, 0)' /\ PlaceFits(k, n, 1)'
  <2>1. ASSUME NEW s \in Shard
        PROVE  /\ s < k => Kept'[s] >= ShardSize
               /\ s = k => /\ n + 1 <= Kept'[s] /\ n <= Kept'[s]
                           /\ lines'[s] <= (n + 1) + i + 0 /\ lines'[s] <= n + i + 1
               /\ s > k => lines'[s] = 0
    <3>1. CASE s = k
      <4>1. n <= Kept[k] /\ lines[k] <= n + i + 0
        BY <1>3 DEF PlaceFits, i
      <4>2. Kept[k] \in Nat /\ lines[k] \in Nat BY <1>3, <1>5
      <4> QED BY <1>4, <1>6, <1>12, <3>1, <4>1, <4>2
    <3>2. CASE s # k
      <4>1. Kept'[s] = Kept[s] /\ lines'[s] = lines[s] BY <1>6, <1>12, <3>2
      <4> QED BY <1>3, <3>2, <4>1 DEF PlaceFits
    <3> QED BY <3>1, <3>2
  <2> QED BY <1>7, <2>1 DEF PlaceFits
<1>17. StateFits'
  BY <1>1, <1>2, <1>9, <1>16 DEF StateFits
<1>18. files.auth < Written' /\ LinesComeFirst'
  <2>1. files.auth \in Nat /\ files.mirror <= files.auth /\ files.auth <= Written
    BY DEF ShardsIInv, ShardsTypeOK, LinesComeFirst
  <2> QED BY <1>1, <1>5, <1>13, <2>1 DEF LinesComeFirst
<1>19. WriterFits(t)'
  BY <1>1, <1>2, <1>8, <1>10, <1>16, <1>18 DEF WriterFits
<1>20. ShardsBounded'
  <2>1. lines'[k] <= ShardSize + i
    <3>1. lines[k] <= n + i + 0
      BY <1>3 DEF PlaceFits, i
    <3>2. lines[k] \in Nat BY <1>3, <1>5
    <3> QED BY <1>4, <1>6, <3>1, <3>2
  <2>2. \A s \in Shard : lines[s] <= ShardSize + i
    BY DEF ShardsIInv, ShardsBounded, i
  <2> QED BY <1>6, <1>7, <2>1, <2>2 DEF ShardsBounded
<1> QED
  BY <1>2, <1>4, <1>7, <1>14, <1>15, <1>17, <1>18, <1>19, <1>20 DEF ShardsIInv

LEMMA SaveStateKeeps ==
  ASSUME ShardsIInv, NEW t \in Thread, SaveState(t)
  PROVE  ShardsIInv'
<1> DEFINE k == writer[t].at.shard  n == writer[t].at.line + 1  p == After(k, n)
<1>1. /\ phase = "run" /\ writer[t].pc = "save"
      /\ state' = p
      /\ writer' = [writer EXCEPT ![t].pc = "auth"]
      /\ UNCHANGED <<phase, lines, legacy, legacyState, lock, files, interruptions>>
  BY DEF SaveState, Persists, PersistAt
<1>2. /\ writer' \in [Thread -> WriterType] /\ writer'[t].pc = "auth"
      /\ \A u \in Thread \ {t} : WriterFits(u)'
      /\ Ahead' = 0 /\ lock = {t}
  BY <1>1, OwnPcMoves, AloneUnderLock DEF ShardsIInv
<1>3. writer[t].at \in StateRecord /\ PlaceFits(k, n, 0) /\ files.auth < Written
  BY <1>1 DEF ShardsIInv, WriterFits
<1>4. k \in Nat /\ n \in Nat /\ n <= ShardSize /\ ShardSize \in Nat /\ ShardSize > 0
  BY <1>3, ShardAssumption DEF StateRecord
<1> HIDE DEF k, n
<1>5. /\ p \in StateRecord
      /\ \/ p.shard = k + 1 /\ p.line = 0 /\ n >= ShardSize
         \/ p.shard = k /\ p.line = n
  <2>1. CASE n >= ShardSize
    <3>1. p = [shard |-> k + 1, line |-> 0] BY <2>1 DEF After
    <3> QED BY <1>4, <2>1, <3>1 DEF StateRecord
  <2>2. CASE ~(n >= ShardSize)
    <3>1. p = [shard |-> k, line |-> n] BY <2>2 DEF After
    <3> QED BY <1>4, <2>2, <3>1 DEF StateRecord
  <2> QED BY <2>1, <2>2
<1>6. p # NoState
  <2>1. p.line <= ShardSize /\ NoState.line = ShardSize + 1
    BY <1>4, <1>5 DEF NoState
  <2>2. p.line # NoState.line BY <1>4, <1>5, <2>1
  <2> QED BY <2>2
<1> HIDE DEF p
<1>7. /\ Kept' = Kept /\ Written' = Written /\ LinesFit'
      /\ \A s \in Shard : Kept[s] \in Nat /\ s \in Nat /\ lines[s] \in Nat
      /\ interruptions \in Nat
  BY <1>1, LinesStay, KeptType DEF ShardsIInv, Shard, ShardsTypeOK
<1>8. PlaceFits(p.shard, p.line, 0)
  <2>1. ASSUME NEW s \in Shard
        PROVE  /\ s < p.shard => Kept[s] >= ShardSize
               /\ s = p.shard => p.line <= Kept[s] /\ lines[s] <= p.line + interruptions + 0
               /\ s > p.shard => lines[s] = 0
    <3>1. /\ s < k => Kept[s] >= ShardSize
          /\ s = k => n <= Kept[s] /\ lines[s] <= n + interruptions + 0
          /\ s > k => lines[s] = 0
      BY <1>3 DEF PlaceFits
    <3>2. CASE p.shard = k + 1 /\ p.line = 0 /\ n >= ShardSize
      BY <1>4, <1>7, <3>1, <3>2
    <3>3. CASE p.shard = k /\ p.line = n
      BY <3>1, <3>3
    <3> QED BY <1>5, <3>2, <3>3
  <2> QED BY <2>1 DEF PlaceFits
<1>9. StateFits'
  BY <1>1, <1>2, <1>7, <1>8 DEF StateFits, PlaceFits
<1>10. MigrationFits'
  BY <1>1, <1>6 DEF MigrationFits, Unmigrated
<1>11. WriterFits(t)' /\ LinesComeFirst'
  BY <1>1, <1>2, <1>3, <1>7 DEF WriterFits, LinesComeFirst, ShardsIInv
<1>12. ShardsTypeOK' /\ ShardsBounded' /\ interruptions' \in Nat
  BY <1>1, <1>2, <1>5, <1>7 DEF ShardsIInv, ShardsTypeOK, ShardsBounded, WriterType
<1> QED
  BY <1>2, <1>7, <1>9, <1>10, <1>11, <1>12 DEF ShardsIInv

LEMMA EndKeeps ==
  ASSUME ShardsIInv, RestartProcess \/ \E t \in Thread : Raise(t)
  PROVE  ShardsIInv'
<1>1. NoWriter \in WriterType /\ NoWriter.pc = "out"
  BY DEF NoWriter, WriterType
<1>2. CASE RestartProcess
  <2>1. /\ writer' = [u \in Thread |-> NoWriter] /\ lock' = {} /\ phase' = "start"
        /\ interruptions' = interruptions + 1
        /\ UNCHANGED <<lines, legacy, state, legacyState, files>>
    BY <1>2 DEF RestartProcess
  <2>2. writer' \in [Thread -> WriterType] /\ \A u \in Thread : writer'[u].pc = "out"
    BY <1>1, <2>1
  <2> QED BY <2>1, <2>2, InterruptionKeeps
<1>3. ASSUME NEW t \in Thread, Raise(t)
      PROVE  ShardsIInv'
  <2>1. /\ writer[t].pc # "out" /\ writer' = [writer EXCEPT ![t] = NoWriter]
        /\ lock' = lock \ {t} /\ interruptions' = interruptions + 1
        /\ UNCHANGED <<phase, lines, legacy, state, legacyState, files>>
    BY <1>3 DEF Raise
  <2>2. writer' \in [Thread -> WriterType] /\ writer'[t] = NoWriter
    BY <1>1, <2>1, OwnRecordMoves DEF ShardsIInv
  <2>3. \A u \in Thread \ {t} : writer'[u].pc = "out"
    BY <2>1, AloneUnderLock DEF ShardsIInv, ShardsTypeOK
  <2>4. \A u \in Thread : writer'[u].pc = "out"
    BY <1>1, <2>2, <2>3
  <2>5. lock' \subseteq Thread
    BY <2>1 DEF ShardsIInv, ShardsTypeOK
  <2> QED BY <2>1, <2>2, <2>4, <2>5, InterruptionKeeps
<1> QED BY <1>2, <1>3

(* An old layout is packed and fits, and its place is where it ends.       *)
LEMMA ShardsStart ==
  ASSUME ShardsInit
  PROVE  ShardsIInv
<1>1. /\ legacy \in [Shard -> 0..ShardSize] /\ Cardinality(LinesOf(legacy)) <= MaxLines
      /\ \A s, u \in Shard : s < u /\ legacy[u] > 0 => legacy[s] = ShardSize
      /\ ShardSize \in Nat /\ ShardSize > 0
      /\ \A s \in Shard : s \in Nat
  BY ShardAssumption DEF ShardsInit, Shard
<1>2. legacy \in [Shard -> Nat] /\ \A s \in Shard : legacy[s] \in Nat
  BY <1>1
<1>3. /\ lines = [s \in Shard |-> 0] /\ state = NoState /\ phase = "start" /\ lock = {}
      /\ interruptions = 0 /\ files.auth = 0 /\ files.mirror = 0
      /\ \A t \in Thread : writer[t].pc = "out"
  BY DEF ShardsInit, NoWriter
<1>4. Kept = legacy
  <2>1. Kept = [s \in Shard |-> legacy[s]]
    BY <1>2, <1>3 DEF Kept
  <2> QED BY <1>2, <2>1
<1>5. legacyState # NoState => legacyState = InferState(legacy) /\ legacyState \in StateRecord
  BY <1>2, InferredPlace DEF ShardsInit
<1>6. ShardsTypeOK
  BY <1>2, <1>5 DEF ShardsInit, ShardsTypeOK, NoWriter
<1>7. LinesFit
  <2>1. Packed
    BY <1>1, <1>2, <1>4 DEF Packed
  <2> QED BY <1>1, <1>4, <2>1 DEF LinesFit, Written
<1>8. MigrationFits
  <2>1. SUFFICES ASSUME legacyState # NoState
                 PROVE  OldPlaceFits(legacyState.shard, legacyState.line)
    BY <1>3 DEF MigrationFits
  <2> DEFINE p == InferState(legacy)
  <2>2. legacyState = p /\ p \in StateRecord
    BY <1>5, <2>1
  <2>3. Present(legacy) # {}
    BY <2>1 DEF ShardsInit
  <2>4. PICK last \in Present(legacy) :
          /\ \A s \in Shard : s > last => legacy[s] = 0
          /\ \/ p.shard = last + 1 /\ p.line = 0 /\ legacy[last] >= ShardSize
             \/ p.shard = last /\ p.line = legacy[last]
    BY <1>2, <2>3, InferredPlace
  <2> HIDE DEF p
  <2>5. last \in Shard /\ last \in Nat /\ legacy[last] > 0
    BY <1>1, <2>4 DEF Present
  <2>6. \A s \in Shard : s < last => legacy[s] >= ShardSize
    BY <1>1, <2>5
  <2>7. ASSUME NEW s \in Shard
        PROVE  /\ s < p.shard => Kept[s] >= ShardSize
               /\ s = p.shard => Kept[s] = p.line
               /\ s > p.shard => Kept[s] = 0
    <3>1. CASE p.shard = last + 1 /\ p.line = 0 /\ legacy[last] >= ShardSize
      BY <1>1, <1>2, <1>4, <2>4, <2>5, <2>6, <3>1
    <3>2. CASE p.shard = last /\ p.line = legacy[last]
      BY <1>1, <1>2, <1>4, <2>4, <2>5, <2>6, <3>2
    <3> QED BY <2>4, <3>1, <3>2
  <2> QED BY <2>2, <2>7 DEF OldPlaceFits
<1>9. StateFits /\ \A t \in Thread : WriterFits(t)
  BY <1>3 DEF StateFits, WriterFits
<1>10. ShardsBounded /\ LinesComeFirst /\ interruptions \in Nat
  BY <1>1, <1>3, <1>6, KeptType DEF ShardsBounded, LinesComeFirst
<1> QED BY <1>6, <1>7, <1>8, <1>9, <1>10 DEF ShardsIInv

(***************************************************************************)
(* Whatever write fails and wherever the process dies, also half-way       *)
(* through a migration: only interruptions make a shard longer than it     *)
(* should be, every shard before the current one is full, the position is  *)
(* never past the lines, and no token file comes before its line           *)
(* (results_state.py, runtime_io.py:22-45).                                *)
(***************************************************************************)
THEOREM ResultsHaveNoGaps == ShardsSpec => []ShardsInv
<1>1. ShardsInit => ShardsIInv
  BY ShardsStart
<1>2. ShardsIInv /\ [ShardsNext]_shardVars => ShardsIInv'
  <2>1. CASE UNCHANGED shardVars
    <3>1. /\ Kept' = Kept /\ Written' = Written /\ Ahead' = Ahead /\ LoadState' = LoadState
          /\ Present(lines)' = Present(lines)
      BY <2>1 DEF shardVars, Kept, Written, LinesOf, Ahead, LoadState, InferState, Present, After
    <3> QED
      BY <2>1, <3>1
      DEF shardVars, ShardsIInv, ShardsTypeOK, LinesFit, Packed, MigrationFits, Unmigrated,
          OldPlaceFits, StateFits, PlaceFits, WriterFits, ShardsBounded, LinesComeFirst
  <2>2. CASE ShardsNext
    BY <2>2, StartKeeps, MigrateShardKeeps, MigrateStateKeeps, EnterKeeps, LoadKeeps,
       AppendLineKeeps, SaveStateKeeps, WriteAuthKeeps, MirrorAuthKeeps, EndKeeps
    DEF ShardsNext
  <2> QED BY <2>1, <2>2
<1>3. ShardsIInv => ShardsInv
  <2> SUFFICES ASSUME ShardsIInv PROVE ShardsInv
    OBVIOUS
  <2>1. PlaceFits(LoadState.shard, LoadState.line, Ahead) /\ LoadState.shard \in Shard
    BY LoadedFits DEF ShardsIInv
  <2>2. EarlierShardsFull
    BY <2>1 DEF EarlierShardsFull, PlaceFits
  <2>3. StateLags
    BY <2>1 DEF StateLags, PlaceFits, LoadState
  <2> QED BY <2>2, <2>3 DEF ShardsIInv, ShardsInv
<1> QED
  BY <1>1, <1>2, <1>3, PTL DEF ShardsSpec

-----------------------------------------------------------------------------
(***************************************************************************)
(* What a mailbox held at the lookup, by the baseline that is left of it:  *)
(* all of it, in a mailbox read mail by mail; of one read through the mail *)
(* service the second of its latest code, which may be a later mail's too. *)
(***************************************************************************)
Mail == [at : 1..MaxSecond, code : BOOLEAN]

CodedAt(box, i) == i \in DOMAIN box /\ box[i].code

BaselineFits(m, box, base, held) ==
  /\ held <= Len(box)
  /\ m \in DirectMailbox => held = base
  /\ m \notin DirectMailbox =>
       \A i \in 1..held : CodedAt(box, i) =>
         \E j \in i..held : CodedAt(box, j) /\ base = box[j].at

MailIInv ==
  /\ MailTypeOK /\ mails \in [Mailbox -> Seq(Mail)]
  /\ \A m \in Mailbox : BaselineFits(m, mails[m], baseline[m], login.held[m])
  /\ login.pc = "note" => \A m \in Mailbox : login.errors[m] = "none"
  /\ login.pc = "wait" => \A m \in Mailbox : login.errors[m] = "quota" => m = Here
  /\ QuotaIsNotBlamed /\ ReadIsNew /\ NewestIsRead

LEMMA LatestCode ==
  ASSUME NEW m \in Mailbox, mails[m] \in Seq(Mail)
  PROVE  /\ Latest(m) \in Coded(m)
         /\ \A i \in Coded(m) : Latest(m) >= i
         /\ Coded(m) \subseteq 0..Len(mails[m])
         /\ \A i \in Coded(m) : i # 0 => CodedAt(mails[m], i) /\ i \in 1..Len(mails[m])
         /\ \A i \in Nat : CodedAt(mails[m], i) => i \in Coded(m)
<1>1. /\ Coded(m) \subseteq 0..Len(mails[m]) /\ Coded(m) # {} /\ Len(mails[m]) \in Nat
      /\ \A i \in Coded(m) : i # 0 => CodedAt(mails[m], i) /\ i \in 1..Len(mails[m])
      /\ \A i \in Nat : CodedAt(mails[m], i) => i \in Coded(m)
  BY DEF Coded, CodedAt
<1>2. Max(Coded(m)) \in Coded(m) /\ \A y \in Coded(m) : Max(Coded(m)) >= y
  BY <1>1, MaxOfBounded
<1> QED BY <1>1, <1>2 DEF Latest

LEMMA Turns ==
  /\ DOMAIN Candidates = 1..Len(Candidates) /\ Len(Candidates) \in Nat
  /\ 1 \in DOMAIN Candidates
  /\ \A t \in DOMAIN Candidates : t < Len(Candidates) => t + 1 \in DOMAIN Candidates
<1>1. \A s \in Seq(Mailbox) : DOMAIN s = 1..Len(s) /\ Len(s) \in Nat /\ (s # <<>> => Len(s) > 0)
  OBVIOUS
<1> QED BY <1>1, MailAssumption

LEMMA HereIsMailbox ==
  ASSUME MailIInv
  PROVE  Here \in Mailbox
<1>1. login.turn \in DOMAIN Candidates
  BY DEF MailIInv, MailTypeOK, LoginRecord
<1>2. Candidates \in [DOMAIN Candidates -> Mailbox]
  BY MailAssumption
<1> QED BY <1>1, <1>2 DEF Here

(* The lookup leaves the baseline that stands for what the mailbox holds.  *)
LEMMA MarkerFits ==
  ASSUME NEW m \in Mailbox, mails[m] \in Seq(Mail)
  PROVE  Marker(m) \in Nat /\ BaselineFits(m, mails[m], Marker(m), Len(mails[m]))
<1> DEFINE box == mails[m]
<1>1. Len(box) \in Nat OBVIOUS
<1>2. CASE m \in DirectMailbox
  BY <1>1, <1>2 DEF Marker, BaselineFits
<1>3. CASE m \notin DirectMailbox
  <2>1. CASE Latest(m) = 0
    <3>1. ASSUME NEW i \in 1..Len(box), CodedAt(box, i) PROVE FALSE
      <4>1. i \in Coded(m) BY <3>1, LatestCode
      <4> QED BY <2>1, <4>1, LatestCode
    <3> QED BY <1>1, <1>3, <2>1, <3>1 DEF Marker, BaselineFits
  <2>2. CASE Latest(m) # 0
    <3>1. Latest(m) \in 1..Len(box) /\ CodedAt(box, Latest(m)) BY <2>2, LatestCode
    <3>2. box[Latest(m)] \in Mail BY <3>1
    <3>3. Marker(m) = box[Latest(m)].at /\ Marker(m) \in Nat
      BY <1>3, <2>2, <3>2, MailAssumption DEF Marker, Mail
    <3>4. ASSUME NEW i \in 1..Len(box), CodedAt(box, i)
          PROVE  Latest(m) \in i..Len(box)
      <4>1. i \in Coded(m) BY <3>4, LatestCode
      <4> QED BY <1>1, <3>1, <4>1, LatestCode
    <3> QED BY <1>1, <1>3, <3>1, <3>3, <3>4 DEF BaselineFits
  <2> QED BY <2>1, <2>2
<1> QED BY <1>2, <1>3

(* Mail that comes in leaves what the baseline stands for as it was.       *)
LEMMA ArrivalFits ==
  ASSUME NEW m \in Mailbox, NEW box \in Seq(Mail), NEW mail \in Mail,
         NEW base \in Nat, NEW held \in Nat, BaselineFits(m, box, base, held)
  PROVE  BaselineFits(m, Append(box, mail), base, held)
<1>1. /\ Len(Append(box, mail)) = Len(box) + 1 /\ Len(box) \in Nat
      /\ \A i \in 1..Len(box) : Append(box, mail)[i] = box[i]
      /\ DOMAIN box = 1..Len(box) /\ DOMAIN Append(box, mail) = 1..(Len(box) + 1)
  OBVIOUS
<1>2. \A i \in 1..held : CodedAt(Append(box, mail), i) <=> CodedAt(box, i)
  BY <1>1 DEF CodedAt, BaselineFits
<1> HIDE DEF CodedAt
<1>3. ASSUME m \notin DirectMailbox, NEW i \in 1..held, CodedAt(Append(box, mail), i)
      PROVE  \E j \in i..held : CodedAt(Append(box, mail), j) /\ base = Append(box, mail)[j].at
  <2>1. PICK j \in i..held : CodedAt(box, j) /\ base = box[j].at
    BY <1>2, <1>3 DEF BaselineFits
  <2>2. j \in 1..held /\ j \in 1..Len(box) BY <1>1 DEF BaselineFits
  <2> QED BY <1>1, <1>2, <2>1, <2>2
<1> QED BY <1>1, <1>3 DEF BaselineFits

(* A code that a poll accepts came in after the lookup, and the last of    *)
(* those is the latest code of all.                                        *)
LEMMA ChosenIsNew ==
  ASSUME NEW m \in Mailbox, mails[m] \in Seq(Mail), baseline[m] \in Nat,
         NEW held \in Nat, BaselineFits(m, mails[m], baseline[m], held), NewCodes(m) # {}
  PROVE  LET c == ChosenOf(NewCodes(m)) IN c \in Nat /\ c > held /\ c = Latest(m)
<1> DEFINE box == mails[m]  c == Max(NewCodes(m))
<1>1. Len(box) \in Nat /\ NewCodes(m) \subseteq 0..Len(box)
  BY LatestCode DEF NewCodes
<1>2. c \in NewCodes(m) /\ \A y \in NewCodes(m) : c >= y
  BY <1>1, MaxOfBounded
<1>3. CASE m \in DirectMailbox
  <2>1. NewCodes(m) = { i \in Coded(m) : i > baseline[m] } /\ held = baseline[m]
    BY <1>3 DEF NewCodes, BaselineFits
  <2>2. c \in Nat /\ c > held /\ c \in Coded(m)
    <3>1. c \in Nat BY <1>1, <1>2
    <3> HIDE DEF c
    <3> QED BY <1>2, <2>1, <3>1
  <2>3. Latest(m) \in Coded(m) /\ Latest(m) \in Nat /\ Latest(m) >= c
    BY <1>1, <2>2, LatestCode
  <2>4. c >= Latest(m) BY <1>2, <2>1, <2>2, <2>3
  <2> QED BY <2>2, <2>3, <2>4 DEF ChosenOf
<1>4. CASE m \notin DirectMailbox
  <2>1. c = Latest(m) /\ c # 0 /\ (baseline[m] = 0 \/ box[c].at > baseline[m])
    BY <1>2, <1>4 DEF NewCodes
  <2>2. c \in 1..Len(box) /\ CodedAt(box, c)
    BY <2>1, LatestCode
  <2>3. ASSUME c <= held PROVE FALSE
    <3>1. PICK j \in c..held : CodedAt(box, j) /\ baseline[m] = box[j].at
      BY <1>4, <2>2, <2>3 DEF BaselineFits
    <3>2. j \in Nat /\ j \in Coded(m) BY <2>2, <3>1, LatestCode
    <3>3. j = c BY <2>1, <2>2, <3>1, <3>2, LatestCode
    <3>4. box[c] \in Mail BY <2>2
    <3> QED BY <2>1, <3>1, <3>3, <3>4, MailAssumption DEF Mail
  <2> QED BY <2>1, <2>2, <2>3 DEF ChosenOf
<1> QED BY <1>3, <1>4

LEMMA LookupKeeps ==
  ASSUME MailIInv, NoteMailbox
  PROVE  MailIInv'
<1> DEFINE last == ~(login.turn < Len(Candidates))
           next == IF last THEN [login EXCEPT !.pc = "wait", !.turn = 1]
                   ELSE [login EXCEPT !.turn = @ + 1]
           H == Here
<1>1. login \in LoginRecord /\ login.pc = "note" /\ H \in Mailbox
  BY HereIsMailbox DEF MailIInv, MailTypeOK, NoteMailbox
<1>2. /\ next \in LoginRecord /\ next.pc \in {"note", "wait"}
      /\ next.errors = login.errors /\ next.held = login.held
  <2>1. 1 \in DOMAIN Candidates /\ DOMAIN Candidates = 1..Len(Candidates) /\ Len(Candidates) \in Nat
    BY Turns
  <2>2. ~last => login.turn + 1 \in DOMAIN Candidates
    <3>1. login.turn \in DOMAIN Candidates BY <1>1 DEF LoginRecord
    <3> QED BY <3>1, Turns
  <2> HIDE DEF last
  <2>3. CASE last
    BY <1>1, <2>1, <2>3 DEF LoginRecord
  <2>4. CASE ~last
    BY <1>1, <2>2, <2>4 DEF LoginRecord
  <2> QED BY <2>3, <2>4
<1>3. /\ second' = second /\ mails' = mails
      /\ \/ /\ baseline' = [baseline EXCEPT ![H] = Marker(H)]
            /\ login' = [next EXCEPT !.held[H] = Len(mails[H])]
         \/ login' = next /\ baseline' = baseline
  <2>1. next = IF login.turn < Len(Candidates) THEN [login EXCEPT !.turn = @ + 1]
               ELSE [login EXCEPT !.pc = "wait", !.turn = 1]
    OBVIOUS
  <2> HIDE DEF next
  <2> QED BY <2>1 DEF NoteMailbox
<1> HIDE DEF next, H
<1>4. /\ mails[H] \in Seq(Mail) /\ Len(mails[H]) \in Nat
      /\ baseline \in [Mailbox -> Nat] /\ mails \in [Mailbox -> Seq(Mail)]
      /\ \A m \in Mailbox : BaselineFits(m, mails[m], baseline[m], login.held[m])
      /\ \A m \in Mailbox : login.errors[m] = "none"
  BY <1>1 DEF MailIInv, MailTypeOK
<1>5. SUFFICES ASSUME login' \in LoginRecord, login'.pc \in {"note", "wait"},
                      login'.errors = login.errors, baseline' \in [Mailbox -> Nat],
                      \A m \in Mailbox : BaselineFits(m, mails[m], baseline'[m], login'.held[m])
               PROVE  MailIInv'
  <2>1. CASE login' = next /\ baseline' = baseline
    BY <1>2, <1>4, <1>5, <2>1
  <2>2. CASE /\ baseline' = [baseline EXCEPT ![H] = Marker(H)]
             /\ login' = [next EXCEPT !.held[H] = Len(mails[H])]
    <3>1. Marker(H) \in Nat /\ BaselineFits(H, mails[H], Marker(H), Len(mails[H]))
      BY <1>1, <1>4, MarkerFits
    <3>2. /\ login' \in LoginRecord /\ login'.pc = next.pc /\ login'.errors = next.errors
          /\ login'.held = [next.held EXCEPT ![H] = Len(mails[H])]
      BY <1>1, <1>2, <1>4, <2>2 DEF LoginRecord
    <3>3. baseline' \in [Mailbox -> Nat] BY <1>4, <2>2, <3>1
    <3>4. ASSUME NEW m \in Mailbox
          PROVE  BaselineFits(m, mails[m], baseline'[m], login'.held[m])
      <4>1. next.held \in [Mailbox -> Nat] BY <1>2 DEF LoginRecord
      <4>2. CASE m = H
        <5>1. baseline'[m] = Marker(H) /\ login'.held[m] = Len(mails[H])
          BY <1>1, <1>4, <2>2, <3>2, <4>1, <4>2
        <5> QED BY <3>1, <4>2, <5>1
      <4>3. CASE m # H
        <5>1. baseline'[m] = baseline[m] /\ login'.held[m] = login.held[m]
          BY <1>2, <1>4, <2>2, <3>2, <4>1, <4>3
        <5> QED BY <1>4, <5>1
      <4> QED BY <4>2, <4>3
    <3> QED BY <1>2, <1>5, <3>2, <3>3, <3>4
  <2> QED BY <1>3, <2>1, <2>2
<1>6. MailTypeOK' BY <1>3, <1>5 DEF MailIInv, MailTypeOK
<1>7. ASSUME NEW m \in Mailbox
      PROVE  BaselineFits(m, mails[m], baseline[m], login.held[m])' /\ login'.errors[m] = "none"
  BY <1>3, <1>4, <1>5
<1> QED
  BY <1>3, <1>4, <1>5, <1>6, <1>7 DEF MailIInv, QuotaIsNotBlamed, ReadIsNew, NewestIsRead

LEMMA GivenUpKeeps ==
  ASSUME MailIInv, login.pc = "wait", UNCHANGED <<second, mails, baseline>>,
         NEW late \in BOOLEAN, NEW error \in {"none", "error", "quota"}, GivenUp(late, error)
  PROVE  MailIInv'
<1> DEFINE H == Here
<1>1. /\ login \in LoginRecord /\ H \in Mailbox
      /\ \A m \in Mailbox : BaselineFits(m, mails[m], baseline[m], login.held[m])
      /\ \A m \in Mailbox : login.errors[m] = "quota" => m = H
  BY HereIsMailbox DEF MailIInv, MailTypeOK
<1>2. SUFFICES ASSUME login' \in LoginRecord, login'.held = login.held,
                      \/ login'.pc = "no quota"
                      \/ /\ login'.pc \in {"wait", "timeout", "failed"}
                         /\ \A m \in Mailbox : login'.errors[m] # "quota"
               PROVE  MailIInv'
  <2>1. CASE error = "quota"
    <3>1. login' = [login EXCEPT !.pc = "no quota", !.errors[H] = "quota"]
      BY <2>1 DEF GivenUp, NoQuota
    <3> HIDE DEF H
    <3>2. login' \in LoginRecord /\ login'.held = login.held /\ login'.pc = "no quota"
      BY <1>1, <3>1 DEF LoginRecord
    <3> QED BY <1>2, <3>2
  <2>2. CASE error # "quota"
    <3> DEFINE after == [login EXCEPT !.sawTimeout = @ \/ late, !.errors[H] = error]
    <3>1. IF login.turn < Len(Candidates) THEN login' = [after EXCEPT !.turn = @ + 1]
          ELSE login' = [after EXCEPT !.pc = IF after.sawTimeout THEN "timeout" ELSE "failed"]
      BY <2>2 DEF GivenUp, NextTurn
    <3> HIDE DEF H
    <3>2. after \in LoginRecord BY <1>1 DEF LoginRecord
    <3>3. /\ after.held = login.held /\ after.pc = "wait" /\ after.turn = login.turn
          /\ after.errors = [login.errors EXCEPT ![H] = error]
      BY <1>1 DEF LoginRecord
    <3>4. \A m \in Mailbox : after.errors[m] # "quota"
      BY <1>1, <2>2, <3>3 DEF LoginRecord
    <3> HIDE DEF after
    <3>5. CASE login.turn < Len(Candidates)
      <4>1. login' = [after EXCEPT !.turn = after.turn + 1] BY <3>1, <3>5
      <4>2. after.turn + 1 \in DOMAIN Candidates
        <5>1. login.turn \in DOMAIN Candidates BY <1>1 DEF LoginRecord
        <5> QED BY <3>3, <3>5, <5>1, Turns
      <4>3. /\ login' \in LoginRecord /\ login'.held = login.held /\ login'.pc = "wait"
            /\ login'.errors = after.errors
        BY <3>2, <3>3, <4>1, <4>2 DEF LoginRecord
      <4> QED BY <1>2, <3>4, <4>3
    <3>6. CASE ~(login.turn < Len(Candidates))
      <4>1. PICK pc \in {"timeout", "failed"} : login' = [after EXCEPT !.pc = pc]
        BY <3>1, <3>6
      <4>2. /\ login' \in LoginRecord /\ login'.held = login.held /\ login'.pc = pc
            /\ login'.errors = after.errors
        BY <3>2, <3>3, <4>1 DEF LoginRecord
      <4> QED BY <1>2, <3>4, <4>2
    <3> QED BY <3>5, <3>6
  <2> QED BY <2>1, <2>2
<1>3. MailTypeOK' BY <1>2 DEF MailIInv, MailTypeOK
<1>4. ASSUME NEW m \in Mailbox
      PROVE  BaselineFits(m, mails[m], baseline[m], login.held[m])'
  BY <1>1, <1>2
<1> QED
  BY <1>2, <1>3, <1>4 DEF MailIInv, QuotaIsNotBlamed, ReadIsNew, NewestIsRead

LEMMA MailStepKeeps ==
  ASSUME MailIInv, MailNext
  PROVE  MailIInv'
<1> DEFINE H == Here
<1>1. /\ login \in LoginRecord /\ H \in Mailbox /\ mails \in [Mailbox -> Seq(Mail)]
      /\ baseline \in [Mailbox -> Nat]
      /\ \A m \in Mailbox : BaselineFits(m, mails[m], baseline[m], login.held[m])
  BY HereIsMailbox DEF MailIInv, MailTypeOK
<1>2. CASE NoteMailbox
  BY <1>2, LookupKeeps
<1>3. CASE ReadCode
  <2>1. /\ login.pc = "wait" /\ NewCodes(H) # {} /\ UNCHANGED <<second, mails, baseline>>
        /\ login' = [login EXCEPT !.pc = "read", !.read = ChosenOf(NewCodes(H))]
    BY <1>3 DEF ReadCode
  <2>2. mails[H] \in Seq(Mail) /\ baseline[H] \in Nat /\ login.held[H] \in Nat
    BY <1>1 DEF LoginRecord
  <2>3. /\ ChosenOf(NewCodes(H)) \in Nat /\ ChosenOf(NewCodes(H)) > login.held[H]
        /\ ChosenOf(NewCodes(H)) = Latest(H)
    <3> HIDE DEF H
    <3>1. BaselineFits(H, mails[H], baseline[H], login.held[H]) BY <1>1
    <3>2. LET c == ChosenOf(NewCodes(H)) IN c \in Nat /\ c > login.held[H] /\ c = Latest(H)
      BY <1>1, <2>1, <2>2, <3>1, ChosenIsNew
    <3> QED BY <3>2
  <2>4. /\ login' \in LoginRecord /\ login'.pc = "read" /\ login'.held = login.held
        /\ login'.turn = login.turn /\ login'.read = ChosenOf(NewCodes(H))
    <3> HIDE DEF H
    <3> QED BY <1>1, <2>1, <2>3 DEF LoginRecord
  <2>5. Here' = H /\ Latest(Here)' = Latest(H)
    BY <2>1, <2>4 DEF Here, Latest, Coded
  <2>6. ReadIsNew' /\ NewestIsRead'
    <3> HIDE DEF H
    <3> QED BY <2>3, <2>4, <2>5 DEF ReadIsNew, NewestIsRead
  <2>7. MailTypeOK' BY <2>1, <2>4 DEF MailIInv, MailTypeOK
  <2>8. ASSUME NEW m \in Mailbox
        PROVE  BaselineFits(m, mails[m], baseline[m], login.held[m])'
    BY <1>1, <2>1, <2>4
  <2>9. mails' \in [Mailbox -> Seq(Mail)] BY <1>1, <2>1
  <2> QED BY <2>4, <2>6, <2>7, <2>8, <2>9 DEF MailIInv, QuotaIsNotBlamed
<1>4. CASE PollFails
  <2>1. PICK error \in {"error", "quota"} :
          /\ login.pc = "wait" /\ UNCHANGED <<second, mails, baseline>>
          /\ login' = [login EXCEPT !.errors[H] = error]
    BY <1>4 DEF PollFails
  <2>2. /\ login' \in LoginRecord /\ login'.pc = "wait" /\ login'.held = login.held
        /\ login'.turn = login.turn /\ login'.errors = [login.errors EXCEPT ![H] = error]
    <3> HIDE DEF H
    <3> QED BY <1>1, <2>1 DEF LoginRecord
  <2>3. Here' = H BY <2>2 DEF Here
  <2>4. \A m \in Mailbox : login'.errors[m] = "quota" => m = H
    <3>1. \A m \in Mailbox : login.errors[m] = "quota" => m = H BY <2>1 DEF MailIInv
    <3> HIDE DEF H
    <3> QED BY <1>1, <2>2, <3>1 DEF LoginRecord
  <2>5. MailTypeOK' BY <2>1, <2>2 DEF MailIInv, MailTypeOK
  <2>6. ASSUME NEW m \in Mailbox
        PROVE  BaselineFits(m, mails[m], baseline[m], login.held[m])'
    BY <1>1, <2>1, <2>2
  <2>7. mails' \in [Mailbox -> Seq(Mail)] BY <1>1, <2>1
  <2> QED
    BY <2>2, <2>3, <2>4, <2>5, <2>6, <2>7
    DEF MailIInv, QuotaIsNotBlamed, ReadIsNew, NewestIsRead
<1>5. CASE PollRaises
  BY <1>5, GivenUpKeeps DEF PollRaises
<1>6. CASE DeadlinePasses
  <2>1. login.errors[H] \in {"none", "error", "quota"} BY <1>1 DEF LoginRecord
  <2> QED BY <1>6, <2>1, GivenUpKeeps DEF DeadlinePasses
<1>7. CASE Tick
  <2>1. second' = second + 1 /\ second' <= MaxSecond /\ UNCHANGED <<mails, baseline, login>>
    BY <1>7, MailAssumption DEF Tick, MailIInv, MailTypeOK
  <2>2. MailTypeOK' BY <2>1, MailAssumption DEF MailIInv, MailTypeOK
  <2>3. /\ Here' = Here /\ \A m \in Mailbox : Latest(m)' = Latest(m)
    BY <2>1 DEF Here, Latest, Coded
  <2> QED
    BY <1>1, <2>1, <2>2, <2>3
    DEF MailIInv, QuotaIsNotBlamed, ReadIsNew, NewestIsRead
<1>8. ASSUME NEW m \in Mailbox, MailArrives(m)
      PROVE  MailIInv'
  <2>1. /\ login.pc \in {"note", "wait"} /\ UNCHANGED <<second, baseline, login>>
    BY <1>8 DEF MailArrives, Waiting
  <2>2. PICK mail \in Mail : mails' = [mails EXCEPT ![m] = Append(mails[m], mail)]
    <3>1. second \in 1..MaxSecond BY DEF MailIInv, MailTypeOK
    <3>2. PICK code \in BOOLEAN :
            mails' = [mails EXCEPT ![m] = Append(@, [at |-> second, code |-> code])]
      BY <1>8 DEF MailArrives
    <3>3. [at |-> second, code |-> code] \in Mail BY <3>1 DEF Mail
    <3> QED BY <3>2, <3>3
  <2>3. mails' \in [Mailbox -> Seq(Mail)]
    BY <1>1, <2>2
  <2>4. ASSUME NEW n \in Mailbox
        PROVE  BaselineFits(n, mails[n], baseline[n], login.held[n])'
    <3>1. /\ mails[n] \in Seq(Mail) /\ baseline[n] \in Nat /\ login.held[n] \in Nat
          /\ BaselineFits(n, mails[n], baseline[n], login.held[n])
      BY <1>1 DEF LoginRecord
    <3>2. CASE n = m
      <4>1. BaselineFits(n, Append(mails[n], mail), baseline[n], login.held[n])
        BY <3>1, ArrivalFits
      <4> QED BY <1>1, <2>1, <2>2, <3>2, <4>1
    <3>3. CASE n # m
      BY <1>1, <2>1, <2>2, <3>1, <3>3
    <3> QED BY <3>2, <3>3
  <2>5. MailTypeOK'
    <3>1. ASSUME NEW n \in Mailbox, NEW i \in DOMAIN mails'[n]
          PROVE  mails'[n][i] \in [at : 1..MaxSecond, code : BOOLEAN]
      <4>1. mails'[n] \in Seq(Mail) BY <2>3
      <4>2. mails'[n][i] \in Mail BY <4>1
      <4> QED BY <4>2 DEF Mail
    <3> QED BY <2>1, <3>1 DEF MailIInv, MailTypeOK
  <2>6. Here' = Here BY <2>1 DEF Here
  <2> QED
    BY <2>1, <2>3, <2>4, <2>5, <2>6 DEF MailIInv, QuotaIsNotBlamed, ReadIsNew, NewestIsRead
<1> QED
  BY <1>2, <1>3, <1>4, <1>5, <1>6, <1>7, <1>8 DEF MailNext

(***************************************************************************)
(* However mail comes in while mailboxes are looked at and polled, a login *)
(* takes a code that came in after its lookup, and the latest one; and one *)
(* that fails for want of quota does not give another reason               *)
(* (repairer_flow.py:192-261, 769-787).                                    *)
(***************************************************************************)
THEOREM LoginsReadNewCodes == MailSpec => []MailInv
<1>1. MailInit => MailIInv
  <2> SUFFICES ASSUME MailInit PROVE MailIInv
    OBVIOUS
  <2>1. 1 \in DOMAIN Candidates /\ 1 \in 1..MaxSecond
    BY Turns, MailAssumption
  <2>2. mails \in [Mailbox -> Seq(Mail)]
    <3>1. [at |-> 1, code |-> TRUE] \in Mail BY <2>1 DEF Mail
    <3>2. <<>> \in Seq(Mail) /\ <<[at |-> 1, code |-> TRUE]>> \in Seq(Mail) BY <3>1
    <3> QED BY <3>2 DEF MailInit
  <2>3. login \in LoginRecord /\ login.pc = "note" /\ \A m \in Mailbox : login.errors[m] = "none"
    BY <2>1 DEF MailInit, LoginRecord
  <2>4. MailTypeOK
    <3>1. ASSUME NEW m \in Mailbox, NEW i \in DOMAIN mails[m]
          PROVE  mails[m][i] \in [at : 1..MaxSecond, code : BOOLEAN]
      <4>1. mails[m] \in Seq(Mail) BY <2>2
      <4>2. mails[m][i] \in Mail BY <4>1
      <4> QED BY <4>2 DEF Mail
    <3> QED BY <2>1, <2>3, <3>1 DEF MailInit, MailTypeOK
  <2>5. ASSUME NEW m \in Mailbox
        PROVE  BaselineFits(m, mails[m], baseline[m], login.held[m])
    <3>1. baseline[m] = 0 /\ login.held[m] = 0 /\ Len(mails[m]) \in Nat
      BY <2>2 DEF MailInit
    <3> QED BY <3>1 DEF BaselineFits
  <2> QED
    BY <2>2, <2>3, <2>4, <2>5 DEF MailIInv, QuotaIsNotBlamed, ReadIsNew, NewestIsRead
<1>2. MailIInv /\ [MailNext]_mailVars => MailIInv'
  <2>1. MailIInv /\ MailNext => MailIInv'
    BY MailStepKeeps
  <2>2. MailIInv /\ UNCHANGED mailVars => MailIInv'
    <3> SUFFICES ASSUME MailIInv, UNCHANGED mailVars PROVE MailIInv'
      OBVIOUS
    <3>1. Here' = Here /\ (\A m \in Mailbox : Latest(m)' = Latest(m)) /\ Latest(Here)' = Latest(Here)
      BY DEF mailVars, Here, Latest, Coded
    <3> QED
      BY <3>1 DEF mailVars, MailIInv, MailTypeOK, QuotaIsNotBlamed, ReadIsNew, NewestIsRead
  <2> QED BY <2>1, <2>2
<1>3. MailIInv => MailInv
  BY DEF MailIInv, MailInv
<1> QED BY <1>1, <1>2, <1>3, PTL DEF MailSpec

-----------------------------------------------------------------------------
(***************************************************************************)
(* A pass that asks for replacements has probed every file it listed, and  *)
(* nothing was deleted before.                                             *)
(***************************************************************************)
PassFits ==
  /\ probe.pc = "probe" => balance.deleted = 0
  /\ probe.pc = "swap" => probe.todo = {} /\ balance.deleted = 0

PoolIInv == PoolTypeOK /\ ShrinksByLostOnly /\ PassFits

LEMMA LesserOfTwo ==
  ASSUME NEW m \in Nat, NEW n \in Nat
  PROVE  Min({m, n}) \in Nat /\ Min({m, n}) <= m
<1>1. \E x \in {m, n} : \A y \in {m, n} : x =< y
  <2>1. CASE m <= n BY <2>1
  <2>2. CASE ~(m <= n) BY <2>2
  <2> QED BY <2>1, <2>2
<1>2. Min({m, n}) \in {m, n} /\ \A y \in {m, n} : Min({m, n}) =< y
  BY <1>1 DEF Min
<1> QED BY <1>2

LEMMA TokensAreCounted ==
  ASSUME NEW S \in SUBSET Token
  PROVE  IsFiniteSet(S) /\ Cardinality(S) \in Nat
<1>1. IsFiniteSet(Token) BY PoolAssumption
<1> QED BY <1>1, FS_Subset, FS_CardinalityType

(* What is to be deleted failed the probe, and there is a replacement for  *)
(* each file of it.                                                        *)
LEMMA DoomedAreInvalid ==
  ASSUME PoolTypeOK, NEW doomed \in Doomed
  PROVE  /\ \A f \in doomed : f \in Token /\ result[f] = "invalid"
         /\ Cardinality(pool \intersect doomed) \in Nat
         /\ Cardinality(pool \intersect doomed) <= balance.received
<1>1. balance.received \in Nat
  BY DEF PoolTypeOK
<1>2. Having("invalid") \in SUBSET Token
  BY DEF Having
<1>3. Cardinality(Having("invalid")) \in Nat
  BY <1>2, TokensAreCounted
<1>4. /\ doomed \subseteq Having("invalid")
      /\ Cardinality(doomed) = Min({balance.received, Cardinality(Having("invalid"))})
  BY DEF Doomed, kSubset
<1>5. doomed \in SUBSET Token /\ pool \intersect doomed \in SUBSET doomed
  BY <1>2, <1>4
<1>6. IsFiniteSet(doomed) /\ Cardinality(doomed) \in Nat
  BY <1>5, TokensAreCounted
<1>7. Cardinality(pool \intersect doomed) \in Nat
  BY <1>5, TokensAreCounted
<1>8. Cardinality(pool \intersect doomed) <= Cardinality(doomed)
  BY <1>5, <1>6, FS_Subset
<1>9. Cardinality(doomed) <= balance.received
  BY <1>1, <1>3, <1>4, LesserOfTwo
<1> QED
  <2>1. \A f \in doomed : f \in Token /\ result[f] = "invalid"
    BY <1>4 DEF Having
  <2> QED BY <2>1, <1>1, <1>6, <1>7, <1>8, <1>9

LEMMA PoolStepKeeps ==
  ASSUME PoolIInv, PoolNext
  PROVE  PoolIInv'
<1> USE DEF PoolIInv, PoolTypeOK, PassFits, ShrinksByLostOnly
<1>1. CASE ListPool
  <2>1. probe' \in [pc : {"list", "probe", "swap"}, todo : SUBSET Token, topup : BOOLEAN]
        /\ probe'.pc = "probe"
    BY <1>1 DEF ListPool
  <2>2. balance' = [received |-> 0, written |-> 0, deleted |-> 0]
    BY <1>1 DEF ListPool, NoBalance
  <2>3. result' \in [Token -> ProbeResult] /\ pool' = pool /\ cooling' = cooling
    BY <1>1 DEF ListPool, Unprobed, ProbeResult
  <2> QED BY <2>1, <2>2, <2>3
<1>2. ASSUME NEW f \in Token, ProbeOne(f)
      PROVE  PoolIInv'
  <2>1. probe' \in [pc : {"list", "probe", "swap"}, todo : SUBSET Token, topup : BOOLEAN]
        /\ probe'.pc = "probe" /\ pool' = pool /\ balance' = balance /\ balance.deleted = 0
    BY <1>2 DEF ProbeOne
  <2>2. result' \in [Token -> ProbeResult] /\ cooling' \subseteq Token
    <3>1. CASE UNCHANGED <<result, cooling>> BY <3>1
    <3>2. ASSUME NEW v \in Verdicts(f), result' = [result EXCEPT ![f] = v],
                 cooling' \in {cooling, cooling \union {f}}
          PROVE  result' \in [Token -> ProbeResult] /\ cooling' \subseteq Token
      BY <3>2 DEF Verdicts, ProbeResult
    <3> QED BY <1>2, <3>1, <3>2 DEF ProbeOne
  <2> QED BY <2>1, <2>2
<1>3. CASE NoTopup
  BY <1>3 DEF NoTopup, ProbeAt
<1>4. CASE Topup
  <2>1. PICK n \in 0..Cardinality(Token) :
          /\ balance' = [balance EXCEPT !.received = n]
          /\ probe' = [probe EXCEPT !.pc = IF n = 0 THEN "list" ELSE "swap", !.topup = FALSE]
    BY <1>4 DEF Topup
  <2>2. n \in Nat
    <3>1. Cardinality(Token) \in Nat BY TokensAreCounted
    <3> QED BY <3>1
  <2>3. probe.pc = "probe" /\ probe.todo = {} /\ UNCHANGED <<pool, cooling, result>>
    BY <1>4 DEF Topup
  <2>4. balance' \in [received : Nat, written : Nat, deleted : Nat]
        /\ balance'.deleted = 0 /\ balance'.received = n
    BY <2>1, <2>2, <2>3
  <2>5. probe' \in [pc : {"list", "probe", "swap"}, todo : SUBSET Token, topup : BOOLEAN]
        /\ probe'.todo = {}
    BY <2>1, <2>3
  <2> QED BY <2>2, <2>3, <2>4, <2>5
<1>5. CASE Swap
  <2>1. PICK new \in SUBSET (Token \ pool), doomed \in Doomed :
          /\ pool' = (pool \union new) \ doomed
          /\ balance' = [balance EXCEPT !.written = Cardinality(new),
                                        !.deleted = Cardinality(pool \intersect doomed)]
    BY <1>5 DEF Swap
  <2> DEFINE gone == Cardinality(pool \intersect doomed)  made == Cardinality(new)
  <2>2. gone \in Nat /\ gone <= balance.received
    BY DoomedAreInvalid
  <2>3. made \in Nat
    BY TokensAreCounted
  <2>4. balance' = [balance EXCEPT !.written = made, !.deleted = gone]
    BY <2>1
  <2> HIDE DEF gone, made
  <2>5. balance' \in [received : Nat, written : Nat, deleted : Nat]
        /\ balance'.deleted <= balance'.received
    BY <2>2, <2>3, <2>4
  <2>6. pool' \subseteq Token /\ cooling' = cooling /\ result' = result
    BY <1>5, <2>1 DEF Swap
  <2>7. probe' \in [pc : {"list", "probe", "swap"}, todo : SUBSET Token, topup : BOOLEAN]
        /\ probe'.pc = "list"
    BY <1>5 DEF Swap, ProbeAt
  <2> QED BY <2>5, <2>6, <2>7
<1>6. CASE TopupAgain
  BY <1>6 DEF TopupAgain
<1>7. ASSUME NEW f \in Token, AddToken(f) \/ CooldownEnds(f)
      PROVE  PoolIInv'
  BY <1>7 DEF AddToken, CooldownEnds
<1> QED
  BY <1>1, <1>2, <1>3, <1>4, <1>5, <1>6, <1>7 DEF PoolNext

(* A step that deletes a file is the swap at the end of a pass.            *)
LEMMA OnlySwapDeletes ==
  ASSUME PoolIInv, [PoolNext]_poolVars
  PROVE  \A f \in pool \ pool' : result[f] = "invalid" /\ f \notin probe.todo
<1>1. SUFFICES ASSUME Swap
               PROVE  \A f \in pool \ pool' : result[f] = "invalid" /\ f \notin probe.todo
  <2>1. CASE pool' = pool \/ \E f \in Token : pool' = pool \union {f}
    BY <2>1
  <2> QED
    BY <1>1, <2>1 DEF PoolNext, poolVars, ListPool, ProbeOne, NoTopup, Topup, AddToken,
                      CooldownEnds, TopupAgain
<1>2. PICK new \in SUBSET (Token \ pool), doomed \in Doomed :
        pool' = (pool \union new) \ doomed
  BY <1>1 DEF Swap
<1>3. \A f \in doomed : result[f] = "invalid"
  BY DoomedAreInvalid DEF PoolIInv
<1>4. probe.todo = {}
  BY <1>1 DEF Swap, PoolIInv, PassFits
<1> QED BY <1>2, <1>3, <1>4

(***************************************************************************)
(* However workers add files and cooldowns end while a pass is under way,  *)
(* the pool loses only files that this pass has seen rejected, and no more *)
(* of them than there were replacements (probe_loop.py:395-639).           *)
(***************************************************************************)
THEOREM PoolsKeepTheGood == PoolSpec => PoolKeepsTheGood
<1>1. PoolInit => PoolIInv
  BY DEF PoolInit, PoolIInv, PoolTypeOK, ShrinksByLostOnly, PassFits, Unprobed, NoBalance,
         ProbeResult
<1>2. PoolIInv /\ [PoolNext]_poolVars => PoolIInv'
  <2>1. CASE UNCHANGED poolVars
    BY <2>1 DEF poolVars, PoolIInv, PoolTypeOK, ShrinksByLostOnly, PassFits
  <2> QED BY <2>1, PoolStepKeeps
<1>3. PoolIInv => PoolTypeOK /\ ShrinksByLostOnly
  BY DEF PoolIInv
<1>4. PoolIInv /\ [PoolNext]_poolVars
      => [\A f \in pool \ pool' : result[f] = "invalid" /\ f \notin probe.todo]_poolVars
  BY OnlySwapDeletes
<1> QED
  BY <1>1, <1>2, <1>3, <1>4, PTL DEF PoolSpec, PoolKeepsTheGood, OnlyRejectedGo

=============================================================================
