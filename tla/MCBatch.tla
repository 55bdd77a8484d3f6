------------------------------- MODULE MCBatch -------------------------------
(* The components of a batch service for TLC.  They share directories and  *)
(* locks with copies of themselves, and nothing with each other, so one of *)
(* them runs in a behaviour and the others rest.                           *)
EXTENDS Repairer, ResultShards, DriverRuns, TokenPool, DriverLaunch, MailCodes, TLC

CONSTANTS f1, f2, w1, w2

VARIABLE active

batchVars == <<active, repairVars, shardVars, driverVars, poolVars, launchVars, mailVars>>

Unused == [team |-> {}, files |-> {}, keep |-> FALSE, faults |-> {}]

(* Two instances over one file and one over two; with faults, or with the  *)
(* input kept as in a test run.                                            *)
Settings ==
  {[team |-> {w1, w2}, files |-> {f1}, keep |-> FALSE, faults |-> {"append", "remove"}],
   [team |-> {w1}, files |-> {f1, f2}, keep |-> FALSE, faults |-> {}],
   [team |-> {w1, w2}, files |-> {f1}, keep |-> TRUE, faults |-> {"restore"}],
   [team |-> {w1}, files |-> {f1, f2}, keep |-> TRUE, faults |-> Fault],
   Unused}

Layout(shards) == [s \in Shard |-> IF s \in DOMAIN shards THEN shards[s] ELSE 0]

(* No old layout; one unfinished shard; a full one before it; two full.    *)
Layouts == {Layout(<<>>), Layout(0 :> 1), Layout((0 :> 2) @@ (1 :> 1)),
            Layout((0 :> 2) @@ (1 :> 2))}

Deployments ==
  {[headless |-> TRUE,  keep |-> FALSE, require |-> TRUE],
   [headless |-> TRUE,  keep |-> FALSE, require |-> FALSE],
   [headless |-> FALSE, keep |-> TRUE,  require |-> FALSE],
   [headless |-> FALSE, keep |-> FALSE, require |-> TRUE]}

(* The directory of one process may begin like that of another.            *)
Longer == {<<"p", "p">>, <<"p", "p2">>, <<"p2", "p2">>}

Ask(process, profile, proxies) ==
  [process : {process}, debugger : {FALSE}, native : BOOLEAN, anonymous : BOOLEAN,
   proxy : proxies, profile : {profile}, clean : {TRUE}]

Both == <<"direct", "served">>

NoLaunch == [process |-> "a", debugger |-> TRUE, native |-> FALSE, anonymous |-> FALSE,
             proxy |-> "none", profile |-> "none", clean |-> FALSE]

Launches ==
  Ask("a", "none", {"none", "plain", "auth", "odd"}) \union Ask("a", "p", {"auth"})
  \union Ask("b", "p2", {"none"}) \union {NoLaunch}

BatchInit ==
  /\ active \in {"repair", "shards", "drivers", "pool", "launches", "mails"}
  /\ RepairInit /\ (active = "repair" <=> setting # Unused)
  /\ ShardsInit /\ (active # "shards" => legacy = Layout(<<>>))
  /\ cooled = {} /\ initLock = {} /\ browsers = [d \in Driver |-> 0]
  /\ IF active = "drivers" THEN DriversInit
     ELSE /\ deployment = [headless |-> TRUE, keep |-> FALSE, require |-> FALSE]
          /\ run = [d \in Driver |-> [NewRun EXCEPT !.pc = "done"]]
  /\ PoolInit /\ (active # "pool" => pool = {})
  /\ LaunchInit /\ (active # "launches" => request = [c \in Launcher |-> NoLaunch])
  /\ IF active = "mails" THEN MailInit
     ELSE /\ second = 1 /\ mails = [m \in Mailbox |-> <<>>]
          /\ baseline = [m \in Mailbox |-> 0]
          /\ login = [pc |-> "timeout", turn |-> 1, sawTimeout |-> FALSE, read |-> 0,
                      errors |-> [m \in Mailbox |-> "none"],
                      held |-> [m \in Mailbox |-> 0]]

Repairs == active = "repair" /\ RepairNext
             /\ UNCHANGED <<active, shardVars, driverVars, poolVars, launchVars, mailVars>>
Appends == active = "shards" /\ ShardsNext
             /\ UNCHANGED <<active, repairVars, driverVars, poolVars, launchVars, mailVars>>
Drives == active = "drivers" /\ DriversNext
             /\ UNCHANGED <<active, repairVars, shardVars, poolVars, launchVars, mailVars>>
Probes == active = "pool" /\ PoolNext
             /\ UNCHANGED <<active, repairVars, shardVars, driverVars, launchVars, mailVars>>
Opens == active = "launches" /\ LaunchNext
             /\ UNCHANGED <<active, repairVars, shardVars, driverVars, poolVars, mailVars>>
Waits == active = "mails" /\ MailNext
             /\ UNCHANGED <<active, repairVars, shardVars, driverVars, poolVars, launchVars>>

BatchNext == Repairs \/ Appends \/ Drives \/ Probes \/ Opens \/ Waits

BatchSpec ==
  BatchInit /\ [][BatchNext]_batchVars /\ RepairFairness /\ DriversFairness /\ MailFairness

(* Whatever fails on the way, a file of the queue is settled, a worker     *)
(* comes to the end of its attempts and a login to an end: no retry goes   *)
(* on for ever (repairer_loop.py:40, runtime_io.py:67, repairer_flow.py:216). *)
BatchEnds == FilesAreSettled /\ WorkersStop /\ LoginsEnd
=============================================================================
