------------------------------ MODULE Repairer ------------------------------
(***************************************************************************)
(* The repair queue of runtimes/chrome/src/browser_runtime: repairer_loop, *)
(* repairer_storage and repairer_one_file.  A file waits in the need       *)
(* directory, is claimed by renaming it into need/_processing, is repaired *)
(* there, and is removed when its outcome is on record.  Several instances *)
(* may share the directories.  A file left behind in _processing is given  *)
(* back once its mtime is older than REPAIRER_STALE_SECONDS, and renaming  *)
(* keeps the mtime, so an old file is stale from the moment it is claimed. *)
(*                                                                         *)
(* What the repair does in the browser is its outcome.  Listings, renames, *)
(* appends and removals are steps of their own, since another instance,    *)
(* the clock or a crash can come between any two of them.                  *)
(***************************************************************************)
EXTENDS FiniteSets

CONSTANTS
  File, NoFile,
  Worker,   \* the instances that share the directories
  Setting   \* what is deployed: [team, files, keep, faults]

(* The files that are there to be found; keep is REPAIRER_TEST_KEEP_INPUT; *)
(* faults are the file operations that may fail although the file is there.*)
Fault == {"append", "remove", "restore"}

SettingRecord ==
  [team : SUBSET Worker, files : SUBSET File, keep : BOOLEAN, faults : SUBSET Fault]

ASSUME RepairerAssumption ==
  /\ NoFile \notin File
  /\ Setting \subseteq SettingRecord

VARIABLES
  setting,  \* the deployment, never changed
  place,    \* the directories of {"need", "processing"} a file's name is in
  stale,    \* the files whose mtime is older than REPAIRER_STALE_SECONDS
  record,   \* what the result files say of a file
  worker    \* the loop of each instance

repairVars == <<setting, place, stale, record, worker>>

(* A copy in fixed_success; a line in repairer_failed or repairer_no_quota. *)
Outcome == {"fixed", "failed"}

Pc == {"down", "idle", "release", "claim", "open", "drive", "write", "log", "book",
       "dispose"}

WorkerRecord ==
  [pc : Pc, todo : SUBSET File,  \* the names of the last listing still to try
   file : File \union {NoFile},  \* claimed
   seen : SUBSET File]           \* processed_once_in_test

Idle == [pc |-> "idle", todo |-> {}, file |-> NoFile, seen |-> {}]

RepairInit ==
  /\ setting \in Setting
  /\ place = [f \in File |-> {"need"}]
  /\ stale \in SUBSET setting.files
  /\ record = [f \in File |-> {}]
  /\ worker = [w \in Worker |-> Idle]

In(dir) == { f \in setting.files : dir \in place[f] }

MoveTo(f, dir) == place' = [place EXCEPT ![f] = {dir}]

Goto(w, pc) == worker' = [worker EXCEPT ![w].pc = pc]

At(w, pc) == w \in setting.team /\ worker[w].pc = pc

-----------------------------------------------------------------------------
(* repairer_release_stale_processing: the listing, then one rename a file. *)
ListProcessing(w) ==
  /\ At(w, "idle")
  /\ worker' = [worker EXCEPT ![w].pc = "release", ![w].todo = In("processing")]
  /\ UNCHANGED <<setting, place, stale, record>>

(* Mutant: whatever is being processed is given back.                      *)
ReleaseAnyOne(w) ==
  /\ At(w, "release")
  /\ \E f \in worker[w].todo :
       /\ worker' = [worker EXCEPT ![w].todo = @ \ {f}]
       /\ IF "processing" \in place[f] THEN MoveTo(f, "need") ELSE UNCHANGED place
  /\ UNCHANGED <<setting, stale, record>>

(* Mutant: no file is old enough to be given back.                         *)
ReleaseNone(w) ==
  /\ At(w, "release")
  /\ \E f \in worker[w].todo : worker' = [worker EXCEPT ![w].todo = @ \ {f}]
  /\ UNCHANGED <<setting, place, stale, record>>

ReleaseOne(w) ==
  /\ At(w, "release")
  /\ \E f \in worker[w].todo :
       /\ worker' = [worker EXCEPT ![w].todo = @ \ {f}]
       /\ IF "processing" \in place[f] /\ f \in stale
          THEN MoveTo(f, "need") ELSE UNCHANGED place
  /\ UNCHANGED <<setting, stale, record>>

(* repairer_claim_one_file: the listing, then renames until one succeeds.  *)
(* The order by mtime is left open.                                        *)
ListNeed(w) ==
  /\ At(w, "release") /\ worker[w].todo = {}
  /\ worker' = [worker EXCEPT ![w].pc = "claim", ![w].todo = In("need")]
  /\ UNCHANGED <<setting, place, stale, record>>

(* A file already processed in a test run is only put back.                *)
Claimed(w, f) ==
  [worker[w] EXCEPT !.todo = {}, !.file = f,
     !.pc = IF setting.keep /\ f \in worker[w].seen THEN "dispose" ELSE "open"]

(* Mutant: the listing is trusted, the rename not checked.                 *)
ClaimListed(w) ==
  /\ At(w, "claim")
  /\ \E f \in worker[w].todo :
       /\ MoveTo(f, "processing")
       /\ worker' = [worker EXCEPT ![w] = Claimed(w, f)]
  /\ UNCHANGED <<setting, stale, record>>

ClaimOne(w) ==
  /\ At(w, "claim")
  /\ \E f \in worker[w].todo :
       \/ /\ "need" \in place[f]
          /\ MoveTo(f, "processing")
          /\ worker' = [worker EXCEPT ![w] = Claimed(w, f)]
       \/ /\ "need" \notin place[f]  \* FileNotFoundError: the next one
          /\ worker' = [worker EXCEPT ![w].todo = @ \ {f}]
          /\ UNCHANGED place
  /\ UNCHANGED <<setting, stale, record>>

NothingToClaim(w) ==
  /\ At(w, "claim") /\ worker[w].todo = {}
  /\ Goto(w, "idle")
  /\ UNCHANGED <<setting, place, stale, record>>

-----------------------------------------------------------------------------
(* repair_one_auth_file.  The file may have been renamed or removed since  *)
(* it was claimed; then read_json_any raises, which is a failure like a    *)
(* file without the fields it needs.                                       *)
Open(w) ==
  /\ At(w, "open")
  /\ \/ Goto(w, "book")
     \/ "processing" \in place[worker[w].file] /\ Goto(w, "drive")
  /\ UNCHANGED <<setting, place, stale, record>>

(* The browser and the exchange.                                           *)
Drive(w) ==
  /\ At(w, "drive")
  /\ Goto(w, "write") \/ Goto(w, "book")
  /\ UNCHANGED <<setting, place, stale, record>>

Record(w, entry) == record' = [record EXCEPT ![worker[w].file] = @ \union {entry}]

(* The repaired copy goes to fixed_success, under a name of its own.       *)
WriteFixed(w) ==
  /\ At(w, "write")
  /\ Record(w, "fixed") /\ Goto(w, "log")
  /\ UNCHANGED <<setting, place, stale>>

(* The success line; if it cannot be written the repair counts as failed.  *)
LogSuccess(w) ==
  /\ At(w, "log")
  /\ Goto(w, "dispose") \/ ("append" \in setting.faults /\ Goto(w, "book"))
  /\ UNCHANGED <<setting, place, stale, record>>

(* The failed or no-quota line; if it cannot be written, run_repairer_loop *)
(* catches the error and leaves the file where it is.                      *)
BookFailure(w) ==
  /\ At(w, "book")
  /\ \/ Record(w, "failed") /\ Goto(w, "dispose")
     \/ /\ "append" \in setting.faults
        /\ worker' = [worker EXCEPT ![w] = [Idle EXCEPT !.seen = worker[w].seen]]
        /\ UNCHANGED record
  /\ UNCHANGED <<setting, place, stale>>

-----------------------------------------------------------------------------
(* Mutant: the file is moved to the directory of failed files.             *)
MovedAside(f) == {{"fixed_fail"}}

(* What becomes of the claimed name at the end of a pass.                  *)
Removed(f) ==
  {place[f] \ {"processing"}} \union IF "remove" \in setting.faults THEN {place[f]} ELSE {}

(* repairer_restore_claimed_for_test: rename, or else copy and remove,     *)
(* each of which may fail in silence.                                      *)
Restored(f) ==
  {IF "processing" \in place[f] THEN {"need"} ELSE place[f]}
    \union IF "restore" \in setting.faults /\ "processing" \in place[f]
           THEN { (place[f] \ removed) \union copied :
                    removed \in SUBSET {"processing"}, copied \in SUBSET {"need"} }
           ELSE {}

(* Mutant: the file is removed before its outcome is booked.               *)
DisposeFirst(w) ==
  /\ At(w, "dispose") \/ At(w, "book")
  /\ \E dirs \in Removed(worker[w].file) :
       place' = [place EXCEPT ![worker[w].file] = dirs]
  /\ worker' = [worker EXCEPT ![w] = Idle]
  /\ UNCHANGED <<setting, stale, record>>

Dispose(w) ==
  LET f == worker[w].file
  IN  /\ At(w, "dispose")
      /\ \E dirs \in IF setting.keep THEN Restored(f) ELSE Removed(f) :
           place' = [place EXCEPT ![f] = dirs]
      /\ worker' = [worker EXCEPT ![w] = [Idle EXCEPT !.seen =
           IF setting.keep THEN worker[w].seen \union {f} ELSE {}]]
      /\ UNCHANGED <<setting, stale, record>>

(* The instance dies, with all it remembers, and is started again.         *)
Crash(w) ==
  /\ w \in setting.team /\ worker[w].pc # "down" /\ worker[w] # Idle
  /\ worker' = [worker EXCEPT ![w] = [Idle EXCEPT !.pc = "down"]]
  /\ UNCHANGED <<setting, place, stale, record>>

Restart(w) ==
  /\ At(w, "down") /\ Goto(w, "idle")
  /\ UNCHANGED <<setting, place, stale, record>>

(* Time passes; a file that was copied is as old as its original.          *)
Ages(f) ==
  /\ stale' = stale \union {f}
  /\ UNCHANGED <<setting, place, record, worker>>

WorkerStep(w) ==
  \/ ListProcessing(w) \/ ReleaseOne(w) \/ ListNeed(w)
  \/ ClaimOne(w) \/ NothingToClaim(w)
  \/ Open(w) \/ Drive(w) \/ WriteFixed(w) \/ LogSuccess(w) \/ BookFailure(w)
  \/ Dispose(w) \/ Restart(w)

RepairNext ==
  \/ \E w \in Worker : WorkerStep(w) \/ Crash(w)
  \/ \E f \in setting.files : Ages(f)

RepairSpec == RepairInit /\ [][RepairNext]_repairVars

(* The loops go on, and time does.                                         *)
RepairFairness ==
  /\ \A w \in Worker : WF_repairVars(WorkerStep(w))
  /\ \A f \in File : WF_repairVars(f \in setting.files /\ Ages(f))

-----------------------------------------------------------------------------
(* Properties. *)

(* Type correctness of the loops and directories.                          *)
RepairTypeOK ==
  /\ setting \in Setting
  /\ place \in [File -> SUBSET {"need", "processing"}]
  /\ stale \subseteq File
  /\ record \in [File -> SUBSET Outcome]
  /\ worker \in [Worker -> WorkerRecord]

(* No file disappears without an outcome on record, although instances     *)
(* crash, fail to write, and remove files that others have claimed since   *)
(* (repairer_loop.py:73-141).                                              *)
Accounted == \A f \in File : place[f] = {} => record[f] # {}

(* The renames keep the instances apart: two of them repair one file at a  *)
(* time only if its mtime has expired (repairer_storage.py:91-102, 116).   *)
Repairing(w) == worker[w].pc \in {"open", "drive", "write", "log", "book"}

ExclusiveUntilStale ==
  \A v, w \in Worker :
    v # w /\ Repairing(v) /\ Repairing(w) /\ worker[v].file = worker[w].file
      => worker[v].file \in stale

(* The directories are a work queue: what is settled stays settled, and    *)
(* only a claimed file with a booked outcome is.                           *)
Status == [f \in File |-> IF "need" \in place[f] THEN "waiting"
                          ELSE IF "processing" \in place[f] THEN "taken"
                          ELSE "settled"]

Booked == { f \in File : record[f] # {} }

Queue == INSTANCE WorkQueue WITH Item <- File, status <- Status, booked <- Booked

IsWorkQueue == Queue!QueueSpec

(* One instance settles every file once it stops crashing, also those a    *)
(* crash left in _processing, if the file system does what it is asked.    *)
FilesAreSettled ==
  Cardinality(setting.team) = 1 /\ ~setting.keep /\ setting.faults = {}
    /\ <>[](\A w \in Worker : worker[w].pc # "down")
  => \A f \in File : <>(f \in setting.files => place[f] = {})

(* Files are neither lost nor repaired by two instances at a time, except  *)
(* a stale one (repairer_storage.py:65-137, repairer_loop.py:40-147).      *)
RepairInv == RepairTypeOK /\ Accounted /\ ExclusiveUntilStale

=============================================================================
