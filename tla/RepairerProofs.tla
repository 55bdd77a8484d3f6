--------------------------- MODULE RepairerProofs ---------------------------
(***************************************************************************)
(* Theorems about the repair queue, for any files, instances, deployments  *)
(* and failing file operations.                                            *)
(***************************************************************************)
EXTENDS Repairer, TLAPS

(* A file that an instance has claimed and has not yet put away.           *)
Holding == {"open", "drive", "write", "log", "book", "dispose"}
Holds(w, f) == worker[w].pc \in Holding /\ worker[w].file = f

(* What is about to be put away, and what a test run only puts back, has   *)
(* its outcome on record.                                                  *)
PutAwayIsBooked ==
  \A w \in Worker :
    /\ worker[w].pc \in Holding => worker[w].file \in File
    /\ worker[w].pc \in {"log", "dispose"} => record[worker[w].file] # {}
    /\ \A f \in worker[w].seen : record[f] # {}

(* Until its mtime expires a claimed file is its claimant's alone, and not *)
(* to be found.                                                            *)
ClaimsAreExclusive ==
  \A w \in Worker, f \in File :
    Holds(w, f) /\ f \notin stale =>
      /\ "need" \notin place[f]
      /\ \A v \in Worker : Holds(v, f) => v = w

RepairIInv == RepairTypeOK /\ Accounted /\ PutAwayIsBooked /\ ClaimsAreExclusive

LEMMA IInvIsEnough == RepairIInv => RepairInv
<1>. SUFFICES ASSUME RepairIInv PROVE RepairInv
  OBVIOUS
<1>1. ExclusiveUntilStale
  <2>. SUFFICES ASSUME NEW v \in Worker, NEW w \in Worker, v # w, Repairing(v), Repairing(w),
                       worker[v].file = worker[w].file
                PROVE  worker[v].file \in stale
    BY DEF ExclusiveUntilStale
  <2>1. Holds(v, worker[v].file) /\ Holds(w, worker[v].file)
    BY DEF Repairing, Holds, Holding
  <2>2. worker[v].file \in File
    BY DEF RepairIInv, PutAwayIsBooked, Repairing, Holding
  <2>. QED  BY <2>1, <2>2 DEF RepairIInv, ClaimsAreExclusive
<1>. QED  BY <1>1 DEF RepairIInv, RepairInv

LEMMA RepairStarts == RepairInit => RepairIInv
<1>. SUFFICES ASSUME RepairInit PROVE RepairIInv
  OBVIOUS
<1>1. setting.files \subseteq File
  BY RepairerAssumption DEF RepairInit, RepairerAssumption, SettingRecord
<1>2. \A w \in Worker : worker[w].pc = "idle" /\ worker[w].seen = {}
  BY DEF RepairInit, Idle
<1>3. RepairTypeOK
  BY <1>1 DEF RepairInit, RepairTypeOK, WorkerRecord, Idle, Pc
<1>4. Accounted
  BY DEF RepairInit, Accounted
<1>5. PutAwayIsBooked /\ ClaimsAreExclusive
  BY <1>2 DEF PutAwayIsBooked, ClaimsAreExclusive, Holds, Holding
<1>. QED  BY <1>3, <1>4, <1>5 DEF RepairIInv

-----------------------------------------------------------------------------
(* A step of one instance that leaves its claim, or gives it up, and only  *)
(* adds to the records.                                                    *)
LEMMA WorkerMoves ==
  ASSUME RepairIInv, UNCHANGED <<setting, place>>, stale \subseteq stale', stale' \subseteq File,
         record' \in [File -> SUBSET Outcome], \A f \in File : record[f] \subseteq record'[f],
         NEW w \in Worker, NEW new \in WorkerRecord, worker' = [worker EXCEPT ![w] = new],
         new.pc \in Holding => worker[w].pc \in Holding /\ new.file = worker[w].file,
         new.pc \in {"log", "dispose"} => record'[new.file] # {},
         \A f \in new.seen : record'[f] # {}
  PROVE  RepairIInv'
<1>1. RepairTypeOK'
  BY DEF RepairIInv, RepairTypeOK
<1>2. Accounted'
  BY DEF RepairIInv, Accounted
<1>3. worker'[w] = new /\ \A v \in Worker \ {w} : worker'[v] = worker[v]
  BY DEF RepairIInv, RepairTypeOK
<1>4. PutAwayIsBooked'
  <2>. SUFFICES ASSUME NEW v \in Worker
                PROVE  /\ worker'[v].pc \in Holding => worker'[v].file \in File
                       /\ worker'[v].pc \in {"log", "dispose"} => record'[worker'[v].file] # {}
                       /\ \A f \in worker'[v].seen : record'[f] # {}
    BY DEF PutAwayIsBooked
  <2>1. CASE v = w
    BY <1>3, <2>1 DEF RepairIInv, PutAwayIsBooked
  <2>2. CASE v # w
    <3>1. worker[v].seen \subseteq File
      BY DEF RepairIInv, RepairTypeOK, WorkerRecord
    <3>2. worker[v].pc \in {"log", "dispose"} => worker[v].file \in File
      BY DEF RepairIInv, PutAwayIsBooked, Holding
    <3>. QED  BY <1>3, <2>2, <3>1, <3>2 DEF RepairIInv, PutAwayIsBooked
  <2>. QED  BY <2>1, <2>2
<1>5. ClaimsAreExclusive'
  <2>1. \A v \in Worker, f \in File : Holds(v, f)' => Holds(v, f)
    BY <1>3 DEF Holds
  <2>. QED  BY <2>1 DEF RepairIInv, ClaimsAreExclusive
<1>. QED  BY <1>1, <1>2, <1>4, <1>5 DEF RepairIInv

LEMMA Settled == RepairIInv => \A w \in Worker : worker[w] \in WorkerRecord
BY DEF RepairIInv, RepairTypeOK

LEMMA IdleAgain ==
  ASSUME NEW seen \in SUBSET File, NEW pc \in {"idle", "down"}
  PROVE  /\ [Idle EXCEPT !.seen = seen] \in WorkerRecord
         /\ [Idle EXCEPT !.seen = seen].pc = "idle" /\ [Idle EXCEPT !.seen = seen].seen = seen
         /\ [Idle EXCEPT !.pc = "down"] \in WorkerRecord
         /\ [Idle EXCEPT !.pc = "down"].pc = "down" /\ [Idle EXCEPT !.pc = "down"].seen = {}
BY DEF Idle, WorkerRecord, Pc

(* The steps that only go on, look or book.                                *)
LEMMA GoesKeeps ==
  ASSUME RepairIInv, NEW w \in Worker, UNCHANGED <<setting, place, stale, record>>,
         NEW pc \in Pc, Goto(w, pc), pc \in Holding => worker[w].pc \in Holding,
         pc \in {"log", "dispose"} => record[worker[w].file] # {}
  PROVE  RepairIInv'
<1>. DEFINE new == [worker[w] EXCEPT !.pc = pc]
<1>1. worker' = [worker EXCEPT ![w] = new]
  BY DEF Goto, RepairIInv, RepairTypeOK
<1>2. new \in WorkerRecord /\ new.pc = pc /\ new.file = worker[w].file /\ new.seen = worker[w].seen
  BY Settled DEF WorkerRecord
<1>3. \A f \in new.seen : record[f] # {}
  BY <1>2 DEF RepairIInv, PutAwayIsBooked
<1>4. stale \subseteq File /\ record \in [File -> SUBSET Outcome]
  BY DEF RepairIInv, RepairTypeOK
<1>. HIDE DEF new
<1>. QED  BY <1>1, <1>2, <1>3, <1>4, WorkerMoves

LEMMA LooksKeep ==
  ASSUME RepairIInv, NEW w \in Worker, UNCHANGED <<setting, place, stale, record>>,
         NEW pc \in Pc \ Holding, NEW todo \in SUBSET File,
         worker' = [worker EXCEPT ![w].pc = pc, ![w].todo = todo]
  PROVE  RepairIInv'
<1>. DEFINE new == [worker[w] EXCEPT !.pc = pc, !.todo = todo]
<1>1. worker' = [worker EXCEPT ![w] = new]
  BY DEF RepairIInv, RepairTypeOK
<1>2. new \in WorkerRecord /\ new.pc = pc /\ new.seen = worker[w].seen
  BY Settled DEF WorkerRecord
<1>3. \A f \in new.seen : record[f] # {}
  BY <1>2 DEF RepairIInv, PutAwayIsBooked
<1>4. stale \subseteq File /\ record \in [File -> SUBSET Outcome]
  BY DEF RepairIInv, RepairTypeOK
<1>. HIDE DEF new
<1>. QED  BY <1>1, <1>2, <1>3, <1>4, WorkerMoves DEF Holding

LEMMA PutsDownKeeps ==
  ASSUME RepairIInv, NEW w \in Worker, UNCHANGED <<setting, place, stale, record>>,
         \/ worker' = [worker EXCEPT ![w] = [Idle EXCEPT !.seen = worker[w].seen]]
         \/ worker' = [worker EXCEPT ![w] = [Idle EXCEPT !.pc = "down"]]
  PROVE  RepairIInv'
<1>1. worker[w].seen \in SUBSET File /\ \A f \in worker[w].seen : record[f] # {}
  BY Settled DEF WorkerRecord, RepairIInv, PutAwayIsBooked
<1>2. PICK new \in WorkerRecord :
        /\ worker' = [worker EXCEPT ![w] = new]
        /\ new.pc \in {"idle", "down"} /\ new.seen \subseteq worker[w].seen
  BY <1>1, IdleAgain
<1>3. stale \subseteq File /\ record \in [File -> SUBSET Outcome]
  BY DEF RepairIInv, RepairTypeOK
<1>. QED  BY <1>1, <1>2, <1>3, WorkerMoves DEF Holding

LEMMA RecordsKeep ==
  ASSUME RepairIInv, NEW w \in Worker, worker[w].pc \in {"write", "book"},
         UNCHANGED <<setting, place, stale>>, NEW entry \in Outcome, Record(w, entry),
         NEW pc \in {"log", "dispose"}, Goto(w, pc)
  PROVE  RepairIInv'
<1>. DEFINE new == [worker[w] EXCEPT !.pc = pc]
<1>0. worker[w].file \in File
  BY DEF RepairIInv, PutAwayIsBooked, Holding
<1>1. worker' = [worker EXCEPT ![w] = new]
  BY DEF Goto, RepairIInv, RepairTypeOK
<1>2. new \in WorkerRecord /\ new.pc = pc /\ new.file = worker[w].file /\ new.seen = worker[w].seen
  BY Settled DEF WorkerRecord, Pc
<1>3. stale \subseteq File /\ record \in [File -> SUBSET Outcome]
  BY DEF RepairIInv, RepairTypeOK
<1>4. /\ record' \in [File -> SUBSET Outcome] /\ record'[worker[w].file] # {}
      /\ \A f \in File : record[f] \subseteq record'[f]
  BY <1>0, <1>3 DEF Record
<1>5. \A f \in new.seen : record'[f] # {}
  <2>1. worker[w].seen \subseteq File
    BY Settled DEF WorkerRecord
  <2>. QED  BY <1>2, <1>4, <2>1 DEF RepairIInv, PutAwayIsBooked
<1>. HIDE DEF new
<1>. QED  BY <1>1, <1>2, <1>3, <1>4, <1>5, WorkerMoves DEF Holding

(* A file that its claimant no longer has for itself.                      *)
LEMMA ReleaseKeeps ==
  ASSUME RepairIInv, NEW w \in Worker, ReleaseOne(w)
  PROVE  RepairIInv'
<1>1. PICK f \in worker[w].todo :
        /\ worker' = [worker EXCEPT ![w].todo = @ \ {f}]
        /\ IF "processing" \in place[f] /\ f \in stale THEN MoveTo(f, "need") ELSE UNCHANGED place
  BY DEF ReleaseOne
<1>2. /\ UNCHANGED <<setting, stale, record>> /\ worker[w].pc = "release"
      /\ place \in [File -> SUBSET {"need", "processing"}] /\ worker \in [Worker -> WorkerRecord]
  BY DEF ReleaseOne, At, RepairIInv, RepairTypeOK
<1>3. f \in File /\ worker[w].todo \ {f} \subseteq File
  BY <1>1, <1>2 DEF WorkerRecord
<1>. DEFINE new == [worker[w] EXCEPT !.todo = worker[w].todo \ {f}]
<1>4. worker' = [worker EXCEPT ![w] = new]
  BY <1>1, <1>2
<1>5. new \in WorkerRecord /\ new.pc = "release" /\ new.seen = worker[w].seen
  BY <1>2, <1>3 DEF WorkerRecord
<1>. HIDE DEF new
<1>6. CASE UNCHANGED place
  <2>1. \A g \in new.seen : record[g] # {}
    BY <1>5 DEF RepairIInv, PutAwayIsBooked
  <2>2. stale \subseteq File /\ record \in [File -> SUBSET Outcome]
    BY DEF RepairIInv, RepairTypeOK
  <2>. QED  BY <1>2, <1>4, <1>5, <1>6, <2>1, <2>2, WorkerMoves DEF Holding
<1>7. CASE f \in stale /\ MoveTo(f, "need")
  <2>1. place' \in [File -> SUBSET {"need", "processing"}]
        /\ (\A g \in File \ {f} : place'[g] = place[g]) /\ place'[f] = {"need"}
    BY <1>2, <1>3, <1>7 DEF MoveTo
  <2>2. worker' \in [Worker -> WorkerRecord] /\ worker'[w] = new
        /\ \A v \in Worker \ {w} : worker'[v] = worker[v]
    BY <1>2, <1>4, <1>5
  <2>3. RepairTypeOK'
    BY <1>2, <2>1, <2>2 DEF RepairIInv, RepairTypeOK
  <2>4. Accounted'
    BY <1>2, <2>1 DEF RepairIInv, Accounted
  <2>5. PutAwayIsBooked'
    BY <1>2, <1>5, <2>2 DEF RepairIInv, PutAwayIsBooked, Holding
  <2>6. \A v \in Worker, g \in File : Holds(v, g)' => Holds(v, g)
    BY <1>2, <1>5, <2>2 DEF Holds, Holding
  <2>7. ClaimsAreExclusive'
    BY <1>2, <1>7, <2>1, <2>6 DEF RepairIInv, ClaimsAreExclusive
  <2>. QED  BY <2>3, <2>4, <2>5, <2>7 DEF RepairIInv
<1>. QED  BY <1>1, <1>6, <1>7

(* A file that is there to be claimed is held by nobody, or stale.         *)
LEMMA ClaimKeeps ==
  ASSUME RepairIInv, NEW w \in Worker, worker[w].pc = "claim",
         UNCHANGED <<setting, stale, record>>, NEW f \in File, "need" \in place[f],
         MoveTo(f, "processing"), worker' = [worker EXCEPT ![w] = Claimed(w, f)]
  PROVE  RepairIInv'
<1>1. /\ place \in [File -> SUBSET {"need", "processing"}] /\ worker \in [Worker -> WorkerRecord]
  BY DEF RepairIInv, RepairTypeOK
<1>2. /\ Claimed(w, f) \in WorkerRecord /\ Claimed(w, f).file = f
      /\ Claimed(w, f).seen = worker[w].seen
      /\ Claimed(w, f).pc \in {"open", "dispose"}
      /\ Claimed(w, f).pc = "dispose" => f \in worker[w].seen
  BY <1>1 DEF Claimed, WorkerRecord, Pc
<1>3. /\ place' \in [File -> SUBSET {"need", "processing"}] /\ place'[f] = {"processing"}
      /\ \A g \in File \ {f} : place'[g] = place[g]
  BY <1>1 DEF MoveTo
<1>4. /\ worker' \in [Worker -> WorkerRecord] /\ worker'[w] = Claimed(w, f)
      /\ \A v \in Worker \ {w} : worker'[v] = worker[v]
  BY <1>1, <1>2
<1>5. RepairTypeOK'
  BY <1>3, <1>4 DEF RepairIInv, RepairTypeOK
<1>6. Accounted'
  BY <1>3 DEF RepairIInv, Accounted
<1>7. PutAwayIsBooked'
  BY <1>2, <1>4 DEF RepairIInv, PutAwayIsBooked
<1>8. ClaimsAreExclusive'
  <2>. SUFFICES ASSUME NEW v \in Worker, NEW g \in File, Holds(v, g)', g \notin stale
                PROVE  /\ "need" \notin place'[g]
                       /\ \A u \in Worker : Holds(u, g)' => u = v
    BY DEF ClaimsAreExclusive
  <2>1. \A u \in Worker, h \in File : Holds(u, h)' => Holds(u, h) \/ (u = w /\ h = f)
    BY <1>2, <1>4 DEF Holds
  <2>2. f \notin stale => \A u \in Worker : ~Holds(u, f)
    BY DEF RepairIInv, ClaimsAreExclusive
  <2>3. CASE g = f
    BY <1>3, <2>1, <2>2, <2>3
  <2>4. CASE g # f
    BY <1>3, <2>1, <2>4 DEF RepairIInv, ClaimsAreExclusive
  <2>. QED  BY <2>3, <2>4
<1>. QED  BY <1>5, <1>6, <1>7, <1>8 DEF RepairIInv

LEMMA PutAway ==
  ASSUME RepairIInv, NEW f \in File,
         NEW dirs \in IF setting.keep THEN Restored(f) ELSE Removed(f)
  PROVE  dirs \in SUBSET {"need", "processing"}
<1>1. place[f] \in SUBSET {"need", "processing"}
  BY DEF RepairIInv, RepairTypeOK
<1>2. CASE setting.keep
  <2>1. \/ dirs \in {{"need"}, place[f]}
        \/ \E removed \in SUBSET {"processing"}, copied \in SUBSET {"need"} :
             dirs = (place[f] \ removed) \union copied
    BY <1>2 DEF Restored
  <2>. QED  BY <1>1, <2>1
<1>3. CASE ~setting.keep
  BY <1>1, <1>3 DEF Removed
<1>. QED  BY <1>2, <1>3

LEMMA DisposeKeeps ==
  ASSUME RepairIInv, NEW w \in Worker, Dispose(w)
  PROVE  RepairIInv'
<1>. DEFINE f == worker[w].file
            seen == IF setting.keep THEN worker[w].seen \union {f} ELSE {}
            new == [Idle EXCEPT !.seen = seen]
<1>1. /\ place \in [File -> SUBSET {"need", "processing"}] /\ worker \in [Worker -> WorkerRecord]
      /\ worker[w].pc = "dispose" /\ UNCHANGED <<setting, stale, record>>
      /\ worker' = [worker EXCEPT ![w] = new]
  BY DEF RepairIInv, RepairTypeOK, Dispose, At
<1>2. f \in File /\ record[f] # {} /\ \A g \in worker[w].seen : record[g] # {}
  BY <1>1 DEF RepairIInv, PutAwayIsBooked, Holding
<1>3. PICK dirs \in IF setting.keep THEN Restored(f) ELSE Removed(f) :
        place' = [place EXCEPT ![f] = dirs]
  BY Zenon DEF Dispose
<1>4. seen \in SUBSET File /\ \A g \in seen : record[g] # {}
  BY <1>1, <1>2 DEF WorkerRecord
<1>. HIDE DEF seen
<1>5. new \in WorkerRecord /\ new.pc = "idle" /\ new.seen = seen
  BY <1>4, IdleAgain
<1>. HIDE DEF new, f
<1>6. /\ place' \in [File -> SUBSET {"need", "processing"}]
      /\ \A g \in File \ {f} : place'[g] = place[g]
  BY <1>1, <1>2, <1>3, PutAway
<1>7. /\ worker' \in [Worker -> WorkerRecord] /\ worker'[w] = new
      /\ \A v \in Worker \ {w} : worker'[v] = worker[v]
  BY <1>1, <1>5
<1>8. RepairTypeOK'
  BY <1>1, <1>6, <1>7 DEF RepairIInv, RepairTypeOK
<1>9. Accounted'
  BY <1>1, <1>2, <1>6 DEF RepairIInv, Accounted
<1>10. PutAwayIsBooked'
  BY <1>1, <1>4, <1>5, <1>7 DEF RepairIInv, PutAwayIsBooked, Holding
<1>11. ClaimsAreExclusive'
  <2>. SUFFICES ASSUME NEW v \in Worker, NEW g \in File, Holds(v, g)', g \notin stale
                PROVE  /\ "need" \notin place'[g]
                       /\ \A u \in Worker : Holds(u, g)' => u = v
    BY <1>1 DEF ClaimsAreExclusive
  <2>1. \A u \in Worker, h \in File : Holds(u, h)' => Holds(u, h) /\ u # w
    BY <1>5, <1>7 DEF Holds, Holding
  <2>2. Holds(w, f)
    BY <1>1 DEF Holds, Holding, f
  <2>3. g # f
    BY <1>2, <2>1, <2>2 DEF RepairIInv, ClaimsAreExclusive
  <2>. QED  BY <1>6, <2>1, <2>3 DEF RepairIInv, ClaimsAreExclusive
<1>. QED  BY <1>8, <1>9, <1>10, <1>11 DEF RepairIInv

LEMMA AgesKeeps ==
  ASSUME RepairIInv, NEW f \in File, Ages(f)
  PROVE  RepairIInv'
<1>1. RepairTypeOK' /\ Accounted' /\ PutAwayIsBooked'
  BY DEF Ages, RepairIInv, RepairTypeOK, Accounted, PutAwayIsBooked
<1>2. ClaimsAreExclusive'
  BY DEF Ages, RepairIInv, ClaimsAreExclusive, Holds
<1>. QED  BY <1>1, <1>2 DEF RepairIInv

LEMMA RepairStepKeeps == RepairIInv /\ [RepairNext]_repairVars => RepairIInv'
<1>. SUFFICES ASSUME RepairIInv, [RepairNext]_repairVars PROVE RepairIInv'
  OBVIOUS
<1>1. setting.files \subseteq File
  BY RepairerAssumption DEF RepairerAssumption, SettingRecord, RepairIInv, RepairTypeOK
<1>2. CASE UNCHANGED repairVars
  BY <1>2 DEF repairVars, RepairIInv, RepairTypeOK, Accounted, PutAwayIsBooked,
       ClaimsAreExclusive, Holds
<1>3. ASSUME NEW f \in setting.files, Ages(f) PROVE RepairIInv'
  BY <1>1, <1>3, AgesKeeps
<1>4. ASSUME NEW w \in Worker, WorkerStep(w) \/ Crash(w) PROVE RepairIInv'
  <2>1. CASE ListProcessing(w)
    <3>1. In("processing") \in SUBSET File /\ "release" \in Pc \ Holding
      BY <1>1 DEF In, Pc, Holding
    <3>. QED  BY <2>1, <3>1, LooksKeep DEF ListProcessing
  <2>2. CASE ReleaseOne(w)
    BY <2>2, ReleaseKeeps
  <2>3. CASE ListNeed(w)
    <3>1. In("need") \in SUBSET File /\ "claim" \in Pc \ Holding
      BY <1>1 DEF In, Pc, Holding
    <3>. QED  BY <2>3, <3>1, LooksKeep DEF ListNeed
  <2>4. CASE ClaimOne(w)
    <3>1. worker[w].todo \in SUBSET File /\ worker[w].pc = "claim"
      BY <2>4, Settled DEF ClaimOne, At, WorkerRecord
    <3>2. PICK f \in worker[w].todo :
            \/ /\ "need" \in place[f]
               /\ MoveTo(f, "processing")
               /\ worker' = [worker EXCEPT ![w] = Claimed(w, f)]
            \/ /\ worker' = [worker EXCEPT ![w].todo = @ \ {f}]
               /\ UNCHANGED place
      BY <2>4 DEF ClaimOne
    <3>3. UNCHANGED <<setting, stale, record>> /\ f \in File
      BY <2>4, <3>1 DEF ClaimOne
    <3>4. CASE "need" \in place[f] /\ MoveTo(f, "processing")
                 /\ worker' = [worker EXCEPT ![w] = Claimed(w, f)]
      BY <3>1, <3>3, <3>4, ClaimKeeps
    <3>5. CASE worker' = [worker EXCEPT ![w].todo = @ \ {f}] /\ UNCHANGED place
      <4>1. worker' = [worker EXCEPT ![w].pc = "claim", ![w].todo = worker[w].todo \ {f}]
        BY <3>1, <3>5 DEF RepairIInv, RepairTypeOK, WorkerRecord
      <4>2. worker[w].todo \ {f} \in SUBSET File /\ "claim" \in Pc \ Holding
        BY <3>1 DEF Pc, Holding
      <4>. QED  BY <3>3, <3>5, <4>1, <4>2, LooksKeep
    <3>. QED  BY <3>2, <3>4, <3>5
  <2>5. CASE NothingToClaim(w)
    BY <2>5, GoesKeeps DEF NothingToClaim, Pc, Holding
  <2>6. CASE Open(w)
    BY <2>6, GoesKeeps DEF Open, At, Pc, Holding
  <2>7. CASE Drive(w)
    BY <2>7, GoesKeeps DEF Drive, At, Pc, Holding
  <2>8. CASE WriteFixed(w)
    BY <2>8, RecordsKeep DEF WriteFixed, At, Outcome
  <2>9. CASE LogSuccess(w)
    <3>1. record[worker[w].file] # {} /\ worker[w].pc \in Holding
      BY <2>9 DEF LogSuccess, At, RepairIInv, PutAwayIsBooked, Holding
    <3>. QED  BY <2>9, <3>1, GoesKeeps DEF LogSuccess, Pc, Holding
  <2>10. CASE BookFailure(w)
    <3>1. CASE Record(w, "failed") /\ Goto(w, "dispose")
      BY <2>10, <3>1, RecordsKeep DEF BookFailure, At, Outcome
    <3>2. CASE /\ worker' = [worker EXCEPT ![w] = [Idle EXCEPT !.seen = worker[w].seen]]
               /\ UNCHANGED record
      BY <2>10, <3>2, PutsDownKeeps DEF BookFailure
    <3>. QED  BY <2>10, <3>1, <3>2 DEF BookFailure
  <2>11. CASE Dispose(w)
    BY <2>11, DisposeKeeps
  <2>12. CASE Restart(w)
    BY <2>12, GoesKeeps DEF Restart, Pc, Holding
  <2>13. CASE Crash(w)
    BY <2>13, PutsDownKeeps DEF Crash
  <2>. QED  BY <1>4, <2>1, <2>2, <2>3, <2>4, <2>5, <2>6, <2>7, <2>8, <2>9, <2>10, <2>11,
               <2>12, <2>13 DEF WorkerStep
<1>. QED  BY <1>2, <1>3, <1>4 DEF RepairNext

(* Every reachable state: no file of the queue is lost without an outcome  *)
(* on record, and no two instances repair one file unless its mtime has    *)
(* expired, whatever crashes and whichever file operations fail            *)
(* (repairer_storage.py:65-137, repairer_loop.py:40-147).                  *)
THEOREM RepairerIsSafe == RepairSpec => []RepairInv
<1>1. RepairSpec => []RepairIInv
  BY RepairStarts, RepairStepKeeps, PTL DEF RepairSpec
<1>. QED  BY <1>1, IInvIsEnough, PTL

-----------------------------------------------------------------------------
(* What changes the directories takes a file, gives it back or settles it. *)
LEMMA PlacesMove ==
  ASSUME RepairIInv, NEW f \in File, NEW dirs \in SUBSET {"need", "processing"},
         place' = [place EXCEPT ![f] = dirs], UNCHANGED record,
         "need" \in place[f] => dirs # {}, place[f] = {} => dirs = {},
         dirs = {} => record[f] # {}
  PROVE  [Queue!QueueNext]_Queue!queueVars
<1>1. /\ place \in [File -> SUBSET {"need", "processing"}]
      /\ place'[f] = dirs /\ \A g \in File \ {f} : place'[g] = place[g]
  BY DEF RepairIInv, RepairTypeOK
<1>2. UNCHANGED Booked
  BY DEF Booked
<1>3. \A g \in File : /\ "need" \in place[g] => Status[g] = "waiting"
                      /\ place[g] = {"processing"} => Status[g] = "taken"
                      /\ place[g] = {} => Status[g] = "settled"
  BY DEF Status
<1>4. \A g \in File : /\ "need" \in place'[g] => Status'[g] = "waiting"
                      /\ place'[g] = {"processing"} => Status'[g] = "taken"
                      /\ place'[g] = {} => Status'[g] = "settled"
  BY DEF Status
<1>5. \A g \in File \ {f} : Status'[g] = Status[g]
  BY <1>1 DEF Status
<1>6. Status' = [g \in File |-> Status'[g]] /\ Status = [g \in File |-> Status[g]]
  BY DEF Status
<1>7. Status' = [Status EXCEPT ![f] = Status'[f]]
  <2>1. [Status EXCEPT ![f] = Status'[f]] = [g \in File |-> Status'[g]]
    BY <1>5, <1>6
  <2>. QED  BY <1>6, <2>1
<1>8. CASE Status'[f] = Status[f]
  BY <1>2, <1>6, <1>7, <1>8 DEF Queue!queueVars
<1>9. CASE Status'[f] # Status[f]
  <2>1. \/ Status[f] = "waiting" /\ Status'[f] = "taken"
        \/ Status[f] = "taken" /\ Status'[f] = "waiting"
        \/ Status[f] = "taken" /\ Status'[f] = "settled" /\ f \in Booked
    <3>1. \A ds \in SUBSET {"need", "processing"} :
            "need" \in ds \/ ds = {"processing"} \/ ds = {}
      OBVIOUS
    <3>2. Status[f] = "waiting" \/ Status[f] = "taken" \/ (Status[f] = "settled" /\ dirs = {})
      BY <1>1, <1>3, <3>1
    <3>3. \/ "need" \in dirs /\ Status'[f] = "waiting"
          \/ dirs = {"processing"} /\ Status'[f] = "taken"
          \/ dirs = {} /\ Status'[f] = "settled" /\ f \in Booked
      BY <1>1, <1>4, <3>1 DEF Booked
    <3>4. dirs = {} => Status[f] # "waiting"
      BY <1>1, <1>3, <3>1 DEF Status
    <3>. QED  BY <1>9, <3>2, <3>3, <3>4
  <2>. QED  BY <1>2, <1>7, <2>1
         DEF Queue!QueueNext, Queue!Take, Queue!Return, Queue!Settle, Queue!Move
<1>. QED  BY <1>8, <1>9

(* Each step of the instances is one of the work queue's, or none of its.  *)
LEMMA RepairStepsAreQueueSteps ==
  RepairIInv /\ [RepairNext]_repairVars => [Queue!QueueNext]_Queue!queueVars
<1>. SUFFICES ASSUME RepairIInv, [RepairNext]_repairVars
              PROVE  [Queue!QueueNext]_Queue!queueVars
  OBVIOUS
<1>0. ASSUME UNCHANGED <<place, record>> PROVE [Queue!QueueNext]_Queue!queueVars
  BY <1>0 DEF Status, Booked, Queue!queueVars
<1>1. place \in [File -> SUBSET {"need", "processing"}] /\ record \in [File -> SUBSET Outcome]
  BY DEF RepairIInv, RepairTypeOK
<1>2. CASE UNCHANGED repairVars
  BY <1>0, <1>2 DEF repairVars
<1>3. ASSUME NEW f \in setting.files, Ages(f) PROVE [Queue!QueueNext]_Queue!queueVars
  BY <1>0, <1>3 DEF Ages
<1>4. ASSUME NEW w \in Worker, NEW entry \in Outcome, UNCHANGED place, Record(w, entry),
             worker[w].pc \in {"write", "book"}
      PROVE  [Queue!QueueNext]_Queue!queueVars
  <2>1. worker[w].file \in File
    BY <1>4 DEF RepairIInv, PutAwayIsBooked, Holding
  <2>2. Booked' = Booked \union {worker[w].file}
    BY <1>1, <1>4, <2>1 DEF Booked, Record
  <2>3. UNCHANGED Status
    BY <1>4 DEF Status
  <2>. QED  BY <2>1, <2>2, <2>3 DEF Queue!QueueNext, Queue!Book
<1>5. ASSUME NEW w \in Worker, ReleaseOne(w) PROVE [Queue!QueueNext]_Queue!queueVars
  <2>1. UNCHANGED record /\ worker[w].todo \subseteq File
    BY <1>5, Settled DEF ReleaseOne, At, WorkerRecord
  <2>2. PICK f \in worker[w].todo :
          IF "processing" \in place[f] /\ f \in stale THEN MoveTo(f, "need") ELSE UNCHANGED place
    BY <1>5 DEF ReleaseOne
  <2>3. CASE "processing" \in place[f] /\ place' = [place EXCEPT ![f] = {"need"}]
    BY <2>1, <2>3, PlacesMove
  <2>. QED  BY <1>0, <2>1, <2>2, <2>3 DEF MoveTo
<1>6. ASSUME NEW w \in Worker, ClaimOne(w) PROVE [Queue!QueueNext]_Queue!queueVars
  <2>1. UNCHANGED record /\ worker[w].todo \subseteq File
    BY <1>6, Settled DEF ClaimOne, At, WorkerRecord
  <2>2. PICK f \in worker[w].todo :
          ("need" \in place[f] /\ MoveTo(f, "processing")) \/ UNCHANGED place
    BY <1>6 DEF ClaimOne
  <2>3. CASE "need" \in place[f] /\ place' = [place EXCEPT ![f] = {"processing"}]
    BY <2>1, <2>3, PlacesMove
  <2>. QED  BY <1>0, <2>1, <2>2, <2>3 DEF MoveTo
<1>7. ASSUME NEW w \in Worker, Dispose(w) PROVE [Queue!QueueNext]_Queue!queueVars
  <2>. DEFINE f == worker[w].file
  <2>1. worker[w].pc = "dispose" /\ UNCHANGED record
    BY <1>7 DEF Dispose, At
  <2>2. f \in File /\ record[f] # {}
    BY <2>1 DEF RepairIInv, PutAwayIsBooked, Holding
  <2>3. PICK dirs \in IF setting.keep THEN Restored(f) ELSE Removed(f) :
          place' = [place EXCEPT ![f] = dirs]
    BY <1>7, Zenon DEF Dispose
  <2>. HIDE DEF f
  <2>4. dirs \in SUBSET {"need", "processing"}
    BY <2>2, PutAway
  <2>5. ("need" \in place[f] => dirs # {}) /\ (place[f] = {} => dirs = {})
    <3>1. CASE setting.keep
      <4>1. \/ dirs = {"need"} /\ "processing" \in place[f]
            \/ dirs = place[f]
            \/ /\ "processing" \in place[f]
               /\ \E removed \in SUBSET {"processing"}, copied \in SUBSET {"need"} :
                    dirs = (place[f] \ removed) \union copied
        BY <3>1 DEF Restored
      <4>. QED  BY <4>1
    <3>2. CASE ~setting.keep
      BY <3>2 DEF Removed
    <3>. QED  BY <3>1, <3>2
  <2>. QED  BY <2>1, <2>2, <2>3, <2>4, <2>5, PlacesMove
<1>8. ASSUME NEW w \in Worker, WorkerStep(w) \/ Crash(w)
      PROVE  [Queue!QueueNext]_Queue!queueVars
  <2>1. CASE ListProcessing(w) \/ ListNeed(w) \/ NothingToClaim(w) \/ Open(w) \/ Drive(w)
               \/ LogSuccess(w) \/ Restart(w) \/ Crash(w)
    BY <1>0, <2>1
       DEF ListProcessing, ListNeed, NothingToClaim, Open, Drive, LogSuccess, Restart, Crash
  <2>2. CASE WriteFixed(w)
    BY <1>4, <2>2 DEF WriteFixed, At, Outcome
  <2>3. CASE BookFailure(w)
    BY <1>0, <1>4, <2>3 DEF BookFailure, At, Outcome
  <2>. QED  BY <1>5, <1>6, <1>7, <1>8, <2>1, <2>2, <2>3 DEF WorkerStep
<1>. QED  BY <1>2, <1>3, <1>8 DEF RepairNext

(* The directories implement a work queue: a file whose name has left them *)
(* was claimed and had its outcome on record, and it never comes back, not *)
(* even after crashes and half-finished restores                           *)
(* (repairer_storage.py:65-137, repairer_loop.py:40-147).                  *)
THEOREM RepairerIsWorkQueue == RepairSpec => IsWorkQueue
<1>1. RepairInit => Queue!QueueInit
  BY DEF RepairInit, Queue!QueueInit, Status, Booked
<1>2. RepairSpec => []RepairIInv
  BY RepairStarts, RepairStepKeeps, PTL DEF RepairSpec
<1>. QED  BY <1>1, <1>2, RepairStepsAreQueueSteps, PTL DEF RepairSpec, IsWorkQueue, Queue!QueueSpec
=============================================================================
