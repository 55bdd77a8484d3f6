---------------------------- MODULE ResultShards ----------------------------
(***************************************************************************)
(* The results files of one batch instance: results_state.py under the     *)
(* write lock of runtime_io.persist_register_success, and the files that   *)
(* shared_auth/persistence.py writes after the results line.  Lines are    *)
(* appended to numbered shards; results_state.json says which shard and    *)
(* line come next.  The state is read, the line appended and the state     *)
(* written back in three steps, and a failing write or the death of the    *)
(* process ("interruption") can come after each.  A start first migrates   *)
(* an old layout, file by file, and passes over what cannot be moved.      *)
(***************************************************************************)
EXTENDS Naturals, FiniteSets, FiniteSetsExt

CONSTANTS
  Thread,            \* the workers that persist results
  ShardSize,         \* RESULTS_SHARD_SIZE
  Legacy,            \* the old layouts a start may find: lines per shard
  MaxLines,          \* lines over all shards
  MaxInterruptions

Shard == 0..MaxLines

(* The lines of a directory, each by its shard and place.                  *)
LinesOf(dir) == UNION { {s} \X (1..dir[s]) : s \in Shard }

(* The same code wrote the old layouts, so all but the last shard are full.*)
ASSUME ShardAssumption ==
  /\ ShardSize \in Nat \ {0} /\ MaxLines \in Nat /\ MaxInterruptions \in Nat
  /\ Legacy \subseteq [Shard -> 0..ShardSize]
  /\ \A dir \in Legacy :
       /\ Cardinality(LinesOf(dir)) <= MaxLines
       /\ \A s, u \in Shard : s < u /\ dir[u] > 0 => dir[s] = ShardSize

NoState == [shard |-> 0, line |-> ShardSize + 1]  \* no results_state.json

StateRecord == [shard : Nat, line : 0..(ShardSize - 1)]

VARIABLES
  phase,    \* "start", "migrate" or "run": of the process
  lines,    \* per shard of the instance directory; 0: no file
  legacy,   \* the same of the old directory
  state,    \* results_state.json of the instance
  legacyState,
  lock,     \* write_lock: the threads that hold it
  writer,   \* where each thread is, and the state it read
  files,    \* how many files codex_auth and wait_update got
  interruptions

shardVars == <<phase, lines, legacy, state, legacyState, lock, writer, files,
               interruptions>>

(* Mutant: the last line of a shard opens the next one.                    *)
AfterEarly(s, n) == IF n + 1 >= ShardSize THEN [shard |-> s + 1, line |-> 0]
                    ELSE [shard |-> s, line |-> n]

(* The position after a line at shard s that then has n lines.             *)
After(s, n) == IF n >= ShardSize THEN [shard |-> s + 1, line |-> 0]
               ELSE [shard |-> s, line |-> n]

Present(dir) == { s \in Shard : dir[s] > 0 }

(* infer_results_state: the last shard file, counted.                      *)
InferState(dir) ==
  IF Present(dir) = {} THEN [shard |-> 0, line |-> 0]
  ELSE LET last == Max(Present(dir)) IN After(last, dir[last])

(* load_results_state                                                      *)
LoadState == IF state = NoState THEN InferState(lines) ELSE state

NoWriter == [pc |-> "out", at |-> NoState]

(* What has been written, in either directory.                             *)
Kept == [s \in Shard |-> lines[s] + legacy[s]]

Written == Cardinality(LinesOf(Kept))

ShardsInit ==
  /\ phase = "start"
  /\ lines = [s \in Shard |-> 0]
  /\ legacy \in Legacy
  /\ state = NoState
  /\ legacyState = IF Present(legacy) = {} THEN NoState ELSE InferState(legacy)
  /\ lock = {}
  /\ writer = [t \in Thread |-> NoWriter]
  /\ files = [auth |-> 0, mirror |-> 0]
  /\ interruptions = 0

-----------------------------------------------------------------------------
(* migrate_legacy_results_layout: once, if the instance has nothing yet.   *)
StartProcess ==
  /\ phase = "start"
  /\ phase' = IF /\ Present(legacy) # {} \/ legacyState # NoState
                 /\ Present(lines) = {} /\ state = NoState
              THEN "migrate" ELSE "run"
  /\ UNCHANGED <<lines, legacy, state, legacyState, lock, writer, files, interruptions>>

MigrateShard(s) ==
  /\ phase = "migrate" /\ legacy[s] > 0
  /\ lines' = [lines EXCEPT ![s] = legacy[s]]
  /\ legacy' = [legacy EXCEPT ![s] = 0]
  /\ UNCHANGED <<phase, state, legacyState, lock, writer, files, interruptions>>

(* A move that fails is passed over, of a shard or of the state.           *)
MigrateState ==
  /\ phase = "migrate" /\ phase' = "run"
  /\ \/ /\ Present(legacy) = {} /\ UNCHANGED interruptions
        /\ state' = legacyState /\ legacyState' = NoState
     \/ /\ interruptions < MaxInterruptions /\ interruptions' = interruptions + 1
        /\ \/ state' = legacyState /\ legacyState' = NoState
           \/ UNCHANGED <<state, legacyState>>
  /\ UNCHANGED <<lines, legacy, lock, writer, files>>

-----------------------------------------------------------------------------
(* persist_register_success. *)

Persists(t, pc) == phase = "run" /\ writer[t].pc = pc

PersistAt(t, pc) == writer' = [writer EXCEPT ![t].pc = pc]

(* Mutant: the lock is not taken.                                          *)
EnterUnlocked(t) ==
  /\ Persists(t, "out") /\ Written + Cardinality(lock) < MaxLines
  /\ lock' = lock \union {t} /\ PersistAt(t, "load")
  /\ UNCHANGED <<phase, lines, legacy, state, legacyState, files, interruptions>>

Enter(t) ==
  /\ Persists(t, "out") /\ Written + Cardinality(lock) < MaxLines
  /\ lock = {} /\ lock' = {t} /\ PersistAt(t, "load")
  /\ UNCHANGED <<phase, lines, legacy, state, legacyState, files, interruptions>>

(* append_result_line                                                      *)
Load(t) ==
  /\ Persists(t, "load")
  /\ writer' = [writer EXCEPT ![t] = [pc |-> "append", at |-> LoadState]]
  /\ UNCHANGED <<phase, lines, legacy, state, legacyState, lock, files, interruptions>>

(* Mutant: the state is written before the line.                           *)
AppendLater(t) ==
  /\ Persists(t, "append")
  /\ state' = After(writer[t].at.shard, writer[t].at.line + 1)
  /\ PersistAt(t, "save")
  /\ UNCHANGED <<phase, lines, legacy, legacyState, lock, files, interruptions>>

AppendLine(t) ==
  /\ Persists(t, "append")
  /\ lines' = [lines EXCEPT ![writer[t].at.shard] = @ + 1]
  /\ PersistAt(t, "save")
  /\ UNCHANGED <<phase, legacy, state, legacyState, lock, files, interruptions>>

(* Mutant: a full shard is left one line late.                             *)
SaveStateLate(t) ==
  /\ Persists(t, "save")
  /\ LET at == writer[t].at
     IN  state' = IF at.line >= ShardSize THEN [shard |-> at.shard + 1, line |-> 0]
                  ELSE [at EXCEPT !.line = @ + 1]
  /\ PersistAt(t, "auth")
  /\ UNCHANGED <<phase, lines, legacy, legacyState, lock, files, interruptions>>

SaveState(t) ==
  /\ Persists(t, "save")
  /\ state' = After(writer[t].at.shard, writer[t].at.line + 1)
  /\ PersistAt(t, "auth")
  /\ UNCHANGED <<phase, lines, legacy, legacyState, lock, files, interruptions>>

(* persist_register_success_auth: the file, then its copy, which may fail. *)
(* Mutant: the file is written before the line.                            *)
WriteAuthFirst(t) ==
  /\ Persists(t, "auth") \/ Persists(t, "load")
  /\ files' = [files EXCEPT !.auth = @ + 1]
  /\ PersistAt(t, IF Persists(t, "auth") THEN "mirror" ELSE "load")
  /\ files.auth < MaxLines
  /\ UNCHANGED <<phase, lines, legacy, state, legacyState, lock, interruptions>>

WriteAuth(t) ==
  /\ Persists(t, "auth")
  /\ files' = [files EXCEPT !.auth = @ + 1]
  /\ PersistAt(t, "mirror")
  /\ UNCHANGED <<phase, lines, legacy, state, legacyState, lock, interruptions>>

MirrorAuth(t) ==
  /\ Persists(t, "mirror")
  /\ \E copied \in {0, 1} : files' = [files EXCEPT !.mirror = @ + copied]
  /\ writer' = [writer EXCEPT ![t] = NoWriter]
  /\ lock' = lock \ {t}
  /\ UNCHANGED <<phase, lines, legacy, state, legacyState, interruptions>>

(* A file operation raises: the lock is released, the worker goes on.      *)
Raise(t) ==
  /\ interruptions < MaxInterruptions
  /\ writer[t].pc # "out"
  /\ writer' = [writer EXCEPT ![t] = NoWriter]
  /\ lock' = lock \ {t}
  /\ interruptions' = interruptions + 1
  /\ UNCHANGED <<phase, lines, legacy, state, legacyState, files>>

(* The process dies and is started again.                                  *)
RestartProcess ==
  /\ interruptions < MaxInterruptions
  /\ phase' = "start"
  /\ writer' = [t \in Thread |-> NoWriter]
  /\ lock' = {}
  /\ interruptions' = interruptions + 1
  /\ UNCHANGED <<lines, legacy, state, legacyState, files>>

ShardsNext ==
  \/ StartProcess \/ MigrateState \/ RestartProcess
  \/ \E s \in Shard : MigrateShard(s)
  \/ \E t \in Thread :
       \/ Enter(t) \/ Load(t) \/ AppendLine(t) \/ SaveState(t)
       \/ WriteAuth(t) \/ MirrorAuth(t) \/ Raise(t)

ShardsSpec == ShardsInit /\ [][ShardsNext]_shardVars

-----------------------------------------------------------------------------
(* Properties. *)

(* Type correctness of the results directory and its writers.              *)
ShardsTypeOK ==
  /\ phase \in {"start", "migrate", "run"}
  /\ lines \in [Shard -> Nat] /\ legacy \in [Shard -> Nat]
  /\ {state, legacyState} \subseteq StateRecord \union {NoState}
  /\ lock \subseteq Thread
  /\ writer \in [Thread -> [pc : {"out", "load", "append", "save", "auth", "mirror"},
                            at : StateRecord \union {NoState}]]
  /\ files \in [auth : Nat, mirror : Nat]

(* Two threads never use one position, and only interruptions between the  *)
(* line and the state make a shard longer than RESULTS_SHARD_SIZE          *)
(* (results_state.py:141-163).                                             *)
ShardsBounded == \A s \in Shard : lines[s] <= ShardSize + interruptions

(* A reader may take every shard before the current one for complete,      *)
(* wherever a broken migration left it.                                    *)
EarlierShardsFull ==
  \A s \in Shard : s < LoadState.shard => Kept[s] >= ShardSize

(* The position on file never runs ahead of the lines, those a migration   *)
(* left behind included, so a restart cannot lose its place or start a     *)
(* shard early (results_state.py:141-163).                                 *)
StateLags ==
  state # NoState => state.line <= Kept[state.shard]

(* Every token file has a results line that came before it, and every copy *)
(* for upload a token file, whatever interrupts the worker.                *)
LinesComeFirst ==
  /\ files.mirror <= files.auth
  /\ files.auth <= Written

(* The shards have no gaps, no overlaps and no loose ends, whatever write  *)
(* fails and wherever the process dies (results_state.py, runtime_io.py:22-45). *)
ShardsInv ==
  ShardsTypeOK /\ ShardsBounded /\ EarlierShardsFull /\ StateLags /\ LinesComeFirst

=============================================================================
