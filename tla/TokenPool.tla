----------------------------- MODULE TokenPool -----------------------------
(***************************************************************************)
(* The probe thread of a batch service (probe_loop, probe_core and         *)
(* probe_refill): it lists the files of a pool directory, probes each,     *)
(* asks a server for replacements, writes them, and deletes as many files  *)
(* that failed the probe as it received.  Worker threads add files under   *)
(* the same write lock.  The server's answers are chosen freely.           *)
(***************************************************************************)
EXTENDS Naturals, FiniteSets, FiniteSetsExt

CONSTANTS
  Token,       \* the files, one account each
  TargetSize   \* TARGET_POOL_SIZE

ASSUME PoolAssumption == IsFiniteSet(Token) /\ TargetSize \in Nat

VARIABLES
  pool,      \* the files in the directory
  cooling,   \* the accounts in cooldown_until_by_account
  probe,     \* where the thread is
  result,    \* what this pass found out about a file
  balance    \* over this pass: replacements received, written and files deleted

poolVars == <<pool, cooling, probe, result, balance>>

ProbeResult == {"none", "ok", "invalid", "cooling", "error"}

Unprobed == [f \in Token |-> "none"]

NoBalance == [received |-> 0, written |-> 0, deleted |-> 0]

PoolInit ==
  /\ pool \in SUBSET Token
  /\ cooling = {} /\ result = Unprobed /\ balance = NoBalance
  /\ probe = [pc |-> "list", todo |-> {}, topup |-> TRUE]

Having(r) == { f \in Token : result[f] = r }

(* _list_recent_auth_files; a new pass forgets the last one.               *)
ListPool ==
  /\ probe.pc = "list" /\ pool # {}
  /\ probe' = [probe EXCEPT !.pc = "probe", !.todo = pool]
  /\ result' = Unprobed /\ balance' = NoBalance
  /\ UNCHANGED <<pool, cooling>>

(* Mutant: what is counted as limited is also called so.                   *)
VerdictsLimited(f) ==
  IF f \in cooling THEN {"limited"} ELSE {"ok", "invalid", "error"}

(* An account in local cooldown is not asked again; it counts as limited,  *)
(* but its file is not one to delete.                                      *)
Verdicts(f) == IF f \in cooling THEN {"cooling"} ELSE {"ok", "invalid", "error"}

(* probe_wham_one: "invalid" is 401 or 429; a 429 may name a time to wait, *)
(* which starts the cooldown.  A file that cannot be read, or is gone, is   *)
(* passed over.                                                            *)
ProbeOne(f) ==
  /\ probe.pc = "probe" /\ f \in probe.todo
  /\ probe' = [probe EXCEPT !.todo = @ \ {f}]
  /\ \/ UNCHANGED <<result, cooling>>
     \/ /\ f \in pool
        /\ \E v \in Verdicts(f) : result' = [result EXCEPT ![f] = v]
        /\ \/ UNCHANGED cooling
           \/ f \notin cooling /\ result'[f] = "invalid" /\ cooling' = cooling \union {f}
  /\ UNCHANGED <<pool, balance>>

Healthy == Cardinality(Having("ok"))

ProbeAt(pc) == probe' = [probe EXCEPT !.pc = pc]

(* A full pool asks for nothing, and neither does TOPUP_COOLDOWN_SECONDS   *)
(* after the last request; a request that brings nothing counts too.       *)
NoTopup ==
  /\ probe.pc = "probe" /\ probe.todo = {}
  /\ Healthy >= TargetSize \/ ~probe.topup
  /\ ProbeAt("list")
  /\ UNCHANGED <<pool, cooling, result, balance>>

Topup ==
  /\ probe.pc = "probe" /\ probe.todo = {}
  /\ Healthy < TargetSize /\ probe.topup
  /\ \E n \in 0..Cardinality(Token) :
       /\ balance' = [balance EXCEPT !.received = n]
       /\ probe' = [probe EXCEPT !.pc = IF n = 0 THEN "list" ELSE "swap", !.topup = FALSE]
  /\ UNCHANGED <<pool, cooling, result>>

(* Mutant: every invalid file is deleted.                                  *)
DoomedAll == {Having("invalid")}

(* Mutant: files of accounts that only wait are deleted like the others.   *)
DoomedCooling ==
  LET limited == Having("invalid") \union Having("cooling")
  IN  kSubset(Min({balance.received, Cardinality(limited)}), limited)

(* The invalid files to delete: as many as replacements were received.     *)
Doomed ==
  kSubset(Min({balance.received, Cardinality(Having("invalid"))}), Having("invalid"))

(* Under write_lock: the replacements, some of which may fail to be        *)
(* written, then the deletions.                                            *)
Swap ==
  /\ probe.pc = "swap"
  /\ \E new \in SUBSET (Token \ pool), doomed \in Doomed :
       /\ Cardinality(new) <= balance.received
       /\ pool' = (pool \union new) \ doomed
       /\ balance' = [balance EXCEPT !.written = Cardinality(new),
                                     !.deleted = Cardinality(pool \intersect doomed)]
  /\ ProbeAt("list")
  /\ UNCHANGED <<cooling, result>>

(* Workers add files; cooldowns and the time between requests run out.     *)
AddToken(f) ==
  /\ pool' = pool \union {f}
  /\ UNCHANGED <<cooling, probe, result, balance>>

CooldownEnds(f) ==
  /\ cooling' = cooling \ {f}
  /\ UNCHANGED <<pool, probe, result, balance>>

TopupAgain ==
  /\ probe' = [probe EXCEPT !.topup = TRUE]
  /\ UNCHANGED <<pool, cooling, result, balance>>

PoolNext ==
  \/ ListPool \/ NoTopup \/ Topup \/ Swap \/ TopupAgain
  \/ \E f \in Token : ProbeOne(f) \/ AddToken(f) \/ CooldownEnds(f)

PoolSpec == PoolInit /\ [][PoolNext]_poolVars

-----------------------------------------------------------------------------
(* Properties. *)

(* Type correctness of the pool and its pass.                              *)
PoolTypeOK ==
  /\ pool \subseteq Token /\ cooling \subseteq Token
  /\ probe \in [pc : {"list", "probe", "swap"}, todo : SUBSET Token, topup : BOOLEAN]
  /\ result \in [Token -> ProbeResult]
  /\ balance \in [received : Nat, written : Nat, deleted : Nat]

(* A file goes only if this very pass asked the server about it and was    *)
(* told it is of no use: none that passed, none that could not be asked,   *)
(* none that only waits out a cooldown, none added since the listing       *)
(* (probe_loop.py:395-413).                                                *)
OnlyRejectedGo ==
  [][\A f \in pool \ pool' : result[f] = "invalid" /\ f \notin probe.todo]_poolVars

(* The pool shrinks in a pass by no more than the replacements that were   *)
(* received and could not be written (probe_loop.py:523-587).              *)
ShrinksByLostOnly == balance.deleted <= balance.received

(* The pool loses what the server rejected, no other file, and no more of  *)
(* them than it had replacements for (probe_loop.py:395-639).              *)
PoolKeepsTheGood == [](PoolTypeOK /\ ShrinksByLostOnly) /\ OnlyRejectedGo

=============================================================================
