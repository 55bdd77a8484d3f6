-------------------------------- MODULE Leases --------------------------------
(***************************************************************************)
(* What the registries promise their callers about leases, whatever is     *)
(* cancelled, reported late, crashed or stopped: a runtime works for one   *)
(* task at a time, and a task is given a runtime at most once.             *)
(***************************************************************************)
CONSTANTS Task, Runtime, NoTask

VARIABLES
  holder,   \* the task each runtime works for, or NoTask
  granted   \* the tasks that were ever given a runtime

leaseVars == <<holder, granted>>

Free(r) == holder[r] = NoTask

Init ==
  /\ holder = [r \in Runtime |-> NoTask]
  /\ granted = {}

Grant(t, r) ==
  /\ t \notin granted /\ Free(r)
  /\ holder' = [holder EXCEPT ![r] = t]
  /\ granted' = granted \union {t}

(* The task ended, or the runtime did.                                     *)
End(r) ==
  /\ ~Free(r)
  /\ holder' = [holder EXCEPT ![r] = NoTask]
  /\ UNCHANGED granted

Next == \E r \in Runtime : End(r) \/ \E t \in Task : Grant(t, r)

Spec == Init /\ [][Next]_leaseVars

=============================================================================
