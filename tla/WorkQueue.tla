------------------------------ MODULE WorkQueue ------------------------------
(***************************************************************************)
(* What a directory queue promises, whatever its workers do: an item is    *)
(* waiting or taken until it is settled, it is settled only if its outcome *)
(* has been booked, and once settled it never comes back.                  *)
(***************************************************************************)
CONSTANT Item

VARIABLES
  status,  \* "waiting", "taken" or "settled"
  booked   \* the items whose outcome is on record

queueVars == <<status, booked>>

QueueInit ==
  /\ status = [i \in Item |-> "waiting"]
  /\ booked = {}

Move(i, from, to) ==
  /\ status[i] = from
  /\ status' = [status EXCEPT ![i] = to]
  /\ UNCHANGED booked

Take(i)   == Move(i, "waiting", "taken")
Return(i) == Move(i, "taken", "waiting")
Settle(i) == i \in booked /\ Move(i, "taken", "settled")

Book(i) ==
  /\ booked' = booked \union {i}
  /\ UNCHANGED status

QueueNext == \E i \in Item : Take(i) \/ Return(i) \/ Settle(i) \/ Book(i)

QueueSpec == QueueInit /\ [][QueueNext]_queueVars
=============================================================================
