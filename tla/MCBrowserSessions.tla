-------------------------- MODULE MCBrowserSessions --------------------------
(* Instances of BrowserSessions for TLC. *)
EXTENDS BrowserSessions, TLC

CONSTANTS c1, c2, c3, r1, p1

Acquiring ==
  [mode |-> "strategy", provider |-> NoProvider, runtime |-> NoRuntime, allowed |-> {},
   capable |-> Provider, rank |-> [o \in Provider |-> 0]]

(* What the API submits: acquiring, and pinned to the runtime of a session *)
Requests ==
  {Acquiring} \union
  {[Acquiring EXCEPT !.mode = "direct", !.runtime = r] : r \in Runtime}

(* A page the process does not have; of the failures here only the crash   *)
(* of a process leads to a cooldown.                                       *)
NotFound == [category |-> "flow_error", code |-> "action_failed", candidate |-> FALSE]
Errors == {NotFound}
=============================================================================
