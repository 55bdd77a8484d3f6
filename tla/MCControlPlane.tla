---------------------------- MODULE MCControlPlane ----------------------------
(* Instances of ControlPlane for TLC. *)
EXTENDS ControlPlane, TLC

CONSTANTS t1, t2, t3, r1, r2, p1

Request0 ==
  [mode |-> "direct", provider |-> p1, runtime |-> NoRuntime, allowed |-> {},
   capable |-> Provider, rank |-> [o \in Provider |-> 0]]

(* Requests for the provider, and the pinned requests of browser sessions. *)
Unpinned == {Request0}
Pinned == Unpinned \union { [Request0 EXCEPT !.runtime = r] : r \in Runtime }

(* Requests on a session: they never spawn.                                *)
PinnedOnly == Pinned \ Unpinned

Startup == [category |-> "startup", code |-> "spawn_failed", candidate |-> TRUE]
Transport == [category |-> "transport", code |-> "dispatch_failed", candidate |-> TRUE]
Blocked == [category |-> "blocked", code |-> "action_blocked", candidate |-> TRUE]
Errors == {Startup, Transport, Blocked}

Symmetry == Permutations(Task) \union Permutations(Runtime)
=============================================================================
